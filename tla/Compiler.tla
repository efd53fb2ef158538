------------------------------ MODULE Compiler ------------------------------
(***************************************************************************)
(* The C compiler (compilerCompileString of src/src/compiler/compiler.c):  *)
(* it parses one declaration after the other, analyses the tree, lowers    *)
(* it, runs the passes of the optimisation level and generates code.  An   *)
(* error of the parser or of the analysis ends it.                         *)
(*                                                                         *)
(* A program is a sequence of tokens and what it is meant to be: the tree  *)
(* that a C parser would give.                                             *)
(***************************************************************************)
EXTENDS CodeGen
LOCAL INSTANCE SequencesExt

CONSTANT Programs

VARIABLES program,
          stage,
          parser,                       \* tokens, at which it is, errors
          unit,                         \* the declarations of the translation unit
          ir,
          todo,                         \* passes to run
          code
compilerVars == <<program, stage, parser, unit, ir, todo, code>>

CompilerInit ==
  /\ program \in Programs
  /\ stage = "parsing"
  /\ parser = [tokens |-> program.tokens, at |-> 1, errors |-> 0, nodes |-> <<>>]
  /\ unit = <<>> /\ ir = <<>> /\ todo = <<>> /\ code = <<>>

AtEnd == check(parser, {"eof"})

ExternalDecl ==
  /\ stage = "parsing" /\ ~AtEnd
  /\ LET p == parseExternalDecl(parser) IN
       /\ parser' = pop(p)
       /\ unit' = IF Missing(p) THEN unit ELSE Append(unit, Top(p))
  /\ UNCHANGED <<program, stage, ir, todo, code>>

Analyze ==
  /\ stage = "parsing" /\ AtEnd
  /\ LET sema == ccSemaAnalyze(unit) IN
       /\ stage' = IF parser.errors = 0 /\ sema.errors = 0 THEN "analyzed" ELSE "rejected"
       /\ unit' = IF parser.errors = 0 THEN sema.nodes ELSE unit
  /\ UNCHANGED <<program, parser, ir, todo, code>>

\* Whether adding a block moves the others is the allocator's choice.
Lower ==
  /\ stage = "analyzed"
  /\ \E moved \in BOOLEAN, level \in 0 .. 2 :
       /\ ir' = lowerAstToIr(unit, moved)
       /\ todo' = Passes(level)
  /\ stage' = "lowered"
  /\ UNCHANGED <<program, parser, unit, code>>

Optimize ==
  /\ stage \in {"lowered", "optimized"} /\ todo # <<>>
  /\ ir' = Pass(Head(todo), ir)
  /\ todo' = Tail(todo)
  /\ stage' = "optimized"
  /\ UNCHANGED <<program, parser, unit, code>>

Generate ==
  /\ stage \in {"lowered", "optimized"} /\ todo = <<>>
  /\ code' = codeGenEmit(ir)
  /\ stage' = "generated"
  /\ UNCHANGED <<program, parser, unit, ir, todo>>

CompilerNext == ExternalDecl \/ Analyze \/ Lower \/ Optimize \/ Generate

=============================================================================
