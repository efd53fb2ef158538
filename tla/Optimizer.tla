------------------------------ MODULE Optimizer ------------------------------
(***************************************************************************)
(* The passes over the intermediate code                                   *)
(* (src/src/compiler/middle/optimizer.c).  Each goes over a function's     *)
(* blocks in the order in which they lie, whatever jumps between them.     *)
(***************************************************************************)
EXTENDS Lowering, Bitwise
LOCAL INSTANCE SequencesExt

CONSTANTS FoldBits,                     \* width of a folded number, 64
          MaxTemps                      \* temporaries the passes keep track of, 256

----------------------------------------------------------------------------
(* Arithmetic in two's complement of some width *)

SignedIn(v, bits) == ((v + 2 ^ (bits - 1)) % 2 ^ bits) - 2 ^ (bits - 1)
Quotient(a, b) ==
  LET abs(n) == IF n < 0 THEN -n ELSE n
      q == abs(a) \div abs(b)
  IN  IF (a < 0) = (b < 0) THEN q ELSE -q
Truth(b) == IF b THEN 1 ELSE 0

Comparisons == {"EQ", "NE", "LT", "LE", "GT", "GE"}
BinaryOps == {"ADD", "SUB", "MUL", "DIV", "MOD", "AND", "OR", "XOR", "SHL", "SHR"} \cup Comparisons
HasResult(op, b) == op \in BinaryOps /\ (op \in {"DIV", "MOD"} => b # 0)
Compute(op, a, b, bits) ==
  LET u == a % 2 ^ bits
      v == b % 2 ^ bits
      n == CASE op = "ADD" -> a + b
             [] op = "SUB" -> a - b
             [] op = "MUL" -> a * b
             [] op = "DIV" -> Quotient(a, b)
             [] op = "MOD" -> a - b * Quotient(a, b)
             [] op = "AND" -> u & v
             [] op = "OR" -> u | v
             [] op = "XOR" -> u ^^ v
             [] op = "SHL" -> a * 2 ^ b
             [] op = "SHR" -> u \div 2 ^ b
             [] op = "EQ" -> Truth(a = b)
             [] op = "NE" -> Truth(a # b)
             [] op = "LT" -> Truth(a < b)
             [] op = "LE" -> Truth(a <= b)
             [] op = "GT" -> Truth(a > b)
             [] op = "GE" -> Truth(a >= b)
  IN  SignedIn(n, bits)

----------------------------------------------------------------------------
(* Constant folding *)

isConst(o) == o.id = -1
IsNumber(o, n) == isConst(o) /\ o.imm = n
With(ins, op, arg1, arg2) == [ins EXCEPT !.op = op, !.arg1 = arg1, !.arg2 = arg2]

FoldBinary(ins) ==
  IF isConst(ins.arg1) /\ isConst(ins.arg2) /\ HasResult(ins.op, ins.arg2.imm)
    THEN With(ins, "CONST", irImm(Compute(ins.op, ins.arg1.imm, ins.arg2.imm, FoldBits)), irImm(0))
    ELSE ins
FoldUnary(ins) ==
  IF isConst(ins.arg1) /\ IsNumber(ins.arg2, 0) /\ ins.op \in {"NEG", "NOT"}
    THEN With(ins, "CONST", irImm(IF ins.op = "NEG" THEN -ins.arg1.imm ELSE -ins.arg1.imm - 1), ins.arg2)
    ELSE ins

Simplified(ins) ==
  LET a == ins.arg1
      b == ins.arg2
      Copy(x) == With(ins, "MOVE", x, irImm(0))
  IN  IF (ins.op \in {"ADD", "SUB"} /\ IsNumber(b, 0)) \/ (ins.op \in {"MUL", "DIV"} /\ IsNumber(b, 1))
        THEN Copy(a)
      ELSE IF ins.op = "ADD" /\ IsNumber(a, 0) THEN Copy(b)
      ELSE IF ins.op = "MUL" /\ IsNumber(b, 0) THEN With(ins, "CONST", irImm(0), irImm(0))
      ELSE IF ins.op = "MUL" /\ (IsNumber(b, 2) \/ IsNumber(b, 4))
        THEN With(ins, "SHL", a, irImm(b.imm \div 2))
      ELSE ins

FoldBranch(ins) ==
  IF ins.op \notin {"BRANCH", "BRANCHZ"} \/ ~isConst(ins.arg1) THEN ins
  ELSE IF (ins.op = "BRANCHZ") = (ins.arg1.imm = 0) THEN With(ins, "JUMP", ins.arg2, irImm(0))
  ELSE [ins EXCEPT !.op = "NOP"]

EveryInstr(ir, Pass(_)) ==
  [f \in DOMAIN ir |-> [ir[f] EXCEPT !.blocks =
     [b \in DOMAIN @ |-> [@[b] EXCEPT !.instrs = [i \in DOMAIN @ |-> Pass(@[i])]]]]]
FoldInstr(ins) == FoldBranch(Simplified(FoldUnary(FoldBinary(ins))))
optimizerConstantFold(ir) == EveryInstr(ir, FoldInstr)

----------------------------------------------------------------------------
(* Copy propagation *)

Tracked(o) == o.id \in 0 .. MaxTemps - 1
CopyOf(copyOf, o) == IF o.id \in DOMAIN copyOf THEN copyOf[o.id] ELSE o

\* copyOf: what each temporary has been set to, last of all in the order of the text.
Propagate(acc, ins) ==
  LET copies == ins.op \in {"MOVE", "CONST"}
      copyOf == IF copies /\ Tracked(ins.result) THEN (ins.result.id :> ins.arg1) @@ acc.copyOf
                ELSE acc.copyOf
      defines == ~copies /\ Tracked(ins.result)
  IN  [copyOf |-> IF defines THEN [t \in DOMAIN copyOf \ {ins.result.id} |-> copyOf[t]] ELSE copyOf,
       instrs |-> Append(acc.instrs, [ins EXCEPT !.arg1 = CopyOf(copyOf, @), !.arg2 = CopyOf(copyOf, @)])]
PropagateBlock(acc, block) ==
  LET in == FoldLeft(Propagate, [copyOf |-> acc.copyOf, instrs |-> <<>>], block.instrs)
  IN  [copyOf |-> in.copyOf, blocks |-> Append(acc.blocks, [block EXCEPT !.instrs = in.instrs])]
optimizerCopyPropagation(ir) ==
  [f \in DOMAIN ir |-> [ir[f] EXCEPT !.blocks =
     FoldLeft(PropagateBlock, [copyOf |-> [t \in {} |-> irImm(0)], blocks |-> <<>>], @).blocks]]

----------------------------------------------------------------------------
(* Dead code elimination *)

\* A mutant of the next: a call whose result is not used is dead.
EffectsButCall == {"STORE", "RETURN", "JUMP", "BRANCH", "BRANCHZ", "PARAM", "LABEL"}
SideEffects == {"STORE", "CALL", "RETURN", "JUMP", "BRANCH", "BRANCHZ", "PARAM", "LABEL"}
InstrsOf(func) == UNION {Range(func.blocks[b].instrs) : b \in DOMAIN func.blocks}
Used(func) == {ins.arg1.id : ins \in InstrsOf(func)} \cup {ins.arg2.id : ins \in InstrsOf(func)}

optimizerDeadCodeElim(ir) ==
  [f \in DOMAIN ir |->
     LET used == Used(ir[f])
         Kept(ins) == /\ ins.op \in SideEffects \/ ~Tracked(ins.result) \/ ins.result.id \in used
                      /\ ins.op # "NOP"
     IN  [ir[f] EXCEPT !.blocks = [b \in DOMAIN @ |-> [@[b] EXCEPT !.instrs = SelectSeq(@, Kept)]]]]

----------------------------------------------------------------------------
(* optimizerRun *)

Passes(level) ==
  (IF level >= 1 THEN <<"fold", "copy">> ELSE <<>>) \o (IF level >= 2 THEN <<"dead", "fold">> ELSE <<>>)
Pass(name, ir) ==
  CASE name = "fold" -> optimizerConstantFold(ir)
    [] name = "copy" -> optimizerCopyPropagation(ir)
    [] name = "dead" -> optimizerDeadCodeElim(ir)

=============================================================================
