----------------------------- MODULE MCMeaning -----------------------------
(***************************************************************************)
(* What a program means: as C, as intermediate code and as assembly.       *)
(*                                                                         *)
(* A byte has three bits here, an int 6 and a long or a register 12.  An   *)
(* outcome is what can be seen from outside: the value returned, the       *)
(* global variables, the memory that pointers lead to and the calls of g,  *)
(* a function of one argument that is defined elsewhere.  An outcome is    *)
(* Undefined where C leaves it open.                                       *)
(***************************************************************************)
EXTENDS Compiler
LOCAL INSTANCE SequencesExt

ByteWidth == 3
LongBits == 12
IntBits == 6
Junk == 77                              \* what is in a place that nothing has been put into
Long(v) == SignedIn(v, LongBits)
Fuel == 120                             \* steps that are taken at most
HalfRange == -32 .. 31

Undefined == [value |-> Junk, mem |-> <<>>, heap |-> <<>>, trace |-> <<>>]
Outcome(value, globals, mem, heap, trace) ==
  [value |-> value, mem |-> [v \in globals |-> mem[v]], heap |-> heap, trace |-> trace]
Returned(trace, args) == 3 + Len(trace)
CountOk(op, n) == op \in {"SHL", "SHR"} => n \in 0 .. LongBits - 1

\* Words of memory, two to a long.
ReadAt(heap, a, size) ==
  IF size = 4 THEN Long(heap[a] * 2 ^ IntBits + (heap[a + 2] % 2 ^ IntBits)) ELSE SignedIn(heap[a], IntBits)
WriteAt(heap, a, size, v) ==
  IF size = 4 THEN [heap EXCEPT ![a] = SignedIn(v \div 2 ^ IntBits, IntBits), ![a + 2] = SignedIn(v, IntBits)]
  ELSE [heap EXCEPT ![a] = SignedIn(v, IntBits)]
Readable(heap, a) == {a, a + 2} \subseteq DOMAIN heap

----------------------------------------------------------------------------
(* C, on the tree as it was written *)

\* st: variables and their types, memory, calls, what ends a statement, the value returned,
\* whether it is undefined, what has happened that the compiler is known not to honour, and a
\* stack of values: what evaluates an expression puts its value there, or its place.
BytesOfType(type) == resolveType(type).size
Pointee(type) == resolveType(type).base[1].size
Odd(st, what, happened) == IF happened THEN [st EXCEPT !.odd = @ \cup {what}] ELSE st
UndefinedIf(st, b) == IF b THEN [st EXCEPT !.undefined = TRUE] ELSE st
Again(st) == Give(st, Val(st, 1))
Exchange(st) == Give(Replace(st, 2, Val(st, 1)), Val(st, 2))

\* The pointee's size of an expression that is a variable.
Elem(st, n) == IF n.type = "IDENT" THEN Pointee(st.types[n.name]) ELSE 4
PointerTo(st, n) == n.type = "IDENT" /\ n.name \in DOMAIN st.types /\ st.types[n.name].type = "POINTER"

RECURSIVE Eval(_, _), PlaceOf(_, _)
Eval1(st, n) == Eval(st, n.kids[1])
EvalBoth(st, n) == Eval(Eval(st, n.kids[1]), n.kids[2])

\* Where an lvalue is: a variable's name or an address and a size.
Place(name, a, size) == [name |-> name, a |-> a, size |-> size]
PointedTo(st, size) == Replace(st, 1, Place("", Val(st, 1), size))
ElementIn(st, size) == Replace(st, 2, Place("", Val(st, 2) + size * Val(st, 1), size))
PlaceOf(st, n) ==
  CASE n.type = "IDENT" -> Give(st, Place(n.name, 0, BytesOfType(st.types[n.name])))
    [] n.type = "UNARY_OP" -> PointedTo(Eval1(st, n), Elem(st, n.kids[1]))
    [] n.type = "INDEX" -> ElementIn(EvalBoth(st, n), Elem(st, n.kids[1]))

FoundAt(st, place) ==
  IF place.name # "" THEN Replace(Odd(st, "parameter", place.name \in st.params), 1, st.mem[place.name])
  ELSE IF Readable(st.heap, place.a)
    THEN Replace(Odd(st, "size", place.size # 4), 1, ReadAt(st.heap, place.a, place.size))
  ELSE Replace(UndefinedIf(st, TRUE), 1, 0)
Contents(st) == FoundAt(st, Val(st, 1))

\* A value goes to the place under it, as wide as that is.
PutIn(st, place, w) ==
  IF place.name # "" THEN [st EXCEPT !.mem[place.name] = w]
  ELSE IF ~Readable(st.heap, place.a) THEN UndefinedIf(st, TRUE)
  ELSE [Odd(st, "size", place.size # 4) EXCEPT !.heap = WriteAt(@, place.a, place.size, w)]
Narrowed(st, n, w) == Replace(Odd(st, "narrowed", w # Val(st, 1)), n, w)
Width(st, size) == SignedIn(Val(st, 1), ByteWidth * size)
Assigned(st) == Narrowed(PutIn(st, Val(st, 2), Width(st, Val(st, 2).size)), 2, Width(st, Val(st, 2).size))

Unspecified(op, a, b) == ~HasResult(op, b) \/ ~CountOk(op, b) \/ (op = "SHR" /\ a < 0)
InRange(st, v) == Replace(UndefinedIf(st, Long(v) # v), 2, v)
Operate(st, op) ==
  IF Unspecified(op, Val(st, 2), Val(st, 1)) THEN Replace(UndefinedIf(st, TRUE), 2, 0)
  ELSE InRange(st, Compute(op, Val(st, 2), Val(st, 1), 2 * LongBits))
\* A pointer moves by elements.
Scale(st, n, other) == IF PointerTo(st, n.kids[1]) /\ other THEN Elem(st, n.kids[1]) ELSE 1
Scaled(st, by) == Replace(Odd(st, "unscaled", by # 1), 1, by * Val(st, 1))

\* An operand that is not evaluated, and what evaluating it would have done.
NotEvaluated(st, n) == Odd(st, "skipped", Drop(Eval(st, n), 1) # st)
AsTruth(st) == Replace(st, 1, Truth(Val(st, 1) # 0))
Logical(st, second, decides) ==
  IF (Val(st, 1) # 0) = decides THEN AsTruth(NotEvaluated(st, second)) ELSE AsTruth(Eval(Drop(st, 1), second))

Arguments2(st, args) == FoldRight(LAMBDA arg, s : Eval(s, arg), args, st)
Called(st, args) == Replace([st EXCEPT !.trace = Append(@, args)], Len(args), Returned(st.trace, args))
Calls(st, n) == Called(st, [i \in 1 .. n |-> Val(st, i)])

\* With the place and what is there.
Incremented(st, by) ==
  Assigned(Replace(Odd(Odd(st, "not stored", Val(st, 2).name = ""), "unscaled", by \notin {1, -1}), 1, Val(st, 1) + by))
Increment(st, n, by) ==
  CASE n.name = "pre++" -> Incremented(st, by)
    [] n.name = "pre--" -> Incremented(st, -by)
    [] n.name = "post++" -> Replace(Incremented(st, by), 1, Val(st, 1))
    [] n.name = "post--" -> Replace(Incremented(st, -by), 1, Val(st, 1))

\* With the value of the right side and the place.
Updating(st) == Give(Contents(Again(Replace(st, 2, Val(st, 1)))), Val(st, 2))
AssignTo2(st, n) ==
  Assigned(IF n.name = "=" THEN Exchange(st)
           ELSE Operate(Scaled(Updating(Odd(st, "operator dropped", Val(st, 1).name = "")), Scale(st, n, TRUE)),
                        IrAssignOp[n.name]))
UnaryValue(op, v) ==
  CASE op = "-" -> -v [] op = "+" -> v [] op = "~" -> -v - 1 [] op = "!" -> Truth(v = 0)
OnValue(st, op) == Replace(st, 1, UnaryValue(op, Val(st, 1)))
Alternative(st, n) == Eval(Drop(st, 1), n.kids[IF Val(st, 1) # 0 THEN 2 ELSE 3])

Eval(st, n) ==
  CASE n.type \in {"INT_LITERAL", "CHAR_LITERAL"} -> Give(st, n.value)
    [] n.type \in {"IDENT", "INDEX"} \/ (n.type = "UNARY_OP" /\ n.name = "*") -> Contents(PlaceOf(st, n))
    [] n.type = "UNARY_OP" /\ n.name \in {"pre++", "post++", "pre--", "post--"} ->
         Increment(Contents(Again(PlaceOf(st, n.kids[1]))), n, Scale(st, n, TRUE))
    [] n.type = "UNARY_OP" /\ n.name \in {"-", "+", "~", "!"} -> OnValue(Eval1(st, n), n.name)
    [] n.type = "BINARY_OP" /\ n.name \in {"&&", "||"} -> Logical(Eval1(st, n), n.kids[2], n.name = "||")
    [] n.type = "BINARY_OP" /\ n.name \notin {"&&", "||"} ->
         Operate(Scaled(EvalBoth(st, n), Scale(st, n, n.name \in {"+", "-"})), IrOp[n.name])
    [] n.type = "ASSIGN" -> AssignTo2(PlaceOf(Eval(st, n.kids[2]), n.kids[1]), n)
    [] n.type = "CALL" -> Calls(Arguments2(st, Tail(n.kids)), Len(n.kids) - 1)
    [] n.type = "CAST" ->
         Narrowed(Eval(st, n.kids[2]), 1, Width(Eval(st, n.kids[2]), BytesOfType(n.kids[1])))
    [] n.type = "SIZEOF" ->
         Give(st, BytesOfType(IF IsTypeNode(n.kids[1]) THEN n.kids[1] ELSE st.types[n.kids[1].name]))
    [] n.type = "TERNARY" -> Alternative(Eval1(st, n), n)
    [] n.type = "COMMA_EXPR" -> Eval(Drop(Eval1(st, n), 1), n.kids[2])

RECURSIVE Exec(_, _), Loop(_, _, _, _)
Running(st) == st.sig = "" /\ ~st.undefined
ExecAll(st, nodes) == FoldLeft(LAMBDA s, n : IF Running(s) THEN Exec(s, n) ELSE s, st, nodes)
ValueOr1(st, n) == IF n.type = "none" THEN Give(st, 1) ELSE Eval(st, n)
Unless(st, sig) == [st EXCEPT !.sig = IF @ = sig THEN "" ELSE @]
Returns(st) == [Drop(st, 1) EXCEPT !.sig = "return", !.ret = Val(st, 1)]
Alternatives(st, n) ==
  IF Val(st, 1) # 0 THEN Exec(Drop(st, 1), n.kids[2])
  ELSE IF Len(n.kids) > 2 THEN Exec(Drop(st, 1), n.kids[3]) ELSE Drop(st, 1)

\* From the test on; then the body, unless a signal leaves it, and the step.
FromStep(st, test, body, step) ==
  IF Running(st) THEN Loop(Drop(ValueOr1(st, step), 1), test, body, step) ELSE Unless(st, "break")
FromBody(st, test, body, step) ==
  IF Val(st, 1) = 0 \/ st.undefined THEN Drop(st, 1)
  ELSE FromStep(Unless(Exec(Drop(st, 1), body), "continue"), test, body, step)
Loop(st, test, body, step) == FromBody(ValueOr1(st, test), test, body, step)

\* Names that a block declares hide those outside of it.
Outside(before, after, names) ==
  [after EXCEPT !.mem = [v \in DOMAIN before.mem |-> IF v \in names THEN before.mem[v] ELSE @[v]],
                !.types = [v \in DOMAIN before.mem |-> before.types[v]]]
DeclaredIn(nodes) == {nodes[i].name : i \in {i \in DOMAIN nodes : nodes[i].type = "VAR_DECL"}}
Introduced(st, n) ==
  [Odd(st, "hidden", n.name \in DOMAIN st.mem)
     EXCEPT !.mem = (n.name :> 0) @@ @, !.types = (n.name :> n.kids[1]) @@ @, !.params = @ \ {n.name}]
Initialised(st, n) == Drop(Assigned(Exchange(PlaceOf(Eval(st, n.kids[2]), Node("IDENT", n.name, 0)))), 1)

Cases(nodes, v) == {i \in DOMAIN nodes : nodes[i].type = "CASE_STMT" /\ nodes[i].kids[1].value = v}
Defaults(nodes) == {i \in DOMAIN nodes : nodes[i].type = "DEFAULT_STMT"}
SwitchLeft(st, start) == Odd(Unless(st, "break"), "switch", start # 1 \/ st.sig = "continue")
SwitchAmong(st, body, starts) ==
  IF starts = {} THEN Odd(st, "switch", TRUE)
  ELSE LET start == CHOOSE i \in starts : TRUE
       IN  SwitchLeft(ExecAll(st, SubSeq(body, start, Len(body))), start)
Switch(st, body) ==
  SwitchAmong(Drop(st, 1), body, IF Cases(body, Val(st, 1)) # {} THEN Cases(body, Val(st, 1)) ELSE Defaults(body))

Exec(st, n) ==
  CASE n.type = "COMPOUND_STMT" -> Outside(st, ExecAll(st, n.kids), DeclaredIn(n.kids))
    [] n.type = "VAR_DECL" ->
         IF Len(n.kids) < 2 THEN Introduced(st, n) ELSE Initialised(Introduced(st, n), n)
    [] n.type = "EXPR_STMT" -> IF n.kids = <<>> THEN st ELSE Drop(Eval1(st, n), 1)
    [] n.type = "RETURN_STMT" -> Returns(Eval1(st, n))
    [] n.type = "IF_STMT" -> Alternatives(Eval1(st, n), n)
    [] n.type = "WHILE_STMT" -> Loop(st, n.kids[1], n.kids[2], NoNode)
    [] n.type = "DO_WHILE_STMT" ->
         FromStep(Unless(Exec(st, n.kids[1]), "continue"), n.kids[2], n.kids[1], NoNode)
    [] n.type = "FOR_STMT" ->
         Outside(st, Loop(IF n.kids[1].type = "none" THEN st ELSE Exec(st, n.kids[1]), n.kids[2], n.kids[4], n.kids[3]),
                 DeclaredIn(<<n.kids[1]>>))
    [] n.type = "SWITCH_STMT" -> Switch(Eval1(st, n), n.kids[2].kids)
    [] n.type \in {"CASE_STMT", "DEFAULT_STMT", "LABEL_STMT"} -> Exec(st, Last(n.kids))
    [] n.type = "BREAK_STMT" -> [st EXCEPT !.sig = "break"]
    [] n.type = "CONTINUE_STMT" -> [st EXCEPT !.sig = "continue"]
    [] n.type = "GOTO_STMT" -> UndefinedIf(st, TRUE)

\* The last declaration is the function; the variables before it are global.
TypesIn(nodes, type) ==
  LET of == {i \in DOMAIN nodes : nodes[i].type = type}
  IN  [v \in {nodes[i].name : i \in of} |-> nodes[CHOOSE i \in of : nodes[i].name = v].kids[1]]
Begun(types, params, input) ==
  [mem |-> [v \in DOMAIN types \cup DOMAIN params |-> input.mem[v]], types |-> params @@ types,
   params |-> DOMAIN params, heap |-> input.heap, trace |-> <<>>, sig |-> "", ret |-> Junk,
   undefined |-> FALSE, odd |-> {}, vals |-> <<>>]
Meant(st, globals) ==
  [outcome |-> IF st.undefined THEN Undefined ELSE Outcome(st.ret, globals, st.mem, st.heap, st.trace), odd |-> st.odd]
CMeaning(decls, input) ==
  Meant(Exec(Begun(TypesIn(decls, "VAR_DECL"), TypesIn(Last(decls).kids, "PARAM"), input), Last(Last(decls).kids)),
        DeclaredIn(decls))

----------------------------------------------------------------------------
(* Intermediate code *)

BlockOf(blocks, label) == CHOOSE b \in DOMAIN blocks : blocks[b].label = label
Goto(m, blocks, label) ==
  IF \E b \in DOMAIN blocks : blocks[b].label = label
    THEN [m EXCEPT !.b = BlockOf(blocks, label), !.i = 1] ELSE [m EXCEPT !.end = "undefined"]
IrVal(m, o) ==
  CASE o.id = -1 -> Long(o.imm)
    [] o.id = -2 -> Junk
    [] OTHER -> IF o.id \in DOMAIN m.temps THEN m.temps[o.id] ELSE Junk
IrSet(m, ins, v) == [m EXCEPT !.temps = (ins.result.id :> v) @@ @, !.i = @ + 1]
IrStep(m, blocks) ==
  LET ins == blocks[m.b].instrs[m.i]
      a == IrVal(m, ins.arg1)
      b == IrVal(m, ins.arg2)
      next == [m EXCEPT !.i = @ + 1]
      n == ins.arg2.imm
      args == SubSeq(m.stack, 1, n)
  IN  IF m.i > Len(blocks[m.b].instrs)
        THEN (IF m.b < Len(blocks) THEN [m EXCEPT !.b = @ + 1, !.i = 1] ELSE [m EXCEPT !.end = "undefined"])
      ELSE IF ins.op \in BinaryOps
        THEN (IF HasResult(ins.op, b) /\ CountOk(ins.op, b)
                THEN [IrSet(m, ins, Compute(ins.op, a, b, LongBits)) EXCEPT
                        !.wide = @ \/ (ins.op = "MUL" /\ {a, b} \cap HalfRange # {a, b})
                                   \/ (ins.op \in {"DIV", "MOD"} /\ {b, Quotient(a, b)} \cap HalfRange # {b, Quotient(a, b)})]
                ELSE [m EXCEPT !.end = "undefined"])
      ELSE CASE ins.op \in {"MOVE", "CONST", "CAST"} -> IrSet(m, ins, a)
             [] ins.op = "NEG" -> IrSet(m, ins, Long(-a))
             [] ins.op = "NOT" -> IrSet(m, ins, -a - 1)
             [] ins.op = "LOAD" -> IrSet(m, ins, IF ins.arg1.name \in DOMAIN m.mem THEN m.mem[ins.arg1.name] ELSE Junk)
             [] ins.op = "STORE" ->
                  IF ins.arg1.id = -2 THEN [next EXCEPT !.mem = (ins.arg1.name :> b) @@ @]
                  ELSE IF Readable(m.heap, a) THEN [next EXCEPT !.heap = WriteAt(@, a, 4, b)]
                  ELSE [m EXCEPT !.end = "undefined"]
             [] ins.op = "DEREF" -> IF Readable(m.heap, a) THEN IrSet(m, ins, ReadAt(m.heap, a, 4))
                                    ELSE [m EXCEPT !.end = "undefined"]
             [] ins.op = "PARAM" -> [next EXCEPT !.stack = <<a>> \o @]
             [] ins.op = "CALL" -> [IrSet(m, ins, Returned(m.trace, args)) EXCEPT
                                      !.trace = Append(@, args), !.stack = SubSeq(@, n + 1, Len(@))]
             [] ins.op = "JUMP" -> Goto(m, blocks, ins.arg1.name)
             [] ins.op = "BRANCH" -> IF a # 0 THEN Goto(m, blocks, ins.arg2.name) ELSE next
             [] ins.op = "BRANCHZ" -> IF a = 0 THEN Goto(m, blocks, ins.arg2.name) ELSE next
             [] ins.op = "RETURN" -> [m EXCEPT !.end = "returned", !.ret = a]
             [] OTHER -> next

RECURSIVE IrRun(_, _, _)
IrRun(m, blocks, fuel) ==
  IF m.end # "" \/ fuel = 0 THEN m ELSE IrRun(IrStep(m, blocks), blocks, fuel - 1)
IrMeaning(func, globals, input) ==
  LET start == [mem |-> [v \in globals |-> input.mem[v]], heap |-> input.heap, temps |-> [t \in {} |-> 0], stack |-> <<>>,
                trace |-> <<>>, b |-> 1, i |-> 1, end |-> "", ret |-> Junk, wide |-> FALSE]
      m == IrRun(start, func.blocks, Fuel)
  IN  [outcome |-> IF m.end = "returned" THEN Outcome(m.ret, globals, m.mem, m.heap, m.trace) ELSE Undefined,
       wide |-> m.wide]

----------------------------------------------------------------------------
(* Assembly *)

Half(v) == SignedIn(v, IntBits)
Upper(v) == SignedIn(v \div 2 ^ IntBits, IntBits)

\* The registers that are saved lie where the frame's slots do.
SavedAt == {-4 * k : k \in 1 .. 10}
CanRead(m, at) ==
  CASE at.mode \in {"D", "A0", "#"} -> TRUE
    [] at.mode = "name" -> TRUE
    [] at.mode = "d(A6)" -> at.n \in SavedAt
    [] at.mode = "(A0)" -> Readable(m.heap, m.a0)
    [] OTHER -> FALSE
Get(m, at) ==
  CASE at.mode = "D" -> m.d[at.n]
    [] at.mode = "A0" -> m.a0
    [] at.mode = "#" -> Long(at.n)
    [] at.mode = "name" -> IF at.name \in DOMAIN m.mem THEN m.mem[at.name] ELSE Junk
    [] at.mode = "d(A6)" -> m.frame[at.n]
    [] at.mode = "(A0)" -> ReadAt(m.heap, m.a0, 4)
CanWrite(m, at) == at.mode \in {"-(SP)"} \/ (at.mode # "#" /\ CanRead(m, at))
Put(m, at, v) ==
  CASE at.mode = "D" -> [m EXCEPT !.d[at.n] = v]
    [] at.mode = "A0" -> [m EXCEPT !.a0 = v]
    [] at.mode = "name" -> [m EXCEPT !.mem = (at.name :> v) @@ @]
    [] at.mode = "d(A6)" -> [m EXCEPT !.frame[at.n] = v]
    [] at.mode = "-(SP)" -> [m EXCEPT !.stack = <<v>> \o @]
    [] at.mode = "(A0)" -> [m EXCEPT !.heap = WriteAt(@, m.a0, 4, v)]
Bad(m) == [m EXCEPT !.end = "undefined"]
InstrOf(op) ==
  "ADD.L" :> "ADD" @@ "SUB.L" :> "SUB" @@ "AND.L" :> "AND" @@ "OR.L" :> "OR" @@ "EOR.L" :> "XOR"
    @@ "LSL.L" :> "SHL" @@ "LSR.L" :> "SHR"
Sets2 == "SEQ" :> "EQ" @@ "SNE" :> "NE" @@ "SLT" :> "LT" @@ "SLE" :> "LE" @@ "SGT" :> "GT" @@ "SGE" :> "GE"

\* Operands that the instruction set has: one of the two is a data register or a number, and
\* what is multiplied, shifted or compared with is a data register.
Encodable(l) ==
  CASE l.op \in {"ADD.L", "SUB.L", "AND.L", "OR.L"} -> l.src.mode \in {"D", "#"} \/ l.dst.mode = "D"
    [] l.op = "EOR.L" -> l.src.mode \in {"D", "#"}
    [] l.op \in {"LSL.L", "LSR.L"} -> l.dst.mode = "D" /\ l.src.mode \in {"D", "#"}
    [] l.op \in {"MULS.W", "DIVS.W"} -> l.dst.mode = "D"
    [] l.op = "CMP.L" -> l.dst.mode = "D" \/ l.src.mode = "#"
    [] l.op \in {"EXT.L", "SWAP"} -> l.dst.mode = "D"
    [] OTHER -> TRUE

LineStep(m, lines) ==
  LET l == lines[m.pc]
      next == [m EXCEPT !.pc = @ + 1]
      a == Get(m, l.src)
      b == Get(m, l.dst)
      Branch(taken) ==
        IF ~taken THEN next
        ELSE IF \E k \in DOMAIN lines : lines[k].op = "label" /\ lines[k].dst.name = l.dst.name
          THEN [m EXCEPT !.pc = CHOOSE k \in DOMAIN lines : lines[k].op = "label" /\ lines[k].dst.name = l.dst.name]
        ELSE Bad(m)
      quotient == Quotient(b, Half(a))
  IN  CASE l.op \in {"label", "LINK", "save", "restore", "UNLK"} -> next
        [] l.op = "RTS" -> [m EXCEPT !.end = "returned"]
        [] l.op = "BRA" -> Branch(TRUE)
        [] l.op = "BEQ" -> Branch(m.cc[2] = m.cc[1])
        [] l.op = "BNE" -> Branch(m.cc[2] # m.cc[1])
        [] l.op = "JSR" ->
             IF l.dst.mode # "name" THEN Bad(m)
             ELSE LET args == SubSeq(m.stack, 1, IF m.stack = <<>> THEN 0 ELSE 1)
                  IN  [next EXCEPT !.trace = Append(@, args), !.d[0] = Returned(m.trace, args), !.d[1] = Junk, !.a0 = Junk]
        [] l.op = "ADD.L" /\ l.dst.mode = "SP" -> [next EXCEPT !.stack = SubSeq(@, a \div 4 + 1, Len(@))]
        [] l.op \in {"MOVE.L", "MOVEA.L"} ->
             IF CanRead(m, l.src) /\ CanWrite(m, l.dst) THEN Put(next, l.dst, a) ELSE Bad(m)
        [] l.op = "LEA" -> Bad(m)
        [] l.op = "MOVE.W" -> IF l.dst.mode = "D" THEN Put(next, l.dst, Long(Upper(b) * 2 ^ IntBits + (a % 2 ^ IntBits)))
                              ELSE Bad(m)
        [] l.op = "TST.L" -> IF CanRead(m, l.dst) THEN [next EXCEPT !.cc = <<0, b>>] ELSE Bad(m)
        [] l.op \in {"NEG.L", "NOT.L", "EXT.L", "SWAP"} ->
             IF ~CanRead(m, l.dst) \/ ~Encodable(l) THEN Bad(m)
             ELSE Put(next, l.dst, CASE l.op = "NEG.L" -> Long(-b)
                                     [] l.op = "NOT.L" -> -b - 1
                                     [] l.op = "EXT.L" -> Half(b)
                                     [] l.op = "SWAP" -> Long(Half(b) * 2 ^ IntBits + (Upper(b) % 2 ^ IntBits)))
        [] l.op \in DOMAIN Sets2 -> IF CanRead(m, l.dst) THEN Put(next, l.dst, -Compute(Sets2[l.op], m.cc[2], m.cc[1], LongBits))
                                    ELSE Bad(m)
        [] ~(l.op \in {"label", "LINK", "save", "restore", "UNLK", "RTS", "BRA", "BEQ", "BNE", "JSR", "MOVE.L", "MOVEA.L", "LEA",
                       "MOVE.W", "TST.L", "NEG.L", "NOT.L", "EXT.L", "SWAP"} \cup DOMAIN Sets2)
             /\ l.dst.mode # "SP" ->
             IF ~Encodable(l) \/ ~CanRead(m, l.src) \/ ~CanRead(m, l.dst) THEN Bad(m)
             ELSE CASE l.op = "CMP.L" -> [next EXCEPT !.cc = <<a, b>>]
                    [] l.op = "MULS.W" -> Put(next, l.dst, Long(Half(a) * Half(b)))
                    [] l.op = "DIVS.W" ->
                         IF Half(a) = 0 THEN Bad(m)
                         ELSE IF quotient \notin HalfRange THEN next
                         ELSE Put(next, l.dst, Long((b - Half(a) * quotient) * 2 ^ IntBits + (quotient % 2 ^ IntBits)))
                    [] OTHER -> LET op == InstrOf(l.op)[l.op]
                                IN  IF CountOk(op, a) THEN Put(next, l.dst, Compute(op, b, a, LongBits)) ELSE Bad(m)

RECURSIVE LineRun(_, _, _)
LineRun(m, lines, fuel) ==
  IF m.end # "" \/ fuel = 0 THEN m ELSE LineRun(LineStep(m, lines), lines, fuel - 1)
CodeMeaning(lines, globals, input) ==
  LET frame == [o \in SavedAt |-> 1000 - o]
      start == [d |-> [r \in 0 .. 7 |-> Junk], a0 |-> Junk, frame |-> frame, mem |-> [v \in globals |-> input.mem[v]],
                heap |-> input.heap, stack |-> <<>>, trace |-> <<>>, cc |-> <<0, 0>>, pc |-> 1, end |-> ""]
      m == LineRun(start, lines, 4 * Fuel)
  IN  IF m.end = "returned" THEN Outcome(m.d[0], globals, m.mem, m.heap, m.trace) ELSE Undefined

=============================================================================
