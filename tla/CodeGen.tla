------------------------------ MODULE CodeGen ------------------------------
(***************************************************************************)
(* From the intermediate code to assembly                                  *)
(* (src/src/compiler/backend/codegen.c, registers.c).                      *)
(*                                                                         *)
(* A line has an operation and two operands; quick and immediate forms of  *)
(* an operation are not told apart from it.  The generator cg of a         *)
(* function maps temporaries to registers, which are given out in order at *)
(* first use and never freed, and to slots in the frame when there are     *)
(* none left; text is what the static buffer holds that a slot's name is   *)
(* returned in.                                                            *)
(***************************************************************************)
EXTENDS Optimizer
LOCAL INSTANCE SequencesExt

CONSTANT DataRegisters                  \* D0 .. D7: how many of them

----------------------------------------------------------------------------
(* Operands of a line *)

Mode(mode, n, name) == [mode |-> mode, n |-> n, name |-> name]
DataRegister(n) == Mode("D", n, "")
A0 == Mode("A0", 0, "")
Immediate(n) == Mode("#", n, "")
Variable(name) == Mode("name", 0, name)
Slot(offset) == Mode("d(A6)", offset, "")
Through(at) == Mode("(" \o at.mode \o ")", at.n, at.name)
Pushed == Mode("-(SP)", 0, "")
SP == Mode("SP", 0, "")
Nothing == Mode("", 0, "")
StaticText == Mode("static", 0, "")     \* the buffer, whatever is in it when it is printed

Text(cg, at) ==
  CASE at.mode = "static" -> Slot(cg.text)
    [] at.mode = "(static)" -> Through(Slot(cg.text))
    [] OTHER -> at
emit(cg, op, src, dst) ==
  [cg EXCEPT !.lines = Append(@, [op |-> op, src |-> Text(cg, src), dst |-> Text(cg, dst)])]

----------------------------------------------------------------------------
(* Registers *)

\* Each gives the place of a temporary or an operand to the stack.
WithRegister(cg, t) == [cg EXCEPT !.reg = (t :> cg.used) @@ @, !.used = @ + 1]
WithSlot(cg, t) ==
  IF t \in DOMAIN cg.slot THEN cg ELSE [cg EXCEPT !.slot = (t :> cg.offset - 4) @@ @, !.offset = @ - 4]
Printed(cg, t) == [cg EXCEPT !.spills = @ + 1, !.text = cg.slot[t]]
tempToReg(cg, t) ==
  IF t \notin 0 .. MaxTemps - 1 THEN Give(cg, DataRegister(0))
  ELSE IF t \in DOMAIN cg.reg THEN Give(cg, DataRegister(cg.reg[t]))
  ELSE IF cg.used < DataRegisters THEN Give(WithRegister(cg, t), DataRegister(cg.used))
  ELSE Give(Printed(WithSlot(cg, t), t), StaticText)

\* Numbers and names are loaded into temporaries of their own.
OnResult(cg, op, src) == emit(cg, op, src, Val(cg, 1))
loadOperand(cg, o) ==
  CASE o.id = -1 -> OnResult(tempToReg(cg, cg.spills + 200), "MOVE.L", Immediate(o.imm))
    [] o.id = -2 -> OnResult(tempToReg(cg, cg.spills + 201), "MOVE.L", Variable(o.name))
    [] OTHER -> tempToReg(cg, o.id)

----------------------------------------------------------------------------
(* Instructions *)

Move(cg, src, dst) == IF src = dst THEN cg ELSE emit(cg, "MOVE.L", src, dst)
Monadic(cg, op) == OnResult(cg, op, Nothing)

\* The first operand and then the result; the operand in the result's register.
OperandAndResult(cg, ins) == tempToReg(loadOperand(cg, ins.arg1), ins.result.id)
ResultAndOperand(cg, ins) == loadOperand(tempToReg(cg, ins.result.id), ins.arg1)
MovedIn(cg) == Move(cg, Val(cg, 2), Val(cg, 1))
InPlace(cg, ins) == MovedIn(OperandAndResult(cg, ins))

\* An operation on what is in place and the second operand, a number as it is if it may be.
OntoBelow(cg, op) == Drop(emit(cg, op, Val(cg, 1), Val(cg, 2)), 1)
Apply(cg, op, arg, direct) ==
  IF isConst(arg) /\ direct THEN OnResult(cg, op, Immediate(arg.imm)) ELSE OntoBelow(loadOperand(cg, arg), op)
Divide(cg, arg) ==
  IF isConst(arg)
    THEN OntoBelow(OnResult(tempToReg(cg, cg.spills + 202), "MOVE.W", Immediate(arg.imm)), "DIVS.W")
    ELSE Apply(cg, "DIVS.W", arg, FALSE)

LineOp == "ADD" :> "ADD.L" @@ "SUB" :> "SUB.L" @@ "MUL" :> "MULS.W" @@ "AND" :> "AND.L" @@ "OR" :> "OR.L"
            @@ "XOR" :> "EOR.L" @@ "SHL" :> "LSL.L" @@ "SHR" :> "LSR.L" @@ "NEG" :> "NEG.L"
            @@ "NOT" :> "NOT.L" @@ "EQ" :> "SEQ" @@ "NE" :> "SNE" @@ "LT" :> "SLT" @@ "LE" :> "SLE"
            @@ "GT" :> "SGT" @@ "GE" :> "SGE" @@ "BRANCH" :> "BNE" @@ "BRANCHZ" :> "BEQ"

Copied(cg) == OnResult(cg, "MOVE.L", Val(cg, 2))
\* A mutant of the next: the byte that Scc sets is left as it is.
CompareUnmasked(cg, ins) ==
  Monadic(Apply(Copied(OperandAndResult(cg, ins)), "CMP.L", ins.arg2, TRUE), LineOp[ins.op])
genCompare(cg, ins) ==
  OnResult(Monadic(Apply(Copied(OperandAndResult(cg, ins)), "CMP.L", ins.arg2, TRUE), LineOp[ins.op]),
           "AND.L", Immediate(1))

\* A name is an address as it is, another operand holds one.
IsName(o) == o.id = -2
LoadedThrough(cg) == emit(cg, "MOVE.L", Through(Val(cg, 1)), Val(cg, 2))
genLoad(cg, ins) ==
  IF IsName(ins.arg1) THEN OnResult(tempToReg(cg, ins.result.id), "MOVE.L", Variable(ins.arg1.name))
  ELSE LoadedThrough(ResultAndOperand(cg, ins))
Stored(cg) == emit(cg, "MOVE.L", Val(cg, 2), Through(Val(cg, 1)))
StoredAs(cg, name) == emit(cg, "MOVE.L", Val(cg, 1), Variable(name))
genStore(cg, ins) ==
  IF IsName(ins.arg1) THEN StoredAs(loadOperand(cg, ins.arg2), ins.arg1.name)
  ELSE Stored(loadOperand(loadOperand(cg, ins.arg2), ins.arg1))
TakenFrom(cg) == emit(cg, "MOVE.L", Val(cg, 1), Val(cg, 2))
genAddr(cg, ins) ==
  IF IsName(ins.arg1)
    THEN OnResult(emit(tempToReg(cg, ins.result.id), "LEA", Variable(ins.arg1.name), A0), "MOVE.L", A0)
    ELSE TakenFrom(ResultAndOperand(cg, ins))
ToA0(cg) == emit(cg, "MOVEA.L", Val(cg, 2), A0)
genDeref(cg, ins) == OnResult(ToA0(OperandAndResult(cg, ins)), "MOVE.L", Through(A0))

genBranch(cg, ins) ==
  emit(Monadic(loadOperand(cg, ins.arg1), "TST.L"), LineOp[ins.op], Nothing, Variable(ins.arg2.name))
PushTop(cg) == emit(cg, "MOVE.L", Val(cg, 1), Pushed)
genParam(cg, ins) ==
  PushTop(IF isConst(ins.arg1) THEN Give(cg, Immediate(ins.arg1.imm)) ELSE loadOperand(cg, ins.arg1))
CallThrough(cg) == emit(cg, "JSR", Nothing, Through(Val(cg, 1)))
Jumped(cg, f) ==
  IF IsName(f) THEN emit(cg, "JSR", Nothing, Variable(f.name)) ELSE CallThrough(loadOperand(cg, f))
Popped(cg, n) == IF n > 0 THEN emit(cg, "ADD.L", Immediate(4 * n), SP) ELSE cg
FromD0(cg) == Move(cg, DataRegister(0), Val(cg, 1))
genCall(cg, ins) == FromD0(tempToReg(Popped(Jumped(cg, ins.arg1), ins.arg2.imm), ins.result.id))
IntoD0(cg) == Move(cg, Val(cg, 1), DataRegister(0))
Returning(cg, o) ==
  CASE isConst(o) -> emit(cg, "MOVE.L", Immediate(o.imm), DataRegister(0))
    [] o.id >= 0 -> IntoD0(loadOperand(cg, o))
    [] OTHER -> cg
genReturn(cg, ins) == emit(Returning(cg, ins.arg1), "BRA", Nothing, Variable("exit"))

genOperation(cg, ins) ==
  CASE ins.op \in {"MOVE", "CAST"} -> cg
    [] ins.op \in {"ADD", "SUB", "MUL", "AND", "OR", "XOR"} -> Apply(cg, LineOp[ins.op], ins.arg2, TRUE)
    [] ins.op \in {"SHL", "SHR"} -> Apply(cg, LineOp[ins.op], ins.arg2, ins.arg2.imm \in 1 .. 8)
    [] ins.op = "DIV" -> Monadic(Divide(cg, ins.arg2), "EXT.L")
    [] ins.op = "MOD" -> Monadic(Monadic(Divide(cg, ins.arg2), "SWAP"), "EXT.L")
    [] ins.op \in {"NEG", "NOT"} -> Monadic(cg, LineOp[ins.op])
InPlaceOps == (DOMAIN LineOp \cup {"MOVE", "CAST", "DIV", "MOD"}) \ (Comparisons \cup {"BRANCH", "BRANCHZ"})
genInstr(cg, ins) ==
  CASE ins.op \in InPlaceOps -> genOperation(InPlace(cg, ins), ins)
    [] ins.op = "CONST" -> OnResult(tempToReg(cg, ins.result.id), "MOVE.L", Immediate(ins.arg1.imm))
    [] ins.op \in Comparisons -> genCompare(cg, ins)
    [] ins.op = "LOAD" -> genLoad(cg, ins)
    [] ins.op = "STORE" -> genStore(cg, ins)
    [] ins.op = "ADDR" -> genAddr(cg, ins)
    [] ins.op = "DEREF" -> genDeref(cg, ins)
    [] ins.op = "JUMP" -> emit(cg, "BRA", Nothing, Variable(ins.arg1.name))
    [] ins.op \in {"BRANCH", "BRANCHZ"} -> genBranch(cg, ins)
    [] ins.op = "PARAM" -> genParam(cg, ins)
    [] ins.op = "CALL" -> genCall(cg, ins)
    [] ins.op = "RETURN" -> genReturn(cg, ins)
    [] OTHER -> cg

----------------------------------------------------------------------------
(* Functions *)

Implied(cg, op) == emit(cg, op, Nothing, Nothing)
LabelLine(cg, name) == emit(cg, "label", Nothing, Variable(name))
Fresh(lines) == [reg |-> [t \in {} |-> 0], slot |-> [t \in {} |-> 0], used |-> 0, spills |-> 0,
                 offset |-> 0, text |-> 0, lines |-> lines, vals |-> <<>>]
genNext(cg, ins) == [genInstr(cg, ins) EXCEPT !.vals = <<>>]
genBlock(cg, block) == FoldLeft(genNext, LabelLine(cg, block.label), block.instrs)
Prologue(cg) == Implied(Implied(cg, "LINK"), "save")
Epilogue(cg) == Implied(Implied(Implied(LabelLine(cg, "exit"), "restore"), "UNLK"), "RTS")
genFunction(lines, func) ==
  Epilogue(FoldLeft(genBlock, Prologue(LabelLine(Fresh(lines), func.name)), func.blocks)).lines
codeGenEmit(ir) == FoldLeft(genFunction, <<>>, ir)

=============================================================================
