------------------------------ MODULE Lowering ------------------------------
(***************************************************************************)
(* From the syntax tree to the intermediate code                           *)
(* (src/src/compiler/compiler.c, src/src/compiler/middle/ir.c).            *)
(*                                                                         *)
(* A function of the IR is a sequence of blocks, each a label and its      *)
(* instructions.  A variable is referred to by its name alone, wherever it *)
(* is declared: the table of locals with their offsets decides between two *)
(* branches that emit the same load, and is left out.  An operand has an   *)
(* id: that of a temporary, -1 for a number or -2 for a name.  The         *)
(* lowering c of a function has its blocks, the last of which is the       *)
(* current one, a stack of operands (what lowers an expression puts its    *)
(* operand there), the numbers of temporaries and labels, and the labels   *)
(* that break and continue lead to.                                        *)
(*                                                                         *)
(* Loops, cases and labels add their block first and then emit a jump to   *)
(* it through a pointer to the block before; if adding made realloc move   *)
(* the blocks, that pointer dangles.  moved says whether it did, and the   *)
(* jump is then lost.                                                      *)
(***************************************************************************)
EXTENDS Semantics, TLC
LOCAL INSTANCE SequencesExt

CONSTANT BlockCapacity                  \* of a function at first; then twice that, and so on

irTemp(id) == [id |-> id, imm |-> 0, name |-> ""]
irImm(value) == [id |-> -1, imm |-> value, name |-> ""]
irNamed(name) == [id |-> -2, imm |-> 0, name |-> name]
Ir(op, result, arg1, arg2) == [op |-> op, result |-> result, arg1 |-> arg1, arg2 |-> arg2]

emitInstr(c, op, result, arg1, arg2) ==
  [c EXCEPT !.blocks[Len(c.blocks)].instrs = Append(@, Ir(op, result, arg1, arg2))]
emitJump(c, label) == emitInstr(c, "JUMP", irImm(0), irNamed(label), irImm(0))
irFunctionAddBlock(c, label) ==
  [c EXCEPT !.blocks = Append(@, [label |-> label, instrs |-> <<>>])]
Reallocates(c) == \E k \in 0 .. 7 : Len(c.blocks) = BlockCapacity * 2 ^ k
JumpToNewBlock(c, label) ==
  irFunctionAddBlock(IF Reallocates(c) /\ c.moved THEN c ELSE emitJump(c, label), label)
JumpOver(c, end, label) == irFunctionAddBlock(emitJump(c, end), label)

\* The label that is new when k others have been taken, and c when some have been.
NewLabel(c, prefix, k) == prefix \o "_" \o ToString(c.labels + k)
Took(c, labels, temps) == [c EXCEPT !.labels = @ + labels, !.temps = @ + temps]

\* The operands: the k-th from the top; one more, n less, or one for n.
Val(c, k) == c.vals[Len(c.vals) + 1 - k]
Give(c, val) == [c EXCEPT !.vals = Append(@, val)]
Drop(c, n) == [c EXCEPT !.vals = SubSeq(@, 1, Len(@) - n)]
Replace(c, n, val) == Give(Drop(c, n), val)

\* An instruction on n operands that puts its result into a new temporary.
Result(c, op, arg1, arg2, n) ==
  Replace(Took(emitInstr(c, op, irTemp(c.temps), arg1, arg2), 0, 1), n, irTemp(c.temps))
BranchOn(c, branch, val, label) == emitInstr(c, branch, irImm(0), val, irNamed(label))
BranchUnless(c, label) == Drop(BranchOn(c, "BRANCHZ", Val(c, 1), label), 1)

----------------------------------------------------------------------------
(* Expressions *)

IrOp == "+" :> "ADD" @@ "-" :> "SUB" @@ "*" :> "MUL" @@ "/" :> "DIV" @@ "%" :> "MOD" @@ "&" :> "AND"
          @@ "|" :> "OR" @@ "^" :> "XOR" @@ "<<" :> "SHL" @@ ">>" :> "SHR" @@ "==" :> "EQ"
          @@ "!=" :> "NE" @@ "<" :> "LT" @@ "<=" :> "LE" @@ ">" :> "GT" @@ ">=" :> "GE"
IrAssignOp == "+=" :> "ADD" @@ "-=" :> "SUB" @@ "*=" :> "MUL" @@ "/=" :> "DIV" @@ "%=" :> "MOD"
                @@ "&=" :> "AND" @@ "|=" :> "OR" @@ "^=" :> "XOR" @@ "<<=" :> "SHL" @@ ">>=" :> "SHR"
IrUnaryOp == "-" :> "NEG" @@ "~" :> "NOT" @@ "!" :> "EQ" @@ "&" :> "ADDR" @@ "*" :> "DEREF" @@ "+" :> "MOVE"

RECURSIVE lowerExpr(_, _)
Operand(c, node, i) == IF i \in DOMAIN node.kids THEN lowerExpr(c, node.kids[i]) ELSE Give(c, irImm(0))
Both(c, node) == Operand(Operand(c, node, 1), node, 2)

\* && and ||: both operands have been evaluated when the first one decides.
PutConst(c, t, n) == emitInstr(c, "CONST", irTemp(t), irImm(n), irImm(0))
Undecided(c, branch, decided) ==
  BranchOn(BranchOn(c, branch, Val(c, 2), decided), branch, Val(c, 1), decided)
ShortCircuit(c, branch, t, otherwise, decided, end) ==
  irFunctionAddBlock(
    PutConst(JumpOver(PutConst(Undecided(Took(c, 2, 1), branch, decided), t, otherwise), end, decided), t, 1 - otherwise), end)
BinaryOf(c, op) ==
  Replace(CASE op = "&&" -> ShortCircuit(c, "BRANCHZ", c.temps, 1, NewLabel(c, "and_f", 0), NewLabel(c, "and_e", 1))
            [] op = "||" -> ShortCircuit(c, "BRANCH", c.temps, 0, NewLabel(c, "or_t", 0), NewLabel(c, "or_e", 1))
            [] OTHER -> Took(emitInstr(c, IrOp[op], irTemp(c.temps), Val(c, 2), Val(c, 1)), 0, 1),
          2, irTemp(c.temps))

\* Only a variable is stored back.
StoredBack(c, node, val) ==
  IF node.type = "IDENT" THEN emitInstr(c, "STORE", irImm(0), irNamed(node.name), val) ELSE c
Stepped(c, node) ==
  StoredBack(Took(emitInstr(c, IF node.name \in {"pre++", "post++"} THEN "ADD" ELSE "SUB",
                            irTemp(c.temps), Val(c, 1), irImm(1)), 0, 1), node.kids[1], irTemp(c.temps))
OnTop(c, op) == Result(c, op, Val(c, 1), irImm(0), 1)
UnaryOf(c, node) ==
  IF node.name \in DOMAIN IrUnaryOp THEN OnTop(c, IrUnaryOp[node.name])
  ELSE IF node.name \in {"post++", "post--"} THEN Stepped(c, node)
  ELSE Replace(Stepped(c, node), 1, irTemp(c.temps))

\* The address of an element for its array and its index.
Element(c, node) ==
  Replace(emitInstr(emitInstr(Took(c, 0, 2), "MUL", irTemp(c.temps + 1), Val(c, 1), irImm(node.resolved.size)),
                    "ADD", irTemp(c.temps), Val(c, 2), irTemp(c.temps + 1)), 2, irTemp(c.temps))

\* Where a member lies; no type that is modelled has any, which leaves its offset at 0.
MemberAt(c) == Result(c, "ADD", Val(c, 1), irImm(0), 1)

\* The value is there; an operator counts only for a variable.
StoreAt(c) == Drop(emitInstr(c, "STORE", irImm(0), Val(c, 1), Val(c, 2)), 1)
StoreTo(c, node) == StoredBack(c, node, Val(c, 1))
Combine(c, op) == Result(c, op, Val(c, 1), Val(c, 2), 2)
AssignOf(c, op, lhs) ==
  CASE lhs.type = "IDENT" /\ op = "=" -> StoreTo(c, lhs)
    [] lhs.type = "IDENT" /\ op # "=" ->
         StoreTo(Combine(lowerExpr(c, lhs), IrAssignOp[op]), lhs)
    [] lhs.type = "UNARY_OP" /\ lhs.name = "*" -> StoreAt(Operand(c, lhs, 1))
    [] lhs.type = "INDEX" -> StoreAt(Element(Both(c, lhs), lhs))
    [] OTHER -> c

\* Arguments from right to left, each pushed when it has been evaluated.
PushArgument(c) == Drop(emitInstr(c, "PARAM", irImm(0), Val(c, 1), irImm(0)), 1)
Callee(c, node) == IF node.type = "IDENT" THEN Give(c, irNamed(node.name)) ELSE lowerExpr(c, node)
CallOf(c, n) == Result(c, "CALL", Val(c, 1), irImm(n), 1)

MoveTo(c, t) == Drop(emitInstr(c, "MOVE", t, Val(c, 1), irImm(0)), 1)
TernaryOf(c, node, t, else, end) ==
  Give(irFunctionAddBlock(
         MoveTo(Operand(JumpOver(MoveTo(Operand(BranchUnless(Took(c, 2, 1), else), node, 2), t), end, else),
                        node, 3), t), end), t)
lowerTernary(c, node) == TernaryOf(c, node, irTemp(c.temps), NewLabel(c, "ter_e", 0), NewLabel(c, "ter_d", 1))

lowerExpr(c, node) ==
  CASE node.type \in {"INT_LITERAL", "CHAR_LITERAL"} -> Give(c, irImm(node.value))
    [] node.type = "STRING_LITERAL" -> Result(c, "CONST", irNamed(node.name), irImm(0), 0)
    [] node.type = "IDENT" -> Result(c, "LOAD", irNamed(node.name), irImm(0), 0)
    [] node.type = "BINARY_OP" -> BinaryOf(Both(c, node), node.name)
    [] node.type = "UNARY_OP" -> UnaryOf(Operand(c, node, 1), node)
    [] node.type = "ASSIGN" -> AssignOf(Operand(c, node, 2), node.name, node.kids[1])
    [] node.type = "CALL" ->
         CallOf(Callee(FoldRight(LAMBDA arg, d : PushArgument(lowerExpr(d, arg)), Tail(node.kids), c), node.kids[1]),
                Len(node.kids) - 1)
    [] node.type = "INDEX" -> OnTop(Element(Both(c, node), node), "DEREF")
    [] node.type \in {"MEMBER", "PTR_MEMBER"} -> OnTop(MemberAt(Operand(c, node, 1)), "DEREF")
    [] node.type = "CAST" -> OnTop(Operand(c, node, 2), "CAST")
    [] node.type = "SIZEOF" -> Give(c, irImm(IF node.value > 0 THEN node.value ELSE 2))
    [] node.type = "TERNARY" -> lowerTernary(Operand(c, node, 1), node)
    [] node.type = "COMMA_EXPR" ->
         FoldLeft(LAMBDA d, kid : lowerExpr(Drop(d, 1), kid), Give(c, irImm(0)), node.kids)
    [] OTHER -> Give(c, irImm(0))

----------------------------------------------------------------------------
(* Statements *)

RECURSIVE lowerStmt(_, _)
Leave(c) == Drop(emitInstr(c, "RETURN", irImm(0), Val(c, 1), irImm(0)), 1)
Statement(c, node, i) == IF i \in DOMAIN node.kids THEN lowerStmt(c, node.kids[i]) ELSE c
Effect(c, node, i) == Drop(Operand(c, node, i), 1)

IfElseAt(c, node, else, end) ==
  irFunctionAddBlock(Statement(JumpOver(Statement(BranchUnless(c, else), node, 2), end, else), node, 3), end)
IfThenAt(c, node, end) == irFunctionAddBlock(Statement(BranchUnless(c, end), node, 2), end)
lowerIf(c, node) ==
  IF Len(node.kids) > 2 THEN IfElseAt(Took(c, 2, 0), node, NewLabel(c, "if_e", 0), NewLabel(c, "if_d", 1))
  ELSE IfThenAt(Took(c, 2, 0), node, NewLabel(c, "if_d", 1))

\* Within a loop; more than MAX_LOOP_DEPTH of them are left out.
InLoop(c, break, continue) == [c EXCEPT !.loops = Append(@, [break |-> break, continue |-> continue])]
OutOfLoop(c, end) == [irFunctionAddBlock(c, end) EXCEPT !.loops = Front(@)]

WhileAt(c, node, start, end) ==
  OutOfLoop(emitJump(Statement(BranchUnless(Operand(JumpToNewBlock(InLoop(c, end, start), start), node, 1), end),
                               node, 2), start), end)
lowerWhile(c, node) == WhileAt(Took(c, 2, 0), node, NewLabel(c, "wh_c", 0), NewLabel(c, "wh_e", 1))

\* continue leads to the condition.
BranchIf(c, label) == Drop(BranchOn(c, "BRANCH", Val(c, 1), label), 1)
DoWhileAt(c, node, start, test, end) ==
  OutOfLoop(BranchIf(Operand(irFunctionAddBlock(Statement(JumpToNewBlock(InLoop(c, end, test), start), node, 1), test),
                             node, 2), start), end)
lowerDoWhile(c, node) ==
  DoWhileAt(Took(c, 3, 0), node, NewLabel(c, "do_b", 0), NewLabel(c, "do_c", 1), NewLabel(c, "do_e", 2))

\* continue leads to the step; a loop with fewer parts takes what comes in their places.
ForTest(c, node, end) == IF Len(node.kids) > 1 THEN BranchUnless(Operand(c, node, 2), end) ELSE c
ForAt(c, node, start, next, end) ==
  OutOfLoop(emitJump(Effect(JumpToNewBlock(
                              Statement(ForTest(JumpToNewBlock(Statement(InLoop(c, end, next), node, 1), start), node, end),
                                        node, 4), next), node, 3), start), end)
lowerFor(c, node) ==
  ForAt(Took(c, 3, 0), node, NewLabel(c, "for_c", 0), NewLabel(c, "for_i", 1), NewLabel(c, "for_e", 2))

\* The value chooses no case: the body is run from its beginning.
SwitchAt(c, node, end) == OutOfLoop(Statement(InLoop(Took(c, 1, 0), end, end), node, 2), end)
lowerSwitch(c, node) == SwitchAt(c, node, NewLabel(c, "sw_e", 0))
lowerCase(c, node, prefix, body) ==
  Statement(JumpToNewBlock(Took(c, 1, 0), NewLabel(c, prefix, 0)), node, body)

\* A mutant of the next: it leaves the outermost loop.
LeaveOutermost(c, target) == IF c.loops = <<>> THEN c ELSE emitJump(c, Head(c.loops)[target])
LeaveLoop(c, target) ==
  IF c.loops = <<>> THEN c ELSE emitJump(c, Last(c.loops)[target])

lowerStmt(c, node) ==
  CASE node.type = "COMPOUND_STMT" -> FoldLeft(lowerStmt, c, node.kids)
    [] node.type = "VAR_DECL" ->
         IF Len(node.kids) < 2 THEN c
         ELSE Drop(StoreTo(Operand(c, node, 2), [node EXCEPT !.type = "IDENT"]), 1)
    [] node.type = "EXPR_STMT" -> Effect(c, node, 1)
    [] node.type = "RETURN_STMT" -> Leave(Operand(c, node, 1))
    [] node.type = "IF_STMT" -> lowerIf(Operand(c, node, 1), node)
    [] node.type = "WHILE_STMT" -> lowerWhile(c, node)
    [] node.type = "DO_WHILE_STMT" -> lowerDoWhile(c, node)
    [] node.type = "FOR_STMT" -> lowerFor(c, node)
    [] node.type = "SWITCH_STMT" -> lowerSwitch(Effect(c, node, 1), node)
    [] node.type = "CASE_STMT" -> lowerCase(c, node, "case", 2)
    [] node.type = "DEFAULT_STMT" -> lowerCase(c, node, "default", 1)
    [] node.type = "BREAK_STMT" -> LeaveLoop(c, "break")
    [] node.type = "CONTINUE_STMT" -> LeaveLoop(c, "continue")
    [] node.type = "LABEL_STMT" -> Statement(JumpToNewBlock(c, node.name), node, 1)
    [] node.type = "GOTO_STMT" -> emitJump(c, node.name)
    [] OTHER -> c

----------------------------------------------------------------------------
(* Functions *)

Closed(c) ==
  IF Last(c.blocks).instrs # <<>> /\ Last(Last(c.blocks).instrs).op = "RETURN" THEN c
  ELSE emitInstr(c, "RETURN", irImm(0), irImm(0), irImm(0))

\* Labels are numbered through; a function without a body is a prototype.
FunctionStart(labels, moved) ==
  [blocks |-> <<[label |-> "entry", instrs |-> <<>>]>>, vals |-> <<>>, temps |-> 0, labels |-> labels,
   loops |-> <<>>, moved |-> moved]
lowerFunction(func, labels, moved) == Closed(lowerStmt(FunctionStart(labels, moved), Last(func.kids)))
HasBody(node) == node.type = "FUNCTION_DEF" /\ Last(node.kids).type = "COMPOUND_STMT"

AddFunction(module, name, c) ==
  [ir |-> Append(module.ir, [name |-> name, blocks |-> c.blocks]), labels |-> c.labels]
lowerAstToIr(unit, moved) ==
  FoldLeft(LAMBDA module, node : AddFunction(module, node.name, lowerFunction(node, module.labels, moved)),
           [ir |-> <<>>, labels |-> 0], SelectSeq(unit, HasBody)).ir

=============================================================================
