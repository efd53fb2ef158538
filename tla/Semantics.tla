------------------------------ MODULE Semantics ------------------------------
(***************************************************************************)
(* Semantic analysis (src/src/compiler/frontend/semantics.c, cc_types.c):  *)
(* scopes, the type of every expression, and what is rejected.             *)
(*                                                                         *)
(* The analysis s is a record: the symbols in order of declaration, each   *)
(* with the level of its scope, the depths of loops and switches, the      *)
(* return type of the function, the number of errors, and a stack of       *)
(* nodes: what analyses a node puts it there with its types resolved.      *)
(* Structs, enums, typedefs and the sign of a type are left out.           *)
(***************************************************************************)
EXTENDS CParser
LOCAL INSTANCE SequencesExt

----------------------------------------------------------------------------
(* Types: a kind, a size and, of a pointer, array or function, a base *)

Type(kind, size) == [kind |-> kind, size |-> size, base |-> <<>>]
TypeOf(name) ==
  CASE name = "void" -> Type("void", 0)
    [] name = "char" -> Type("char", 1)
    [] name = "short" -> Type("short", 2)
    [] name = "long" -> Type("long", 4)
    [] OTHER -> Type("int", 2)
IntType == TypeOf("int")
ccTypePointerTo(base) == [kind |-> "pointer", size |-> 4, base |-> <<base>>]
ccTypeArrayOf(base, n) == [kind |-> "array", size |-> base.size * n, base |-> <<base>>]
FunctionOf(result) == [kind |-> "function", size |-> 0, base |-> <<result>>]

ccTypeIsIntegral(t) == t.kind \in {"char", "short", "int", "long"}
ccTypeIsPointer(t) == t.kind \in {"pointer", "array"}
ccTypeIsCompatible(a, b) == a.kind = b.kind \/ (ccTypeIsIntegral(a) /\ ccTypeIsIntegral(b))

RECURSIVE resolveType(_)
resolveType(node) ==
  CASE node.type = "POINTER" -> ccTypePointerTo(resolveType(node.kids[1]))
    [] node.type = "TYPE_SPEC" -> TypeOf(node.name)
    [] OTHER -> IntType

----------------------------------------------------------------------------
(* Scopes *)

symPush(s) == [s EXCEPT !.level = @ + 1]
\* A mutant of the next: what a scope has declared stays.
PopKeeping(s) == [s EXCEPT !.level = @ - 1]
symPop(s) ==
  [s EXCEPT !.syms = SelectSeq(@, LAMBDA sym : sym.level < s.level), !.level = @ - 1]
symAdd(s, name, type) ==
  IF name = "" THEN s
  ELSE [s EXCEPT !.syms = Append(@, [name |-> name, type |-> type, level |-> s.level])]
Declared(s, name) == \E i \in DOMAIN s.syms : s.syms[i].name = name
symLookup(s, name) ==
  LET found == {i \in DOMAIN s.syms : s.syms[i].name = name}
  IN  s.syms[CHOOSE i \in found : \A j \in found : j <= i].type

semaError(s, wrong) == IF wrong /\ s.errors < MaxErrors THEN [s EXCEPT !.errors = @ + 1] ELSE s

\* The node without its children, which are added as they are analysed.
Begin(s, node) == push(s, [node EXCEPT !.kids = <<>>])
Typed(s, type) == [s EXCEPT !.nodes[Len(s.nodes)].resolved = type]

----------------------------------------------------------------------------
(* Expressions *)

\* A node has a type once its operands have one.
Kid(node, i) == IF i \in DOMAIN node.kids THEN node.kids[i].resolved ELSE Type("void", 0)
Relational == {"==", "!=", "<", ">", "<=", ">=", "&&", "||"}
BinaryType(op, l, r) ==
  IF ccTypeIsPointer(l) /\ ccTypeIsIntegral(r) THEN l
  ELSE IF ccTypeIsIntegral(l) /\ ccTypeIsPointer(r) THEN r
  ELSE IF op \in Relational THEN IntType
  ELSE IF l.size >= r.size THEN l ELSE r
PointeeOf(t) == IF ccTypeIsPointer(t) THEN t.base[1] ELSE IntType
UnaryType(op, t) ==
  CASE op = "&" -> ccTypePointerTo(t)
    [] op = "*" -> PointeeOf(t)
    [] op = "!" -> IntType
    [] OTHER -> t

ExprType(s, node) ==
  CASE node.type = "INT_LITERAL" -> IF node.value \in -32768 .. 32767 THEN IntType ELSE TypeOf("long")
    [] node.type = "CHAR_LITERAL" -> TypeOf("char")
    [] node.type = "STRING_LITERAL" -> ccTypePointerTo(TypeOf("char"))
    [] node.type = "IDENT" -> IF Declared(s, node.name) THEN symLookup(s, node.name) ELSE IntType
    [] node.type = "BINARY_OP" -> BinaryType(node.name, Kid(node, 1), Kid(node, 2))
    [] node.type = "UNARY_OP" -> UnaryType(node.name, Kid(node, 1))
    [] node.type = "ASSIGN" -> Kid(node, 1)
    [] node.type = "CALL" -> IF Kid(node, 1).kind = "function" THEN Kid(node, 1).base[1] ELSE IntType
    [] node.type = "INDEX" -> PointeeOf(Kid(node, 1))
    [] node.type = "CAST" -> resolveType(node.kids[1])
    [] node.type = "TERNARY" -> Kid(node, 2)
    [] node.type = "COMMA_EXPR" -> Kid(node, Len(node.kids))
    [] OTHER -> IntType
WrongExpr(s, node) ==
  \/ node.type = "IDENT" /\ ~Declared(s, node.name)
  \/ node.type = "UNARY_OP" /\ node.name = "*" /\ ~ccTypeIsPointer(Kid(node, 1))

IsTypeNode(node) == node.type \in {"TYPE_SPEC", "POINTER"}
SizeOfOperand(n) == IF IsTypeNode(n) THEN resolveType(n).size ELSE n.resolved.size
Measured(s) ==
  IF Top(s).type = "SIZEOF" /\ Top(s).kids # <<>>
    THEN [s EXCEPT !.nodes[Len(s.nodes)].value = SizeOfOperand(Top(s).kids[1])] ELSE s
ResolveTop(s) == Measured(Typed(semaError(s, WrongExpr(s, Top(s))), ExprType(s, Top(s))))

\* A member of what is no struct is an int, without an error.
Expressions == {"BINARY_OP", "UNARY_OP", "ASSIGN", "CALL", "INDEX", "MEMBER", "PTR_MEMBER", "CAST",
                "TERNARY", "COMMA_EXPR", "SIZEOF"}
RECURSIVE analyzeExpr(_, _)
AnalyzeOperand(s, node) == astAddChild(IF IsTypeNode(node) THEN push(s, node) ELSE analyzeExpr(s, node))
analyzeExpr(s, node) ==
  ResolveTop(IF node.type \in Expressions THEN FoldLeft(AnalyzeOperand, Begin(s, node), node.kids)
             ELSE push(s, node))

----------------------------------------------------------------------------
(* Statements *)

RECURSIVE analyzeStmt(_, _)
ChildStmt(s, node) == astAddChild(analyzeStmt(s, node))

\* Child i, if there is one, as an expression or as a statement.
ExprAt(s, node, i) == IF i \in DOMAIN node.kids THEN astAddChild(analyzeExpr(s, node.kids[i])) ELSE s
StmtAt(s, node, i) == IF i \in DOMAIN node.kids THEN ChildStmt(s, node.kids[i]) ELSE s
InLoops(s, n) == [s EXCEPT !.loops = @ + n]
InSwitches(s, n) == [s EXCEPT !.switches = @ + n]
LoopBody(s, node, i) == InLoops(StmtAt(InLoops(s, 1), node, i), -1)

VarType(node) ==
  IF node.value > 0 THEN ccTypeArrayOf(resolveType(node.kids[1]), node.value) ELSE resolveType(node.kids[1])
VarDecl(s, node) ==
  ExprAt(astAddChild(push(Typed(symAdd(s, node.name, VarType(node)), VarType(node)), node.kids[1])), node, 2)

\* The parameters and the body share a scope; a name may be declared again.
FunctionPart(s, n) ==
  astAddChild(CASE n.type = "PARAM" -> Typed(push(symAdd(s, n.name, resolveType(n.kids[1])), n), resolveType(n.kids[1]))
                [] n.type = "COMPOUND_STMT" -> FoldLeft(ChildStmt, Begin(s, n), n.kids)
                [] OTHER -> push(s, n))
EnterFunction(s, name, result) == [symPush(symAdd(s, name, FunctionOf(result))) EXCEPT !.ret = <<result>>]
FunctionDef(s, node) ==
  [symPop(FoldLeft(FunctionPart, EnterFunction(s, node.name, resolveType(node.kids[1])), node.kids)) EXCEPT !.ret = s.ret]

CheckReturn(s) ==
  semaError(s, Top(s).kids # <<>> /\ s.ret # <<>> /\ ~ccTypeIsCompatible(s.ret[1], Kid(Top(s), 1)))

\* s has the node, without children, on top.
AnalyzeParts(s, node) ==
  CASE node.type = "COMPOUND_STMT" -> symPop(FoldLeft(ChildStmt, symPush(s), node.kids))
    [] node.type = "VAR_DECL" -> VarDecl(s, node)
    [] node.type = "FUNCTION_DEF" -> FunctionDef(s, node)
    [] node.type = "EXPR_STMT" -> ExprAt(s, node, 1)
    [] node.type = "RETURN_STMT" -> CheckReturn(ExprAt(s, node, 1))
    [] node.type = "IF_STMT" -> StmtAt(StmtAt(ExprAt(s, node, 1), node, 2), node, 3)
    [] node.type = "WHILE_STMT" -> LoopBody(ExprAt(s, node, 1), node, 2)
    [] node.type = "DO_WHILE_STMT" -> ExprAt(LoopBody(s, node, 1), node, 2)
    [] node.type = "FOR_STMT" ->
         symPop(LoopBody(ExprAt(ExprAt(StmtAt(symPush(s), node, 1), node, 2), node, 3), node, 4))
    [] node.type = "SWITCH_STMT" -> InSwitches(StmtAt(InSwitches(ExprAt(s, node, 1), 1), node, 2), -1)
    [] node.type = "CASE_STMT" -> StmtAt(ExprAt(semaError(s, s.switches <= 0), node, 1), node, 2)
    [] node.type = "DEFAULT_STMT" -> StmtAt(semaError(s, s.switches <= 0), node, 1)
    [] node.type = "BREAK_STMT" -> semaError(s, s.loops <= 0 /\ s.switches <= 0)
    [] node.type = "CONTINUE_STMT" -> semaError(s, s.loops <= 0)
    [] node.type = "LABEL_STMT" -> StmtAt(s, node, 1)
    [] node.type = "GOTO_STMT" -> s
    [] OTHER -> FoldLeft(ChildStmt, s, node.kids)
analyzeStmt(s, node) == AnalyzeParts(Begin(s, node), node)

\* The declarations of a unit, which end up on the stack.
ccSemaAnalyze(unit) ==
  FoldLeft(analyzeStmt,
           [syms |-> <<>>, level |-> 0, loops |-> 0, switches |-> 0, ret |-> <<>>, errors |-> 0, nodes |-> <<>>],
           unit)

=============================================================================
