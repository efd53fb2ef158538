------------------------------ MODULE MCCompiler ------------------------------
(***************************************************************************)
(* The C compiler on a library of programs.                                *)
(*                                                                         *)
(* A program is written as a tree and set as tokens with no parenthesis    *)
(* that C's grammar does not need.  The library has every operator within  *)
(* every other one, every statement, and programs that C rejects.          *)
(***************************************************************************)
EXTENDS MCMeaning, FiniteSets
LOCAL INSTANCE SequencesExt

----------------------------------------------------------------------------
(* Trees as they are written: nothing is left out of them *)

Tree(type, name, value, kids) ==
  [NoNode EXCEPT !.type = type, !.name = name, !.value = value, !.kids = kids]
Ident(name) == Tree("IDENT", name, 0, <<>>)
Lit(n) == Tree("INT_LITERAL", "", n, <<>>)
Char(n) == Tree("CHAR_LITERAL", "", n, <<>>)
MemberOf(e, type) == Tree(type, "m", 0, <<e>>)
Bin(op, l, r) == Tree("BINARY_OP", op, 0, <<l, r>>)
Un(op, e) == Tree("UNARY_OP", op, 0, <<e>>)
Set(op, l, r) == Tree("ASSIGN", op, 0, <<l, r>>)
Cond(c, t, e) == Tree("TERNARY", "", 0, <<c, t, e>>)
CommaOf(l, r) == Tree("COMMA_EXPR", "", 0, <<l, r>>)
ElementAt(a, i) == Tree("INDEX", "", 0, <<a, i>>)
CallG(e) == Tree("CALL", "", 0, <<Ident("g"), e>>)
TypeSpec(name) == Tree("TYPE_SPEC", name, 0, <<>>)
PointerType(type) == Tree("POINTER", "", 0, <<type>>)
CastTo(type, e) == Tree("CAST", "", 0, <<type, e>>)
SizeOfType(type) == Tree("SIZEOF", "", 0, <<type>>)

Do(e) == Tree("EXPR_STMT", "", 0, <<e>>)
Return(e) == Tree("RETURN_STMT", "", 0, <<e>>)
Block(stmts) == Tree("COMPOUND_STMT", "", 0, stmts)
If(c, s) == Tree("IF_STMT", "", 0, <<c, s>>)
IfElse(c, s, t) == Tree("IF_STMT", "", 0, <<c, s, t>>)
While(c, s) == Tree("WHILE_STMT", "", 0, <<c, s>>)
DoWhile(s, c) == Tree("DO_WHILE_STMT", "", 0, <<s, c>>)
For(i, c, n, s) == Tree("FOR_STMT", "", 0, <<i, c, n, s>>)
SwitchOn(e, stmts) == Tree("SWITCH_STMT", "", 0, <<e, Block(stmts)>>)
Case(n, s) == Tree("CASE_STMT", "", 0, <<Lit(n), s>>)
Default(s) == Tree("DEFAULT_STMT", "", 0, <<s>>)
Break == Tree("BREAK_STMT", "", 0, <<>>)
Continue == Tree("CONTINUE_STMT", "", 0, <<>>)
GotoLabel(l) == Tree("GOTO_STMT", l, 0, <<>>)
LabelAt(l, s) == Tree("LABEL_STMT", l, 0, <<s>>)
Var(type, name, init) == Tree("VAR_DECL", name, 0, <<type>> \o init)
ParamOf(type, name) == Tree("PARAM", name, 0, <<type>>)
MainF(params, stmts) == Tree("FUNCTION_DEF", "f", 0, <<TypeSpec("int")>> \o params \o <<Block(stmts)>>)

----------------------------------------------------------------------------
(* How a tree is set *)

T(kind) == CToken(kind, "", 0)
Toks(kinds) == [i \in DOMAIN kinds |-> T(kinds[i])]

\* The level of an operator in C's grammar, and the levels of its operands.
BinaryLevel(op) == 2 + CHOOSE i \in DOMAIN Operators : op \in Operators[i]
Level(n) ==
  CASE n.type = "COMMA_EXPR" -> 0
    [] n.type = "ASSIGN" -> 1
    [] n.type = "TERNARY" -> 2
    [] n.type = "BINARY_OP" -> BinaryLevel(n.name)
    [] n.type = "CAST" -> 13
    [] n.type = "SIZEOF" \/ (n.type = "UNARY_OP" /\ n.name \notin {"post++", "post--"}) -> 14
    [] n.type = "UNARY_OP" /\ n.name \in {"post++", "post--"} -> 15
    [] n.type \in {"INDEX", "CALL", "MEMBER", "PTR_MEMBER"} -> 15
    [] OTHER -> 16
Sign(op) == CASE op \in {"pre++", "post++"} -> "++" [] op \in {"pre--", "post--"} -> "--" [] OTHER -> op

RECURSIVE SetExpr(_, _), SetType(_)
InParentheses(tokens, needed) == IF needed THEN Toks(<<"(">>) \o tokens \o Toks(<<")">>) ELSE tokens
SetType(type) == IF type.type = "POINTER" THEN SetType(type.kids[1]) \o Toks(<<"*">>) ELSE Toks(<<type.name>>)
SetExpr(n, level) ==
  LET k == n.kids
  IN  InParentheses(
        CASE n.type = "INT_LITERAL" -> <<CToken("number", "", n.value)>>
          [] n.type = "CHAR_LITERAL" -> <<CToken("character", "", n.value)>>
          [] n.type = "IDENT" -> <<CToken("id", n.name, 0)>>
          [] n.type \in {"MEMBER", "PTR_MEMBER"} ->
               SetExpr(k[1], 15) \o Toks(<<IF n.type = "MEMBER" THEN "." ELSE "->">>) \o <<CToken("id", n.name, 0)>>
          [] n.type = "COMMA_EXPR" -> SetExpr(k[1], 1) \o Toks(<<",">>) \o SetExpr(k[2], 1)
          [] n.type = "ASSIGN" -> SetExpr(k[1], 14) \o Toks(<<n.name>>) \o SetExpr(k[2], 1)
          [] n.type = "TERNARY" -> SetExpr(k[1], 3) \o Toks(<<"?">>) \o SetExpr(k[2], 0) \o Toks(<<":">>) \o SetExpr(k[3], 2)
          [] n.type = "BINARY_OP" ->
               SetExpr(k[1], Level(n)) \o Toks(<<n.name>>) \o SetExpr(k[2], Level(n) + 1)
          [] n.type = "CAST" -> Toks(<<"(">>) \o SetType(k[1]) \o Toks(<<")">>) \o SetExpr(k[2], 13)
          [] n.type = "SIZEOF" ->
               IF IsTypeNode(k[1]) THEN Toks(<<"sizeof", "(">>) \o SetType(k[1]) \o Toks(<<")">>)
               ELSE Toks(<<"sizeof">>) \o SetExpr(k[1], 14)
          [] n.type = "UNARY_OP" /\ n.name \in {"post++", "post--"} -> SetExpr(k[1], 15) \o Toks(<<Sign(n.name)>>)
          [] n.type = "UNARY_OP" /\ n.name \in {"pre++", "pre--"} -> Toks(<<Sign(n.name)>>) \o SetExpr(k[1], 14)
          [] n.type = "UNARY_OP" /\ n.name \in {"&", "*", "+", "-", "~", "!"} -> Toks(<<n.name>>) \o SetExpr(k[1], 13)
          [] n.type = "INDEX" -> SetExpr(k[1], 15) \o Toks(<<"[">>) \o SetExpr(k[2], 0) \o Toks(<<"]">>)
          [] n.type = "CALL" -> SetExpr(k[1], 15) \o Toks(<<"(">>) \o SetExpr(k[2], 1) \o Toks(<<")">>),
        Level(n) < level)

Maybe(n) == IF n.type = "none" THEN <<>> ELSE SetExpr(n, 0)
SetVar(n) ==
  SetType(n.kids[1]) \o <<CToken("id", n.name, 0)>>
    \o (IF Len(n.kids) < 2 THEN <<>> ELSE Toks(<<"=">>) \o SetExpr(n.kids[2], 1)) \o Toks(<<";">>)

RECURSIVE SetStmt(_)
SetAll(stmts) == FlattenSeq([i \in DOMAIN stmts |-> SetStmt(stmts[i])])
SetStmt(n) ==
  LET k == n.kids
      Headed(word, e) == Toks(<<word, "(">>) \o SetExpr(e, 0) \o Toks(<<")">>)
  IN  CASE n.type = "COMPOUND_STMT" -> Toks(<<"{">>) \o SetAll(k) \o Toks(<<"}">>)
        [] n.type = "VAR_DECL" -> SetVar(n)
        [] n.type = "EXPR_STMT" -> (IF k = <<>> THEN <<>> ELSE SetExpr(k[1], 0)) \o Toks(<<";">>)
        [] n.type = "RETURN_STMT" -> Toks(<<"return">>) \o (IF k = <<>> THEN <<>> ELSE SetExpr(k[1], 0)) \o Toks(<<";">>)
        [] n.type = "IF_STMT" ->
             Headed("if", k[1]) \o SetStmt(k[2]) \o (IF Len(k) > 2 THEN Toks(<<"else">>) \o SetStmt(k[3]) ELSE <<>>)
        [] n.type = "WHILE_STMT" -> Headed("while", k[1]) \o SetStmt(k[2])
        [] n.type = "DO_WHILE_STMT" -> Toks(<<"do">>) \o SetStmt(k[1]) \o Headed("while", k[2]) \o Toks(<<";">>)
        [] n.type = "FOR_STMT" ->
             Toks(<<"for", "(">>) \o (IF k[1].type = "none" THEN Toks(<<";">>) ELSE SetStmt(k[1]))
               \o Maybe(k[2]) \o Toks(<<";">>) \o Maybe(k[3]) \o Toks(<<")">>) \o SetStmt(k[4])
        [] n.type = "SWITCH_STMT" -> Headed("switch", k[1]) \o SetStmt(k[2])
        [] n.type = "CASE_STMT" -> Toks(<<"case">>) \o SetExpr(k[1], 2) \o Toks(<<":">>) \o SetStmt(k[2])
        [] n.type = "DEFAULT_STMT" -> Toks(<<"default", ":">>) \o SetStmt(k[1])
        [] n.type = "BREAK_STMT" -> Toks(<<"break", ";">>)
        [] n.type = "CONTINUE_STMT" -> Toks(<<"continue", ";">>)
        [] n.type = "GOTO_STMT" -> Toks(<<"goto">>) \o <<CToken("id", n.name, 0)>> \o Toks(<<";">>)
        [] n.type = "LABEL_STMT" -> <<CToken("id", n.name, 0)>> \o Toks(<<":">>) \o SetStmt(k[1])

\* A function: its type and name, its parameters, its body.
SetFunction(n) ==
  LET params == {i \in DOMAIN n.kids : n.kids[i].type = "PARAM"}
      SetParam(i) == (IF i = 2 THEN <<>> ELSE Toks(<<",">>)) \o SetType(n.kids[i].kids[1])
                       \o <<CToken("id", n.kids[i].name, 0)>>
  IN  SetType(n.kids[1]) \o <<CToken("id", n.name, 0)>> \o Toks(<<"(">>)
        \o (IF params = {} THEN Toks(<<"void">>) ELSE FlattenSeq([i \in 1 .. Cardinality(params) |-> SetParam(i + 1)]))
        \o Toks(<<")">>)
        \o (IF Last(n.kids).type = "COMPOUND_STMT" THEN SetStmt(Last(n.kids)) ELSE Toks(<<";">>))
SetDecls(decls) ==
  FlattenSeq([i \in DOMAIN decls |-> IF decls[i].type = "FUNCTION_DEF" THEN SetFunction(decls[i]) ELSE SetStmt(decls[i])])

----------------------------------------------------------------------------
(* The library *)

\* The variables of all programs; each program declares those that it uses.
GlobalTypes == <<<<"a", TypeSpec("int")>>, <<"b", TypeSpec("int")>>, <<"l", TypeSpec("long")>>, <<"c", TypeSpec("char")>>,
                 <<"p", PointerType(TypeSpec("long"))>>, <<"q", PointerType(TypeSpec("int"))>>>>
PrototypeG == Tree("FUNCTION_DEF", "g", 0, <<TypeSpec("int"), ParamOf(TypeSpec("int"), "n")>>)
RECURSIVE Names(_)
Names(n) == {n.name} \cup UNION {Names(n.kids[i]) : i \in DOMAIN n.kids}
GlobalsIn(n) ==
  LET used == SelectSeq(GlobalTypes, LAMBDA g : g[1] \in Names(n))
  IN  (IF "g" \in Names(n) THEN <<PrototypeG>> ELSE <<>>) \o [i \in DOMAIN used |-> Var(used[i][2], used[i][1], <<>>)]

\* What the variables may hold: a and b are varied.
InputOf(a, b) ==
  [mem |-> "a" :> a @@ "b" :> b @@ "l" :> 40 @@ "c" :> 2 @@ "p" :> 40 @@ "q" :> 44 @@ "x" :> a @@ "y" :> b,
   heap |-> 40 :> 3 @@ 42 :> -9 @@ 44 :> 0 @@ 46 :> 7]
Inputs == <<InputOf(-3, 0), InputOf(0, 0), InputOf(1, 0), InputOf(-3, 2), InputOf(0, 2), InputOf(1, 2)>>

\* A program of the library: how its first declarations are set, if that is not as usual, and
\* the others; and whether it is C, breaks a rule, declares globals in a group, has a member or is no C.
Entry(lead, first, others, kind) == [lead |-> lead, first |-> first, others |-> others, kind |-> kind]
Function0(stmts) == MainF(<<>>, stmts)
Main(stmts, kind) == LET f == Function0(stmts) IN Entry(<<>>, <<>>, GlobalsIn(f) \o <<f>>, kind)

VarA == Ident("a")
VarB == Ident("b")
VarC == Ident("c")
VarL == Ident("l")
VarP == Ident("p")
VarQ == Ident("q")
BinaryOperators == UNION {Operators[i] : i \in DOMAIN Operators}

Inner ==
  {Bin(op, VarA, VarB) : op \in BinaryOperators} \cup {Bin(op, VarA, Lit(2)) : op \in {"*", "/", "%", "<<", ">>", "-"}}
    \cup {Un(op, VarA) : op \in {"-", "+", "~", "!", "pre++", "post++", "pre--", "post--"}}
    \cup {Un("*", VarP), ElementAt(VarP, Lit(1)), CallG(VarA), Set("=", VarA, VarB), Set("+=", VarB, VarA), Cond(VarA, VarB, Lit(2)),
          CommaOf(VarA, VarB), CastTo(TypeSpec("char"), VarA), SizeOfType(PointerType(TypeSpec("int"))), VarC, Lit(3)}
\* The lexer makes no tokens <<= and >>=.
AssignTokens == AssignOps \ {"<<=", ">>="}
\* What an expression e may stand in.
Outer(e) ==
  {Bin(op, e, VarB) : op \in BinaryOperators} \cup {Bin(op, VarB, e) : op \in BinaryOperators}
    \cup {Un(op, e) : op \in {"-", "~", "!"}} \cup {Set(op, VarL, e) : op \in AssignTokens}
    \cup {CastTo(TypeSpec("long"), e), Cond(e, Lit(1), VarB), Cond(VarA, e, VarB), Cond(VarA, VarB, e), CallG(e),
          CommaOf(e, VarA), CommaOf(VarA, e), ElementAt(VarP, e), Set("=", ElementAt(VarP, Lit(1)), e), Set("=", Un("*", VarP), e)}
NestedExpressions == UNION {Outer(e) : e \in Inner}

OneOfLevel == {"||", "&&", "|", "^", "&", "==", "<", "<<", "+", "*"}
StatementExpressions ==
  UNION {{Bin(o, Bin(op, VarA, VarB), Lit(2)), Bin(op, VarA, Bin(o, VarB, Lit(2))), Bin(o, CallG(VarA), Un("-", VarB)),
          Cond(Bin(o, VarA, VarB), Bin(op, VarA, VarB), Lit(2)), Set("+=", VarL, Bin(o, VarA, CastTo(TypeSpec("int"), VarB)))} :
            o \in OneOfLevel, op \in OneOfLevel}
    \cup {Bin("+", VarA, CastTo(TypeSpec("int"), VarB)), CommaOf(CallG(VarA), CallG(VarB)), Un("post++", VarA), Un("*", CastTo(TypeSpec("int"), VarA)),
          Un("-", CastTo(TypeSpec("int"), VarA)), Bin("*", CastTo(TypeSpec("int"), VarA), VarB)}

CountUp == Un("post++", VarA)
AddB == Do(Set("+=", VarB, VarA))
ReturnB == Return(VarB)
Three == Bin("<", VarA, Lit(3))
InitA == Do(Set("=", VarA, Lit(0)))
IfA(n, s) == If(Bin("==", VarA, Lit(n)), s)

Bodies ==
  {<<If(VarA, AddB), ReturnB>>, <<IfElse(VarA, AddB, Do(CallG(VarB))), ReturnB>>,
   <<IfElse(VarA, IfElse(VarB, Do(CallG(VarA)), AddB), Block(<<>>)), ReturnB>>,
   <<If(Bin("&&", VarA, VarB), Return(Lit(1))), ReturnB>>, <<If(Bin("||", VarA, CallG(VarB)), AddB), ReturnB>>,
   <<While(Three, Block(<<Do(CountUp), AddB>>)), ReturnB>>,
   <<While(Three, Block(<<Do(CountUp), IfA(1, Continue), IfA(2, Break), AddB>>)), ReturnB>>,
   <<DoWhile(Block(<<Do(CountUp), IfA(1, Continue), IfA(2, Break), AddB>>), Three), ReturnB>>,
   <<For(InitA, Three, CountUp, AddB), ReturnB>>,
   <<For(InitA, Three, CountUp, Block(<<IfA(1, Continue), IfA(2, Break), AddB>>)), ReturnB>>,
   <<For(InitA, Three, CountUp, Block(<<While(VarB, Block(<<Do(Set("=", VarB, Lit(0))), Break>>)), AddB>>)), ReturnB>>,
   <<For(Var(TypeSpec("int"), "i", <<Lit(0)>>), Bin("<", Ident("i"), Lit(2)), Un("pre++", Ident("i")), AddB), ReturnB>>,
   <<For(NoNode, Three, CountUp, AddB), ReturnB>>, <<For(InitA, NoNode, CountUp, IfA(2, Return(Lit(1)))), ReturnB>>,
   <<For(InitA, Three, NoNode, Do(CountUp)), ReturnB>>,
   <<SwitchOn(VarA, <<Case(1, AddB), Break, Case(0, Do(CallG(VarA))), Default(Do(CallG(VarB)))>>), ReturnB>>,
   <<Do(Set("=", VarA, Lit(1))), SwitchOn(VarA, <<Case(1, AddB), Case(0, Do(CallG(VarA))), Break, Default(Do(CallG(VarB)))>>), ReturnB>>,
   <<LabelAt("again", Do(CountUp)), If(Three, GotoLabel("again")), ReturnB>>,
   <<Var(TypeSpec("int"), "d", <<VarA>>), Block(<<Var(TypeSpec("int"), "e", <<VarB>>), Do(Set("+=", Ident("d"), Ident("e")))>>), Return(Ident("d"))>>,
   <<Var(TypeSpec("int"), "d", <<VarA>>), Block(<<Var(TypeSpec("int"), "d", <<VarB>>)>>), Return(Ident("d"))>>,
   <<Do(Set("=", ElementAt(VarP, Lit(1)), VarA)), Return(Un("*", VarP))>>, <<Do(Set("=", ElementAt(VarQ, Lit(0)), VarA)), ReturnB>>,
   <<Do(Set("=", ElementAt(VarP, Lit(1)), Un("*", VarP))), Return(ElementAt(VarP, Lit(1)))>>,
   <<Do(Set("+=", Un("*", VarP), Lit(1))), ReturnB>>, <<Do(Un("post++", Un("*", VarP))), ReturnB>>,
   <<Do(Un("post++", VarP)), ReturnB>>, <<Return(Un("*", Bin("+", VarP, Lit(1))))>>,
   <<Do(Set("=", VarC, Char(5))), Return(Bin("+", VarC, Char(1)))>>, <<Return(SizeOfType(VarP))>>,
   <<Do(CallG(CallG(VarA))), Return(Bin("+", CallG(VarA), CallG(VarB)))>>,
   <<Return(Cond(Bin(">", CallG(Lit(1)), Lit(0)), VarA, VarB))>>,
   <<If(Lit(0), AddB), While(Lit(1), Return(Bin("/", Lit(7), Lit(2))))>>,
   <<Return(Bin("-", Lit(5), Bin("+", Lit(3), Un("-", Lit(1)))))>>, <<Return(Bin(">>", Un("-", Lit(2)), Lit(1)))>>,
   <<Return(Bin("*", Bin("+", VarA, Lit(0)), Bin("*", VarB, Lit(4))))>>, <<Do(Bin("/", VarA, VarB)), ReturnB>>,
   <<Return(Bin("+", Bin("*", VarA, VarB), Bin("+", Bin("*", VarA, VarA), Bin("+", Bin("*", VarB, VarB), Bin("-", VarA, VarB)))))>>,
   <<Tree("EXPR_STMT", "", 0, <<>>), ReturnB>>}

Rejected ==
  {<<Return(Ident("x"))>>, <<Block(<<Var(TypeSpec("int"), "e", <<>>)>>), Return(Ident("e"))>>,
   <<For(Var(TypeSpec("int"), "i", <<>>), Three, CountUp, AddB), Return(Ident("i"))>>,
   <<Break>>, <<Continue>>, <<SwitchOn(VarA, <<Case(1, AddB), Continue>>)>>, <<If(VarA, Case(1, AddB)), ReturnB>>,
   <<Default(AddB)>>, <<While(VarA, AddB), Break>>, <<Return(Un("*", VarA))>>, <<Return(VarP)>>,
   <<Do(Set("=", Un("*", Ident("x")), Lit(1)))>>, <<GotoLabel("nowhere")>>}

\* Members of what is no struct.
Members ==
  {<<Return(MemberOf(VarP, "PTR_MEMBER"))>>, <<Return(MemberOf(ElementAt(VarP, Lit(0)), "MEMBER"))>>,
   <<Do(Set("+=", VarL, Bin("+", MemberOf(VarP, "PTR_MEMBER"), VarB))), ReturnB>>,
   <<Do(Bin("+", MemberOf(VarP, "PTR_MEMBER"), VarA)), Return(Un("-", MemberOf(VarQ, "PTR_MEMBER")))>>}

\* A function with parameters behind a prototype; pointers and arrays of a block.
IdToken(name) == CToken("id", name, 0)
VarX == Ident("x")
SumOfGroup == Function0(<<Return(Bin("+", VarA, VarB))>>)
WithParameters ==
  {Entry(<<>>, <<>>, <<MainF(<<ParamOf(TypeSpec("int"), "x"), ParamOf(PointerType(TypeSpec("char")), "y")>>, <<Return(VarX)>>)>>, "C"),
   Entry(<<>>, <<>>, <<MainF(<<ParamOf(TypeSpec("int"), "x")>>, <<Do(Set("=", VarX, Lit(3))), Return(Bin("*", VarX, VarX))>>)>>, "C"),
   Entry(<<T("void"), T("*"), IdToken("h"), T("("), T("const"), T("unsigned"), T("short"), IdToken("x"), T(")"), T(";")>>,
         <<Tree("FUNCTION_DEF", "h", 0, <<PointerType(TypeSpec("void")), ParamOf(TypeSpec("short"), "x")>>)>>,
         GlobalsIn(SumOfGroup) \o <<SumOfGroup>>, "C")}

\* int a, b; declares two globals at once.
Group ==
  Entry(<<T("int"), IdToken("a"), T(","), IdToken("b"), T(";")>>,
        <<Var(TypeSpec("int"), "a", <<>>), Var(TypeSpec("int"), "b", <<>>)>>, <<SumOfGroup>>, "grouped")

\* Texts that are no C: one without types, one that begins without a type, and one with a
\* token missing.
NoC(tokens) == Entry(tokens, <<>>, <<>>, "no C")
Untyped ==
  NoC(<<IdToken("main"), T("("), T(")"), T("{"), T("return"), CToken("number", "", 1), T(";"), T("}")>>)
Typeless == Entry(<<IdToken("main"), T("="), CToken("number", "", 1), T(";")>>, <<>>, <<SumOfGroup>>, "no C")
Complete ==
  Main(<<Var(TypeSpec("int"), "d", <<VarA>>), For(InitA, Three, CountUp, Block(<<If(VarB, Break), Do(CallG(VarB))>>)),
         SwitchOn(VarA, <<Case(1, AddB), Default(AddB)>>), Do(Set("=", ElementAt(VarP, Lit(1)), Cond(VarA, VarB, Lit(2)))),
         Return(VarB)>>, "C")
Incomplete == LET tokens == SetDecls(Complete.others) IN {NoC(RemoveAt(tokens, i)) : i \in DOMAIN tokens}

Library ==
  {Main(<<Return(e)>>, "C") : e \in NestedExpressions} \cup {Main(<<Do(e), ReturnB>>, "C") : e \in StatementExpressions}
    \cup {Main(b, "C") : b \in Bodies} \cup {Main(b, "rejected") : b \in Rejected}
    \cup {Main(b, "member") : b \in Members}
    \cup WithParameters \cup Incomplete \cup {Group, Untyped, Typeless, Complete}

----------------------------------------------------------------------------
(* What the compiler is known not to take as it is written *)

RECURSIVE Chain(_), Within(_)
Within(n) == {n} \cup UNION {Within(n.kids[i]) : i \in DOMAIN n.kids}

\* An expression that begins with an identifier, as it is set.
LedById(e) == SetExpr(e, 0)[1].kind = "id"
\* Binary operators from left to right, on unary operands or ones in parentheses.
Chain(e) ==
  IF e.type # "BINARY_OP" THEN TRUE
  ELSE Chain(e.kids[1]) /\ (Level(e.kids[2]) >= 14 \/ Level(e.kids[2]) <= Level(e))
ReadFromTheLeft(e) ==
  CASE e.type = "TERNARY" -> Chain(e.kids[1])
    [] e.type = "COMMA_EXPR" -> FALSE
    [] OTHER -> Chain(e)
MisreadNode(n) ==
  \/ n.type = "UNARY_OP" /\ n.kids[1].type = "CAST"
  \/ n.type = "FOR_STMT" /\ \E i \in 1 .. 3 : n.kids[i].type = "none"
  \/ n.type = "EXPR_STMT" /\ n.kids # <<>> /\ LedById(n.kids[1]) /\ ~ReadFromTheLeft(n.kids[1])
Misread(decls) == \E i \in DOMAIN decls : \E n \in Within(decls[i]) : MisreadNode(n)
HasGoto(decls) == \E i \in DOMAIN decls : \E n \in Within(decls[i]) : n.type = "GOTO_STMT"

----------------------------------------------------------------------------
(* Programs *)

\* Its tokens, the tree that was written, the kind, whether the parser takes it for another,
\* and what it does for each input.
ProgramOf(e, written) ==
  [tokens |-> e.lead \o SetDecls(e.others), written |-> written, kind |-> e.kind,
   misread |-> e.kind \in {"grouped", "no C"} \/ Misread(written),
   meant |-> IF e.kind = "C" THEN [i \in DOMAIN Inputs |-> CMeaning(written, Inputs[i])] ELSE <<>>]
MCPrograms == {ProgramOf(e, IF e.kind = "no C" THEN <<>> ELSE e.first \o e.others) : e \in Library}

----------------------------------------------------------------------------
(* Properties *)

\* At the end of the text the tree is the one that was written, and no error has been found,
\* but for a cast under a unary operator, a for without one of its parts, an expression
\* statement that begins with an identifier and does not read from left to right, and globals
\* that share a type (cc_parser.c).
ParsedAsWritten ==
  stage = "parsing" /\ AtEnd => (parser.errors = 0 /\ unit = program.written <=> ~program.misread)

\* Whatever the text, each declaration takes tokens from it, but for one without a type that
\* has got to a brace: there the parser stays for ever (parseExternalDecl).
ParserAdvances ==
  stage = "parsing" /\ ~AtEnd =>
    (parseExternalDecl(parser).at > parser.at <=> ~check(parser, {"{"}))

\* A program that is read as written is rejected exactly if it breaks a rule of scopes, of
\* break, continue and case, or of types; whether a goto's label exists is not looked at, nor
\* whether what has a member is a struct (semantics.c).
AcceptedAsScoped ==
  (stage # "parsing" /\ ~program.misread /\ ~HasGoto(program.written)) => (stage = "rejected" <=> program.kind = "rejected")

GlobalNames == DeclaredIn(program.written)

\* The intermediate code does what the program means in C, unless the program, in this run of
\* it, does what the compiler is known not to honour (MCMeaning's odd): it skips an operand of
\* && or ||, narrows a value, moves a pointer by elements, ... (compiler.c).
LoweredAsMeant ==
  stage = "lowered" /\ todo = <<>> /\ ~program.misread =>
    \A i \in DOMAIN program.meant :
      program.meant[i].outcome # Undefined /\ program.meant[i].odd = {} =>
        IrMeaning(Last(ir), GlobalNames, Inputs[i]).outcome = program.meant[i].outcome

\* No pass changes what the intermediate code does, unless a temporary has two definitions,
\* the last of which copy propagation takes for both, or a negative number is shifted to the
\* right, which folding does in 64 bits (optimizer.c).
FlatOf(func) == FlattenSeq([b \in DOMAIN func.blocks |-> func.blocks[b].instrs])
Joined(func) ==
  LET flat == FlatOf(func)
      puts == {i \in DOMAIN flat : flat[i].op \in {"MOVE", "CONST"} /\ flat[i].result.id >= 0}
  IN  \E i, j \in puts : i # j /\ flat[i].result = flat[j].result
ShiftsNegative(func) == \E i \in DOMAIN FlatOf(func) : FlatOf(func)[i].op = "SHR" /\ FlatOf(func)[i].arg1.imm < 0
OptimizedAlike ==
  [][stage' = "optimized" /\ ~Joined(Last(ir)) /\ ~ShiftsNegative(Last(ir)) =>
       \A i \in DOMAIN Inputs :
         LET before == IrMeaning(Last(ir), GlobalNames, Inputs[i]).outcome
         IN  before # Undefined => IrMeaning(Last(ir'), GlobalNames, Inputs[i]).outcome = before]_compilerVars

\* The assembly does what the intermediate code does, unless it stores through a pointer, runs
\* out of registers, keeps a value over a call, which does not save D0 and D1, or multiplies or divides numbers of
\* more than a word (codegen.c).
StoresThrough(func) == \E ins \in InstrsOf(func) : ins.op = "STORE" /\ ins.arg1.id >= 0
OverCall(func) ==
  LET flat == FlatOf(func)
      calls == {i \in DOMAIN flat : flat[i].op = "CALL"}
  IN  \E i \in calls : \E j \in 1 .. i - 1 : flat[j].op \notin {"PARAM"} /\ flat[j].result.id >= 0
          /\ \E k \in i + 1 .. Len(flat) : flat[j].result.id \in {flat[k].arg1.id, flat[k].arg2.id}
Spills == \E i \in DOMAIN code : "d(A6)" \in {code[i].src.mode, code[i].dst.mode}
GeneratedAlike ==
  (stage = "generated" /\ ~StoresThrough(Last(ir)) /\ ~OverCall(Last(ir)) /\ ~Spills) =>
    \A i \in DOMAIN Inputs :
      LET m == IrMeaning(Last(ir), GlobalNames, Inputs[i])
      IN  m.outcome # Undefined /\ ~m.wide => CodeMeaning(code, GlobalNames, Inputs[i]) = m.outcome

CompilerSpec == CompilerInit /\ [][CompilerNext]_compilerVars

=============================================================================
