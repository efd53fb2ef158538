------------------------------ MODULE CParser ------------------------------
(***************************************************************************)
(* The C parser (src/src/compiler/frontend/cc_parser.c) over tokens: type  *)
(* specifiers of the basic types, declarators with pointers and an array   *)
(* bound, functions, all statements and all expressions.  Structs, unions, *)
(* enums, typedefs and floating point are left out.                        *)
(*                                                                         *)
(* A token has a kind, which is its text for keywords and operators, "id", *)
(* "number", "character" or "string".  A function of the parser takes the  *)
(* parser p and gives back p with the node it returns on top of p.nodes, a *)
(* stack; the nodes below it are those that wait for it.  NoNode stands    *)
(* for NULL.                                                               *)
(***************************************************************************)
EXTENDS Integers, Sequences
LOCAL INSTANCE SequencesExt

CONSTANT MaxErrors                      \* MAX_ERRORS: errors that are kept

Unresolved == [kind |-> "none", size |-> 2, base |-> <<>>]
Node(type, name, value) ==
  [type |-> type, name |-> name, value |-> value, kids |-> <<>>, resolved |-> Unresolved]
NoNode == Node("none", "", 0)
CToken(kind, name, value) == [kind |-> kind, name |-> name, value |-> value]

----------------------------------------------------------------------------
(* The stack of nodes *)

push(p, node) == [p EXCEPT !.nodes = Append(@, node)]
pop(p) == [p EXCEPT !.nodes = Front(@)]
Top(p) == Last(p.nodes)
Missing(p) == Top(p).type = "none"
Open(p, type, name) == push(p, Node(type, name, 0))

\* A mutant of the next: a NULL child keeps its place.
ChildKeepingPlace(parent, child) == [parent EXCEPT !.kids = Append(@, child)]
\* A NULL child is not added.
AddChild(parent, child) ==
  IF child.type = "none" THEN parent ELSE [parent EXCEPT !.kids = Append(@, child)]
\* The node on top becomes a child of the one below it, or of a new one.
astAddChild(p) ==
  [p EXCEPT !.nodes = Append(SubSeq(@, 1, Len(@) - 2), AddChild(@[Len(@) - 1], Last(@)))]
Wrap(p, type, name) == push(pop(p), AddChild(Node(type, name, 0), Top(p)))

----------------------------------------------------------------------------
(* Helpers of the parser *)

peek(p) == IF p.at <= Len(p.tokens) THEN p.tokens[p.at] ELSE CToken("eof", "", 0)
check(p, kinds) == peek(p).kind \in kinds
advance(p) == [p EXCEPT !.at = @ + 1]
parserError(p) == [p EXCEPT !.errors = IF @ < MaxErrors THEN @ + 1 ELSE @]
expect(p, kind) == IF check(p, {kind}) THEN advance(p) ELSE parserError(p)

BaseTypes == {"void", "char", "short", "int", "long"}
Qualifiers == {"const", "volatile", "static", "extern", "auto", "register", "signed", "unsigned"}
isTypeName(p) == check(p, BaseTypes \cup Qualifiers)

\* The last base type counts; a sign alone makes an int.
RECURSIVE Specifiers(_, _, _)
Specifiers(p, name, signed) ==
  CASE check(p, BaseTypes) -> Specifiers(advance(p), peek(p).kind, signed)
    [] check(p, {"signed", "unsigned"}) -> Specifiers(advance(p), name, TRUE)
    [] check(p, Qualifiers \ {"signed", "unsigned"}) -> Specifiers(advance(p), name, signed)
    [] OTHER -> IF name # "" THEN Open(p, "TYPE_SPEC", name)
                ELSE IF signed THEN Open(p, "TYPE_SPEC", "int")
                ELSE push(parserError(p), NoNode)
parseTypeSpec(p) == Specifiers(p, "", FALSE)

\* wrapPointers: one for each star.
RECURSIVE Stars(_)
Stars(p) ==
  IF ~check(p, {"*"}) THEN p
  ELSE Stars(IF Missing(p) THEN advance(p) ELSE Wrap(advance(p), "POINTER", ""))

\* A new node with its type and, if there is one, its name.
Named(p) ==
  IF check(p, {"id"}) THEN [advance(p) EXCEPT !.nodes[Len(p.nodes)].name = peek(p).name] ELSE p
TypedName(p, type, spec) == Named(astAddChild(Stars(push(Open(p, type, ""), spec))))

\* The bound of an array, if there is one.
NumberIn(p) ==
  IF check(p, {"number"}) THEN [advance(p) EXCEPT !.nodes[Len(p.nodes)].value = peek(p).value] ELSE p
Bounded(p) == IF check(p, {"["}) THEN expect(NumberIn(advance(p)), "]") ELSE p

----------------------------------------------------------------------------
(* Expressions *)

RECURSIVE parseExpr(_), parseAssignExpr(_), parseCondExpr(_), Binary(_, _), BinaryRest(_, _),
          parseCastExpr(_), parseUnaryExpr(_), PostfixRest(_), ListRest(_)

\* Commas, each with an item for the node below.
ListRest(p) == IF check(p, {","}) THEN ListRest(astAddChild(parseAssignExpr(advance(p)))) ELSE p
Arguments(p) ==
  expect(IF check(p, {")"}) THEN p ELSE ListRest(astAddChild(parseAssignExpr(p))), ")")

parsePrimaryExpr(p) ==
  CASE check(p, {"number"}) -> push(advance(p), Node("INT_LITERAL", "", peek(p).value))
    [] check(p, {"character"}) -> push(advance(p), Node("CHAR_LITERAL", "", peek(p).value))
    [] check(p, {"string"}) -> Open(advance(p), "STRING_LITERAL", peek(p).name)
    [] check(p, {"id"}) -> Open(advance(p), "IDENT", peek(p).name)
    [] check(p, {"("}) -> expect(parseExpr(advance(p)), ")")
    [] OTHER -> push(advance(parserError(p)), NoNode)

\* A member is whatever token follows, by its name; the type that a name has is looked at later.
Member(p, type) == Wrap(advance(p), type, peek(p).name)
PostfixRest(p) ==
  CASE check(p, {"["}) -> PostfixRest(expect(astAddChild(parseExpr(Wrap(advance(p), "INDEX", ""))), "]"))
    [] check(p, {"("}) -> PostfixRest(Arguments(Wrap(advance(p), "CALL", "")))
    [] check(p, {"."}) -> PostfixRest(Member(advance(p), "MEMBER"))
    [] check(p, {"->"}) -> PostfixRest(Member(advance(p), "PTR_MEMBER"))
    [] check(p, {"++", "--"}) -> PostfixRest(Wrap(advance(p), "UNARY_OP", "post" \o peek(p).kind))
    [] OTHER -> p
PostfixOf(p) == IF Missing(p) THEN p ELSE PostfixRest(p)
parsePostfixExpr(p) == PostfixOf(parsePrimaryExpr(p))

\* The operand of a unary operator is a unary expression: no cast.
UnaryName(kind) == IF kind \in {"++", "--"} THEN "pre" \o kind ELSE kind
TypeOrExpr(p) == IF isTypeName(p) THEN Stars(parseTypeSpec(p)) ELSE parseExpr(p)
SizeofOperand(p) == IF check(p, {"("}) THEN expect(TypeOrExpr(advance(p)), ")") ELSE parseUnaryExpr(p)
parseUnaryExpr(p) ==
  CASE check(p, {"++", "--", "&", "*", "+", "-", "~", "!"}) ->
         astAddChild(parseUnaryExpr(Open(advance(p), "UNARY_OP", UnaryName(peek(p).kind))))
    [] check(p, {"sizeof"}) -> astAddChild(SizeofOperand(Open(advance(p), "SIZEOF", "")))
    [] OTHER -> parsePostfixExpr(p)

CastType(p) == expect(astAddChild(Stars(parseTypeSpec(Open(p, "CAST", "")))), ")")
parseCastExpr(p) ==
  IF ~check(p, {"("}) THEN parseUnaryExpr(p)
  ELSE IF isTypeName(advance(p)) THEN astAddChild(parseCastExpr(CastType(advance(p))))
  ELSE PostfixRest(expect(parseExpr(advance(p)), ")"))

\* DEFINE_BINOP_PARSER: a parser for each level of precedence, lowest first.
Operators ==
  <<{"||"}, {"&&"}, {"|"}, {"^"}, {"&"}, {"==", "!="}, {"<", ">", "<=", ">="},
    {"<<", ">>"}, {"+", "-"}, {"*", "/", "%"}>>
Binary(p, level) ==
  IF level > Len(Operators) THEN parseCastExpr(p) ELSE BinaryRest(Binary(p, level + 1), level)
BinaryRest(p, level) ==
  IF Missing(p) \/ ~check(p, Operators[level]) THEN p
  ELSE BinaryRest(astAddChild(Binary(Wrap(advance(p), "BINARY_OP", peek(p).kind), level + 1)), level)

TernaryRest(p) ==
  IF Missing(p) \/ ~check(p, {"?"}) THEN p
  ELSE astAddChild(parseCondExpr(expect(astAddChild(parseExpr(Wrap(advance(p), "TERNARY", ""))), ":")))
parseCondExpr(p) == TernaryRest(Binary(p, 1))

AssignOps == {"=", "+=", "-=", "*=", "/=", "%=", "&=", "|=", "^=", "<<=", ">>="}
AssignRest(p) ==
  IF Missing(p) \/ ~check(p, AssignOps) THEN p
  ELSE astAddChild(parseAssignExpr(Wrap(advance(p), "ASSIGN", peek(p).kind)))
parseAssignExpr(p) == AssignRest(parseCondExpr(p))

CommaRest(p) == IF Missing(p) \/ ~check(p, {","}) THEN p ELSE ListRest(Wrap(p, "COMMA_EXPR", ""))
parseExpr(p) == CommaRest(parseAssignExpr(p))

----------------------------------------------------------------------------
(* Declarations *)

\* The items of an aggregate; a comma may be the last thing in it.
RECURSIVE Aggregate(_)
AggregateRest(p) == IF check(p, {","}) THEN Aggregate(advance(p)) ELSE p
Aggregate(p) ==
  IF check(p, {"}"}) THEN p ELSE AggregateRest(astAddChild(parseAssignExpr(p)))

PlainInitializer(p) == IF check(p, {"="}) THEN astAddChild(parseAssignExpr(advance(p))) ELSE p
Initializer(p) ==
  IF check(p, {"="}) /\ check(advance(p), {"{"})
    THEN astAddChild(expect(Aggregate(Open(advance(advance(p)), "COMMA_EXPR", "")), "}"))
    ELSE PlainInitializer(p)

\* The declarators of a list in a block, each a child of the block.
RECURSIVE Locals(_, _)
LocalsRest(p, spec) == IF check(p, {","}) THEN Locals(advance(p), spec) ELSE expect(p, ";")
Locals(p, spec) ==
  LocalsRest(astAddChild(Initializer(Bounded(TypedName(p, "VAR_DECL", spec)))), spec)

----------------------------------------------------------------------------
(* Statements *)

RECURSIVE parseStatement(_), Statements(_)

\* Declarations and statements up to the brace.
LocalDecls(p) == IF Missing(p) THEN advance(pop(p)) ELSE Locals(pop(p), Top(p))
Statements(p) ==
  CASE check(p, {"}", "eof"}) -> expect(p, "}")
    [] isTypeName(p) -> Statements(LocalDecls(parseTypeSpec(p)))
    [] OTHER -> Statements(astAddChild(parseStatement(p)))
parseCompoundStmt(p) == Statements(Open(p, "COMPOUND_STMT", ""))

Parenthesised(p) == expect(astAddChild(parseExpr(expect(p, "("))), ")")
Substatement(p) == astAddChild(parseStatement(p))
\* while and switch, and the beginning of an if.
Conditioned(p, type) == Substatement(Parenthesised(Open(p, type, "")))
Else(p) == IF check(p, {"else"}) THEN Substatement(advance(p)) ELSE p
parseIfStmt(p) == Else(Conditioned(p, "IF_STMT"))
parseDoWhileStmt(p) ==
  expect(Parenthesised(expect(Substatement(Open(p, "DO_WHILE_STMT", "")), "while")), ";")

\* A part that is missing is no child: the ones behind it move up.
ForDecl(p) == expect(PlainInitializer(TypedName(pop(p), "VAR_DECL", Top(p))), ";")
ForInit(p) ==
  CASE check(p, {";"}) -> push(advance(p), NoNode)
    [] isTypeName(p) -> ForDecl(parseTypeSpec(p))
    [] OTHER -> expect(Wrap(parseExpr(p), "EXPR_STMT", ""), ";")
ForPart(p, end) ==
  expect(astAddChild(IF check(p, {end}) THEN push(p, NoNode) ELSE parseExpr(p)), end)
parseForStmt(p) ==
  Substatement(ForPart(ForPart(astAddChild(ForInit(expect(Open(p, "FOR_STMT", ""), "("))), ";"), ")"))

parseReturnStmt(p) ==
  expect(IF check(p, {";"}) THEN Open(p, "RETURN_STMT", "")
         ELSE astAddChild(parseExpr(Open(p, "RETURN_STMT", ""))), ";")

\* case, default and a label take the statement behind their colon.
Labelled(p) == Substatement(expect(p, ":"))

\* A statement that begins with an identifier: what has been read is the left side of one
\* assignment, or of binary operators taken from left to right, whatever their precedence.
RECURSIVE LeftToRight(_)
LeftToRight(p) ==
  IF ~check(p, UNION {Operators[i] : i \in DOMAIN Operators}) THEN p
  ELSE LeftToRight(astAddChild(parseUnaryExpr(Wrap(advance(p), "BINARY_OP", peek(p).kind))))
FromTheLeft(p) == IF check(p, AssignOps) THEN AssignRest(p) ELSE TernaryRest(LeftToRight(p))
IdentifierStmt(p) ==
  IF check(advance(p), {":"}) THEN Labelled(Open(advance(p), "LABEL_STMT", peek(p).name))
  ELSE Wrap(expect(FromTheLeft(PostfixRest(Open(advance(p), "IDENT", peek(p).name))), ";"), "EXPR_STMT", "")

parseStatement(p) ==
  CASE check(p, {"{"}) -> parseCompoundStmt(advance(p))
    [] check(p, {"if"}) -> parseIfStmt(advance(p))
    [] check(p, {"while"}) -> Conditioned(advance(p), "WHILE_STMT")
    [] check(p, {"do"}) -> parseDoWhileStmt(advance(p))
    [] check(p, {"for"}) -> parseForStmt(advance(p))
    [] check(p, {"switch"}) -> Conditioned(advance(p), "SWITCH_STMT")
    [] check(p, {"return"}) -> parseReturnStmt(advance(p))
    [] check(p, {"break"}) -> expect(Open(advance(p), "BREAK_STMT", ""), ";")
    [] check(p, {"continue"}) -> expect(Open(advance(p), "CONTINUE_STMT", ""), ";")
    [] check(p, {"goto"}) -> expect(Named(Open(advance(p), "GOTO_STMT", "")), ";")
    [] check(p, {"case"}) -> Labelled(astAddChild(parseCondExpr(Open(advance(p), "CASE_STMT", ""))))
    [] check(p, {"default"}) -> Labelled(Open(advance(p), "DEFAULT_STMT", ""))
    [] check(p, {"id"}) -> IdentifierStmt(p)
    [] check(p, {";"}) -> Open(advance(p), "EXPR_STMT", "")
    [] OTHER -> expect(Wrap(parseExpr(p), "EXPR_STMT", ""), ";")

----------------------------------------------------------------------------
(* External declarations *)

Param(p) == IF Missing(p) THEN p ELSE Bounded(TypedName(pop(p), "PARAM", Top(p)))
parseParam(p) == Param(parseTypeSpec(p))
RECURSIVE Params(_)
Params(p) == IF check(p, {","}) THEN Params(astAddChild(parseParam(advance(p)))) ELSE expect(p, ")")

\* Behind the parenthesis: (void) has no parameters.
Parameters(p) ==
  IF check(p, {")"}) THEN advance(p)
  ELSE IF ~check(p, {"void"}) THEN Params(astAddChild(parseParam(p)))
  ELSE IF check(advance(p), {")"}) THEN advance(advance(p))
  ELSE Params(astAddChild(TypedName(advance(p), "PARAM", Node("TYPE_SPEC", "void", 0))))

FunctionBody(p) ==
  IF check(p, {"{"}) THEN astAddChild(parseCompoundStmt(advance(p))) ELSE expect(p, ";")
Function(p) == FunctionBody(Parameters([p EXCEPT !.nodes[Len(p.nodes)].type = "FUNCTION_DEF"]))

\* Global variables behind the first of a list.
RECURSIVE Globals(_, _)
Globals(p, spec) ==
  IF ~check(p, {","}) THEN expect(p, ";")
  ELSE Globals(astAddChild(PlainInitializer(Bounded(TypedName(advance(p), "VAR_DECL", spec)))), spec)
Variables(p, spec) == IF check(p, {","}) THEN Globals(Wrap(p, "COMPOUND_STMT", ""), spec) ELSE expect(p, ";")

\* With its type and its name read: a function or variables.
Declaration(p, spec) ==
  IF check(p, {"("}) THEN Function(advance(p)) ELSE Variables(Initializer(Bounded(p)), spec)

\* A mutant of the next: the semicolon is left.
RECURSIVE RecoveredBefore(_)
RecoveredBefore(p) == IF check(p, {";", "{", "eof"}) THEN p ELSE RecoveredBefore(advance(p))

\* Without a type it skips to a semicolon, which it takes, or to a brace, which it does not.
RECURSIVE Recovered(_)
Recovered(p) ==
  CASE check(p, {";"}) -> advance(p)
    [] check(p, {"{", "eof"}) -> p
    [] OTHER -> Recovered(advance(p))

External(p) ==
  IF Missing(p) THEN Recovered(p)
  ELSE IF check(p, {";"}) THEN Wrap(advance(p), "VAR_DECL", "")
  ELSE Declaration(TypedName(pop(p), "VAR_DECL", Top(p)), Top(p))
parseExternalDecl(p) == External(parseTypeSpec(p))

=============================================================================
