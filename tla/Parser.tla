------------------------------- MODULE Parser -------------------------------
(***************************************************************************)
(* The assembler's line parser (src/src/assembler/parser.c), over the      *)
(* tokens of one line (the lexer's work is done; case is folded).          *)
(*                                                                         *)
(* A token is an identifier, a number, a string with its bytes, or one of  *)
(* the marks . : , # ( ) + - /  No line ends where the parser takes a      *)
(* token without looking at it: it would take the line's end for it and    *)
(* join the next line to this one.                                         *)
(***************************************************************************)
EXTENDS AsmLine, FiniteSets

Token(kind, text, num) == [kind |-> kind, text |-> text, num |-> num]
Id(name) == Token("id", name, 0)
Num(n) == Token("num", "", n)
Str(bytes) == [kind |-> "str", text |-> "", num |-> 0, bytes |-> bytes]
Mark(m) == Token(m, "", 0)
EndOfLine == Token("eol", "", 0)

\* Behind the last token every look finds the end of the line.
Peek(toks, i) == IF i \in DOMAIN toks THEN toks[i] ELSE EndOfLine
Is(toks, i, kind) == Peek(toks, i).kind = kind

\* parseRegister: 0-7 for D0-D7, 8-15 for A0-A7 and SP; -1 for any other name.
Registers == [D0 |-> 0, D1 |-> 1, D2 |-> 2, D3 |-> 3, D4 |-> 4, D5 |-> 5, D6 |-> 6, D7 |-> 7,
              A0 |-> 8, A1 |-> 9, A2 |-> 10, A3 |-> 11, A4 |-> 12, A5 |-> 13, A6 |-> 14,
              A7 |-> 15, SP |-> 15]
parseRegister(t) == IF t.text \in DOMAIN Registers THEN Registers[t.text] ELSE -1
AddressRegister(toks, i) == parseRegister(Peek(toks, i)) >= 8
AddressNumber(toks, i) == parseRegister(Peek(toks, i)) - 8

----------------------------------------------------------------------------
(* Each parser gives what it has read and the place of the next token; an  *)
(* operand of type none is one it has refused.                             *)

Read(operand, next) == [operand |-> operand, next |-> next]
Refused(next) == Read(NoOperand, next)

\* A mutant of the next: a range holds its first and last register only.
RangeEnds(a, b) == {a, b}
RegRange(a, b) == (a .. b) \cup (b .. a)

\* A register list, of registers and ranges, behind the register at toks[i - 1].
parseRegList(toks, i) ==
  LET reg(k) == parseRegister(Peek(toks, k))
      rest[k \in i .. Len(toks) + 2] ==
        CASE Is(toks, k, "-") -> rest[k + 2] \cup {<<k, RegRange(reg(k - 1), reg(k + 1))>>}
          [] Is(toks, k, "/") -> rest[k + 2] \cup {<<k, {reg(k + 1)}>>}
          [] OTHER -> {}
      bits == {reg(i - 1)} \cup UNION {part[2] : part \in rest[i]}
      next == i + 2 * Cardinality(rest[i])
  IN  IF -1 \in bits THEN Refused(next) ELSE Read(List(bits), next)

\* toks[i] is a #; what follows and is neither a number nor a name counts as 0.
parseImmediate(toks, i) ==
  LET t == Peek(toks, i + 1)
  IN  Read(CASE t.kind = "num" -> Imm(t.num) [] t.kind = "id" -> ImmSymbol(t.text)
             [] OTHER -> Imm(0), i + 2)

parsePreDec(toks, i) ==
  IF Is(toks, i + 1, "(") /\ AddressRegister(toks, i + 2)
  THEN Read(PreDec(AddressNumber(toks, i + 2)), i + 4) ELSE Refused(i + 1)

\* A name that is no register: a ( behind it holds a base register; the token
\* behind that is taken for the ) whatever it is, so that an index is lost with its line.
parseSymbol(toks, i) ==
  LET name == Peek(toks, i).text
      ofPc == Peek(toks, i + 2).text = "PC"
  IN  IF ~Is(toks, i + 1, "(") THEN Read(Symbol(name), i + 1)
      ELSE Read(CASE ofPc -> PcSymbol(name)
                  [] ~ofPc /\ AddressRegister(toks, i + 2) ->
                       DispSymbol(name, AddressNumber(toks, i + 2))
                  [] OTHER -> Symbol(name), i + 4)

parseName(toks, i) ==
  LET name == Peek(toks, i).text
      r == parseRegister(Peek(toks, i))
      listed == Is(toks, i + 1, "/") \/ Is(toks, i + 1, "-")
  IN  IF name \in {"SR", "CCR", "USP"} THEN Read(Special(name), i + 1)
      ELSE IF name = "PC" THEN Read(Symbol("PC"), i + 1)
      ELSE CASE r >= 0 /\ listed -> parseRegList(toks, i + 1)
             [] r \in 0 .. 7 /\ ~listed -> Read(Dn(r), i + 1)
             [] r >= 8 /\ ~listed -> Read(An(r - 8), i + 1)
             [] OTHER -> parseSymbol(toks, i)

\* Only An makes a displacement of a number: n(PC) is the number.
parseNumber(toks, i) ==
  LET n == Peek(toks, i).num
  IN  IF ~Is(toks, i + 1, "(") THEN Read(Number(n), i + 1)
      ELSE Read(IF AddressRegister(toks, i + 2) THEN Disp(n, AddressNumber(toks, i + 2))
                ELSE Number(n), i + 4)

parseIndirect(toks, i) ==
  IF ~AddressRegister(toks, i + 1) THEN Refused(i + 2)
  ELSE LET r == AddressNumber(toks, i + 1)
       IN  IF Is(toks, i + 3, "+") THEN Read(PostInc(r), i + 4) ELSE Read(Ind(r), i + 3)

parseOperand(toks, i) ==
  CASE Is(toks, i, "#") -> parseImmediate(toks, i)
    [] Is(toks, i, "-") -> parsePreDec(toks, i)
    [] Is(toks, i, "id") -> parseName(toks, i)
    [] Is(toks, i, "num") -> parseNumber(toks, i)
    [] Is(toks, i, "(") -> parseIndirect(toks, i)
    [] OTHER -> Refused(i)

IsRefused(read) == read.operand.type = "none"

\* Up to two operands; what follows the last one it can read is dropped.
WithSecond(toks, first) ==
  LET second == parseOperand(toks, first.next + 1)
  IN  IF IsRefused(first) THEN <<>>
      ELSE IF ~Is(toks, first.next, ",") \/ IsRefused(second) THEN <<first.operand>>
      ELSE <<first.operand, second.operand>>
parseOperands(toks, i) == WithSecond(toks, parseOperand(toks, i))

\* DC: numbers and strings are data; a name is an operand, of which two fit.  A state s
\* is the next item's place, 0 if there is none, and what those before it have given.
ItemAt(toks, s, operand) ==
  LET i == s.next
      t == Peek(toks, i)
      Item(next, data, operands) ==
        [next |-> IF Is(toks, next, ",") THEN next + 1 ELSE 0,
         data |-> s.data \o data, operands |-> s.operands \o operands]
  IN CASE t.kind = "str" -> Item(i + 1, t.bytes, <<>>)
       [] t.kind = "num" -> Item(i + 1, <<t.num>>, <<>>)
       [] t.kind = "#" -> IF Is(toks, i + 1, "num") THEN Item(i + 2, <<Peek(toks, i + 1).num>>, <<>>)
                          ELSE Item(i + 1, <<>>, <<>>)
       [] t.kind = "id" /\ Len(s.operands) < 2 /\ ~IsRefused(operand) ->
            Item(operand.next, <<>>, <<operand.operand>>)
       [] OTHER -> [s EXCEPT !.next = 0]
parseItem(toks, s) ==
  IF s.next = 0 THEN s ELSE ItemAt(toks, s, parseOperand(toks, s.next))

\* There are no more items than tokens.
parseData(toks, i) ==
  LET read[n \in 0 .. Len(toks)] ==
        IF n = 0 THEN [next |-> i, data |-> <<>>, operands |-> <<>>]
        ELSE parseItem(toks, read[n - 1])
  IN  read[Len(toks)]

Sizes == [B |-> 1, W |-> 2, L |-> 4, S |-> 1]
parseSizeSuffix(toks, i) ==
  IF Is(toks, i, ".") /\ Peek(toks, i + 1).text \in DOMAIN Sizes
  THEN Sizes[Peek(toks, i + 1).text] ELSE 0

\* What the mnemonic takes, from the token i on.
Taken(toks, i, mnemonic) ==
  IF mnemonic = "DC" THEN parseData(toks, i)
  ELSE [operands |-> parseOperands(toks, i), data |-> <<>>]
LineWith(label, mnemonic, size, taken) == Line(label, mnemonic, size, taken.operands, taken.data)

\* A label is a name with a colon, in whatever column it stands.
asmParserParseLine(toks) ==
  LET labelled == Is(toks, 1, "id") /\ Is(toks, 2, ":")
      k == IF labelled THEN 3 ELSE 1
      named == Is(toks, k, "id")
      i == k + (IF named THEN IF Is(toks, k + 1, ".") THEN 3 ELSE 1 ELSE 0)
      mnemonic == IF named THEN toks[k].text ELSE NoName
      size == IF named THEN parseSizeSuffix(toks, k + 1) ELSE 0
  IN  LineWith(IF labelled THEN toks[1].text ELSE NoName, mnemonic, size, Taken(toks, i, mnemonic))
=============================================================================
