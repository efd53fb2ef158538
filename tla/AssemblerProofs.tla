--------------------------- MODULE AssemblerProofs ---------------------------
(***************************************************************************)
(* Proofs about the assembler, for every text: that both passes place      *)
(* every line alike.                                                       *)
(*                                                                         *)
(* The parser makes operands of fixed forms, the form of its operands      *)
(* decides how long a line's code is, and a symbol's value changes no      *)
(* form: so a line is as long in the second pass as it was in the first,   *)
(* which the invariant remembers as the pc and the symbols behind every    *)
(* line (Goes).                                                            *)
(***************************************************************************)
EXTENDS Toolchain, Basics

----------------------------------------------------------------------------
(* Sequences of a length, whatever is in them *)

OfLength(s, n) == \E T : s \in Seq(T) /\ Len(s) = n

LEMMA LengthNone == OfLength(<<>>, 0)
<1>1. <<>> \in Seq({}) /\ Len(<<>>) = 0
  OBVIOUS
<1>2. QED BY <1>1, Zenon DEF OfLength

LEMMA LengthOne == ASSUME NEW x PROVE OfLength(<<x>>, 1)
<1>1. <<x>> \in Seq({x}) /\ Len(<<x>>) = 1
  OBVIOUS
<1>2. QED BY <1>1, Zenon DEF OfLength

LEMMA LengthTwo == ASSUME NEW x, NEW y PROVE OfLength(<<x, y>>, 2)
<1>1. <<x, y>> \in Seq({x, y}) /\ Len(<<x, y>>) = 2
  OBVIOUS
<1>2. QED BY <1>1, Zenon DEF OfLength

LEMMA LengthIs ==
  ASSUME NEW s, NEW n, OfLength(s, n) PROVE Len(s) = n /\ n \in Nat /\ DOMAIN s = 1 .. n
<1>1. PICK T : s \in Seq(T) /\ Len(s) = n
  BY Zenon DEF OfLength
<1>2. QED BY <1>1

LEMMA LengthCat ==
  ASSUME NEW s, NEW t, NEW m \in Nat, NEW n \in Nat, OfLength(s, m), OfLength(t, n)
  PROVE  /\ OfLength(s \o t, m + n)
         /\ \A i \in 1 .. m : (s \o t)[i] = s[i]
         /\ \A i \in 1 .. n : (s \o t)[m + i] = t[i]
<1>1. PICK T : s \in Seq(T) /\ Len(s) = m
  BY Zenon DEF OfLength
<1>2. PICK U : t \in Seq(U) /\ Len(t) = n
  BY Zenon DEF OfLength
<1>3. s \in Seq(T \cup U) /\ t \in Seq(T \cup U)
  BY <1>1, <1>2
<1>4. s \o t \in Seq(T \cup U) /\ Len(s \o t) = m + n
  BY <1>1, <1>2, <1>3
<1>5. OfLength(s \o t, m + n)
  BY <1>4, Zenon DEF OfLength
<1>6. QED BY <1>1, <1>2, <1>3, <1>5

LEMMA LengthOf ==
  ASSUME NEW n \in Nat, NEW s, DOMAIN s = 1 .. n, s = [i \in 1 .. n |-> s[i]]
  PROVE  OfLength(s, n)
<1>1. s \in [1 .. n -> {s[i] : i \in 1 .. n}]
  OBVIOUS
<1> DEFINE T == {s[i] : i \in 1 .. n}
<1> HIDE DEF T
<1>2. s \in [1 .. n -> T]
  BY <1>1 DEF T
<1>3. s \in Seq(T) /\ Len(s) = n
  BY <1>2
<1>4. QED BY <1>3, Zenon DEF OfLength

----------------------------------------------------------------------------
(* What the parser makes of a line *)

IsOperand(op) ==
  /\ op = [type |-> op.type, reg |-> op.reg, imm |-> op.imm, disp |-> op.disp,
           sym |-> op.sym, list |-> op.list]
  /\ op.imm \in Nat /\ op.disp \in Int

\* A symbol has no value yet.
Unresolved(op) == op.sym # NoName => op.imm = 0

AreOperands(ops) == \E n \in 0 .. 2 :
  OfLength(ops, n) /\ \A k \in 1 .. n : IsOperand(ops[k]) /\ Unresolved(ops[k])

IsLine(l) ==
  /\ l = Line(l.label, l.mnemonic, l.size, l.operands, l.data)
  /\ l.size \in {0, 1, 2, 4} /\ AreOperands(l.operands) /\ l.data \in Seq(Nat)

Good(op) == IsOperand(op) /\ Unresolved(op)

LEMMA OperandIsGood ==
  ASSUME NEW type, NEW reg, NEW imm \in Nat, NEW disp \in Int, NEW sym, NEW list,
         sym # NoName => imm = 0
  PROVE  Good(Operand(type, reg, imm, disp, sym, list))
BY DEF Operand, Good, IsOperand, Unresolved

LEMMA OperandsMade ==
  ASSUME NEW r, NEW n \in Nat, NEW s, NEW type
  PROVE  /\ Good(NoOperand) /\ Good(Dn(r)) /\ Good(An(r)) /\ Good(Ind(r)) /\ Good(PostInc(r))
         /\ Good(PreDec(r)) /\ Good(Disp(n, r)) /\ Good(Imm(n)) /\ Good(Number(n)) /\ Good(List(s))
         /\ Good(Special(type)) /\ Good(Symbol(s)) /\ Good(ImmSymbol(s)) /\ Good(PcSymbol(s))
         /\ Good(DispSymbol(s, r))
<1>0. 0 \in Nat /\ 0 \in Int /\ n \in Int
  OBVIOUS
<1>1. \A type_1, reg, sym, list : Good(Operand(type_1, reg, 0, 0, sym, list))
  BY <1>0, OperandIsGood, Zenon
<1>2. /\ \A type_1, reg, list : Good(Operand(type_1, reg, n, 0, NoName, list))
      /\ \A type_1, reg, list : Good(Operand(type_1, reg, n, n, NoName, list))
  BY <1>0, OperandIsGood, Zenon
<1>3. QED
  BY <1>1, <1>2, Zenon DEF NoOperand, Of, Dn, An, Ind, PostInc, PreDec, Special, Disp, Imm, Number, List,
     Symbol, ImmSymbol, PcSymbol, DispSymbol

LEMMA SeqWider ==
  ASSUME NEW U, NEW T, U \subseteq T, NEW s \in Seq(U) PROVE s \in Seq(T)
OBVIOUS

LEMMA TokensRead ==
  ASSUME NEW toks \in Seq(Lexed), NEW i
  PROVE  /\ Is(toks, i, "num") => Peek(toks, i).num \in Nat
         /\ Is(toks, i, "str") => Peek(toks, i).bytes \in Seq(Nat)
<1>1. CASE i \in DOMAIN toks
  <2>1. toks[i] \in Lexed
    BY <1>1
  <2>2. Peek(toks, i) = toks[i]
    BY <1>1 DEF Peek
  <2>3. toks[i].kind = "str" => toks[i].bytes \in Seq(0 .. 255)
    BY <2>1 DEF Lexed
  <2>4. toks[i].num \in Nat
    BY <2>1 DEF Lexed
  <2>5. ASSUME toks[i].kind = "str" PROVE toks[i].bytes \in Seq(Nat)
    <3>1. 0 .. 255 \subseteq Nat
      OBVIOUS
    <3>2. toks[i].bytes \in Seq(0 .. 255)
      BY <2>3, <2>5
    <3> DEFINE B == 0 .. 255
    <3> HIDE DEF B
    <3>3. B \subseteq Nat /\ toks[i].bytes \in Seq(B)
      BY <3>1, <3>2 DEF B
    <3>4. QED BY <3>3, SeqWider
  <2>6. QED BY <2>2, <2>4, <2>5 DEF Is
<1>2. CASE i \notin DOMAIN toks
  <2>1. Peek(toks, i).kind = "eol"
    BY <1>2 DEF Peek, EndOfLine, Token
  <2>2. QED BY <2>1 DEF Is
<1>3. QED BY <1>1, <1>2

\* Every operand the parser reads.
LEMMA OperandRead ==
  ASSUME NEW toks \in Seq(Lexed), NEW i
  PROVE  Good(parseOperand(toks, i).operand)
<1>1. Good(parseImmediate(toks, i).operand)
  <2> DEFINE t == Peek(toks, i + 1)
  <2>1. t.kind = "num" => t.num \in Nat
    BY TokensRead DEF Is
  <2> HIDE DEF t
  <2>2. Good(Imm(0)) /\ Good(ImmSymbol(t.text)) /\ (t.kind = "num" => Good(Imm(t.num)))
    BY <2>1, OperandsMade
  <2>3. QED BY <2>2, Zenon DEF parseImmediate, Read, t
<1>2. Good(parsePreDec(toks, i).operand)
  BY OperandsMade DEF parsePreDec, Read, Refused
<1>3. Is(toks, i, "num") => Good(parseNumber(toks, i).operand)
  <2>1. SUFFICES ASSUME Is(toks, i, "num") PROVE Good(parseNumber(toks, i).operand)
    OBVIOUS
  <2> DEFINE n == Peek(toks, i).num
  <2>2. n \in Nat
    BY <2>1, TokensRead
  <2> HIDE DEF n
  <2>3. QED BY <2>2, OperandsMade DEF parseNumber, Read, n
<1>4. Good(parseIndirect(toks, i).operand)
  BY OperandsMade DEF parseIndirect, Read, Refused
<1>5. Good(parseSymbol(toks, i).operand)
  BY OperandsMade DEF parseSymbol, Read
<1>6. Good(parseRegList(toks, i + 1).operand)
  BY OperandsMade DEF parseRegList, Read, Refused
<1>7. Good(parseName(toks, i).operand)
  BY <1>5, <1>6, OperandsMade DEF parseName, Read
<1>8. QED
  BY <1>1, <1>2, <1>3, <1>4, <1>7, OperandsMade DEF parseOperand, Refused, Read

LEMMA NoOperandsAre == AreOperands(<<>>)
<1>1. \A k \in 1 .. 0 : IsOperand(<<>>[k]) /\ Unresolved(<<>>[k])
  OBVIOUS
<1>2. 0 \in 0 .. 2
  OBVIOUS
<1>3. QED BY <1>1, <1>2, LengthNone, Zenon DEF AreOperands

LEMMA OperandsAre ==
  ASSUME NEW a, NEW b, Good(a), Good(b)
  PROVE  AreOperands(<<a>>) /\ AreOperands(<<a, b>>)
<1>2. AreOperands(<<a>>)
  <2>1. \A k \in 1 .. 1 : IsOperand(<<a>>[k]) /\ Unresolved(<<a>>[k])
    BY DEF Good
  <2>2. 1 \in 0 .. 2
    OBVIOUS
  <2>3. QED BY <2>1, <2>2, LengthOne, Zenon DEF AreOperands
<1>3. AreOperands(<<a, b>>)
  <2>1. \A k \in 1 .. 2 : IsOperand(<<a, b>>[k]) /\ Unresolved(<<a, b>>[k])
    BY DEF Good
  <2>2. 2 \in 0 .. 2
    OBVIOUS
  <2>3. QED BY <2>1, <2>2, LengthTwo, Zenon DEF AreOperands
<1>4. QED BY <1>2, <1>3

LEMMA OneMore ==
  ASSUME NEW ops, AreOperands(ops), NEW a, Good(a)
  PROVE  AreOperands(ops \o <<>>) /\ (Len(ops) < 2 => AreOperands(ops \o <<a>>))
<1>1. PICK n \in 0 .. 2 :
        OfLength(ops, n) /\ \A k \in 1 .. n : IsOperand(ops[k]) /\ Unresolved(ops[k])
  BY DEF AreOperands
<1>2. n \in Nat /\ Len(ops) = n
  BY <1>1, LengthIs
<1>3. OfLength(ops \o <<>>, n + 0) /\ \A k \in 1 .. n : (ops \o <<>>)[k] = ops[k]
  BY <1>1, LengthNone, LengthCat
<1>4. AreOperands(ops \o <<>>)
  <2>1. n + 0 = n
    BY <1>2
  <2>2. QED BY <1>1, <1>3, <2>1, Zenon DEF AreOperands
<1>5. ASSUME n < 2 PROVE AreOperands(ops \o <<a>>)
  <2>1. PICK T : ops \in Seq(T) /\ Len(ops) = n
    BY <1>1, Zenon DEF OfLength
  <2>2. ops \o <<a>> \in Seq(T \cup {a}) /\ Len(ops \o <<a>>) = n + 1
    BY <2>1
  <2>3. OfLength(ops \o <<a>>, n + 1)
    BY <2>2, Zenon DEF OfLength
  <2>4. (ops \o <<a>>)[n + 1] = a /\ \A k \in 1 .. n : (ops \o <<a>>)[k] = ops[k]
    BY <2>1, <1>2
  <2>5. ASSUME NEW k \in 1 .. n + 1
        PROVE  IsOperand((ops \o <<a>>)[k]) /\ Unresolved((ops \o <<a>>)[k])
    <3>1. CASE k = n + 1
      BY <2>4, <3>1 DEF Good
    <3>2. CASE k \in 1 .. n
      BY <1>1, <2>4, <3>2
    <3>3. QED BY <3>1, <3>2, <1>2
  <2>6. n + 1 \in 0 .. 2
    BY <1>5, <1>2
  <2>7. QED BY <2>3, <2>5, <2>6, Zenon DEF AreOperands
<1>6. QED BY <1>2, <1>4, <1>5

\* The state of parseData's loop.
IsState(s) ==
  /\ s = [next |-> s.next, data |-> s.data, operands |-> s.operands]
  /\ AreOperands(s.operands) /\ s.data \in Seq(Nat)

LEMMA ItemRead ==
  ASSUME NEW toks \in Seq(Lexed), NEW s, IsState(s)
  PROVE  IsState(parseItem(toks, s))
<1> DEFINE i == s.next
           t == Peek(toks, i)
           operand == parseOperand(toks, i)
           After(next, data, ops) ==
             [next |-> IF Is(toks, next, ",") THEN next + 1 ELSE 0,
              data |-> s.data \o data, operands |-> s.operands \o ops]
<1>1. s.data \in Seq(Nat) /\ AreOperands(s.operands)
  BY DEF IsState
<1>2. Good(operand.operand)
  BY OperandRead
<1>3. ASSUME NEW next, NEW data \in Seq(Nat), NEW ops, AreOperands(s.operands \o ops)
      PROVE  IsState(After(next, data, ops))
  <2>1. s.data \o data \in Seq(Nat)
    BY <1>1
  <2>2. QED BY <1>3, <2>1 DEF IsState
<1>4. <<>> \in Seq(Nat) /\ \A n \in Nat : <<n>> \in Seq(Nat)
  OBVIOUS
<1>5. AreOperands(s.operands \o <<>>)
      /\ (Len(s.operands) < 2 => AreOperands(s.operands \o <<operand.operand>>))
  BY <1>1, <1>2, OneMore
<1>6. IsState([s EXCEPT !.next = 0])
  <2> DEFINE m == [s EXCEPT !.next = 0]
  <2>1. m = [next |-> 0, data |-> s.data, operands |-> s.operands]
    BY SMT DEF IsState
  <2> HIDE DEF m
  <2>2. QED BY <2>1, <1>1 DEF IsState
<1>7. /\ t.kind = "num" => t.num \in Nat
      /\ t.kind = "str" => t.bytes \in Seq(Nat)
      /\ Is(toks, i + 1, "num") => Peek(toks, i + 1).num \in Nat
  BY TokensRead DEF Is
<1>8. ItemAt(toks, s, operand) =
        CASE t.kind = "str" -> After(i + 1, t.bytes, <<>>)
          [] t.kind = "num" -> After(i + 1, <<t.num>>, <<>>)
          [] t.kind = "#" -> IF Is(toks, i + 1, "num") THEN After(i + 2, <<Peek(toks, i + 1).num>>, <<>>)
                             ELSE After(i + 1, <<>>, <<>>)
          [] t.kind = "id" /\ Len(s.operands) < 2 /\ ~IsRefused(operand) ->
               After(operand.next, <<>>, <<operand.operand>>)
          [] OTHER -> [s EXCEPT !.next = 0]
  BY DEF ItemAt
<1>a. parseItem(toks, s) = IF s.next = 0 THEN s ELSE ItemAt(toks, s, operand)
  BY DEF parseItem
<1> HIDE DEF After, t, operand, i
<1> SUFFICES IsState(ItemAt(toks, s, operand))
  BY <1>a, Zenon
<1>9. CASE t.kind = "str"
  BY <1>3, <1>5, <1>7, <1>8, <1>9, Zenon
<1>10. CASE t.kind = "num"
  BY <1>3, <1>4, <1>5, <1>7, <1>8, <1>10, Zenon
<1>11. CASE t.kind = "#"
  BY <1>3, <1>4, <1>5, <1>7, <1>8, <1>11, Zenon
<1>12. CASE t.kind = "id" /\ Len(s.operands) < 2 /\ ~IsRefused(operand)
  BY <1>3, <1>4, <1>5, <1>8, <1>12, Zenon
<1>13. CASE /\ t.kind \notin {"str", "num", "#"}
            /\ ~(t.kind = "id" /\ Len(s.operands) < 2 /\ ~IsRefused(operand))
  BY <1>6, <1>8, <1>13, Zenon
<1>14. QED BY <1>9, <1>10, <1>11, <1>12, <1>13

LEMMA DataRead ==
  ASSUME NEW toks \in Seq(Lexed), NEW i
  PROVE  IsState(parseData(toks, i))
<1> DEFINE Step(s) == parseItem(toks, s)
           b == [next |-> i, data |-> <<>>, operands |-> <<>>]
           N == Len(toks)
           Goes(f, k) == /\ f = [n \in 0 .. k |-> f[n]]
                         /\ f[0] = b /\ \A n \in 1 .. k : f[n] = Step(f[n - 1])
           P == {k \in 0 .. N : \E f : Goes(f, k)}
           read[n \in 0 .. N] == IF n = 0 THEN b ELSE Step(read[n - 1])
<1>0. parseData(toks, i) = read[N]
  BY DEF parseData
<1>1. N \in Nat
  OBVIOUS
<1>a. IsState(b)
  <2>1. <<>> \in Seq(Nat) /\ AreOperands(<<>>)
    BY NoOperandsAre
  <2>2. QED BY <2>1 DEF IsState
<1>b. \A s : IsState(s) => IsState(Step(s))
  BY ItemRead
<1> HIDE DEF Step, b, N
<1>2. 0 \in P
  <2> DEFINE f == [n \in 0 .. 0 |-> b]
  <2>1. Goes(f, 0)
    OBVIOUS
  <2>2. 0 \in 0 .. N
    BY <1>1
  <2> HIDE DEF f, Goes
  <2>3. QED BY <2>1, <2>2
<1>3. ASSUME NEW k \in 0 .. N - 1, k \in P PROVE k + 1 \in P
  <2>1. PICK f : Goes(f, k)
    BY <1>3
  <2> DEFINE g == [n \in 0 .. k + 1 |-> IF n = k + 1 THEN Step(f[k]) ELSE f[n]]
  <2>2. k \in Nat /\ \A n \in 0 .. k + 1 : g[n] = IF n = k + 1 THEN Step(f[k]) ELSE f[n]
    BY <1>1
  <2>3. g = [n \in 0 .. k + 1 |-> g[n]]
    OBVIOUS
  <2> HIDE DEF g
  <2>4. g[0] = b
    BY <2>1, <2>2
  <2>5. ASSUME NEW n \in 1 .. k + 1 PROVE g[n] = Step(g[n - 1])
    <3>1. CASE n = k + 1
      <4>1. g[n] = Step(f[k]) /\ g[k] = f[k]
        BY <2>2, <3>1
      <4>2. n - 1 = k
        BY <2>2, <3>1
      <4>3. QED BY <4>1, <4>2
    <3>2. CASE n \in 1 .. k
      <4>1. g[n] = f[n] /\ g[n - 1] = f[n - 1]
        BY <2>2, <3>2
      <4>2. f[n] = Step(f[n - 1])
        BY <2>1, <3>2
      <4>3. QED BY <4>1, <4>2
    <3>3. QED BY <3>1, <3>2, <2>2
  <2>6. k + 1 \in 0 .. N
    BY <1>1
  <2>7. Goes(g, k + 1)
    BY <2>3, <2>4, <2>5, Zenon
  <2> HIDE DEF Goes
  <2>8. QED BY <2>6, <2>7
<1>4. PICK f : Goes(f, N)
  <2> HIDE DEF P
  <2>1. \A k \in 0 .. N : k \in P
    BY <1>1, <1>2, <1>3, Induct
  <2>2. N \in P
    BY <2>1, <1>1
  <2>3. QED BY <2>2 DEF P
<1> DEFINE R(h) == [n \in 0 .. N |-> IF n = 0 THEN b ELSE Step(h[n - 1])]
<1>5. f = R(f)
  <2>1. \A n \in 0 .. N : f[n] = IF n = 0 THEN b ELSE Step(f[n - 1])
    <3>1. f[0] = b /\ \A n \in 1 .. N : f[n] = Step(f[n - 1])
      BY <1>4, Zenon
    <3>2. \A n \in 0 .. N : n = 0 \/ n \in 1 .. N
      BY <1>1
    <3>3. \A n \in 1 .. N : n # 0
      OBVIOUS
    <3>4. QED BY <3>1, <3>2, <3>3, Zenon
  <2>2. f = [n \in 0 .. N |-> f[n]]
    BY <1>4, Zenon
  <2>3. QED BY <2>1, <2>2
<1>6. read = R(read)
  BY <1>5, Zenon
<1>7. \A n \in 0 .. N : read[n] = IF n = 0 THEN b ELSE Step(read[n - 1])
  <2> HIDE DEF read
  <2>1. QED BY <1>6
<1> HIDE DEF read
<1> DEFINE Q == {n \in 0 .. N : IsState(read[n])}
<1>8. 0 \in Q
  BY <1>7, <1>a, <1>1
<1>9. ASSUME NEW n \in 0 .. N - 1, n \in Q PROVE n + 1 \in Q
  <2>1. n + 1 \in 0 .. N /\ n + 1 # 0 /\ (n + 1) - 1 = n
    BY <1>1
  <2>2. read[n + 1] = Step(read[n])
    BY <1>7, <2>1
  <2>3. QED BY <2>1, <2>2, <1>9, <1>b
<1>10. \A n \in 0 .. N : n \in Q
  <2> HIDE DEF Q
  <2>1. QED BY <1>8, <1>9, <1>1, Induct
<1>11. QED BY <1>10, <1>0, <1>1

\* Every line the parser makes.
LEMMA LineRead ==
  ASSUME NEW toks \in Seq(Lexed) PROVE IsLine(asmParserParseLine(toks))
<1>1. \A i : AreOperands(parseOperands(toks, i))
  <2> TAKE i
  <2> DEFINE first == parseOperand(toks, i)
             second == parseOperand(toks, first.next + 1)
  <2>1. Good(first.operand) /\ Good(second.operand)
    BY OperandRead
  <2>2. parseOperands(toks, i) = IF IsRefused(first) THEN <<>>
          ELSE IF ~Is(toks, first.next, ",") \/ IsRefused(second) THEN <<first.operand>>
          ELSE <<first.operand, second.operand>>
    BY DEF parseOperands, WithSecond
  <2> HIDE DEF first, second
  <2>3. AreOperands(<<>>) /\ AreOperands(<<first.operand>>)
        /\ AreOperands(<<first.operand, second.operand>>)
    BY <2>1, NoOperandsAre, OperandsAre, Zenon
  <2>4. QED BY <2>2, <2>3, Zenon
<1>2. \A i : parseSizeSuffix(toks, i) \in {0, 1, 2, 4}
  <2>1. \A x \in DOMAIN Sizes : Sizes[x] \in {0, 1, 2, 4}
    BY DEF Sizes
  <2>2. QED BY <2>1, Zenon DEF parseSizeSuffix
<1>3. ASSUME NEW label, NEW mnemonic, NEW size \in {0, 1, 2, 4}, NEW ops, AreOperands(ops),
             NEW data \in Seq(Nat)
      PROVE  IsLine(Line(label, mnemonic, size, ops, data))
  BY <1>3 DEF IsLine, Line
<1>4. \A i : AreOperands(parseData(toks, i).operands) /\ parseData(toks, i).data \in Seq(Nat)
  BY DataRead DEF IsState
<1>5. <<>> \in Seq(Nat) /\ 0 \in {0, 1, 2, 4}
  OBVIOUS
<1> DEFINE labelled == Is(toks, 1, "id") /\ Is(toks, 2, ":")
           k == IF labelled THEN 3 ELSE 1
           named == Is(toks, k, "id")
           i == k + (IF named THEN IF Is(toks, k + 1, ".") THEN 3 ELSE 1 ELSE 0)
           mnemonic == IF named THEN toks[k].text ELSE NoName
           size == IF named THEN parseSizeSuffix(toks, k + 1) ELSE 0
           read == IF mnemonic = "DC" THEN parseData(toks, i)
                   ELSE [operands |-> parseOperands(toks, i), data |-> <<>>]
           label == IF labelled THEN toks[1].text ELSE NoName
<1>6. asmParserParseLine(toks) = Line(label, mnemonic, size, read.operands, read.data)
  BY DEF asmParserParseLine, LineWith, Taken
<1>7. size \in {0, 1, 2, 4}
  <2> HIDE DEF k, named
  <2>1. QED BY <1>2, <1>5, Zenon
<1> HIDE DEF label, mnemonic, size, i, labelled, k, named
<1>8. AreOperands(read.operands) /\ read.data \in Seq(Nat)
  <2>1. CASE mnemonic = "DC"
    BY <2>1, <1>4
  <2>2. CASE mnemonic # "DC"
    <3>1. read.operands = parseOperands(toks, i) /\ read.data = <<>>
      BY <2>2
    <3> HIDE DEF read
    <3>2. QED BY <3>1, <1>1, <1>5
  <2>3. QED BY <2>1, <2>2
<1> HIDE DEF read
<1>9. QED BY <1>3, <1>6, <1>7, <1>8

----------------------------------------------------------------------------
(* The length of what is encoded: the types of the operands decide it *)

SameLength(s, t) == \E n \in Nat : OfLength(s, n) /\ OfLength(t, n)

LEMMA SameNone == SameLength(<<>>, <<>>)
BY LengthNone DEF SameLength

LEMMA SameOne == \A x, y : SameLength(<<x>>, <<y>>)
BY LengthOne DEF SameLength

LEMMA SameTwo == \A x, y, z, w : SameLength(<<x, y>>, <<z, w>>)
BY LengthTwo DEF SameLength

LEMMA SameCat ==
  ASSUME NEW s, NEW t, NEW u, NEW v, SameLength(s, t), SameLength(u, v)
  PROVE  SameLength(s \o u, t \o v)
<1>1. PICK m \in Nat : OfLength(s, m) /\ OfLength(t, m)
  BY DEF SameLength
<1>2. PICK n \in Nat : OfLength(u, n) /\ OfLength(v, n)
  BY DEF SameLength
<1>3. OfLength(s \o u, m + n) /\ OfLength(t \o v, m + n)
  BY <1>1, <1>2, LengthCat
<1>4. m + n \in Nat
  OBVIOUS
<1>5. QED BY <1>3, <1>4, Zenon DEF SameLength

\* A pair of operands of a type.
LEMMA SameOperand ==
  ASSUME NEW a, NEW b, a.type = b.type
  PROVE  /\ SameLength(encodeEA(a).ext, encodeEA(b).ext)
         /\ \A size : SameLength(ImmediateOf(a, size), ImmediateOf(b, size))
         /\ \A x, y : SameLength(WithEa(x, a), WithEa(y, b))
         /\ \A x, y, size : SameLength(WithSource(x, a, size), WithSource(y, b, size))
<1>1. SameLength(encodeEA(a).ext, encodeEA(b).ext)
  <2> DEFINE type == a.type
  <2>1. \A op : op.type = type =>
          encodeEA(op).ext = IF type = "d(An)" \/ type = "d(PC)" THEN <<Word(op.disp)>>
                             ELSE IF type = "expr" THEN Words(op.imm) ELSE <<>>
    <3> HIDE DEF type
    <3>1. ASSUME NEW op, op.type = type
          PROVE  encodeEA(op).ext = IF type = "d(An)" \/ type = "d(PC)" THEN <<Word(op.disp)>>
                                    ELSE IF type = "expr" THEN Words(op.imm) ELSE <<>>
      <4>1. CASE type = "d(An)"
        BY <3>1, <4>1 DEF encodeEA, Ea
      <4>2. CASE type = "d(PC)"
        BY <3>1, <4>2 DEF encodeEA, Ea
      <4>3. CASE type = "expr"
        BY <3>1, <4>3 DEF encodeEA, Ea
      <4>4. CASE type \notin {"d(An)", "d(PC)", "expr"}
        BY <3>1, <4>4 DEF encodeEA, Ea
      <4>5. QED BY <4>1, <4>2, <4>3, <4>4
    <3>2. QED BY <3>1
  <2>2. b.type = type
    OBVIOUS
  <2> HIDE DEF type
  <2>3. CASE type = "d(An)" \/ type = "d(PC)"
    BY <2>1, <2>2, <2>3, SameOne DEF type
  <2>4. CASE type = "expr"
    <3>1. encodeEA(a).ext = Words(a.imm) /\ encodeEA(b).ext = Words(b.imm)
      BY <2>1, <2>2, <2>4 DEF type
    <3>2. SameLength(Words(a.imm), Words(b.imm))
      BY SameTwo DEF Words
    <3>3. QED BY <3>1, <3>2
  <2>5. CASE type \notin {"d(An)", "d(PC)", "expr"}
    BY <2>1, <2>2, <2>5, SameNone DEF type
  <2>6. QED BY <2>3, <2>4, <2>5
<1>2. ASSUME NEW size PROVE SameLength(ImmediateOf(a, size), ImmediateOf(b, size))
  BY SameNone, SameOne, SameTwo DEF ImmediateOf, emitImmediate, Words
<1>3. ASSUME NEW x, NEW y PROVE SameLength(WithEa(x, a), WithEa(y, b))
  BY <1>1, SameOne, SameCat DEF WithEa
<1>4. ASSUME NEW x, NEW y, NEW size PROVE SameLength(WithSource(x, a, size), WithSource(y, b, size))
  BY <1>2, <1>3, SameCat DEF WithSource
<1>5. QED BY <1>1, <1>2, <1>3, <1>4

\* Two lines of the same mnemonic, with the same types of operands.
Alike(l, m) ==
  /\ l.mnemonic = m.mnemonic /\ l.size = m.size
  /\ \E n \in Nat : /\ OfLength(l.operands, n) /\ OfLength(m.operands, n)
                    /\ \A k \in 1 .. n : l.operands[k].type = m.operands[k].type
Twin1(l, m) == S(l).type = S(m).type /\ l.size = m.size
Twin2(l, m) == Twin1(l, m) /\ D(l).type = D(m).type

LEMMA UnariesAlike ==
  ASSUME NEW l, NEW m, Twin1(l, m), NEW x, NEW y
  PROVE  /\ SameLength(encodeUnaryEA(l, x), encodeUnaryEA(m, y))
         /\ SameLength(encodeScc(l, x), encodeScc(m, y))
         /\ SameLength(WithEa(x, S(l)), WithEa(y, S(m)))
         /\ SameLength(encodeExt(l), encodeExt(m)) /\ SameLength(encodeSwap(l), encodeSwap(m))
         /\ SameLength(encodeUnlk(l), encodeUnlk(m)) /\ SameLength(encodeTrap(l), encodeTrap(m))
         /\ \A pc_1 : SameLength(encodeBranch(l, pc_1, x), encodeBranch(m, pc_1, x))
         /\ Len(l.operands) = Len(m.operands) => SameLength(encodeShift(l, x, y), encodeShift(m, x, y))
<1>1. S(l).type = S(m).type /\ l.size = m.size
  BY DEF Twin1
<1>2. /\ SameLength(encodeUnaryEA(l, x), encodeUnaryEA(m, y))
      /\ SameLength(encodeScc(l, x), encodeScc(m, y))
      /\ SameLength(WithEa(x, S(l)), WithEa(y, S(m)))
  <2>1. \A c, d : SameLength(WithEa(c, S(l)), WithEa(d, S(m)))
    BY <1>1, SameOperand
  <2>2. \A k, c : encodeUnaryEA(k, c) = WithEa(c + sizeField76(k.size), S(k))
    BY DEF encodeUnaryEA
  <2>3. \A k, c : encodeScc(k, c) = WithEa(20672 + 256 * c, S(k))
    BY DEF encodeScc
  <2>4. QED BY <2>1, <2>2, <2>3
<1>3. /\ SameLength(encodeExt(l), encodeExt(m)) /\ SameLength(encodeSwap(l), encodeSwap(m))
      /\ SameLength(encodeUnlk(l), encodeUnlk(m)) /\ SameLength(encodeTrap(l), encodeTrap(m))
  BY SameOne DEF encodeExt, encodeSwap, encodeUnlk, encodeTrap
<1>4. \A pc_1 : SameLength(encodeBranch(l, pc_1, x), encodeBranch(m, pc_1, x))
  BY <1>1, SameOne, SameTwo DEF encodeBranch
<1>5. Len(l.operands) = Len(m.operands) => SameLength(encodeShift(l, x, y), encodeShift(m, x, y))
  <2>1. \A c, d : SameLength(WithEa(c, S(l)), WithEa(d, S(m)))
    BY <1>1, SameOperand
  <2>2. CASE Len(l.operands) = 1
    BY <2>1, <2>2 DEF encodeShift
  <2>3. CASE Len(l.operands) # 1
    BY <2>3, SameOne DEF encodeShift
  <2>4. QED BY <2>2, <2>3
<1>6. QED BY <1>2, <1>3, <1>4, <1>5

LEMMA DyadicsAlike ==
  ASSUME NEW l, NEW m, Twin2(l, m), NEW x
  PROVE  /\ SameLength(encodeMove(l), encodeMove(m))
         /\ SameLength(encodeMoveSR(l), encodeMoveSR(m))
         /\ (IsSpecial(S(l)) \/ IsSpecial(D(l))) <=> (IsSpecial(S(m)) \/ IsSpecial(D(m)))
         /\ SameLength(encodeMoveq(l), encodeMoveq(m))
         /\ SameLength(encodeMovem(l), encodeMovem(m))
         /\ SameLength(encodeMovep(l), encodeMovep(m))
         /\ SameLength(encodeAluReg(l, x), encodeAluReg(m, x))
         /\ SameLength(encodeAluAddr(l, x), encodeAluAddr(m, x))
         /\ SameLength(encodeAluImm(l, x), encodeAluImm(m, x))
         /\ SameLength(encodeImmCCRSR(l, x), encodeImmCCRSR(m, x))
         /\ SameLength(encodeQuick(l, x), encodeQuick(m, x))
         /\ SameLength(encodeXOp(l, x), encodeXOp(m, x))
         /\ SameLength(encodeBcd(l, x), encodeBcd(m, x))
         /\ SameLength(encodeCmpm(l), encodeCmpm(m))
         /\ SameLength(encodeEor(l), encodeEor(m))
         /\ SameLength(encodeExg(l), encodeExg(m))
         /\ SameLength(encodeMulDiv(l, x), encodeMulDiv(m, x))
         /\ SameLength(encodeBitOp(l, x), encodeBitOp(m, x))
         /\ SameLength(encodeLink(l), encodeLink(m))
         /\ SameLength(encodeLea(l), encodeLea(m)) /\ SameLength(encodeChk(l), encodeChk(m))
         /\ \A pc_1 : SameLength(encodeDBcc(l, pc_1, x), encodeDBcc(m, pc_1, x))
<1> USE DEF Twin1, Twin2
<1>1. l.size = m.size /\ S(l).type = S(m).type /\ D(l).type = D(m).type
  OBVIOUS
<1>2. /\ SameLength(encodeMoveq(l), encodeMoveq(m))
      /\ SameLength(encodeXOp(l, x), encodeXOp(m, x))
      /\ SameLength(encodeBcd(l, x), encodeBcd(m, x))
      /\ SameLength(encodeCmpm(l), encodeCmpm(m))
      /\ SameLength(encodeExg(l), encodeExg(m))
  BY SameOne DEF encodeMoveq, encodeXOp, encodeBcd, encodeCmpm, encodeExg
<1>3. SameLength(encodeMovep(l), encodeMovep(m)) /\ SameLength(encodeLink(l), encodeLink(m))
  BY SameTwo DEF encodeMovep, encodeLink
<1>16. \A pc_1 : SameLength(encodeDBcc(l, pc_1, x), encodeDBcc(m, pc_1, x))
  BY SameTwo DEF encodeDBcc
<1>17. SameLength(encodeLea(l), encodeLea(m)) /\ SameLength(encodeChk(l), encodeChk(m))
  <2>1. \A c, d : SameLength(WithEa(c, S(l)), WithEa(d, S(m)))
    BY <1>1, SameOperand
  <2>2. \A c, d : SameLength(WithSource(c, S(l), 2), WithSource(d, S(m), 2))
    BY <1>1, SameOperand
  <2>3. /\ encodeChk(l) = WithSource(16768 + X(D(l)), S(l), 2)
        /\ encodeChk(m) = WithSource(16768 + X(D(m)), S(m), 2)
    BY DEF encodeChk
  <2>4. SameLength(encodeLea(l), encodeLea(m))
    BY <2>1 DEF encodeLea
  <2>5. SameLength(encodeChk(l), encodeChk(m))
    BY <2>2, <2>3
  <2>6. QED BY <2>4, <2>5
<1>4. SameLength(encodeEor(l), encodeEor(m)) /\ SameLength(encodeQuick(l, x), encodeQuick(m, x))
  BY <1>1, SameOperand DEF encodeEor, encodeQuick
<1>5. /\ SameLength(encodeAluAddr(l, x), encodeAluAddr(m, x))
      /\ SameLength(encodeMulDiv(l, x), encodeMulDiv(m, x))
  BY <1>1, SameOperand DEF encodeAluAddr, encodeMulDiv
<1>6. SameLength(encodeAluReg(l, x), encodeAluReg(m, x))
  BY <1>1, SameOperand DEF encodeAluReg
<1>7. SameLength(encodeMove(l), encodeMove(m))
  <2> DEFINE b(k) == MoveLine(k.size) + 512 * encodeEA(D(k)).r + 64 * encodeEA(D(k)).m
  <2>1. SameLength(WithSource(b(l), S(l), l.size), WithSource(b(m), S(m), m.size))
    <3> HIDE DEF b
    <3>1. QED BY <1>1, SameOperand
  <2>2. SameLength(encodeEA(D(l)).ext, encodeEA(D(m)).ext)
    BY <1>1, SameOperand
  <2>3. \A k : encodeMove(k) = WithSource(b(k), S(k), k.size) \o encodeEA(D(k)).ext
    BY DEF encodeMove
  <2> HIDE DEF b
  <2>4. QED BY <2>1, <2>2, <2>3, SameCat
<1>8. \A size, y, z : SameLength(emitImmediate(y, size), emitImmediate(z, size))
  BY SameOne, SameTwo DEF emitImmediate, Words
<1>9. SameLength(encodeAluImm(l, x), encodeAluImm(m, x))
  BY <1>1, <1>8, SameOperand, SameCat, SameOne DEF encodeAluImm
<1>10. SameLength(encodeImmCCRSR(l, x), encodeImmCCRSR(m, x))
  BY <1>1, <1>9, SameTwo DEF encodeImmCCRSR
<1>11. SameLength(encodeBitOp(l, x), encodeBitOp(m, x))
  BY <1>1, SameOperand, SameCat, SameOne, SameTwo DEF encodeBitOp
<1>12. SameLength(encodeMovem(l), encodeMovem(m))
  BY <1>1, SameOperand, SameCat, SameTwo DEF encodeMovem, isRegOrRegList
<1>13. (IsSpecial(S(l)) \/ IsSpecial(D(l))) <=> (IsSpecial(S(m)) \/ IsSpecial(D(m)))
  BY <1>1 DEF IsSpecial
<1>14. SameLength(encodeMoveSR(l), encodeMoveSR(m))
  <2> DEFINE s == S(l).type
             d == D(l).type
  <2>1. s = S(m).type /\ d = D(m).type
    BY <1>1
  <2> HIDE DEF s, d
  <2>2. CASE d = "SR"
    <3>1. /\ encodeMoveSR(l) = WithSource(18112, S(l), 2)
          /\ encodeMoveSR(m) = WithSource(18112, S(m), 2)
      BY <2>1, <2>2 DEF encodeMoveSR, s, d
    <3>2. \A x_1 : SameLength(WithSource(x_1, S(l), 2), WithSource(x_1, S(m), 2))
      BY <1>1, SameOperand
    <3>3. QED BY <3>1, <3>2
  <2>3. CASE s = "SR" /\ d # "SR"
    BY <1>1, <2>1, <2>3, SameOperand DEF encodeMoveSR, s, d
  <2>4. CASE d = "CCR" /\ s # "SR"
    <3>1. /\ encodeMoveSR(l) = WithSource(17600, S(l), 2)
          /\ encodeMoveSR(m) = WithSource(17600, S(m), 2)
      BY <2>1, <2>4 DEF encodeMoveSR, s, d
    <3>2. \A x_1 : SameLength(WithSource(x_1, S(l), 2), WithSource(x_1, S(m), 2))
      BY <1>1, SameOperand
    <3>3. QED BY <3>1, <3>2
  <2>5. CASE d = "USP" /\ s # "SR"
    BY <2>1, <2>5, SameOne DEF encodeMoveSR, s, d
  <2>6. CASE s = "USP" /\ d \notin {"SR", "CCR", "USP"}
    BY <2>1, <2>6, SameOne DEF encodeMoveSR, s, d
  <2>7. CASE s \notin {"SR", "USP"} /\ d \notin {"SR", "CCR", "USP"}
    BY <2>1, <2>7, SameNone DEF encodeMoveSR, s, d
  <2>8. QED BY <2>2, <2>3, <2>4, <2>5, <2>6, <2>7
<1>15. QED
  BY <1>2, <1>3, <1>4, <1>5, <1>6, <1>7, <1>9, <1>10, <1>11, <1>12, <1>13, <1>14,
     <1>16, <1>17

\* The encoder gives lines that are alike the same number of words, wherever they are.
LEMMA EncodedAlike ==
  ASSUME NEW l, NEW m, Alike(l, m), NEW x
  PROVE  SameLength(encoderEncode(l, x), encoderEncode(m, x))
<1> DEFINE mn == l.mnemonic
<1>1. mn = m.mnemonic /\ l.size = m.size
  BY DEF Alike
<1>2. PICK n \in Nat : /\ OfLength(l.operands, n) /\ OfLength(m.operands, n)
                       /\ \A k \in 1 .. n : l.operands[k].type = m.operands[k].type
  BY DEF Alike
<1>3. Len(l.operands) = n /\ Len(m.operands) = n
  BY <1>2, LengthIs
<1> HIDE DEF mn
<1>4. n >= Needed(mn) /\ mn \in Unaries => Twin1(l, m)
  <2>1. mn \in Unaries => Needed(mn) \in {1, 2}
    BY DEF Needed
  <2>2. QED BY <1>1, <1>2, <2>1 DEF Twin1, S
<1>5. n >= Needed(mn) /\ mn \in Dyadics => Twin2(l, m)
  <2>1. mn \in Dyadics => Needed(mn) = 2
    BY DEF Needed
  <2>2. QED BY <1>1, <1>2, <2>1 DEF Twin1, Twin2, S, D
<1>6. CASE mn = NoName \/ n < Needed(mn)
  BY <1>1, <1>3, <1>6, SameNone DEF encoderEncode, mn
<1>7. CASE ~(mn = NoName \/ n < Needed(mn))
  <2>1. n >= Needed(mn)
    <3>1. Needed(mn) \in {0, 1, 2}
      BY DEF Needed
    <3>2. QED BY <3>1, <1>7
  <2>2. mn \in {"MOVE", "MOVEA", "MOVEQ", "MOVEM", "MOVEP", "LEA", "CMPM", "EOR", "EXG", "LINK",
                "CHK"} \cup DOMAIN AluReg \cup DOMAIN AluAddr \cup DOMAIN AluImm \cup DOMAIN StatusImm
                \cup DOMAIN Quick \cup DOMAIN Extended \cup DOMAIN Bcd \cup DOMAIN MulDiv
                \cup DOMAIN BitOp \cup DOMAIN Loops => Twin2(l, m)
    BY <1>5, <2>1 DEF Dyadics
  <2>3. mn \in {"EXT", "SWAP", "UNLK", "TRAP"} \cup DOMAIN Unary \cup DOMAIN OneEa \cup DOMAIN Branches
                \cup DOMAIN Sets \cup DOMAIN Shift => Twin1(l, m)
    BY <1>4, <2>1 DEF Unaries
  <2> DEFINE Moves(k) == IF IsSpecial(S(k)) \/ IsSpecial(D(k)) THEN encodeMoveSR(k) ELSE encodeMove(k)
  <2>4. Twin2(l, m) => SameLength(Moves(l), Moves(m))
    BY DyadicsAlike
  <2> HIDE DEF Moves
  <2>5. SameLength(encodeStop(l), encodeStop(m)) /\ \A y, z : SameLength(<<y>>, <<z>>)
    BY SameOne, SameTwo DEF encodeStop
  <2>6. Len(l.operands) = Len(m.operands)
    BY <1>3
  <2>7. QED BY <1>1, <1>3, <1>7, <2>2, <2>3, <2>4, <2>5, <2>6, UnariesAlike, DyadicsAlike
            DEF encoderEncode, mn, Moves
<1>8. QED BY <1>6, <1>7

----------------------------------------------------------------------------
(* The bytes of a line *)

LEMMA FilledIs == ASSUME NEW n \in Nat, NEW byte PROVE OfLength(Filled(n, byte), n)
<1>1. DOMAIN Filled(n, byte) = 1 .. n /\ Filled(n, byte) = [i \in 1 .. n |-> Filled(n, byte)[i]]
  BY DEF Filled
<1>2. QED BY <1>1, LengthOf

LEMMA BlocksAre ==
  ASSUME NEW values, Len(values) \in Nat, NEW size \in Nat
  PROVE  OfLength(Blocks(values, size), size * Len(values))
<1> DEFINE n == size * Len(values)
           b == Blocks(values, size)
<1>1. n \in Nat
  <2> DEFINE k == Len(values)
  <2> HIDE DEF k
  <2>1. k \in Nat
    BY DEF k
  <2>2. size * k \in Nat
    BY <2>1
  <2>3. QED BY <2>2 DEF k
<1>2. DOMAIN b = 1 .. n /\ b = [i \in 1 .. n |-> b[i]]
  BY DEF Blocks
<1> HIDE DEF n, b
<1>3. OfLength(b, n)
  BY <1>1, <1>2, LengthOf
<1>4. QED BY <1>3 DEF n, b

\* Two lines of a mnemonic, a size and data, with operands of the same types; one that
\* gives a directive its size has the same value in both.
Matching(l, m) ==
  /\ Alike(l, m) /\ l.data = m.data /\ l.data \in Seq(Nat) /\ l.size \in {0, 1, 2, 4}
  /\ \A k \in DOMAIN l.operands : l.operands[k].imm \in Nat
  /\ l.mnemonic \in {"DS", "ALIGN"} /\ l.operands # <<>> => l.operands[1].imm = m.operands[1].imm

LEMMA EmptyIs == ASSUME NEW s, NEW n, OfLength(s, n) PROVE s = <<>> <=> n = 0
<1>1. PICK T : s \in Seq(T) /\ Len(s) = n
  BY Zenon DEF OfLength
<1>2. QED BY <1>1

LEMMA DirectiveAlike ==
  ASSUME NEW l, NEW m, Matching(l, m), NEW here \in Nat, NEW p, NEW q
  PROVE  SameLength(directiveProcess(l, here, p), directiveProcess(m, here, q))
<1> DEFINE mn == l.mnemonic
<1>1. /\ mn = m.mnemonic /\ l.size = m.size /\ l.data = m.data
      /\ ItemSize(l) \in {1, 2, 4} /\ ItemSize(m) = ItemSize(l)
  BY DEF Matching, Alike, ItemSize
<1>2. PICK n \in Nat : OfLength(l.operands, n) /\ OfLength(m.operands, n)
  BY DEF Matching, Alike
<1>3. (l.operands = <<>> <=> m.operands = <<>>) /\ (l.operands # <<>> => 1 \in DOMAIN l.operands)
  BY <1>2, EmptyIs, LengthIs
<1>4. ASSUME mn \in {"DS", "ALIGN"}, NEW d \in Nat PROVE Count(l, d) \in Nat /\ Count(m, d) = Count(l, d)
  BY <1>1, <1>3, <1>4 DEF Count, Matching
<1>5. \A k, byte : k \in Nat => SameLength(Filled(k, byte), Filled(k, byte))
  BY FilledIs DEF SameLength
<1>6. CASE mn = "DC"
  <2> DEFINE size == ItemSize(l)
  <2>1. size \in Nat
    BY <1>1
  <2>2. Len(l.data) \in Nat
    BY DEF Matching
  <2>3. \A x : Len(<<x>>) = 1
    OBVIOUS
  <2> HIDE DEF size
  <2>4. SameLength(Blocks(l.data, size), Blocks(l.data, size))
    <3>1. size * Len(l.data) \in Nat
      <4> DEFINE k == Len(l.data)
      <4> HIDE DEF k
      <4>1. k \in Nat
        BY <2>2 DEF k
      <4>2. size * k \in Nat
        BY <4>1, <2>1
      <4>3. QED BY <4>2 DEF k
    <3>2. QED BY <3>1, <2>1, <2>2, BlocksAre, Zenon DEF SameLength
  <2>5. ASSUME NEW x, NEW y PROVE SameLength(Blocks(<<x>>, size), Blocks(<<y>>, size))
    <3>1. 1 \in Nat /\ size * 1 \in Nat
      BY <2>1
    <3>2. OfLength(Blocks(<<x>>, size), size * 1) /\ OfLength(Blocks(<<y>>, size), size * 1)
      BY <3>1, <2>1, <2>3, BlocksAre
    <3>3. QED BY <3>1, <3>2, Zenon DEF SameLength
  <2>6. SameLength(dirDC(l), dirDC(m))
    <3>1. /\ l.data # <<>> \/ l.operands = <<>> <=> m.data # <<>> \/ m.operands = <<>>
          /\ ItemSize(l) = size /\ ItemSize(m) = size
      BY <1>1, <1>3 DEF size
    <3>2. QED BY <1>1, <2>4, <2>5, <3>1, Zenon DEF dirDC
  <2>7. directiveProcess(l, here, p) = dirDC(l) /\ directiveProcess(m, here, q) = dirDC(m)
    BY <1>1, <1>6 DEF directiveProcess
  <2>8. QED BY <2>6, <2>7
<1>7. CASE mn = "DS"
  <2>1. Count(l, 0) \in Nat /\ Count(m, 0) = Count(l, 0)
    BY <1>4, <1>7
  <2>2. Count(l, 0) * ItemSize(l) \in Nat
    BY <2>1, <1>1
  <2>3. directiveProcess(l, here, p) = dirDS(l) /\ directiveProcess(m, here, q) = dirDS(m)
    BY <1>1, <1>7 DEF directiveProcess
  <2>4. dirDS(m) = dirDS(l)
    BY <1>1, <2>1 DEF dirDS
  <2>5. QED BY <2>2, <2>3, <2>4, <1>5 DEF dirDS
<1>8. CASE mn = "EVEN"
  <2>1. directiveProcess(l, here, p) = dirEven(here) /\ directiveProcess(m, here, q) = dirEven(here)
    BY <1>1, <1>8 DEF directiveProcess
  <2>2. QED BY <2>1, <1>5 DEF dirEven
<1>9. CASE mn = "ALIGN"
  <2>1. Count(l, 2) \in Nat /\ Count(m, 2) = Count(l, 2)
    BY <1>4, <1>9
  <2>2. directiveProcess(l, here, p) = dirAlign(l, here) /\ directiveProcess(m, here, q) = dirAlign(m, here)
    BY <1>1, <1>9 DEF directiveProcess
  <2>3. dirAlign(m, here) = dirAlign(l, here)
    BY <2>1 DEF dirAlign
  <2> DEFINE al == IF Count(l, 2) = 0 THEN 1 ELSE Count(l, 2)
             pad == (al - (here % al)) % al
  <2>4. pad \in Nat
    <3>1. al \in Nat \ {0}
      BY <2>1
    <3> HIDE DEF al
    <3>2. QED BY <3>1
  <2>5. dirAlign(l, here) = Filled(pad, 0)
    BY DEF dirAlign
  <2> HIDE DEF pad
  <2>6. QED BY <2>2, <2>3, <2>4, <2>5, <1>5
<1>10. CASE mn \notin {"DC", "DS", "EVEN", "ALIGN"}
  <2>1. directiveProcess(l, here, p) = <<>> /\ directiveProcess(m, here, q) = <<>>
    BY <1>1, <1>10 DEF directiveProcess
  <2>2. QED BY <2>1, SameNone
<1>11. QED BY <1>6, <1>7, <1>8, <1>9, <1>10

\* Both passes give lines that are alike the same number of bytes.
LEMMA BytesAlike ==
  ASSUME NEW l, NEW m, Matching(l, m), NEW here \in Nat, NEW p, NEW q
  PROVE  SameLength(Encoded(l, here, p), Encoded(m, here, q))
<1>1. l.mnemonic = m.mnemonic
  BY DEF Matching, Alike
<1>2. CASE IsDirective(l)
  BY <1>1, <1>2, DirectiveAlike DEF Encoded, IsDirective
<1>3. CASE ~IsDirective(l)
  <2>1. PICK n \in Nat : OfLength(encoderEncode(l, here), n) /\ OfLength(encoderEncode(m, here), n)
    BY EncodedAlike DEF SameLength, Matching
  <2>2. Len(encoderEncode(l, here)) = n /\ Len(encoderEncode(m, here)) = n
    BY <2>1, LengthIs
  <2>3. 2 \in Nat /\ 2 * n \in Nat
    OBVIOUS
  <2>4. OfLength(BytesOf(encoderEncode(l, here)), 2 * n) /\ OfLength(BytesOf(encoderEncode(m, here)), 2 * n)
    <3> DEFINE u == encoderEncode(l, here)
               v == encoderEncode(m, here)
    <3>1. Len(u) = n /\ Len(v) = n
      BY <2>2
    <3> HIDE DEF u, v
    <3>2. OfLength(Blocks(u, 2), 2 * n) /\ OfLength(Blocks(v, 2), 2 * n)
      BY <3>1, BlocksAre
    <3>3. QED BY <3>2 DEF BytesOf, u, v
  <2>5. QED BY <1>1, <1>3, <2>3, <2>4 DEF Encoded, IsDirective, SameLength
<1>4. QED BY <1>2, <1>3

----------------------------------------------------------------------------
(* Symbols and the operands they resolve *)

IsTable(t) ==
  /\ t = [n \in DOMAIN t |-> t[n]] /\ NoName \notin DOMAIN t
  /\ \A n \in DOMAIN t : /\ t[n] = [value |-> t[n].value, kind |-> t[n].kind]
                         /\ t[n].value \in Nat

\* u is t but for the name, which it has.
Differs(u, t, name) ==
  DOMAIN u = DOMAIN t \cup {name} /\ \A n : n # name /\ n \in DOMAIN t => u[n] = t[n]

LEMMA DefineIs ==
  ASSUME NEW t, IsTable(t), NEW name, name # NoName, NEW value \in Nat, NEW kind
  PROVE  LET u == symbolTableDefineKind(t, name, value, kind)
             new == [value |-> value, kind |-> kind]
         IN  /\ IsTable(u) /\ Differs(u, t, name)
             /\ name \notin DOMAIN t => u[name] = new
             /\ name \in DOMAIN t /\ (t[name].kind = "equ" \/ t[name] = new) => u = t
<1> DEFINE u == symbolTableDefineKind(t, name, value, kind)
           new == [value |-> value, kind |-> kind]
           w == [n \in DOMAIN t \cup {name} |-> IF n = name THEN new ELSE t[n]]
<1>1. new = [value |-> new.value, kind |-> new.kind] /\ new.value \in Nat
  OBVIOUS
<1>2. u = IF name \in DOMAIN t /\ t[name].kind = "equ" THEN t ELSE w
  BY DEF symbolTableDefineKind
<1> HIDE DEF u, new
<1>3. /\ DOMAIN w = DOMAIN t \cup {name} /\ w = [n \in DOMAIN w |-> w[n]]
      /\ \A n \in DOMAIN w : w[n] = IF n = name THEN new ELSE t[n]
  OBVIOUS
<1>4. name \in DOMAIN t /\ t[name] = new => w = t
  <2>1. SUFFICES ASSUME name \in DOMAIN t, t[name] = new PROVE w = t
    OBVIOUS
  <2>2. DOMAIN w = DOMAIN t /\ \A n \in DOMAIN t : w[n] = t[n]
    BY <1>3, <2>1
  <2>3. t = [n \in DOMAIN t |-> t[n]]
    BY DEF IsTable
  <2> HIDE DEF w
  <2>4. QED BY <2>2, <2>3, <1>3
<1> HIDE DEF w
<1>5. IsTable(w)
  BY <1>1, <1>3 DEF IsTable
<1>6. Differs(w, t, name) /\ (name \in DOMAIN t => Differs(t, t, name))
  BY <1>3 DEF Differs
<1>7. QED BY <1>2, <1>3, <1>4, <1>5, <1>6 DEF u, new

LEMMA ResolvedIs ==
  ASSUME NEW op, IsOperand(op), NEW t, IsTable(t), NEW here \in Nat
  PROVE  LET r == Resolved(op, t, here)
         IN  /\ r.type = op.type /\ r.sym = op.sym
             /\ r.imm = symbolTableResolve(t, op.sym, op.imm) /\ r.imm \in Nat
             /\ r.type = "d(PC)" /\ op.sym \in DOMAIN t => here + 2 + r.disp = r.imm
<1>1. CASE op.sym \notin DOMAIN t
  BY <1>1 DEF Resolved, symbolTableResolve, IsOperand
<1>2. CASE op.sym \in DOMAIN t
  <2> DEFINE value == t[op.sym].value
             Put(disp) == [type |-> op.type, reg |-> op.reg, imm |-> value, disp |-> disp,
                           sym |-> op.sym, list |-> op.list]
             r == Resolved(op, t, here)
  <2>1. value \in Nat
    BY <1>2 DEF IsTable
  <2>2. \A disp : /\ Put(disp).type = op.type /\ Put(disp).sym = op.sym
                  /\ Put(disp).imm = value /\ Put(disp).disp = disp
    OBVIOUS
  <2>3. symbolTableResolve(t, op.sym, op.imm) = value
    BY <1>2 DEF symbolTableResolve
  <2> HIDE DEF value
  <2>4. r = CASE op.type = "d(PC)" -> [op EXCEPT !.imm = value, !.disp = value - (here + 2)]
              [] op.type = "d(An)" -> [op EXCEPT !.imm = value, !.disp = value]
              [] OTHER -> [op EXCEPT !.imm = value]
    BY <1>2, Zenon DEF Resolved, value
  <2>5. CASE op.type = "d(PC)"
    <3>1. r = [op EXCEPT !.imm = value, !.disp = value - (here + 2)]
      BY <2>4, <2>5, Zenon
    <3> HIDE DEF r
    <3>2. r.type = op.type /\ r.sym = op.sym /\ r.imm = value /\ r.disp = value - (here + 2)
      BY <3>1 DEF IsOperand
    <3>3. QED BY <3>2, <2>1, <2>3, <2>5 DEF r
  <2>6. CASE op.type = "d(An)"
    <3>1. r = [op EXCEPT !.imm = value, !.disp = value]
      BY <2>4, <2>6, Zenon
    <3> HIDE DEF r
    <3>2. r.type = op.type /\ r.sym = op.sym /\ r.imm = value
      BY <3>1 DEF IsOperand
    <3>3. QED BY <3>2, <2>1, <2>3, <2>6 DEF r
  <2>7. CASE op.type \notin {"d(PC)", "d(An)"}
    <3>1. r = [op EXCEPT !.imm = value]
      BY <2>4, <2>7, Zenon
    <3> HIDE DEF r
    <3>2. r.type = op.type /\ r.sym = op.sym /\ r.imm = value
      BY <3>1 DEF IsOperand
    <3>3. QED BY <3>2, <2>1, <2>3, <2>7 DEF r
  <2>8. QED BY <2>5, <2>6, <2>7
<1>3. QED BY <1>1, <1>2

LEMMA OperandsLong ==
  ASSUME NEW l, IsLine(l)
  PROVE  \E n \in 0 .. 2 : /\ n \in Nat /\ OfLength(l.operands, n)
                           /\ DOMAIN l.operands = 1 .. n /\ Len(l.operands) = n
                           /\ \A k \in 1 .. n : IsOperand(l.operands[k]) /\ Unresolved(l.operands[k])
<1>1. PICK n \in 0 .. 2 : /\ OfLength(l.operands, n)
                          /\ \A k \in 1 .. n : IsOperand(l.operands[k]) /\ Unresolved(l.operands[k])
  BY DEF IsLine, AreOperands
<1>2. n \in Nat /\ DOMAIN l.operands = 1 .. n /\ Len(l.operands) = n
  BY <1>1, LengthIs
<1>3. QED BY <1>1, <1>2, Zenon

LEMMA ResolvedLineIs ==
  ASSUME NEW l, IsLine(l), NEW t, NEW here
  PROVE  LET r == ResolvedLine(l, t, here)
         IN  /\ r.label = l.label /\ r.mnemonic = l.mnemonic /\ r.size = l.size /\ r.data = l.data
             /\ DOMAIN r.operands = DOMAIN l.operands
             /\ \A k \in DOMAIN l.operands : r.operands[k] = Resolved(l.operands[k], t, here)
             /\ \A n \in Nat : OfLength(l.operands, n) => OfLength(r.operands, n)
<1> DEFINE ops == [i \in DOMAIN l.operands |-> Resolved(l.operands[i], t, here)]
           r == ResolvedLine(l, t, here)
<1>1. r = [l EXCEPT !.operands = ops]
  BY DEF ResolvedLine
<1>2. l = [label |-> l.label, mnemonic |-> l.mnemonic, size |-> l.size, operands |-> l.operands,
           data |-> l.data]
  BY DEF IsLine, Line
<1>3. /\ DOMAIN ops = DOMAIN l.operands
      /\ \A k \in DOMAIN l.operands : ops[k] = Resolved(l.operands[k], t, here)
      /\ ops = [i \in DOMAIN l.operands |-> ops[i]]
  OBVIOUS
<1> HIDE DEF ops, r
<1>4. /\ r.label = l.label /\ r.mnemonic = l.mnemonic /\ r.size = l.size /\ r.data = l.data
      /\ r.operands = ops
  BY <1>1, <1>2
<1>5. ASSUME NEW n \in Nat, OfLength(l.operands, n) PROVE OfLength(ops, n)
  <2>1. DOMAIN l.operands = 1 .. n
    BY <1>5, LengthIs
  <2>2. DOMAIN ops = 1 .. n /\ ops = [i \in 1 .. n |-> ops[i]]
    BY <2>1, <1>3
  <2>3. QED BY <2>2, LengthOf
<1>6. QED BY <1>3, <1>4, <1>5 DEF r

\* Whatever values the symbols have, a line has the same length, unless it is a directive whose
\* length a symbol gives.
LEMMA ResolvedAlike ==
  ASSUME NEW l, IsLine(l), NEW t, IsTable(t), NEW u, IsTable(u), NEW here \in Nat,
         l.mnemonic \in {"DS", "ALIGN"} =>
           symbolTableResolve(t, SymbolOf(l), 0) = symbolTableResolve(u, SymbolOf(l), 0)
           /\ (SymbolOf(l) \in DOMAIN t <=> SymbolOf(l) \in DOMAIN u)
  PROVE  Matching(ResolvedLine(l, t, here), ResolvedLine(l, u, here))
<1> DEFINE r == ResolvedLine(l, t, here)
           s == ResolvedLine(l, u, here)
<1>1. PICK n \in 0 .. 2 : /\ n \in Nat /\ OfLength(l.operands, n)
                          /\ DOMAIN l.operands = 1 .. n /\ Len(l.operands) = n
                          /\ \A k \in 1 .. n : IsOperand(l.operands[k]) /\ Unresolved(l.operands[k])
  BY OperandsLong
<1>2. /\ r.mnemonic = l.mnemonic /\ r.size = l.size /\ r.data = l.data
      /\ DOMAIN r.operands = 1 .. n /\ OfLength(r.operands, n)
      /\ \A k \in 1 .. n : r.operands[k] = Resolved(l.operands[k], t, here)
  BY <1>1, ResolvedLineIs
<1>3. /\ s.mnemonic = l.mnemonic /\ s.size = l.size /\ s.data = l.data
      /\ DOMAIN s.operands = 1 .. n /\ OfLength(s.operands, n)
      /\ \A k \in 1 .. n : s.operands[k] = Resolved(l.operands[k], u, here)
  BY <1>1, ResolvedLineIs
<1> HIDE DEF r, s
<1>4. ASSUME NEW k \in 1 .. n
      PROVE  /\ r.operands[k].type = l.operands[k].type
             /\ s.operands[k].type = l.operands[k].type
             /\ r.operands[k].imm = symbolTableResolve(t, l.operands[k].sym, l.operands[k].imm)
             /\ s.operands[k].imm = symbolTableResolve(u, l.operands[k].sym, l.operands[k].imm)
             /\ r.operands[k].imm \in Nat
  BY <1>1, <1>2, <1>3, ResolvedIs
<1>5. l.data \in Seq(Nat) /\ l.size \in {0, 1, 2, 4}
  BY DEF IsLine
<1>6. Alike(r, s)
  <2>1. \A k \in 1 .. n : r.operands[k].type = s.operands[k].type
    BY <1>4
  <2>2. QED BY <1>1, <1>2, <1>3, <2>1, Zenon DEF Alike
<1>7. ASSUME l.mnemonic \in {"DS", "ALIGN"}, r.operands # <<>>
      PROVE  r.operands[1].imm = s.operands[1].imm
  <2>1. n # 0 /\ l.operands # <<>>
    BY <1>1, <1>2, <1>7, EmptyIs
  <2>2. SymbolOf(l) = l.operands[1].sym /\ 1 \in 1 .. n
    BY <2>1, <1>1 DEF SymbolOf, FirstOperand
  <2>3. symbolTableResolve(t, l.operands[1].sym, l.operands[1].imm)
          = symbolTableResolve(u, l.operands[1].sym, l.operands[1].imm)
    BY <1>7, <2>2 DEF symbolTableResolve
  <2>4. QED BY <2>2, <2>3, <1>4
<1>8. QED BY <1>2, <1>3, <1>4, <1>5, <1>6, <1>7 DEF Matching, r, s

----------------------------------------------------------------------------
(* A line of a pass: what it makes of the pc and the symbols *)

LEMMA KindIs ==
  ASSUME NEW line
  PROVE  Kind(line) = IF line.mnemonic = "ORG" THEN "org"
                      ELSE IF line.mnemonic = "EQU" /\ line.label # NoName THEN "equ" ELSE "line"
<1>1. CASE line.mnemonic = "ORG"
  BY <1>1 DEF Kind
<1>2. CASE line.mnemonic = "EQU" /\ line.label # NoName
  BY <1>2, Zenon DEF Kind
<1>3. CASE line.mnemonic # "ORG" /\ ~(line.mnemonic = "EQU" /\ line.label # NoName)
  BY <1>3, Zenon DEF Kind
<1>4. QED BY <1>1, <1>2, <1>3

LEMMA KindsAre == ASSUME NEW line PROVE Kind(line) \in {"org", "equ", "line"}
BY KindIs

Names(line) == line.label # NoName /\ Kind(line) # "org"

TableAfter(line, here, t) ==
  IF ~Names(line) THEN t
  ELSE IF Kind(line) = "equ"
  THEN symbolTableDefineKind(t, line.label, symbolTableResolve(t, FirstOperand(line).sym,
                                                               FirstOperand(line).imm), "equ")
  ELSE symbolTableDefineKind(t, line.label, here, "label")

PcAfter(line, here, t, p) ==
  IF Kind(line) = "org" THEN Count(line, here) ELSE IF Kind(line) = "equ" THEN here
  ELSE here + Len(Encoded(ResolvedLine(line, TableAfter(line, here, t), here), here, p))

LEMMA FirstIs ==
  ASSUME NEW l, IsLine(l)
  PROVE  /\ IsOperand(FirstOperand(l)) /\ Unresolved(FirstOperand(l))
         /\ l.operands # <<>> => FirstOperand(l) = l.operands[1] /\ 1 \in DOMAIN l.operands
         /\ \A d \in Nat : Count(l, d) \in Nat
<1>1. PICK n \in 0 .. 2 : /\ n \in Nat /\ OfLength(l.operands, n)
                          /\ DOMAIN l.operands = 1 .. n /\ Len(l.operands) = n
                          /\ \A k \in 1 .. n : IsOperand(l.operands[k]) /\ Unresolved(l.operands[k])
  BY OperandsLong
<1>2. l.operands # <<>> => 1 \in 1 .. n
  BY <1>1, EmptyIs
<1>3. IsOperand(NoOperand) /\ Unresolved(NoOperand)
  BY OperandsMade, 0 \in Nat DEF Good
<1>4. \A k \in 1 .. n : l.operands[k].imm \in Nat
  BY <1>1 DEF IsOperand
<1>5. QED BY <1>1, <1>2, <1>3, <1>4 DEF FirstOperand, Count

\* A table of symbols stays one; only the line's own name can be new, or another value.
LEMMA TableAfterIs ==
  ASSUME NEW l, IsLine(l), NEW t, IsTable(t), NEW here \in Nat
  PROVE  LET u == TableAfter(l, here, t)
         IN  /\ IsTable(u)
             /\ Names(l) => Differs(u, t, l.label)
             /\ ~Names(l) => u = t
<1>1. FirstOperand(l).imm \in Nat
  BY FirstIs DEF IsOperand
<1>2. symbolTableResolve(t, FirstOperand(l).sym, FirstOperand(l).imm) \in Nat
  BY <1>1 DEF symbolTableResolve, IsTable
<1>3. Names(l) => l.label # NoName
  BY DEF Names
<1>4. CASE ~Names(l)
  BY <1>4 DEF TableAfter
<1>5. CASE Names(l) /\ Kind(l) = "equ"
  <2> DEFINE v == symbolTableResolve(t, FirstOperand(l).sym, FirstOperand(l).imm)
  <2>1. TableAfter(l, here, t) = symbolTableDefineKind(t, l.label, v, "equ")
    BY <1>5 DEF TableAfter
  <2> HIDE DEF v
  <2>2. v \in Nat
    BY <1>2 DEF v
  <2> DEFINE w == symbolTableDefineKind(t, l.label, v, "equ")
  <2>3. IsTable(w) /\ Differs(w, t, l.label)
    BY <2>2, <1>3, <1>5, DefineIs
  <2> HIDE DEF w
  <2>4. TableAfter(l, here, t) = w
    BY <2>1 DEF w
  <2>5. QED BY <2>3, <2>4, <1>5
<1>6. CASE Names(l) /\ Kind(l) # "equ"
  <2>1. TableAfter(l, here, t) = symbolTableDefineKind(t, l.label, here, "label")
    BY <1>6 DEF TableAfter
  <2> DEFINE w == symbolTableDefineKind(t, l.label, here, "label")
  <2>2. IsTable(w) /\ Differs(w, t, l.label)
    BY <1>3, <1>6, DefineIs
  <2> HIDE DEF w
  <2>3. TableAfter(l, here, t) = w
    BY <2>1 DEF w
  <2>4. QED BY <2>2, <2>3, <1>6
<1>7. QED BY <1>4, <1>5, <1>6

LEMMA EncodedIs ==
  ASSUME NEW l, IsLine(l), NEW t, IsTable(t), NEW here \in Nat, NEW p
  PROVE  LET bytes == Encoded(ResolvedLine(l, t, here), here, p)
         IN  Len(bytes) \in Nat /\ OfLength(bytes, Len(bytes))
<1>1. Matching(ResolvedLine(l, t, here), ResolvedLine(l, t, here))
  BY ResolvedAlike
<1>2. PICK n \in Nat : OfLength(Encoded(ResolvedLine(l, t, here), here, p), n)
  BY <1>1, BytesAlike DEF SameLength
<1>3. QED BY <1>2, LengthIs

\* What the first pass counts for a line the second encodes: whatever values the symbols have
\* got in between, an operand keeps its form, and only a directive's length can change
\* (encoderCalcSize and encoderEncode, encoder.c).
THEOREM LengthKept ==
  ASSUME NEW toks \in Seq(Lexed), NEW t, IsTable(t), NEW u, IsTable(u), NEW here \in Nat,
         asmParserParseLine(toks).mnemonic \notin {"DS", "ALIGN"}
  PROVE  LET line == asmParserParseLine(toks)
         IN  Len(Encoded(ResolvedLine(line, t, here), here, 1))
               = Len(Encoded(ResolvedLine(line, u, here), here, 2))
<1> DEFINE line == asmParserParseLine(toks)
<1>1. IsLine(line)
  BY LineRead
<1>2. line.mnemonic \notin {"DS", "ALIGN"}
  OBVIOUS
<1> HIDE DEF line
<1>3. Matching(ResolvedLine(line, t, here), ResolvedLine(line, u, here))
  BY <1>1, <1>2, ResolvedAlike
<1>4. SameLength(Encoded(ResolvedLine(line, t, here), here, 1),
                 Encoded(ResolvedLine(line, u, here), here, 2))
  BY <1>3, BytesAlike
<1>5. Len(Encoded(ResolvedLine(line, t, here), here, 1))
        = Len(Encoded(ResolvedLine(line, u, here), here, 2))
  BY <1>4, LengthIs DEF SameLength
<1>6. QED BY <1>5 DEF line

LEMMA PcAfterIs ==
  ASSUME NEW l, IsLine(l), NEW t, IsTable(t), NEW here \in Nat, NEW p
  PROVE  PcAfter(l, here, t, p) \in Nat
<1>1. IsTable(TableAfter(l, here, t))
  BY TableAfterIs
<1>2. Len(Encoded(ResolvedLine(l, TableAfter(l, here, t), here), here, p)) \in Nat
  BY <1>1, EncodedIs
<1>3. Count(l, here) \in Nat
  BY FirstIs
<1> DEFINE n == Len(Encoded(ResolvedLine(l, TableAfter(l, here, t), here), here, p))
<1> HIDE DEF n
<1>4. here + n \in Nat
  BY <1>2 DEF n
<1>5. QED BY <1>3, <1>4 DEF PcAfter, n

\* What a line gives its name.
EntryOf(line, here, t) ==
  IF Kind(line) = "equ"
  THEN [value |-> symbolTableResolve(t, FirstOperand(line).sym, FirstOperand(line).imm), kind |-> "equ"]
  ELSE [value |-> here, kind |-> "label"]

\* A name that is new gets its entry; one that has it already keeps it.
LEMMA EntryIs ==
  ASSUME NEW l, IsLine(l), Names(l), NEW t, IsTable(t), NEW s, IsTable(s), NEW here \in Nat
  PROVE  /\ l.label \notin DOMAIN t => TableAfter(l, here, t)[l.label] = EntryOf(l, here, t)
         /\ l.label \in DOMAIN t /\ t[l.label] = EntryOf(l, here, s) => TableAfter(l, here, t) = t
<1>0. l.label # NoName
  BY DEF Names
<1>1. CASE Kind(l) = "equ"
  <2> DEFINE v == symbolTableResolve(t, FirstOperand(l).sym, FirstOperand(l).imm)
             w == symbolTableDefineKind(t, l.label, v, "equ")
  <2>1. FirstOperand(l).imm \in Nat
    BY FirstIs DEF IsOperand
  <2>2. v \in Nat
    BY <2>1 DEF symbolTableResolve, IsTable
  <2>3. TableAfter(l, here, t) = w /\ EntryOf(l, here, t) = [value |-> v, kind |-> "equ"]
    BY <1>1 DEF TableAfter, EntryOf
  <2>4. EntryOf(l, here, s).kind = "equ"
    BY <1>1 DEF EntryOf
  <2> HIDE DEF v
  <2>5. /\ l.label \notin DOMAIN t => w[l.label] = [value |-> v, kind |-> "equ"]
        /\ l.label \in DOMAIN t /\ t[l.label].kind = "equ" => w = t
    BY <2>2, <1>0, DefineIs
  <2> HIDE DEF w
  <2>6. QED BY <2>3, <2>4, <2>5
<1>2. CASE Kind(l) # "equ"
  <2> DEFINE new == [value |-> here, kind |-> "label"]
             w == symbolTableDefineKind(t, l.label, here, "label")
  <2>1. TableAfter(l, here, t) = w /\ EntryOf(l, here, t) = new /\ EntryOf(l, here, s) = new
    BY <1>2 DEF TableAfter, EntryOf
  <2>2. /\ l.label \notin DOMAIN t => w[l.label] = new
        /\ l.label \in DOMAIN t /\ t[l.label] = new => w = t
    BY <1>0, DefineIs
  <2> HIDE DEF w, new
  <2>3. QED BY <2>1, <2>2
<1>3. QED BY <1>1, <1>2

----------------------------------------------------------------------------
(* The first pass as a whole: the pc f[n] and the symbols g[n] behind n lines *)

Goes(f, g, k) ==
  /\ f[0] = origin /\ g[0] = [name \in {} |-> 0]
  /\ \A n \in 1 .. k : /\ f[n] = PcAfter(LineAt(n), f[n - 1], g[n - 1], 1)
                       /\ g[n] = TableAfter(LineAt(n), f[n - 1], g[n - 1])

LEMMA LinesAre ==
  ASSUME IsText(text), NEW i \in DOMAIN text PROVE IsLine(LineAt(i))
BY LineRead DEF IsText, LineAt

LEMMA EmptyIsTable == IsTable([name \in {} |-> 0])
BY DEF IsTable

LEMMA GoesOn ==
  ASSUME NEW k \in Nat, NEW f, NEW g, Goes(f, g, k), NEW here, NEW t,
         here = PcAfter(LineAt(k + 1), f[k], g[k], 1), t = TableAfter(LineAt(k + 1), f[k], g[k])
  PROVE  \E u, v : Goes(u, v, k + 1) /\ u[k + 1] = here /\ v[k + 1] = t
<1> DEFINE u == [n \in 0 .. k + 1 |-> IF n = k + 1 THEN here ELSE f[n]]
           v == [n \in 0 .. k + 1 |-> IF n = k + 1 THEN t ELSE g[n]]
<1>1. /\ \A n \in 0 .. k + 1 : n # k + 1 => u[n] = f[n] /\ v[n] = g[n]
      /\ u[k + 1] = here /\ v[k + 1] = t
  OBVIOUS
<1> HIDE DEF u, v
<1>2. u[0] = f[0] /\ v[0] = g[0] /\ u[k] = f[k] /\ v[k] = g[k]
  BY <1>1
<1>3. ASSUME NEW n \in 1 .. k + 1
      PROVE  /\ u[n] = PcAfter(LineAt(n), u[n - 1], v[n - 1], 1)
             /\ v[n] = TableAfter(LineAt(n), u[n - 1], v[n - 1])
  <2>1. CASE n = k + 1
    <3>1. n - 1 = k
      BY <2>1
    <3>2. QED BY <1>1, <1>2, <2>1, <3>1
  <2>2. CASE n # k + 1
    <3>1. n \in 1 .. k /\ n - 1 \in 0 .. k + 1 /\ n - 1 # k + 1 /\ n \in 0 .. k + 1
      BY <2>2
    <3>2. u[n] = f[n] /\ v[n] = g[n] /\ u[n - 1] = f[n - 1] /\ v[n - 1] = g[n - 1]
      BY <1>1, <2>2, <3>1
    <3>3. f[n] = PcAfter(LineAt(n), f[n - 1], g[n - 1], 1)
          /\ g[n] = TableAfter(LineAt(n), f[n - 1], g[n - 1])
      BY <3>1 DEF Goes
    <3>4. QED BY <3>2, <3>3
  <2>3. QED BY <2>1, <2>2
<1>4. Goes(u, v, k + 1)
  BY <1>2, <1>3 DEF Goes
<1>5. QED BY <1>1, <1>4

LEMMA GoesTypes ==
  ASSUME IsText(text), origin \in Nat, NEW k \in 0 .. Len(text), NEW f, NEW g, Goes(f, g, k)
  PROVE  \A n \in 0 .. k : f[n] \in Nat /\ IsTable(g[n])
<1> DEFINE Steps == {n \in 0 .. k : f[n] \in Nat /\ IsTable(g[n])}
<1>0. k \in Nat
  BY DEF IsText
<1>1. 0 \in Steps
  BY <1>0, EmptyIsTable DEF Goes
<1>2. ASSUME NEW n \in 0 .. k - 1, n \in Steps PROVE n + 1 \in Steps
  <2>1. n + 1 \in 1 .. k /\ (n + 1) - 1 = n /\ n + 1 \in 0 .. k /\ n + 1 \in DOMAIN text
    BY <1>0 DEF IsText
  <2>2. IsLine(LineAt(n + 1))
    BY <2>1, LinesAre
  <2>3. f[n + 1] = PcAfter(LineAt(n + 1), f[n], g[n], 1)
        /\ g[n + 1] = TableAfter(LineAt(n + 1), f[n], g[n])
    BY <2>1 DEF Goes
  <2>4. f[n] \in Nat /\ IsTable(g[n])
    BY <1>2
  <2>5. IsTable(TableAfter(LineAt(n + 1), f[n], g[n]))
    BY <2>2, <2>4, TableAfterIs DEF Differs
  <2>6. PcAfter(LineAt(n + 1), f[n], g[n], 1) \in Nat
    BY <2>2, <2>4, PcAfterIs
  <2>7. QED BY <2>1, <2>3, <2>5, <2>6
<1> HIDE DEF Steps
<1>3. \A n \in 0 .. k : n \in Steps
  BY <1>0, <1>1, <1>2, Induct
<1>4. QED BY <1>3 DEF Steps

LEMMA GoesNames ==
  ASSUME IsText(text), origin \in Nat, NEW k \in 0 .. Len(text), NEW f, NEW g, Goes(f, g, k)
  PROVE  \A n \in 0 .. k : \A name :
           name \in DOMAIN g[n] <=> name # NoName /\ \E j \in 1 .. n : j \in Definitions(name)
<1> DEFINE Holds(n) == \A name :
             name \in DOMAIN g[n] <=> name # NoName /\ \E j \in 1 .. n : j \in Definitions(name)
           Steps == {n \in 0 .. k : Holds(n)}
<1>0. k \in Nat
  BY DEF IsText
<1>1. Holds(0)
  <2>1. DOMAIN g[0] = {} /\ 1 .. 0 = {}
    BY DEF Goes
  <2>2. QED BY <2>1
<1>2. ASSUME NEW n \in 0 .. k - 1, Holds(n) PROVE Holds(n + 1)
  <2>1. /\ n + 1 \in 1 .. k /\ (n + 1) - 1 = n /\ n \in 0 .. k /\ n + 1 \in DOMAIN text
        /\ 1 .. n + 1 = 1 .. n \cup {n + 1}
    BY <1>0 DEF IsText
  <2> DEFINE l == LineAt(n + 1)
  <2>2. IsLine(l)
    BY <2>1, LinesAre
  <2>3. g[n + 1] = TableAfter(l, f[n], g[n])
    BY <2>1 DEF Goes
  <2>4. f[n] \in Nat /\ IsTable(g[n])
    BY <2>1, GoesTypes
  <2>5. \A name : name # NoName => (n + 1 \in Definitions(name) <=> Names(l) /\ l.label = name)
    BY <2>1 DEF Definitions, Names
  <2>6. Names(l) => l.label # NoName
    BY DEF Names
  <2> HIDE DEF l
  <2>7. DOMAIN TableAfter(l, f[n], g[n]) = IF Names(l) THEN DOMAIN g[n] \cup {l.label} ELSE DOMAIN g[n]
    BY <2>2, <2>4, TableAfterIs DEF Differs
  <2>8. ASSUME NEW name
        PROVE  name \in DOMAIN g[n + 1]
                 <=> name # NoName /\ \E j \in 1 .. n + 1 : j \in Definitions(name)
    <3>1. name \in DOMAIN g[n + 1] <=> name \in DOMAIN g[n] \/ (Names(l) /\ name = l.label)
      BY <2>3, <2>7
    <3>2. name \in DOMAIN g[n] <=> name # NoName /\ \E j \in 1 .. n : j \in Definitions(name)
      BY <1>2
    <3>3. (\E j \in 1 .. n + 1 : j \in Definitions(name))
            <=> (\E j \in 1 .. n : j \in Definitions(name)) \/ n + 1 \in Definitions(name)
      BY <2>1
    <3>4. QED BY <3>1, <3>2, <3>3, <2>5, <2>6
  <2>9. QED BY <2>8
<1>3. 0 \in Steps /\ \A n \in 0 .. k - 1 : n \in Steps => n + 1 \in Steps
  <2> HIDE DEF Holds
  <2>1. \A n \in 0 .. k - 1 : n + 1 \in 0 .. k
    BY <1>0
  <2>2. 0 \in 0 .. k
    BY <1>0
  <2>3. QED BY <1>1, <1>2, <2>1, <2>2
<1> HIDE DEF Steps
<1>4. \A n \in 0 .. k : n \in Steps
  BY <1>0, <1>3, Induct
<1>5. QED BY <1>4, Zenon DEF Steps

\* In a settled text a name keeps the entry its line has given it.
LEMMA GoesKeeps ==
  ASSUME IsText(text), origin \in Nat, Settled, NEW k \in 0 .. Len(text), NEW f, NEW g, Goes(f, g, k)
  PROVE  \A n \in 0 .. k : \A j \in 1 .. n : Names(LineAt(j)) =>
           /\ LineAt(j).label \in DOMAIN g[n]
           /\ g[n][LineAt(j).label] = EntryOf(LineAt(j), f[j - 1], g[j - 1])
           /\ LineAt(j).label \notin DOMAIN g[j - 1]
<1> DEFINE Kept(n, j) == Names(LineAt(j)) =>
             /\ LineAt(j).label \in DOMAIN g[n]
             /\ g[n][LineAt(j).label] = EntryOf(LineAt(j), f[j - 1], g[j - 1])
             /\ LineAt(j).label \notin DOMAIN g[j - 1]
           Holds(n) == \A j \in 1 .. n : Kept(n, j)
           Steps == {n \in 0 .. k : Holds(n)}
<1>0. k \in Nat
  BY DEF IsText
<1>1. Holds(0)
  <2>1. 1 .. 0 = {}
    OBVIOUS
  <2>2. QED BY <2>1
<1>2. ASSUME NEW n \in 0 .. k - 1, Holds(n) PROVE Holds(n + 1)
  <2>1. /\ n + 1 \in 1 .. k /\ (n + 1) - 1 = n /\ n \in 0 .. k /\ n + 1 \in DOMAIN text /\ n \in Nat
        /\ \A j \in 1 .. n + 1 : j \in DOMAIN text /\ (j = n + 1 \/ j \in 1 .. n)
        /\ \A j \in 1 .. n : j # n + 1
    BY <1>0 DEF IsText
  <2> DEFINE l == LineAt(n + 1)
  <2>2. IsLine(l)
    BY <2>1, LinesAre
  <2>3. g[n + 1] = TableAfter(l, f[n], g[n])
    BY <2>1 DEF Goes
  <2>4. f[n] \in Nat /\ IsTable(g[n])
    BY <2>1, GoesTypes
  <2>5. \A j \in DOMAIN text : Names(LineAt(j)) => Definitions(LineAt(j).label) = {j}
    BY DEF Settled, Names
  <2>6. /\ Names(l) => DOMAIN TableAfter(l, f[n], g[n]) = DOMAIN g[n] \cup {l.label}
        /\ ~Names(l) => TableAfter(l, f[n], g[n]) = g[n]
        /\ \A x : x # l.label /\ x \in DOMAIN g[n] => TableAfter(l, f[n], g[n])[x] = g[n][x]
    <3> HIDE DEF l
    <3> DEFINE w == TableAfter(l, f[n], g[n])
    <3>1. (Names(l) => Differs(w, g[n], l.label)) /\ (~Names(l) => w = g[n])
      BY <2>2, <2>4, TableAfterIs
    <3> HIDE DEF w
    <3>2. /\ Names(l) => DOMAIN w = DOMAIN g[n] \cup {l.label}
          /\ ~Names(l) => w = g[n]
          /\ \A x : x # l.label /\ x \in DOMAIN g[n] => w[x] = g[n][x]
      BY <3>1 DEF Differs
    <3>3. QED BY <3>2 DEF w
  <2>7. ASSUME Names(l)
        PROVE  l.label \notin DOMAIN g[n] /\ TableAfter(l, f[n], g[n])[l.label] = EntryOf(l, f[n], g[n])
    <3>1. l.label \notin DOMAIN g[n]
      <4>1. Definitions(l.label) = {n + 1}
        BY <2>1, <2>5, <2>7
      <4>2. l.label \in DOMAIN g[n] => \E j \in 1 .. n : j \in Definitions(l.label)
        BY <2>1, GoesNames
      <4>3. QED BY <4>1, <4>2, <2>1
    <3> HIDE DEF l
    <3>2. QED BY <2>2, <2>4, <2>7, <3>1, EntryIs
  <2>8. ASSUME NEW j \in 1 .. n PROVE Kept(n + 1, j)
    <3>1. SUFFICES ASSUME Names(LineAt(j)) PROVE Kept(n + 1, j)
      OBVIOUS
    <3>2. Kept(n, j)
      BY <1>2
    <3> DEFINE x == LineAt(j).label
               e == EntryOf(LineAt(j), f[j - 1], g[j - 1])
    <3>3. x \in DOMAIN g[n] /\ g[n][x] = e /\ x \notin DOMAIN g[j - 1]
      BY <3>1, <3>2
    <3>4. Names(l) => x # l.label
      <4>1. Definitions(x) = {j}
        <5>1. j \in DOMAIN text
          BY <2>1
        <5>2. QED BY <5>1, <2>5, <3>1
      <4>2. Names(l) => Definitions(l.label) = {n + 1}
        BY <2>1, <2>5
      <4>3. j # n + 1
        BY <2>1
      <4>4. QED BY <4>1, <4>2, <4>3
    <3> HIDE DEF l, x, e
    <3>5. x \in DOMAIN g[n + 1] /\ g[n + 1][x] = e
      BY <2>3, <2>6, <3>3, <3>4
    <3>6. QED BY <3>3, <3>5 DEF x, e
  <2>9. Kept(n + 1, n + 1)
    <3>1. SUFFICES ASSUME Names(l) PROVE Kept(n + 1, n + 1)
      OBVIOUS
    <3>2. l.label \in DOMAIN g[n + 1] /\ g[n + 1][l.label] = EntryOf(l, f[n], g[n])
          /\ l.label \notin DOMAIN g[n]
      <4> HIDE DEF l
      <4>1. QED BY <2>3, <2>6, <2>7, <3>1
    <3>3. QED BY <3>2, <2>1
  <2> HIDE DEF Kept
  <2>10. QED BY <2>1, <2>8, <2>9
<1>3. 0 \in Steps /\ \A n \in 0 .. k - 1 : n \in Steps => n + 1 \in Steps
  <2> HIDE DEF Holds
  <2>1. \A n \in 0 .. k - 1 : n + 1 \in 0 .. k
    BY <1>0
  <2>2. 0 \in 0 .. k
    BY <1>0
  <2>3. QED BY <1>1, <1>2, <2>1, <2>2
<1> HIDE DEF Steps
<1>4. \A n \in 0 .. k : n \in Steps
  BY <1>0, <1>3, Induct
<1>5. QED BY <1>4, Zenon DEF Steps

LEMMA NamesIs ==
  ASSUME NEW name, name # NoName, NEW j
  PROVE  j \in Definitions(name) <=> j \in DOMAIN text /\ Names(LineAt(j)) /\ LineAt(j).label = name
BY DEF Definitions, Names

\* In a settled text a symbol that a directive needs has its last value when it is needed.
LEMMA NeededKnown ==
  ASSUME IsText(text), origin \in Nat, Settled, NEW f, NEW g, Goes(f, g, Len(text)),
         NEW n \in 1 .. Len(text), NEW name,
         name = NoName \/ \A j \in Definitions(name) : j < n
  PROVE  LET N == Len(text)
         IN  /\ symbolTableResolve(g[n], name, 0) = symbolTableResolve(g[N], name, 0)
             /\ name \in DOMAIN g[n] <=> name \in DOMAIN g[N]
<1> DEFINE N == Len(text)
<1>1. N \in Nat /\ DOMAIN text = 1 .. N
  BY DEF IsText
<1>2. n \in 0 .. N /\ N \in 0 .. N
  BY <1>1
<1>3. IsTable(g[n]) /\ IsTable(g[N])
  BY <1>2, GoesTypes
<1>4. CASE name = NoName
  BY <1>3, <1>4 DEF IsTable, symbolTableResolve
<1>5. CASE name # NoName
  <2>1. \A j \in Definitions(name) : j \in 1 .. N /\ j < n
    BY <1>1, <1>5, NamesIs
  <2>2. /\ name \in DOMAIN g[n] <=> \E j \in 1 .. n : j \in Definitions(name)
        /\ name \in DOMAIN g[N] <=> \E j \in 1 .. N : j \in Definitions(name)
    BY <1>2, <1>5, GoesNames
  <2>3. CASE Definitions(name) = {}
    BY <2>2, <2>3 DEF symbolTableResolve
  <2>4. CASE Definitions(name) # {}
    <3>1. PICK j : j \in Definitions(name)
      BY <2>4
    <3>2. j \in 1 .. N /\ j \in 1 .. n
      BY <2>1, <3>1
    <3>3. name \in DOMAIN g[n] /\ name \in DOMAIN g[N]
      BY <2>2, <3>1, <3>2
    <3>4. Names(LineAt(j)) /\ LineAt(j).label = name
      BY <1>5, <3>1, NamesIs
    <3> DEFINE e == EntryOf(LineAt(j), f[j - 1], g[j - 1])
    <3>5. \A m \in 0 .. N : \A i \in 1 .. m : Names(LineAt(i)) =>
             g[m][LineAt(i).label] = EntryOf(LineAt(i), f[i - 1], g[i - 1])
      BY <1>2, GoesKeeps
    <3>6. g[n][name] = e /\ g[N][name] = e
      BY <1>2, <3>2, <3>4, <3>5
    <3> HIDE DEF e
    <3>7. QED BY <3>3, <3>6 DEF symbolTableResolve
  <2>5. QED BY <2>3, <2>4
<1>6. QED BY <1>4, <1>5

\* The second pass goes where the first has gone, and changes no symbol.
LEMMA SecondLikeFirst ==
  ASSUME IsText(text), origin \in Nat, Settled, NEW f, NEW g, Goes(f, g, Len(text)),
         NEW n \in 1 .. Len(text)
  PROVE  /\ TableAfter(LineAt(n), f[n - 1], g[Len(text)]) = g[Len(text)]
         /\ PcAfter(LineAt(n), f[n - 1], g[Len(text)], 2) = f[n]
<1> DEFINE N == Len(text)
           l == LineAt(n)
           here == f[n - 1]
           last == g[N]
<1>1. N \in Nat /\ DOMAIN text = 1 .. N
  BY DEF IsText
<1>2. n \in 0 .. N /\ n - 1 \in 0 .. N /\ N \in 0 .. N /\ n \in 1 .. N /\ n \in DOMAIN text
  BY <1>1
<1>3. here \in Nat /\ IsTable(g[n - 1]) /\ IsTable(g[n]) /\ IsTable(last)
  BY <1>2, GoesTypes
<1>4. IsLine(l)
  BY <1>2, LinesAre
<1>5. g[n] = TableAfter(l, here, g[n - 1]) /\ f[n] = PcAfter(l, here, g[n - 1], 1)
  BY <1>2 DEF Goes
<1>6. TableAfter(l, here, last) = last
  <2>1. CASE Names(l)
    <3>1. \A i \in 1 .. N : Names(LineAt(i)) =>
             /\ LineAt(i).label \in DOMAIN g[N]
             /\ g[N][LineAt(i).label] = EntryOf(LineAt(i), f[i - 1], g[i - 1])
      BY <1>2, GoesKeeps
    <3>2. l.label \in DOMAIN last /\ last[l.label] = EntryOf(l, here, g[n - 1])
      BY <1>2, <2>1, <3>1
    <3> HIDE DEF l, here, last
    <3>3. QED BY <1>3, <1>4, <2>1, <3>2, EntryIs
  <2>2. CASE ~Names(l)
    BY <2>2 DEF TableAfter
  <2>3. QED BY <2>1, <2>2
<1>7. l.mnemonic \in {"DS", "ALIGN"} =>
        /\ symbolTableResolve(g[n], SymbolOf(l), 0) = symbolTableResolve(last, SymbolOf(l), 0)
        /\ SymbolOf(l) \in DOMAIN g[n] <=> SymbolOf(l) \in DOMAIN last
  <2>1. SUFFICES ASSUME l.mnemonic \in {"DS", "ALIGN"}
                 PROVE  /\ symbolTableResolve(g[n], SymbolOf(l), 0) = symbolTableResolve(last, SymbolOf(l), 0)
                        /\ SymbolOf(l) \in DOMAIN g[n] <=> SymbolOf(l) \in DOMAIN last
    OBVIOUS
  <2> DEFINE name == SymbolOf(l)
  <2>2. name = NoName \/ \A j \in Definitions(name) : j < n
    BY <1>2, <2>1 DEF Settled
  <2> HIDE DEF name
  <2>3. /\ symbolTableResolve(g[n], name, 0) = symbolTableResolve(last, name, 0)
        /\ name \in DOMAIN g[n] <=> name \in DOMAIN last
    BY <2>2, NeededKnown
  <2>4. QED BY <2>3 DEF name
<1> HIDE DEF l, here, last
<1>8. SameLength(Encoded(ResolvedLine(l, g[n], here), here, 1), Encoded(ResolvedLine(l, last, here), here, 2))
  <2>1. Matching(ResolvedLine(l, g[n], here), ResolvedLine(l, last, here))
    BY <1>3, <1>4, <1>7, ResolvedAlike
  <2>2. QED BY <2>1, <1>3, BytesAlike
<1>9. Len(Encoded(ResolvedLine(l, g[n], here), here, 1)) = Len(Encoded(ResolvedLine(l, last, here), here, 2))
  BY <1>8, LengthIs DEF SameLength
<1>10. PcAfter(l, here, last, 2) = PcAfter(l, here, g[n - 1], 1)
  BY <1>5, <1>6, <1>9 DEF PcAfter
<1>11. QED BY <1>5, <1>6, <1>10 DEF l, here, last

----------------------------------------------------------------------------
(* The invariant *)

Typed ==
  /\ IsText(text) /\ origin \in Nat /\ pass \in {1, 2} /\ at \in 1 .. Len(text) + 1
  /\ pc \in Nat /\ IsTable(symbols)
  /\ \E n \in Nat : OfLength(output, n)
  /\ \E n \in Nat : OfLength(emitted, n)

\* The first pass has gone as far as the line, and put out nothing.
InFirst ==
  pass = 1 => /\ output = <<>> /\ emitted = <<>>
              /\ \E f, g : Goes(f, g, at - 1) /\ pc = f[at - 1] /\ symbols = g[at - 1]

\* The second is where the first was at this line, with the symbols of its end.
InSecond ==
  pass = 2 /\ Settled =>
    \E f, g : Goes(f, g, Len(text)) /\ pc = f[at - 1] /\ symbols = g[Len(text)]

\* What has been encoded are lines before this one, resolved with these symbols.
Entered == \A n \in DOMAIN emitted : LET e == emitted[n] IN
  /\ e.at \in 1 .. Len(text) /\ e.at < at /\ e.pc \in Nat
  /\ Settled => e.line = ResolvedLine(LineAt(e.at), symbols, e.pc)

\* The pc is where the lines have got to, and the output as long as they are.
Laid ==
  pass = 2 => pc \in Reached(at) /\ (Forward(at) => Len(output) = pc - origin)

AssemblerInv == Typed /\ InFirst /\ InSecond /\ Entered /\ Laid /\ Placed

LEMMA LengthAppend ==
  ASSUME NEW s, NEW n \in Nat, OfLength(s, n), NEW x
  PROVE  /\ OfLength(Append(s, x), n + 1) /\ Append(s, x)[n + 1] = x
         /\ DOMAIN Append(s, x) = 1 .. n + 1
         /\ \A i \in 1 .. n : Append(s, x)[i] = s[i]
<1>1. PICK T : s \in Seq(T) /\ Len(s) = n
  BY Zenon DEF OfLength
<1>2. s \in Seq(T \cup {x})
  BY <1>1
<1>3. Append(s, x) \in Seq(T \cup {x}) /\ Len(Append(s, x)) = n + 1
  BY <1>1, <1>2
<1>4. OfLength(Append(s, x), n + 1)
  BY <1>3, Zenon DEF OfLength
<1>5. QED BY <1>1, <1>3, <1>4

\* What depends on the text and the origin only.
LEMMA TextStays ==
  ASSUME UNCHANGED <<text, origin>>
  PROVE  /\ \A i : LineAt(i)' = LineAt(i)
         /\ Settled' <=> Settled
         /\ \A f, g, k : Goes(f, g, k)' <=> Goes(f, g, k)
         /\ \A i : (MovesOrigin(i)' <=> MovesOrigin(i)) /\ OriginOf(i)' = OriginOf(i)
<1>1. \A i : LineAt(i)' = LineAt(i)
  BY DEF LineAt
<1>2. Settled' <=> Settled
  <2>1. \A name : Definitions(name)' = Definitions(name)
    BY <1>1 DEF Definitions
  <2>2. QED BY <1>1, <2>1 DEF Settled
<1>3. \A f, g, k : Goes(f, g, k)' <=> Goes(f, g, k)
  BY <1>1 DEF Goes
<1>4. \A i : (MovesOrigin(i)' <=> MovesOrigin(i)) /\ OriginOf(i)' = OriginOf(i)
  BY <1>1 DEF MovesOrigin, OriginOf
<1>5. QED BY <1>1, <1>2, <1>3, <1>4

\* A step of a pass.
LEMMA LineStep ==
  ASSUME Typed, Org \/ Equ \/ Collect \/ Emit
  PROVE  /\ at \in 1 .. Len(text) /\ at' = at + 1 /\ UNCHANGED <<text, origin, pass>>
         /\ IsLine(Current)
         /\ pc' = PcAfter(Current, pc, symbols, pass)
         /\ symbols' = TableAfter(Current, pc, symbols)
<1>1. \E kind : NextLine(kind)
  BY DEF Org, Equ, Collect, Emit
<1>2. at \in 1 .. Len(text) /\ at' = at + 1 /\ UNCHANGED <<text, origin, pass>> /\ at \in DOMAIN text
  BY <1>1 DEF NextLine, Typed, IsText
<1>3. IsLine(Current)
  BY <1>2, LinesAre DEF Current, Typed
<1> DEFINE l == Current
<1>4. Kind(l) = "equ" => l.label # NoName
  BY KindIs
<1>5. CASE Org
  <2>1. Kind(l) = "org" /\ pc' = Count(l, pc) /\ symbols' = symbols
    BY <1>5 DEF Org, NextLine
  <2> HIDE DEF l
  <2>2. pc' = PcAfter(l, pc, symbols, pass) /\ symbols' = TableAfter(l, pc, symbols)
    BY <2>1 DEF PcAfter, TableAfter, Names
  <2>3. QED BY <1>2, <1>3, <2>2 DEF l
<1>6. CASE Equ
  <2>1. /\ Kind(l) = "equ" /\ pc' = pc
        /\ symbols' = symbolTableDefineKind(symbols, l.label, symbolTableResolve(symbols,
                        FirstOperand(l).sym, FirstOperand(l).imm), "equ")
    BY <1>6 DEF Equ, NextLine
  <2> HIDE DEF l
  <2>2. pc' = PcAfter(l, pc, symbols, pass) /\ symbols' = TableAfter(l, pc, symbols)
    BY <2>1, <1>4 DEF PcAfter, TableAfter, Names
  <2>3. QED BY <1>2, <1>3, <2>2 DEF l
<1>7. CASE Collect \/ Emit
  <2>1. /\ Kind(l) = "line" /\ symbols' = Defined(l)
        /\ pc' = pc + Len(Encoded(ResolvedLine(l, symbols', pc), pc, pass))
    BY <1>7 DEF Collect, Emit, NextLine
  <2> HIDE DEF l
  <2>2. symbols' = TableAfter(l, pc, symbols)
    BY <2>1 DEF TableAfter, Names, Defined
  <2>3. pc' = PcAfter(l, pc, symbols, pass)
    BY <2>1, <2>2 DEF PcAfter
  <2>4. QED BY <1>2, <1>3, <2>2, <2>3 DEF l
<1>8. QED BY <1>5, <1>6, <1>7

LEMMA GapIs ==
  ASSUME NEW a \in Nat, NEW b \in Nat
  PROVE  /\ (IF b > a THEN b - a ELSE 0) \in Nat
         /\ b >= a => (IF b > a THEN b - a ELSE 0) = b - a
         /\ \A k \in Nat : b = a + k => b >= a /\ b - a = k
OBVIOUS

\* In the second pass the output grows with the pc, unless an ORG steps back.
LEMMA OutputStep ==
  ASSUME Typed, Org \/ Equ \/ Collect \/ Emit
  PROVE  /\ \E n \in Nat : OfLength(output', n)
         /\ pass = 1 /\ output = <<>> => output' = <<>>
         /\ pass = 2 /\ pc' >= pc => Len(output') = Len(output) + (pc' - pc)
         /\ pass = 2 /\ ~Org => pc' >= pc
<1>1. pc \in Nat /\ pc' \in Nat
  <2>1. pc' = PcAfter(Current, pc, symbols, pass) /\ IsLine(Current)
    BY LineStep
  <2>2. pc \in Nat /\ IsTable(symbols)
    BY DEF Typed
  <2>3. QED BY <2>1, <2>2, PcAfterIs
<1>2. PICK n \in Nat : OfLength(output, n)
  BY DEF Typed
<1>3. Len(output) = n
  BY <1>2, LengthIs
<1>4. ASSUME NEW s, NEW k \in Nat, OfLength(s, k), output' = output \o s
      PROVE  (\E m \in Nat : OfLength(output', m)) /\ Len(output') = n + k
  <2>1. OfLength(output', n + k) /\ n + k \in Nat
    BY <1>2, <1>4, LengthCat
  <2>2. QED BY <2>1, LengthIs
<1>5. CASE Org
  <2> DEFINE pad == IF pass = 2 THEN Padding(pc, pc') ELSE <<>>
             gap == IF pc' > pc THEN pc' - pc ELSE 0
             k == IF pass = 2 THEN gap ELSE 0
  <2>1. output' = output \o pad
    BY <1>5 DEF Org
  <2>a. gap \in Nat /\ (pc' >= pc => gap = pc' - pc) /\ 0 \in Nat
    BY <1>1, GapIs
  <2>3. OfLength(pad, k)
    <3>1. CASE pass = 2 /\ pc' > pc
      <4>1. pad = Filled(gap, 255) /\ k = gap
        BY <3>1 DEF Padding
      <4> HIDE DEF pad, k, gap
      <4>2. QED BY <2>a, <4>1, FilledIs
    <3>2. CASE ~(pass = 2 /\ pc' > pc)
      <4>1. pad = <<>> /\ k = 0
        BY <3>2 DEF Padding
      <4> HIDE DEF pad, k, gap
      <4>2. QED BY <4>1, LengthNone
    <3>3. QED BY <3>1, <3>2
  <2> HIDE DEF gap
  <2>2. k \in Nat
    BY <2>a
  <2> HIDE DEF pad
  <2>4. (\E m \in Nat : OfLength(output', m)) /\ Len(output') = n + k
    BY <2>1, <2>2, <2>3, <1>4
  <2>5. pass = 1 /\ output = <<>> => output' = <<>>
    <3>1. SUFFICES ASSUME pass = 1, output = <<>> PROVE output' = <<>>
      OBVIOUS
    <3>2. output' = <<>> \o <<>>
      BY <2>1, <3>1 DEF pad
    <3>3. <<>> \o <<>> = <<>>
      OBVIOUS
    <3>4. QED BY <3>2, <3>3
  <2>6. pass = 2 /\ pc' >= pc => k = pc' - pc
    BY <2>a
  <2> HIDE DEF k
  <2>7. QED BY <2>4, <2>5, <2>6, <1>3, <1>5
<1>6. CASE Equ
  <2>1. output' = output /\ pc' = pc
    BY <1>6 DEF Equ
  <2>2. QED BY <2>1, <1>1, <1>2, <1>3
<1>7. CASE Collect
  <2>1. output' = output /\ pass = 1
    BY <1>7 DEF Collect
  <2>2. QED BY <2>1, <1>2
<1>8. CASE Emit
  <2> DEFINE bytes == Encoded(ResolvedLine(Current, symbols', pc), pc, 2)
  <2>1. output' = output \o bytes /\ pc' = pc + Len(bytes) /\ pass = 2
    BY <1>8 DEF Emit
  <2>2. Len(bytes) \in Nat /\ OfLength(bytes, Len(bytes))
    <3>1. IsLine(Current) /\ symbols' = TableAfter(Current, pc, symbols)
      BY LineStep
    <3>2. IsTable(symbols')
      BY <3>1, <1>1, TableAfterIs DEF Typed
    <3> DEFINE t == symbols'
    <3> HIDE DEF t
    <3>3. LET b == Encoded(ResolvedLine(Current, t, pc), pc, 2) IN Len(b) \in Nat /\ OfLength(b, Len(b))
      BY <3>1, <3>2, <1>1, EncodedIs DEF t
    <3>4. QED BY <3>3 DEF t
  <2> HIDE DEF bytes
  <2> DEFINE k == Len(bytes)
  <2>3. k \in Nat /\ OfLength(bytes, k) /\ pc' = pc + k
    BY <2>1, <2>2
  <2> HIDE DEF k
  <2>4. (\E m \in Nat : OfLength(output', m)) /\ Len(output') = n + k
    BY <2>1, <2>3, <1>4
  <2>5. pc' >= pc /\ pc' - pc = k
    BY <2>3, <1>1, GapIs
  <2>6. QED BY <2>1, <2>4, <2>5, <1>3
<1>9. QED BY <1>5, <1>6, <1>7, <1>8

LEMMA TypedKept ==
  ASSUME Typed, Org \/ Equ \/ Collect \/ Emit
  PROVE  Typed'
<1>1. /\ at \in 1 .. Len(text) /\ at' = at + 1 /\ UNCHANGED <<text, origin, pass>>
      /\ IsLine(Current) /\ pc' = PcAfter(Current, pc, symbols, pass)
      /\ symbols' = TableAfter(Current, pc, symbols)
  BY LineStep
<1>2. IsText(text) /\ Len(text) \in Nat /\ pc \in Nat /\ IsTable(symbols)
  BY DEF Typed, IsText
<1>3. pc' \in Nat /\ IsTable(symbols')
  BY <1>1, <1>2, PcAfterIs, TableAfterIs
<1>4. at' \in 1 .. Len(text') + 1
  BY <1>1, <1>2
<1>5. \E n \in Nat : OfLength(output', n)
  BY OutputStep
<1>6. \E n \in Nat : OfLength(emitted', n)
  <2>1. CASE emitted' = emitted
    BY <2>1 DEF Typed
  <2>2. CASE Emit
    <3>1. PICK n \in Nat : OfLength(emitted, n)
      BY DEF Typed
    <3>2. PICK x : emitted' = Append(emitted, x)
      BY <2>2 DEF Emit
    <3>3. OfLength(emitted', n + 1) /\ n + 1 \in Nat
      BY <3>1, <3>2, LengthAppend
    <3>4. QED BY <3>3
  <2>3. QED BY <2>1, <2>2 DEF Org, Equ, Collect
<1>7. QED BY <1>1, <1>2, <1>3, <1>4, <1>5, <1>6 DEF Typed

LEMMA InFirstKept ==
  ASSUME Typed, InFirst, Org \/ Equ \/ Collect \/ Emit
  PROVE  InFirst'
<1>1. /\ at \in 1 .. Len(text) /\ at' = at + 1 /\ UNCHANGED <<text, origin, pass>>
      /\ pc' = PcAfter(Current, pc, symbols, pass)
      /\ symbols' = TableAfter(Current, pc, symbols)
  BY LineStep
<1>2. SUFFICES ASSUME pass = 1
               PROVE  /\ output' = <<>> /\ emitted' = <<>>
                      /\ \E f, g : Goes(f, g, at) /\ pc' = f[at] /\ symbols' = g[at]
  <2>1. at' - 1 = at
    BY <1>1
  <2>2. \A f, g, k : Goes(f, g, k)' <=> Goes(f, g, k)
    BY <1>1, TextStays
  <2>3. QED BY <1>1, <2>1, <2>2 DEF InFirst
<1>3. output = <<>> /\ emitted = <<>>
  BY <1>2 DEF InFirst
<1>4. output' = <<>>
  BY <1>2, <1>3, OutputStep
<1>5. emitted' = <<>>
  BY <1>2, <1>3 DEF Org, Equ, Collect, Emit
<1>6. PICK f, g : Goes(f, g, at - 1) /\ pc = f[at - 1] /\ symbols = g[at - 1]
  BY <1>2 DEF InFirst
<1>7. \E u, v : Goes(u, v, at) /\ u[at] = pc' /\ v[at] = symbols'
  <2> DEFINE k == at - 1
             here == PcAfter(LineAt(at), f[at - 1], g[at - 1], 1)
             t == TableAfter(LineAt(at), f[at - 1], g[at - 1])
  <2>1. k \in Nat /\ k + 1 = at
    BY <1>1
  <2>2. here = pc' /\ t = symbols'
    BY <1>1, <1>2, <1>6 DEF Current
  <2>3. Goes(f, g, k)
    BY <1>6
  <2>4. here = PcAfter(LineAt(k + 1), f[k], g[k], 1) /\ t = TableAfter(LineAt(k + 1), f[k], g[k])
    BY <2>1
  <2> HIDE DEF k, here, t
  <2>5. \E u, v : Goes(u, v, k + 1) /\ u[k + 1] = here /\ v[k + 1] = t
    BY <2>1, <2>3, <2>4, GoesOn
  <2>6. QED BY <2>1, <2>2, <2>5
<1>8. QED BY <1>4, <1>5, <1>7

LEMMA InSecondKept ==
  ASSUME Typed, InSecond, Org \/ Equ \/ Collect \/ Emit
  PROVE  InSecond' /\ (pass = 2 /\ Settled => symbols' = symbols)
<1>1. /\ at \in 1 .. Len(text) /\ at' = at + 1 /\ UNCHANGED <<text, origin, pass>>
      /\ pc' = PcAfter(Current, pc, symbols, pass)
      /\ symbols' = TableAfter(Current, pc, symbols)
  BY LineStep
<1>2. at' - 1 = at
  BY <1>1
<1>3. (Settled' <=> Settled) /\ \A f, g, k : Goes(f, g, k)' <=> Goes(f, g, k)
  BY <1>1, TextStays
<1>4. SUFFICES ASSUME pass = 2, Settled
               PROVE  /\ symbols' = symbols
                      /\ \E f, g : Goes(f, g, Len(text)) /\ pc' = f[at] /\ symbols' = g[Len(text)]
  BY <1>1, <1>2, <1>3 DEF InSecond
<1>5. PICK f, g : Goes(f, g, Len(text)) /\ pc = f[at - 1] /\ symbols = g[Len(text)]
  BY <1>4 DEF InSecond
<1>6. /\ TableAfter(LineAt(at), f[at - 1], g[Len(text)]) = g[Len(text)]
      /\ PcAfter(LineAt(at), f[at - 1], g[Len(text)], 2) = f[at]
  BY <1>1, <1>4, <1>5, SecondLikeFirst DEF Typed
<1>7. pc' = f[at] /\ symbols' = g[Len(text)] /\ symbols' = symbols
  BY <1>1, <1>4, <1>5, <1>6 DEF Current
<1>8. QED BY <1>5, <1>7

LEMMA EnteredKept ==
  ASSUME Typed, InFirst, InSecond, Entered, Org \/ Equ \/ Collect \/ Emit
  PROVE  Entered'
<1>1. /\ at \in 1 .. Len(text) /\ at' = at + 1 /\ UNCHANGED <<text, origin, pass>>
      /\ symbols' = TableAfter(Current, pc, symbols)
  BY LineStep
<1>2. (Settled' <=> Settled) /\ \A i : LineAt(i)' = LineAt(i)
  BY <1>1, TextStays
<1>3. pass = 1 => emitted = <<>>
  BY DEF InFirst
<1>4. pass = 2 /\ Settled => symbols' = symbols
  BY InSecondKept
<1>5. pass \in {1, 2} /\ pc \in Nat
  BY DEF Typed
<1>6. PICK n \in Nat : OfLength(emitted, n)
  BY DEF Typed
<1>7. DOMAIN emitted = 1 .. n
  BY <1>6, LengthIs
<1> DEFINE Fitting(e) ==
             /\ e.at \in 1 .. Len(text) /\ e.at < at + 1 /\ e.pc \in Nat
             /\ Settled => e.line = ResolvedLine(LineAt(e.at), symbols', e.pc)
<1>8. SUFFICES \A i \in DOMAIN emitted' : Fitting(emitted'[i])
  BY <1>1, <1>2 DEF Entered
<1>9. ASSUME NEW i \in DOMAIN emitted PROVE Fitting(emitted[i])
  <2> DEFINE e == emitted[i]
  <2>1. pass = 2
    BY <1>3, <1>5, <1>9
  <2>2. /\ e.at \in 1 .. Len(text) /\ e.at < at /\ e.pc \in Nat
        /\ Settled => e.line = ResolvedLine(LineAt(e.at), symbols, e.pc)
    BY DEF Entered
  <2> HIDE DEF e
  <2>3. e.at < at + 1
    BY <2>2, <1>1
  <2>4. Settled => e.line = ResolvedLine(LineAt(e.at), symbols', e.pc)
    BY <2>1, <2>2, <1>4
  <2>5. QED BY <2>2, <2>3, <2>4 DEF e
<1>10. CASE emitted' = emitted
  BY <1>9, <1>10
<1>11. CASE Emit
  <2> DEFINE resolved == ResolvedLine(Current, symbols', pc)
             x == [at |-> at, pc |-> pc, offset |-> Len(output), line |-> resolved,
                   bytes |-> Encoded(resolved, pc, 2)]
  <2>1. emitted' = Append(emitted, x)
    BY <1>11 DEF Emit
  <2>2. x.at = at /\ x.pc = pc /\ x.line = ResolvedLine(LineAt(at), symbols', pc)
    BY DEF Current
  <2> HIDE DEF x
  <2>3. Fitting(x)
    BY <2>2, <1>1, <1>5
  <2> HIDE DEF Fitting
  <2>4. /\ DOMAIN emitted' = 1 .. n + 1 /\ emitted'[n + 1] = x
        /\ \A i \in 1 .. n : emitted'[i] = emitted[i]
    BY <2>1, <1>6, LengthAppend
  <2>5. \A i \in 1 .. n + 1 : i = n + 1 \/ i \in 1 .. n
    BY <1>6
  <2>6. QED BY <2>3, <2>4, <2>5, <1>7, <1>9
<1>12. QED BY <1>10, <1>11 DEF Org, Equ, Collect

\* One entry more at the most, that of the line.
LEMMA EntryStep ==
  ASSUME Typed, Org \/ Equ \/ Collect \/ Emit
  PROVE  \/ emitted' = emitted /\ ~Emit
         \/ \E n, x :
              /\ Emit /\ n \in Nat /\ DOMAIN emitted = 1 .. n /\ DOMAIN emitted' = 1 .. n + 1
              /\ emitted'[n + 1] = x /\ \A i \in 1 .. n : emitted'[i] = emitted[i]
              /\ x.at = at /\ x.pc = pc /\ x.offset = Len(output) /\ x.pc + Len(x.bytes) = pc'
<1>1. CASE ~Emit
  BY <1>1 DEF Org, Equ, Collect
<1>2. CASE Emit
  <2> DEFINE resolved == ResolvedLine(Current, symbols', pc)
             x == [at |-> at, pc |-> pc, offset |-> Len(output), line |-> resolved,
                   bytes |-> Encoded(resolved, pc, 2)]
  <2>1. emitted' = Append(emitted, x) /\ pc' = pc + Len(x.bytes)
    BY <1>2 DEF Emit
  <2>2. x.at = at /\ x.pc = pc /\ x.offset = Len(output)
    OBVIOUS
  <2> HIDE DEF x
  <2>3. PICK n \in Nat : OfLength(emitted, n)
    BY DEF Typed
  <2>4. /\ DOMAIN emitted' = 1 .. n + 1 /\ emitted'[n + 1] = x
        /\ \A i \in 1 .. n : emitted'[i] = emitted[i]
    BY <2>1, <2>3, LengthAppend
  <2>5. DOMAIN emitted = 1 .. n
    BY <2>3, LengthIs
  <2>6. QED BY <1>2, <2>1, <2>2, <2>4, <2>5
<1>3. QED BY <1>1, <1>2

LEMMA Reaches ==
  \A i, a : a \in Reached(i) <=>
    \/ a = origin
    \/ \E j \in 1 .. i - 1 : MovesOrigin(j) /\ a = OriginOf(j)
    \/ \E n \in DOMAIN emitted : emitted[n].at < i /\ a = emitted[n].pc + Len(emitted[n].bytes)
BY DEF Reached

LEMMA ReachedStays ==
  ASSUME Typed, Entered, Org \/ Equ \/ Collect \/ Emit
  PROVE  /\ \A i \in 1 .. at : Reached(i)' = Reached(i)
         /\ Reached(at) \subseteq Reached(at)'
         /\ \A i \in 1 .. at + 1 : Forward(i)' <=> Forward(i)
<1>1. at \in 1 .. Len(text) /\ at' = at + 1 /\ UNCHANGED <<text, origin, pass>> /\ at \in Nat
  BY LineStep DEF Typed, IsText
<1>2. \A i : (MovesOrigin(i)' <=> MovesOrigin(i)) /\ OriginOf(i)' = OriginOf(i)
  BY <1>1, TextStays
<1>3. \A n \in DOMAIN emitted : emitted[n].at \in Nat /\ emitted[n].at < at
  BY DEF Entered
<1> DEFINE Out(i, a) ==
             \E n \in DOMAIN emitted : emitted[n].at < i /\ a = emitted[n].pc + Len(emitted[n].bytes)
           OutNext(i, a) ==
             \E n \in DOMAIN emitted' : emitted'[n].at < i /\ a = emitted'[n].pc + Len(emitted'[n].bytes)
           Moved(i, a) == \E j \in 1 .. i - 1 : MovesOrigin(j) /\ a = OriginOf(j)
<1>4. \A i, a : a \in Reached(i) <=> a = origin \/ Moved(i, a) \/ Out(i, a)
  BY Reaches
<1>5. \A i, a : a \in Reached(i)' <=> a = origin \/ Moved(i, a) \/ OutNext(i, a)
  BY <1>1, <1>2 DEF Reached
<1>6. (\A i \in 1 .. at : \A a : OutNext(i, a) <=> Out(i, a)) /\ \A a : Out(at, a) => OutNext(at + 1, a)
  <2>1. CASE emitted' = emitted
    <3>1. \A n \in DOMAIN emitted : emitted[n].at < at + 1
      BY <1>1, <1>3
    <3>2. QED BY <2>1, <3>1
  <2>2. CASE Emit
    <3>1. PICK n, x :
              /\ n \in Nat /\ DOMAIN emitted = 1 .. n /\ DOMAIN emitted' = 1 .. n + 1
              /\ emitted'[n + 1] = x /\ \A i \in 1 .. n : emitted'[i] = emitted[i]
              /\ x.at = at /\ x.pc + Len(x.bytes) = pc'
      BY <2>2, EntryStep
    <3>2. \A i \in 1 .. at : ~(at < i)
      BY <1>1
    <3>3. \A i \in 1 .. n : emitted[i].at < at + 1
      BY <1>1, <1>3, <3>1
    <3>4. \A i \in 1 .. n + 1 : i = n + 1 \/ i \in 1 .. n
      BY <3>1
    <3>5. \A i \in 1 .. n : i \in 1 .. n + 1
      BY <3>1
    <3>6. ASSUME NEW i \in 1 .. at, NEW a PROVE OutNext(i, a) <=> Out(i, a)
      BY <3>1, <3>2, <3>4, <3>5
    <3>7. \A a : Out(at, a) => OutNext(at + 1, a)
      BY <3>1, <3>3, <3>5
    <3>8. QED BY <3>6, <3>7
  <2>3. QED BY <2>1, <2>2 DEF Org, Equ, Collect
<1>7. \A a : Moved(at, a) => Moved(at + 1, a)
  BY <1>1
<1> HIDE DEF Out, OutNext, Moved
<1>8. \A i \in 1 .. at : Reached(i)' = Reached(i)
  BY <1>4, <1>5, <1>6
<1>9. Reached(at) \subseteq Reached(at)'
  <2>1. \A k : k = at + 1 => Reached(at) \subseteq Reached(k)'
    BY <1>4, <1>5, <1>6, <1>7
  <2>2. at' = at + 1 => Reached(at) \subseteq Reached(at)'
    BY <2>1
  <2>3. QED BY <1>1, <2>2
<1>10. ASSUME NEW i \in 1 .. at + 1 PROVE Forward(i)' <=> Forward(i)
  <2>1. \A j \in 1 .. i - 1 : j \in 1 .. at
    BY <1>1
  <2>2. QED BY <1>2, <1>8, <2>1 DEF Forward
<1>11. QED BY <1>8, <1>9, <1>10

LEMMA ForwardIs ==
  ASSUME at \in Nat \ {0}
  PROVE  Forward(at + 1)
           <=> Forward(at) /\ (MovesOrigin(at) => \A a \in Reached(at) : OriginOf(at) >= a)
<1>1. 1 .. (at + 1) - 1 = 1 .. at - 1 \cup {at}
  OBVIOUS
<1>2. QED BY <1>1 DEF Forward

LEMMA LaidKept ==
  ASSUME Typed, Entered, Laid, Org \/ Equ \/ Collect \/ Emit
  PROVE  Laid'
<1>1. /\ at \in 1 .. Len(text) /\ at' = at + 1 /\ UNCHANGED <<text, origin, pass>>
      /\ IsLine(Current) /\ at \in Nat \ {0}
  BY LineStep DEF Typed, IsText
<1>2. SUFFICES ASSUME pass = 2
               PROVE  pc' \in Reached(at)' /\ (Forward(at)' => Len(output') = pc' - origin)
  BY <1>1 DEF Laid
<1>3. pc \in Reached(at) /\ (Forward(at) => Len(output) = pc - origin)
  BY <1>2 DEF Laid
<1>4. \/ pc' = pc
      \/ Org /\ MovesOrigin(at) /\ pc' = OriginOf(at)
      \/ Emit
  <2>1. CASE Org
    <3>1. pc' = Count(LineAt(at), pc) /\ Kind(LineAt(at)) = "org"
      BY <2>1 DEF Org, NextLine, Current
    <3>2. QED BY <2>1, <3>1 DEF Count, MovesOrigin, OriginOf
  <2>2. CASE Equ
    BY <2>2 DEF Equ
  <2>3. CASE Collect
    BY <1>2, <2>3 DEF Collect
  <2>4. QED BY <2>1, <2>2, <2>3
<1>5. pc' \in Reached(at)'
  <2>1. \A i, a : a \in Reached(i)' <=>
          \/ a = origin
          \/ \E j \in 1 .. i - 1 : MovesOrigin(j) /\ a = OriginOf(j)
          \/ \E n \in DOMAIN emitted' :
               emitted'[n].at < i /\ a = emitted'[n].pc + Len(emitted'[n].bytes)
    <3>1. \A i : (MovesOrigin(i)' <=> MovesOrigin(i)) /\ OriginOf(i)' = OriginOf(i)
      BY <1>1, TextStays
    <3>2. QED BY <1>1, <3>1 DEF Reached
  <2>2. CASE pc' = pc
    <3>1. Reached(at) \subseteq Reached(at)'
      BY ReachedStays
    <3>2. QED BY <1>3, <2>2, <3>1
  <2>3. CASE Org /\ MovesOrigin(at) /\ pc' = OriginOf(at)
    <3>1. \A k : k = at + 1 => pc' \in Reached(k)'
      <4>1. \A k : k = at + 1 => at \in 1 .. k - 1
        BY <1>1
      <4>2. QED BY <2>1, <2>3, <4>1
    <3>2. at' = at + 1 => pc' \in Reached(at)'
      BY <3>1
    <3>3. QED BY <1>1, <3>2
  <2>4. CASE Emit
    <3>1. PICK n, x :
              /\ n \in Nat /\ DOMAIN emitted = 1 .. n /\ DOMAIN emitted' = 1 .. n + 1
              /\ emitted'[n + 1] = x /\ \A i \in 1 .. n : emitted'[i] = emitted[i]
              /\ x.at = at /\ x.pc + Len(x.bytes) = pc'
      BY <2>4, EntryStep
    <3>2. n + 1 \in DOMAIN emitted' /\ \A k : k = at + 1 => emitted'[n + 1].at < k
      BY <1>1, <3>1
    <3>3. \A k : k = at + 1 => pc' \in Reached(k)'
      BY <2>1, <3>1, <3>2
    <3>4. at' = at + 1 => pc' \in Reached(at)'
      BY <3>3
    <3>5. QED BY <1>1, <3>4
  <2>5. QED BY <1>4, <2>2, <2>3, <2>4
<1>6. ASSUME Forward(at)' PROVE Len(output') = pc' - origin
  <2>1. Forward(at + 1)
    <3>1. \A k \in 1 .. at + 1 : Forward(k)' <=> Forward(k)
      BY ReachedStays
    <3>2. at' \in 1 .. at + 1
      BY <1>1
    <3>3. Forward(at')
      BY <1>6, <3>1, <3>2
    <3>4. QED BY <1>1, <3>3
  <2>2. Forward(at) /\ (MovesOrigin(at) => \A a \in Reached(at) : OriginOf(at) >= a)
    BY <1>1, <2>1, ForwardIs
  <2>3. Len(output) = pc - origin
    BY <1>3, <2>2
  <2>4. pc \in Nat /\ pc' \in Nat /\ origin \in Nat
    BY TypedKept DEF Typed
  <2>5. pc' >= pc
    <3>1. CASE ~Org
      BY <1>2, <3>1, OutputStep
    <3>2. CASE Org
      <4>1. pc' = pc \/ (MovesOrigin(at) /\ pc' = OriginOf(at)) \/ Emit
        BY <1>4
      <4>2. ~Emit
        <5>1. Kind(Current) = "org"
          BY <3>2 DEF Org, NextLine
        <5>2. Emit => Kind(Current) = "line"
          BY DEF Emit, NextLine
        <5>3. QED BY <5>1, <5>2
      <4>3. QED BY <1>3, <2>2, <2>4, <4>1, <4>2
    <3>3. QED BY <3>1, <3>2
  <2>6. Len(output') = Len(output) + (pc' - pc)
    BY <1>2, <2>5, OutputStep
  <2>7. QED BY <2>3, <2>4, <2>6
<1>7. QED BY <1>5, <1>6

LEMMA PlacedKept ==
  ASSUME Typed, Entered, Laid, Placed, Org \/ Equ \/ Collect \/ Emit
  PROVE  Placed'
<1>1. /\ at \in 1 .. Len(text) /\ at' = at + 1 /\ UNCHANGED <<text, origin, pass>>
      /\ at \in Nat \ {0} /\ Len(text) \in Nat
  BY LineStep DEF Typed, IsText
<1>2. \A i \in 1 .. at + 1 : Forward(i)' <=> Forward(i)
  BY ReachedStays
<1>3. SUFFICES ASSUME NEW n \in DOMAIN emitted', Forward(emitted[n].at)'
               PROVE  emitted'[n].offset = emitted'[n].pc - origin
  BY <1>1 DEF Placed
<1>4. ASSUME n \in DOMAIN emitted, emitted'[n] = emitted[n]
      PROVE  emitted'[n].offset = emitted'[n].pc - origin
  <2> DEFINE i == emitted[n].at
  <2>1. i \in 1 .. at + 1 /\ emitted'[n].at = i
    BY <1>1, <1>4 DEF Entered
  <2>2. Forward(i)
    BY <1>2, <1>3, <2>1
  <2>3. QED BY <1>4, <2>2 DEF Placed
<1>5. CASE emitted' = emitted
  BY <1>3, <1>4, <1>5
<1>6. CASE Emit
  <2>1. PICK m, x :
            /\ m \in Nat /\ DOMAIN emitted = 1 .. m /\ DOMAIN emitted' = 1 .. m + 1
            /\ emitted'[m + 1] = x /\ \A i \in 1 .. m : emitted'[i] = emitted[i]
            /\ x.at = at /\ x.pc = pc /\ x.offset = Len(output)
    BY <1>6, EntryStep
  <2>2. CASE n \in 1 .. m
    BY <1>4, <2>1, <2>2
  <2>3. CASE n = m + 1
    <3>1. emitted'[n].at = at /\ emitted'[n].pc = pc /\ emitted'[n].offset = Len(output)
      BY <2>1, <2>3
    <3>2. at \in 1 .. at + 1
      BY <1>1
    <3>3. Forward(at)
      BY <1>2, <1>3, <3>1, <3>2
    <3>4. Len(output) = pc - origin
      BY <1>6, <3>3 DEF Laid, Emit
    <3>5. QED BY <3>1, <3>4
  <2>4. QED BY <1>3, <2>1, <2>2, <2>3
<1>7. QED BY <1>5, <1>6 DEF Org, Equ, Collect

\* At the end every operand has the value of its symbol, and an EQU that of its own.
LEMMA OperandsLinked ==
  ASSUME Typed, Entered, Settled, NEW n \in DOMAIN emitted
  PROVE  LET e == emitted[n] IN
           \A k \in DOMAIN e.line.operands : LET op == e.line.operands[k] IN
             op.sym \in DOMAIN symbols =>
               /\ op.imm = symbols[op.sym].value
               /\ op.type = "d(PC)" => e.pc + 2 + op.disp = op.imm
<1> DEFINE e == emitted[n]
           l == LineAt(e.at)
           r == ResolvedLine(l, symbols, e.pc)
<1>1. e.at \in 1 .. Len(text) /\ e.pc \in Nat /\ e.line = r
  BY DEF Entered
<1>2. IsLine(l)
  <2>1. e.at \in DOMAIN text
    BY <1>1 DEF Typed, IsText
  <2>2. QED BY <2>1, LinesAre DEF Typed
<1>3. IsTable(symbols)
  BY DEF Typed
<1> HIDE DEF e, l, r
<1>4. PICK m \in 0 .. 2 : /\ DOMAIN l.operands = 1 .. m
                          /\ \A k \in 1 .. m : IsOperand(l.operands[k]) /\ Unresolved(l.operands[k])
  BY <1>2, OperandsLong
<1>5. DOMAIN r.operands = 1 .. m /\ \A k \in 1 .. m : r.operands[k] = Resolved(l.operands[k], symbols, e.pc)
  <2> DEFINE here == e.pc
  <2> HIDE DEF here
  <2>1. LET x == ResolvedLine(l, symbols, here)
        IN  /\ DOMAIN x.operands = DOMAIN l.operands
            /\ \A k \in DOMAIN l.operands : x.operands[k] = Resolved(l.operands[k], symbols, here)
    BY <1>2, ResolvedLineIs
  <2>2. QED BY <2>1, <1>4 DEF here, r
<1>6. ASSUME NEW k \in 1 .. m, r.operands[k].sym \in DOMAIN symbols
      PROVE  /\ r.operands[k].imm = symbols[r.operands[k].sym].value
             /\ r.operands[k].type = "d(PC)" => e.pc + 2 + r.operands[k].disp = r.operands[k].imm
  <2> DEFINE op == l.operands[k]
             here == e.pc
             x == Resolved(op, symbols, here)
  <2>1. r.operands[k] = x
    BY <1>5
  <2>2. IsOperand(op) /\ here \in Nat
    BY <1>1, <1>4
  <2> HIDE DEF op, here
  <2>3. /\ x.sym = op.sym /\ x.imm = symbolTableResolve(symbols, op.sym, op.imm)
        /\ x.type = "d(PC)" /\ op.sym \in DOMAIN symbols => here + 2 + x.disp = x.imm
    BY <2>2, <1>3, ResolvedIs
  <2> HIDE DEF x
  <2>4. op.sym \in DOMAIN symbols /\ x.imm = symbols[op.sym].value
    BY <1>6, <2>1, <2>3 DEF symbolTableResolve
  <2>5. QED BY <2>1, <2>3, <2>4 DEF here
<1>7. QED BY <1>1, <1>5, <1>6 DEF e

LEMMA EquatesLinked ==
  ASSUME Typed, InSecond, Assembled, Settled, NEW i \in DOMAIN text, Kind(LineAt(i)) = "equ",
         SymbolOf(LineAt(i)) \in DOMAIN symbols
  PROVE  symbols[LineAt(i).label].value =
           IF \A j \in Definitions(SymbolOf(LineAt(i))) : j < i
           THEN symbols[SymbolOf(LineAt(i))].value ELSE 0
<1> DEFINE N == Len(text)
           l == LineAt(i)
           op == FirstOperand(l)
           name == SymbolOf(l)
<1>1. N \in Nat /\ DOMAIN text = 1 .. N /\ IsText(text) /\ origin \in Nat
  BY DEF Typed, IsText
<1>2. i \in 1 .. N /\ i - 1 \in 0 .. N /\ N \in 0 .. N
  BY <1>1
<1>3. PICK f, g : Goes(f, g, N) /\ symbols = g[N]
  BY DEF InSecond, Assembled
<1>4. IsLine(l)
  BY <1>1, LinesAre
<1>5. Unresolved(op) /\ name = op.sym
  BY <1>4, FirstIs DEF SymbolOf
<1>6. Names(l)
  BY KindIs DEF Names
<1>7. \A m \in 0 .. N : \A j \in 1 .. m : Names(LineAt(j)) =>
        g[m][LineAt(j).label] = EntryOf(LineAt(j), f[j - 1], g[j - 1])
  BY <1>1, <1>2, <1>3, GoesKeeps
<1>8. symbols[l.label] = EntryOf(l, f[i - 1], g[i - 1])
  BY <1>2, <1>3, <1>6, <1>7
<1>9. symbols[l.label].value = symbolTableResolve(g[i - 1], name, op.imm)
  BY <1>5, <1>8 DEF EntryOf
<1>10. \A m \in 0 .. N : \A x :
         x \in DOMAIN g[m] <=> x # NoName /\ \E j \in 1 .. m : j \in Definitions(x)
  BY <1>1, <1>2, <1>3, GoesNames
<1>11. name # NoName /\ \E j \in 1 .. N : j \in Definitions(name)
  BY <1>2, <1>3, <1>10
<1>12. PICK j \in 1 .. N : j \in Definitions(name)
  BY <1>11
<1>13. Names(LineAt(j)) /\ LineAt(j).label = name
  BY <1>11, <1>12, NamesIs
<1>14. Definitions(name) = {j}
  BY <1>1, <1>12, <1>13 DEF Settled, Names
<1>15. CASE j < i
  <2>1. j \in 1 .. i - 1
    BY <1>2, <1>12, <1>15
  <2>2. name \in DOMAIN g[i - 1]
    BY <1>2, <1>10, <1>11, <1>12, <2>1
  <2>3. g[i - 1][name] = symbols[name]
    <3> DEFINE e == EntryOf(LineAt(j), f[j - 1], g[j - 1])
    <3>1. g[i - 1][name] = e /\ g[N][name] = e
      BY <1>2, <1>7, <1>12, <1>13, <2>1
    <3> HIDE DEF e
    <3>2. QED BY <3>1, <1>3
  <2> HIDE DEF l, name, op
  <2>4. QED BY <1>9, <1>14, <1>15, <2>2, <2>3 DEF symbolTableResolve, l, name
<1>16. CASE ~(j < i)
  <2>1. name \notin DOMAIN g[i - 1]
    BY <1>2, <1>10, <1>14, <1>16
  <2>2. op.imm = 0
    BY <1>5, <1>11 DEF Unresolved
  <2> HIDE DEF l, name, op
  <2>3. symbols[l.label].value = 0
    BY <1>9, <2>1, <2>2 DEF symbolTableResolve
  <2>4. QED BY <1>14, <1>16, <2>3 DEF l, name
<1>17. QED BY <1>15, <1>16

LEMMA InvLinks == AssemblerInv => Linked
<1>1. SUFFICES ASSUME AssemblerInv, Assembled, Settled
               PROVE  /\ \A n \in DOMAIN emitted : LET e == emitted[n] IN
                           \A k \in DOMAIN e.line.operands : LET op == e.line.operands[k] IN
                             op.sym \in DOMAIN symbols =>
                               /\ op.imm = symbols[op.sym].value
                               /\ op.type = "d(PC)" => e.pc + 2 + op.disp = op.imm
                      /\ \A i \in DOMAIN text : LET line == LineAt(i) IN
                           (Kind(line) = "equ" /\ SymbolOf(line) \in DOMAIN symbols) =>
                             symbols[line.label].value =
                               IF \A j \in Definitions(SymbolOf(line)) : j < i
                               THEN symbols[SymbolOf(line)].value ELSE 0
  BY DEF Linked
<1>2. QED BY <1>1, OperandsLinked, EquatesLinked DEF AssemblerInv

LEMMA InvInit == Init => AssemblerInv
<1> SUFFICES ASSUME Init PROVE AssemblerInv
  OBVIOUS
<1>1. /\ text \in Texts /\ origin \in Origins /\ pass = 1 /\ at = 1 /\ pc = origin
      /\ symbols = [name \in {} |-> 0] /\ output = <<>> /\ emitted = <<>>
  BY DEF Init
<1>2. IsText(text) /\ origin \in Nat /\ Len(text) \in Nat
  BY <1>1, AssemblerAssumption DEF IsText
<1>3. Typed
  <2>1. at \in 1 .. Len(text) + 1
    BY <1>1, <1>2
  <2>2. IsTable(symbols)
    BY <1>1, EmptyIsTable
  <2>3. \E n \in Nat : OfLength(output, n)
    BY <1>1, LengthNone
  <2>4. \E n \in Nat : OfLength(emitted, n)
    BY <1>1, LengthNone
  <2>5. pass \in {1, 2} /\ pc \in Nat
    BY <1>1, <1>2
  <2>6. QED BY <1>2, <2>1, <2>2, <2>3, <2>4, <2>5 DEF Typed
<1>4. InFirst
  <2> DEFINE f == [n \in {0} |-> origin]
             g == [n \in {0} |-> [name \in {} |-> 0]]
  <2>1. Goes(f, g, 0)
    BY DEF Goes
  <2>2. at - 1 = 0 /\ f[0] = pc /\ g[0] = symbols
    BY <1>1
  <2> HIDE DEF f, g
  <2>3. QED BY <1>1, <2>1, <2>2 DEF InFirst
<1>5. DOMAIN emitted = {}
  BY <1>1
<1>6. InSecond /\ Entered /\ Laid /\ Placed
  BY <1>1, <1>5 DEF InSecond, Entered, Laid, Placed
<1>7. QED BY <1>3, <1>4, <1>6 DEF AssemblerInv

LEMMA InvNext == AssemblerInv /\ [Next]_vars => AssemblerInv'
<1> SUFFICES ASSUME AssemblerInv, [Next]_vars PROVE AssemblerInv'
  OBVIOUS
<1>1. Typed /\ InFirst /\ InSecond /\ Entered /\ Laid /\ Placed
  BY DEF AssemblerInv
<1>2. CASE Org \/ Equ \/ Collect \/ Emit
  <2>1. Typed' /\ InFirst' /\ InSecond' /\ Entered' /\ Laid' /\ Placed'
    BY <1>1, <1>2, TypedKept, InFirstKept, InSecondKept, EnteredKept, LaidKept, PlacedKept
  <2>2. QED BY <2>1 DEF AssemblerInv
<1>3. CASE SecondPass
  <2>1. /\ pass = 1 /\ at = Len(text) + 1 /\ pass' = 2 /\ at' = 1 /\ pc' = origin
        /\ UNCHANGED <<text, origin, symbols, output, emitted>>
    BY <1>3 DEF SecondPass
  <2>2. output = <<>> /\ emitted = <<>>
    BY <1>1, <2>1 DEF InFirst
  <2>3. Len(text) \in Nat /\ origin \in Nat
    BY <1>1 DEF Typed, IsText
  <2>4. Typed'
    <3>1. at' \in 1 .. Len(text') + 1 /\ pc' \in Nat /\ pass' \in {1, 2}
      BY <2>1, <2>3
    <3>2. QED BY <1>1, <2>1, <3>1 DEF Typed
  <2>5. InFirst'
    BY <2>1 DEF InFirst
  <2>6. InSecond'
    <3>1. PICK f, g : Goes(f, g, Len(text)) /\ symbols = g[Len(text)]
      <4>1. at - 1 = Len(text)
        BY <2>1, <2>3
      <4>2. QED BY <1>1, <2>1, <4>1 DEF InFirst
    <3>2. f[0] = origin
      BY <3>1 DEF Goes
    <3>3. Goes(f, g, Len(text))'
      <4>1. \A k : Goes(f, g, k)' <=> Goes(f, g, k)
        BY <2>1, TextStays
      <4>2. QED BY <2>1, <3>1, <4>1
    <3>4. at' - 1 = 0
      BY <2>1
    <3>5. QED BY <2>1, <3>1, <3>2, <3>3, <3>4 DEF InSecond
  <2>7. DOMAIN emitted' = {}
    BY <2>1, <2>2
  <2>8. Entered' /\ Placed'
    BY <2>7 DEF Entered, Placed
  <2>9. Laid'
    <3>1. pc' \in Reached(at)'
      BY <2>1 DEF Reached
    <3>2. Len(output') = 0 /\ pc' - origin' = 0
      BY <2>1, <2>2, <2>3
    <3>3. QED BY <3>1, <3>2 DEF Laid
  <2>10. QED BY <2>4, <2>5, <2>6, <2>8, <2>9 DEF AssemblerInv
<1>4. CASE UNCHANGED vars
  <2>1. UNCHANGED <<text, origin, pass, at, pc, symbols, output, emitted>>
    BY <1>4 DEF vars
  <2>2. \A i : LineAt(i)' = LineAt(i)
    BY <2>1, TextStays
  <2>3. (Settled' <=> Settled) /\ \A f, g, k : Goes(f, g, k)' <=> Goes(f, g, k)
    BY <2>1, TextStays
  <2>4. \A i : (MovesOrigin(i)' <=> MovesOrigin(i)) /\ OriginOf(i)' = OriginOf(i)
    BY <2>1, TextStays
  <2>5. \A i : Reached(i)' = Reached(i)
    BY <2>1, <2>4 DEF Reached
  <2>6. \A i : Forward(i)' <=> Forward(i)
    BY <2>4, <2>5 DEF Forward
  <2>7. Typed' /\ InFirst' /\ InSecond'
    BY <1>1, <2>1, <2>3 DEF Typed, InFirst, InSecond
  <2>8. Entered'
    BY <1>1, <2>1, <2>2, <2>3 DEF Entered
  <2>9. Laid' /\ Placed'
    BY <1>1, <2>1, <2>5, <2>6 DEF Laid, Placed
  <2>10. QED BY <2>7, <2>8, <2>9 DEF AssemblerInv
<1>5. QED BY <1>2, <1>3, <1>4 DEF Next

\* Both passes place every line alike, whatever the text: in a settled one what stands for a
\* symbol in the code is the value the symbol has at the end, and as long as every ORG goes
\* forward each line lies in the output where its address says (assembler.c).
THEOREM PassesAgreed == Spec => []PassesAgree
<1>1. AssemblerInv => PassesAgree
  BY InvLinks DEF AssemblerInv, PassesAgree
<1>2. QED BY <1>1, InvInit, InvNext, PTL DEF Spec

\* A file that is listed only.
Loaded == text = <<>> /\ pass = 2 /\ at = 1 /\ emitted = <<>>

\* The same of the run's specification, in which a listing may follow the assembly.
THEOREM ListedPassesAgree == ToolSpec => []PassesAgree
<1>1. ToolInit => AssemblerInv \/ Loaded
  BY InvInit DEF ToolInit, Loaded
<1>2. (AssemblerInv \/ Loaded) /\ [ToolNext]_toolVars => (AssemblerInv \/ Loaded)'
  <2> SUFFICES ASSUME AssemblerInv \/ Loaded, [ToolNext]_toolVars
               PROVE  (AssemblerInv \/ Loaded)'
    OBVIOUS
  <2>1. [Next]_vars
    BY DEF ToolNext, Assemble, ListNext, toolVars
  <2>2. CASE AssemblerInv
    BY <2>1, <2>2, InvNext
  <2>3. CASE Loaded
    <3>1. ~(at <= Len(text)) /\ pass # 1
      BY <2>3 DEF Loaded
    <3>2. ~Next
      BY <3>1 DEF Next, SecondPass, Org, Equ, Collect, Emit, NextLine
    <3>3. UNCHANGED vars
      BY <2>1, <3>2
    <3>4. QED BY <2>3, <3>3 DEF Loaded, vars
  <2>4. QED BY <2>2, <2>3
<1>3. AssemblerInv \/ Loaded => PassesAgree
  <2>1. Loaded => PassesAgree
    <3>1. DOMAIN <<>> = {}
      OBVIOUS
    <3>2. QED BY <3>1 DEF Loaded, PassesAgree, Linked, Placed
  <2>2. QED BY <2>1, InvLinks DEF AssemblerInv, PassesAgree
<1>4. QED BY <1>1, <1>2, <1>3, PTL DEF ToolSpec
=============================================================================
