------------------------------ MODULE Assembler ------------------------------
(***************************************************************************)
(* The two-pass assembler (src/src/assembler/assembler.c, directives.c,    *)
(* symbols.c): both passes parse every line again, define its label at the *)
(* pc, give its operands the values their symbols have by then, and move   *)
(* the pc by its size; the second one emits.  It calls the parser and the  *)
(* encoder.                                                                *)
(*                                                                         *)
(* A line of the text is its tokens and, as a history, the line its author *)
(* has written with them; emitted is another one: what the second pass has *)
(* encoded, at which pc and offset, from which line of resolved operands.  *)
(***************************************************************************)
EXTENDS Encoder, Parser

CONSTANTS Texts, Origins

\* What the lexer makes of a line; the history is not looked at.
Lexed == [kind : STRING \ {"str"}, text : STRING, num : Nat]
           \cup [kind : {"str"}, text : STRING, num : Nat, bytes : Seq(0 .. 255)]
IsText(t) == /\ Len(t) \in Nat /\ DOMAIN t = 1 .. Len(t)
             /\ \A i \in DOMAIN t : t[i].tokens \in Seq(Lexed)
ASSUME AssemblerAssumption == Origins \subseteq Nat /\ \A t \in Texts : IsText(t)

VARIABLES text, origin, pass, at, pc, symbols, output, emitted
vars == <<text, origin, pass, at, pc, symbols, output, emitted>>

----------------------------------------------------------------------------
(* Symbols: a partial function from names to a value and its kind. *)

\* A symbol that EQU defined keeps its value, whoever defines it again.
symbolTableDefineKind(table, name, value, kind) ==
  IF name \in DOMAIN table /\ table[name].kind = "equ" THEN table
  ELSE [n \in DOMAIN table \cup {name} |->
          IF n = name THEN [value |-> value, kind |-> kind] ELSE table[n]]

\* A symbol without a value leaves the operand as it was parsed.
symbolTableResolve(table, name, default) ==
  IF name \in DOMAIN table THEN table[name].value ELSE default

Resolved(op, table, here) ==
  IF op.sym \notin DOMAIN table THEN op
  ELSE LET value == table[op.sym].value
       IN CASE op.type = "d(PC)" -> [op EXCEPT !.imm = value, !.disp = value - (here + 2)]
            [] op.type = "d(An)" -> [op EXCEPT !.imm = value, !.disp = value]
            [] OTHER -> [op EXCEPT !.imm = value]
ResolvedLine(line, table, here) ==
  [line EXCEPT !.operands = [i \in DOMAIN @ |-> Resolved(@[i], table, here)]]

----------------------------------------------------------------------------
(* Directives: the bytes of a line; ORG and EQU are the passes' own. *)

\* The low bytes of values, each with the highest first.
Blocks(values, size) ==
  [k \in 1 .. size * Len(values) |->
     (values[(k - 1) \div size + 1] \div 256^(size - 1 - ((k - 1) % size))) % 256]
ItemSize(line) == IF line.size = 0 THEN 2 ELSE line.size
Filled(count, byte) == [i \in 1 .. count |-> byte]
FirstOperand(line) == IF line.operands = <<>> THEN NoOperand ELSE line.operands[1]
Count(line, default) == IF line.operands = <<>> THEN default ELSE line.operands[1].imm

\* Symbols count only where there are no numbers or strings, and then only the first.
dirDC(line) ==
  IF line.data # <<>> \/ line.operands = <<>>
  THEN Blocks(line.data, ItemSize(line)) ELSE Blocks(<<line.operands[1].imm>>, ItemSize(line))
dirDS(line) == Filled(Count(line, 0) * ItemSize(line), 0)
dirEven(here) == Filled(here % 2, 0)
dirAlign(line, here) ==
  LET asked == Count(line, 2)
      alignment == IF asked = 0 THEN 1 ELSE asked
  IN  Filled((alignment - (here % alignment)) % alignment, 0)

\* A mutant of the next: EVEN has no size until it is emitted.
EvenOnlyEmitted(line, here, p) ==
  CASE line.mnemonic = "DC" -> dirDC(line) [] line.mnemonic = "DS" -> dirDS(line)
    [] line.mnemonic = "EVEN" /\ p = 2 -> dirEven(here)
    [] line.mnemonic = "ALIGN" -> dirAlign(line, here) [] OTHER -> <<>>

\* The passes p differ in whether the bytes are written, and not in their number.
directiveProcess(line, here, p) ==
  CASE line.mnemonic = "DC" -> dirDC(line) [] line.mnemonic = "DS" -> dirDS(line)
    [] line.mnemonic = "EVEN" -> dirEven(here)
    [] line.mnemonic = "ALIGN" -> dirAlign(line, here) [] OTHER -> <<>>

\* bufferWriteU16BE, for every word of an instruction.
BytesOf(words) == Blocks(words, 2)

\* encoderCalcSize in the first pass, encoderEncode in the second.
Encoded(line, here, p) ==
  IF IsDirective(line) THEN directiveProcess(line, here, p)
  ELSE BytesOf(encoderEncode(line, here))

----------------------------------------------------------------------------
(* The passes *)

\* asmSetOrigin and the start of asmAssembleString.
Init == /\ text \in Texts /\ origin \in Origins
        /\ pass = 1 /\ at = 1 /\ pc = origin
        /\ symbols = [name \in {} |-> 0] /\ output = <<>> /\ emitted = <<>>

\* No line can be both an ORG and an EQU; an EQU without a label is any directive.
Kind(line) == CASE line.mnemonic = "ORG" -> "org"
                [] line.mnemonic = "EQU" /\ line.label # NoName -> "equ"
                [] OTHER -> "line"

\* asmParserParseLine, once more in each pass.
LineAt(i) == asmParserParseLine(text[i].tokens)
Current == LineAt(at)
NextLine(kind) ==
  /\ at <= Len(text)
  /\ Kind(Current) = kind
  /\ at' = at + 1
  /\ UNCHANGED <<text, origin, pass>>

Padding(from, to) == IF to > from THEN Filled(to - from, 255) ELSE <<>>

\* ORG: its label is not defined, its symbol not looked up; a gap is filled
\* with $FF, and a step back goes on writing behind what is there.
Org ==
  /\ NextLine("org")
  /\ pc' = Count(Current, pc)
  /\ output' = output \o (IF pass = 2 THEN Padding(pc, pc') ELSE <<>>)
  /\ UNCHANGED <<symbols, emitted>>

\* EQU: the value of the operand, or of its symbol if that has one yet.
Equ ==
  /\ NextLine("equ")
  /\ LET op == FirstOperand(Current)
     IN  symbols' = symbolTableDefineKind(symbols, Current.label,
                                          symbolTableResolve(symbols, op.sym, op.imm), "equ")
  /\ UNCHANGED <<pc, output, emitted>>

Defined(line) ==
  IF line.label = NoName THEN symbols ELSE symbolTableDefineKind(symbols, line.label, pc, "label")

Collect ==
  /\ pass = 1
  /\ NextLine("line")
  /\ symbols' = Defined(Current)
  /\ pc' = pc + Len(Encoded(ResolvedLine(Current, symbols', pc), pc, 1))
  /\ UNCHANGED <<output, emitted>>

Emit ==
  /\ pass = 2
  /\ NextLine("line")
  /\ symbols' = Defined(Current)
  /\ LET resolved == ResolvedLine(Current, symbols', pc)
         bytes == Encoded(resolved, pc, 2)
     IN  /\ pc' = pc + Len(bytes)
         /\ output' = output \o bytes
         /\ emitted' = Append(emitted, [at |-> at, pc |-> pc, offset |-> Len(output),
                                        line |-> resolved, bytes |-> bytes])

\* The second pass begins again at the origin, with the symbols of the first.
SecondPass ==
  /\ pass = 1 /\ at = Len(text) + 1
  /\ pass' = 2 /\ at' = 1 /\ pc' = origin
  /\ UNCHANGED <<text, origin, symbols, output, emitted>>

Next == SecondPass \/ Org \/ Equ \/ Collect \/ Emit
Spec == Init /\ [][Next]_vars
Assembled == pass = 2 /\ at = Len(text) + 1

----------------------------------------------------------------------------
(* Properties *)

\* Lines that define a name; ORG's label is not defined.
Definitions(name) ==
  {i \in DOMAIN text : LineAt(i).label = name /\ Kind(LineAt(i)) # "org"}
SymbolOf(line) == FirstOperand(line).sym

\* Every name is defined once, and before a line whose size depends on it.
Settled ==
  \A i \in DOMAIN text : LET line == LineAt(i) IN
    /\ (line.label # NoName /\ Kind(line) # "org") => Definitions(line.label) = {i}
    /\ (line.mnemonic \in {"DS", "ALIGN"} /\ SymbolOf(line) # NoName) =>
         \A j \in Definitions(SymbolOf(line)) : j < i

\* In a settled text both passes place every line alike: what the second pass has put in for a
\* symbol, before its definition or behind it, is the value the symbol has at the end, and a
\* PC-relative operand leads there.  An EQU has its symbol's value, or 0 if that is defined
\* further down (assembler.c).
Linked ==
  Assembled /\ Settled =>
    /\ \A n \in DOMAIN emitted : LET e == emitted[n] IN
         \A k \in DOMAIN e.line.operands : LET op == e.line.operands[k] IN
           op.sym \in DOMAIN symbols =>
             /\ op.imm = symbols[op.sym].value
             /\ op.type = "d(PC)" => e.pc + 2 + op.disp = op.imm
    /\ \A i \in DOMAIN text : LET line == LineAt(i) IN
         (Kind(line) = "equ" /\ SymbolOf(line) \in DOMAIN symbols) =>
           symbols[line.label].value =
             IF \A j \in Definitions(SymbolOf(line)) : j < i
             THEN symbols[SymbolOf(line)].value ELSE 0

MovesOrigin(i) == Kind(LineAt(i)) = "org" /\ LineAt(i).operands # <<>>
OriginOf(i) == LineAt(i).operands[1].imm
\* Where the lines before i have got to.
Reached(i) ==
  {origin} \cup {OriginOf(j) : j \in {j \in 1 .. i - 1 : MovesOrigin(j)}}
    \cup {emitted[n].pc + Len(emitted[n].bytes) : n \in {n \in DOMAIN emitted : emitted[n].at < i}}
Forward(i) == \A j \in 1 .. i - 1 : MovesOrigin(j) => \A a \in Reached(j) : OriginOf(j) >= a

\* As long as every ORG has gone forward, each line lies in the output as far behind its start
\* as its address behind the origin: the image can be loaded there (assembler.c).
Placed == \A n \in DOMAIN emitted :
  Forward(emitted[n].at) => emitted[n].offset = emitted[n].pc - origin

\* The second pass puts lines, and symbols in them, where the first has counted them
\* (assembler.c).
PassesAgree == Linked /\ Placed
=============================================================================
