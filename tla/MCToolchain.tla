----------------------------- MODULE MCToolchain -----------------------------
(***************************************************************************)
(* The toolchain on a library of source lines and on every opcode word.    *)
(*                                                                         *)
(* Lines is the instruction set as the 68000's manual writes it, every     *)
(* mnemonic with every size and kind of operand, each line a text of its   *)
(* own; Templates are the lines of which all texts of three are made:      *)
(* labels, references, directives.  The sets of lines and opcodes named    *)
(* below are exact: an equivalence says that outside of them the parts of  *)
(* the toolchain agree, and that inside they do not.                       *)
(***************************************************************************)
EXTENDS Toolchain
LOCAL INSTANCE Functions
LOCAL INSTANCE SequencesExt

----------------------------------------------------------------------------
(* Tokens of a line, as it is written *)

Signs(n) == IF n < 0 THEN <<Mark("-"), Num(-n)>> ELSE <<Num(n)>>
Name(op, n) == IF op.sym = "" THEN Signs(n) ELSE <<Id(op.sym)>>
A(r) == Id(<<"A0", "A1", "A2", "A3", "A4", "A5", "A6", "SP">>[r + 1])
RegisterName(i) == IF i < 8 THEN Id(<<"D0", "D1", "D2", "D3", "D4", "D5", "D6", "D7">>[i + 1])
                   ELSE A(i - 8)
Wrapped(toks) == <<Mark("(")>> \o toks \o <<Mark(")")>>
IndexTokens == <<Mark(","), Id("D1"), Mark("."), Id("W")>>

\* A list of registers as ranges: from the first of each run to the last.
Runs(set) == {p \in set \X set : p[1] <= p[2] /\ p[1] .. p[2] \subseteq set
                /\ p[1] - 1 \notin set /\ p[2] + 1 \notin set}
RECURSIVE RunTokens(_)
RunTokens(runs) ==
  LET p == CHOOSE p \in runs : \A q \in runs : p[1] <= q[1]
      first == IF p[1] = p[2] THEN <<RegisterName(p[1])>>
               ELSE <<RegisterName(p[1]), Mark("-"), RegisterName(p[2])>>
  IN  IF runs = {p} THEN first ELSE first \o <<Mark("/")>> \o RunTokens(runs \ {p})

OperandTokens(op) ==
  CASE op.type = "Dn" -> <<RegisterName(op.reg)>>
    [] op.type = "An" -> <<A(op.reg)>>
    [] op.type = "(An)" -> Wrapped(<<A(op.reg)>>)
    [] op.type = "(An)+" -> Wrapped(<<A(op.reg)>>) \o <<Mark("+")>>
    [] op.type = "-(An)" -> <<Mark("-")>> \o Wrapped(<<A(op.reg)>>)
    [] op.type = "d(An)" -> Name(op, op.disp) \o Wrapped(<<A(op.reg)>>)
    [] op.type = "d(PC)" -> Name(op, op.disp) \o Wrapped(<<Id("PC")>>)
    [] op.type = "d(An,Xn)" -> <<Num(0)>> \o Wrapped(<<A(op.reg)>> \o IndexTokens)
    [] op.type = "d(PC,Xn)" -> <<Num(0)>> \o Wrapped(<<Id("PC")>> \o IndexTokens)
    [] op.type = "abs.W" -> <<Num(op.imm), Mark("."), Id("W")>>
    [] op.type = "abs.L" -> <<Num(op.imm), Mark("."), Id("L")>>
    [] op.type = "#" -> <<Mark("#")>> \o Name(op, op.imm)
    [] op.type = "list" -> RunTokens(Runs(op.list))
    [] op.type = "expr" -> Name(op, op.imm)
    [] OTHER -> <<Id(op.type)>>

SizeTokens(size) == IF size = 0 THEN <<>> ELSE <<Mark("."), Id(<<"B", "W", "", "L">>[size])>>
DataTokens(data) == FlattenSeq([i \in DOMAIN data |->
  (IF i = 1 THEN <<>> ELSE <<Mark(",")>>) \o <<Num(data[i])>>])
OperandsTokens(ops) == FlattenSeq([i \in DOMAIN ops |->
  (IF i = 1 THEN <<>> ELSE <<Mark(",")>>) \o OperandTokens(ops[i])])

Tokens(line) ==
  (IF line.label = "" THEN <<>> ELSE <<Id(line.label), Mark(":")>>)
    \o (IF line.mnemonic = "" THEN <<>> ELSE <<Id(line.mnemonic)>> \o SizeTokens(line.size))
    \o (IF line.data = <<>> THEN OperandsTokens(line.operands) ELSE DataTokens(line.data))
Source(line) == [tokens |-> Tokens(line), written |-> line]

----------------------------------------------------------------------------
(* The instruction set, on registers that differ *)

Sizes3 == {1, 2, 4}
Value(size) == Imm(CASE size = 1 -> 5 [] size = 2 -> 300 [] size = 4 -> 70000)
Memory == {Ind(4), PostInc(4), PreDec(4), Disp(6, 4), Number(4660), Symbol("L"), DispSymbol("L", 4)}
Alterable == Memory \cup {Dn(3)}
ControlEas == {Ind(4), Disp(6, 4), Number(4660), Symbol("L"), PcSymbol("L"), DispSymbol("L", 4)}
Data3(size) == Alterable \cup {PcSymbol("L"), Value(size), ImmSymbol("L")}
AnyEa(size) == Data3(size) \cup {An(5)}

\* Lines of the mnemonics, with sizes, sources by size and destinations.
Each(mnemonics, sizes, Sources(_), destinations) ==
  UNION {{Instr(mn, size, <<s, d>>) : mn \in mnemonics, s \in Sources(size), d \in destinations} :
           size \in sizes}
One(mnemonics, sizes, operands) ==
  {Instr(mn, size, <<op>>) : mn \in mnemonics, size \in sizes, op \in operands}
Two(mnemonics, sizes, sources, destinations) ==
  {Instr(mn, size, <<s, d>>) : mn \in mnemonics, size \in sizes, s \in sources, d \in destinations}
Registers4 == List({0, 1, 2, 9, 14, 15})

Moves ==
  Each({"MOVE"}, Sizes3, AnyEa, Alterable) \cup Each({"MOVEA"}, {2, 4}, AnyEa, {An(6)})
    \cup Two({"MOVEQ"}, {0}, {Imm(5)}, {Dn(1)})
    \cup Two({"MOVEM"}, {2, 4}, {Registers4}, Memory \ {PostInc(4)})
    \cup Two({"MOVEM"}, {2, 4}, (Memory \cup {PcSymbol("L")}) \ {PreDec(4)}, {Registers4})
    \cup Two({"MOVEP"}, {2, 4}, {Dn(1)}, {Disp(6, 4)}) \cup Two({"MOVEP"}, {2, 4}, {Disp(6, 4)}, {Dn(1)})
    \cup Two({"MOVE"}, {0}, Data3(2), {Special("SR"), Special("CCR")})
    \cup Two({"MOVE"}, {0}, {Special("SR")}, Alterable)
    \cup Two({"MOVE"}, {0}, {An(1)}, {Special("USP")}) \cup Two({"MOVE"}, {0}, {Special("USP")}, {An(1)})
    \cup Two({"EXG"}, {0}, {Dn(1), An(1)}, {Dn(2), An(2)})
    \cup Two({"LEA"}, {0}, ControlEas, {An(6)}) \cup One({"PEA", "JMP", "JSR"}, {0}, ControlEas)

Arithmetic ==
  Each(DOMAIN AluReg, Sizes3, AnyEa, {Dn(1)})
    \cup Each(DOMAIN AluReg, Sizes3, LAMBDA size : {Dn(1), Ind(2), Value(size)}, Memory \cup {An(6)})
    \cup Each(DOMAIN AluAddr, {2, 4}, AnyEa, {An(6)})
    \cup Each(DOMAIN AluImm \cup DOMAIN StatusImm, Sizes3, LAMBDA size : {Value(size)}, Alterable)
    \cup Two(DOMAIN StatusImm, {0}, {Imm(5)}, {Special("SR"), Special("CCR")})
    \cup Two(DOMAIN Quick, Sizes3, {Imm(1), Imm(8)}, Alterable \cup {An(2)})
    \cup Two({"EOR"}, Sizes3, {Dn(1)}, Alterable)
    \cup UNION {Two(DOMAIN Extended, Sizes3, {p[1]}, {p[2]}) \cup Two(DOMAIN Bcd, {0}, {p[1]}, {p[2]}) :
                  p \in {<<Dn(1), Dn(2)>>, <<PreDec(1), PreDec(2)>>}}
    \cup Two({"CMPM"}, Sizes3, {PostInc(1)}, {PostInc(2)})
    \cup Two(DOMAIN MulDiv \cup {"CHK"}, {2}, Data3(2), {Dn(1)})
    \cup One(DOMAIN Unary, Sizes3, Alterable) \cup One({"NBCD", "TAS"} \cup DOMAIN Sets, {0}, Alterable)
    \cup Two(DOMAIN Shift, Sizes3, {Dn(1), Imm(8), Imm(3)}, {Dn(2)}) \cup One(DOMAIN Shift, {2}, Memory)
    \cup Two(DOMAIN BitOp, {0}, {Dn(1), Imm(5)}, Alterable)
    \cup One({"SWAP"}, {0}, {Dn(1)}) \cup One({"EXT"}, {2, 4}, {Dn(1)})

Controls ==
  One(DOMAIN Branches, {0, 1}, {Symbol("L")}) \cup Two(DOMAIN Loops, {0}, {Dn(1)}, {Symbol("L")})
    \cup Two({"LINK"}, {0}, {An(6)}, {Imm(8)}) \cup One({"UNLK"}, {0}, {An(6)})
    \cup One({"TRAP"}, {0}, {Imm(3)}) \cup One({"STOP"}, {0}, {Imm(8192)})
    \cup {Instr(mn, 0, <<>>) : mn \in DOMAIN FixedWord}

\* Written as manuals allow, but not as this parser reads.
Unread ==
  Two({"MOVE"}, {1}, {Index(0, 4096), PcIndex(4096), AbsShort(16), AbsLong(16), Disp(-4, 6), Imm(-1),
                      PcDisp(8)}, {Dn(1)})
    \cup Two({"MOVE"}, {1}, {Dn(1)}, {AbsLong(16), Disp(-4, 6)})

\* Branches to a number, at the ends of their reach: the line is at 64.
Far ==
  One({"BRA", "BNE"}, {0, 1}, {Number(n) : n \in {65, 66, 67, 193, 194, 32833, 32834}})
    \cup Two({"DBRA"}, {0}, {Dn(1)}, {Number(n) : n \in {66, 32833, 32834}})

Lines == Moves \cup Arithmetic \cup Controls \cup Far \cup Unread
Single == {<<Source([line EXCEPT !.label = "L"])>> : line \in Lines}

----------------------------------------------------------------------------
(* Texts of three lines: labels, references, directives *)

Directive(mnemonic, size, operands) == Instr(mnemonic, size, operands)
Label(name, line) == [line EXCEPT !.label = name]
Templates ==
  {Label("L", Instr("NOP", 0, <<>>)), Label("L", Instr("", 0, <<>>)),
   Label("K", Directive("EQU", 0, <<Number(3)>>)), Label("K", Directive("EQU", 0, <<Symbol("L")>>)),
   Directive("ORG", 0, <<Number(80)>>), Directive("ORG", 0, <<Number(60)>>),
   Line("", "DC", 1, <<>>, <<1>>), Directive("DC", 1, <<Symbol("L")>>),
   Directive("DS", 1, <<Number(1)>>), Directive("DS", 1, <<Symbol("K")>>),
   Directive("EVEN", 0, <<>>), Directive("ALIGN", 0, <<Number(4)>>),
   Directive("ALIGN", 0, <<Symbol("K")>>), Directive("END", 0, <<>>),
   Instr("BRA", 0, <<Symbol("L")>>), Instr("BSR", 1, <<Symbol("L")>>),
   Instr("DBRA", 0, <<Dn(0), Symbol("L")>>), Instr("LEA", 0, <<PcSymbol("L"), An(0)>>)}
Triples == {<<Source(a), Source(b), Source(c)>> : a \in Templates, b \in Templates, c \in Templates}

\* A label in the first column, as assemblers take it: here it needs its colon.
Bare == [tokens |-> <<Id("K"), Id("EQU"), Num(3)>>,
         written |-> Label("K", Directive("EQU", 0, <<Number(3)>>))]

MCTexts == Single \cup Triples \cup {<<Bare>>}
MCOrigins == {64}
MCImages == {<<w, 4, 4, 4, 4>> : w \in 0 .. 65535}

----------------------------------------------------------------------------
(* What a mnemonic means to the CPU *)

Operations ==
  [MOVEQ |-> {"instrMoveq"}, MOVEA |-> {"instrMovea"}, LEA |-> {"instrLea"}, PEA |-> {"instrPea"},
   MOVEM |-> {"instrMovemRegToMem", "instrMovemMemToReg"}, MOVEP |-> {"instrMovep"},
   SWAP |-> {"instrSwap"}, EXG |-> {"instrExg"}, LINK |-> {"instrLink"}, UNLK |-> {"instrUnlk"},
   MOVE |-> {"instrMove", "instrMoveFromSr", "instrMoveToSr", "instrMoveToCcr", "instrMoveUsp"},
   ADD |-> {"instrAdd"}, ADDA |-> {"instrAdda"}, ADDI |-> {"instrAddi"}, ADDQ |-> {"instrAddq"},
   ADDX |-> {"instrAddx"}, SUB |-> {"instrSub"}, SUBA |-> {"instrSuba"}, SUBI |-> {"instrSubi"},
   SUBQ |-> {"instrSubq"}, SUBX |-> {"instrSubx"}, MULU |-> {"instrMulu"},
   MULS |-> {"instrMuls"}, DIVU |-> {"instrDivu"}, DIVS |-> {"instrDivs"}, NEG |-> {"instrNeg"},
   NEGX |-> {"instrNegx"}, CLR |-> {"instrClr"}, CMP |-> {"instrCmp"}, CMPA |-> {"instrCmpa"},
   CMPI |-> {"instrCmpi"}, CMPM |-> {"instrCmpm"}, EXT |-> {"instrExt"}, TST |-> {"instrTst"},
   AND |-> {"instrAnd"}, OR |-> {"instrOr"}, EOR |-> {"instrEor"}, NOT |-> {"instrNot"},
   ANDI |-> {"instrAndi", "instrAndiCcr", "instrAndiSr"},
   ORI |-> {"instrOri", "instrOriCcr", "instrOriSr"},
   EORI |-> {"instrEori", "instrEoriCcr", "instrEoriSr"},
   BTST |-> {"instrBtstStatic", "instrBtstDyn"}, BCHG |-> {"instrBchgStatic", "instrBchgDyn"},
   BCLR |-> {"instrBclrStatic", "instrBclrDyn"}, BSET |-> {"instrBsetStatic", "instrBsetDyn"},
   JMP |-> {"instrJmp"}, JSR |-> {"instrJsr"}, RTS |-> {"instrRts"}, RTE |-> {"instrRte"},
   RTR |-> {"instrRtr"}, ABCD |-> {"instrAbcd"}, SBCD |-> {"instrSbcd"}, NBCD |-> {"instrNbcd"},
   NOP |-> {"instrNop"}, RESET |-> {"instrReset"}, STOP |-> {"instrStop"},
   ILLEGAL |-> {"instrIllegal"}, TRAP |-> {"instrTrap"}, TRAPV |-> {"instrTrapv"},
   CHK |-> {"instrChk"}, TAS |-> {"instrTas"}]

Means(mnemonic) ==
  CASE mnemonic \in DOMAIN Operations -> Operations[mnemonic]
    [] mnemonic \in DOMAIN Branches -> {"instrBcc"}
    [] mnemonic \in DOMAIN Loops -> {"instrDbcc"}
    [] mnemonic \in DOMAIN Sets -> {"instrScc"}
    [] mnemonic \in DOMAIN Shift -> {"shiftRegister", "shiftMemory"}
    [] OTHER -> {}


\* The CPU executes code[1] as the mnemonic says, and fetches that many words.
ExecutedAs(mnemonic, words, code) ==
  LET op == Fields(code[1])
  IN  Handler(op) \in Means(mnemonic) /\ 1 + Fetched(Handler(op), op) = words

WordsOf(bytes) == [k \in 1 .. Len(bytes) \div 2 |-> 256 * bytes[2 * k - 1] + bytes[2 * k]]
Instructions == {i \in DOMAIN emitted : Means(emitted[i].line.mnemonic) # {} /\ emitted[i].bytes # <<>>}

IsBranch(line) == Means(line.mnemonic) \in {{"instrBcc"}, {"instrDbcc"}}

\* What a listing shows of an operand; a branch's is its target.
ShownAs(line, op) ==
  CASE op.type = "expr" -> IF IsBranch(line) THEN Number(op.imm) ELSE AbsLong(op.imm)
    [] op.type = "d(PC)" -> PcDisp(op.disp)
    [] OTHER -> [op EXCEPT !.sym = ""]
ListsAs(listing, line, words) ==
  /\ listing.words = words
  /\ listing.mnemonic = line.mnemonic
  /\ listing.size = line.size \/ IsBranch(line)
  /\ listing.operands = [i \in DOMAIN line.operands |-> ShownAs(line, line.operands[i])]

----------------------------------------------------------------------------
(* Where the parts disagree *)

\* Instructions whose entries in the CPU's table a later registration overwrites:
\* it executes them as BTST..BSET Dn,An; EOR Dn,An; AND; and TAS #.
Shadowed == {"MOVEP", "CMPM", "EXG", "ILLEGAL"}

\* ADD, SUB, AND, OR, CMP with another destination than Dn, which the encoder does
\* not turn into ADDI, ADDA, CMPM...: it encodes the register number of the source
\* (0 for a number) as a data register, whatever the source is.
Untranslated(line) ==
  /\ line.mnemonic \in DOMAIN AluReg
  /\ D(line).type # "Dn"
  /\ S(line).type # "Dn" \/ D(line).type = "An" \/ line.mnemonic = "CMP"

\* A branch's displacement; the short form has no zero, for that means a word follows.
Displacement(e) == Last(e.line.operands).imm - (e.pc + 2)
IsShort(e) == e.line.mnemonic \in DOMAIN Branches /\ e.line.size = 1
ShortZero(e) == IsShort(e) /\ Displacement(e) % 256 = 0
OutOfReach(e) ==
  IsBranch(e.line) /\ Displacement(e) \notin (IF IsShort(e) THEN -128 .. 127 ELSE -32768 .. 32767)

\* Listed with its operand called CCR, as CMPM, with its registers swapped, or
\* under the condition's other name.
Mislisted(line) ==
  \/ line.mnemonic \in DOMAIN StatusImm /\ D(line).type = "SR"
  \/ line.mnemonic = "CMPA" /\ line.size = 4 /\ S(line).type = "An"
  \/ line.mnemonic = "EXG" /\ S(line).type = "An" /\ D(line).type = "Dn"
  \/ line.mnemonic \in {"DBRA", "BHS", "BLO", "DBHS", "DBLO", "SHS", "SLO"}

\* Index registers, sizes of addresses, negative numbers and n(PC) are lost.
Unreadable(op) ==
  \/ op.type \in {"d(An,Xn)", "d(PC,Xn)", "abs.W", "abs.L"}
  \/ op.type = "d(PC)" /\ op.sym = ""
  \/ op.imm < 0

----------------------------------------------------------------------------
(* Properties *)

\* The parser reads a line of every mnemonic and kind of operand as it was written, unless
\* it has an operand that it cannot read or a label without its colon (parser.c).
ReadAsWritten ==
  pass = 1 /\ at <= Len(text) =>
    LET line == text[at].written
    IN  Current = line <=> /\ \A op \in Range(line.operands) : ~Unreadable(op)
                           /\ line.label = "" \/ text[at].tokens[2].kind = ":"

\* What the encoder emits for a line is executed by the handler of the line's mnemonic, which
\* fetches exactly the words of the line: but for the shadowed instructions, and a short
\* branch of displacement 0 (encoder.c against the CPU's table, opcodes.c).
ExecutedAsWritten ==
  \A i \in Instructions : LET e == emitted[i] IN
    i = Len(emitted) /\ ~Untranslated(e.line) =>
      (ExecutedAs(e.line.mnemonic, Len(e.bytes) \div 2, WordsOf(e.bytes))
         <=> e.line.mnemonic \notin Shadowed /\ ~ShortZero(e))

\* When disasmRange comes to what was emitted for a line, at the address it was assembled
\* for, it lists that line, operands and branch target: but for the sets above, and for a
\* branch to a target that its displacement cannot reach, which the encoder cuts.
ListedAsWritten ==
  \A i \in Instructions : LET e == emitted[i] IN
    Assembled /\ e.offset = offset /\ e.pc = origin + offset /\ ~Untranslated(e.line) =>
      (ListsAs(Listed, e.line, Len(e.bytes) \div 2)
         <=> ~(Mislisted(e.line) \/ ShortZero(e) \/ OutOfReach(e)))

\* Of every opcode word that the CPU executes, the disassembler names the operation that
\* executes it and takes as many words as the CPU fetches, so that a listing keeps in step
\* with execution: but for the shadowed instructions, CMPA.L An, and immediate operations
\* on an immediate, which the CPU executes and the listing takes for ones on CCR.
ListingFollowsExecution ==
  (text = <<>> /\ offset = 0) =>
    LET op == Fields(CodeAt(0)[1])
        h == Handler(op)
        toImmediate == op.line = 0 /\ op.o < 3 /\ op.x # 4 /\ op.m = 7 /\ op.r = 4
        toStatus == op.x \in {0, 1, 5} /\ op.o < 2
        addressAsCmpm == op.line = 11 /\ op.o = 7 /\ op.m = 1
    IN  h \notin {"handleIllegal", "handleLineA", "handleLineF"} =>
          (ExecutedAs(Listed.mnemonic, Listed.words, CodeAt(0))
             <=> /\ Listed.mnemonic \notin Shadowed /\ ~addressAsCmpm
                 /\ toImmediate => toStatus)

\* A listing shows the text that was assembled and what the CPU will do, but for the sets named
\* above (disassembler.c against encoder.c and opcodes.c).
ListingAgrees == ListedAsWritten /\ ListingFollowsExecution
=============================================================================
