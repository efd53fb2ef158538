---------------------------- MODULE Disassembler ----------------------------
(***************************************************************************)
(* The disassembler (src/src/disassembler/disassembler.c): the line listed *)
(* for the words at an address, and how many words it takes for it.  Its   *)
(* decoding is its own: it shares no table with the CPU's decoder nor with *)
(* the assembler's encoder.                                                *)
(***************************************************************************)
EXTENDS AsmLine, Decoder

Signed(w) == IF w >= 32768 THEN w - 65536 ELSE w
SignedByte(b) == IF b >= 128 THEN b - 256 ELSE b
LongAt(code, i) == 65536 * code[i] + code[i + 1]

\* sizeChar: the size field 3 is printed as no size at all.
SizeOf(field) == <<1, 2, 4, 0>>[field + 1]

Listing(mnemonic, size, operands, words) ==
  [mnemonic |-> mnemonic, size |-> size, operands |-> operands, words |-> words]

----------------------------------------------------------------------------
(* An effective address whose extension words begin at code[i].            *)

Shown(operand, words) == [operand |-> operand, words |-> words]
SimpleModes == <<"Dn", "An", "(An)", "(An)+", "-(An)">>

\* A mutant of the next: long immediate data is listed as a word.
ShortImmediate(size, code, i) == Shown(Imm(code[i]), 1)
formatImmediate(size, code, i) ==
  IF size = 4 THEN Shown(Imm(LongAt(code, i)), 2) ELSE Shown(Imm(code[i]), 1)

formatEA(m, r, size, code, i) ==
  CASE m < 5 -> Shown(Of(SimpleModes[m + 1], r), 0)
    [] m = 5 -> Shown(Disp(Signed(code[i]), r), 1)
    [] m = 6 -> Shown(Index(r, code[i]), 1)
    [] m = 7 /\ r = 0 -> Shown(AbsShort(code[i]), 1)
    [] m = 7 /\ r = 1 -> Shown(AbsLong(LongAt(code, i)), 2)
    [] m = 7 /\ r = 2 -> Shown(PcDisp(Signed(code[i])), 1)
    [] m = 7 /\ r = 3 -> Shown(PcIndex(code[i]), 1)
    [] m = 7 /\ r = 4 -> formatImmediate(size, code, i)
    [] OTHER -> Shown(Special("???"), 0)

\* The address in the opcode's low bits between the operands before and after
\* it, when the opcode is followed by n words of its own.
Around(mnemonic, size, before, eaSize, after, op, code, n) ==
  LET e == formatEA(op.m, op.r, eaSize, code, 2 + n)
  IN  Listing(mnemonic, size, before \o <<e.operand>> \o after, 1 + n + e.words)

To(mnemonic, size, eaSize, after, op, code) ==
  Around(mnemonic, size, <<>>, eaSize, <<after>>, op, code, 0)
From(mnemonic, size, before, eaSize, op, code) ==
  Around(mnemonic, size, <<before>>, eaSize, <<>>, op, code, 0)
Only(mnemonic, size, eaSize, op, code) ==
  Around(mnemonic, size, <<>>, eaSize, <<>>, op, code, 0)
Data(op) == Listing("DC", 2, <<WordOf(op)>>, 1)

\* Two registers, or two of the mode that bit 3 chooses, the opcode's low register first.
Pair(mnemonic, size, op, memory) ==
  Listing(mnemonic, size, IF op.m % 2 = 1 THEN <<memory[op.r], memory[op.x]>>
                          ELSE <<Dn(op.r), Dn(op.x)>>, 1)
PreDecs == [r \in 0 .. 7 |-> PreDec(r)]
PostIncs == [r \in 0 .. 7 |-> PostInc(r)]

----------------------------------------------------------------------------
(* Groups *)

BitNames == <<"BTST", "BCHG", "BCLR", "BSET">>
ImmediateNames == <<"ORI", "ANDI", "SUBI", "ADDI", "???", "EORI", "CMPI", "???">>

listMovep(op, code) ==
  LET address == Disp(Signed(code[2]), op.r)
      size == IF op.o % 2 = 1 THEN 4 ELSE 2
  IN  Listing("MOVEP", size, IF op.o >= 6 THEN <<Dn(op.x), address>> ELSE <<address, Dn(op.x)>>, 2)

\* The test for SR compares six bits with seven, so it never holds: what is
\* written to SR is listed as written to CCR.
listImmediate(op, code) ==
  LET name == ImmediateNames[op.x + 1]
      size == SizeOf(op.o)
  IN  IF op.m = 7 /\ op.r = 4
      THEN Listing(name, 0, <<Imm(code[2] % 256), Special("CCR")>>, 2)
      ELSE IF size = 4
      THEN Around(name, size, <<Imm(LongAt(code, 2))>>, size, <<>>, op, code, 2)
      ELSE Around(name, size, <<Imm(code[2])>>, size, <<>>, op, code, 1)

disasmGroup0(op, code) ==
  CASE op.o >= 4 /\ op.m = 1 -> listMovep(op, code)
    [] op.o >= 4 -> From(BitNames[op.o - 3], 0, Dn(op.x), 1, op, code)
    [] op.x = 4 -> Around(BitNames[op.o + 1], 0, <<Imm(code[2] % 256)>>, 1, <<>>, op, code, 1)
    [] op.o # 3 -> listImmediate(op, code)
    [] OTHER -> Data(op)

BitsOf(word) == {i \in 0 .. 15 : (word \div 2^i) % 2 = 1}
listMovem(op, code) ==
  LET size == IF op.o = 3 THEN 4 ELSE 2
      toMemory == op.x = 4
      bits == BitsOf(code[2])
      regs == List(IF toMemory /\ op.m = 4 THEN {15 - i : i \in bits} ELSE bits)
  IN  Around("MOVEM", size, IF toMemory THEN <<regs>> ELSE <<>>, size,
             IF toMemory THEN <<>> ELSE <<regs>>, op, code, 1)

\* Opcodes $4E40 to $4E7F.
ControlNames == <<"RESET", "NOP", "STOP", "RTE", "", "RTS", "TRAPV", "RTR">>
listControl(op, code) ==
  CASE op.m \in {0, 1} -> Listing("TRAP", 0, <<Imm(LowByte(op) % 16)>>, 1)
    [] op.m = 2 -> Listing("LINK", 0, <<An(op.r), Imm(Signed(code[2]))>>, 2)
    [] op.m = 3 -> Listing("UNLK", 0, <<An(op.r)>>, 1)
    [] op.m = 4 -> Listing("MOVE", 0, <<An(op.r), Special("USP")>>, 1)
    [] op.m = 5 -> Listing("MOVE", 0, <<Special("USP"), An(op.r)>>, 1)
    [] op.m = 6 /\ op.r = 2 -> Listing("STOP", 0, <<Imm(code[2])>>, 2)
    [] op.m = 6 /\ op.r # 4 -> Listing(ControlNames[op.r + 1], 0, <<>>, 1)
    [] OTHER -> Data(op)

disasmGroup4(op, code) ==
  LET At(x, o) == op.x = x /\ op.o = o
      Sizes(x) == op.x = x /\ op.o < 4
      size == SizeOf(op.o % 4)
  IN CASE At(7, 1) -> listControl(op, code)
       [] At(5, 3) /\ op.m = 7 /\ op.r = 4 -> Listing("ILLEGAL", 0, <<>>, 1)
       [] At(4, 1) /\ op.m = 0 -> Listing("SWAP", 0, <<Dn(op.r)>>, 1)
       [] At(4, 2) /\ op.m = 0 -> Listing("EXT", 2, <<Dn(op.r)>>, 1)
       [] At(4, 3) /\ op.m = 0 -> Listing("EXT", 4, <<Dn(op.r)>>, 1)
       [] op.x \in {4, 6} /\ op.o \in {2, 3} -> listMovem(op, code)
       [] At(4, 1) -> Only("PEA", 0, 4, op, code)
       [] op.o = 7 -> To("LEA", 0, 4, An(op.x), op, code)
       [] op.o = 6 -> To("CHK", 2, 2, Dn(op.x), op, code)
       [] At(7, 3) -> Only("JMP", 0, 4, op, code)
       [] At(7, 2) -> Only("JSR", 0, 4, op, code)
       [] At(0, 3) -> From("MOVE", 0, Special("SR"), 2, op, code)
       [] At(2, 3) -> To("MOVE", 0, 2, Special("CCR"), op, code)
       [] At(3, 3) -> To("MOVE", 0, 2, Special("SR"), op, code)
       [] At(4, 0) -> Only("NBCD", 0, 1, op, code)
       [] At(5, 3) -> Only("TAS", 0, 1, op, code)
       [] Sizes(5) -> Only("TST", size, size, op, code)
       [] Sizes(1) -> Only("CLR", size, size, op, code)
       [] Sizes(2) -> Only("NEG", size, size, op, code)
       [] Sizes(0) -> Only("NEGX", size, size, op, code)
       [] Sizes(3) -> Only("NOT", size, size, op, code)
       [] OTHER -> Data(op)

\* An operation into a data register, or from it where bit 8 is set.
listDyadic(mnemonic, op, code) ==
  LET size == SizeOf(op.o % 4)
  IN  IF op.o >= 4 THEN From(mnemonic, size, Dn(op.x), size, op, code)
      ELSE To(mnemonic, size, size, Dn(op.x), op, code)
listAddress(mnemonic, op, code) ==
  LET size == IF op.o = 7 THEN 4 ELSE 2 IN To(mnemonic, size, size, An(op.x), op, code)

disasmGroup8(op, code) ==
  CASE op.o = 4 /\ op.m \in {0, 1} -> Pair("SBCD", 0, op, PreDecs)
    [] op.o = 3 -> To("DIVU", 2, 2, Dn(op.x), op, code)
    [] op.o = 7 -> To("DIVS", 2, 2, Dn(op.x), op, code)
    [] OTHER -> listDyadic("OR", op, code)

\* Groups 9 and D.
disasmAddSub(plain, address, extended, op, code) ==
  CASE op.o \in {4, 5, 6} /\ op.m \in {0, 1} -> Pair(extended, SizeOf(op.o % 4), op, PreDecs)
    [] op.o \in {3, 7} -> listAddress(address, op, code)
    [] OTHER -> listDyadic(plain, op, code)
disasmGroup9(op, code) == disasmAddSub("SUB", "SUBA", "SUBX", op, code)
disasmGroupD(op, code) == disasmAddSub("ADD", "ADDA", "ADDX", op, code)

\* The test for CMPM takes the words of CMPA.L from an address register too.
disasmGroupB(op, code) ==
  CASE op.o >= 4 /\ op.m = 1 -> Pair("CMPM", SizeOf(op.o % 4), op, PostIncs)
    [] op.o \in {3, 7} -> listAddress("CMPA", op, code)
    [] op.o >= 4 -> listDyadic("EOR", op, code)
    [] OTHER -> listDyadic("CMP", op, code)

disasmGroupC(op, code) ==
  CASE op.o = 4 /\ op.m \in {0, 1} -> Pair("ABCD", 0, op, PreDecs)
    [] op.o = 5 /\ op.m = 0 -> Listing("EXG", 0, <<Dn(op.x), Dn(op.r)>>, 1)
    [] op.o = 5 /\ op.m = 1 -> Listing("EXG", 0, <<An(op.x), An(op.r)>>, 1)
    [] op.o = 6 /\ op.m = 1 -> Listing("EXG", 0, <<Dn(op.x), An(op.r)>>, 1)
    [] op.o = 3 -> To("MULU", 2, 2, Dn(op.x), op, code)
    [] op.o = 7 -> To("MULS", 2, 2, Dn(op.x), op, code)
    [] OTHER -> listDyadic("AND", op, code)

RightNames == <<"ASR", "LSR", "ROXR", "ROR">>
LeftNames == <<"ASL", "LSL", "ROXL", "ROL">>
ShiftName(op, type) == (IF op.o >= 4 THEN LeftNames ELSE RightNames)[type + 1]
EightForZero(n) == IF n = 0 THEN 8 ELSE n
disasmGroupE(op, code) ==
  IF op.o % 4 = 3 THEN Only(ShiftName(op, op.x % 4), 2, 2, op, code)
  ELSE Listing(ShiftName(op, op.m % 4), SizeOf(op.o % 4),
               <<IF op.m >= 4 THEN Dn(op.x) ELSE Imm(EightForZero(op.x)), Dn(op.r)>>, 1)

condCodes == <<"T", "F", "HI", "LS", "CC", "CS", "NE", "EQ",
               "VC", "VS", "PL", "MI", "GE", "LT", "GT", "LE">>
CondName(op) == condCodes[2 * op.x + (op.o \div 4) + 1]

listQuick(op, code, address) ==
  CASE op.o % 4 = 3 /\ op.m = 1 ->
         Listing("DB" \o CondName(op), 0, <<Dn(op.r), Number(address + 2 + Signed(code[2]))>>, 2)
    [] op.o % 4 = 3 -> Only("S" \o CondName(op), 0, 1, op, code)
    [] OTHER -> From(IF op.o >= 4 THEN "SUBQ" ELSE "ADDQ", SizeOf(op.o % 4),
                     Imm(EightForZero(op.x)), SizeOf(op.o % 4), op, code)

BranchName(op) ==
  LET c == CondName(op) IN CASE c = "T" -> "BRA" [] c = "F" -> "BSR" [] OTHER -> "B" \o c
listBranch(op, code, address) ==
  IF LowByte(op) = 0
  THEN Listing(BranchName(op), 0, <<Number(address + 2 + Signed(code[2]))>>, 2)
  ELSE Listing(BranchName(op), 0, <<Number(address + 2 + SignedByte(LowByte(op)))>>, 1)

\* The source's extension words come before the destination's.
listMove(op, code) ==
  LET size == <<1, 4, 2>>[op.line]
      s == formatEA(op.m, op.r, size, code, 2)
      d == formatEA(op.o, op.x, size, code, 2 + s.words)
  IN  Listing(IF op.o = 1 THEN "MOVEA" ELSE "MOVE", size, <<s.operand, d.operand>>,
              1 + s.words + d.words)

disasmInstruction(code, address) ==
  LET Group(op) ==
        CASE op.line = 0 -> disasmGroup0(op, code)
          [] op.line \in {1, 2, 3} -> listMove(op, code)
          [] op.line = 4 -> disasmGroup4(op, code)
          [] op.line = 5 -> listQuick(op, code, address)
          [] op.line = 6 -> listBranch(op, code, address)
          [] op.line = 7 -> Listing("MOVEQ", 0, <<Imm(SignedByte(LowByte(op))), Dn(op.x)>>, 1)
          [] op.line = 8 -> disasmGroup8(op, code)
          [] op.line = 9 -> disasmGroup9(op, code)
          [] op.line = 11 -> disasmGroupB(op, code)
          [] op.line = 12 -> disasmGroupC(op, code)
          [] op.line = 13 -> disasmGroupD(op, code)
          [] op.line = 14 -> disasmGroupE(op, code)
          [] OTHER -> Data(op)
  IN  Group(Fields(code[1]))
=============================================================================
