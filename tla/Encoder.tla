------------------------------ MODULE Encoder ------------------------------
(***************************************************************************)
(* The instruction encoder (src/src/assembler/encoder.c): the 16-bit words *)
(* of a line at an address.  Its size is the number of words, for both     *)
(* passes run this one function.                                           *)
(***************************************************************************)
EXTENDS AsmLine
LOCAL INSTANCE FiniteSetsExt

Word(n) == n % 65536
Words(n) == <<Word(n \div 65536), Word(n)>>

----------------------------------------------------------------------------
(* Operands *)

Ea(m, r, ext) == [m |-> m, r |-> r, ext |-> ext]
Modes == <<"Dn", "An", "(An)", "(An)+", "-(An)">>

\* A number or label without a register is always an absolute long; immediate
\* data is left to the caller.
encodeEA(op) ==
  CASE op.type = "d(An)" -> Ea(5, op.reg, <<Word(op.disp)>>)
    [] op.type = "expr"  -> Ea(7, 1, Words(op.imm))
    [] op.type = "d(PC)" -> Ea(7, 2, <<Word(op.disp)>>)
    [] op.type = "#"     -> Ea(7, 4, <<>>)
    [] OTHER -> Ea((CHOOSE m \in 1 .. 5 : Modes[m] = op.type) - 1, op.reg, <<>>)

\* A mutant of the next: a byte and a word of their own.
LongAlways(value, size) == IF size = 2 THEN <<Word(value)>> ELSE Words(value)
emitImmediate(value, size) == IF size = 4 THEN Words(value) ELSE <<Word(value)>>

ImmediateOf(op, size) == IF op.type = "#" THEN emitImmediate(op.imm, size) ELSE <<>>

\* An opcode with an effective address in its low six bits, and what follows it.
WithEa(base, op) == LET e == encodeEA(op) IN <<base + 8 * e.m + e.r>> \o e.ext
WithSource(base, op, size) == WithEa(base, op) \o ImmediateOf(op, size)

sizeField76(size) == CASE size = 1 -> 0 [] size = 4 -> 128 [] OTHER -> 64
X(op) == 512 * op.reg

\* The conditional mnemonics with their condCode.
Branches == [BRA |-> 0, BSR |-> 1, BHI |-> 2, BLS |-> 3, BCC |-> 4, BCS |-> 5, BNE |-> 6,
             BEQ |-> 7, BVC |-> 8, BVS |-> 9, BPL |-> 10, BMI |-> 11, BGE |-> 12, BLT |-> 13,
             BGT |-> 14, BLE |-> 15, BHS |-> 4, BLO |-> 5]
Loops == [DBT |-> 0, DBF |-> 1, DBHI |-> 2, DBLS |-> 3, DBCC |-> 4, DBCS |-> 5, DBNE |-> 6,
          DBEQ |-> 7, DBVC |-> 8, DBVS |-> 9, DBPL |-> 10, DBMI |-> 11, DBGE |-> 12, DBLT |-> 13,
          DBGT |-> 14, DBLE |-> 15, DBHS |-> 4, DBLO |-> 5, DBRA |-> 1]
Sets == [ST |-> 0, SF |-> 1, SHI |-> 2, SLS |-> 3, SCC |-> 4, SCS |-> 5, SNE |-> 6, SEQ |-> 7,
         SVC |-> 8, SVS |-> 9, SPL |-> 10, SMI |-> 11, SGE |-> 12, SLT |-> 13, SGT |-> 14,
         SLE |-> 15, SHS |-> 4, SLO |-> 5]

----------------------------------------------------------------------------
(* Encoders, one per family; l is the line, s and d its first two operands.  *)

S(l) == l.operands[1]
D(l) == l.operands[2]

MoveLine(size) == CASE size = 1 -> \h1000 [] size = 4 -> \h2000 [] OTHER -> \h3000
encodeMove(l) ==
  LET d == encodeEA(D(l))
  IN  WithSource(MoveLine(l.size) + 512 * d.r + 64 * d.m, S(l), l.size) \o d.ext

encodeLea(l) == WithEa(\h41C0 + X(D(l)), S(l))
encodeMoveq(l) == <<\h7000 + X(D(l)) + (S(l).imm % 256)>>

\* ADD, SUB, AND, OR, CMP: into a data register, or else from the first operand's
\* register, whatever the operands are.
encodeAluReg(l, code) ==
  IF D(l).type = "Dn" THEN WithSource(code + X(D(l)) + sizeField76(l.size), S(l), l.size)
  ELSE WithEa(code + X(S(l)) + 256 + sizeField76(l.size), D(l))

encodeEor(l) == WithEa(\hB100 + X(S(l)) + sizeField76(l.size), D(l))

encodeAluAddr(l, code) ==
  WithSource(code + X(D(l)) + (IF l.size = 4 THEN \h1C0 ELSE \hC0), S(l), l.size)

encodeAluImm(l, base) ==
  LET d == encodeEA(D(l))
  IN  <<base + sizeField76(l.size) + 8 * d.m + d.r>> \o emitImmediate(S(l).imm, l.size) \o d.ext

encodeQuick(l, code) == WithEa(code + 512 * (S(l).imm % 8) + sizeField76(l.size), D(l))

RegisterOrMemory(l) == IF S(l).type = "-(An)" THEN 8 ELSE 0
encodeXOp(l, code) == <<code + X(D(l)) + 256 + sizeField76(l.size) + RegisterOrMemory(l) + S(l).reg>>
encodeBcd(l, code) == <<code + X(D(l)) + RegisterOrMemory(l) + S(l).reg>>

\* .S (or .B) is cut to a byte, with no look at whether it fits, or is zero.
encodeBranch(l, pc, cond) ==
  LET disp == S(l).imm - (pc + 2)
  IN  IF l.size = 1 THEN <<\h6000 + 256 * cond + (disp % 256)>>
      ELSE <<\h6000 + 256 * cond, Word(disp)>>

encodeDBcc(l, pc, cond) == <<\h50C8 + 256 * cond + S(l).reg, Word(D(l).imm - (pc + 2))>>
encodeUnaryEA(l, base) == WithEa(base + sizeField76(l.size), S(l))
encodeScc(l, cond) == WithEa(\h50C0 + 256 * cond, S(l))
encodeSwap(l) == <<\h4840 + S(l).reg>>
encodeExt(l) == <<(IF l.size = 4 THEN \h48C0 ELSE \h4880) + S(l).reg>>

encodeExg(l) ==
  LET a == <<S(l).type = "An", D(l).type = "An">>
      opmode == CASE a = <<FALSE, FALSE>> -> \h40 [] a = <<TRUE, TRUE>> -> \h48 [] OTHER -> \h88
  IN  <<\hC100 + X(S(l)) + opmode + D(l).reg>>

encodeLink(l) == <<\h4E50 + S(l).reg, Word(D(l).imm)>>
encodeUnlk(l) == <<\h4E58 + S(l).reg>>
encodeTrap(l) == <<\h4E40 + (S(l).imm % 16)>>
encodeChk(l) == WithSource(\h4180 + X(D(l)), S(l), 2)
encodeStop(l) == <<\h4E72, Word(IF l.operands = <<>> THEN 0 ELSE S(l).imm)>>
encodeMulDiv(l, base) == WithSource(base + X(D(l)), S(l), 2)

\* One operand: in memory, a word, by one.  Two: a register, by a register or a number.
encodeShift(l, type, left) ==
  IF Len(l.operands) = 1 THEN WithEa(\hE0C0 + 512 * type + 256 * left, S(l))
  ELSE LET byReg == S(l).type = "Dn"
       IN  <<\hE000 + 512 * (IF byReg THEN S(l).reg ELSE S(l).imm % 8) + 256 * left
               + sizeField76(l.size) + (IF byReg THEN 32 ELSE 0) + 8 * type + D(l).reg>>

encodeBitOp(l, n) ==
  LET d == encodeEA(D(l))
      low == 64 * n + 8 * d.m + d.r
  IN  IF S(l).type = "Dn" THEN <<\h0100 + X(S(l)) + low>> \o d.ext
      ELSE <<\h0800 + low, S(l).imm % 256>> \o d.ext

\* regOperandToMask; for a predecrement the word names the registers backwards.
regOperandToMask(op) ==
  CASE op.type = "list" -> op.list
    [] op.type = "Dn" -> {op.reg}
    [] op.type = "An" -> {op.reg + 8}
    [] OTHER -> {}
isRegOrRegList(op) == op.type \in {"list", "Dn", "An"}
MaskWord(set) == MapThenSumSet(LAMBDA i : 2^i, set)
Reversed(set) == {15 - i : i \in set}

encodeMovem(l) ==
  LET out == isRegOrRegList(S(l))
      e == encodeEA(IF out THEN D(l) ELSE S(l))
      regs == regOperandToMask(IF out THEN S(l) ELSE D(l))
      size == IF l.size = 4 THEN 64 ELSE 0
  IN  <<(IF out THEN \h4880 ELSE \h4C80) + size + 8 * e.m + e.r,
        MaskWord(IF out /\ e.m = 4 THEN Reversed(regs) ELSE regs)>> \o e.ext

encodeMovep(l) ==
  LET out == S(l).type = "Dn"
      data == IF out THEN S(l) ELSE D(l)
      address == IF out THEN D(l) ELSE S(l)
      opmode == (IF out THEN 6 ELSE 4) + (IF l.size = 4 THEN 1 ELSE 0)
  IN  <<X(data) + 64 * opmode + 8 + address.reg, Word(address.disp)>>

IsSpecial(op) == op.type \in {"SR", "CCR", "USP"}
encodeMoveSR(l) ==
  LET s == S(l).type
      d == D(l).type
  IN CASE d = "SR" -> WithSource(\h46C0, S(l), 2)
       [] s = "SR" /\ d # "SR" -> WithEa(\h40C0, D(l))
       [] d = "CCR" /\ s # "SR" -> WithSource(\h44C0, S(l), 2)
       [] d = "USP" /\ s # "SR" -> <<\h4E60 + S(l).reg>>
       [] s = "USP" /\ d \notin {"SR", "CCR", "USP"} -> <<\h4E68 + D(l).reg>>
       [] OTHER -> <<>>

encodeImmCCRSR(l, base) ==
  CASE D(l).type = "CCR" -> <<base + \h3C, S(l).imm % 256>>
    [] D(l).type = "SR"  -> <<base + \h7C, Word(S(l).imm)>>
    [] OTHER -> encodeAluImm(l, base)

encodeCmpm(l) == <<\hB108 + X(D(l)) + sizeField76(l.size) + S(l).reg>>

----------------------------------------------------------------------------
(* Dispatch: which mnemonics each encoder takes, with its parameter. *)

AluReg == [ADD |-> \hD000, SUB |-> \h9000, CMP |-> \hB000, AND |-> \hC000, OR |-> \h8000]
AluAddr == [ADDA |-> \hD000, SUBA |-> \h9000, CMPA |-> \hB000]
AluImm == [ADDI |-> \h0600, SUBI |-> \h0400, CMPI |-> \h0C00]
StatusImm == [ANDI |-> \h0200, ORI |-> \h0000, EORI |-> \h0A00]
Quick == [ADDQ |-> \h5000, SUBQ |-> \h5100]
Extended == [ADDX |-> \hD000, SUBX |-> \h9000]
Bcd == [ABCD |-> \hC100, SBCD |-> \h8100]
Unary == [NOT |-> \h4600, NEG |-> \h4400, NEGX |-> \h4000, CLR |-> \h4200, TST |-> \h4A00]
MulDiv == [MULU |-> \hC0C0, MULS |-> \hC1C0, DIVU |-> \h80C0, DIVS |-> \h81C0]
Shift == [ASL |-> <<0, 1>>, ASR |-> <<0, 0>>, LSL |-> <<1, 1>>, LSR |-> <<1, 0>>,
          ROXL |-> <<2, 1>>, ROXR |-> <<2, 0>>, ROL |-> <<3, 1>>, ROR |-> <<3, 0>>]
BitOp == [BTST |-> 0, BCHG |-> 1, BCLR |-> 2, BSET |-> 3]
\* An opcode and the effective address of the only operand.
OneEa == [PEA |-> \h4840, NBCD |-> \h4800, TAS |-> \h4AC0, JMP |-> \h4EC0, JSR |-> \h4E80]
FixedWord == [NOP |-> \h4E71, RTS |-> \h4E75, RTE |-> \h4E73, RTR |-> \h4E77, TRAPV |-> \h4E76,
            RESET |-> \h4E70, ILLEGAL |-> \h4AFC]

Unaries == DOMAIN Unary \cup DOMAIN OneEa \cup DOMAIN Branches \cup DOMAIN Sets
             \cup DOMAIN Shift \cup {"EXT", "SWAP", "UNLK", "TRAP"}
Dyadics == DOMAIN AluReg \cup DOMAIN AluAddr \cup DOMAIN AluImm \cup DOMAIN StatusImm
             \cup DOMAIN Quick \cup DOMAIN Extended \cup DOMAIN Bcd \cup DOMAIN MulDiv
             \cup DOMAIN BitOp \cup DOMAIN Loops
             \cup {"MOVE", "MOVEA", "MOVEQ", "MOVEM", "MOVEP", "LEA", "EOR", "CMPM", "EXG",
                   "LINK", "CHK"}
Needed(mn) == IF mn \in Dyadics THEN 2 ELSE IF mn \in Unaries THEN 1 ELSE 0

\* A line with too few operands gives nothing, an unknown mnemonic a NOP.
encoderEncode(l, pc) ==
  LET mn == l.mnemonic IN
  IF mn = NoName \/ Len(l.operands) < Needed(mn) THEN <<>>
  ELSE IF mn \in {"MOVE", "MOVEA"} THEN
         IF IsSpecial(S(l)) \/ IsSpecial(D(l)) THEN encodeMoveSR(l) ELSE encodeMove(l)
  ELSE IF mn = "MOVEQ" THEN encodeMoveq(l)
  ELSE IF mn = "MOVEM" THEN encodeMovem(l)
  ELSE IF mn = "MOVEP" THEN encodeMovep(l)
  ELSE IF mn = "LEA" THEN encodeLea(l)
  ELSE IF mn \in DOMAIN AluReg THEN encodeAluReg(l, AluReg[mn])
  ELSE IF mn \in DOMAIN AluAddr THEN encodeAluAddr(l, AluAddr[mn])
  ELSE IF mn \in DOMAIN AluImm THEN encodeAluImm(l, AluImm[mn])
  ELSE IF mn \in DOMAIN StatusImm THEN encodeImmCCRSR(l, StatusImm[mn])
  ELSE IF mn \in DOMAIN Quick THEN encodeQuick(l, Quick[mn])
  ELSE IF mn \in DOMAIN Extended THEN encodeXOp(l, Extended[mn])
  ELSE IF mn \in DOMAIN Bcd THEN encodeBcd(l, Bcd[mn])
  ELSE IF mn = "CMPM" THEN encodeCmpm(l)
  ELSE IF mn = "EOR" THEN encodeEor(l)
  ELSE IF mn \in DOMAIN Unary THEN encodeUnaryEA(l, Unary[mn])
  ELSE IF mn = "EXT" THEN encodeExt(l)
  ELSE IF mn = "SWAP" THEN encodeSwap(l)
  ELSE IF mn = "EXG" THEN encodeExg(l)
  ELSE IF mn \in DOMAIN MulDiv THEN encodeMulDiv(l, MulDiv[mn])
  ELSE IF mn \in DOMAIN Shift THEN encodeShift(l, Shift[mn][1], Shift[mn][2])
  ELSE IF mn \in DOMAIN BitOp THEN encodeBitOp(l, BitOp[mn])
  ELSE IF mn \in DOMAIN Branches THEN encodeBranch(l, pc, Branches[mn])
  ELSE IF mn \in DOMAIN Loops THEN encodeDBcc(l, pc, Loops[mn])
  ELSE IF mn \in DOMAIN Sets THEN encodeScc(l, Sets[mn])
  ELSE IF mn \in DOMAIN OneEa THEN WithEa(OneEa[mn], S(l))
  ELSE IF mn = "LINK" THEN encodeLink(l)
  ELSE IF mn = "UNLK" THEN encodeUnlk(l)
  ELSE IF mn = "TRAP" THEN encodeTrap(l)
  ELSE IF mn = "CHK" THEN encodeChk(l)
  ELSE IF mn = "STOP" THEN encodeStop(l)
  ELSE IF mn \in DOMAIN FixedWord THEN <<FixedWord[mn]>>
  ELSE <<FixedWord["NOP"]>>
=============================================================================
