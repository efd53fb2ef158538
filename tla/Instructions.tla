---------------------------- MODULE Instructions ----------------------------
(***************************************************************************)
(* The instruction set (src/src/cpu/instructions), one operator and one    *)
(* action per handler of the opcode table, over the registers, the status  *)
(* register and a byte-addressed memory.                                   *)
(*                                                                         *)
(* An opcode word is its decoded fields: i.h is the handler the table has  *)
(* for it, i.m and i.r the mode and register of its effective address,     *)
(* i.x the register (or small number) in bits 9 to 11.  Extension words    *)
(* lie behind it in the code and are consumed by advancing the PC, as in   *)
(* the source.  A word at an odd address is an address error in the middle *)
(* of a handler, which then goes on.  Left to Machine: interrupts and      *)
(* trace.  The handlers of EXG, CMPM, MOVEP and ILLEGAL are missing: later *)
(* registrations replace all their table entries (see Decoder).            *)
(***************************************************************************)
EXTENDS Alu, FiniteSets

CONSTANTS RamTop,      \* RAM is 0 .. RamTop
          AddrSpace,   \* ADDR_MASK + 1
          Vectors      \* vector number -> address of its handler, the longs at $0-$3FF

VARIABLES cpu,         \* Cpu and the contents of the RAM; the emulator's end; whether an
                       \* address error was taken in the latest instruction
          rom          \* even address -> opcode, extension word or brief index word

Ram == 0 .. RamTop

ASSUME InstructionsAssumption ==
  /\ RamTop \in Nat /\ AddrSpace \in Nat \ {0} /\ RamTop < AddrSpace
  /\ Modulus("l") % AddrSpace = 0 /\ AddrSpace % 2 = 0
  /\ 3 \in DOMAIN Vectors /\ Vectors[3] % 2 = 0

------------------------------------------------------------------------------
(* Memory.  Nothing answers outside the RAM and the code: reads give ones. *)

busReadByte(s, a) == IF a % AddrSpace \in Ram THEN s.mem[a % AddrSpace] ELSE Modulus("b") - 1

Odd(a) == (a % AddrSpace) % 2 = 1

\* What a word at an odd address does besides is Touched's.
busReadWord(s, a) ==
  CASE Odd(a) -> Modulus("w") - 1
    [] ~Odd(a) /\ a % AddrSpace \in DOMAIN rom -> rom[a % AddrSpace]
    [] OTHER -> busReadByte(s, a) * Modulus("b") + busReadByte(s, a + 1)

busReadLong(s, a) == busReadWord(s, a) * Modulus("w") + busReadWord(s, a + 2)

busRead(s, a, sz) ==
  CASE sz = "b" -> busReadByte(s, a)
    [] sz = "w" -> busReadWord(s, a)
    [] sz = "l" -> busReadLong(s, a)

\* Big-endian: the byte at distance k from the end has weight k.
ByteOf(val, k) == (val \div Modulus("b")^k) % Modulus("b")

WithBytes(s, a, val, sz) ==
  LET first == a % AddrSpace
      last == first + Bytes(sz) - 1
  IN  [s EXCEPT !.mem = [b \in Ram |-> IF b \in first .. last THEN ByteOf(val, last - b) ELSE @[b]]]

AddA(s, r, n) == [s EXCEPT !.a[r] = Trunc(@ + n, "l")]

cpuReadD(s, r, sz) == Trunc(s.d[r], sz)

cpuWriteD(s, r, val, sz) == [s EXCEPT !.d[r] = @ - Trunc(@, sz) + Trunc(val, sz)]

------------------------------------------------------------------------------
(* The status register, its word form, and the exceptions. *)

\* S and T are the third and first bits of the system byte, the mask its low three.
SBit == 2 * ByteBits - 3
TBit == 2 * ByteBits - 1

Ccr(sr, w) ==
  [sr EXCEPT !.c = Bit(w, 0) = 1, !.v = Bit(w, 1) = 1, !.z = Bit(w, 2) = 1,
             !.n = Bit(w, 3) = 1, !.x = Bit(w, 4) = 1]

\* A mutant of the next: SR >> 8 is the mask.
DecodeUnmasked(w) ==
  Ccr([t |-> Bit(w, TBit) = 1, s |-> Bit(w, SBit) = 1, ipl |-> w \div Modulus("b"),
       x |-> FALSE, n |-> FALSE, z |-> FALSE, v |-> FALSE, c |-> FALSE], w)

Decode(w) ==
  LET Weight(i, k) == IF Bit(w, ByteBits + i) = 1 THEN k ELSE 0
      ipl == Weight(0, 1) + Weight(1, 2) + Weight(2, 4)
  IN Ccr([t |-> Bit(w, TBit) = 1, s |-> Bit(w, SBit) = 1, ipl |-> ipl,
       x |-> FALSE, n |-> FALSE, z |-> FALSE, v |-> FALSE, c |-> FALSE], w)

Encode(sr) ==
  LET At(b, i) == IF b THEN 2^i ELSE 0
  IN  At(sr.t, TBit) + At(sr.s, SBit) + sr.ipl * Modulus("b") + At(sr.x, 4) + At(sr.n, 3)
        + At(sr.z, 2) + At(sr.v, 1) + At(sr.c, 0)

cpuSetSupervisor(s, supervisor) ==
  CASE supervisor /\ ~s.sr.s -> [s EXCEPT !.usp = s.a[7], !.a[7] = s.ssp, !.sr.s = TRUE]
    [] ~supervisor /\ s.sr.s -> [s EXCEPT !.ssp = s.a[7], !.a[7] = s.usp, !.sr.s = FALSE]
    [] OTHER -> s

\* The RAM with n frames of address errors below t's stack, each of seven words: the access, its
\* address, the opcode (0 stands for it), SR and PC, of s in the first and of t in the others.
Framed(s, t, n, at, isWrite) ==
  LET Upper(val) == (val \div Modulus("w")) % Modulus("w")
      Words(f, addr) == <<IF isWrite THEN 13 ELSE 29, addr, Upper(addr), 0, Encode(f.sr), f.pc, Upper(f.pc)>>
      Pushed(k) == Words(IF k = 1 THEN s ELSE t, at[k] % AddrSpace)
      Byte(depth) == ByteOf(Pushed(depth \div 14 + 1)[(depth % 14) \div 2 + 1], depth % 2)
      Depth(b) == (t.a[7] - 1 - b) % AddrSpace
  IN  [b \in Ram |-> IF Depth(b) < 14 * n THEN Byte(Depth(b)) ELSE t.mem[b]]

\* n address errors in a row, the k-th at at[k].  On an odd stack the first push is an address
\* error of its own, and so on without end.
exceptionAddressErrors(s, n, at, isWrite) ==
  LET d == [cpuSetSupervisor(s, TRUE) EXCEPT !.sr.t = FALSE, !.erred = TRUE]
      t == [d EXCEPT !.pc = Vectors[3] % AddrSpace]
  IN  IF Odd(d.a[7]) THEN [d EXCEPT !.crashed = TRUE]
      ELSE [t EXCEPT !.a[7] = Trunc(@ - 14 * n, "l"), !.mem = Framed(s, t, n, at, isWrite)]

exceptionAddressError(s, a, isWrite) == exceptionAddressErrors(s, 1, <<a>>, isWrite)

\* The bus raises the error and returns to the handler, once for each word of a long.
Touched(s, a, sz, isWrite) ==
  IF sz = "b" \/ ~Odd(a) THEN s
  ELSE exceptionAddressErrors(s, Bytes(sz) \div 2, <<a, a + 2>>, isWrite)

busWrite(s, a, val, sz) ==
  IF sz = "b" \/ ~Odd(a) THEN WithBytes(s, a, val, sz) ELSE Touched(s, a, sz, TRUE)

pushLong(s, val) ==
  LET sp == s.a[7] - 4 IN busWrite([s EXCEPT !.a[7] = Trunc(sp, "l")], sp, val, "l")

pushWord(s, val) ==
  LET sp == s.a[7] - 2 IN busWrite([s EXCEPT !.a[7] = Trunc(sp, "l")], sp, val, "w")

\* A mutant of the next: the frame goes to the stack of the old mode.
ProcessOnOldStack(s, vec) ==
  [cpuSetSupervisor(pushWord(pushLong(s, s.pc), Encode(s.sr)), TRUE)
     EXCEPT !.sr.t = FALSE, !.pc = Vectors[vec] % AddrSpace]

exceptionProcess(s, vec) ==
  LET d == [cpuSetSupervisor(s, TRUE) EXCEPT !.sr.t = FALSE]
  IN  [pushWord(pushLong(d, s.pc), Encode(s.sr)) EXCEPT !.pc = Vectors[vec] % AddrSpace]

\* MOVE, ANDI and EORI to SR, STOP and RTE: the stacks are switched after the S
\* bit is stored, when the call finds nothing to do (see Cpu).
SetSr(s, sr) ==
  LET t == [s EXCEPT !.sr = sr]
  IN  IF s.sr.s /\ ~sr.s THEN cpuSetSupervisor(t, FALSE) ELSE t

\* A handler that starts with the supervisor check.
Unchecked(s, t) == t     \* a mutant of the next
Privileged(s, t) == IF s.sr.s THEN t ELSE exceptionProcess(s, 8)

------------------------------------------------------------------------------
(* Addressing *)

instrFetchWord(s) == [s |-> [s EXCEPT !.pc = @ + 2], w |-> busReadWord(s, s.pc)]

instrFetchLong(s) == [s |-> [s EXCEPT !.pc = @ + 4], w |-> busReadLong(s, s.pc)]

\* A mutant of the next: one word whatever the size.
ImmediateOfWord(s, sz) == LET g == instrFetchWord(s) IN [g EXCEPT !.w = Trunc(@, sz)]

\* The immediate of ADDI and its like: a byte is the low half of its word.
Immediate(s, sz) ==
  IF sz = "l" THEN instrFetchLong(s)
  ELSE LET g == instrFetchWord(s) IN [g EXCEPT !.w = Trunc(@, sz)]

IncrementByBytes(r, sz) == Bytes(sz)     \* a mutant: A7 may become odd
addrIncrement(r, sz) == IF r = 7 /\ sz = "b" THEN 2 ELSE Bytes(sz)

\* A mutant of the next: its displacement is taken unsigned.
IndexUpwards(s, base) ==
  LET x == busReadWord(s, s.pc)
      xn == CASE x.isAddr -> s.a[x.xn]
              [] ~x.isAddr /\ x.isLong -> s.d[x.xn]
              [] OTHER -> SignExtend(s.d[x.xn], "w", "l")
  IN  Trunc(base + x.disp + xn, "l") % AddrSpace

\* The brief word names a register and a displacement; an address register
\* is never cut to a word.
calcIndex(s, base) ==
  LET x == busReadWord(s, s.pc)
      xn == CASE x.isAddr -> s.a[x.xn]
              [] ~x.isAddr /\ x.isLong -> s.d[x.xn]
              [] OTHER -> SignExtend(s.d[x.xn], "w", "l")
  IN  Trunc(base + Signed(x.disp, "b") + xn, "l") % AddrSpace

\* An effective address: mode, register, address, and the state after it was computed.
\* A register has none, and neither has a mode that does not exist: 0 stands for it.
addrCalcEA(s, m, r, sz) ==
  LET Ea(t, a) == [s |-> t, m |-> m, r |-> r, addr |-> Trunc(a, "l") % AddrSpace]
      next == [s EXCEPT !.pc = @ + 2]
      disp == Signed(busReadWord(s, s.pc), "w")
  IN  CASE m = "(An)"     -> Ea(s, s.a[r])
        [] m = "(An)+"    -> Ea(AddA(s, r, addrIncrement(r, sz)), s.a[r])
        [] m = "-(An)"    -> LET t == AddA(s, r, -addrIncrement(r, sz)) IN Ea(t, t.a[r])
        [] m = "d(An)"    -> Ea(next, s.a[r] + disp)
        [] m = "d(An,Xn)" -> Ea(next, calcIndex(s, s.a[r]))
        [] m = "abs.W"    -> Ea(next, disp)
        [] m = "abs.L"    -> Ea([s EXCEPT !.pc = @ + 4], busReadLong(s, s.pc))
        [] m = "d(PC)"    -> Ea(next, s.pc + disp)
        [] m = "d(PC,Xn)" -> Ea(next, calcIndex(s, s.pc))
        [] m = "#"        -> Ea([s EXCEPT !.pc = @ + (IF sz = "l" THEN 4 ELSE 2)], s.pc)
        [] OTHER          -> Ea(s, 0)

addrRead(s, ea, sz) ==
  CASE ea.m = "Dn" -> cpuReadD(s, ea.r, sz)
    [] ea.m = "An" -> Trunc(s.a[ea.r], sz)
    [] ea.m = "#" /\ sz = "b" -> Trunc(busReadWord(s, ea.addr), "b")
    [] OTHER -> busRead(s, ea.addr, sz)

addrWrite(s, ea, val, sz) ==
  CASE ea.m = "Dn" -> cpuWriteD(s, ea.r, val, sz)
    [] ea.m = "An" -> [s EXCEPT !.a[ea.r] = IF sz = "w" THEN SignExtend(val, "w", "l") ELSE val]
    [] ea.m = "#"  -> s
    [] OTHER -> busWrite(s, ea.addr, val, sz)

\* The operand at i's effective address: its value, and the state after reading it.
Operand(s, i, sz) ==
  LET At(ea) == [ea |-> ea, val |-> addrRead(ea.s, ea, sz),
                 s |-> IF ea.m \in {"Dn", "An", "#"} THEN ea.s ELSE Touched(ea.s, ea.addr, sz, FALSE)]
  IN  At(addrCalcEA(s, i.m, i.r, sz))

\* ... and as a signed word extended to a long, for address arithmetic.
LongOperand(s, i) ==
  [Operand(s, i, i.sz) EXCEPT !.val = IF i.sz = "w" THEN SignExtend(@, "w", "l") ELSE @]

\* Replace the operand by what Op makes of it and of the flags.
Modify(s, i, sz, Op(_, _)) ==
  LET Put(o, res) == addrWrite([o.s EXCEPT !.sr = res.f], o.ea, res.val, sz)
      At(o) == Put(o, Op(o.s.sr, o.val))
  IN  At(Operand(s, i, sz))

IntoD(s, r, res, sz) == cpuWriteD([s EXCEPT !.sr = res.f], r, res.val, sz)

------------------------------------------------------------------------------
(* Families of handlers that differ in their ALU operation. *)

\* ADD, SUB, AND, OR: <ea>,Dn or Dn,<ea>.
Dyadic(s, i, Op(_, _, _, _)) ==
  IF i.toReg
    THEN LET With(o) == IntoD(o.s, i.x, Op(o.s.sr, o.val, cpuReadD(o.s, i.x, i.sz), i.sz), i.sz)
         IN  With(Operand(s, i, i.sz))
    ELSE Modify(s, i, i.sz, LAMBDA f, v : Op(f, cpuReadD(s, i.x, i.sz), v, i.sz))

\* ADDI, SUBI, ANDI, ORI, EORI: the immediate lies before the extension words.
Immediately(s, i, Op(_, _, _, _)) ==
  LET With(imm) == Modify(imm.s, i, i.sz, LAMBDA f, v : Op(f, imm.w, v, i.sz))
  IN  With(Immediate(s, i.sz))

\* ADDQ and SUBQ: 1 to 8, and no flags for an address register.
Quickly(s, i, Op(_, _, _, _), sign) ==
  LET n == IF i.x = 0 THEN 8 ELSE i.x
  IN  IF i.m = "An" THEN AddA(s, i.r, sign * n)
      ELSE Modify(s, i, i.sz, LAMBDA f, v : Op(f, n, v, i.sz))

\* ADDX, SUBX, ABCD, SBCD: registers, or memory below two pointers that are both
\* decremented before anything is read.
Multiprecision(s, i, sz, StepOf(_), Op(_, _, _)) ==
  LET Put(t, res) == busWrite([t EXCEPT !.sr = res.f], t.a[i.x], res.val, sz)
      Onto(t, src) == Put(Touched(t, t.a[i.x], sz, FALSE),
                          Op(Touched(t, t.a[i.x], sz, FALSE).sr, src, busRead(t, t.a[i.x], sz)))
      From(t) == Onto(Touched(t, t.a[i.r], sz, FALSE), busRead(t, t.a[i.r], sz))
  IN  IF i.mem THEN From(AddA(AddA(s, i.r, -StepOf(i.r)), i.x, -StepOf(i.x)))
               ELSE IntoD(s, i.x, Op(s.sr, cpuReadD(s, i.r, sz), cpuReadD(s, i.x, sz)), sz)

\* A product or quotient replaces the whole register; a zero divisor traps.
Divide(s, i, Op(_, _, _)) ==
  LET By(o) == IF o.val = 0 THEN exceptionProcess(o.s, 5)
               ELSE IntoD(o.s, i.x, Op(o.s.sr, s.d[i.x], o.val), "l")
  IN  By(Operand(s, i, "w"))

Multiply(s, i, Op(_, _, _)) ==
  LET By(o) == IntoD(o.s, i.x, Op(o.s.sr, o.val, o.s.d[i.x]), "l")
  IN  By(Operand(s, i, "w"))

\* BTST, BCHG, BCLR, BSET: of a long in a register, of a byte in memory; only Z.
BitOf(s, i, number, New(_)) ==
  LET sz == IF i.m = "Dn" THEN "l" ELSE "b"
      n == number % Bits(sz)
      Changed(f, v) == Out(v + (New(Bit(v, n)) - Bit(v, n)) * 2^n, [f EXCEPT !.z = Bit(v, n) = 0])
  IN  Modify(s, i, sz, Changed)

\* BTST reads only: nothing is written back.
BitTest(s, i, number) ==
  LET sz == IF i.m = "Dn" THEN "l" ELSE "b"
      At(o) == [o.s EXCEPT !.sr.z = Bit(o.val, number % Bits(sz)) = 0]
  IN  At(Operand(s, i, sz))

Complement(b) == 1 - b
Zero(b) == 0
One(b) == 1

\* The number of a static bit instruction is the low byte of its extension word.
Static(s, Op(_, _)) == LET g == instrFetchWord(s) IN Op(g.s, Trunc(g.w, "b"))

ShiftOf(f, val, count, sz, dir, type) ==
  CASE dir = "left"  /\ type = "AS"  -> aluAsl(f, val, count, sz)
    [] dir = "left"  /\ type = "LS"  -> aluLsl(f, val, count, sz)
    [] dir = "left"  /\ type = "ROX" -> aluRoxl(f, val, count, sz)
    [] dir = "left"  /\ type = "RO"  -> aluRol(f, val, count, sz)
    [] dir = "right" /\ type = "AS"  -> aluAsr(f, val, count, sz)
    [] dir = "right" /\ type = "LS"  -> aluLsr(f, val, count, sz)
    [] dir = "right" /\ type = "ROX" -> aluRoxr(f, val, count, sz)
    [] OTHER                          -> aluRor(f, val, count, sz)

------------------------------------------------------------------------------
(* arithmetic.c *)

instrAdd(s, i) == Dyadic(s, i, aluAdd)
instrSub(s, i) == Dyadic(s, i, aluSub)
instrAddi(s, i) == Immediately(s, i, aluAdd)
instrSubi(s, i) == Immediately(s, i, aluSub)
instrAddq(s, i) == Quickly(s, i, aluAdd, 1)
instrSubq(s, i) == Quickly(s, i, aluSub, -1)

instrAdda(s, i) == LET By(o) == AddA(o.s, i.x, o.val) IN By(LongOperand(s, i))
instrSuba(s, i) == LET By(o) == AddA(o.s, i.x, -o.val) IN By(LongOperand(s, i))

instrAddx(s, i) ==
  Multiprecision(s, i, i.sz, LAMBDA r : addrIncrement(r, i.sz),
                 LAMBDA f, src, dst : aluAddX(f, src, dst, i.sz))
instrSubx(s, i) ==
  Multiprecision(s, i, i.sz, LAMBDA r : addrIncrement(r, i.sz),
                 LAMBDA f, src, dst : aluSubX(f, src, dst, i.sz))

instrMulu(s, i) == Multiply(s, i, aluMulu)
instrMuls(s, i) == Multiply(s, i, aluMuls)
instrDivu(s, i) == Divide(s, i, aluDivu)
instrDivs(s, i) == Divide(s, i, aluDivs)

instrNeg(s, i) == Modify(s, i, i.sz, LAMBDA f, v : aluNeg(f, v, i.sz))
instrNegx(s, i) == Modify(s, i, i.sz, LAMBDA f, v : aluNegX(f, v, i.sz))
\* It reads first, for nothing.
instrClr(s, i) ==
  LET At(o) == [addrWrite(o.s, o.ea, 0, i.sz) EXCEPT !.sr = aluSetClrFlags(@)]
  IN  At(Operand(s, i, i.sz))

instrTst(s, i) ==
  LET At(o) == [o.s EXCEPT !.sr = aluSetLogicFlags(@, o.val, i.sz)]
  IN  At(Operand(s, i, i.sz))

instrCmp(s, i) ==
  LET By(o) == [o.s EXCEPT !.sr = aluCmp(@, o.val, cpuReadD(o.s, i.x, i.sz), i.sz)]
  IN  By(Operand(s, i, i.sz))

instrCmpa(s, i) ==
  LET By(o) == [o.s EXCEPT !.sr = aluCmp(@, o.val, o.s.a[i.x], "l")]
  IN  By(LongOperand(s, i))

instrCmpi(s, i) ==
  LET By(imm, o) == [o.s EXCEPT !.sr = aluCmp(@, imm.w, o.val, i.sz)]
      With(imm) == By(imm, Operand(imm.s, i, i.sz))
  IN  With(Immediate(s, i.sz))

\* To i.sz from the size below it.
instrExt(s, i) ==
  LET val == SignExtend(s.d[i.r], IF i.sz = "w" THEN "b" ELSE "w", i.sz)
  IN  IntoD(s, i.r, Logic(s.sr, val, i.sz), i.sz)

(* bcd.c *)

instrAbcd(s, i) == Multiprecision(s, i, "b", LAMBDA r : 1, aluAbcd)
instrSbcd(s, i) == Multiprecision(s, i, "b", LAMBDA r : 1, aluSbcd)
instrNbcd(s, i) == Modify(s, i, "b", aluNbcd)

(* logic.c *)

instrAnd(s, i) == Dyadic(s, i, aluAnd)
instrOr(s, i) == Dyadic(s, i, aluOr)
instrEor(s, i) == Dyadic(s, [i EXCEPT !.toReg = FALSE], aluEor)
instrAndi(s, i) == Immediately(s, i, aluAnd)
instrOri(s, i) == Immediately(s, i, aluOr)
instrEori(s, i) == Immediately(s, i, aluEor)
instrNot(s, i) == Modify(s, i, i.sz, LAMBDA f, v : aluNot(f, v, i.sz))

\* The SR and the immediate word, combined bit by bit.
Combined(sr, Op(_, _, _, _), w) == Decode(Op(sr, w, Encode(sr), "w").val)

\* Only condition codes of the immediate count, and ones of ANDI's system byte.
instrAndiCcr(s, i) ==
  LET g == instrFetchWord(s)
  IN  [g.s EXCEPT !.sr = Ccr(@, Encode(Combined(@, aluAnd, g.w)))]
instrOriCcr(s, i) ==
  LET g == instrFetchWord(s) IN [g.s EXCEPT !.sr = Combined(@, aluOr, g.w % 32)]
instrEoriCcr(s, i) ==
  LET g == instrFetchWord(s) IN [g.s EXCEPT !.sr = Combined(@, aluEor, g.w % 32)]

instrAndiSr(s, i) ==
  LET g == instrFetchWord(s) IN Privileged(s, SetSr(g.s, Combined(s.sr, aluAnd, g.w)))
instrOriSr(s, i) ==
  LET g == instrFetchWord(s) IN Privileged(s, [g.s EXCEPT !.sr = Combined(@, aluOr, g.w)])
instrEoriSr(s, i) ==
  LET g == instrFetchWord(s) IN Privileged(s, SetSr(g.s, Combined(s.sr, aluEor, g.w)))

(* shift.c *)

\* A count in the code is 1 to 8, one in a register is taken modulo 64.
shiftRegister(s, i) ==
  LET count == CASE i.useReg -> s.d[i.x] % 64
                 [] ~i.useReg /\ i.x = 0 -> 8
                 [] OTHER -> i.x
  IN  IntoD(s, i.r, ShiftOf(s.sr, cpuReadD(s, i.r, i.sz), count, i.sz, i.dir, i.type), i.sz)

shiftMemory(s, i) == Modify(s, i, "w", LAMBDA f, v : ShiftOf(f, v, 1, "w", i.dir, i.type))

(* bit.c *)

instrBtstDyn(s, i) == BitTest(s, i, s.d[i.x])
instrBchgDyn(s, i) == BitOf(s, i, s.d[i.x], Complement)
instrBclrDyn(s, i) == BitOf(s, i, s.d[i.x], Zero)
instrBsetDyn(s, i) == BitOf(s, i, s.d[i.x], One)
instrBtstStatic(s, i) == Static(s, LAMBDA t, n : BitTest(t, i, n))
instrBchgStatic(s, i) == Static(s, LAMBDA t, n : BitOf(t, i, n, Complement))
instrBclrStatic(s, i) == Static(s, LAMBDA t, n : BitOf(t, i, n, Zero))
instrBsetStatic(s, i) == Static(s, LAMBDA t, n : BitOf(t, i, n, One))

------------------------------------------------------------------------------
(* move.c *)

\* The source is read, with its side effects, before the destination is addressed.
instrMove(s, i) ==
  LET To(o, dst) == [addrWrite(dst.s, dst, o.val, i.sz) EXCEPT !.sr = aluSetLogicFlags(@, o.val, i.sz)]
      From(o) == To(o, addrCalcEA(o.s, i.dm, i.x, i.sz))
  IN  From(Operand(s, i, i.sz))

instrMovea(s, i) == LET From(o) == [o.s EXCEPT !.a[i.x] = o.val] IN From(LongOperand(s, i))

instrMoveq(s, i) ==
  IntoD(s, i.x, Logic(s.sr, SignExtend(i.data, "b", "l"), "l"), "l")

\* Registers 0 to 7 are D0 to D7 and 8 to 15 are A0 to A7.
Register(s, n) == IF n < 8 THEN s.d[n] ELSE s.a[n - 8]

\* A mask word is the set of its bits that are 1.  The registers that it names go in
\* ascending order: so many before n.
Rank(mask, n) == Cardinality({m \in mask : m < n})

\* A word or long at start and every step from there, one for each register of the mask.
AllTouched(s, mask, start, step, sz, isWrite) ==
  LET words == Bytes(sz) \div 2
      n == words * Cardinality(mask)
      at == [k \in 1 .. n |-> start + step * ((k - 1) \div words) + 2 * ((k - 1) % words)]
  IN  IF Odd(start) /\ mask # {} THEN exceptionAddressErrors(s, n, at, isWrite) ELSE s

\* Each register of the mask in its place, a step from the one before.
StoredAt(s, mask, start, step, sz) ==
  LET First(n) == (start + step * Rank(mask, n)) % AddrSpace
      Last(n) == First(n) + Bytes(sz) - 1
      At(b) == {n \in mask : b \in First(n) .. Last(n)}
      Byte(b, n) == ByteOf(Register(s, n), Last(n) - b)
  IN  [s EXCEPT !.mem = [b \in Ram |-> IF At(b) = {} THEN @[b] ELSE Byte(b, CHOOSE n \in At(b) : TRUE)]]

Stored(s, mask, start, step, sz) ==
  IF Odd(start) THEN AllTouched(s, mask, start, step, sz, TRUE) ELSE StoredAt(s, mask, start, step, sz)

\* What is loaded into the stack pointer is loaded last.
Loaded(s, mask, start, sz) ==
  LET From(addr) == IF sz = "l" THEN busReadLong(s, addr) ELSE SignExtend(busReadWord(s, addr), "w", "l")
      Into(n, old) == IF n \in mask THEN From(start + Bytes(sz) * Rank(mask, n)) ELSE old
  IN  [AllTouched(s, mask, start, Bytes(sz), sz, FALSE)
         EXCEPT !.d = [n \in 0 .. 7 |-> Into(n, @[n])], !.a = [n \in 0 .. 7 |-> Into(n + 8, @[n])]]

\* Below a pointer the mask is reversed, and yet D0 is stored first, highest.
instrMovemRegToMem(s, i) ==
  LET g == instrFetchWord(s)
      ea == addrCalcEA(g.s, i.m, i.r, i.sz)
      step == Bytes(i.sz)
      Down(mask) == [Stored(g.s, mask, s.a[i.r] - step, -step, i.sz)
                       EXCEPT !.a[i.r] = Trunc(s.a[i.r] - step * Cardinality(mask), "l")]
  IN  IF i.m = "-(An)" THEN Down({15 - b : b \in g.w}) ELSE Stored(ea.s, g.w, ea.addr, step, i.sz)

\* The address after the last load replaces what was loaded into the pointer.
instrMovemMemToReg(s, i) ==
  LET g == instrFetchWord(s)
      ea == addrCalcEA(g.s, i.m, i.r, i.sz)
      Up(start) == [Loaded(g.s, g.w, start, i.sz)
                      EXCEPT !.a[i.r] = Trunc(start + Bytes(i.sz) * Cardinality(g.w), "l")]
  IN  IF i.m = "(An)+" THEN Up(s.a[i.r]) ELSE Loaded(ea.s, g.w, ea.addr, i.sz)

instrLea(s, i) == LET ea == addrCalcEA(s, i.m, i.r, "l") IN [ea.s EXCEPT !.a[i.x] = ea.addr]

instrPea(s, i) == LET ea == addrCalcEA(s, i.m, i.r, "l") IN pushLong(ea.s, ea.addr)

instrLink(s, i) ==
  LET g == instrFetchWord(s)
      u == AddA(g.s, 7, -4)
      t == busWrite(u, u.a[7], u.a[i.r], "l")
  IN  AddA([t EXCEPT !.a[i.r] = t.a[7]], 7, Signed(g.w, "w"))

\* A mutant of the next: A7 stays at the frame.
UnlkKeepingStack(s, i) == [s EXCEPT !.a[7] = s.a[i.r], !.a[i.r] = busReadLong(s, s.a[i.r])]

instrUnlk(s, i) ==
  LET sp == s.a[i.r]
      t == Touched([s EXCEPT !.a[7] = sp], sp, "l", FALSE)
  IN  AddA([t EXCEPT !.a[i.r] = busReadLong(s, sp)], 7, 4)

instrSwap(s, i) ==
  LET val == s.d[i.r] \div Modulus("w") + Trunc(s.d[i.r], "w") * Modulus("w")
  IN  IntoD(s, i.r, Logic(s.sr, val, "l"), "l")

(* branch.c *)

Jump(s, addr) == [s EXCEPT !.pc = addr % AddrSpace]

\* A displacement of 0 in the opcode says that a word of it follows.
Displacement(s, i) ==
  IF i.disp = 0 THEN LET g == instrFetchWord(s) IN [s |-> g.s, disp |-> Signed(g.w, "w")]
                ELSE [s |-> s, disp |-> Signed(i.disp, "b")]

instrBcc(s, i) ==
  LET g == Displacement(s, i)
      target == s.currentPC + 2 + g.disp
  IN  CASE i.cc = "SR" -> Jump(pushLong(g.s, g.s.pc), target)
        [] i.cc # "SR" /\ aluTestCondition(s.sr, i.cc) -> Jump(g.s, target)
        [] OTHER -> g.s

instrDbcc(s, i) ==
  LET g == instrFetchWord(s)
      counter == Trunc(s.d[i.r] - 1, "w")
      t == cpuWriteD(g.s, i.r, counter, "w")
  IN  CASE aluTestCondition(s.sr, i.cc) -> g.s
        [] ~aluTestCondition(s.sr, i.cc) /\ counter # Modulus("w") - 1 ->
             Jump(t, t.pc - 2 + Signed(g.w, "w"))
        [] OTHER -> t

instrScc(s, i) ==
  LET ea == addrCalcEA(s, i.m, i.r, "b")
  IN  addrWrite(ea.s, ea, IF aluTestCondition(s.sr, i.cc) THEN Modulus("b") - 1 ELSE 0, "b")

instrJmp(s, i) == LET ea == addrCalcEA(s, i.m, i.r, "l") IN Jump(ea.s, ea.addr)

instrJsr(s, i) ==
  LET ea == addrCalcEA(s, i.m, i.r, "l") IN Jump(pushLong(ea.s, ea.s.pc), ea.addr)

\* The long at A7 is a new PC, even when reading it went to a handler.
PopPc(s) == Jump(AddA(Touched(s, s.a[7], "l", FALSE), 7, 4), busReadLong(s, s.a[7]))

instrRts(s, i) == PopPc(s)

RtrKeepingCodes(s, i) == Jump(AddA(s, 7, 6), busReadLong(s, s.a[7] + 2))     \* a mutant
instrRtr(s, i) ==
  PopPc([AddA(Touched(s, s.a[7], "w", FALSE), 7, 2) EXCEPT !.sr = Ccr(@, busReadWord(s, s.a[7]))])

\* A supervisor's stack at an odd address is the end, whatever follows.
instrRte(s, i) ==
  LET popped == AddA(Touched(s, s.a[7], "w", FALSE), 7, 6)
      t == SetSr(popped, Decode(busReadWord(s, s.a[7])))
  IN  Privileged(s, Jump(t, busReadLong(s, s.a[7] + 2)))

(* system.c *)

instrNop(s, i) == s

instrReset(s, i) == Privileged(s, s)

instrStop(s, i) ==
  LET g == instrFetchWord(s)
  IN  Privileged(s, [SetSr(g.s, Decode(g.w)) EXCEPT !.stopped = TRUE])

instrTrap(s, i) == exceptionProcess(s, 32 + i.vector)

instrTrapv(s, i) == IF s.sr.v THEN exceptionProcess(s, 7) ELSE s

instrChk(s, i) ==
  LET val == Signed(s.d[i.x], "w")
      Trap(t, n) == exceptionProcess([t EXCEPT !.sr.n = n], 6)
      Within(o) == CASE val < 0 -> Trap(o.s, TRUE)
                     [] val >= 0 /\ val > Signed(o.val, "w") -> Trap(o.s, FALSE)
                     [] OTHER -> o.s
  IN  Within(Operand(s, i, "w"))

instrMoveFromSr(s, i) ==
  LET ea == addrCalcEA(s, i.m, i.r, "w") IN addrWrite(ea.s, ea, Encode(s.sr), "w")

instrMoveToSr(s, i) ==
  LET From(o) == SetSr(o.s, Decode(o.val)) IN Privileged(s, From(Operand(s, i, "w")))

instrMoveToCcr(s, i) ==
  LET From(o) == [o.s EXCEPT !.sr = Ccr(@, o.val)] IN From(Operand(s, i, "w"))

instrMoveUsp(s, i) ==
  Privileged(s, IF i.toUsp THEN [s EXCEPT !.usp = s.a[i.r]] ELSE [s EXCEPT !.a[i.r] = s.usp])

\* The flags tell of the old value; its sign bit is set.
instrTas(s, i) ==
  LET half == Modulus("b") \div 2
  IN  Modify(s, i, "b", LAMBDA f, v : Out((v % half) + half, aluSetLogicFlags(f, v, "b")))

(* decoder.c: opcodes without an instruction. *)

handleIllegal(s, i) == exceptionProcess(s, 4)
handleLineA(s, i) == exceptionProcess(s, 10)
handleLineF(s, i) == exceptionProcess(s, 11)

------------------------------------------------------------------------------
\* cpuStep: the opcode's handler runs with the PC behind the opcode.
Fetched(s) == [s EXCEPT !.pc = @ + 2, !.currentPC = s.pc, !.erred = FALSE]

Running == ~cpu.stopped /\ ~cpu.crashed

Step(h, Handler(_, _)) ==
  /\ Running /\ ~Odd(cpu.pc)
  /\ cpu.pc \in DOMAIN rom
  /\ rom[cpu.pc].h = h
  /\ cpu' = Handler(Fetched(cpu), rom[cpu.pc])
  /\ UNCHANGED rom

Arithmetic ==
  \/ Step("Add", instrAdd)
  \/ Step("Sub", instrSub)
  \/ Step("Addi", instrAddi)
  \/ Step("Subi", instrSubi)
  \/ Step("Addq", instrAddq)
  \/ Step("Subq", instrSubq)
  \/ Step("Adda", instrAdda)
  \/ Step("Suba", instrSuba)
  \/ Step("Addx", instrAddx)
  \/ Step("Subx", instrSubx)
  \/ Step("Mulu", instrMulu)
  \/ Step("Muls", instrMuls)
  \/ Step("Divu", instrDivu)
  \/ Step("Divs", instrDivs)
  \/ Step("Neg", instrNeg)
  \/ Step("Negx", instrNegx)
  \/ Step("Clr", instrClr)
  \/ Step("Tst", instrTst)
  \/ Step("Cmp", instrCmp)
  \/ Step("Cmpa", instrCmpa)
  \/ Step("Cmpi", instrCmpi)
  \/ Step("Ext", instrExt)

Decimals ==
  \/ Step("Abcd", instrAbcd)
  \/ Step("Sbcd", instrSbcd)
  \/ Step("Nbcd", instrNbcd)

Logical ==
  \/ Step("And", instrAnd)
  \/ Step("Or", instrOr)
  \/ Step("Eor", instrEor)
  \/ Step("Andi", instrAndi)
  \/ Step("Ori", instrOri)
  \/ Step("Eori", instrEori)
  \/ Step("Not", instrNot)
  \/ Step("AndiCcr", instrAndiCcr)
  \/ Step("OriCcr", instrOriCcr)
  \/ Step("EoriCcr", instrEoriCcr)
  \/ Step("AndiSr", instrAndiSr)
  \/ Step("OriSr", instrOriSr)
  \/ Step("EoriSr", instrEoriSr)

Shifts ==
  \/ Step("shiftRegister", shiftRegister)
  \/ Step("shiftMemory", shiftMemory)

BitInstructions ==
  \/ Step("BtstDyn", instrBtstDyn)
  \/ Step("BchgDyn", instrBchgDyn)
  \/ Step("BclrDyn", instrBclrDyn)
  \/ Step("BsetDyn", instrBsetDyn)
  \/ Step("BtstStatic", instrBtstStatic)
  \/ Step("BchgStatic", instrBchgStatic)
  \/ Step("BclrStatic", instrBclrStatic)
  \/ Step("BsetStatic", instrBsetStatic)

Moves ==
  \/ Step("Move", instrMove)
  \/ Step("Movea", instrMovea)
  \/ Step("Moveq", instrMoveq)
  \/ Step("MovemRegToMem", instrMovemRegToMem)
  \/ Step("MovemMemToReg", instrMovemMemToReg)
  \/ Step("Lea", instrLea)
  \/ Step("Pea", instrPea)
  \/ Step("Link", instrLink)
  \/ Step("Unlk", instrUnlk)
  \/ Step("Swap", instrSwap)

Branches ==
  \/ Step("Bcc", instrBcc)
  \/ Step("Dbcc", instrDbcc)
  \/ Step("Scc", instrScc)
  \/ Step("Jmp", instrJmp)
  \/ Step("Jsr", instrJsr)
  \/ Step("Rts", instrRts)
  \/ Step("Rtr", instrRtr)
  \/ Step("Rte", instrRte)

System ==
  \/ Step("Nop", instrNop)
  \/ Step("Reset", instrReset)
  \/ Step("Stop", instrStop)
  \/ Step("Trap", instrTrap)
  \/ Step("Trapv", instrTrapv)
  \/ Step("Chk", instrChk)
  \/ Step("MoveFromSr", instrMoveFromSr)
  \/ Step("MoveToSr", instrMoveToSr)
  \/ Step("MoveToCcr", instrMoveToCcr)
  \/ Step("MoveUsp", instrMoveUsp)
  \/ Step("Tas", instrTas)

Unassigned ==
  \/ Step("Illegal", handleIllegal)
  \/ Step("LineA", handleLineA)
  \/ Step("LineF", handleLineF)

\* The opcode at an odd PC is ones, whose handler starts behind the first word of vector 3's.
OddFetch ==
  LET t == exceptionAddressError([cpu EXCEPT !.currentPC = cpu.pc], cpu.pc, FALSE)
  IN  /\ Running /\ Odd(cpu.pc)
      /\ cpu' = handleLineF([t EXCEPT !.pc = @ + 2], [h |-> "LineF"])
      /\ UNCHANGED rom

\* A stopped CPU waits for an interrupt, which is Machine's, and nothing follows the end.
Wait == ~Running /\ UNCHANGED <<cpu, rom>>

Next ==
  \/ Arithmetic \/ Decimals \/ Logical \/ Shifts \/ BitInstructions
  \/ Moves \/ Branches \/ System \/ Unassigned \/ OddFetch \/ Wait

vars == <<cpu, rom>>

IsSr(f) ==
  /\ DOMAIN f = {"t", "s", "ipl"} \cup FlagNames
  /\ f.t \in BOOLEAN /\ f.s \in BOOLEAN /\ f.ipl \in 0 .. 7

\* The registers are there and the system byte is one.  Of values, and so of condition codes,
\* nothing is said: an opcode that is read as data is not a number in this model.
IsCpu(s) ==
  /\ DOMAIN s = {"d", "a", "sr", "usp", "ssp", "pc", "currentPC", "stopped", "mem", "crashed", "erred"}
  /\ DOMAIN s.d = 0 .. 7 /\ DOMAIN s.a = 0 .. 7 /\ DOMAIN s.mem = Ram
  /\ IsSr(s.sr)
  /\ s.stopped \in BOOLEAN /\ s.crashed \in BOOLEAN /\ s.erred \in BOOLEAN

TypeOK == IsCpu(cpu)

\* Any code, from any state.
Spec == TypeOK /\ [][Next]_vars

------------------------------------------------------------------------------
\* The part of the status register that is not condition codes.
SystemByte(sr) == <<sr.t, sr.s, sr.ipl>>

\* n bytes of RAM from an even p that no code lies on, and below a stack pointer.
Room(p, n) ==
  /\ p \in Nat /\ p % 2 = 0 /\ p + n <= RamTop + 1
  /\ \A a \in DOMAIN rom : a \notin p .. p + n - 1
RoomBelow(top, n) == top \in Int /\ Room((top - n) % AddrSpace, n)

Facing(h) == ~Odd(cpu.pc) /\ cpu.pc \in DOMAIN rom /\ rom[cpu.pc].h = h

\* The vectors that an instruction can take an exception through, but for address errors.
VectorsAhead == IF Facing("Trap") THEN {32 + rom[cpu.pc].vector} ELSE {4, 5, 6, 7, 8, 10, 11}

AtVector == \E v \in VectorsAhead : cpu'.pc = Vectors[v] % AddrSpace

UserKept ==
  /\ SystemByte(cpu'.sr) = SystemByte(cpu.sr)
  /\ cpu'.usp = cpu.usp /\ cpu'.ssp = cpu.ssp
  /\ cpu'.stopped = cpu.stopped

\* In supervisor mode, by one exception or by several in a row.
UserEntered ==
  /\ SystemByte(cpu'.sr) = <<FALSE, TRUE, cpu.sr.ipl>>
  /\ cpu'.ssp = cpu.ssp
  /\ cpu'.stopped = cpu.stopped

UserTrapped ==
  /\ UserEntered /\ AtVector
  /\ RoomBelow(cpu.ssp, 6) =>
       /\ cpu'.a[7] = Trunc(cpu.ssp - 6, "l")
       /\ SystemByte(Decode(busReadWord(cpu', cpu'.a[7]))) = SystemByte(cpu.sr)

\* These go on where they meant to after the bus has raised an address error; a MOVE from
\* an odd address takes its destination's extension words from the handler.
SetsPc == \E h \in {"Bcc", "Jsr", "Rts", "Rtr"} : Facing(h)

AtHandler ==
  \/ cpu'.pc = Vectors[3] % AddrSpace
  \/ Facing("Move") /\ cpu'.pc \in {(Vectors[3] % AddrSpace) + 2, (Vectors[3] % AddrSpace) + 4}

UserErred == cpu'.erred /\ UserEntered /\ (SetsPc \/ AtHandler \/ AtVector)

\* An immediate that changes condition codes is a number, as every word of memory is.
CodesGiven ==
  Facing("OriCcr") \/ Facing("EoriCcr") => busReadWord(cpu, cpu.pc + 2) \in Int

\* system.c, logic.c, branch.c, bus.c: each privileged handler tests the S bit on its own, and
\* several others write the status register.  Whatever code a user runs, an instruction leaves
\* the system byte and the stack pointers alone, or takes an exception: the CPU goes on at a
\* vector, on the supervisor's stack, and the frame has the user's system byte to go back to.
\* An odd word is an address error in the middle of its instruction, which goes on in supervisor
\* mode: it ends at the handler but for a call or return, whose target it may be.  An odd SSP is
\* the emulator's end.
PrivilegeKept == [][~cpu.sr.s => UserKept \/ UserTrapped \/ UserErred \/ cpu'.crashed]_vars

------------------------------------------------------------------------------
Address == 0 .. AddrSpace - 1
LongValue == 0 .. Modulus("l") - 1

\* The condition codes and the PC are of their types, which TypeOK does not say.
IsRunning(s) ==
  /\ \A f \in FlagNames : s.sr[f] \in BOOLEAN
  /\ s.sr = [f \in DOMAIN s.sr |-> s.sr[f]]
  /\ s.pc \in Address

\* The stack of the mode that handles exceptions.
Top(s) == IF s.sr.s THEN s.a[7] ELSE s.ssp

\* Everything that the RTE of a handler gives back; to a user it does not give back A7, which
\* stays the supervisor's while the user's waits in the USP (see Cpu).
ExceptionReturns ==
  IsRunning(cpu) /\ Top(cpu) \in LongValue /\ RoomBelow(Top(cpu), 6) =>
    \A v \in DOMAIN Vectors :
      LET t == instrRte(exceptionProcess(cpu, v), [h |-> "Rte"])
      IN  /\ t.sr = cpu.sr /\ t.pc = cpu.pc /\ t.d = cpu.d
          /\ \A r \in 0 .. 6 : t.a[r] = cpu.a[r]
          /\ t.a[7] = Top(cpu) /\ t.ssp = cpu.ssp
          /\ t.usp = IF cpu.sr.s THEN cpu.usp ELSE cpu.a[7]

\* The table has a JSR for the modes that step a register too, and that step is not taken back.
Calling ==
  \/ Facing("Jsr") /\ rom[cpu.pc].m \notin {"(An)+", "-(An)"}
  \/ Facing("Bcc") /\ rom[cpu.pc].cc = "SR"

Called(s, i) == IF i.h = "Jsr" THEN instrJsr(s, i) ELSE instrBcc(s, i)

CallReturns ==
  Calling /\ cpu.pc \in Nat /\ cpu.pc + 6 < AddrSpace /\ cpu.a[7] \in LongValue /\ RoomBelow(cpu.a[7], 4) =>
    LET t == instrRts(Called(Fetched(cpu), rom[cpu.pc]), [h |-> "Rts"])
    IN  /\ t.pc \in {cpu.pc + 2, cpu.pc + 4, cpu.pc + 6}
        /\ t.d = cpu.d /\ t.sr = cpu.sr /\ \A r \in 0 .. 7 : t.a[r] = cpu.a[r]

\* A frame on A7 itself would be another matter.
LinkUnlinks ==
  Facing("Link") /\ cpu.a[7] \in LongValue /\ RoomBelow(cpu.a[7], 4) =>
    LET i == rom[cpu.pc]
        t == instrUnlk(instrLink(Fetched(cpu), i), i)
    IN  i.r \in 0 .. 6 /\ cpu.a[i.r] \in LongValue =>
          t.d = cpu.d /\ t.sr = cpu.sr /\ \A r \in 0 .. 7 : t.a[r] = cpu.a[r]

\* The registers that an instruction at hand stores, its mask a word of the code.
MaskAhead == rom[cpu.pc + 2]

\* MOVEM.L from where it has just stored them gives back each register, its pointer too.
SavesReload ==
  Facing("MovemRegToMem") /\ rom[cpu.pc].m = "(An)" /\ rom[cpu.pc].sz = "l"
      /\ cpu.pc \in Nat /\ cpu.pc + 2 < AddrSpace /\ cpu.pc + 2 \in DOMAIN rom /\ MaskAhead \in SUBSET (0 .. 15)
      /\ Room(cpu.a[rom[cpu.pc].r] % AddrSpace, 4 * Cardinality(MaskAhead)) =>
    LET i == rom[cpu.pc]
        s == Fetched(cpu)
        t == instrMovemMemToReg([instrMovemRegToMem(s, i) EXCEPT !.pc = s.pc], i)
    IN  i.r \in 0 .. 7 /\ cpu.a[i.r] \in LongValue =>
          /\ \A n \in MaskAhead : Register(cpu, n) \in LongValue => Register(t, n) = Register(cpu, n)
          /\ \A n \in (0 .. 15) \ MaskAhead : Register(t, n) = Register(cpu, n)

\* exceptions.c, branch.c, move.c: what one handler saves, another restores, each with offsets
\* of its own.  At any point of any code an exception and its RTE, a JSR and an RTS, a LINK and
\* an UNLK, and the two directions of MOVEM upwards together change nothing that they should
\* give back.
SavedRestored == ExceptionReturns /\ CallReturns /\ LinkUnlinks /\ SavesReload
=============================================================================
