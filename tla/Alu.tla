-------------------------------- MODULE Alu --------------------------------
(***************************************************************************)
(* The arithmetic and logic unit (src/src/cpu/alu.c): each operation maps  *)
(* the five condition codes and its operands to a result and the new       *)
(* condition codes.  Operands are unsigned numbers of a size; the width of *)
(* a byte and the radix of a decimal digit are parameters, 8 and 10 in the *)
(* program, so that every operand of a size can be enumerated.             *)
(***************************************************************************)
EXTENDS Integers

CONSTANTS ByteBits,    \* bits of a byte; a word has twice, a long four times as many
          Radix        \* values of a decimal digit, which is kept in half a byte

ASSUME AluAssumption ==
  /\ ByteBits \in Nat \ {0}
  /\ ByteBits % 2 = 0
  /\ Radix \in 2 .. 2^(ByteBits \div 2)

Sizes == {"b", "w", "l"}

Bytes(sz) == CASE sz = "b" -> 1 [] sz = "w" -> 2 [] sz = "l" -> 4

Bits(sz) == ByteBits * Bytes(sz)

Modulus(sz) == 2^Bits(sz)

Trunc(v, sz) == v % Modulus(sz)

Negative(v, sz) == v % Modulus(sz) >= Modulus(sz) \div 2

\* The number a two's complement pattern stands for.
Signed(v, sz) == Trunc(v, sz) - (IF Negative(v, sz) THEN Modulus(sz) ELSE 0)

\* signExtend8 and signExtend16 followed by a conversion to unsigned.
SignExtend(v, from, to) == Trunc(Signed(v, from), to)

FlagNames == {"x", "n", "z", "v", "c"}

Flags == [FlagNames -> BOOLEAN]

Out(val, f) == [val |-> val, f |-> f]

------------------------------------------------------------------------------
\* aluTestCondition
aluTestCondition(f, cc) ==
  CASE cc = "T"  -> TRUE
    [] cc = "F"  -> FALSE
    [] cc = "HI" -> ~f.c /\ ~f.z
    [] cc = "LS" -> f.c \/ f.z
    [] cc = "CC" -> ~f.c
    [] cc = "CS" -> f.c
    [] cc = "NE" -> ~f.z
    [] cc = "EQ" -> f.z
    [] cc = "VC" -> ~f.v
    [] cc = "VS" -> f.v
    [] cc = "PL" -> ~f.n
    [] cc = "MI" -> f.n
    [] cc = "GE" -> f.n = f.v
    [] cc = "LT" -> f.n # f.v
    [] cc = "GT" -> f.n = f.v /\ ~f.z
    [] cc = "LE" -> f.z \/ f.n # f.v

aluSetNZ(f, val, sz) ==
  [f EXCEPT !.n = Negative(val, sz), !.z = Trunc(val, sz) = 0]

aluSetLogicFlags(f, val, sz) ==
  [aluSetNZ(f, val, sz) EXCEPT !.v = FALSE, !.c = FALSE]

aluSetClrFlags(f) ==
  [f EXCEPT !.n = FALSE, !.z = TRUE, !.v = FALSE, !.c = FALSE]

\* ADDX, SUBX and NEGX only ever clear Z, so that it tells of all the limbs.
StickyNZ(f, val, sz) ==
  [f EXCEPT !.n = Negative(val, sz), !.z = @ /\ val = 0]

XBit(f) == IF f.x THEN 1 ELSE 0

Carried(f, carry) == [f EXCEPT !.c = carry, !.x = carry]

\* The operands agree in sign and the result does not.
AddOverflow(src, dst, val, sz) ==
  /\ Negative(src, sz) = Negative(dst, sz)
  /\ Negative(val, sz) # Negative(dst, sz)

\* The operands differ in sign and the result has not the sign of dst.
SubOverflow(src, dst, val, sz) ==
  /\ Negative(src, sz) # Negative(dst, sz)
  /\ Negative(val, sz) # Negative(dst, sz)

aluAdd(f, src, dst, sz) ==
  LET s == Trunc(src, sz)
      d == Trunc(dst, sz)
      val == Trunc(s + d, sz)
      g == [Carried(f, s + d >= Modulus(sz)) EXCEPT !.v = AddOverflow(s, d, val, sz)]
  IN  Out(val, aluSetNZ(g, val, sz))

aluAddX(f, src, dst, sz) ==
  LET s == Trunc(src, sz)
      d == Trunc(dst, sz)
      val == Trunc(s + d + XBit(f), sz)
      g == [Carried(f, s + d + XBit(f) >= Modulus(sz)) EXCEPT !.v = AddOverflow(s, d, val, sz)]
  IN  Out(val, StickyNZ(g, val, sz))

aluSub(f, src, dst, sz) ==
  LET s == Trunc(src, sz)
      d == Trunc(dst, sz)
      val == Trunc(d - s, sz)
      g == [Carried(f, s > d) EXCEPT !.v = SubOverflow(s, d, val, sz)]
  IN  Out(val, aluSetNZ(g, val, sz))

aluSubX(f, src, dst, sz) ==
  LET s == Trunc(src, sz)
      d == Trunc(dst, sz)
      val == Trunc(d - s - XBit(f), sz)
      g == [Carried(f, s + XBit(f) > d) EXCEPT !.v = SubOverflow(s, d, val, sz)]
  IN  Out(val, StickyNZ(g, val, sz))

aluNeg(f, val, sz) ==
  LET res == Trunc(0 - val, sz)
      g == [Carried(f, Trunc(val, sz) # 0)
              EXCEPT !.v = Negative(val, sz) /\ Negative(res, sz)]
  IN  Out(res, aluSetNZ(g, res, sz))

aluNegX(f, val, sz) ==
  LET res == Trunc(0 - val - XBit(f), sz)
      g == [Carried(f, Trunc(val, sz) + XBit(f) # 0)
              EXCEPT !.v = Negative(val, sz) /\ Negative(res, sz)]
  IN  Out(res, StickyNZ(g, res, sz))

\* A subtraction that leaves its operands and X alone.
aluCmp(f, src, dst, sz) == [aluSub(f, src, dst, sz).f EXCEPT !.x = f.x]

\* What a condition should say of the two numbers compared.
Relation(cc, a, b, sz) ==
  LET x == Signed(a, sz)
      y == Signed(b, sz)
      out == x - y \notin -(Modulus(sz) \div 2) .. Modulus(sz) \div 2 - 1
  IN  CASE cc = "T" -> TRUE   [] cc = "F" -> FALSE
        [] cc = "HI" -> a > b [] cc = "LS" -> a <= b
        [] cc = "CC" -> a >= b [] cc = "CS" -> a < b
        [] cc = "NE" -> a # b [] cc = "EQ" -> a = b
        [] cc = "VC" -> ~out  [] cc = "VS" -> out
        [] cc = "PL" -> (x >= y) # out [] cc = "MI" -> (x < y) # out
        [] cc = "GE" -> x >= y [] cc = "LT" -> x < y
        [] cc = "GT" -> x > y  [] cc = "LE" -> x <= y

------------------------------------------------------------------------------
Bit(v, i) == (v \div 2^i) % 2

\* The number of n bits.
FromBits(bit, n) ==
  LET sum[k \in 0 .. n] == IF k = 0 THEN 0 ELSE sum[k - 1] + 2^(k - 1) * bit[k - 1]
  IN  sum[n]

Bitwise(Op(_, _), a, b, sz) == FromBits([i \in 0 .. Bits(sz) - 1 |-> Op(Bit(a, i), Bit(b, i))], Bits(sz))

Logic(f, val, sz) == Out(val, aluSetLogicFlags(f, val, sz))

aluAnd(f, src, dst, sz) == Logic(f, Bitwise(LAMBDA p, q : p * q, src, dst, sz), sz)

aluOr(f, src, dst, sz) == Logic(f, Bitwise(LAMBDA p, q : p + q - p * q, src, dst, sz), sz)

aluEor(f, src, dst, sz) == Logic(f, Bitwise(LAMBDA p, q : (p + q) % 2, src, dst, sz), sz)

aluNot(f, val, sz) == Logic(f, Modulus(sz) - 1 - Trunc(val, sz), sz)

------------------------------------------------------------------------------
(***************************************************************************)
(* Shifts and rotates move one bit at a time, count times.                 *)
(***************************************************************************)
\* One bit out of the left or the right end, and a given one in at the other.
Left(s, in, sz)  == [s EXCEPT !.val = Trunc(2 * @ + in, sz), !.out = Bit(s.val, Bits(sz) - 1)]
Right(s, in, sz) == [s EXCEPT !.val = @ \div 2 + in * (Modulus(sz) \div 2), !.out = s.val % 2]

\* The number, the last bit out, the sign at first, and whether a turn has changed it.
Shifter(val, sz) ==
  [val |-> Trunc(val, sz), out |-> 0, sign |-> IF Negative(val, sz) THEN 1 ELSE 0, v |-> FALSE]

\* A turn of the loop of each operation.
SignWatched(t, s, sz) == [t EXCEPT !.v = @ \/ Negative(t.val, sz) # Negative(s.val, sz)]
Turn(op, s, sz) ==
  CASE op = "ASL"  -> SignWatched(Left(s, 0, sz), s, sz)
    [] op = "LSL"  -> Left(s, 0, sz)
    [] op = "ROL"  -> Left(s, Bit(s.val, Bits(sz) - 1), sz)
    [] op = "ROXL" -> Left(s, s.out, sz)
    [] op = "ASR"  -> Right(s, s.sign, sz)
    [] op = "LSR"  -> Right(s, 0, sz)
    [] op = "ROR"  -> Right(s, s.val % 2, sz)
    [] op = "ROXR" -> Right(s, s.out, sz)
Turns(op, s, count, sz) ==
  LET after[n \in 0 .. count] == IF n = 0 THEN s ELSE Turn(op, after[n - 1], sz)
  IN  after[count]

\* C is the last bit shifted out, and no bit for a count of 0; X as C, but kept for 0.
Shifted(op, f, val, count, sz) ==
  LET s == Turns(op, Shifter(val, sz), count, sz)
      g == [f EXCEPT !.c = s.out = 1, !.x = IF count > 0 THEN s.out = 1 ELSE @, !.v = s.v]
  IN  Out(s.val, aluSetNZ(g, s.val, sz))

\* X is not affected.
Rotated(op, f, val, count, sz) == [Shifted(op, f, val, count, sz) EXCEPT !.f.x = f.x]

\* X is a bit of the ring: it goes in and the bit that comes out replaces it,
\* so that C = X afterwards even for a count of 0.
Extended(op, f, val, count, sz) ==
  LET s == Turns(op, [Shifter(val, sz) EXCEPT !.out = XBit(f)], count, sz)
      g == [f EXCEPT !.c = s.out = 1, !.x = s.out = 1, !.v = FALSE]
  IN  Out(s.val, aluSetNZ(g, s.val, sz))

aluAsl(f, val, count, sz)  == Shifted("ASL", f, val, count, sz)
aluAsr(f, val, count, sz)  == Shifted("ASR", f, val, count, sz)
aluLsl(f, val, count, sz)  == Shifted("LSL", f, val, count, sz)
aluLsr(f, val, count, sz)  == Shifted("LSR", f, val, count, sz)
aluRol(f, val, count, sz)  == Rotated("ROL", f, val, count, sz)
aluRor(f, val, count, sz)  == Rotated("ROR", f, val, count, sz)
aluRoxl(f, val, count, sz) == Extended("ROXL", f, val, count, sz)
aluRoxr(f, val, count, sz) == Extended("ROXR", f, val, count, sz)

------------------------------------------------------------------------------
aluMulu(f, src, dst) ==
  LET val == Trunc(src, "w") * Trunc(dst, "w")
  IN  Logic(f, val, "l")

aluMuls(f, src, dst) ==
  LET val == Trunc(Signed(src, "w") * Signed(dst, "w"), "l")
  IN  Logic(f, val, "l")

\* The remainder in the high word, the quotient in the low one.
Packed(quotient, remainder) ==
  Trunc(remainder, "w") * Modulus("w") + Trunc(quotient, "w")

\* A quotient of more than a word leaves the dividend and sets V alone.
Divided(f, dividend, quotient, remainder, fits) ==
  IF fits THEN Out(Packed(quotient, remainder), aluSetLogicFlags(f, quotient, "w"))
          ELSE Out(dividend, [f EXCEPT !.v = TRUE])

aluDivu(f, dividend, divisor) ==
  LET q == dividend \div divisor
  IN  Divided(f, dividend, q, dividend % divisor, q < Modulus("w"))

FlooredQuotient(a, b) == IF b < 0 THEN (-a) \div (-b) ELSE a \div b     \* a mutant of the next

\* Division of C, which rounds towards zero; its remainder has the dividend's sign.
Quotient(a, b) ==
  LET Abs(n) == IF n < 0 THEN -n ELSE n
      q == Abs(a) \div Abs(b)
  IN  IF (a < 0) = (b < 0) THEN q ELSE -q

\* The most negative dividend by -1 is undefined in C, and traps on the usual
\* hosts: no state of the model divides them.
aluDivs(f, dividend, divisor) ==
  LET a == Signed(dividend, "l")
      b == Signed(divisor, "w")
      q == Quotient(a, b)
      half == Modulus("w") \div 2
  IN  Divided(f, dividend, q, a - q * b, q \in -half .. half - 1)

------------------------------------------------------------------------------
(***************************************************************************)
(* Decimal arithmetic on the two digits of a byte, each in half of it.     *)
(***************************************************************************)
Nibble == 2^(ByteBits \div 2)

Low(v) == v % Nibble

High(v) == Nibble * (v \div Nibble)

Decimal(f, val, carry) ==
  LET val1 == Trunc(val, "b")
  IN  Out(val1, [Carried(f, carry) EXCEPT !.z = @ /\ val1 = 0])

\* The corrections are 6 and $60 in the program, where a nibble has 16 values;
\* the largest decimal byte is $99.
aluAbcd(f, src, dst) ==
  LET low == Low(dst) + Low(src) + XBit(f)
      sum == High(dst) + High(src) + low + (IF low >= Radix THEN Nibble - Radix ELSE 0)
      carry == sum > (Radix - 1) * Nibble + Radix - 1
  IN  Decimal(f, sum + (IF carry THEN (Nibble - Radix) * Nibble ELSE 0), carry)

aluSbcd(f, src, dst) ==
  LET low == Low(dst) - Low(src) - XBit(f)
      diff == High(dst) - High(src) + low + (IF low < 0 THEN Radix - Nibble ELSE 0)
  IN  Decimal(f, diff + (IF diff < 0 THEN Radix * Nibble ELSE 0), diff < 0)

aluNbcd(f, val) == aluSbcd(f, val, 0)
=============================================================================
