----------------------------- MODULE AluProofs -----------------------------
(***************************************************************************)
(* Theorems about the arithmetic of the program's own widths, bytes of 8   *)
(* bits and digits below 10, for every operand and all condition codes:    *)
(* what comparisons decide, arithmetic on numbers of any number of limbs,  *)
(* in binary and in decimal digits, division, shifts and rotations by any  *)
(* count, and bitwise logic.                                               *)
(***************************************************************************)
EXTENDS Alu, Basics

(* Sizes.  Numbers of 16 and 32 bits are written as powers and as moduli: the *)
(* moduli are twice a number, and that is all that the proofs need to know. *)

LEMMA Widths ==
  ASSUME ByteBits = 8, NEW sz \in Sizes
  PROVE  Modulus(sz) \in {256, 65536, 4294967296}
<1>1. 2^8 = 256 /\ 2^16 = 65536 /\ 2^32 = 4294967296
  OBVIOUS
<1>2. CASE sz = "b"
  <2>1. Bits(sz) = 8
    BY <1>2 DEF Bits, Bytes
  <2>2. QED BY <2>1, <1>1 DEF Modulus
<1>3. CASE sz = "w"
  <2>1. Bits(sz) = 16
    BY <1>3 DEF Bits, Bytes
  <2>2. QED BY <2>1, <1>1 DEF Modulus
<1>4. CASE sz = "l"
  <2>1. Bits(sz) = 32
    BY <1>4 DEF Bits, Bytes
  <2>2. QED BY <2>1, <1>1 DEF Modulus
<1>5. QED BY <1>2, <1>3, <1>4 DEF Sizes

LEMMA Halves ==
  ASSUME ByteBits = 8, NEW sz \in Sizes
  PROVE  \E h \in Nat \ {0} : Modulus(sz) = 2 * h /\ Modulus(sz) \div 2 = h
<1>1. CASE Modulus(sz) = 256
  <2>1. 256 = 2 * 128 /\ 256 \div 2 = 128
    OBVIOUS
  <2>2. QED BY <1>1, <2>1
<1>2. CASE Modulus(sz) = 65536
  <2>1. 65536 = 2 * 32768 /\ 65536 \div 2 = 32768
    OBVIOUS
  <2>2. QED BY <1>2, <2>1
<1>3. CASE Modulus(sz) = 4294967296
  <2>1. 4294967296 = 2 * 2147483648 /\ 4294967296 \div 2 = 2147483648
    OBVIOUS
  <2>2. QED BY <1>3, <2>1
<1>4. QED BY <1>1, <1>2, <1>3, Widths

\* An operand of a size, and its sign: the two's complement number is less by the modulus
\* from the half on.
LEMMA OperandRange ==
  ASSUME ByteBits = 8, NEW sz \in Sizes, NEW v \in Int
  PROVE  Trunc(v, sz) \in 0 .. Modulus(sz) - 1
<1>1. QED BY Widths DEF Trunc

LEMMA Signs ==
  ASSUME ByteBits = 8, NEW sz \in Sizes, NEW h \in Nat \ {0}, Modulus(sz) = 2 * h,
         NEW v \in 0 .. Modulus(sz) - 1
  PROVE  /\ Trunc(v, sz) = v
         /\ Negative(v, sz) = (v >= h)
         /\ Signed(v, sz) = IF v >= h THEN v - 2 * h ELSE v
<1>1. Modulus(sz) \div 2 = h
  BY Halves
<1>2. v % (2 * h) = v
  <2>1. 2 * h \in Nat \ {0} /\ 2 * h * 0 + v = v
    OBVIOUS
  <2>2. (2 * h * 0 + v) % (2 * h) = v
    BY <2>1, ModIs
  <2>3. QED BY <2>1, <2>2
<1>3. QED BY <1>1, <1>2 DEF Trunc, Negative, Signed

----------------------------------------------------------------------------
(* Comparisons *)

\* What the subtraction that compares tells, for operands that fit.
LEMMA Compared ==
  ASSUME ByteBits = 8, NEW sz \in Sizes, NEW f \in Flags, NEW src \in Int, NEW dst \in Int,
         NEW h \in Nat \ {0}, Modulus(sz) = 2 * h
  PROVE  LET s == Trunc(src, sz)
             d == Trunc(dst, sz)
             o == IF s > d THEN d - s + 2 * h ELSE d - s
             g == aluCmp(f, src, dst, sz)
         IN  /\ g.c = (s > d)
             /\ g.z = (o = 0)
             /\ g.n = (o >= h)
             /\ g.v = ((s >= h) # (d >= h) /\ (o >= h) # (d >= h))
<1> DEFINE s == Trunc(src, sz)
           d == Trunc(dst, sz)
           o == IF s > d THEN d - s + 2 * h ELSE d - s
<1>1. s \in 0 .. 2 * h - 1 /\ d \in 0 .. 2 * h - 1
  BY OperandRange
<1>2. o \in 0 .. 2 * h - 1
  BY <1>1
<1>3. Trunc(d - s, sz) = o
  <2> HIDE DEF s, d
  <2>1. (d - s) % (2 * h) = IF d - s < 0 THEN d - s + 2 * h ELSE IF d - s < 2 * h THEN d - s ELSE d - s - 2 * h
    <3>1. 2 * h \in Nat \ {0} /\ d - s \in Int /\ 0 - 2 * h <= d - s /\ d - s < 2 * (2 * h)
      BY <1>1
    <3>2. QED BY <3>1, ModWrap
  <2>2. QED BY <2>1, <1>1 DEF Trunc
<1>4. Trunc(o, sz) = o /\ Negative(o, sz) = (o >= h)
  <2> HIDE DEF o
  <2>1. QED BY <1>2, Signs
<1>5. Negative(s, sz) = (s >= h) /\ Negative(d, sz) = (d >= h)
  <2> HIDE DEF s, d
  <2>1. QED BY <1>1, Signs
<1>6. SubOverflow(s, d, o, sz) = ((s >= h) # (d >= h) /\ (o >= h) # (d >= h))
  BY <1>4, <1>5, Zenon DEF SubOverflow
<1>7. aluSub(f, src, dst, sz).f = aluSetNZ([Carried(f, s > d) EXCEPT !.v = SubOverflow(s, d, o, sz)], o, sz)
  BY <1>3, Zenon DEF aluSub, Out
<1>8. DOMAIN f = {"x", "n", "z", "v", "c"}
  BY DEF Flags, FlagNames
<1>9. LET g == aluSetNZ([Carried(f, s > d) EXCEPT !.v = SubOverflow(s, d, o, sz)], o, sz)
      IN  g.c = (s > d) /\ g.z = (o = 0) /\ g.n = (o >= h) /\ g.v = SubOverflow(s, d, o, sz) /\ DOMAIN g = DOMAIN f
  <2> HIDE DEF s, d, o
  <2>1. QED BY <1>4, <1>8, Zenon DEF aluSetNZ, Carried
<1>10. QED BY <1>6, <1>7, <1>8, <1>9, Zenon DEF aluCmp

\* alu.c, aluTestCondition: after a comparison of any two operands of any size, whatever the
\* condition codes were and whatever the subtraction overflows, every condition is the
\* relation of its name between the two numbers, the unsigned ones and the signed ones.
THEOREM CompareDecides ==
  ASSUME ByteBits = 8, NEW sz \in Sizes, NEW f \in Flags, NEW src \in Int, NEW dst \in Int,
         NEW cc \in {"T", "F", "HI", "LS", "CC", "CS", "NE", "EQ",
                     "VC", "VS", "PL", "MI", "GE", "LT", "GT", "LE"}
  PROVE  aluTestCondition(aluCmp(f, src, dst, sz), cc)
           = Relation(cc, Trunc(dst, sz), Trunc(src, sz), sz)
<1>1. PICK h \in Nat \ {0} : Modulus(sz) = 2 * h /\ Modulus(sz) \div 2 = h
  BY Halves
<1> DEFINE s == Trunc(src, sz)
           d == Trunc(dst, sz)
           o == IF s > d THEN d - s + 2 * h ELSE d - s
           x == Signed(d, sz)
           y == Signed(s, sz)
           g == aluCmp(f, src, dst, sz)
           out == x - y \notin -h .. h - 1
<1>2. s \in 0 .. 2 * h - 1 /\ d \in 0 .. 2 * h - 1
  BY <1>1, OperandRange
<1>3. /\ g.c = (s > d)
      /\ g.z = (o = 0)
      /\ g.n = (o >= h)
      /\ g.v = ((s >= h) # (d >= h) /\ (o >= h) # (d >= h))
  BY <1>1, Compared
<1>4. x = (IF d >= h THEN d - 2 * h ELSE d) /\ y = (IF s >= h THEN s - 2 * h ELSE s)
  <2> HIDE DEF s, d
  <2>1. QED BY <1>1, <1>2, Signs
<1> HIDE DEF s, d, x, y, g
<1>5. /\ (o = 0) = (d = s)
      /\ ((s >= h) # (d >= h) /\ (o >= h) # (d >= h)) = out
      /\ (o >= h) = ((x < y) # out)
      /\ ((o >= h) = out) = (x >= y)
      /\ x = y <=> d = s
  BY <1>2, <1>4
<1>6. g.c = (d < s) /\ g.z = (d = s) /\ g.v = out /\ g.n = ((x < y) # out) /\ (g.n = g.v) = (x >= y)
  <2> HIDE DEF out, o
  <2>1. (s > d) = (d < s)
    BY <1>2
  <2>2. QED BY <1>3, <1>5, <2>1, Zenon
<1>7. x \in Int /\ y \in Int
  BY <1>2, <1>4
<1>8. Relation(cc, d, s, sz) =
        CASE cc = "T" -> TRUE   [] cc = "F" -> FALSE
          [] cc = "HI" -> d > s [] cc = "LS" -> d <= s
          [] cc = "CC" -> d >= s [] cc = "CS" -> d < s
          [] cc = "NE" -> d # s [] cc = "EQ" -> d = s
          [] cc = "VC" -> ~out  [] cc = "VS" -> out
          [] cc = "PL" -> (x >= y) # out [] cc = "MI" -> (x < y) # out
          [] cc = "GE" -> x >= y [] cc = "LT" -> x < y
          [] cc = "GT" -> x > y  [] cc = "LE" -> x <= y
  BY <1>1, Zenon DEF Relation, x, y
<1> HIDE DEF out
<1>9. /\ (d > s) = (~(d < s) /\ ~(d = s)) /\ (d <= s) = (d < s \/ d = s) /\ (d >= s) = ~(d < s)
      /\ (x < y) = ~(x >= y) /\ (x > y) = (x >= y /\ ~(d = s)) /\ (x <= y) = (d = s \/ x < y)
  BY <1>2, <1>5, <1>7
<1>10. (g.n # g.v) = (x < y) /\ ~g.n = ((x >= y) # out)
  <2>1. (x >= y) \in BOOLEAN /\ (x < y) \in BOOLEAN /\ out \in BOOLEAN
    BY DEF out
  <2>2. CASE x < y /\ out
    BY <1>6, <1>9, <2>1, <2>2, Zenon
  <2>3. CASE x < y /\ ~out
    BY <1>6, <1>9, <2>1, <2>3, Zenon
  <2>4. CASE ~(x < y) /\ out
    BY <1>6, <1>9, <2>1, <2>4, Zenon
  <2>5. CASE ~(x < y) /\ ~out
    BY <1>6, <1>9, <2>1, <2>5, Zenon
  <2>6. QED BY <2>1, <2>2, <2>3, <2>4, <2>5, Zenon
<1>11. CASE cc \in {"T", "F", "VC", "VS"}
  BY <1>6, <1>8, <1>11, Zenon DEF aluTestCondition, s, d, g
<1>12. CASE cc \in {"HI", "LS", "CC", "CS", "NE", "EQ"}
  BY <1>6, <1>8, <1>9, <1>12, Zenon DEF aluTestCondition, s, d, g
<1>13. CASE cc \in {"PL", "MI"}
  BY <1>6, <1>8, <1>10, <1>13, Zenon DEF aluTestCondition, s, d, g
<1>14. CASE cc \in {"GE", "LT", "GT", "LE"}
  BY <1>6, <1>8, <1>9, <1>10, <1>14, Zenon DEF aluTestCondition, s, d, g
<1>15. QED BY <1>11, <1>12, <1>13, <1>14

----------------------------------------------------------------------------
(***************************************************************************)
(* Numbers of any number of limbs.  The limbs that a chain of operations   *)
(* has passed hold numbers below weight; the next limb is worth weight.    *)
(***************************************************************************)

\* The two's complement number of a pattern below weight.
SignedIn(weight, v) == IF 2 * v >= weight THEN v - weight ELSE v

\* So far val is the sum of x and y, or x without y, with the carry in X and Z about all of it.
Summed(weight, x, y, val, f) ==
  /\ x \in 0 .. weight - 1 /\ y \in 0 .. weight - 1 /\ val \in 0 .. weight - 1
  /\ val + weight * XBit(f) = x + y
  /\ f.z = (val = 0)

Subtracted(weight, x, y, val, f) ==
  /\ x \in 0 .. weight - 1 /\ y \in 0 .. weight - 1 /\ val \in 0 .. weight - 1
  /\ val - weight * XBit(f) = x - y
  /\ f.z = (val = 0)

\* What the condition codes say of a result, and of the exact number it should be.
Told(weight, val, exact, f) ==
  /\ f.c = f.x
  /\ f.n = (2 * val >= weight)
  /\ f.v = (SignedIn(weight, val) # exact)

\* A limb more: the number it makes, below the new weight, and its sign, which is the limb's.
LEMMA LimbRange ==
  ASSUME NEW w \in Nat \ {0}, NEW m \in Nat \ {0}, NEW a \in 0 .. m - 1, NEW x \in 0 .. w - 1
  PROVE  /\ w * m \in Nat \ {0} /\ w * a \in Nat
         /\ w * a + x \in 0 .. w * m - 1
         /\ (w * a + x = 0) = (a = 0 /\ x = 0)
<1>1. w * m \in Nat /\ w * a \in Nat
  OBVIOUS
<1>2. w * m >= w
  <2>1. w * m >= w * 1
    OBVIOUS
  <2>2. QED BY <2>1
<1>3. w * a <= w * m - w
  <2>1. w * a <= w * (m - 1)
    OBVIOUS
  <2>2. w * (m - 1) = w * m - w
    OBVIOUS
  <2>3. QED BY <2>1, <2>2
<1>4. a > 0 => w * a >= w
  <2>1. ASSUME a > 0 PROVE w * a >= w * 1
    BY <2>1
  <2>2. QED BY <2>1
<1>5. a = 0 => w * a = 0
  OBVIOUS
<1> DEFINE wa == w * a
           wm == w * m
<1> HIDE DEF wa, wm
<1>6. /\ wm \in Nat \ {0} /\ wa \in Nat
      /\ wa + x \in 0 .. wm - 1
      /\ (wa + x = 0) = (a = 0 /\ x = 0)
  <2>1. wm \in Nat /\ wa \in Nat /\ wm >= w /\ wa <= wm - w /\ (a > 0 => wa >= w) /\ (a = 0 => wa = 0)
    BY <1>1, <1>2, <1>3, <1>4, <1>5 DEF wa, wm
  <2>2. QED BY <2>1
<1>7. QED BY <1>6 DEF wa, wm

LEMMA Limb ==
  ASSUME NEW w \in Nat \ {0}, NEW h \in Nat \ {0}, NEW m \in Int, m = 2 * h,
         NEW a \in 0 .. m - 1, NEW x \in 0 .. w - 1,
         NEW above \in Int, above = w * m, NEW whole \in Int, whole = w * a + x
  PROVE  /\ whole \in 0 .. above - 1
         /\ (whole = 0) = (a = 0 /\ x = 0)
         /\ (2 * whole >= above) = (a >= h)
<1>1. m \in Nat \ {0}
  OBVIOUS
<1>2. above \in Nat /\ whole \in 0 .. above - 1 /\ (whole = 0) = (a = 0 /\ x = 0)
  BY <1>1, LimbRange
<1> DEFINE wa == w * a
           wh == w * h
<1>3. wa \in Nat /\ wh \in Nat /\ w * (2 * h) = 2 * wh
  OBVIOUS
<1>4. a >= h => wa >= wh
  OBVIOUS
<1>5. a < h => wa <= wh - w
  <2>1. ASSUME a < h PROVE w * a <= w * (h - 1)
    BY <2>1
  <2>2. w * (h - 1) = w * h - w
    OBVIOUS
  <2>3. QED BY <2>1, <2>2
<1>6. whole = wa + x /\ above = 2 * wh
  BY <1>3
<1> HIDE DEF wa, wh
<1>7. (2 * whole >= above) = (a >= h)
  BY <1>2, <1>3, <1>4, <1>5, <1>6
<1>8. QED BY <1>2, <1>7

\* The sum and the difference with a limb more, from those of the limbs and of the one.
LEMMA LongerSum ==
  ASSUME NEW w \in Nat \ {0}, NEW m \in Nat \ {0}, NEW k \in 0 .. 1, NEW c \in 0 .. 1,
         NEW a \in 0 .. m - 1, NEW b \in 0 .. m - 1, NEW o \in 0 .. m - 1,
         NEW x \in 0 .. w - 1, NEW y \in 0 .. w - 1, NEW v \in 0 .. w - 1
  PROVE  /\ v + w * k = x + y /\ o + m * c = a + b + k
              => (w * o + v) + (w * m) * c = (w * a + x) + (w * b + y)
         /\ v - w * k = x - y /\ o - m * c = a - b - k
              => (w * o + v) - (w * m) * c = (w * a + x) - (w * b + y)
<1> DEFINE wa == w * a
           wb == w * b
           wo == w * o
           wk == w * k
           wmc == (w * m) * c
<1>1. wa \in Int /\ wb \in Int /\ wo \in Int /\ wk \in Int /\ wmc \in Int
  OBVIOUS
<1>2. w * (o + m * c) = wo + wmc /\ w * (o - m * c) = wo - wmc
  OBVIOUS
<1>3. w * (a + b + k) = wa + wb + wk /\ w * (a - b - k) = wa - wb - wk
  OBVIOUS
<1> HIDE DEF wa, wb, wo, wk, wmc
<1>4. ASSUME v + wk = x + y, wo + wmc = wa + wb + wk
      PROVE  (wo + v) + wmc = (wa + x) + (wb + y)
  BY <1>1, <1>4
<1>5. ASSUME v - wk = x - y, wo - wmc = wa - wb - wk
      PROVE  (wo + v) - wmc = (wa + x) - (wb + y)
  BY <1>1, <1>5
<1>6. (o + m * c = a + b + k => wo + wmc = wa + wb + wk) /\ (o - m * c = a - b - k => wo - wmc = wa - wb - wk)
  BY <1>2, <1>3, Zenon
<1>7. QED BY <1>4, <1>5, <1>6, Zenon DEF wa, wb, wo, wk, wmc

\* One ADDX and one SUBX, in the numbers of its limb.
LEMMA AddXIs ==
  ASSUME ByteBits = 8, NEW sz \in Sizes, NEW f \in Flags, NEW src \in Int, NEW dst \in Int,
         NEW h \in Nat \ {0}, Modulus(sz) = 2 * h
  PROVE  LET s == Trunc(src, sz)
             d == Trunc(dst, sz)
             out == aluAddX(f, src, dst, sz)
         IN  /\ out.val \in 0 .. 2 * h - 1
             /\ out.val + 2 * h * XBit(out.f) = s + d + XBit(f)
             /\ out.f.c = out.f.x
             /\ out.f.x \in BOOLEAN
             /\ out.f.z = (f.z /\ out.val = 0)
             /\ out.f.n = (out.val >= h)
             /\ out.f.v = ((s >= h) = (d >= h) /\ (out.val >= h) # (d >= h))
<1> DEFINE s == Trunc(src, sz)
           d == Trunc(dst, sz)
           k == XBit(f)
           t == s + d + k
           c == t >= 2 * h
           o == IF c THEN t - 2 * h ELSE t
           v == (s >= h) = (d >= h) /\ (o >= h) # (d >= h)
<1>1. s \in 0 .. 2 * h - 1 /\ d \in 0 .. 2 * h - 1 /\ k \in 0 .. 1
  BY OperandRange DEF XBit
<1> HIDE DEF s, d, k
<1>2. o \in 0 .. 2 * h - 1 /\ t \in 0 .. 4 * h - 1
  BY <1>1
<1>3. Trunc(t, sz) = o
  <2>1. t \in Int /\ 2 * h \in Nat \ {0} /\ 0 - 2 * h <= t /\ t < 2 * (2 * h)
    BY <1>1
  <2> HIDE DEF t
  <2>2. t % (2 * h) = IF t < 0 THEN t + 2 * h ELSE IF t < 2 * h THEN t ELSE t - 2 * h
    BY <2>1, ModWrap
  <2>3. t \in 0 .. 4 * h - 1
    BY <1>2 DEF t
  <2>4. QED BY <2>2, <2>3 DEF Trunc
<1>4. Negative(o, sz) = (o >= h)
  <2> HIDE DEF o
  <2>1. QED BY <1>2, Signs
<1>5. Negative(s, sz) = (s >= h) /\ Negative(d, sz) = (d >= h)
  BY <1>1, Signs
<1>6. AddOverflow(s, d, o, sz) = v
  BY <1>4, <1>5, Zenon DEF AddOverflow
<1> DEFINE g == StickyNZ([Carried(f, c) EXCEPT !.v = v], o, sz)
<1>7. aluAddX(f, src, dst, sz) = Out(o, g)
  BY <1>3, <1>6, Zenon DEF aluAddX, s, d, k
<1>8. DOMAIN f = {"x", "n", "z", "v", "c"}
  BY DEF Flags, FlagNames
<1>9. g.c = c /\ g.x = c /\ g.n = (o >= h) /\ g.z = (f.z /\ o = 0) /\ g.v = v
  <2> HIDE DEF c, o, v
  <2>1. QED BY <1>4, <1>8, Zenon DEF StickyNZ, Carried
<1>10. o + 2 * h * XBit(g) = t /\ c \in BOOLEAN
  <2>1. XBit(g) = IF c THEN 1 ELSE 0
    BY <1>9, Zenon DEF XBit
  <2> HIDE DEF g
  <2>2. QED BY <1>1, <2>1
<1> HIDE DEF g, o, c, t, v
<1>11. aluAddX(f, src, dst, sz).val = o /\ aluAddX(f, src, dst, sz).f = g
  BY <1>7 DEF Out
<1>12. QED BY <1>2, <1>9, <1>10, <1>11, Zenon DEF t, s, d, k, v

LEMMA SubXIs ==
  ASSUME ByteBits = 8, NEW sz \in Sizes, NEW f \in Flags, NEW src \in Int, NEW dst \in Int,
         NEW h \in Nat \ {0}, Modulus(sz) = 2 * h
  PROVE  LET s == Trunc(src, sz)
             d == Trunc(dst, sz)
             out == aluSubX(f, src, dst, sz)
         IN  /\ out.val \in 0 .. 2 * h - 1
             /\ out.val - 2 * h * XBit(out.f) = d - s - XBit(f)
             /\ out.f.c = out.f.x
             /\ out.f.x \in BOOLEAN
             /\ out.f.z = (f.z /\ out.val = 0)
             /\ out.f.n = (out.val >= h)
             /\ out.f.v = ((s >= h) # (d >= h) /\ (out.val >= h) # (d >= h))
<1> DEFINE s == Trunc(src, sz)
           d == Trunc(dst, sz)
           k == XBit(f)
           t == d - s - k
           c == s + k > d
           o == IF c THEN t + 2 * h ELSE t
           v == (s >= h) # (d >= h) /\ (o >= h) # (d >= h)
<1>1. s \in 0 .. 2 * h - 1 /\ d \in 0 .. 2 * h - 1 /\ k \in 0 .. 1
  BY OperandRange DEF XBit
<1> HIDE DEF s, d, k
<1>2. o \in 0 .. 2 * h - 1 /\ t \in -2 * h .. 2 * h - 1 /\ c = (t < 0)
  BY <1>1
<1>3. Trunc(t, sz) = o
  <2>1. t \in Int /\ 2 * h \in Nat \ {0} /\ 0 - 2 * h <= t /\ t < 2 * (2 * h)
    BY <1>1
  <2> HIDE DEF t, c
  <2>2. t % (2 * h) = IF t < 0 THEN t + 2 * h ELSE IF t < 2 * h THEN t ELSE t - 2 * h
    BY <2>1, ModWrap
  <2>3. QED BY <2>2, <1>2 DEF Trunc
<1>4. Negative(o, sz) = (o >= h)
  <2> HIDE DEF o
  <2>1. QED BY <1>2, Signs
<1>5. Negative(s, sz) = (s >= h) /\ Negative(d, sz) = (d >= h)
  BY <1>1, Signs
<1>6. SubOverflow(s, d, o, sz) = v
  BY <1>4, <1>5, Zenon DEF SubOverflow
<1> DEFINE g == StickyNZ([Carried(f, c) EXCEPT !.v = v], o, sz)
<1>7. aluSubX(f, src, dst, sz) = Out(o, g)
  BY <1>3, <1>6, Zenon DEF aluSubX, s, d, k
<1>8. DOMAIN f = {"x", "n", "z", "v", "c"}
  BY DEF Flags, FlagNames
<1>9. g.c = c /\ g.x = c /\ g.n = (o >= h) /\ g.z = (f.z /\ o = 0) /\ g.v = v
  <2> HIDE DEF c, o, v
  <2>1. QED BY <1>4, <1>8, Zenon DEF StickyNZ, Carried
<1>10. o - 2 * h * XBit(g) = t /\ c \in BOOLEAN
  <2>1. XBit(g) = IF c THEN 1 ELSE 0
    BY <1>9, Zenon DEF XBit
  <2> HIDE DEF g
  <2>2. QED BY <1>1, <2>1
<1> HIDE DEF g, o, c, t, v
<1>11. aluSubX(f, src, dst, sz).val = o /\ aluSubX(f, src, dst, sz).f = g
  BY <1>7 DEF Out
<1>12. QED BY <1>2, <1>9, <1>10, <1>11, Zenon DEF t, s, d, k, v

\* alu.c, aluAddX: one limb more.  Where the limbs so far are the sum of two numbers, of
\* whatever length, with its carry in X, the limbs with the next one are the sum of the longer
\* numbers: carry and Z tell of the whole, N is its sign, and V says that the sum of the two's
\* complement numbers does not fit.
THEOREM LimbSummed ==
  ASSUME ByteBits = 8, NEW sz \in Sizes, NEW f \in Flags, NEW src \in Int, NEW dst \in Int,
         NEW weight \in Nat \ {0}, NEW x \in Int, NEW y \in Int, NEW val \in Int,
         Summed(weight, x, y, val, f)
  PROVE  LET out == aluAddX(f, src, dst, sz)
             x1 == weight * Trunc(dst, sz) + x
             y1 == weight * Trunc(src, sz) + y
             val1 == weight * out.val + val
             above == weight * Modulus(sz)
         IN  /\ Summed(above, x1, y1, val1, out.f)
             /\ Told(above, val1, SignedIn(above, x1) + SignedIn(above, y1), out.f)
<1>1. PICK h \in Nat \ {0} : Modulus(sz) = 2 * h
  BY Halves
<1> DEFINE s == Trunc(src, sz)
           d == Trunc(dst, sz)
           k == XBit(f)
           g == aluAddX(f, src, dst, sz).f
           o == aluAddX(f, src, dst, sz).val
           c == XBit(g)
           v == (s >= h) = (d >= h) /\ (o >= h) # (d >= h)
           x1 == weight * d + x
           y1 == weight * s + y
           val1 == weight * o + val
           above == weight * (2 * h)
<1>2. s \in 0 .. 2 * h - 1 /\ d \in 0 .. 2 * h - 1 /\ k \in 0 .. 1
  BY <1>1, OperandRange DEF XBit
<1>3. /\ o \in 0 .. 2 * h - 1
      /\ o + 2 * h * c = s + d + k
      /\ c \in 0 .. 1
  BY <1>1, AddXIs DEF XBit
<1>4. g.c = g.x /\ g.z = (f.z /\ o = 0) /\ g.n = (o >= h) /\ g.v = v
  BY <1>1, AddXIs
<1> HIDE DEF s, d, k, o, c, g
<1>5. /\ x \in 0 .. weight - 1 /\ y \in 0 .. weight - 1 /\ val \in 0 .. weight - 1
      /\ val + weight * k = x + y
      /\ f.z = (val = 0)
  BY Zenon DEF Summed, k
<1>6. val1 + above * c = x1 + y1
  <2> DEFINE m == 2 * h
  <2>1. m \in Nat \ {0} /\ s \in 0 .. m - 1 /\ d \in 0 .. m - 1 /\ o \in 0 .. m - 1 /\ o + m * c = s + d + k
    BY <1>2, <1>3
  <2> HIDE DEF m
  <2>2. (weight * o + val) + (weight * m) * c = (weight * d + x) + (weight * s + y)
    BY <1>2, <1>3, <1>5, <2>1, LongerSum
  <2>3. QED BY <2>2 DEF m
<1>7. above \in Nat \ {0}
  OBVIOUS
<1>8. x1 \in 0 .. above - 1 /\ SignedIn(above, x1) = x1 - (IF d >= h THEN above ELSE 0)
  <2> DEFINE m == 2 * h
  <2>1. /\ m = 2 * h /\ above = weight * m /\ d \in 0 .. m - 1 /\ s \in 0 .. m - 1
        /\ x1 = weight * d + x /\ y1 = weight * s + y
        /\ m \in Int /\ above \in Int /\ x1 \in Int /\ y1 \in Int
        /\ weight \in Nat \ {0} /\ h \in Nat \ {0} /\ x \in 0 .. weight - 1 /\ y \in 0 .. weight - 1
    BY <1>2, <1>5
  <2> HIDE DEF m, above, x1, y1
  <2>2. x1 \in 0 .. above - 1
    BY ONLY <2>1, Limb
  <2>3. (2 * x1 >= above) = (d >= h)
    BY ONLY <2>1, Limb
  <2>4. SignedIn(above, x1) = x1 - (IF d >= h THEN above ELSE 0)
    BY ONLY <1>7, <2>2, <2>3 DEF SignedIn
  <2>5. QED BY <2>2, <2>4
<1>9. y1 \in 0 .. above - 1 /\ SignedIn(above, y1) = y1 - (IF s >= h THEN above ELSE 0)
  <2> DEFINE m == 2 * h
  <2>1. /\ m = 2 * h /\ above = weight * m /\ d \in 0 .. m - 1 /\ s \in 0 .. m - 1
        /\ x1 = weight * d + x /\ y1 = weight * s + y
        /\ m \in Int /\ above \in Int /\ x1 \in Int /\ y1 \in Int
        /\ weight \in Nat \ {0} /\ h \in Nat \ {0} /\ x \in 0 .. weight - 1 /\ y \in 0 .. weight - 1
    BY <1>2, <1>5
  <2> HIDE DEF m, above, x1, y1
  <2>2. y1 \in 0 .. above - 1
    BY ONLY <2>1, Limb
  <2>3. (2 * y1 >= above) = (s >= h)
    BY ONLY <2>1, Limb
  <2>4. SignedIn(above, y1) = y1 - (IF s >= h THEN above ELSE 0)
    BY ONLY <1>7, <2>2, <2>3 DEF SignedIn
  <2>5. QED BY <2>2, <2>4
<1>10. /\ val1 \in 0 .. above - 1 /\ (val1 = 0) = (o = 0 /\ val = 0)
       /\ (2 * val1 >= above) = (o >= h)
       /\ SignedIn(above, val1) = val1 - (IF o >= h THEN above ELSE 0)
  <2> DEFINE m == 2 * h
  <2>1. m = 2 * h /\ above = weight * m /\ o \in 0 .. m - 1 /\ val1 = weight * o + val
        /\ m \in Int /\ above \in Int /\ val1 \in Int
        /\ weight \in Nat \ {0} /\ h \in Nat \ {0} /\ val \in 0 .. weight - 1
    BY <1>3, <1>5
  <2> HIDE DEF m, above, val1
  <2>2. val1 \in 0 .. above - 1
    BY ONLY <2>1, Limb
  <2>3. (2 * val1 >= above) = (o >= h)
    BY ONLY <2>1, Limb
  <2>4. (val1 = 0) = (o = 0 /\ val = 0)
    BY ONLY <2>1, Limb
  <2>5. SignedIn(above, val1) = val1 - (IF o >= h THEN above ELSE 0)
    BY ONLY <1>7, <2>2, <2>3 DEF SignedIn
  <2>6. QED BY <2>2, <2>3, <2>4, <2>5
<1> HIDE DEF above, x1, y1, val1
<1>11. v = (SignedIn(above, val1) # SignedIn(above, x1) + SignedIn(above, y1))
  <2>1. CASE c = 0
    BY <1>2, <1>3, <1>6, <1>7, <1>8, <1>9, <1>10, <2>1
  <2>2. CASE c = 1
    BY <1>2, <1>3, <1>6, <1>7, <1>8, <1>9, <1>10, <2>2
  <2>3. QED BY <1>3, <2>1, <2>2
<1>12. Summed(above, x1, y1, val1, g)
  <2>1. g.z = (val1 = 0)
    BY <1>4, <1>5, <1>10, Zenon
  <2>2. QED BY <2>1, <1>6, <1>8, <1>9, <1>10, Zenon DEF Summed, c
<1>13. Told(above, val1, SignedIn(above, x1) + SignedIn(above, y1), g)
  BY <1>4, <1>10, <1>11, Zenon DEF Told
<1>14. QED BY <1>1, <1>12, <1>13, Zenon DEF above, x1, y1, val1, s, d, o, g

\* alu.c, aluSubX: likewise for a difference and its borrow.
THEOREM LimbSubtracted ==
  ASSUME ByteBits = 8, NEW sz \in Sizes, NEW f \in Flags, NEW src \in Int, NEW dst \in Int,
         NEW weight \in Nat \ {0}, NEW x \in Int, NEW y \in Int, NEW val \in Int,
         Subtracted(weight, x, y, val, f)
  PROVE  LET out == aluSubX(f, src, dst, sz)
             x1 == weight * Trunc(dst, sz) + x
             y1 == weight * Trunc(src, sz) + y
             val1 == weight * out.val + val
             above == weight * Modulus(sz)
         IN  /\ Subtracted(above, x1, y1, val1, out.f)
             /\ Told(above, val1, SignedIn(above, x1) - SignedIn(above, y1), out.f)
<1>1. PICK h \in Nat \ {0} : Modulus(sz) = 2 * h
  BY Halves
<1> DEFINE s == Trunc(src, sz)
           d == Trunc(dst, sz)
           k == XBit(f)
           g == aluSubX(f, src, dst, sz).f
           o == aluSubX(f, src, dst, sz).val
           c == XBit(g)
           v == (s >= h) # (d >= h) /\ (o >= h) # (d >= h)
           x1 == weight * d + x
           y1 == weight * s + y
           val1 == weight * o + val
           above == weight * (2 * h)
<1>2. s \in 0 .. 2 * h - 1 /\ d \in 0 .. 2 * h - 1 /\ k \in 0 .. 1
  BY <1>1, OperandRange DEF XBit
<1>3. /\ o \in 0 .. 2 * h - 1
      /\ o - 2 * h * c = d - s - k
      /\ c \in 0 .. 1
  BY <1>1, SubXIs DEF XBit
<1>4. g.c = g.x /\ g.z = (f.z /\ o = 0) /\ g.n = (o >= h) /\ g.v = v
  BY <1>1, SubXIs
<1> HIDE DEF s, d, k, o, c, g
<1>5. /\ x \in 0 .. weight - 1 /\ y \in 0 .. weight - 1 /\ val \in 0 .. weight - 1
      /\ val - weight * k = x - y
      /\ f.z = (val = 0)
  BY Zenon DEF Subtracted, k
<1>6. val1 - above * c = x1 - y1
  <2> DEFINE m == 2 * h
  <2>1. m \in Nat \ {0} /\ s \in 0 .. m - 1 /\ d \in 0 .. m - 1 /\ o \in 0 .. m - 1 /\ o - m * c = d - s - k
    BY <1>2, <1>3
  <2> HIDE DEF m
  <2>2. (weight * o + val) - (weight * m) * c = (weight * d + x) - (weight * s + y)
    BY <1>2, <1>3, <1>5, <2>1, LongerSum
  <2>3. QED BY <2>2 DEF m
<1>7. above \in Nat \ {0}
  OBVIOUS
<1>8. x1 \in 0 .. above - 1 /\ SignedIn(above, x1) = x1 - (IF d >= h THEN above ELSE 0)
  <2> DEFINE m == 2 * h
  <2>1. /\ m = 2 * h /\ above = weight * m /\ d \in 0 .. m - 1 /\ s \in 0 .. m - 1
        /\ x1 = weight * d + x /\ y1 = weight * s + y
        /\ m \in Int /\ above \in Int /\ x1 \in Int /\ y1 \in Int
        /\ weight \in Nat \ {0} /\ h \in Nat \ {0} /\ x \in 0 .. weight - 1 /\ y \in 0 .. weight - 1
    BY <1>2, <1>5
  <2> HIDE DEF m, above, x1, y1
  <2>2. x1 \in 0 .. above - 1
    BY ONLY <2>1, Limb
  <2>3. (2 * x1 >= above) = (d >= h)
    BY ONLY <2>1, Limb
  <2>4. SignedIn(above, x1) = x1 - (IF d >= h THEN above ELSE 0)
    BY ONLY <1>7, <2>2, <2>3 DEF SignedIn
  <2>5. QED BY <2>2, <2>4
<1>9. y1 \in 0 .. above - 1 /\ SignedIn(above, y1) = y1 - (IF s >= h THEN above ELSE 0)
  <2> DEFINE m == 2 * h
  <2>1. /\ m = 2 * h /\ above = weight * m /\ d \in 0 .. m - 1 /\ s \in 0 .. m - 1
        /\ x1 = weight * d + x /\ y1 = weight * s + y
        /\ m \in Int /\ above \in Int /\ x1 \in Int /\ y1 \in Int
        /\ weight \in Nat \ {0} /\ h \in Nat \ {0} /\ x \in 0 .. weight - 1 /\ y \in 0 .. weight - 1
    BY <1>2, <1>5
  <2> HIDE DEF m, above, x1, y1
  <2>2. y1 \in 0 .. above - 1
    BY ONLY <2>1, Limb
  <2>3. (2 * y1 >= above) = (s >= h)
    BY ONLY <2>1, Limb
  <2>4. SignedIn(above, y1) = y1 - (IF s >= h THEN above ELSE 0)
    BY ONLY <1>7, <2>2, <2>3 DEF SignedIn
  <2>5. QED BY <2>2, <2>4
<1>10. /\ val1 \in 0 .. above - 1 /\ (val1 = 0) = (o = 0 /\ val = 0)
       /\ (2 * val1 >= above) = (o >= h)
       /\ SignedIn(above, val1) = val1 - (IF o >= h THEN above ELSE 0)
  <2> DEFINE m == 2 * h
  <2>1. m = 2 * h /\ above = weight * m /\ o \in 0 .. m - 1 /\ val1 = weight * o + val
        /\ m \in Int /\ above \in Int /\ val1 \in Int
        /\ weight \in Nat \ {0} /\ h \in Nat \ {0} /\ val \in 0 .. weight - 1
    BY <1>3, <1>5
  <2> HIDE DEF m, above, val1
  <2>2. val1 \in 0 .. above - 1
    BY ONLY <2>1, Limb
  <2>3. (2 * val1 >= above) = (o >= h)
    BY ONLY <2>1, Limb
  <2>4. (val1 = 0) = (o = 0 /\ val = 0)
    BY ONLY <2>1, Limb
  <2>5. SignedIn(above, val1) = val1 - (IF o >= h THEN above ELSE 0)
    BY ONLY <1>7, <2>2, <2>3 DEF SignedIn
  <2>6. QED BY <2>2, <2>3, <2>4, <2>5
<1> HIDE DEF above, x1, y1, val1
<1>11. v = (SignedIn(above, val1) # SignedIn(above, x1) - SignedIn(above, y1))
  <2>1. CASE c = 0
    BY <1>2, <1>3, <1>6, <1>7, <1>8, <1>9, <1>10, <2>1
  <2>2. CASE c = 1
    BY <1>2, <1>3, <1>6, <1>7, <1>8, <1>9, <1>10, <2>2
  <2>3. QED BY <1>3, <2>1, <2>2
<1>12. Subtracted(above, x1, y1, val1, g)
  <2>1. g.z = (val1 = 0)
    BY <1>4, <1>5, <1>10, Zenon
  <2>2. QED BY <2>1, <1>6, <1>8, <1>9, <1>10, Zenon DEF Subtracted, c
<1>13. Told(above, val1, SignedIn(above, x1) - SignedIn(above, y1), g)
  BY <1>4, <1>10, <1>11, Zenon DEF Told
<1>14. QED BY <1>1, <1>12, <1>13, Zenon DEF above, x1, y1, val1, s, d, o, g

\* alu.c, aluAdd: the first limb of a chain, and a sum of any size by itself: carry, N and V
\* are about the numbers that the operands are, whatever the condition codes were.
THEOREM AddBegins ==
  ASSUME ByteBits = 8, NEW sz \in Sizes, NEW f \in Flags, NEW src \in Int, NEW dst \in Int
  PROVE  LET out == aluAdd(f, src, dst, sz)
             x == Trunc(dst, sz)
             y == Trunc(src, sz)
         IN  /\ Summed(Modulus(sz), x, y, out.val, out.f)
             /\ Told(Modulus(sz), out.val, Signed(x, sz) + Signed(y, sz), out.f)
<1> DEFINE e == [f EXCEPT !.x = FALSE, !.z = TRUE]
           out == aluAddX(e, src, dst, sz)
           x == Trunc(dst, sz)
           y == Trunc(src, sz)
           m == Modulus(sz)
<1>1. PICK h \in Nat \ {0} : Modulus(sz) = 2 * h
  BY Halves
<1>2. e \in Flags /\ e.x = FALSE /\ e.z = TRUE /\ XBit(e) = 0
  BY DEF Flags, FlagNames, XBit
<1>3. x \in 0 .. m - 1 /\ y \in 0 .. m - 1 /\ m \in Nat \ {0} /\ m = 2 * h
  BY <1>1, OperandRange
<1>4. out.val \in 0 .. m - 1
  <2> HIDE DEF e
  <2>1. out.val \in 0 .. 2 * h - 1
    BY <1>1, <1>2, AddXIs, Zenon
  <2>2. QED BY <1>1, <2>1
<1>5. Summed(1, 0, 0, 0, e)
  <2> HIDE DEF e
  <2>1. 0 \in 0 .. 1 - 1 /\ 0 + 0 = 0 + 0
    OBVIOUS
  <2>2. 0 + 1 * XBit(e) = 0 + 0
    BY <1>2
  <2>3. QED BY <1>2, <2>1, <2>2, Zenon DEF Summed
<1>6. /\ Summed(1 * m, 1 * x + 0, 1 * y + 0, 1 * out.val + 0, out.f)
      /\ Told(1 * m, 1 * out.val + 0, SignedIn(1 * m, 1 * x + 0) + SignedIn(1 * m, 1 * y + 0), out.f)
  <2> HIDE DEF e
  <2>1. 1 \in Nat \ {0} /\ 0 \in Int
    OBVIOUS
  <2>2. QED BY <1>2, <1>5, <2>1, LimbSummed, Zenon
<1>7. 1 * m = m /\ 1 * x + 0 = x /\ 1 * y + 0 = y /\ 1 * out.val + 0 = out.val
  <2> HIDE DEF x, y, m, out
  <2>1. QED BY <1>3, <1>4
<1>8. SignedIn(m, x) = Signed(x, sz) /\ SignedIn(m, y) = Signed(y, sz)
  <2>1. Signed(x, sz) = (IF x >= h THEN x - 2 * h ELSE x) /\ Signed(y, sz) = (IF y >= h THEN y - 2 * h ELSE y)
    <3> HIDE DEF x, y
    <3>1. QED BY <1>1, <1>3, Signs
  <2> HIDE DEF x, y, m
  <2>2. (2 * x >= m) = (x >= h) /\ (2 * y >= m) = (y >= h)
    BY <1>3
  <2>3. QED BY <1>3, <2>1, <2>2 DEF SignedIn
<1>9. aluAdd(f, src, dst, sz) = out
  <2> DEFINE o == Trunc(y + x, sz)
             o1 == Trunc(y + x + 0, sz)
             c == y + x >= Modulus(sz)
             c1 == y + x + 0 >= Modulus(sz)
             v == AddOverflow(y, x, o, sz)
  <2>1. o1 = o /\ c1 = c
    <3> HIDE DEF x, y, m
    <3>1. QED BY <1>3 DEF m
  <2>2. aluAdd(f, src, dst, sz) = Out(o, aluSetNZ([Carried(f, c) EXCEPT !.v = v], o, sz))
    BY Zenon DEF aluAdd
  <2>3. out = Out(o, StickyNZ([Carried(e, c) EXCEPT !.v = v], o, sz))
    <3> HIDE DEF e
    <3>1. out = Out(o1, StickyNZ([Carried(e, c1) EXCEPT !.v = AddOverflow(y, x, o1, sz)], o1, sz))
      BY <1>2, Zenon DEF aluAddX
    <3> HIDE DEF o, o1, c, c1
    <3>2. QED BY <2>1, <3>1, Zenon
  <2>4. Trunc(o, sz) = o
    <3>1. y + x \in Int
      <4> HIDE DEF x, y
      <4>1. QED BY <1>3
    <3>2. o \in 0 .. Modulus(sz) - 1
      BY <3>1, OperandRange
    <3> HIDE DEF o
    <3>3. QED BY <1>1, <3>2, Signs
  <2>5. aluSetNZ([Carried(f, c) EXCEPT !.v = v], o, sz) = StickyNZ([Carried(e, c) EXCEPT !.v = v], o, sz)
    <3> HIDE DEF o, c, v
    <3>1. DOMAIN f = {"x", "n", "z", "v", "c"}
      BY DEF Flags, FlagNames
    <3>2. QED BY <2>4, <3>1 DEF aluSetNZ, StickyNZ, Carried, Flags, FlagNames
  <2>6. QED BY <2>2, <2>3, <2>5, Zenon
<1>10. QED BY <1>6, <1>7, <1>8, <1>9, Zenon

\* alu.c, aluSub: likewise for a difference.
THEOREM SubBegins ==
  ASSUME ByteBits = 8, NEW sz \in Sizes, NEW f \in Flags, NEW src \in Int, NEW dst \in Int
  PROVE  LET out == aluSub(f, src, dst, sz)
             x == Trunc(dst, sz)
             y == Trunc(src, sz)
         IN  /\ Subtracted(Modulus(sz), x, y, out.val, out.f)
             /\ Told(Modulus(sz), out.val, Signed(x, sz) - Signed(y, sz), out.f)
<1> DEFINE e == [f EXCEPT !.x = FALSE, !.z = TRUE]
           out == aluSubX(e, src, dst, sz)
           x == Trunc(dst, sz)
           y == Trunc(src, sz)
           m == Modulus(sz)
<1>1. PICK h \in Nat \ {0} : Modulus(sz) = 2 * h
  BY Halves
<1>2. e \in Flags /\ e.x = FALSE /\ e.z = TRUE /\ XBit(e) = 0
  BY DEF Flags, FlagNames, XBit
<1>3. x \in 0 .. m - 1 /\ y \in 0 .. m - 1 /\ m \in Nat \ {0} /\ m = 2 * h
  BY <1>1, OperandRange
<1>4. out.val \in 0 .. m - 1
  <2> HIDE DEF e
  <2>1. out.val \in 0 .. 2 * h - 1
    BY <1>1, <1>2, SubXIs, Zenon
  <2>2. QED BY <1>1, <2>1
<1>5. Subtracted(1, 0, 0, 0, e)
  <2> HIDE DEF e
  <2>1. 0 \in 0 .. 1 - 1 /\ 0 - 0 = 0 - 0
    OBVIOUS
  <2>2. 0 - 1 * XBit(e) = 0 - 0
    BY <1>2
  <2>3. QED BY <1>2, <2>1, <2>2, Zenon DEF Subtracted
<1>6. /\ Subtracted(1 * m, 1 * x + 0, 1 * y + 0, 1 * out.val + 0, out.f)
      /\ Told(1 * m, 1 * out.val + 0, SignedIn(1 * m, 1 * x + 0) - SignedIn(1 * m, 1 * y + 0), out.f)
  <2> HIDE DEF e
  <2>1. 1 \in Nat \ {0} /\ 0 \in Int
    OBVIOUS
  <2>2. QED BY <1>2, <1>5, <2>1, LimbSubtracted, Zenon
<1>7. 1 * m = m /\ 1 * x + 0 = x /\ 1 * y + 0 = y /\ 1 * out.val + 0 = out.val
  <2> HIDE DEF x, y, m, out
  <2>1. QED BY <1>3, <1>4
<1>8. SignedIn(m, x) = Signed(x, sz) /\ SignedIn(m, y) = Signed(y, sz)
  <2>1. Signed(x, sz) = (IF x >= h THEN x - 2 * h ELSE x) /\ Signed(y, sz) = (IF y >= h THEN y - 2 * h ELSE y)
    <3> HIDE DEF x, y
    <3>1. QED BY <1>1, <1>3, Signs
  <2> HIDE DEF x, y, m
  <2>2. (2 * x >= m) = (x >= h) /\ (2 * y >= m) = (y >= h)
    BY <1>3
  <2>3. QED BY <1>3, <2>1, <2>2 DEF SignedIn
<1>9. aluSub(f, src, dst, sz) = out
  <2> DEFINE o == Trunc(x - y, sz)
             o1 == Trunc(x - y - 0, sz)
             c == y > x
             c1 == y + 0 > x
             v == SubOverflow(y, x, o, sz)
  <2>1. o1 = o /\ c1 = c
    <3> HIDE DEF x, y, m
    <3>1. QED BY <1>3 DEF m
  <2>2. aluSub(f, src, dst, sz) = Out(o, aluSetNZ([Carried(f, c) EXCEPT !.v = v], o, sz))
    BY Zenon DEF aluSub
  <2>3. out = Out(o, StickyNZ([Carried(e, c) EXCEPT !.v = v], o, sz))
    <3> HIDE DEF e
    <3>1. out = Out(o1, StickyNZ([Carried(e, c1) EXCEPT !.v = SubOverflow(y, x, o1, sz)], o1, sz))
      BY <1>2, Zenon DEF aluSubX
    <3> HIDE DEF o, o1, c, c1
    <3>2. QED BY <2>1, <3>1, Zenon
  <2>4. Trunc(o, sz) = o
    <3>1. x - y \in Int
      <4> HIDE DEF x, y
      <4>1. QED BY <1>3
    <3>2. o \in 0 .. Modulus(sz) - 1
      BY <3>1, OperandRange
    <3> HIDE DEF o
    <3>3. QED BY <1>1, <3>2, Signs
  <2>5. aluSetNZ([Carried(f, c) EXCEPT !.v = v], o, sz) = StickyNZ([Carried(e, c) EXCEPT !.v = v], o, sz)
    <3> HIDE DEF o, c, v
    <3>1. DOMAIN f = {"x", "n", "z", "v", "c"}
      BY DEF Flags, FlagNames
    <3>2. QED BY <2>4, <3>1 DEF aluSetNZ, StickyNZ, Carried, Flags, FlagNames
  <2>6. QED BY <2>2, <2>3, <2>5, Zenon
<1>10. QED BY <1>6, <1>7, <1>8, <1>9, Zenon

LEMMA ModShift ==
  ASSUME NEW n \in Nat \ {0}, NEW k \in Int, NEW t \in Int
  PROVE  (n * k + t) % n = t % n
<1> DEFINE q == t \div n
           r == t % n
<1>1. q \in Int /\ r \in 0 .. n - 1 /\ t = n * q + r
  OBVIOUS
<1> HIDE DEF q, r
<1>2. n * k + t = n * (k + q) + r /\ k + q \in Int
  <2>1. n * (k + q) = n * k + n * q
    BY <1>1
  <2>2. QED BY <1>1, <2>1
<1>3. (n * (k + q) + r) % n = r
  BY <1>1, <1>2, ModIs
<1>4. QED BY <1>2, <1>3 DEF r

\* alu.c, aluNegX: a negation is a subtraction from zero, in its result and in every
\* condition code, so that a chain of NEG and NEGX is one of SUB and SUBX.
THEOREM NegIsSub ==
  ASSUME ByteBits = 8, NEW sz \in Sizes, NEW f \in Flags, NEW val \in Int
  PROVE  /\ aluNeg(f, val, sz) = aluSub(f, val, 0, sz)
         /\ aluNegX(f, val, sz) = aluSubX(f, val, 0, sz)
<1>1. PICK h \in Nat \ {0} : Modulus(sz) = 2 * h
  BY Halves
<1> DEFINE m == Modulus(sz)
           s == Trunc(val, sz)
           k == XBit(f)
<1>2. s \in 0 .. m - 1 /\ m = 2 * h /\ m \in Nat \ {0} /\ k \in 0 .. 1
  BY <1>1, OperandRange DEF XBit
<1>3. Trunc(0, sz) = 0 /\ Negative(0, sz) = FALSE /\ Negative(s, sz) = Negative(val, sz)
  <2>1. 0 \in 0 .. Modulus(sz) - 1
    BY <1>2
  <2>2. Trunc(s, sz) = s
    <3> HIDE DEF s
    <3>1. QED BY <1>1, <1>2, Signs
  <2>3. Negative(s, sz) = Negative(val, sz)
    <3>1. Trunc(s, sz) = Trunc(val, sz)
      BY <2>2
    <3>2. QED BY <3>1, Zenon DEF Negative, Trunc
  <2>4. Negative(0, sz) = (0 >= h) /\ Trunc(0, sz) = 0
    BY <1>1, <2>1, Signs
  <2>5. (0 >= h) = FALSE
    BY <1>2
  <2>6. QED BY <2>3, <2>4, <2>5, Zenon
<1>4. \A j \in 0 .. 1 : Trunc(0 - val - j, sz) = Trunc(0 - s - j, sz)
  <2> TAKE j \in 0 .. 1
  <2> DEFINE q == val \div m
  <2>1. q \in Int /\ val = m * q + s
    <3> HIDE DEF m
    <3>1. QED BY <1>2 DEF Trunc, m
  <2> HIDE DEF m, s, q
  <2>2. 0 - val - j = m * (0 - q) + (0 - s - j) /\ 0 - q \in Int /\ 0 - s - j \in Int
    <3>1. m * (0 - q) = 0 - m * q
      BY <1>2, <2>1
    <3>2. QED BY <1>2, <2>1, <3>1
  <2>3. (m * (0 - q) + (0 - s - j)) % m = (0 - s - j) % m
    BY <1>2, <2>2, ModShift
  <2>4. QED BY <2>2, <2>3 DEF Trunc, m
<1>5. /\ Trunc(0 - val, sz) = Trunc(0 - s, sz)
      /\ Trunc(0 - val - k, sz) = Trunc(0 - s - k, sz)
  <2> HIDE DEF s, k
  <2>1. Trunc(0 - val - 0, sz) = Trunc(0 - s - 0, sz) /\ Trunc(0 - val - k, sz) = Trunc(0 - s - k, sz)
    BY <1>2, <1>4
  <2>2. 0 - val - 0 = 0 - val /\ 0 - s - 0 = 0 - s
    BY <1>2
  <2>3. QED BY <2>1, <2>2
<1>6. (s # 0) = (s > 0) /\ (s + k # 0) = (s + k > 0)
  BY <1>2
<1>7. \A r : SubOverflow(s, 0, r, sz) = (Negative(val, sz) /\ Negative(r, sz))
  <2> TAKE r
  <2>1. Negative(val, sz) \in BOOLEAN /\ Negative(r, sz) \in BOOLEAN
    BY DEF Negative
  <2>2. QED BY <1>3, <2>1, Zenon DEF SubOverflow
<1>8. aluNeg(f, val, sz) = aluSub(f, val, 0, sz)
  BY <1>3, <1>5, <1>6, <1>7, Zenon DEF aluNeg, aluSub, s
<1>9. aluNegX(f, val, sz) = aluSubX(f, val, 0, sz)
  BY <1>3, <1>5, <1>6, <1>7, Zenon DEF aluNegX, aluSubX, s, k
<1>10. QED BY <1>8, <1>9

----------------------------------------------------------------------------
(* Decimal numbers, two digits to a byte *)

DecimalBytes == {16 * high + low : high \in 0 .. 9, low \in 0 .. 9}

\* The number that the digits of a byte are.
Digits(b) == 10 * (b \div 16) + (b % 16)

LEMMA Sixteen ==
  ASSUME ByteBits = 8
  PROVE  Nibble = 16
<1>1. 2^4 = 16 /\ 8 \div 2 = 4
  OBVIOUS
<1>2. QED BY <1>1 DEF Nibble

LEMMA ByteIs ==
  ASSUME ByteBits = 8
  PROVE  Modulus("b") = 256
<1>1. 2^8 = 256
  OBVIOUS
<1>2. Bits("b") = 8
  BY DEF Bits, Bytes
<1>3. QED BY <1>1, <1>2 DEF Modulus

LEMMA DigitsOf ==
  ASSUME NEW high \in 0 .. 9, NEW low \in 0 .. 9, NEW b, b = 16 * high + low
  PROVE  /\ b \in DecimalBytes
         /\ b % 16 = low /\ b \div 16 = high
         /\ Digits(b) = 10 * high + low
<1>1. b % 16 = low /\ b \div 16 = high
  OBVIOUS
<1>2. b \in DecimalBytes
  BY DEF DecimalBytes
<1>3. Digits(b) = 10 * high + low
  <2> DEFINE u == b \div 16
             v == b % 16
  <2>1. Digits(b) = 10 * u + v
    BY Zenon DEF Digits
  <2>2. u = high /\ v = low
    BY <1>1
  <2> HIDE DEF u, v
  <2>3. QED BY <2>1, <2>2
<1>4. QED BY <1>1, <1>2, <1>3

LEMMA DigitsRange ==
  ASSUME NEW b \in DecimalBytes
  PROVE  Digits(b) \in 0 .. 99 /\ (Digits(b) = 0) = (b = 0)
<1>1. PICK high \in 0 .. 9, low \in 0 .. 9 : b = 16 * high + low
  BY DEF DecimalBytes
<1>2. Digits(b) = 10 * high + low
  BY <1>1, DigitsOf
<1>3. QED BY <1>1, <1>2

LEMMA DecimalIs ==
  ASSUME ByteBits = 8, NEW b \in DecimalBytes
  PROVE  \E high \in 0 .. 9, low \in 0 .. 9 :
            b = 16 * high + low /\ Low(b) = low /\ High(b) = 16 * high /\ Digits(b) = 10 * high + low
<1>1. PICK high \in 0 .. 9, low \in 0 .. 9 : b = 16 * high + low
  BY DEF DecimalBytes
<1>2. b % 16 = low /\ b \div 16 = high /\ Digits(b) = 10 * high + low
  BY <1>1, DigitsOf
<1>3. Low(b) = low /\ High(b) = 16 * high
  BY <1>2, Sixteen DEF Low, High
<1>4. QED BY <1>1, <1>2, <1>3

\* One ABCD and one SBCD, in the digits of its bytes.
LEMMA aluAbcdIs ==
  ASSUME ByteBits = 8, Radix = 10, NEW f \in Flags,
         NEW src \in DecimalBytes, NEW dst \in DecimalBytes
  PROVE  LET out == aluAbcd(f, src, dst)
         IN  /\ out.val \in DecimalBytes
             /\ Digits(out.val) + 100 * XBit(out.f) = Digits(dst) + Digits(src) + XBit(f)
             /\ out.f.c = out.f.x
             /\ out.f.z = (f.z /\ out.val = 0)
<1> DEFINE k == XBit(f)
<1>1. k \in 0 .. 1
  BY DEF XBit
<1>2. Nibble = 16
  BY Sixteen
<1>3. PICK dh \in 0 .. 9, dl \in 0 .. 9 : dst = 16 * dh + dl /\ Low(dst) = dl /\ High(dst) = 16 * dh /\ Digits(dst) = 10 * dh + dl
  BY DecimalIs
<1>4. PICK sh \in 0 .. 9, sl \in 0 .. 9 : src = 16 * sh + sl /\ Low(src) = sl /\ High(src) = 16 * sh /\ Digits(src) = 10 * sh + sl
  BY DecimalIs
<1> DEFINE low == dl + sl + k
           sum == 16 * dh + 16 * sh + low + (IF low >= 10 THEN 6 ELSE 0)
           c == sum > 153
           res == sum + (IF c THEN 96 ELSE 0)
           o == Trunc(res, "b")
           g == [Carried(f, c) EXCEPT !.z = @ /\ o = 0]
<1>5. aluAbcd(f, src, dst) = Out(o, g)
  <2>1. Low(dst) + Low(src) + XBit(f) = low
    BY <1>3, <1>4
  <2>2. Nibble - Radix = 6 /\ (Radix - 1) * Nibble + Radix - 1 = 153 /\ (Nibble - Radix) * Nibble = 96
    BY <1>2
  <2>3. High(dst) + High(src) = 16 * dh + 16 * sh
    BY <1>3, <1>4
  <2> HIDE DEF low
  <2>4. aluAbcd(f, src, dst) = Decimal(f, res, c)
    <3> DEFINE L == Low(dst) + Low(src) + XBit(f)
               S == High(dst) + High(src) + L + (IF L >= Radix THEN Nibble - Radix ELSE 0)
               M == (Radix - 1) * Nibble + Radix - 1
               W == (Nibble - Radix) * Nibble
    <3>1. aluAbcd(f, src, dst) = Decimal(f, S + (IF S > M THEN W ELSE 0), S > M)
      BY Zenon DEF aluAbcd
    <3>2. S = sum
      BY <2>1, <2>2, <2>3
    <3>3. M = 153 /\ W = 96
      BY <2>2
    <3> HIDE DEF S, M, W
    <3>4. QED BY <3>1, <3>2, <3>3, Zenon
  <2> HIDE DEF res, c
  <2>5. QED BY <2>4, Zenon DEF Decimal
<1>6. \E oh \in 0 .. 9, ol \in 0 .. 9 :
         /\ o = 16 * oh + ol
         /\ 10 * oh + ol + (IF c THEN 100 ELSE 0) = (10 * dh + dl) + (10 * sh + sl) + k
  <2> HIDE DEF k
  <2>1. low \in -10 .. 19
    BY <1>1
  <2> DEFINE ol == IF low >= 10 THEN low - 10 ELSE low
             h1 == IF low >= 10 THEN dh + sh + 1 ELSE dh + sh
             oh == IF h1 >= 10 THEN h1 - 10 ELSE h1
  <2>2. ol \in 0 .. 9 /\ oh \in 0 .. 9 /\ h1 \in -10 .. 19
    BY <1>1
  <2>3. sum = 16 * h1 + ol
    BY <1>1
  <2>4. c = (h1 >= 10)
    <3> HIDE DEF sum, ol, h1
    <3>1. QED BY <2>2, <2>3
  <2>5. res = 16 * oh + ol \/ res = 256 + (16 * oh + ol)
    <3> HIDE DEF sum, ol, h1
    <3>1. QED BY <2>2, <2>3
  <2>6. o = 16 * oh + ol
    <3> HIDE DEF res, oh, ol
    <3>1. 16 * oh + ol \in 0 .. 255
      BY <2>2
    <3>2. res % 256 = 16 * oh + ol
      <4>1. res \in Int /\ 0 - 256 <= res /\ res < 2 * 256 /\ 256 \in Nat \ {0}
        BY <2>2, <2>5
      <4>2. res % 256 = IF res < 0 THEN res + 256 ELSE IF res < 256 THEN res ELSE res - 256
        BY <4>1, ModWrap
      <4>3. QED BY <2>5, <3>1, <4>2
    <3>3. QED BY <3>2, ByteIs DEF Trunc
  <2>7. 10 * oh + ol + (IF c THEN 100 ELSE 0) = (10 * dh + dl) + (10 * sh + sl) + k
    <3>1. (IF c THEN 100 ELSE 0) = (IF h1 >= 10 THEN 100 ELSE 0)
      <4> HIDE DEF c, h1
      <4>1. QED BY <2>4
    <3>2. 10 * oh + ol + (IF h1 >= 10 THEN 100 ELSE 0) = (10 * dh + dl) + (10 * sh + sl) + k
      BY <1>1
    <3> HIDE DEF c, h1, oh, ol
    <3>3. QED BY <3>1, <3>2
  <2>8. QED BY <2>2, <2>6, <2>7
<1> HIDE DEF o, c, k
<1>7. PICK oh \in 0 .. 9, ol \in 0 .. 9 :
         /\ o = 16 * oh + ol
         /\ 10 * oh + ol + (IF c THEN 100 ELSE 0) = (10 * dh + dl) + (10 * sh + sl) + k
  BY <1>6
<1>8. o \in DecimalBytes /\ Digits(o) = 10 * oh + ol
  BY <1>7, DigitsOf
<1>9. DOMAIN f = {"x", "n", "z", "v", "c"}
  BY DEF Flags, FlagNames
<1>10. g.c = c /\ g.x = c /\ g.z = (f.z /\ o = 0)
  BY <1>9, Zenon DEF Carried
<1> HIDE DEF g
<1>11. 100 * XBit(g) = (IF c THEN 100 ELSE 0)
  <2>1. XBit(g) = (IF c THEN 1 ELSE 0)
    BY <1>10, Zenon DEF XBit
  <2>2. QED BY <2>1
<1>12. Digits(o) + 100 * XBit(g) = Digits(dst) + Digits(src) + XBit(f)
  BY <1>3, <1>4, <1>7, <1>8, <1>11 DEF k
<1>13. aluAbcd(f, src, dst).val = o /\ aluAbcd(f, src, dst).f = g
  BY <1>5 DEF Out
<1>14. QED BY <1>8, <1>10, <1>12, <1>13, Zenon

LEMMA aluSbcdIs ==
  ASSUME ByteBits = 8, Radix = 10, NEW f \in Flags,
         NEW src \in DecimalBytes, NEW dst \in DecimalBytes
  PROVE  LET out == aluSbcd(f, src, dst)
         IN  /\ out.val \in DecimalBytes
             /\ Digits(out.val) - 100 * XBit(out.f) = Digits(dst) - Digits(src) - XBit(f)
             /\ out.f.c = out.f.x
             /\ out.f.z = (f.z /\ out.val = 0)
<1> DEFINE k == XBit(f)
<1>1. k \in 0 .. 1
  BY DEF XBit
<1>2. Nibble = 16
  BY Sixteen
<1>3. PICK dh \in 0 .. 9, dl \in 0 .. 9 : dst = 16 * dh + dl /\ Low(dst) = dl /\ High(dst) = 16 * dh /\ Digits(dst) = 10 * dh + dl
  BY DecimalIs
<1>4. PICK sh \in 0 .. 9, sl \in 0 .. 9 : src = 16 * sh + sl /\ Low(src) = sl /\ High(src) = 16 * sh /\ Digits(src) = 10 * sh + sl
  BY DecimalIs
<1> DEFINE low == dl - sl - k
           sum == 16 * dh - 16 * sh + low + (IF low < 0 THEN (-6) ELSE 0)
           c == sum < 0
           res == sum + (IF c THEN 160 ELSE 0)
           o == Trunc(res, "b")
           g == [Carried(f, c) EXCEPT !.z = @ /\ o = 0]
<1>5. aluSbcd(f, src, dst) = Out(o, g)
  <2>1. Low(dst) - Low(src) - XBit(f) = low
    BY <1>3, <1>4
  <2>2. Radix - Nibble = -6 /\ Radix * Nibble = 160
    BY <1>2
  <2>3. High(dst) - High(src) = 16 * dh - 16 * sh
    BY <1>3, <1>4
  <2> HIDE DEF low
  <2>4. aluSbcd(f, src, dst) = Decimal(f, res, c)
    BY <1>2, <2>1, <2>2, <2>3, Zenon DEF aluSbcd
  <2> HIDE DEF res, c
  <2>5. QED BY <2>4, Zenon DEF Decimal
<1>6. \E oh \in 0 .. 9, ol \in 0 .. 9 :
         /\ o = 16 * oh + ol
         /\ 10 * oh + ol - (IF c THEN 100 ELSE 0) = (10 * dh + dl) - (10 * sh + sl) - k
  <2> HIDE DEF k
  <2>1. low \in -10 .. 19
    BY <1>1
  <2> DEFINE ol == IF low < 0 THEN low + 10 ELSE low
             h1 == IF low < 0 THEN dh - sh - 1 ELSE dh - sh
             oh == IF h1 < 0 THEN h1 + 10 ELSE h1
  <2>2. ol \in 0 .. 9 /\ oh \in 0 .. 9 /\ h1 \in -10 .. 19
    BY <1>1
  <2>3. sum = 16 * h1 + ol
    BY <1>1
  <2>4. c = (h1 < 0)
    <3> HIDE DEF sum, ol, h1
    <3>1. QED BY <2>2, <2>3
  <2>5. res = 16 * oh + ol \/ res = 256 + (16 * oh + ol)
    <3> HIDE DEF sum, ol, h1
    <3>1. QED BY <2>2, <2>3
  <2>6. o = 16 * oh + ol
    <3> HIDE DEF res, oh, ol
    <3>1. 16 * oh + ol \in 0 .. 255
      BY <2>2
    <3>2. res % 256 = 16 * oh + ol
      <4>1. res \in Int /\ 0 - 256 <= res /\ res < 2 * 256 /\ 256 \in Nat \ {0}
        BY <2>2, <2>5
      <4>2. res % 256 = IF res < 0 THEN res + 256 ELSE IF res < 256 THEN res ELSE res - 256
        BY <4>1, ModWrap
      <4>3. QED BY <2>5, <3>1, <4>2
    <3>3. QED BY <3>2, ByteIs DEF Trunc
  <2>7. 10 * oh + ol - (IF c THEN 100 ELSE 0) = (10 * dh + dl) - (10 * sh + sl) - k
    <3>1. (IF c THEN 100 ELSE 0) = (IF h1 < 0 THEN 100 ELSE 0)
      <4> HIDE DEF c, h1
      <4>1. QED BY <2>4
    <3>2. 10 * oh + ol - (IF h1 < 0 THEN 100 ELSE 0) = (10 * dh + dl) - (10 * sh + sl) - k
      BY <1>1
    <3> HIDE DEF c, h1, oh, ol
    <3>3. QED BY <3>1, <3>2
  <2>8. QED BY <2>2, <2>6, <2>7
<1> HIDE DEF o, c, k
<1>7. PICK oh \in 0 .. 9, ol \in 0 .. 9 :
         /\ o = 16 * oh + ol
         /\ 10 * oh + ol - (IF c THEN 100 ELSE 0) = (10 * dh + dl) - (10 * sh + sl) - k
  BY <1>6
<1>8. o \in DecimalBytes /\ Digits(o) = 10 * oh + ol
  BY <1>7, DigitsOf
<1>9. DOMAIN f = {"x", "n", "z", "v", "c"}
  BY DEF Flags, FlagNames
<1>10. g.c = c /\ g.x = c /\ g.z = (f.z /\ o = 0)
  BY <1>9, Zenon DEF Carried
<1> HIDE DEF g
<1>11. 100 * XBit(g) = (IF c THEN 100 ELSE 0)
  <2>1. XBit(g) = (IF c THEN 1 ELSE 0)
    BY <1>10, Zenon DEF XBit
  <2>2. QED BY <2>1
<1>12. Digits(o) - 100 * XBit(g) = Digits(dst) - Digits(src) - XBit(f)
  BY <1>3, <1>4, <1>7, <1>8, <1>11 DEF k
<1>13. aluSbcd(f, src, dst).val = o /\ aluSbcd(f, src, dst).f = g
  BY <1>5 DEF Out
<1>14. QED BY <1>8, <1>10, <1>12, <1>13, Zenon

\* alu.c, aluAbcd: two decimal digits more.  Where the bytes so far hold the decimal sum of two
\* numbers of any length, those with the next byte hold the sum of the longer numbers, in
\* decimal digits, with the carry in X and C, and Z about all digits.
THEOREM DecimalSummed ==
  ASSUME ByteBits = 8, Radix = 10, NEW f \in Flags,
         NEW src \in DecimalBytes, NEW dst \in DecimalBytes,
         NEW weight \in Nat \ {0}, NEW x \in Int, NEW y \in Int, NEW val \in Int,
         Summed(weight, x, y, val, f)
  PROVE  LET out == aluAbcd(f, src, dst)
         IN  /\ out.val \in DecimalBytes
             /\ Summed(weight * 100, weight * Digits(dst) + x, weight * Digits(src) + y,
                       weight * Digits(out.val) + val, out.f)
             /\ out.f.c = out.f.x
<1> DEFINE s == Digits(src)
           d == Digits(dst)
           k == XBit(f)
           out == aluAbcd(f, src, dst)
           o == Digits(out.val)
           c == XBit(out.f)
           x1 == weight * d + x
           y1 == weight * s + y
           val1 == weight * o + val
           above == weight * 100
<1>1. /\ out.val \in DecimalBytes
      /\ o + 100 * c = d + s + k
      /\ out.f.c = out.f.x
      /\ out.f.z = (f.z /\ out.val = 0)
  BY aluAbcdIs, Zenon
<1>2. /\ s \in 0 .. 99 /\ d \in 0 .. 99 /\ o \in 0 .. 99 /\ (o = 0) = (out.val = 0)
      /\ k \in 0 .. 1 /\ c \in 0 .. 1
  <2>1. k \in 0 .. 1 /\ c \in 0 .. 1
    BY DEF XBit
  <2> HIDE DEF out, k, c
  <2>2. QED BY <1>1, <2>1, DigitsRange
<1> HIDE DEF s, d, k, o, c, out
<1>3. /\ x \in 0 .. weight - 1 /\ y \in 0 .. weight - 1 /\ val \in 0 .. weight - 1
      /\ val + weight * k = x + y
      /\ f.z = (val = 0)
  BY Zenon DEF Summed, k
<1>4. 100 \in Nat \ {0} /\ s \in 0 .. 100 - 1 /\ d \in 0 .. 100 - 1 /\ o \in 0 .. 100 - 1
  BY <1>2
<1>5. val1 + above * c = x1 + y1
  <2> DEFINE m == 100
  <2>1. m \in Nat \ {0} /\ s \in 0 .. m - 1 /\ d \in 0 .. m - 1 /\ o \in 0 .. m - 1 /\ o + m * c = d + s + k
        /\ weight \in Nat \ {0} /\ k \in 0 .. 1 /\ c \in 0 .. 1
        /\ x \in 0 .. weight - 1 /\ y \in 0 .. weight - 1 /\ val \in 0 .. weight - 1
        /\ val + weight * k = x + y
    BY <1>1, <1>2, <1>3, <1>4
  <2> HIDE DEF m
  <2>2. (weight * o + val) + (weight * m) * c = (weight * d + x) + (weight * s + y)
    BY ONLY <2>1, LongerSum
  <2>3. QED BY <2>2 DEF m
<1>6. x1 \in 0 .. above - 1 /\ y1 \in 0 .. above - 1 /\ val1 \in 0 .. above - 1
  BY <1>3, <1>4, LimbRange
<1>7. (val1 = 0) = (o = 0 /\ val = 0)
  BY <1>3, <1>4, LimbRange
<1> HIDE DEF above, x1, y1, val1
<1>8. out.f.z = (val1 = 0)
  BY <1>1, <1>2, <1>3, <1>7, Zenon
<1>9. Summed(above, x1, y1, val1, out.f)
  BY <1>5, <1>6, <1>8, Zenon DEF Summed, c
<1>10. QED BY <1>1, <1>9, Zenon DEF above, x1, y1, val1, s, d, o, out

\* alu.c, aluSbcd: likewise for a decimal difference and its borrow; aluNbcd is the
\* difference from zero.
THEOREM DecimalSubtracted ==
  ASSUME ByteBits = 8, Radix = 10, NEW f \in Flags,
         NEW src \in DecimalBytes, NEW dst \in DecimalBytes,
         NEW weight \in Nat \ {0}, NEW x \in Int, NEW y \in Int, NEW val \in Int,
         Subtracted(weight, x, y, val, f)
  PROVE  LET out == aluSbcd(f, src, dst)
         IN  /\ out.val \in DecimalBytes
             /\ Subtracted(weight * 100, weight * Digits(dst) + x, weight * Digits(src) + y,
                       weight * Digits(out.val) + val, out.f)
             /\ out.f.c = out.f.x
<1> DEFINE s == Digits(src)
           d == Digits(dst)
           k == XBit(f)
           out == aluSbcd(f, src, dst)
           o == Digits(out.val)
           c == XBit(out.f)
           x1 == weight * d + x
           y1 == weight * s + y
           val1 == weight * o + val
           above == weight * 100
<1>1. /\ out.val \in DecimalBytes
      /\ o - 100 * c = d - s - k
      /\ out.f.c = out.f.x
      /\ out.f.z = (f.z /\ out.val = 0)
  BY aluSbcdIs, Zenon
<1>2. /\ s \in 0 .. 99 /\ d \in 0 .. 99 /\ o \in 0 .. 99 /\ (o = 0) = (out.val = 0)
      /\ k \in 0 .. 1 /\ c \in 0 .. 1
  <2>1. k \in 0 .. 1 /\ c \in 0 .. 1
    BY DEF XBit
  <2> HIDE DEF out, k, c
  <2>2. QED BY <1>1, <2>1, DigitsRange
<1> HIDE DEF s, d, k, o, c, out
<1>3. /\ x \in 0 .. weight - 1 /\ y \in 0 .. weight - 1 /\ val \in 0 .. weight - 1
      /\ val - weight * k = x - y
      /\ f.z = (val = 0)
  BY Zenon DEF Subtracted, k
<1>4. 100 \in Nat \ {0} /\ s \in 0 .. 100 - 1 /\ d \in 0 .. 100 - 1 /\ o \in 0 .. 100 - 1
  BY <1>2
<1>5. val1 - above * c = x1 - y1
  <2> DEFINE m == 100
  <2>1. m \in Nat \ {0} /\ s \in 0 .. m - 1 /\ d \in 0 .. m - 1 /\ o \in 0 .. m - 1 /\ o - m * c = d - s - k
        /\ weight \in Nat \ {0} /\ k \in 0 .. 1 /\ c \in 0 .. 1
        /\ x \in 0 .. weight - 1 /\ y \in 0 .. weight - 1 /\ val \in 0 .. weight - 1
        /\ val - weight * k = x - y
    BY <1>1, <1>2, <1>3, <1>4
  <2> HIDE DEF m
  <2>2. (weight * o + val) - (weight * m) * c = (weight * d + x) - (weight * s + y)
    BY ONLY <2>1, LongerSum
  <2>3. QED BY <2>2 DEF m
<1>6. x1 \in 0 .. above - 1 /\ y1 \in 0 .. above - 1 /\ val1 \in 0 .. above - 1
  BY <1>3, <1>4, LimbRange
<1>7. (val1 = 0) = (o = 0 /\ val = 0)
  BY <1>3, <1>4, LimbRange
<1> HIDE DEF above, x1, y1, val1
<1>8. out.f.z = (val1 = 0)
  BY <1>1, <1>2, <1>3, <1>7, Zenon
<1>9. Subtracted(above, x1, y1, val1, out.f)
  BY <1>5, <1>6, <1>8, Zenon DEF Subtracted, c
<1>10. QED BY <1>1, <1>9, Zenon DEF above, x1, y1, val1, s, d, o, out

----------------------------------------------------------------------------
(* Division *)

\* How many times a divisor goes into a dividend, and when that is less than k.
LEMMA GoesInto ==
  ASSUME NEW n \in Nat, NEW d \in Nat \ {0}, NEW k \in Nat
  PROVE  /\ n \div d \in Nat /\ n % d \in 0 .. d - 1
         /\ n = d * (n \div d) + (n % d)
         /\ (n \div d < k) = (n < d * k)
<1> DEFINE q == n \div d
           r == n % d
<1>1. q \in Nat /\ r \in 0 .. d - 1 /\ n = d * q + r
  <2>1. q \in Int /\ r \in 0 .. d - 1 /\ n = d * q + r
    OBVIOUS
  <2> HIDE DEF q, r
  <2>2. ASSUME q < 0 PROVE FALSE
    <3>1. d * q <= d * (-1)
      BY <2>1, <2>2
    <3>2. d * (-1) = -d /\ d * q \in Int
      BY <2>1
    <3>3. QED BY <2>1, <3>1, <3>2
  <2>3. QED BY <2>1, <2>2
<1> HIDE DEF q, r
<1>2. ASSUME q < k PROVE n < d * k
  <2>1. d * q <= d * (k - 1)
    BY <1>1, <1>2
  <2>2. d * (k - 1) = d * k - d /\ d * k \in Int /\ d * q \in Int
    BY <1>1
  <2>3. QED BY <1>1, <2>1, <2>2
<1>3. ASSUME q >= k PROVE n >= d * k
  <2>1. d * q >= d * k /\ d * k \in Int /\ d * q \in Int
    BY <1>1, <1>3
  <2>2. QED BY <1>1, <2>1
<1>4. (q < k) = (n < d * k)
  <2>1. d * k \in Int
    OBVIOUS
  <2>2. QED BY <1>1, <1>2, <1>3, <2>1
<1>5. QED BY <1>1, <1>4 DEF q, r

\* The two words of a packed long.
LEMMA PackedIs ==
  ASSUME ByteBits = 8, NEW q \in Int, NEW r \in Int
  PROVE  LET m == Modulus("w")
         IN  /\ m \in Nat \ {0}
             /\ Trunc(q, "w") \in 0 .. m - 1 /\ Trunc(r, "w") \in 0 .. m - 1
             /\ Trunc(Packed(q, r), "w") = Trunc(q, "w")
             /\ Packed(q, r) \div m = Trunc(r, "w")
<1> DEFINE m == Modulus("w")
           low == Trunc(q, "w")
           high == Trunc(r, "w")
<1>1. m \in Nat \ {0}
  BY Halves DEF Sizes
<1>2. low \in 0 .. m - 1 /\ high \in 0 .. m - 1
  BY OperandRange DEF Sizes
<1>3. Packed(q, r) = high * m + low
  BY Zenon DEF Packed
<1> HIDE DEF low, high, m
<1>4. high * m + low = m * high + low
  BY <1>1, <1>2
<1>5. (m * high + low) % m = low /\ (m * high + low) \div m = high
  BY <1>1, <1>2, ModIs
<1>6. Trunc(Packed(q, r), "w") = low
  BY <1>3, <1>4, <1>5 DEF Trunc, m
<1>7. QED BY <1>1, <1>2, <1>3, <1>4, <1>5, <1>6 DEF low, high, m

\* The conditions after a division: those of the quotient, or V alone.
LEMMA DividedFlags ==
  ASSUME NEW f \in Flags, NEW q
  PROVE  /\ aluSetLogicFlags(f, q, "w").v = FALSE
         /\ aluSetLogicFlags(f, q, "w").c = FALSE
         /\ aluSetLogicFlags(f, q, "w").z = (Trunc(q, "w") = 0)
         /\ aluSetLogicFlags(f, q, "w").n = Negative(q, "w")
         /\ [f EXCEPT !.v = TRUE].v = TRUE
<1>1. DOMAIN f = {"x", "n", "z", "v", "c"}
  BY DEF Flags, FlagNames
<1>2. QED BY <1>1, Zenon DEF aluSetLogicFlags, aluSetNZ

\* alu.c, aluDivu: of any dividend and any divisor but 0, the quotient in the low word times the
\* divisor, and the smaller remainder in the high word added, are the dividend again; or
\* the quotient is no word, and V alone tells so.
THEOREM DivuInverts ==
  ASSUME ByteBits = 8, NEW f \in Flags,
         NEW dividend \in 0 .. Modulus("l") - 1, NEW divisor \in 1 .. Modulus("w") - 1
  PROVE  LET out == aluDivu(f, dividend, divisor)
             quotient == Trunc(out.val, "w")
             remainder == out.val \div Modulus("w")
         IN  /\ out.f.v = (dividend >= divisor * Modulus("w"))
             /\ IF out.f.v THEN out = Out(dividend, [f EXCEPT !.v = TRUE])
                ELSE /\ divisor * quotient + remainder = dividend
                     /\ remainder \in 0 .. divisor - 1
                     /\ ~out.f.c /\ out.f.z = (quotient = 0)
<1> DEFINE m == Modulus("w")
           q == dividend \div divisor
           r == dividend % divisor
           fits == q < m
           out == aluDivu(f, dividend, divisor)
<1>1. m \in Nat \ {0} /\ divisor \in Nat \ {0} /\ divisor < m /\ dividend \in Nat
  <2>1. m \in Nat \ {0} /\ Modulus("l") \in Nat
    BY Halves DEF Sizes
  <2>2. QED BY <2>1
<1>2. /\ q \in Nat /\ r \in 0 .. divisor - 1
      /\ dividend = divisor * q + r
      /\ fits = (dividend < divisor * m)
  <2> HIDE DEF m
  <2>1. m \in Nat
    BY <1>1
  <2>2. QED BY <1>1, <2>1, GoesInto
<1>3. out = Divided(f, dividend, q, r, fits)
  BY Zenon DEF aluDivu
<1>4. fits = ~(dividend >= divisor * m)
  <2> HIDE DEF fits, m
  <2>1. (dividend >= divisor * m) = ~(dividend < divisor * m)
    BY <1>1
  <2>2. QED BY <1>2, <2>1
<1>5. CASE fits
  <2>1. out = Out(Packed(q, r), aluSetLogicFlags(f, q, "w"))
    BY <1>3, <1>5, Zenon DEF Divided
  <2>2. out.val = Packed(q, r) /\ out.f = aluSetLogicFlags(f, q, "w")
    <3> HIDE DEF q, r, out
    <3>1. QED BY <2>1 DEF Out
  <2>3. q < m
    BY <1>5
  <2> HIDE DEF q, r, out, fits
  <2>4. Trunc(q, "w") = q /\ Trunc(r, "w") = r
    <3>1. q \in 0 .. m - 1 /\ r \in 0 .. m - 1
      <4> HIDE DEF m
      <4>1. QED BY <1>1, <1>2, <2>3
    <3>2. PICK h \in Nat \ {0} : m = 2 * h
      BY Halves DEF Sizes
    <3>3. "w" \in Sizes
      BY DEF Sizes
    <3>4. QED BY <3>1, <3>2, <3>3, Signs
  <2>5. Trunc(out.val, "w") = q /\ out.val \div m = r
    <3>1. q \in Int /\ r \in Int
      BY <1>2
    <3>2. Trunc(Packed(q, r), "w") = Trunc(q, "w") /\ Packed(q, r) \div m = Trunc(r, "w")
      BY <3>1, PackedIs
    <3> HIDE DEF m
    <3>3. QED BY <2>2, <2>4, <3>2
  <2>6. out.f.v = FALSE /\ out.f.c = FALSE /\ out.f.z = (q = 0)
    <3>1. (Trunc(q, "w") = 0) = (q = 0)
      BY <2>4, Zenon
    <3> DEFINE g == aluSetLogicFlags(f, q, "w")
    <3>2. g.v = FALSE /\ g.c = FALSE /\ g.z = (Trunc(q, "w") = 0)
      BY DividedFlags, Zenon
    <3> HIDE DEF g
    <3>3. out.f = g
      BY <2>2 DEF g
    <3>4. QED BY <3>1, <3>2, <3>3, Zenon
  <2>7. ~(dividend >= divisor * m)
    BY <1>4, <1>5, Zenon
  <2>8. divisor * q + r = dividend
    BY <1>2
  <2>9. out.f.v = (dividend >= divisor * m)
    <3>1. (dividend >= divisor * m) = FALSE
      BY <2>7
    <3>2. QED BY <2>6, <3>1, Zenon
  <2>10. ~out.f.v /\ ~out.f.c
    BY <2>6, Zenon
  <2>11. QED BY <1>2, <2>5, <2>6, <2>8, <2>9, <2>10, Zenon DEF out
<1>6. CASE ~fits
  <2>1. out = Out(dividend, [f EXCEPT !.v = TRUE])
    BY <1>3, <1>6, Zenon DEF Divided
  <2>2. out.f = [f EXCEPT !.v = TRUE]
    <3> HIDE DEF out
    <3>1. QED BY <2>1 DEF Out
  <2> HIDE DEF q, r, out, fits
  <2>3. out.f.v = TRUE
    BY <2>2, DividedFlags, Zenon
  <2>4. (dividend >= divisor * m) = TRUE
    BY <1>4, <1>6, Zenon
  <2>5. QED BY <2>1, <2>3, <2>4, Zenon DEF out
<1>7. QED BY <1>5, <1>6

Magnitude(n) == IF n < 0 THEN -n ELSE n

\* The quotient that is rounded towards zero, and what it leaves.
LEMMA QuotientIs ==
  ASSUME NEW a \in Int, NEW b \in Int \ {0}, NEW h \in Nat \ {0}
  PROVE  LET q == Quotient(a, b)
             r == a - q * b
         IN  /\ q \in Int /\ r \in Int
             /\ Magnitude(r) < Magnitude(b)
             /\ r = 0 \/ (r < 0) = (a < 0)
             /\ LET small == Magnitude(a) < Magnitude(b) * (IF (a < 0) = (b < 0) THEN h ELSE h + 1)
                IN  (q \in -h .. h - 1 => small) /\ (small => q \in -h .. h - 1)
<1> DEFINE n == Magnitude(a)
           d == Magnitude(b)
           p == n \div d
           s == n % d
           q == Quotient(a, b)
           r == a - q * b
<1>1. n \in Nat /\ d \in Nat \ {0}
  BY DEF Magnitude
<1>2. q = IF (a < 0) = (b < 0) THEN p ELSE -p
  BY Zenon DEF Quotient, Magnitude
<1>3. n = (IF a < 0 THEN -a ELSE a) /\ d = (IF b < 0 THEN -b ELSE b)
  BY DEF Magnitude
<1> HIDE DEF n, d, q
<1>4. /\ p \in Nat /\ s \in 0 .. d - 1 /\ n = d * p + s
      /\ (p < h) = (n < d * h) /\ (p < h + 1) = (n < d * (h + 1))
  <2>1. h \in Nat /\ h + 1 \in Nat
    OBVIOUS
  <2>2. p \in Nat /\ s \in 0 .. d - 1 /\ n = d * p + s
    BY <1>1, <2>1, GoesInto
  <2>3. (p < h) = (n < d * h)
    BY <1>1, <2>1, GoesInto
  <2>4. (p < h + 1) = (n < d * (h + 1))
    BY <1>1, <2>1, GoesInto
  <2>5. QED BY <2>2, <2>3, <2>4
<1> HIDE DEF p, s
<1>5. r = IF a < 0 THEN -s ELSE s
  <2>1. CASE a < 0 /\ b < 0
    <3>1. q = p /\ n = -a /\ d = -b
      BY <1>2, <1>3, <2>1
    <3>2. d * p = -(p * b)
      BY <1>4, <3>1
    <3>3. p * b \in Int
      BY <1>4
    <3>4. QED BY <1>4, <2>1, <3>1, <3>2, <3>3
  <2>2. CASE a < 0 /\ ~(b < 0)
    <3>1. q = -p /\ n = -a /\ d = b
      BY <1>2, <1>3, <2>2
    <3>2. d * p = -((-p) * b)
      BY <1>4, <3>1
    <3>3. (-p) * b \in Int
      BY <1>4
    <3>4. QED BY <1>4, <2>2, <3>1, <3>2, <3>3
  <2>3. CASE ~(a < 0) /\ b < 0
    <3>1. q = -p /\ n = a /\ d = -b
      BY <1>2, <1>3, <2>3
    <3>2. d * p = (-p) * b
      BY <1>4, <3>1
    <3>3. (-p) * b \in Int
      BY <1>4
    <3>4. QED BY <1>4, <2>3, <3>1, <3>2, <3>3
  <2>4. CASE ~(a < 0) /\ ~(b < 0)
    <3>1. q = p /\ n = a /\ d = b
      BY <1>2, <1>3, <2>4
    <3>2. d * p = p * b
      BY <1>4, <3>1
    <3>3. p * b \in Int
      BY <1>4
    <3>4. QED BY <1>4, <2>4, <3>1, <3>2, <3>3
  <2>5. QED BY <2>1, <2>2, <2>3, <2>4
<1>6. q \in Int
  BY <1>2, <1>4
<1>7. (q \in -h .. h - 1) = (n < d * (IF (a < 0) = (b < 0) THEN h ELSE h + 1))
  <2>1. CASE (a < 0) = (b < 0)
    <3>1. (q \in -h .. h - 1) = (p < h)
      BY <1>2, <1>4, <2>1
    <3>2. QED BY <1>4, <2>1, <3>1, Zenon
  <2>2. CASE (a < 0) # (b < 0)
    <3>1. (q \in -h .. h - 1) = (p < h + 1)
      BY <1>2, <1>4, <2>2
    <3>2. QED BY <1>4, <2>2, <3>1, Zenon
  <2>3. QED BY <2>1, <2>2
<1> HIDE DEF r
<1>8. r \in Int /\ Magnitude(r) < d /\ (r = 0 \/ (r < 0) = (a < 0))
  BY <1>1, <1>4, <1>5 DEF Magnitude
<1>9. QED BY <1>6, <1>7, <1>8, Zenon DEF q, r, n, d

\* A number that fits a word comes back from the word it is kept in.
LEMMA WordKeeps ==
  ASSUME ByteBits = 8, NEW h \in Nat \ {0}, Modulus("w") = 2 * h, NEW v \in -h .. h - 1
  PROVE  /\ \A w : Trunc(w, "w") = Trunc(v, "w") => Signed(w, "w") = v
         /\ (Trunc(v, "w") = 0) = (v = 0)
         /\ Negative(v, "w") = (v < 0)
<1>1. "w" \in Sizes
  BY DEF Sizes
<1>2. Modulus("w") \div 2 = h
  BY <1>1, Halves
<1>3. v % (2 * h) = IF v < 0 THEN v + 2 * h ELSE v
  <2>1. 2 * h \in Nat \ {0} /\ v \in Int /\ 0 - 2 * h <= v /\ v < 2 * (2 * h)
    OBVIOUS
  <2>2. v % (2 * h) = IF v < 0 THEN v + 2 * h ELSE IF v < 2 * h THEN v ELSE v - 2 * h
    BY <2>1, ModWrap
  <2>3. QED BY <2>2
<1>4. Trunc(v, "w") = IF v < 0 THEN v + 2 * h ELSE v
  BY <1>3 DEF Trunc
<1>5. (Trunc(v, "w") = 0) = (v = 0) /\ (Trunc(v, "w") >= h) = (v < 0)
  BY <1>4
<1>6. Negative(v, "w") = (v < 0)
  BY <1>2, <1>5, Zenon DEF Negative, Trunc
<1>7. ASSUME NEW w, Trunc(w, "w") = Trunc(v, "w")
      PROVE  Signed(w, "w") = v
  <2>1. Negative(w, "w") = (Trunc(v, "w") >= h)
    BY <1>2, <1>7, Zenon DEF Negative, Trunc
  <2>2. Signed(w, "w") = Trunc(v, "w") - (IF Trunc(v, "w") >= h THEN 2 * h ELSE 0)
    BY <1>7, <2>1, Zenon DEF Signed
  <2>3. QED BY <1>4, <2>2
<1>8. QED BY <1>5, <1>6, <1>7

\* alu.c, aluDivs: likewise for two's complement numbers.  The quotient is rounded towards zero,
\* so that the remainder has the dividend's sign; V alone tells that it is no word.  The most
\* negative dividend by -1, which C leaves undefined, is the one case without a promise.
THEOREM DivsInverts ==
  ASSUME ByteBits = 8, NEW f \in Flags,
         NEW dividend \in 0 .. Modulus("l") - 1, NEW divisor \in 1 .. Modulus("w") - 1,
         ~(Signed(dividend, "l") = -(Modulus("l") \div 2) /\ Signed(divisor, "w") = -1)
  PROVE  LET out == aluDivs(f, dividend, divisor)
             a == Signed(dividend, "l")
             b == Signed(divisor, "w")
             half == Modulus("w") \div 2
             quotient == Signed(out.val, "w")
             remainder == Signed(out.val \div Modulus("w"), "w")
         IN  /\ out.f.v # (Magnitude(a) < Magnitude(b) * (IF (a < 0) = (b < 0) THEN half ELSE half + 1))
             /\ IF out.f.v THEN out = Out(dividend, [f EXCEPT !.v = TRUE])
                ELSE /\ quotient * b + remainder = a
                     /\ Magnitude(remainder) < Magnitude(b)
                     /\ remainder = 0 \/ (remainder < 0) = (a < 0)
                     /\ ~out.f.c /\ out.f.z = (quotient = 0) /\ out.f.n = (quotient < 0)
<1>1. PICK h \in Nat \ {0} : Modulus("w") = 2 * h /\ Modulus("w") \div 2 = h
  BY Halves DEF Sizes
<1> DEFINE m == Modulus("w")
           a == Signed(dividend, "l")
           b == Signed(divisor, "w")
           q == Quotient(a, b)
           r == a - q * b
           out == aluDivs(f, dividend, divisor)
           fits == q \in -h .. h - 1
           small == Magnitude(a) < Magnitude(b) * (IF (a < 0) = (b < 0) THEN h ELSE h + 1)
<1>2. a \in Int /\ b \in -h .. h - 1 /\ b # 0
  <2>1. "w" \in Sizes /\ "l" \in Sizes
    BY DEF Sizes
  <2>2. a \in Int
    <3>1. PICK k \in Nat \ {0} : Modulus("l") = 2 * k
      BY <2>1, Halves
    <3>2. a = IF dividend >= k THEN dividend - 2 * k ELSE dividend
      BY <2>1, <3>1, Signs
    <3> HIDE DEF a
    <3>3. dividend \in Int
      BY <3>1
    <3>4. QED BY <3>1, <3>2, <3>3
  <2>3. divisor \in 1 .. 2 * h - 1
    BY <1>1
  <2>4. b = IF divisor >= h THEN divisor - 2 * h ELSE divisor
    BY <1>1, <2>1, <2>3, Signs
  <2> HIDE DEF a, b
  <2>5. QED BY <2>2, <2>3, <2>4
<1>3. out = Divided(f, dividend, q, r, fits)
  BY <1>1, Zenon DEF aluDivs
<1> HIDE DEF a, b, m
<1>4. /\ q \in Int /\ r \in Int
      /\ Magnitude(r) < Magnitude(b)
      /\ r = 0 \/ (r < 0) = (a < 0)
      /\ fits = small
  <2>1. b \in Int \ {0}
    BY <1>2
  <2>2. q \in Int /\ r \in Int
    BY <1>2, <2>1, QuotientIs
  <2>3. Magnitude(r) < Magnitude(b)
    BY <1>2, <2>1, QuotientIs
  <2>4. r = 0 \/ (r < 0) = (a < 0)
    BY <1>2, <2>1, QuotientIs
  <2>5. fits = small
    <3>1. fits => small
      BY <1>2, <2>1, QuotientIs
    <3>2. small => fits
      BY <1>2, <2>1, QuotientIs
    <3>3. QED BY <3>1, <3>2
  <2>6. QED BY <2>2, <2>3, <2>4, <2>5
<1>5. q * b + r = a
  <2>1. q * b \in Int
    BY <1>2, <1>4
  <2>2. QED BY <1>2, <2>1
<1> HIDE DEF q, r, out, small
<1>6. CASE fits
  <2>1. out = Out(Packed(q, r), aluSetLogicFlags(f, q, "w"))
    BY <1>3, <1>6, Zenon DEF Divided
  <2>2. out.val = Packed(q, r) /\ out.f = aluSetLogicFlags(f, q, "w")
    BY <2>1 DEF Out
  <2>3. r \in -h .. h - 1
    BY <1>2, <1>4 DEF Magnitude
  <2>4. Signed(out.val, "w") = q
    <3>1. Trunc(out.val, "w") = Trunc(q, "w")
      <4>1. Trunc(Packed(q, r), "w") = Trunc(q, "w")
        BY <1>4, PackedIs
      <4>2. QED BY <2>2, <4>1
    <3>2. QED BY <1>1, <1>6, <3>1, WordKeeps, Zenon
  <2>5. Signed(out.val \div m, "w") = r
    <3>1. out.val \div m = Trunc(r, "w") /\ Trunc(r, "w") \in 0 .. m - 1
      <4>1. Packed(q, r) \div m = Trunc(r, "w") /\ Trunc(r, "w") \in 0 .. m - 1
        BY <1>4, PackedIs DEF m
      <4>2. QED BY <2>2, <4>1
    <3>2. Trunc(Trunc(r, "w"), "w") = Trunc(r, "w")
      BY <1>1, <3>1, Signs DEF m, Sizes
    <3>3. Trunc(out.val \div m, "w") = Trunc(r, "w")
      BY <3>1, <3>2, Zenon
    <3>4. QED BY <1>1, <2>3, <3>3, WordKeeps, Zenon
  <2>6. out.f.v = FALSE /\ out.f.c = FALSE /\ out.f.z = (q = 0) /\ out.f.n = (q < 0)
    <3> DEFINE g == aluSetLogicFlags(f, q, "w")
    <3>1. (Trunc(q, "w") = 0) = (q = 0) /\ Negative(q, "w") = (q < 0)
      BY <1>1, <1>6, WordKeeps, Zenon
    <3>2. g.v = FALSE /\ g.c = FALSE /\ g.z = (Trunc(q, "w") = 0) /\ g.n = Negative(q, "w")
      BY DividedFlags, Zenon
    <3> HIDE DEF g
    <3>3. out.f = g
      BY <2>2 DEF g
    <3>4. QED BY <3>1, <3>2, <3>3, Zenon
  <2>7. out.f.v # small
    BY <1>4, <1>6, <2>6, Zenon
  <2>8. ~out.f.v /\ ~out.f.c
    BY <2>6, Zenon
  <2>9. QED BY <1>1, <1>4, <1>5, <2>4, <2>5, <2>6, <2>7, <2>8, Zenon DEF out, small, m, a, b
<1>7. CASE ~fits
  <2>1. out = Out(dividend, [f EXCEPT !.v = TRUE])
    BY <1>3, <1>7, Zenon DEF Divided
  <2>2. out.f = [f EXCEPT !.v = TRUE]
    BY <2>1 DEF Out
  <2>3. out.f.v = TRUE
    BY <2>2, DividedFlags, Zenon
  <2>4. out.f.v # small
    BY <1>4, <1>7, <2>3, Zenon
  <2>5. QED BY <1>1, <2>1, <2>3, <2>4, Zenon DEF out, small, m, a, b
<1>8. QED BY <1>6, <1>7


----------------------------------------------------------------------------
(* Shifts and rotates *)

ShiftOps == {"ASL", "LSL", "ROL", "ROXL", "ASR", "LSR", "ROR", "ROXR"}
Shifters(sz) == [val : 0 .. Modulus(sz) - 1, out : {0, 1}, sign : {0, 1}, v : BOOLEAN]

\* The bit at the top is the half of the modulus.
LEMMA TopBit ==
  ASSUME ByteBits = 8, NEW sz \in Sizes, NEW h \in Nat \ {0}, Modulus(sz) = 2 * h,
         NEW v \in 0 .. 2 * h - 1
  PROVE  Bit(v, Bits(sz) - 1) = IF v >= h THEN 1 ELSE 0
<1>1. 2 ^ (Bits(sz) - 1) = h
  <2>1. 2^7 = 128 /\ 2^15 = 32768 /\ 2^31 = 2147483648 /\ 2^8 = 256 /\ 2^16 = 65536 /\ 2^32 = 4294967296
    OBVIOUS
  <2>2. CASE sz = "b"
    <3>1. Bits(sz) = 8 /\ Bits(sz) - 1 = 7
      BY <2>2 DEF Bits, Bytes
    <3>2. QED BY <3>1, <2>1 DEF Modulus
  <2>3. CASE sz = "w"
    <3>1. Bits(sz) = 16 /\ Bits(sz) - 1 = 15
      BY <2>3 DEF Bits, Bytes
    <3>2. QED BY <3>1, <2>1 DEF Modulus
  <2>4. CASE sz = "l"
    <3>1. Bits(sz) = 32 /\ Bits(sz) - 1 = 31
      BY <2>4 DEF Bits, Bytes
    <3>2. QED BY <3>1, <2>1 DEF Modulus
  <2>5. QED BY <2>2, <2>3, <2>4 DEF Sizes
<1>2. v \div h = IF v >= h THEN 1 ELSE 0
  <2>1. CASE v >= h
    <3>1. v - h \in 0 .. h - 1 /\ v = h * 1 + (v - h)
      BY <2>1
    <3>2. (h * 1 + (v - h)) \div h = 1
      BY <3>1, ModIs
    <3>3. QED BY <2>1, <3>1, <3>2
  <2>2. CASE v < h
    <3>1. v \in 0 .. h - 1 /\ v = h * 0 + v
      BY <2>2
    <3>2. (h * 0 + v) \div h = 0
      BY <3>1, ModIs
    <3>3. QED BY <2>2, <3>1, <3>2
  <2>3. QED BY <2>1, <2>2
<1>3. QED BY <1>1, <1>2 DEF Bit

\* A number and an outgoing bit exchanged.
With(s, y, b) == [s EXCEPT !.val = y, !.out = b]

LEMMA Exchanged ==
  ASSUME NEW sz, NEW s \in Shifters(sz), NEW y \in 0 .. Modulus(sz) - 1, NEW b \in {0, 1}
  PROVE  /\ With(s, y, b) \in Shifters(sz) /\ With(s, y, b).val = y /\ With(s, y, b).out = b
         /\ With(s, y, b).sign = s.sign /\ With(s, y, b).v = s.v
<1> DEFINE A == 0 .. Modulus(sz) - 1
<1> s \in [val : A, out : {0, 1}, sign : {0, 1}, v : BOOLEAN]
  BY DEF Shifters
<1> y \in A
  OBVIOUS
<1> HIDE DEF A
<1>1. With(s, y, b) \in [val : A, out : {0, 1}, sign : {0, 1}, v : BOOLEAN]
  BY DEF With
<1>2. /\ With(s, y, b).val = y /\ With(s, y, b).out = b
      /\ With(s, y, b).sign = s.sign /\ With(s, y, b).v = s.v
  BY DEF With
<1>3. QED BY <1>1, <1>2 DEF Shifters, A

\* One bit to the left, and one to the right.
LEMMA LeftIs ==
  ASSUME ByteBits = 8, NEW sz \in Sizes, NEW h \in Nat \ {0}, Modulus(sz) = 2 * h,
         NEW s \in Shifters(sz), NEW i \in {0, 1}
  PROVE  /\ Left(s, i, sz) \in Shifters(sz)
         /\ Left(s, i, sz).out = IF s.val >= h THEN 1 ELSE 0
         /\ Left(s, i, sz).val = 2 * s.val + i - 2 * h * Left(s, i, sz).out
         /\ Left(s, i, sz).sign = s.sign /\ Left(s, i, sz).v = s.v
<1>0. s.val \in 0 .. 2 * h - 1 /\ s.val \in Int /\ s.sign \in {0, 1} /\ s.v \in BOOLEAN
  BY DEF Shifters
<1>1. Bit(s.val, Bits(sz) - 1) = IF s.val >= h THEN 1 ELSE 0
  BY <1>0, TopBit
<1> DEFINE x == 2 * s.val + i
           y == Trunc(x, sz)
           b == Bit(s.val, Bits(sz) - 1)
<1>2. Left(s, i, sz) = With(s, y, b)
  BY Zenon DEF Left, With
<1>3. x \in Int /\ 0 - 2 * h <= x /\ x < 2 * (2 * h) /\ 2 * h \in Nat \ {0} /\ x >= 0
  BY <1>0
<1>4. b \in {0, 1} /\ b = IF s.val >= h THEN 1 ELSE 0
  BY <1>1
<1>5. (b = 0 /\ x < 2 * h) \/ (b = 1 /\ x >= 2 * h)
  BY <1>0, <1>4
<1>6. x = 2 * s.val + i
  OBVIOUS
<1> HIDE DEF x, b
<1>7. y = x - 2 * h * b /\ y \in 0 .. Modulus(sz) - 1
  <2>1. x % (2 * h) = IF x < 0 THEN x + 2 * h ELSE IF x < 2 * h THEN x ELSE x - 2 * h
    BY <1>3, ModWrap
  <2>2. y = x % (2 * h)
    BY DEF Trunc
  <2>3. QED BY <1>3, <1>5, <2>1, <2>2
<1> HIDE DEF y
<1>8. Left(s, i, sz).val = y /\ Left(s, i, sz).out = b /\ Left(s, i, sz).sign = s.sign
      /\ Left(s, i, sz).v = s.v /\ Left(s, i, sz) \in Shifters(sz)
  BY <1>2, <1>4, <1>7, Exchanged
<1>9. Left(s, i, sz).val = 2 * s.val + i - 2 * h * Left(s, i, sz).out
  BY <1>0, <1>3, <1>4, <1>6, <1>7, <1>8
<1>10. QED BY <1>4, <1>8, <1>9

LEMMA RightIs ==
  ASSUME ByteBits = 8, NEW sz \in Sizes, NEW h \in Nat \ {0}, Modulus(sz) = 2 * h,
         NEW s \in Shifters(sz), NEW i \in {0, 1}
  PROVE  /\ Right(s, i, sz) \in Shifters(sz)
         /\ Right(s, i, sz).out = s.val % 2
         /\ s.val = 2 * (Right(s, i, sz).val - i * h) + Right(s, i, sz).out
         /\ Right(s, i, sz).sign = s.sign /\ Right(s, i, sz).v = s.v
<1>0. s.val \in 0 .. 2 * h - 1 /\ s.val \in Int /\ s.sign \in {0, 1} /\ s.v \in BOOLEAN
  BY DEF Shifters
<1>1. Modulus(sz) \div 2 = h
  BY Halves
<1>2. \A x \in 0 .. 2 * h - 1 : x % 2 \in {0, 1} /\ x \div 2 \in 0 .. h - 1 /\ x = 2 * (x \div 2) + (x % 2)
  OBVIOUS
<1> DEFINE y == s.val \div 2 + i * h
           b == s.val % 2
<1>3. s.val \div 2 \in 0 .. h - 1 /\ b \in {0, 1} /\ s.val = 2 * (s.val \div 2) + b
  BY <1>0, <1>2
<1>4. (i * h = 0 \/ i * h = h) /\ h \in Nat
  OBVIOUS
<1>5. y \in 0 .. Modulus(sz) - 1 /\ s.val = 2 * (y - i * h) + b
  <2> DEFINE p == i * h
             q == s.val \div 2
  <2>1. (p = 0 \/ p = h) /\ q \in 0 .. h - 1 /\ b \in {0, 1} /\ s.val = 2 * q + b /\ y = q + p
    BY <1>3, <1>4
  <2> HIDE DEF p, q, b, y
  <2>2. y \in 0 .. Modulus(sz) - 1 /\ s.val = 2 * (y - p) + b
    BY <2>1
  <2>3. QED BY <2>2 DEF p
<1>6. Right(s, i, sz) = With(s, y, b)
  BY <1>1, Zenon DEF Right, With
<1> HIDE DEF y
<1>7. b = s.val % 2 /\ b \in {0, 1}
  BY <1>3
<1> HIDE DEF b
<1>8. Right(s, i, sz).val = y /\ Right(s, i, sz).out = b /\ Right(s, i, sz).sign = s.sign
      /\ Right(s, i, sz).v = s.v /\ Right(s, i, sz) \in Shifters(sz)
  BY <1>5, <1>6, <1>7, Exchanged
<1>9. QED BY <1>5, <1>7, <1>8

LEMMA TurnKeeps ==
  ASSUME ByteBits = 8, NEW sz \in Sizes, NEW op \in ShiftOps, NEW s \in Shifters(sz)
  PROVE  Turn(op, s, sz) \in Shifters(sz)
<1>1. PICK h \in Nat \ {0} : Modulus(sz) = 2 * h
  BY Halves
<1>2. s.val \in 0 .. 2 * h - 1 /\ s.val % 2 \in {0, 1} /\ s.out \in {0, 1} /\ s.sign \in {0, 1} /\ s.v \in BOOLEAN
  BY <1>1 DEF Shifters
<1>3. Bit(s.val, Bits(sz) - 1) \in {0, 1}
  BY <1>1, <1>2, TopBit
<1>4. \A i \in {0, 1} : Left(s, i, sz) \in Shifters(sz) /\ Right(s, i, sz) \in Shifters(sz)
  BY <1>1, LeftIs, RightIs
<1>5. \A t \in Shifters(sz) : SignWatched(t, s, sz) \in Shifters(sz)
  <2> SUFFICES ASSUME NEW t \in Shifters(sz) PROVE SignWatched(t, s, sz) \in Shifters(sz)
    OBVIOUS
  <2>1. SignWatched(t, s, sz) = [t EXCEPT !.v = t.v \/ Negative(t.val, sz) # Negative(s.val, sz)]
    BY DEF SignWatched
  <2>2. (t.v \/ Negative(t.val, sz) # Negative(s.val, sz)) \in BOOLEAN
    OBVIOUS
  <2>3. QED BY <2>1, <2>2 DEF Shifters
<1>6. QED BY <1>2, <1>3, <1>4, <1>5 DEF Turn, ShiftOps

\* A loop of shifts as a sequence of states, each of which is a turn from the one before.
Loop(t, op, s, n, sz) ==
  /\ t \in [0 .. n -> Shifters(sz)]
  /\ t[0] = s /\ \A k \in 0 .. n - 1 : t[k + 1] = Turn(op, t[k], sz)

LEMMA TurnsAre ==
  ASSUME ByteBits = 8, NEW sz \in Sizes, NEW op \in ShiftOps, NEW s \in Shifters(sz), NEW n \in Nat
  PROVE  \E t : Loop(t, op, s, n, sz) /\ Turns(op, s, n, sz) = t[n]
<1> DEFINE B == Shifters(sz)
           F == [p \in B \X (1 .. n) |-> Turn(op, p[1], sz)]
           Step(g) == [m \in 0 .. n |-> IF m = 0 THEN s ELSE Turn(op, g[m - 1], sz)]
<1>1. F \in [B \X (1 .. n) -> B]
  BY TurnKeeps
<1>2. PICK t \in [0 .. n -> B] : Iterates(t, n, s, F)
  <2> HIDE DEF B, F
  <2>1. s \in B
    BY DEF B
  <2>2. n \in Nat /\ F \in [B \X (1 .. n) -> B]
    BY <1>1
  <2>3. QED BY <2>1, <2>2, Recursion
<1>3. \A k \in 0 .. n - 1 : t[k + 1] = Turn(op, t[k], sz)
  <2> SUFFICES ASSUME NEW k \in 0 .. n - 1 PROVE t[k + 1] = Turn(op, t[k], sz)
    OBVIOUS
  <2>1. <<t[k], k + 1>> \in B \X (1 .. n)
    BY <1>2
  <2>2. t[k + 1] = F[<<t[k], k + 1>>]
    BY <1>2 DEF Iterates
  <2>3. QED BY <2>1, <2>2
<1>4. t = Step(t)
  <2>1. \A m \in 0 .. n : t[m] = IF m = 0 THEN s ELSE Turn(op, t[m - 1], sz)
    <3> SUFFICES ASSUME NEW m \in 0 .. n PROVE t[m] = IF m = 0 THEN s ELSE Turn(op, t[m - 1], sz)
      OBVIOUS
    <3>1. CASE m = 0
      BY <3>1, <1>2 DEF Iterates
    <3>2. CASE m # 0
      <4>1. m - 1 \in 0 .. n - 1 /\ (m - 1) + 1 = m
        BY <3>2
      <4>2. QED BY <3>2, <4>1, <1>3
    <3>3. QED BY <3>1, <3>2
  <2>2. QED BY <1>2, <2>1
<1> DEFINE g == CHOOSE after : after = Step(after)
<1>5. Turns(op, s, n, sz) = g[n]
  BY Zenon DEF Turns
<1>6. g = Step(g)
  <2> HIDE DEF Step
  <2>1. QED BY <1>4
<1> HIDE DEF g
<1>7. g \in [0 .. n -> B] /\ g[0] = s /\ \A k \in 0 .. n - 1 : g[k + 1] = Turn(op, g[k], sz)
  <2>1. g[0] = s
    BY <1>6
  <2>2. \A k \in 0 .. n - 1 : g[k + 1] = Turn(op, g[k], sz)
    BY <1>6
  <2>3. DOMAIN g = 0 .. n
    BY <1>6
  <2> DEFINE P == {k \in 0 .. n : g[k] \in B}
  <2>4. 0 \in P
    BY <2>1
  <2>5. ASSUME NEW k \in 0 .. n - 1, k \in P PROVE k + 1 \in P
    BY <2>2, <2>5, TurnKeeps
  <2>6. \A k \in 0 .. n : k \in P
    <3> HIDE DEF P
    <3>1. QED BY <2>4, <2>5, Induct
  <2>7. g = [k \in 0 .. n |-> g[k]]
    BY <1>6
  <2>8. QED BY <2>1, <2>2, <2>6, <2>7
<1>8. QED BY <1>5, <1>7 DEF Loop

\* What a turn to the left and one to the right do, with the bit that goes in.
ToLeft(s, t, i, h) ==
  \/ s.val < h  /\ t.out = 0 /\ t.val = 2 * s.val + i
  \/ s.val >= h /\ t.out = 1 /\ t.val = 2 * s.val + i - 2 * h
ToRight(s, t, i, h) ==
  /\ t.out = s.val % 2
  /\ \/ i = 0 /\ t.val < h  /\ s.val = 2 * t.val + t.out
     \/ i = 1 /\ t.val >= h /\ s.val = 2 * (t.val - h) + t.out
GoesIn(op, s, h) ==
  CASE op \in {"ASL", "LSL", "LSR"} -> 0
    [] op = "ASR" -> s.sign
    [] op \in {"ROXL", "ROXR"} -> s.out
    [] op = "ROL" -> IF s.val >= h THEN 1 ELSE 0
    [] op = "ROR" -> s.val % 2

LEMMA LeftTurn ==
  ASSUME ByteBits = 8, NEW sz \in Sizes, NEW h \in Nat \ {0}, Modulus(sz) = 2 * h,
         NEW s \in Shifters(sz), NEW op \in {"ASL", "LSL", "ROL", "ROXL"}
  PROVE  /\ ToLeft(s, Turn(op, s, sz), GoesIn(op, s, h), h)
         /\ op # "ASL" => (Turn(op, s, sz).v <=> s.v)
         /\ op = "ASL" => (Turn(op, s, sz).v <=>
                              s.v \/ ~ (Negative(Turn(op, s, sz).val, sz) <=> Negative(s.val, sz)))
<1> DEFINE i == GoesIn(op, s, h)
           t == Left(s, i, sz)
<1>1. s.val \in 0 .. 2 * h - 1 /\ s.out \in {0, 1} /\ s.v \in BOOLEAN
  BY DEF Shifters
<1>2. i \in {0, 1}
  BY <1>1 DEF GoesIn
<1>3. Bit(s.val, Bits(sz) - 1) = IF s.val >= h THEN 1 ELSE 0
  BY <1>1, TopBit
<1>4. Turn(op, s, sz) = IF op = "ASL" THEN SignWatched(t, s, sz) ELSE t
  BY <1>3 DEF Turn, GoesIn
<1>5. t \in Shifters(sz) /\ t.out = (IF s.val >= h THEN 1 ELSE 0)
      /\ t.val = 2 * s.val + i - 2 * h * t.out /\ (t.v <=> s.v)
  <2> HIDE DEF i
  <2>1. QED BY <1>2, LeftIs
<1>6. ToLeft(s, t, i, h)
  <2> HIDE DEF i, t
  <2>1. t.out = 0 => 2 * h * t.out = 0
    OBVIOUS
  <2>2. t.out = 1 => 2 * h * t.out = 2 * h
    OBVIOUS
  <2>3. QED BY <1>1, <1>2, <1>5, <2>1, <2>2 DEF ToLeft
<1>7. SignWatched(t, s, sz).val = t.val /\ SignWatched(t, s, sz).out = t.out
      /\ (SignWatched(t, s, sz).v <=> t.v \/ ~ (Negative(t.val, sz) <=> Negative(s.val, sz)))
  <2> HIDE DEF t
  <2>1. Negative(t.val, sz) \in BOOLEAN /\ Negative(s.val, sz) \in BOOLEAN
    BY DEF Negative
  <2>2. QED BY <1>5, <2>1 DEF SignWatched, Shifters
<1> HIDE DEF i, t
<1>8. CASE op = "ASL"
  <2>1. ToLeft(s, SignWatched(t, s, sz), i, h)
    BY <1>6, <1>7 DEF ToLeft
  <2>2. Turn(op, s, sz) = SignWatched(t, s, sz)
    BY <1>4, <1>8
  <2>3. Turn(op, s, sz).v <=> s.v \/ ~ (Negative(Turn(op, s, sz).val, sz) <=> Negative(s.val, sz))
    BY <1>5, <1>7, <2>2
  <2>4. QED BY <1>8, <2>1, <2>2, <2>3 DEF i
<1>9. CASE op # "ASL"
  <2>1. Turn(op, s, sz) = t
    BY <1>4, <1>9
  <2>2. QED BY <1>5, <1>6, <1>9, <2>1 DEF i
<1>10. QED BY <1>8, <1>9

LEMMA RightTurn ==
  ASSUME ByteBits = 8, NEW sz \in Sizes, NEW h \in Nat \ {0}, Modulus(sz) = 2 * h,
         NEW s \in Shifters(sz), NEW op \in {"ASR", "LSR", "ROR", "ROXR"}
  PROVE  /\ ToRight(s, Turn(op, s, sz), GoesIn(op, s, h), h)
         /\ Turn(op, s, sz).sign = s.sign
         /\ Turn(op, s, sz).v <=> s.v
<1> DEFINE i == GoesIn(op, s, h)
           t == Right(s, i, sz)
<1>1. s.val \in 0 .. 2 * h - 1 /\ s.out \in {0, 1} /\ s.sign \in {0, 1} /\ s.val % 2 \in {0, 1}
  BY DEF Shifters
<1>2. i \in {0, 1}
  BY <1>1 DEF GoesIn
<1>3. Turn(op, s, sz) = t
  BY DEF Turn, GoesIn
<1> HIDE DEF i
<1>4. t \in Shifters(sz) /\ t.out = s.val % 2 /\ s.val = 2 * (t.val - i * h) + t.out
      /\ t.sign = s.sign /\ (t.v <=> s.v)
  BY <1>2, RightIs
<1>5. t.val \in 0 .. 2 * h - 1 /\ t.out \in {0, 1}
  BY <1>4 DEF Shifters
<1> HIDE DEF t
<1>6. (i = 0 /\ i * h = 0) \/ (i = 1 /\ i * h = h)
  BY <1>2
<1>7. ToRight(s, t, i, h)
  <2>1. CASE i = 0
    <3>1. s.val = 2 * t.val + t.out
      BY <1>4, <1>5, <1>6, <2>1
    <3>2. QED BY <1>1, <1>4, <1>5, <2>1, <3>1 DEF ToRight
  <2>2. CASE i = 1
    <3>1. s.val = 2 * (t.val - h) + t.out
      BY <1>4, <1>5, <1>6, <2>2
    <3>2. QED BY <1>1, <1>4, <1>5, <2>2, <3>1 DEF ToRight
  <2>3. QED BY <1>6, <2>1, <2>2
<1>8. QED BY <1>3, <1>4, <1>7 DEF i

\* The powers of two: P[k] is 2^k.
Doubling(P) == P \in [Nat -> Nat] /\ P[0] = 1 /\ \A k \in Nat : P[k + 1] = 2 * P[k]

LEMMA Positive ==
  ASSUME NEW P, Doubling(P), NEW n \in Nat
  PROVE  P[n] \in Nat \ {0}
<1> DEFINE S == {k \in 0 .. n : P[k] \in Nat \ {0}}
<1>1. 0 \in S
  BY DEF Doubling
<1>2. \A k \in 0 .. n - 1 : k \in S => k + 1 \in S
  BY DEF Doubling
<1>3. \A k \in 0 .. n : k \in S
  <2> HIDE DEF S
  <2>1. QED BY <1>1, <1>2, Induct
<1>4. QED BY <1>3

\* What the loop starts from.
LEMMA ShifterIs ==
  ASSUME ByteBits = 8, NEW sz \in Sizes, NEW val \in Int
  PROVE  /\ Shifter(val, sz) \in Shifters(sz)
         /\ Shifter(val, sz).val = Trunc(val, sz) /\ Shifter(val, sz).out = 0
         /\ Shifter(val, sz).sign = (IF Negative(val, sz) THEN 1 ELSE 0)
         /\ ~ Shifter(val, sz).v
<1>1. Trunc(val, sz) \in 0 .. Modulus(sz) - 1
  BY OperandRange
<1>2. QED BY <1>1 DEF Shifter, Shifters

\* The sign bit tells whether the signed number is negative.
LEMMA SignIs ==
  ASSUME ByteBits = 8, NEW sz \in Sizes, NEW x \in 0 .. Modulus(sz) - 1
  PROVE  Trunc(x, sz) = x /\ Negative(x, sz) \in BOOLEAN /\ (Negative(x, sz) <=> Signed(x, sz) < 0)
<1>1. PICK h \in Nat \ {0} : Modulus(sz) = 2 * h
  BY Halves
<1>2. x \in 0 .. 2 * h - 1
  BY <1>1
<1>3. Trunc(x, sz) = x /\ Negative(x, sz) = (x >= h) /\ Signed(x, sz) = IF x >= h THEN x - 2 * h ELSE x
  BY <1>1, Signs
<1>4. Signed(x, sz) < 0 <=> x >= h
  BY <1>2, <1>3
<1>5. Negative(x, sz) <=> x >= h
  BY <1>3
<1>6. Negative(x, sz) \in BOOLEAN
  BY DEF Negative
<1>7. QED BY <1>3, <1>4, <1>5, <1>6

\* What the condition codes are made of.
LEMMA ShiftedIs ==
  ASSUME ByteBits = 8, NEW sz \in Sizes, NEW op \in ShiftOps, NEW f \in Flags, NEW val \in Int,
         NEW n \in Nat, NEW s \in Shifters(sz), s = Turns(op, Shifter(val, sz), n, sz)
  PROVE  /\ Shifted(op, f, val, n, sz).val = s.val
         /\ Shifted(op, f, val, n, sz).f.c <=> s.out = 1
         /\ Shifted(op, f, val, n, sz).f.x <=> IF n > 0 THEN s.out = 1 ELSE f.x
         /\ Shifted(op, f, val, n, sz).f.v <=> s.v
         /\ Shifted(op, f, val, n, sz).f.z <=> s.val = 0
         /\ Shifted(op, f, val, n, sz).f.n <=> Signed(s.val, sz) < 0
<1> DEFINE g == [f EXCEPT !.c = s.out = 1, !.x = IF n > 0 THEN s.out = 1 ELSE @, !.v = s.v]
           r == aluSetNZ(g, s.val, sz)
<1>1. s.val \in 0 .. Modulus(sz) - 1 /\ s.v \in BOOLEAN /\ f.x \in BOOLEAN
  BY DEF Shifters, Flags, FlagNames
<1>2. Shifted(op, f, val, n, sz) = [val |-> s.val, f |-> r]
  BY Zenon DEF Shifted, Out
<1>3. DOMAIN f = FlagNames
  BY DEF Flags
<1>4. g.c = (s.out = 1) /\ g.x = (IF n > 0 THEN s.out = 1 ELSE f.x) /\ g.v = s.v /\ DOMAIN g = FlagNames
  BY <1>3, Zenon DEF FlagNames
<1> HIDE DEF g
<1>5. r.c = g.c /\ r.x = g.x /\ r.v = g.v /\ r.z = (Trunc(s.val, sz) = 0) /\ r.n = Negative(s.val, sz)
  BY <1>4, Zenon DEF aluSetNZ, FlagNames
<1> HIDE DEF r
<1>6. Trunc(s.val, sz) = s.val /\ (Negative(s.val, sz) <=> Signed(s.val, sz) < 0)
  BY <1>1, SignIs
<1>7. Shifted(op, f, val, n, sz).val = s.val /\ Shifted(op, f, val, n, sz).f = r
  BY <1>2
<1>8. (r.z <=> s.val = 0) /\ (r.n <=> Signed(s.val, sz) < 0)
  BY <1>5, <1>6
<1>9. (r.c <=> s.out = 1) /\ (r.v <=> s.v)
  BY <1>4, <1>5
<1>10. r.x <=> IF n > 0 THEN s.out = 1 ELSE f.x
  BY <1>4, <1>5
<1>11. QED BY <1>7, <1>8, <1>9, <1>10

\* Turns to the left multiply, modulo the size; the last bit out is the lowest of what is lost.
LEMMA Multiplied ==
  ASSUME ByteBits = 8, NEW sz \in Sizes, NEW op \in {"ASL", "LSL"}, NEW n \in Nat,
         NEW s \in Shifters(sz), s.out = 0, NEW P, Doubling(P), NEW t, Loop(t, op, s, n, sz)
  PROVE  \E q \in Nat : s.val * P[n] = Modulus(sz) * q + t[n].val /\ t[n].out = q % 2
<1>0. PICK h \in Nat \ {0} : Modulus(sz) = 2 * h
  BY Halves
<1> DEFINE m == 2 * h
           S == {k \in 0 .. n : \E q \in Nat : s.val * P[k] = m * q + t[k].val /\ t[k].out = q % 2}
<1>1. s.val \in Nat
  BY <1>0 DEF Shifters
<1>2. 0 \in S
  <2>1. s.val * P[0] = m * 0 + t[0].val /\ t[0].out = 0 % 2 /\ 0 \in Nat
    <3>1. P[0] = 1 /\ t[0].val = s.val /\ t[0].out = 0
      BY DEF Doubling, Loop
    <3>2. s.val * 1 = m * 0 + s.val /\ 0 % 2 = 0
      BY <1>1
    <3>3. QED BY <3>1, <3>2
  <2>2. QED BY <2>1
<1>3. ASSUME NEW k \in 0 .. n - 1, k \in S PROVE k + 1 \in S
  <2> DEFINE x == t[k].val
             y == t[k + 1].val
             b == t[k + 1].out
             p == P[k]
  <2>1. PICK q \in Nat : s.val * p = m * q + x /\ t[k].out = q % 2
    BY <1>3
  <2>2. t[k] \in Shifters(sz) /\ t[k + 1] = Turn(op, t[k], sz)
    BY DEF Loop
  <2>3. GoesIn(op, t[k], h) = 0
    BY DEF GoesIn
  <2>4. ToLeft(t[k], t[k + 1], 0, h)
    BY <1>0, <2>2, <2>3, LeftTurn
  <2>5. x \in Nat
    BY <1>0, <2>2 DEF Shifters
  <2>6. (b = 0 /\ y = 2 * x) \/ (b = 1 /\ y = 2 * x - m)
    BY <2>4, <2>5 DEF ToLeft
  <2>7. P[k + 1] = 2 * p /\ p \in Nat
    BY DEF Doubling
  <2>8. m \in Nat /\ k + 1 \in 0 .. n
    OBVIOUS
  <2> HIDE DEF x, y, b, p, m
  <2>9. s.val * P[k + 1] = 2 * (m * q + x)
    <3>1. s.val * (2 * p) = 2 * (s.val * p)
      BY <1>1, <2>7
    <3>2. QED BY <2>1, <2>7, <3>1
  <2>10. m * (2 * q) = 2 * (m * q) /\ m * (2 * q + 1) = 2 * (m * q) + m /\ m * q \in Nat
    BY <2>8
  <2>11. (2 * q) % 2 = 0 /\ (2 * q + 1) % 2 = 1
    OBVIOUS
  <2>12. \E r \in Nat : s.val * P[k + 1] = m * r + y /\ b = r % 2
    <3>1. CASE b = 0
      <4>1. 2 * q \in Nat /\ s.val * P[k + 1] = m * (2 * q) + y
        BY <2>5, <2>6, <2>9, <2>10, <3>1
      <4>2. QED BY <3>1, <4>1, <2>11
    <3>2. CASE b = 1
      <4>1. 2 * q + 1 \in Nat /\ s.val * P[k + 1] = m * (2 * q + 1) + y
        BY <2>5, <2>6, <2>8, <2>9, <2>10, <3>2
      <4>2. QED BY <3>2, <4>1, <2>11
    <3>3. QED BY <2>6, <3>1, <3>2
  <2>13. QED BY <2>8, <2>12 DEF y, b
<1>4. \A k \in 0 .. n : k \in S
  <2> HIDE DEF S
  <2>1. QED BY <1>2, <1>3, Induct
<1>5. n \in S
  <2> HIDE DEF S
  <2>1. QED BY <1>4
<1>6. QED BY <1>0, <1>5

\* A shift left without overflow, and where the sign is lost.
LEMMA Overflowed ==
  ASSUME ByteBits = 8, NEW sz \in Sizes, NEW h \in Nat \ {0}, Modulus(sz) = 2 * h, NEW n \in Nat,
         NEW s \in Shifters(sz), ~ s.v, NEW P, Doubling(P), NEW t, Loop(t, "ASL", s, n, sz)
  PROVE  t[n].v <=> \E k \in 1 .. n : Signed(s.val, sz) * P[k] \notin 0 - h .. h - 1
<1> DEFINE w == Signed(s.val, sz)
           Lost(k) == w * P[k] \notin 0 - h .. h - 1
           S == {k \in 0 .. n : /\ ~ t[k].v => Signed(t[k].val, sz) = w * P[k]
                                /\ t[k].v <=> \E j \in 1 .. k : Lost(j)}
<1>1. \A x \in 0 .. 2 * h - 1 : Signed(x, sz) = (IF x >= h THEN x - 2 * h ELSE x) /\ (Negative(x, sz) <=> x >= h)
  <2> SUFFICES ASSUME NEW x \in 0 .. 2 * h - 1
               PROVE  Signed(x, sz) = (IF x >= h THEN x - 2 * h ELSE x) /\ (Negative(x, sz) <=> x >= h)
    OBVIOUS
  <2>1. x \in 0 .. Modulus(sz) - 1
    OBVIOUS
  <2>2. Signed(x, sz) = (IF x >= h THEN x - 2 * h ELSE x) /\ Negative(x, sz) = (x >= h)
    BY <2>1, Signs
  <2>3. QED BY <2>2
<1>2. s.val \in 0 .. 2 * h - 1 /\ w \in Int
  <2>1. s.val \in 0 .. 2 * h - 1
    BY DEF Shifters
  <2>2. QED BY <1>1, <2>1
<1> HIDE DEF w
<1>3. 0 \in S
  <2>1. P[0] = 1 /\ t[0] = s /\ 1 .. 0 = {}
    BY DEF Doubling, Loop
  <2>2. Signed(s.val, sz) = w * 1
    BY <1>2 DEF w
  <2>3. QED BY <2>1, <2>2
<1>4. ASSUME NEW k \in 0 .. n - 1, k \in S PROVE k + 1 \in S
  <2> DEFINE x == t[k].val
             y == t[k + 1].val
  <2>1. t[k] \in Shifters(sz) /\ t[k + 1] \in Shifters(sz) /\ t[k + 1] = Turn("ASL", t[k], sz)
    BY DEF Loop
  <2>2. GoesIn("ASL", t[k], h) = 0
    BY DEF GoesIn
  <2>3. ToLeft(t[k], t[k + 1], 0, h)
    BY <2>1, <2>2, LeftTurn
  <2>4. x \in 0 .. 2 * h - 1 /\ y \in 0 .. 2 * h - 1
    BY <2>1 DEF Shifters
  <2>5. (x < h /\ y = 2 * x) \/ (x >= h /\ y = 2 * x - 2 * h)
    BY <2>3, <2>4 DEF ToLeft
  <2>6. t[k + 1].v <=> t[k].v \/ ~ (Negative(y, sz) <=> Negative(x, sz))
    BY <2>1, LeftTurn
  <2>7. P[k + 1] = 2 * P[k] /\ P[k] \in Nat
    BY DEF Doubling
  <2>8. w * P[k + 1] = 2 * (w * P[k]) /\ w * P[k] \in Int
    <3>1. w * (2 * P[k]) = 2 * (w * P[k])
      BY <1>2, <2>7
    <3>2. QED BY <1>2, <2>7, <3>1
  <2>9. (\E j \in 1 .. k + 1 : Lost(j)) <=> (\E j \in 1 .. k : Lost(j)) \/ Lost(k + 1)
    <3> HIDE DEF Lost
    <3>1. 1 .. k + 1 = (1 .. k) \union {k + 1}
      OBVIOUS
    <3>2. QED BY <3>1
  <2>10. t[k].v <=> \E j \in 1 .. k : Lost(j)
    BY <1>4
  <2>11. Lost(k + 1) <=> 2 * (w * P[k]) \notin 0 - h .. h - 1
    BY <2>8
  <2> HIDE DEF Lost
  <2>12. t[k].v \in BOOLEAN /\ t[k + 1].v \in BOOLEAN
    BY <2>1 DEF Shifters
  <2>13. CASE t[k].v
    BY <2>6, <2>9, <2>10, <2>12, <2>13
  <2>14. CASE ~ t[k].v
    <3> DEFINE u == w * P[k]
    <3>1. u = IF x >= h THEN x - 2 * h ELSE x
      BY <1>1, <1>4, <2>4, <2>14
    <3>2. (t[k + 1].v <=> ~ (y >= h <=> x >= h)) /\ Signed(y, sz) = IF y >= h THEN y - 2 * h ELSE y
      BY <1>1, <2>4, <2>6, <2>14
    <3>3. w * P[k + 1] = 2 * u /\ (Lost(k + 1) <=> 2 * u \notin 0 - h .. h - 1)
      BY <2>8, <2>11
    <3> HIDE DEF u, x, y
    <3>4. (y >= h <=> x >= h) <=> 2 * u \in 0 - h .. h - 1
      BY <2>4, <2>5, <3>1
    <3>5. (y >= h <=> x >= h) => Signed(y, sz) = 2 * u
      BY <2>4, <2>5, <3>1, <3>2
    <3>6. ~ t[k + 1].v => Signed(y, sz) = w * P[k + 1]
      BY <3>2, <3>3, <3>5
    <3>7. t[k + 1].v <=> \E j \in 1 .. k + 1 : Lost(j)
      BY <2>9, <2>10, <2>14, <3>2, <3>3, <3>4
    <3>8. QED BY <3>6, <3>7 DEF y
  <2>15. QED BY <2>13, <2>14
<1>5. \A k \in 0 .. n : k \in S
  <2> HIDE DEF S
  <2>1. QED BY <1>3, <1>4, Induct
<1>6. n \in S
  <2> HIDE DEF S
  <2>1. QED BY <1>5
<1>7. QED BY <1>6 DEF w

\* LSL and ASL multiply by a power of two: the result is the product modulo the size, C is the
\* lowest bit of what does not fit and X as C, or kept for a count of 0.  LSL clears V; ASL
\* sets it when some step gave a signed number that does not fit.
THEOREM LeftMultiplies ==
  ASSUME ByteBits = 8, NEW sz \in Sizes, NEW f \in Flags, NEW val \in Int, NEW n \in Nat,
         NEW P, Doubling(P), NEW r \in {aluLsl(f, val, n, sz), aluAsl(f, val, n, sz)}
  PROVE  LET product == Trunc(val, sz) * P[n]
             half == Modulus(sz) \div 2
         IN  /\ r.val = product % Modulus(sz)
             /\ r.f.c <=> (product \div Modulus(sz)) % 2 = 1
             /\ r.f.x <=> IF n > 0 THEN r.f.c ELSE f.x
             /\ r.f.z <=> r.val = 0
             /\ r.f.n <=> Signed(r.val, sz) < 0
             /\ ~ aluLsl(f, val, n, sz).f.v
             /\ aluAsl(f, val, n, sz).f.v <=>
                   \E k \in 1 .. n : Signed(Trunc(val, sz), sz) * P[k] \notin 0 - half .. half - 1
<1> DEFINE product == Trunc(val, sz) * P[n]
           s == Shifter(val, sz)
<1>1. PICK h \in Nat \ {0} : Modulus(sz) = 2 * h /\ Modulus(sz) \div 2 = h
  BY Halves
<1>2. s \in Shifters(sz) /\ s.val = Trunc(val, sz) /\ s.out = 0 /\ ~ s.v
  BY ShifterIs
<1> HIDE DEF s
<1>3. ASSUME NEW op \in {"ASL", "LSL"}
      PROVE  LET q == Shifted(op, f, val, n, sz)
             IN  /\ q.val = product % Modulus(sz)
                 /\ q.f.c <=> (product \div Modulus(sz)) % 2 = 1
                 /\ q.f.x <=> IF n > 0 THEN q.f.c ELSE f.x
                 /\ q.f.z <=> q.val = 0
                 /\ q.f.n <=> Signed(q.val, sz) < 0
                 /\ op = "LSL" => ~ q.f.v
                 /\ op = "ASL" => (q.f.v <=> \E k \in 1 .. n : Signed(Trunc(val, sz), sz) * P[k] \notin 0 - h .. h - 1)
  <2>1. op \in ShiftOps
    BY DEF ShiftOps
  <2>2. PICK t : Loop(t, op, s, n, sz) /\ Turns(op, s, n, sz) = t[n]
    BY <1>2, <2>1, TurnsAre
  <2>3. t[n] \in Shifters(sz)
    BY <2>2 DEF Loop
  <2> DEFINE e == t[n]
  <2>4. PICK q \in Nat : product = Modulus(sz) * q + e.val /\ e.out = q % 2
    BY <1>2, <2>2, Multiplied
  <2>5. e.val \in 0 .. Modulus(sz) - 1
    BY <2>3 DEF Shifters
  <2>6. product % Modulus(sz) = e.val /\ product \div Modulus(sz) = q
    <3>1. Modulus(sz) \in Nat \ {0} /\ q \in Int
      BY <1>1
    <3> HIDE DEF product, e
    <3>2. (Modulus(sz) * q + e.val) % Modulus(sz) = e.val /\ (Modulus(sz) * q + e.val) \div Modulus(sz) = q
      BY <2>5, <3>1, ModIs
    <3>3. QED BY <2>4, <3>2
  <2>7. e = Turns(op, Shifter(val, sz), n, sz)
    BY <2>2 DEF s
  <2>8. op = "LSL" => ~ e.v
    <3> SUFFICES ASSUME op = "LSL" PROVE ~ e.v
      OBVIOUS
    <3> DEFINE S == {k \in 0 .. n : ~ t[k].v}
    <3>1. 0 \in S
      BY <1>2, <2>2 DEF Loop
    <3>2. ASSUME NEW k \in 0 .. n - 1, k \in S PROVE k + 1 \in S
      <4>1. t[k] \in Shifters(sz) /\ t[k + 1] = Turn(op, t[k], sz)
        BY <2>2 DEF Loop
      <4>2. op \in {"ASL", "LSL", "ROL", "ROXL"} /\ op # "ASL"
        OBVIOUS
      <4>3. Turn(op, t[k], sz).v <=> t[k].v
        BY <1>1, <4>1, <4>2, LeftTurn
      <4>4. QED BY <3>2, <4>1, <4>3
    <3>3. \A k \in 0 .. n : k \in S
      <4> HIDE DEF S
      <4>1. QED BY <3>1, <3>2, Induct
    <3>4. QED BY <3>3
  <2>9. op = "ASL" => (e.v <=> \E k \in 1 .. n : Signed(s.val, sz) * P[k] \notin 0 - h .. h - 1)
    BY <1>1, <1>2, <2>2, Overflowed
  <2> HIDE DEF e
  <2> DEFINE g == Shifted(op, f, val, n, sz)
  <2>10. e \in Shifters(sz)
    BY <2>3 DEF e
  <2>11. /\ g.val = e.val /\ (g.f.c <=> e.out = 1)
         /\ g.f.x <=> IF n > 0 THEN e.out = 1 ELSE f.x
         /\ (g.f.v <=> e.v) /\ (g.f.z <=> e.val = 0) /\ (g.f.n <=> Signed(e.val, sz) < 0)
    BY <2>1, <2>7, <2>10, ShiftedIs
  <2> HIDE DEF g, product
  <2>12. QED BY <1>2, <2>4, <2>6, <2>8, <2>9, <2>11 DEF g
<1>4. QED BY <1>1, <1>3 DEF aluLsl, aluAsl

\* The number that a shift to the right divides.
Number(op, x, sz) == IF op = "ASR" THEN Signed(x, sz) ELSE x

LEMMA Halved ==
  ASSUME ByteBits = 8, NEW sz \in Sizes, NEW h \in Nat \ {0}, Modulus(sz) = 2 * h,
         NEW op \in {"ASR", "LSR"}, NEW s \in Shifters(sz),
         op = "ASR" => (s.val >= h <=> s.sign = 1)
  PROVE  LET t == Turn(op, s, sz)
         IN  /\ Number(op, s.val, sz) = 2 * Number(op, t.val, sz) + t.out
             /\ t.out = Number(op, s.val, sz) % 2
             /\ Number(op, s.val, sz) \in Int /\ Number(op, t.val, sz) \in Int
             /\ op = "ASR" => (t.val >= h <=> s.sign = 1)
<1> DEFINE t == Turn(op, s, sz)
           x == s.val
           y == t.val
           o == t.out
<1>1. op \in ShiftOps /\ op \in {"ASR", "LSR", "ROR", "ROXR"}
  BY DEF ShiftOps
<1>2. t \in Shifters(sz)
  BY <1>1, TurnKeeps
<1>3. ToRight(s, t, GoesIn(op, s, h), h)
  BY <1>1, RightTurn
<1>4. x \in 0 .. 2 * h - 1 /\ y \in 0 .. 2 * h - 1 /\ o \in {0, 1} /\ s.sign \in {0, 1}
  BY <1>2 DEF Shifters
<1>5. x \in 0 .. Modulus(sz) - 1 /\ y \in 0 .. Modulus(sz) - 1
  BY <1>4
<1>6. /\ Signed(x, sz) = (IF x >= h THEN x - 2 * h ELSE x)
      /\ Signed(y, sz) = (IF y >= h THEN y - 2 * h ELSE y)
  <2> HIDE DEF x, y
  <2>1. QED BY <1>5, Signs
<1>7. o = x % 2
  BY <1>3 DEF ToRight
<1>8. CASE op = "LSR"
  <2>1. GoesIn(op, s, h) = 0
    BY <1>8 DEF GoesIn
  <2>2. x = 2 * y + o
    BY <1>3, <2>1 DEF ToRight
  <2>3. Number(op, x, sz) = x /\ Number(op, y, sz) = y
    BY <1>8 DEF Number
  <2> HIDE DEF x, y, o, t
  <2>4. Number(op, x, sz) = 2 * Number(op, y, sz) + o /\ o = Number(op, x, sz) % 2
        /\ Number(op, x, sz) \in Int /\ Number(op, y, sz) \in Int
    BY <1>4, <1>7, <2>2, <2>3
  <2>5. QED BY <1>8, <2>4 DEF x, y, o, t
<1>9. CASE op = "ASR"
  <2>1. GoesIn(op, s, h) = s.sign
    BY <1>9 DEF GoesIn
  <2>2. \/ s.sign = 0 /\ y < h /\ x = 2 * y + o
        \/ s.sign = 1 /\ y >= h /\ x = 2 * (y - h) + o
    BY <1>3, <2>1 DEF ToRight
  <2>3. Number(op, x, sz) = Signed(x, sz) /\ Number(op, y, sz) = Signed(y, sz)
    BY <1>9 DEF Number
  <2>4. x >= h <=> s.sign = 1
    BY <1>9
  <2> DEFINE g == s.sign
             a == Number(op, x, sz)
             b == Number(op, y, sz)
  <2>5. a = (IF x >= h THEN x - 2 * h ELSE x) /\ b = (IF y >= h THEN y - 2 * h ELSE y)
    BY <1>6, <2>3
  <2> HIDE DEF x, y, o, t, g, a, b
  <2>6. a = 2 * b + o /\ a \in Int /\ b \in Int
    BY <1>4, <2>2, <2>4, <2>5
  <2>7. o = a % 2
    BY <1>4, <2>6
  <2>8. y >= h <=> s.sign = 1
    BY <1>4, <2>2
  <2>9. QED BY <1>9, <2>6, <2>7, <2>8 DEF x, y, o, t, a, b
<1>10. QED BY <1>8, <1>9

\* Turns to the right divide, rounding down.
LEMMA DividedBy ==
  ASSUME ByteBits = 8, NEW sz \in Sizes, NEW h \in Nat \ {0}, Modulus(sz) = 2 * h,
         NEW op \in {"ASR", "LSR"}, NEW n \in Nat, NEW s \in Shifters(sz), s.out = 0, ~ s.v,
         op = "ASR" => (s.val >= h <=> s.sign = 1),
         NEW P, Doubling(P), NEW t, Loop(t, op, s, n, sz)
  PROVE  /\ Number(op, s.val, sz) \div P[n] = Number(op, t[n].val, sz)
         /\ t[n].out = 1 <=> n > 0 /\ (Number(op, s.val, sz) \div P[n - 1]) % 2 = 1
         /\ ~ t[n].v
<1> DEFINE w == Number(op, s.val, sz)
           N(k) == Number(op, t[k].val, sz)
           S == {k \in 0 .. n : /\ ~ t[k].v /\ t[k].sign = s.sign
                                /\ op = "ASR" => (t[k].val >= h <=> s.sign = 1)
                                /\ \E r \in 0 .. P[k] - 1 : w = P[k] * N(k) + r}
<1>1. \A k \in 0 .. n : t[k] \in Shifters(sz)
  BY DEF Loop
<1>2. \A k \in 0 .. n - 1 : t[k + 1] = Turn(op, t[k], sz)
  BY DEF Loop
<1>3. \A k \in 0 .. n : P[k] \in Nat \ {0}
  BY Positive
<1>4. w \in Int
  BY Halved
<1>5. 0 \in S
  <2>1. P[0] = 1 /\ t[0] = s
    BY DEF Doubling, Loop
  <2>2. w = 1 * w + 0 /\ 0 \in 0 .. 1 - 1
    BY <1>4
  <2>3. w = P[0] * N(0) + 0 /\ 0 \in 0 .. P[0] - 1
    BY <2>1, <2>2
  <2>4. QED BY <2>1, <2>3
<1>6. ASSUME NEW k \in 0 .. n - 1, k \in S PROVE k + 1 \in S
  <2>1. PICK r \in 0 .. P[k] - 1 : w = P[k] * N(k) + r
    BY <1>6
  <2>2. op = "ASR" => (t[k].val >= h <=> t[k].sign = 1)
    BY <1>6
  <2>3. t[k] \in Shifters(sz) /\ t[k + 1] \in Shifters(sz) /\ t[k + 1] = Turn(op, t[k], sz)
    BY <1>1, <1>2
  <2>4. /\ N(k) = 2 * N(k + 1) + t[k + 1].out
        /\ N(k) \in Int /\ N(k + 1) \in Int
        /\ op = "ASR" => (t[k + 1].val >= h <=> t[k].sign = 1)
    BY <2>2, <2>3, Halved
  <2>5. op \in {"ASR", "LSR", "ROR", "ROXR"}
    OBVIOUS
  <2>6. t[k + 1].sign = t[k].sign /\ (t[k + 1].v <=> t[k].v)
    BY <2>3, <2>5, RightTurn
  <2>7. P[k + 1] = 2 * P[k] /\ P[k] \in Nat \ {0}
    BY <1>3 DEF Doubling
  <2> DEFINE p == P[k]
             a == N(k + 1)
             o == t[k + 1].out
  <2>8. o \in {0, 1} /\ a \in Int /\ w = p * (2 * a + o) + r /\ r \in 0 .. p - 1
    BY <2>1, <2>3, <2>4 DEF Shifters
  <2> HIDE DEF a, o, w
  <2>9. \E q \in 0 .. 2 * p - 1 : w = (2 * p) * a + q
    <3> HIDE DEF p
    <3>0. p \in Nat \ {0}
      BY <2>7 DEF p
    <3>1. CASE o = 0
      <4>1. p * (2 * a + 0) = (2 * p) * a
        BY <2>8, <3>0
      <4>2. w = (2 * p) * a + r /\ r \in 0 .. 2 * p - 1
        BY <2>8, <3>0, <3>1, <4>1
      <4>3. QED BY <4>2
    <3>2. CASE o = 1
      <4>1. p * (2 * a + 1) = (2 * p) * a + p /\ (2 * p) * a \in Int
        BY <2>8, <3>0
      <4>2. w = (2 * p) * a + (p + r) /\ p + r \in 0 .. 2 * p - 1
        BY <2>8, <3>0, <3>2, <4>1
      <4>3. QED BY <4>2
    <3>3. QED BY <2>8, <3>1, <3>2
  <2>10. \E q \in 0 .. P[k + 1] - 1 : w = P[k + 1] * N(k + 1) + q
    BY <2>7, <2>9 DEF a
  <2>11. QED BY <1>6, <2>3, <2>4, <2>6, <2>10
<1>7. \A k \in 0 .. n : k \in S
  <2> HIDE DEF S
  <2>1. QED BY <1>5, <1>6, Induct
<1>8. ASSUME NEW k \in 0 .. n PROVE w \div P[k] = N(k) /\ N(k) \in Int
  <2>1. PICK r \in 0 .. P[k] - 1 : w = P[k] * N(k) + r
    BY <1>7
  <2>2. op = "ASR" => (t[k].val >= h <=> t[k].sign = 1)
    BY <1>7
  <2>3. t[k] \in Shifters(sz) /\ P[k] \in Nat \ {0}
    BY <1>1, <1>3
  <2>4. N(k) \in Int
    BY <2>2, <2>3, Halved
  <2> HIDE DEF N, w
  <2>5. (P[k] * N(k) + r) \div P[k] = N(k)
    BY <2>3, <2>4, ModIs
  <2>6. QED BY <2>1, <2>4, <2>5
<1>9. t[n].out = 1 <=> n > 0 /\ (w \div P[n - 1]) % 2 = 1
  <2>1. CASE n = 0
    BY <2>1 DEF Loop
  <2>2. CASE n # 0
    <3>1. n - 1 \in 0 .. n - 1 /\ n - 1 \in 0 .. n /\ (n - 1) + 1 = n /\ n > 0
      BY <2>2
    <3>2. t[n] = Turn(op, t[n - 1], sz) /\ t[n - 1] \in Shifters(sz)
      BY <1>1, <1>2, <3>1
    <3>3. op = "ASR" => (t[n - 1].val >= h <=> t[n - 1].sign = 1)
      BY <1>7, <3>1
    <3>4. t[n].out = N(n - 1) % 2
      BY <3>2, <3>3, Halved
    <3>5. w \div P[n - 1] = N(n - 1)
      BY <1>8, <3>1
    <3> HIDE DEF w, N
    <3>6. QED BY <3>1, <3>4, <3>5
  <2>3. QED BY <2>1, <2>2
<1>10. w \div P[n] = N(n) /\ ~ t[n].v
  <2>1. n \in 0 .. n
    OBVIOUS
  <2>2. w \div P[n] = N(n)
    <3> HIDE DEF w, N
    <3>1. QED BY <1>8, <2>1
  <2>3. QED BY <1>7, <2>1, <2>2
<1>11. QED BY <1>9, <1>10

LEMMA RightShifted ==
  ASSUME ByteBits = 8, NEW sz \in Sizes, NEW f \in Flags, NEW val \in Int, NEW n \in Nat,
         NEW P, Doubling(P), NEW op \in {"ASR", "LSR"}
  PROVE  LET w == Number(op, Trunc(val, sz), sz)
             r == Shifted(op, f, val, n, sz)
         IN  /\ Number(op, r.val, sz) = w \div P[n]
             /\ r.f.c <=> n > 0 /\ (w \div P[n - 1]) % 2 = 1
             /\ r.f.x <=> IF n > 0 THEN r.f.c ELSE f.x
             /\ r.f.z <=> r.val = 0
             /\ r.f.n <=> Signed(r.val, sz) < 0
             /\ ~ r.f.v
<1> DEFINE s == Shifter(val, sz)
<1>1. PICK h \in Nat \ {0} : Modulus(sz) = 2 * h
  BY Halves
<1>2. s \in Shifters(sz) /\ s.val = Trunc(val, sz) /\ s.out = 0 /\ ~ s.v
      /\ s.sign = (IF Negative(val, sz) THEN 1 ELSE 0)
  BY ShifterIs
<1>3. s.val >= h <=> s.sign = 1
  <2>1. Negative(val, sz) <=> Trunc(val, sz) >= h
    <3>1. Modulus(sz) \div 2 = h
      BY <1>1, Halves
    <3>2. QED BY <3>1 DEF Negative, Trunc
  <2>2. QED BY <1>2, <2>1
<1> HIDE DEF s
<1>4. op \in ShiftOps
  BY DEF ShiftOps
<1>5. PICK t : Loop(t, op, s, n, sz) /\ Turns(op, s, n, sz) = t[n]
  BY <1>2, <1>4, TurnsAre
<1> DEFINE e == t[n]
<1>6. e \in Shifters(sz) /\ e = Turns(op, Shifter(val, sz), n, sz)
  BY <1>5 DEF Loop, s
<1>7. /\ Number(op, s.val, sz) \div P[n] = Number(op, e.val, sz)
      /\ e.out = 1 <=> n > 0 /\ (Number(op, s.val, sz) \div P[n - 1]) % 2 = 1
      /\ ~ e.v
  BY <1>1, <1>2, <1>3, <1>5, DividedBy
<1> HIDE DEF e
<1> DEFINE g == Shifted(op, f, val, n, sz)
<1>8. /\ g.val = e.val /\ (g.f.c <=> e.out = 1)
      /\ g.f.x <=> IF n > 0 THEN e.out = 1 ELSE f.x
      /\ (g.f.v <=> e.v) /\ (g.f.z <=> e.val = 0) /\ (g.f.n <=> Signed(e.val, sz) < 0)
  BY <1>4, <1>6, ShiftedIs
<1> HIDE DEF g
<1>9. QED BY <1>2, <1>7, <1>8 DEF g

\* LSR divides the number by a power of two and ASR the signed one, both rounding down; C is
\* the last bit shifted out and X as C, or kept for a count of 0; V is clear.
THEOREM RightDivides ==
  ASSUME ByteBits = 8, NEW sz \in Sizes, NEW f \in Flags, NEW val \in Int, NEW n \in Nat,
         NEW P, Doubling(P)
  PROVE  LET v == Trunc(val, sz)
             r == aluLsr(f, val, n, sz)
             s == aluAsr(f, val, n, sz)
         IN  /\ r.val = v \div P[n]
             /\ r.f.c <=> n > 0 /\ (v \div P[n - 1]) % 2 = 1
             /\ Signed(s.val, sz) = Signed(v, sz) \div P[n]
             /\ s.f.c <=> n > 0 /\ (Signed(v, sz) \div P[n - 1]) % 2 = 1
             /\ \A e \in {r, s} : /\ e.f.x <=> IF n > 0 THEN e.f.c ELSE f.x
                                  /\ e.f.z <=> e.val = 0
                                  /\ e.f.n <=> Signed(e.val, sz) < 0
                                  /\ ~ e.f.v
<1> DEFINE v == Trunc(val, sz)
           r == aluLsr(f, val, n, sz)
           s == aluAsr(f, val, n, sz)
<1>1. r = Shifted("LSR", f, val, n, sz) /\ s = Shifted("ASR", f, val, n, sz)
  BY DEF aluLsr, aluAsr
<1>2. \A x : Number("LSR", x, sz) = x /\ Number("ASR", x, sz) = Signed(x, sz)
  BY DEF Number
<1> HIDE DEF r, s, v
<1>3. /\ r.val = v \div P[n] /\ (r.f.c <=> n > 0 /\ (v \div P[n - 1]) % 2 = 1)
      /\ r.f.x <=> IF n > 0 THEN r.f.c ELSE f.x
      /\ (r.f.z <=> r.val = 0) /\ (r.f.n <=> Signed(r.val, sz) < 0) /\ ~ r.f.v
  BY <1>1, <1>2, RightShifted DEF v
<1>4. /\ Signed(s.val, sz) = Signed(v, sz) \div P[n]
      /\ s.f.c <=> n > 0 /\ (Signed(v, sz) \div P[n - 1]) % 2 = 1
      /\ s.f.x <=> IF n > 0 THEN s.f.c ELSE f.x
      /\ (s.f.z <=> s.val = 0) /\ (s.f.n <=> Signed(s.val, sz) < 0) /\ ~ s.f.v
  BY <1>1, <1>2, RightShifted DEF v
<1>5. QED BY <1>3, <1>4 DEF r, s, v

\* One rotation back.
LEMMA TurnedBack ==
  ASSUME ByteBits = 8, NEW sz \in Sizes, NEW s \in Shifters(sz), NEW t \in Shifters(sz)
  PROVE  /\ t.val = Turn("ROL", s, sz).val => Turn("ROR", t, sz).val = s.val
         /\ t.val = Turn("ROR", s, sz).val => Turn("ROL", t, sz).val = s.val
         /\ t.val = Turn("ROXL", s, sz).val /\ t.out = Turn("ROXL", s, sz).out =>
              Turn("ROXR", t, sz).val = s.val /\ Turn("ROXR", t, sz).out = s.out
         /\ t.val = Turn("ROXR", s, sz).val /\ t.out = Turn("ROXR", s, sz).out =>
              Turn("ROXL", t, sz).val = s.val /\ Turn("ROXL", t, sz).out = s.out
<1>1. PICK h \in Nat \ {0} : Modulus(sz) = 2 * h
  BY Halves
<1>2. ASSUME NEW op \in {"ROL", "ROXL"}, NEW x \in Shifters(sz)
      PROVE  ToLeft(x, Turn(op, x, sz), GoesIn(op, x, h), h)
  BY <1>1, LeftTurn
<1>3. ASSUME NEW op \in {"ROR", "ROXR"}, NEW x \in Shifters(sz)
      PROVE  ToRight(x, Turn(op, x, sz), GoesIn(op, x, h), h)
  BY <1>1, RightTurn
<1>4. \A x \in Shifters(sz) : /\ GoesIn("ROL", x, h) = (IF x.val >= h THEN 1 ELSE 0)
                              /\ GoesIn("ROR", x, h) = x.val % 2
                              /\ GoesIn("ROXL", x, h) = x.out
                              /\ GoesIn("ROXR", x, h) = x.out
  BY DEF GoesIn
<1> DEFINE v == s.val
           w == t.val
<1>5. /\ v \in 0 .. 2 * h - 1 /\ s.out \in {0, 1}
      /\ w \in 0 .. 2 * h - 1 /\ t.out \in {0, 1}
  BY <1>1 DEF Shifters
<1>6. \A op \in {"ROL", "ROR", "ROXL", "ROXR"} : Turn(op, s, sz) \in Shifters(sz) /\ Turn(op, t, sz) \in Shifters(sz)
  BY TurnKeeps DEF ShiftOps
<1>7. ASSUME w = Turn("ROL", s, sz).val PROVE Turn("ROR", t, sz).val = v
  <2> DEFINE a == Turn("ROL", s, sz)
             b == Turn("ROR", t, sz)
             i == IF v >= h THEN 1 ELSE 0
             j == w % 2
  <2>1. ToLeft(s, a, i, h) /\ ToRight(t, b, j, h)
    BY <1>2, <1>3, <1>4
  <2>2. \/ v < h  /\ w = 2 * v
        \/ v >= h /\ w = 2 * v + 1 - 2 * h
    BY <1>5, <1>7, <2>1 DEF ToLeft
  <2>3. b.val \in 0 .. 2 * h - 1
    BY <1>1, <1>6 DEF Shifters
  <2>4. /\ b.out = j
        /\ \/ j = 0 /\ w = 2 * b.val + b.out
           \/ j = 1 /\ w = 2 * (b.val - h) + b.out
    BY <2>1 DEF ToRight
  <2>5. \/ j = 0 /\ w = 2 * b.val
        \/ j = 1 /\ w = 2 * (b.val - h) + 1
    BY <2>3, <2>4
  <2>6. (v < h /\ j = 0) \/ (v >= h /\ j = 1)
    <3> HIDE DEF v
    <3>1. CASE v < h
      BY <1>5, <2>2, <3>1
    <3>2. CASE v >= h
      BY <1>5, <2>2, <3>2
    <3>3. QED BY <1>5, <3>1, <3>2
  <2> HIDE DEF v, w, b, j
  <2>7. b.val = v
    BY <1>5, <2>2, <2>3, <2>5, <2>6
  <2>8. QED BY <2>7 DEF b
<1>8. ASSUME w = Turn("ROR", s, sz).val PROVE Turn("ROL", t, sz).val = v
  <2> DEFINE a == Turn("ROR", s, sz)
             b == Turn("ROL", t, sz)
             j == v % 2
             i == IF w >= h THEN 1 ELSE 0
  <2>1. ToRight(s, a, j, h) /\ ToLeft(t, b, i, h)
    BY <1>2, <1>3, <1>4
  <2>2. \/ j = 0 /\ w < h /\ v = 2 * w + a.out
        \/ j = 1 /\ w >= h /\ v = 2 * (w - h) + a.out
    BY <1>8, <2>1 DEF ToRight
  <2>3. a.out = j
    BY <2>1 DEF ToRight
  <2>4. \/ w < h  /\ b.val = 2 * w
        \/ w >= h /\ b.val = 2 * w + 1 - 2 * h
    BY <1>5, <2>1 DEF ToLeft
  <2> HIDE DEF v, w, a, b, j
  <2>5. b.val = v
    BY <1>5, <2>2, <2>3, <2>4
  <2>6. QED BY <2>5 DEF b
<1>9. ASSUME w = Turn("ROXL", s, sz).val, t.out = Turn("ROXL", s, sz).out
      PROVE  Turn("ROXR", t, sz).val = v /\ Turn("ROXR", t, sz).out = s.out
  <2> DEFINE a == Turn("ROXL", s, sz)
             b == Turn("ROXR", t, sz)
             o == s.out
             c == t.out
  <2>1. ToLeft(s, a, o, h) /\ ToRight(t, b, c, h)
    BY <1>2, <1>3, <1>4
  <2>2. \/ v < h  /\ c = 0 /\ w = 2 * v + o
        \/ v >= h /\ c = 1 /\ w = 2 * v + o - 2 * h
    BY <1>5, <1>9, <2>1 DEF ToLeft
  <2>3. b.val \in 0 .. 2 * h - 1 /\ b.out \in {0, 1}
    BY <1>1, <1>6 DEF Shifters
  <2>4. \/ c = 0 /\ w = 2 * b.val + b.out
        \/ c = 1 /\ w = 2 * (b.val - h) + b.out
    BY <2>1 DEF ToRight
  <2> HIDE DEF v, w, a, b, o, c
  <2>5. o \in {0, 1}
    BY <1>5 DEF o
  <2>6. b.val = v /\ b.out = o
    BY <1>5, <2>2, <2>3, <2>4, <2>5
  <2>7. QED BY <2>6 DEF b, o
<1>10. ASSUME w = Turn("ROXR", s, sz).val, t.out = Turn("ROXR", s, sz).out
       PROVE  Turn("ROXL", t, sz).val = v /\ Turn("ROXL", t, sz).out = s.out
  <2> DEFINE a == Turn("ROXR", s, sz)
             b == Turn("ROXL", t, sz)
             o == s.out
             c == t.out
  <2>1. ToRight(s, a, o, h) /\ ToLeft(t, b, c, h)
    BY <1>2, <1>3, <1>4
  <2>2. \/ o = 0 /\ w < h /\ v = 2 * w + c
        \/ o = 1 /\ w >= h /\ v = 2 * (w - h) + c
    BY <1>10, <2>1 DEF ToRight
  <2>3. \/ w < h  /\ b.out = 0 /\ b.val = 2 * w + c
        \/ w >= h /\ b.out = 1 /\ b.val = 2 * w + c - 2 * h
    BY <1>5, <2>1 DEF ToLeft
  <2> HIDE DEF v, w, a, b, o, c
  <2>4. o \in {0, 1} /\ c \in {0, 1}
    BY <1>5 DEF o, c
  <2>5. b.val = v /\ b.out = o
    BY <1>5, <2>2, <2>3, <2>4
  <2>6. QED BY <2>5 DEF b, o
<1>11. QED BY <1>7, <1>8, <1>9, <1>10

\* As many rotations back.
Opposites == {<<"ROL", "ROR">>, <<"ROR", "ROL">>, <<"ROXL", "ROXR">>, <<"ROXR", "ROXL">>}

LEMMA RotatedBack ==
  ASSUME ByteBits = 8, NEW sz \in Sizes, NEW n \in Nat, NEW op, NEW po, <<op, po>> \in Opposites,
         NEW s \in Shifters(sz), NEW t, Loop(t, op, s, n, sz),
         NEW x \in Shifters(sz), NEW u, Loop(u, po, x, n, sz),
         x.val = t[n].val, op \in {"ROXL", "ROXR"} => x.out = t[n].out
  PROVE  u[n].val = s.val /\ (op \in {"ROXL", "ROXR"} => u[n].out = s.out)
<1> DEFINE S == {k \in 0 .. n : /\ u[k].val = t[n - k].val
                                /\ op \in {"ROXL", "ROXR"} => u[k].out = t[n - k].out}
<1>1. 0 \in S
  <2>1. n - 0 = n /\ u[0] = x
    BY DEF Loop
  <2>2. QED BY <2>1
<1>2. ASSUME NEW k \in 0 .. n - 1, k \in S PROVE k + 1 \in S
  <2> DEFINE j == n - (k + 1)
  <2>1. j \in 0 .. n - 1 /\ j \in 0 .. n /\ j + 1 = n - k /\ k \in 0 .. n /\ k + 1 \in 0 .. n
    OBVIOUS
  <2> HIDE DEF j
  <2>2. t[j] \in Shifters(sz) /\ t[n - k] = Turn(op, t[j], sz)
    BY <2>1 DEF Loop
  <2>3. u[k] \in Shifters(sz) /\ u[k + 1] = Turn(po, u[k], sz)
    BY <2>1 DEF Loop
  <2>4. u[k].val = Turn(op, t[j], sz).val
        /\ (op \in {"ROXL", "ROXR"} => u[k].out = Turn(op, t[j], sz).out)
    BY <1>2, <2>2
  <2>5. u[k + 1].val = t[j].val /\ (op \in {"ROXL", "ROXR"} => u[k + 1].out = t[j].out)
    <3>1. CASE op = "ROL" /\ po = "ROR"
      BY <2>2, <2>3, <2>4, <3>1, TurnedBack
    <3>2. CASE op = "ROR" /\ po = "ROL"
      BY <2>2, <2>3, <2>4, <3>2, TurnedBack
    <3>3. CASE op = "ROXL" /\ po = "ROXR"
      BY <2>2, <2>3, <2>4, <3>3, TurnedBack
    <3>4. CASE op = "ROXR" /\ po = "ROXL"
      BY <2>2, <2>3, <2>4, <3>4, TurnedBack
    <3>5. QED BY <3>1, <3>2, <3>3, <3>4 DEF Opposites
  <2>6. QED BY <2>1, <2>5 DEF j
<1>3. \A k \in 0 .. n : k \in S
  <2> HIDE DEF S
  <2>1. QED BY <1>1, <1>2, Induct
<1>4. u[n].val = t[n - n].val /\ (op \in {"ROXL", "ROXR"} => u[n].out = t[n - n].out)
  <2>1. n \in 0 .. n
    OBVIOUS
  <2>2. QED BY <1>3, <2>1
<1>5. n - n = 0 /\ t[0] = s
  BY DEF Loop
<1>6. QED BY <1>4, <1>5

\* What the condition codes of rotations are made of.
LEMMA RotatedIs ==
  ASSUME ByteBits = 8, NEW sz \in Sizes, NEW op \in {"ROL", "ROR"}, NEW f \in Flags, NEW val \in Int,
         NEW n \in Nat, NEW s \in Shifters(sz), s = Turns(op, Shifter(val, sz), n, sz)
  PROVE  /\ Rotated(op, f, val, n, sz).val = s.val
         /\ Rotated(op, f, val, n, sz).f.c <=> s.out = 1
         /\ Rotated(op, f, val, n, sz).f.x <=> f.x
         /\ Rotated(op, f, val, n, sz).f.v <=> s.v
         /\ Rotated(op, f, val, n, sz).f.z <=> s.val = 0
         /\ Rotated(op, f, val, n, sz).f.n <=> Signed(s.val, sz) < 0
<1> DEFINE g == Shifted(op, f, val, n, sz)
           r == Rotated(op, f, val, n, sz)
<1>1. op \in ShiftOps
  BY DEF ShiftOps
<1>2. /\ g.val = s.val /\ (g.f.c <=> s.out = 1) /\ (g.f.v <=> s.v) /\ (g.f.z <=> s.val = 0)
      /\ g.f.n <=> Signed(s.val, sz) < 0
  BY <1>1, ShiftedIs
<1>3. DOMAIN g = {"val", "f"} /\ DOMAIN g.f = FlagNames
  BY DEF Shifted, Out, aluSetNZ, Flags
<1>4. r = [g EXCEPT !.f.x = f.x]
  BY DEF Rotated
<1> HIDE DEF g, r
<1>5. r.val = g.val /\ r.f = [g.f EXCEPT !.x = f.x]
  BY <1>3, <1>4, Zenon
<1>6. r.f.c = g.f.c /\ r.f.v = g.f.v /\ r.f.z = g.f.z /\ r.f.n = g.f.n /\ r.f.x = f.x
  BY <1>3, <1>5, Zenon DEF FlagNames
<1>7. QED BY <1>2, <1>5, <1>6 DEF r

LEMMA ExtendedIs ==
  ASSUME ByteBits = 8, NEW sz \in Sizes, NEW op \in {"ROXL", "ROXR"}, NEW f \in Flags, NEW val \in Int,
         NEW n \in Nat, NEW s \in Shifters(sz),
         s = Turns(op, [Shifter(val, sz) EXCEPT !.out = XBit(f)], n, sz)
  PROVE  /\ Extended(op, f, val, n, sz).val = s.val
         /\ Extended(op, f, val, n, sz).f \in Flags
         /\ Extended(op, f, val, n, sz).f.c <=> s.out = 1
         /\ Extended(op, f, val, n, sz).f.x <=> s.out = 1
         /\ ~ Extended(op, f, val, n, sz).f.v
         /\ Extended(op, f, val, n, sz).f.z <=> s.val = 0
         /\ Extended(op, f, val, n, sz).f.n <=> Signed(s.val, sz) < 0
<1> DEFINE g == [f EXCEPT !.c = s.out = 1, !.x = s.out = 1, !.v = FALSE]
           r == aluSetNZ(g, s.val, sz)
<1>1. s.val \in 0 .. Modulus(sz) - 1
  BY DEF Shifters
<1>2. Extended(op, f, val, n, sz) = [val |-> s.val, f |-> r]
  BY Zenon DEF Extended, Out
<1>3. DOMAIN f = FlagNames /\ f \in [FlagNames -> BOOLEAN]
  BY DEF Flags
<1>4. g.c = (s.out = 1) /\ g.x = (s.out = 1) /\ g.v = FALSE /\ DOMAIN g = FlagNames
  BY <1>3, Zenon DEF FlagNames
<1>5. g \in [FlagNames -> BOOLEAN]
  BY <1>3
<1> HIDE DEF g
<1>6. Trunc(s.val, sz) = s.val /\ Negative(s.val, sz) \in BOOLEAN /\ (Negative(s.val, sz) <=> Signed(s.val, sz) < 0)
  BY <1>1, SignIs
<1>7. r.c = g.c /\ r.x = g.x /\ r.v = g.v /\ r.z = (Trunc(s.val, sz) = 0) /\ r.n = Negative(s.val, sz)
  BY <1>4, Zenon DEF aluSetNZ, FlagNames
<1>8. r \in Flags
  BY <1>5, <1>6 DEF aluSetNZ, Flags
<1> HIDE DEF r
<1>9. Extended(op, f, val, n, sz).val = s.val /\ Extended(op, f, val, n, sz).f = r
  BY <1>2
<1>10. (r.z <=> s.val = 0) /\ (r.n <=> Signed(s.val, sz) < 0)
  BY <1>6, <1>7
<1>11. (r.c <=> s.out = 1) /\ (r.x <=> s.out = 1) /\ ~ r.v
  BY <1>4, <1>7
<1>12. QED BY <1>8, <1>9, <1>10, <1>11

\* Rotations through X as loops, from the number and X beside it.
LEMMA RingIs ==
  ASSUME ByteBits = 8, NEW sz \in Sizes, NEW op \in {"ROXL", "ROXR"}, NEW f \in Flags, NEW val \in Int,
         NEW n \in Nat
  PROVE  LET s == [Shifter(val, sz) EXCEPT !.out = XBit(f)]
             r == Extended(op, f, val, n, sz)
         IN  /\ s \in Shifters(sz) /\ s.val = Trunc(val, sz) /\ (s.out = 1 <=> f.x) /\ s.out = XBit(f)
             /\ \E t : /\ Loop(t, op, s, n, sz)
                      /\ t[n] \in Shifters(sz) /\ t[n].val = r.val /\ t[n].out = XBit(r.f)
                      /\ (t[n].out = 1 <=> r.f.x) /\ (r.f.c <=> r.f.x)
             /\ r.f \in Flags /\ r.val \in Int /\ ~ r.f.v
             /\ (r.f.z <=> r.val = 0) /\ (r.f.n <=> Signed(r.val, sz) < 0)
<1> DEFINE s == [Shifter(val, sz) EXCEPT !.out = XBit(f)]
           r == Extended(op, f, val, n, sz)
<1>1. Shifter(val, sz) \in Shifters(sz) /\ Shifter(val, sz).val = Trunc(val, sz)
  BY ShifterIs
<1>2. XBit(f) \in {0, 1} /\ (XBit(f) = 1 <=> f.x)
  BY DEF XBit
<1>3. s \in Shifters(sz) /\ s.val = Trunc(val, sz) /\ s.out = XBit(f)
  BY <1>1, <1>2 DEF Shifters
<1>4. op \in ShiftOps
  BY DEF ShiftOps
<1> HIDE DEF s
<1>5. PICK t : Loop(t, op, s, n, sz) /\ Turns(op, s, n, sz) = t[n]
  BY <1>3, <1>4, TurnsAre
<1> DEFINE e == t[n]
<1>6. e \in Shifters(sz) /\ e = Turns(op, [Shifter(val, sz) EXCEPT !.out = XBit(f)], n, sz)
  BY <1>5 DEF Loop, s
<1> HIDE DEF e
<1>7. /\ r.val = e.val /\ r.f \in Flags /\ (r.f.c <=> e.out = 1) /\ (r.f.x <=> e.out = 1) /\ ~ r.f.v
      /\ (r.f.z <=> e.val = 0) /\ (r.f.n <=> Signed(e.val, sz) < 0)
  BY <1>6, ExtendedIs
<1> HIDE DEF r
<1>8. e.val \in Int /\ e.out \in {0, 1}
  BY <1>6 DEF Shifters
<1>9. e.out = XBit(r.f)
  BY <1>7, <1>8 DEF XBit
<1>10. QED BY <1>2, <1>3, <1>5, <1>6, <1>7, <1>8, <1>9 DEF e, r, s

\* A rotation as a loop.
LEMMA RollIs ==
  ASSUME ByteBits = 8, NEW sz \in Sizes, NEW op \in {"ROL", "ROR"}, NEW f \in Flags, NEW val \in Int,
         NEW n \in Nat
  PROVE  LET s == Shifter(val, sz)
             r == Rotated(op, f, val, n, sz)
         IN  /\ s \in Shifters(sz) /\ s.val = Trunc(val, sz) /\ s.out = 0
             /\ \E t : /\ Loop(t, op, s, n, sz)
                      /\ t[n] \in Shifters(sz) /\ t[n].val = r.val /\ (r.f.c <=> t[n].out = 1) /\ (r.f.v <=> t[n].v)
             /\ r.val \in Int /\ (r.f.x <=> f.x)
             /\ (r.f.z <=> r.val = 0) /\ (r.f.n <=> Signed(r.val, sz) < 0)
<1> DEFINE s == Shifter(val, sz)
           r == Rotated(op, f, val, n, sz)
<1>1. s \in Shifters(sz) /\ s.val = Trunc(val, sz) /\ s.out = 0
  BY ShifterIs
<1>2. op \in ShiftOps
  BY DEF ShiftOps
<1> HIDE DEF s
<1>3. PICK t : Loop(t, op, s, n, sz) /\ Turns(op, s, n, sz) = t[n]
  BY <1>1, <1>2, TurnsAre
<1> DEFINE e == t[n]
<1>4. e \in Shifters(sz) /\ e = Turns(op, Shifter(val, sz), n, sz)
  BY <1>3 DEF Loop, s
<1> HIDE DEF e
<1>5. /\ r.val = e.val /\ (r.f.c <=> e.out = 1) /\ (r.f.x <=> f.x) /\ (r.f.v <=> e.v)
      /\ (r.f.z <=> e.val = 0) /\ (r.f.n <=> Signed(e.val, sz) < 0)
  BY <1>4, RotatedIs
<1> HIDE DEF r
<1>6. e.val \in Int
  BY <1>4 DEF Shifters
<1>7. QED BY <1>1, <1>3, <1>4, <1>5, <1>6 DEF e, r, s

\* ROR undoes ROL by the same count and the other way round; ROXR undoes ROXL, and ROXL undoes
\* ROXR, in the number and in X.
THEOREM RotatesBack ==
  ASSUME ByteBits = 8, NEW sz \in Sizes, NEW f \in Flags, NEW g \in Flags, NEW val \in Int, NEW n \in Nat
  PROVE  LET v == Trunc(val, sz)
             left == aluRoxl(f, val, n, sz)
             right == aluRoxr(f, val, n, sz)
             back == aluRoxr(left.f, left.val, n, sz)
             forth == aluRoxl(right.f, right.val, n, sz)
         IN  /\ aluRor(g, aluRol(f, val, n, sz).val, n, sz).val = v
             /\ aluRol(g, aluRor(f, val, n, sz).val, n, sz).val = v
             /\ back.val = v /\ (back.f.x <=> f.x)
             /\ forth.val = v /\ (forth.f.x <=> f.x)
<1>1. ASSUME NEW op \in {"ROL", "ROR"}, NEW po \in {"ROL", "ROR"}, <<op, po>> \in Opposites
      PROVE  Rotated(po, g, Rotated(op, f, val, n, sz).val, n, sz).val = Trunc(val, sz)
  <2> DEFINE r == Rotated(op, f, val, n, sz)
             q == Rotated(po, g, r.val, n, sz)
  <2>1. Shifter(val, sz) \in Shifters(sz) /\ Shifter(val, sz).val = Trunc(val, sz) /\ r.val \in Int
    BY RollIs
  <2>2. PICK t : Loop(t, op, Shifter(val, sz), n, sz) /\ t[n] \in Shifters(sz) /\ t[n].val = r.val
    BY RollIs
  <2> HIDE DEF r
  <2>3. Shifter(r.val, sz) \in Shifters(sz) /\ Shifter(r.val, sz).val = Trunc(r.val, sz)
    BY <2>1, RollIs
  <2>4. PICK u : Loop(u, po, Shifter(r.val, sz), n, sz) /\ u[n].val = q.val
    BY <2>1, RollIs
  <2>5. Trunc(r.val, sz) = r.val
    <3>1. r.val \in 0 .. Modulus(sz) - 1
      BY <2>2 DEF Shifters
    <3>2. QED BY <3>1, SignIs
  <2>6. u[n].val = Shifter(val, sz).val
    BY <1>1, <2>1, <2>2, <2>3, <2>4, <2>5, RotatedBack
  <2>7. QED BY <2>1, <2>4, <2>6 DEF r
<1>2. ASSUME NEW op \in {"ROXL", "ROXR"}, NEW po \in {"ROXL", "ROXR"}, <<op, po>> \in Opposites
      PROVE  LET r == Extended(op, f, val, n, sz)
                 q == Extended(po, r.f, r.val, n, sz)
             IN  q.val = Trunc(val, sz) /\ (q.f.x <=> f.x)
  <2> DEFINE s == [Shifter(val, sz) EXCEPT !.out = XBit(f)]
             r == Extended(op, f, val, n, sz)
             q == Extended(po, r.f, r.val, n, sz)
             x == [Shifter(r.val, sz) EXCEPT !.out = XBit(r.f)]
  <2>1. s \in Shifters(sz) /\ s.val = Trunc(val, sz) /\ (s.out = 1 <=> f.x) /\ r.f \in Flags /\ r.val \in Int
    BY RingIs
  <2>2. PICK t : Loop(t, op, s, n, sz) /\ t[n] \in Shifters(sz) /\ t[n].val = r.val /\ t[n].out = XBit(r.f)
    BY RingIs
  <2> HIDE DEF r
  <2>3. x \in Shifters(sz) /\ x.val = Trunc(r.val, sz) /\ x.out = XBit(r.f)
    BY <2>1, RingIs
  <2>4. PICK u : Loop(u, po, x, n, sz) /\ u[n].val = q.val /\ (u[n].out = 1 <=> q.f.x)
    <3>1. ASSUME NEW h \in Flags, NEW i \in Int
          PROVE  \E u : /\ Loop(u, po, [Shifter(i, sz) EXCEPT !.out = XBit(h)], n, sz)
                        /\ u[n].val = Extended(po, h, i, n, sz).val
                        /\ u[n].out = 1 <=> Extended(po, h, i, n, sz).f.x
      BY RingIs
    <3>2. QED BY <2>1, <3>1
  <2>5. Trunc(r.val, sz) = r.val
    <3>1. r.val \in 0 .. Modulus(sz) - 1
      BY <2>2 DEF Shifters
    <3>2. QED BY <3>1, SignIs
  <2> HIDE DEF s, x, q
  <2>6. u[n].val = s.val /\ u[n].out = s.out
    BY <1>2, <2>1, <2>2, <2>3, <2>4, <2>5, RotatedBack
  <2>7. QED BY <2>1, <2>4, <2>6 DEF q, r
<1>3. <<"ROL", "ROR">> \in Opposites /\ <<"ROR", "ROL">> \in Opposites
      /\ <<"ROXL", "ROXR">> \in Opposites /\ <<"ROXR", "ROXL">> \in Opposites
  BY DEF Opposites
<1>4. aluRor(g, aluRol(f, val, n, sz).val, n, sz).val = Trunc(val, sz)
      /\ aluRol(g, aluRor(f, val, n, sz).val, n, sz).val = Trunc(val, sz)
  BY <1>1, <1>3 DEF aluRol, aluRor
<1>5. /\ aluRoxr(aluRoxl(f, val, n, sz).f, aluRoxl(f, val, n, sz).val, n, sz).val = Trunc(val, sz)
      /\ aluRoxr(aluRoxl(f, val, n, sz).f, aluRoxl(f, val, n, sz).val, n, sz).f.x <=> f.x
  BY <1>2, <1>3 DEF aluRoxl, aluRoxr
<1>6. /\ aluRoxl(aluRoxr(f, val, n, sz).f, aluRoxr(f, val, n, sz).val, n, sz).val = Trunc(val, sz)
      /\ aluRoxl(aluRoxr(f, val, n, sz).f, aluRoxr(f, val, n, sz).val, n, sz).f.x <=> f.x
  BY <1>2, <1>3 DEF aluRoxl, aluRoxr
<1>7. QED BY <1>4, <1>5, <1>6

\* Numbers of which each is the double of the one before, or less by m.
LEMMA Doubled ==
  ASSUME NEW n \in Nat, NEW m \in Nat, NEW P, Doubling(P), NEW z \in [0 .. n -> Nat],
         \A k \in 0 .. n - 1 : z[k + 1] = 2 * z[k] \/ z[k + 1] = 2 * z[k] - m,
         \A k \in 0 .. n - 1 : z[k + 1] = 0 <=> z[k] = 0
  PROVE  (\E q \in Nat : z[0] * P[n] = m * q + z[n]) /\ (z[n] = 0 <=> z[0] = 0)
<1> DEFINE a == z[0]
           S == {k \in 0 .. n : (\E q \in Nat : a * P[k] = m * q + z[k]) /\ (z[k] = 0 <=> a = 0)}
<1>0. P[0] = 1 /\ \A k \in Nat : P[k + 1] = 2 * P[k] /\ P[k] \in Nat
  BY DEF Doubling
<1>1. a \in Nat
  OBVIOUS
<1>2. 0 \in S
  <2>1. \A x \in Nat : x * 1 = m * 0 + x
    OBVIOUS
  <2>2. a * P[0] = m * 0 + z[0]
    BY <1>0, <1>1, <2>1
  <2>3. \E q \in Nat : a * P[0] = m * q + z[0]
    BY <2>2
  <2>4. 0 \in 0 .. n
    OBVIOUS
  <2>5. QED BY <2>3, <2>4
<1> HIDE DEF a
<1>3. ASSUME NEW k \in 0 .. n - 1, k \in S PROVE k + 1 \in S
  <2>1. PICK q \in Nat : a * P[k] = m * q + z[k]
    BY <1>3
  <2> DEFINE x == z[k]
             y == z[k + 1]
             p == P[k]
  <2>2. x \in Nat /\ y \in Nat /\ (y = 2 * x \/ y = 2 * x - m)
    OBVIOUS
  <2>3. P[k + 1] = 2 * p /\ p \in Nat
    <3>1. k \in Nat
      OBVIOUS
    <3>2. QED BY <1>0, <3>1
  <2>4. a * p = m * q + x
    BY <2>1
  <2> HIDE DEF x, y, p
  <2>5. a * P[k + 1] = 2 * (m * q + x)
    <3>1. a * (2 * p) = 2 * (a * p)
      BY <1>1, <2>3
    <3>2. QED BY <2>3, <2>4, <3>1
  <2>6. m * (2 * q) = 2 * (m * q) /\ m * (2 * q + 1) = 2 * (m * q) + m /\ m * q \in Nat
    OBVIOUS
  <2>7. \E r \in Nat : a * P[k + 1] = m * r + y
    <3>1. CASE y = 2 * x
      <4>1. 2 * q \in Nat /\ a * P[k + 1] = m * (2 * q) + y
        BY <2>2, <2>5, <2>6, <3>1
      <4>2. QED BY <4>1
    <3>2. CASE y = 2 * x - m
      <4>1. 2 * q + 1 \in Nat /\ a * P[k + 1] = m * (2 * q + 1) + y
        BY <2>2, <2>5, <2>6, <3>2
      <4>2. QED BY <4>1
    <3>3. QED BY <2>2, <3>1, <3>2
  <2>8. z[k + 1] = 0 <=> a = 0
    BY <1>3
  <2>9. k + 1 \in 0 .. n
    OBVIOUS
  <2>10. QED BY <2>7, <2>8, <2>9 DEF y
<1>4. \A k \in 0 .. n : k \in S
  <2> HIDE DEF S
  <2>1. QED BY <1>2, <1>3, Induct
<1>5. n \in 0 .. n
  OBVIOUS
<1>6. QED BY <1>4, <1>5 DEF a

LEMMA Rolled ==
  ASSUME ByteBits = 8, NEW sz \in Sizes, NEW n \in Nat, NEW s \in Shifters(sz), s.out = 0,
         NEW P, Doubling(P), NEW t, Loop(t, "ROL", s, n, sz)
  PROVE  /\ \E q \in Nat : s.val * P[n] = (Modulus(sz) - 1) * q + t[n].val
         /\ t[n].val = 0 <=> s.val = 0
         /\ t[n].out = 1 <=> n > 0 /\ t[n].val % 2 = 1
<1>0. PICK h \in Nat \ {0} : Modulus(sz) = 2 * h
  BY Halves
<1> DEFINE m == 2 * h - 1
           z == [k \in 0 .. n |-> t[k].val]
<1>1. \A k \in 0 .. n : t[k].val \in 0 .. 2 * h - 1
  BY <1>0 DEF Loop, Shifters
<1>2. ASSUME NEW k \in 0 .. n - 1
      PROVE  /\ t[k + 1].val = 2 * t[k].val \/ t[k + 1].val = 2 * t[k].val - m
             /\ t[k + 1].val = 0 <=> t[k].val = 0
             /\ t[k + 1].out = t[k + 1].val % 2
  <2> DEFINE x == t[k].val
             y == t[k + 1].val
             o == t[k + 1].out
  <2>1. t[k] \in Shifters(sz) /\ t[k + 1] = Turn("ROL", t[k], sz)
    BY DEF Loop
  <2>2. GoesIn("ROL", t[k], h) = (IF x >= h THEN 1 ELSE 0)
    BY DEF GoesIn
  <2>3. ToLeft(t[k], t[k + 1], IF x >= h THEN 1 ELSE 0, h)
    BY <1>0, <2>1, <2>2, LeftTurn
  <2>4. x \in 0 .. 2 * h - 1 /\ y \in 0 .. 2 * h - 1
    BY <1>1
  <2>5. (x < h /\ o = 0 /\ y = 2 * x) \/ (x >= h /\ o = 1 /\ y = 2 * x + 1 - 2 * h)
    BY <2>3, <2>4 DEF ToLeft
  <2> HIDE DEF x, y, o
  <2>6. (y = 2 * x \/ y = 2 * x - m) /\ (y = 0 <=> x = 0) /\ o = y % 2
    BY <2>4, <2>5
  <2>7. QED BY <2>6 DEF x, y, o
<1>3. /\ z \in [0 .. n -> Nat] /\ m \in Nat
      /\ \A k \in 0 .. n - 1 : z[k + 1] = 2 * z[k] \/ z[k + 1] = 2 * z[k] - m
      /\ \A k \in 0 .. n - 1 : z[k + 1] = 0 <=> z[k] = 0
  <2>1. \A k \in 0 .. n : t[k].val \in Nat
    BY <1>1
  <2>2. \A k \in 0 .. n - 1 : k \in 0 .. n /\ k + 1 \in 0 .. n
    OBVIOUS
  <2>3. QED BY <1>2, <2>1, <2>2
<1>4. z[0] = s.val /\ z[n] = t[n].val
  BY DEF Loop
<1>5. (\E q \in Nat : z[0] * P[n] = m * q + z[n]) /\ (z[n] = 0 <=> z[0] = 0)
  <2> HIDE DEF z, m
  <2>1. QED BY <1>3, Doubled
<1>6. t[n].out = 1 <=> n > 0 /\ t[n].val % 2 = 1
  <2>1. CASE n = 0
    BY <2>1 DEF Loop
  <2>2. CASE n # 0
    <3>1. n - 1 \in 0 .. n - 1 /\ (n - 1) + 1 = n /\ n > 0
      BY <2>2
    <3>2. t[n].out = t[n].val % 2
      BY <1>2, <3>1
    <3>3. QED BY <3>1, <3>2
  <2>3. QED BY <2>1, <2>2
<1>7. \E q \in Nat : s.val * P[n] = (Modulus(sz) - 1) * q + t[n].val
  BY <1>0, <1>4, <1>5
<1>8. t[n].val = 0 <=> s.val = 0
  <2> HIDE DEF z
  <2>1. QED BY <1>4, <1>5
<1>9. QED BY <1>6, <1>7, <1>8

\* The number with X above it.
Ringed(s, m) == s.val + m * s.out

LEMMA RolledThroughX ==
  ASSUME ByteBits = 8, NEW sz \in Sizes, NEW n \in Nat, NEW s \in Shifters(sz),
         NEW P, Doubling(P), NEW t, Loop(t, "ROXL", s, n, sz)
  PROVE  LET m == Modulus(sz)
         IN  /\ \E q \in Nat : Ringed(s, m) * P[n] = (2 * m - 1) * q + Ringed(t[n], m)
             /\ Ringed(t[n], m) = 0 <=> Ringed(s, m) = 0
<1>0. PICK h \in Nat \ {0} : Modulus(sz) = 2 * h
  BY Halves
<1> DEFINE m == 2 * (2 * h) - 1
           R(e) == IF e.out = 1 THEN e.val + 2 * h ELSE e.val
           z == [k \in 0 .. n |-> R(t[k])]
<1>1. \A k \in 0 .. n : t[k] \in Shifters(sz) /\ t[k].val \in 0 .. 2 * h - 1 /\ t[k].out \in {0, 1}
  BY <1>0 DEF Loop, Shifters
<1>2. \A e \in Shifters(sz) : Ringed(e, Modulus(sz)) = R(e) /\ R(e) \in Nat
  <2> SUFFICES ASSUME NEW e \in Shifters(sz) PROVE Ringed(e, Modulus(sz)) = R(e) /\ R(e) \in Nat
    OBVIOUS
  <2>1. e.val \in 0 .. 2 * h - 1 /\ e.out \in {0, 1}
    BY <1>0 DEF Shifters
  <2>2. 2 * h * 0 = 0 /\ 2 * h * 1 = 2 * h
    OBVIOUS
  <2>3. Ringed(e, Modulus(sz)) = e.val + 2 * h * e.out
    BY <1>0 DEF Ringed
  <2>4. CASE e.out = 0
    BY <2>1, <2>2, <2>3, <2>4
  <2>5. CASE e.out = 1
    BY <2>1, <2>2, <2>3, <2>5
  <2>6. QED BY <2>1, <2>4, <2>5
<1>3. ASSUME NEW k \in 0 .. n - 1
      PROVE  /\ R(t[k + 1]) = 2 * R(t[k]) \/ R(t[k + 1]) = 2 * R(t[k]) - m
             /\ R(t[k + 1]) = 0 <=> R(t[k]) = 0
  <2> DEFINE x == t[k].val
             o == t[k].out
             y == t[k + 1].val
             b == t[k + 1].out
  <2>1. t[k] \in Shifters(sz) /\ t[k + 1] = Turn("ROXL", t[k], sz)
    BY DEF Loop
  <2>2. GoesIn("ROXL", t[k], h) = o
    BY DEF GoesIn
  <2>3. ToLeft(t[k], t[k + 1], o, h)
    BY <1>0, <2>1, <2>2, LeftTurn
  <2>4. x \in 0 .. 2 * h - 1 /\ y \in 0 .. 2 * h - 1 /\ o \in {0, 1} /\ b \in {0, 1}
    BY <1>1
  <2>5. (x < h /\ b = 0 /\ y = 2 * x + o) \/ (x >= h /\ b = 1 /\ y = 2 * x + o - 2 * h)
    BY <2>3, <2>4 DEF ToLeft
  <2> DEFINE u == IF o = 1 THEN x + 2 * h ELSE x
             w == IF b = 1 THEN y + 2 * h ELSE y
  <2>6. R(t[k]) = u /\ R(t[k + 1]) = w
    OBVIOUS
  <2> HIDE DEF x, y, o, b, R
  <2>7. (w = 2 * u \/ w = 2 * u - m) /\ (w = 0 <=> u = 0)
    BY <2>4, <2>5
  <2>8. QED BY <2>6, <2>7
<1>4. \A k \in 0 .. n : R(t[k]) \in Nat
  BY <1>1, <1>2
<1>5. s = t[0] /\ n \in 0 .. n /\ 0 \in 0 .. n
  BY DEF Loop
<1>6. m \in Nat
  OBVIOUS
<1>7. z[0] = Ringed(s, Modulus(sz)) /\ z[n] = Ringed(t[n], Modulus(sz))
  BY <1>1, <1>2, <1>5
<1> HIDE DEF R
<1>8. /\ z \in [0 .. n -> Nat]
      /\ \A k \in 0 .. n - 1 : z[k + 1] = 2 * z[k] \/ z[k + 1] = 2 * z[k] - m
      /\ \A k \in 0 .. n - 1 : z[k + 1] = 0 <=> z[k] = 0
  <2>1. \A k \in 0 .. n - 1 : k \in 0 .. n /\ k + 1 \in 0 .. n
    OBVIOUS
  <2> HIDE DEF m
  <2>2. QED BY <1>3, <1>4, <2>1
<1>9. (\E q \in Nat : z[0] * P[n] = m * q + z[n]) /\ (z[n] = 0 <=> z[0] = 0)
  <2> HIDE DEF z, m
  <2>1. QED BY <1>6, <1>8, Doubled
<1> HIDE DEF z
<1>10. m = 2 * Modulus(sz) - 1
  BY <1>0
<1> HIDE DEF m
<1>11. QED BY <1>7, <1>9, <1>10

\* ROL multiplies by a power of two modulo the size less 1, and only 0 becomes 0; C is the last
\* bit moved, which is now the lowest one, and X stays.  ROXL does so to the number with X above
\* it, a ring of one bit more, and C is X.
THEOREM RotatesLeft ==
  ASSUME ByteBits = 8, NEW sz \in Sizes, NEW f \in Flags, NEW val \in Int, NEW n \in Nat,
         NEW P, Doubling(P)
  PROVE  LET v == Trunc(val, sz)
             m == Modulus(sz)
             r == aluRol(f, val, n, sz)
             e == aluRoxl(f, val, n, sz)
             before == v + m * XBit(f)
             after == e.val + m * XBit(e.f)
         IN  /\ r.val \in 0 .. m - 1 /\ e.val \in 0 .. m - 1
             /\ (\E q \in Nat : v * P[n] = (m - 1) * q + r.val) /\ (r.val = 0 <=> v = 0)
             /\ r.f.c <=> n > 0 /\ r.val % 2 = 1
             /\ r.f.x <=> f.x
             /\ (\E q \in Nat : before * P[n] = (2 * m - 1) * q + after) /\ (after = 0 <=> before = 0)
             /\ e.f.c <=> e.f.x
             /\ \A o \in {r, e} : (o.f.z <=> o.val = 0) /\ (o.f.n <=> Signed(o.val, sz) < 0)
<1> DEFINE v == Trunc(val, sz)
           m == Modulus(sz)
           r == Rotated("ROL", f, val, n, sz)
           e == Extended("ROXL", f, val, n, sz)
           s == Shifter(val, sz)
           x == [Shifter(val, sz) EXCEPT !.out = XBit(f)]
<1>1. aluRol(f, val, n, sz) = r /\ aluRoxl(f, val, n, sz) = e
  BY DEF aluRol, aluRoxl
<1>2. s \in Shifters(sz) /\ s.val = v /\ s.out = 0 /\ (r.f.x <=> f.x)
      /\ (r.f.z <=> r.val = 0) /\ (r.f.n <=> Signed(r.val, sz) < 0)
  BY RollIs
<1>3. PICK t : Loop(t, "ROL", s, n, sz) /\ t[n] \in Shifters(sz) /\ t[n].val = r.val /\ (r.f.c <=> t[n].out = 1)
  BY RollIs
<1>4. x \in Shifters(sz) /\ x.val = v /\ x.out = XBit(f)
      /\ (e.f.z <=> e.val = 0) /\ (e.f.n <=> Signed(e.val, sz) < 0)
  BY RingIs
<1>5. PICK u : /\ Loop(u, "ROXL", x, n, sz) /\ u[n] \in Shifters(sz)
               /\ u[n].val = e.val /\ u[n].out = XBit(e.f) /\ (e.f.c <=> e.f.x)
  BY RingIs
<1> HIDE DEF r, e, s, x, v
<1>6. /\ \E q \in Nat : v * P[n] = (m - 1) * q + r.val
      /\ r.val = 0 <=> v = 0
      /\ r.f.c <=> n > 0 /\ r.val % 2 = 1
  BY <1>2, <1>3, Rolled
<1>7. /\ \E q \in Nat : Ringed(x, m) * P[n] = (2 * m - 1) * q + Ringed(u[n], m)
      /\ Ringed(u[n], m) = 0 <=> Ringed(x, m) = 0
  BY <1>4, <1>5, RolledThroughX
<1>8. Ringed(x, m) = v + m * XBit(f) /\ Ringed(u[n], m) = e.val + m * XBit(e.f)
  BY <1>4, <1>5, Zenon DEF Ringed
<1>9. r.val \in 0 .. m - 1 /\ e.val \in 0 .. m - 1
  BY <1>3, <1>5 DEF Shifters
<1>10. \A o \in {r, e} : (o.f.z <=> o.val = 0) /\ (o.f.n <=> Signed(o.val, sz) < 0)
  BY <1>2, <1>4
<1> HIDE DEF m
<1>11. QED BY <1>1, <1>2, <1>5, <1>6, <1>7, <1>8, <1>9, <1>10, Zenon DEF v, m


----------------------------------------------------------------------------
(* Bitwise logic *)

\* Powers of two up to the widest size.
LEMMA Powers ==
  /\ 2^0 = 1
  /\ \A i \in 0 .. 31 : 2^(i + 1) = 2 * 2^i /\ 2^i \in Nat \ {0} /\ 2^(i + 1) \in Nat \ {0}
<1> DEFINE w == [k \in 0 .. 32 |-> 2^k]
<1>0. 2^0 = 1
  OBVIOUS
<1>1. /\ w[0] = 1 /\ w[1] = 2 /\ w[2] = 4 /\ w[3] = 8 /\ w[4] = 16 /\ w[5] = 32
      /\ w[6] = 64 /\ w[7] = 128 /\ w[8] = 256 /\ w[9] = 512 /\ w[10] = 1024
      /\ w[11] = 2048 /\ w[12] = 4096 /\ w[13] = 8192 /\ w[14] = 16384 /\ w[15] = 32768
  OBVIOUS
<1>2. /\ w[16] = 65536 /\ w[17] = 131072 /\ w[18] = 262144 /\ w[19] = 524288
      /\ w[20] = 1048576 /\ w[21] = 2097152 /\ w[22] = 4194304 /\ w[23] = 8388608
      /\ w[24] = 16777216 /\ w[25] = 33554432 /\ w[26] = 67108864 /\ w[27] = 134217728
      /\ w[28] = 268435456 /\ w[29] = 536870912 /\ w[30] = 1073741824 /\ w[31] = 2147483648 /\ w[32] = 4294967296
  OBVIOUS
<1>3. ASSUME NEW i \in 0 .. 31 PROVE 2^(i + 1) = 2 * 2^i /\ 2^i \in Nat \ {0} /\ 2^(i + 1) \in Nat \ {0}
  <2>1. w[i] = 2^i /\ w[i + 1] = 2^(i + 1)
    OBVIOUS
  <2> HIDE DEF w
  <2>2. w[i + 1] = 2 * w[i] /\ w[i] \in Nat \ {0}
    <3>1. CASE i \in 0 .. 7
      BY <3>1, <1>1
    <3>2. CASE i \in 8 .. 15
      BY <3>2, <1>1, <1>2
    <3>3. CASE i \in 16 .. 23
      BY <3>3, <1>2
    <3>4. CASE i \in 24 .. 31
      BY <3>4, <1>2
    <3>5. QED BY <3>1, <3>2, <3>3, <3>4
  <2>3. 2 * w[i] \in Nat \ {0}
    BY <2>2
  <2>4. QED BY <2>1, <2>2, <2>3
<1>4. QED BY <1>0, <1>3

LEMMA PowerDivides ==
  ASSUME NEW j \in 0 .. 31, NEW k \in 0 .. 32, j < k
  PROVE  \E c \in Nat \ {0} : 2^k = (2 * 2^j) * c
<1> DEFINE S == {d \in 0 .. 31 : j + 1 + d <= 32 => \E c \in Nat \ {0} : 2^(j + 1 + d) = (2 * 2^j) * c}
<1>1. 0 \in S
  <2>1. 2^(j + 1) = 2 * 2^j /\ 2^j \in Nat
    BY Powers
  <2>2. j + 1 + 0 = j + 1 /\ (2 * 2^j) * 1 = 2 * 2^j
    BY <2>1
  <2>3. QED BY <2>1, <2>2
<1>2. ASSUME NEW d \in 0 .. 31 - 1, d \in S PROVE d + 1 \in S
  <2>1. d + 1 \in 0 .. 31
    OBVIOUS
  <2>2. SUFFICES ASSUME j + 1 + (d + 1) <= 32
                 PROVE  \E c \in Nat \ {0} : 2^(j + 1 + (d + 1)) = (2 * 2^j) * c
    BY <2>1
  <2> DEFINE e == j + 1 + d
             p == 2 * 2^j
  <2>3. e \in 0 .. 31 /\ j + 1 + (d + 1) = e + 1
    BY <2>2
  <2>4. PICK c \in Nat \ {0} : 2^e = p * c
    BY <1>2, <2>3
  <2>5. p \in Nat
    BY Powers
  <2> HIDE DEF e, p
  <2>6. 2^(e + 1) = 2 * 2^e
    BY <2>3, Powers
  <2>7. 2 * (p * c) = p * (2 * c) /\ 2 * c \in Nat \ {0}
    BY <2>5
  <2>8. QED BY <2>3, <2>4, <2>6, <2>7 DEF p
<1>3. \A d \in 0 .. 31 : d \in S
  <2> HIDE DEF S
  <2>1. 31 \in Nat
    OBVIOUS
  <2>2. QED BY <1>1, <1>2, <2>1, Induct
<1>4. PICK d \in 0 .. 31 : j + 1 + d = k
  <2>1. k - (j + 1) \in 0 .. 31 /\ j + 1 + (k - (j + 1)) = k
    OBVIOUS
  <2>2. QED BY <2>1
<1>5. j + 1 + d <= 32 => \E c \in Nat \ {0} : 2^(j + 1 + d) = (2 * 2^j) * c
  BY <1>3
<1>6. QED BY <1>4, <1>5

LEMMA BitRange ==
  ASSUME NEW x \in Int, NEW j \in 0 .. 31
  PROVE  Bit(x, j) \in {0, 1}
<1>1. 2^j \in Nat \ {0}
  BY Powers
<1> DEFINE q == x \div 2^j
<1>2. q \in Int
  BY <1>1
<1> HIDE DEF q
<1>3. q % 2 \in {0, 1}
  BY <1>2
<1>4. QED BY <1>3 DEF Bit, q

\* A bit does not depend on what is added further up.
LEMMA HigherBits ==
  ASSUME NEW x \in Int, NEW y \in Int, NEW j \in 0 .. 31, NEW k \in 0 .. 32, j < k
  PROVE  Bit(x + 2^k * y, j) = Bit(x, j)
<1> DEFINE p == 2^j
           q == x \div p
           r == x % p
<1>1. p \in Nat \ {0}
  BY Powers
<1>2. PICK c \in Nat \ {0} : 2^k = (2 * p) * c
  BY PowerDivides
<1> HIDE DEF p
<1>3. q \in Int /\ r \in 0 .. p - 1 /\ x = p * q + r
  BY <1>1
<1> DEFINE z == c * y
<1>4. z \in Int /\ 2^k * y = p * (2 * z)
  <2>1. ((2 * p) * c) * y = p * (2 * (c * y)) /\ c * y \in Int
    BY <1>1
  <2>2. QED BY <1>2, <2>1
<1> HIDE DEF q, r, z
<1>5. x + 2^k * y = p * (q + 2 * z) + r
  <2>1. p * (q + 2 * z) = p * q + p * (2 * z) /\ p * q \in Int /\ p * (2 * z) \in Int
    BY <1>1, <1>3, <1>4
  <2>2. QED BY <1>3, <1>4, <2>1
<1>6. (x + 2^k * y) \div p = q + 2 * z
  <2>1. q + 2 * z \in Int
    BY <1>3, <1>4
  <2>2. (p * (q + 2 * z) + r) \div p = q + 2 * z
    BY <1>1, <1>3, <2>1, ModIs
  <2>3. QED BY <1>5, <2>2
<1>7. (q + 2 * z) % 2 = q % 2
  BY <1>3, <1>4
<1>8. Bit(x + 2^k * y, j) = ((x + 2^k * y) \div p) % 2 /\ Bit(x, j) = q % 2
  BY DEF Bit, p, q
<1>9. QED BY <1>6, <1>7, <1>8

\* The lowest bit that is added on top.
LEMMA TopOfSum ==
  ASSUME NEW k \in 0 .. 31, NEW x \in 0 .. 2^k - 1, NEW d \in {0, 1}
  PROVE  /\ x + 2^k * d \in 0 .. 2^(k + 1) - 1
         /\ Bit(x + 2^k * d, k) = d
<1> DEFINE p == 2^k
<1>1. p \in Nat \ {0} /\ 2^(k + 1) = 2 * p
  BY Powers
<1>2. x \in 0 .. p - 1
  OBVIOUS
<1> HIDE DEF p
<1>3. (d = 0 /\ p * d = 0) \/ (d = 1 /\ p * d = p)
  BY <1>1
<1>4. x + p * d \in 0 .. 2 * p - 1
  BY <1>1, <1>2, <1>3
<1>5. (p * d + x) \div p = d
  BY <1>1, <1>2, ModIs
<1>6. p * d + x = x + p * d
  BY <1>1, <1>2, <1>3
<1>7. d % 2 = d
  OBVIOUS
<1>8. Bit(x + p * d, k) = d
  BY <1>5, <1>6, <1>7 DEF Bit, p
<1>9. QED BY <1>1, <1>4, <1>8 DEF p

\* The sum of the bits as the sequence of its partial sums.
LEMMA PartialSums ==
  ASSUME NEW n \in 0 .. 32, NEW bit \in [0 .. n - 1 -> {0, 1}]
  PROVE  \E t \in [0 .. n -> Nat] : /\ t[0] = 0
                                    /\ \A k \in 0 .. n - 1 : t[k + 1] = t[k] + 2^k * bit[k]
                                    /\ FromBits(bit, n) = t[n]
<1> DEFINE F == [p \in Nat \X (1 .. n) |-> p[1] + 2^(p[2] - 1) * bit[p[2] - 1]]
           Step(g) == [m \in 0 .. n |-> IF m = 0 THEN 0 ELSE g[m - 1] + 2^(m - 1) * bit[m - 1]]
<1>0. ASSUME NEW x \in Nat, NEW m \in 1 .. n PROVE x + 2^(m - 1) * bit[m - 1] \in Nat
  <2> DEFINE p == 2^(m - 1)
             d == bit[m - 1]
  <2>1. m - 1 \in 0 .. 31 /\ m - 1 \in 0 .. n - 1
    OBVIOUS
  <2>2. p \in Nat
    <3> DEFINE i == m - 1
    <3>1. i \in 0 .. 31
      BY <2>1
    <3> HIDE DEF i
    <3>2. 2^i \in Nat
      BY <3>1, Powers
    <3>3. QED BY <3>2 DEF i
  <2>3. d \in {0, 1}
    BY <2>1
  <2> HIDE DEF p, d
  <2>4. x + p * d \in Nat
    BY <2>2, <2>3
  <2>5. QED BY <2>4 DEF p, d
<1>1. F \in [Nat \X (1 .. n) -> Nat]
  <2> SUFFICES ASSUME NEW p \in Nat \X (1 .. n) PROVE p[1] + 2^(p[2] - 1) * bit[p[2] - 1] \in Nat
    OBVIOUS
  <2>1. p[1] \in Nat /\ p[2] \in 1 .. n
    OBVIOUS
  <2>2. QED BY <2>1, <1>0
<1>2. PICK t \in [0 .. n -> Nat] : Iterates(t, n, 0, F)
  <2> HIDE DEF F
  <2>1. n \in Nat /\ 0 \in Nat
    OBVIOUS
  <2>2. QED BY <1>1, <2>1, Recursion
<1>3. ASSUME NEW k \in 0 .. n - 1 PROVE t[k + 1] = t[k] + 2^k * bit[k]
  <2>1. t[k + 1] = F[<<t[k], k + 1>>]
    BY <1>2 DEF Iterates
  <2>2. <<t[k], k + 1>> \in Nat \X (1 .. n) /\ (k + 1) - 1 = k
    BY <1>2
  <2>3. F[<<t[k], k + 1>>] = t[k] + 2^((k + 1) - 1) * bit[(k + 1) - 1]
    BY <2>2
  <2> HIDE DEF F
  <2>4. QED BY <2>1, <2>2, <2>3
<1>4. t = Step(t)
  <2>1. ASSUME NEW m \in 0 .. n PROVE t[m] = IF m = 0 THEN 0 ELSE t[m - 1] + 2^(m - 1) * bit[m - 1]
    <3>1. CASE m = 0
      BY <3>1, <1>2 DEF Iterates
    <3>2. CASE m # 0
      <4> DEFINE k == m - 1
      <4>1. k \in 0 .. n - 1 /\ k + 1 = m
        BY <3>2
      <4> HIDE DEF k
      <4>2. t[k + 1] = t[k] + 2^k * bit[k]
        BY <4>1, <1>3
      <4>3. t[m] = t[m - 1] + 2^(m - 1) * bit[m - 1]
        BY <4>1, <4>2 DEF k
      <4>4. QED BY <3>2, <4>3
    <3>3. QED BY <3>1, <3>2
  <2>2. QED BY <1>2, <2>1
<1> DEFINE g == CHOOSE sum : sum = Step(sum)
<1>5. FromBits(bit, n) = g[n]
  BY Zenon DEF FromBits
<1>6. g = Step(g)
  <2> HIDE DEF Step
  <2>1. QED BY <1>4
<1> HIDE DEF g
<1>7. g[0] = 0 /\ DOMAIN g = 0 .. n /\ g = [k \in 0 .. n |-> g[k]]
  <2>1. 0 \in 0 .. n
    OBVIOUS
  <2>2. QED BY <1>6, <2>1
<1>8. ASSUME NEW k \in 0 .. n - 1 PROVE g[k + 1] = g[k] + 2^k * bit[k]
  <2> DEFINE m == k + 1
  <2>1. m \in 0 .. n /\ m # 0 /\ m - 1 = k
    OBVIOUS
  <2> HIDE DEF m
  <2>2. g[m] = g[m - 1] + 2^(m - 1) * bit[m - 1]
    BY <1>6, <2>1
  <2>3. QED BY <2>1, <2>2 DEF m
<1>9. \A k \in 0 .. n : g[k] \in Nat
  <2> DEFINE P == {k \in 0 .. n : g[k] \in Nat}
  <2>0. g[0] = 0
    BY <1>7
  <2>1. 0 \in P
    BY <2>0
  <2>2. ASSUME NEW k \in 0 .. n - 1, k \in P PROVE k + 1 \in P
    <3>1. k + 1 \in 1 .. n /\ (k + 1) - 1 = k
      OBVIOUS
    <3>2. g[k] + 2^((k + 1) - 1) * bit[(k + 1) - 1] \in Nat
      BY <1>0, <2>2, <3>1
    <3>3. QED BY <1>8, <3>1, <3>2
  <2>3. n \in Nat
    OBVIOUS
  <2>4. \A k \in 0 .. n : k \in P
    <3> HIDE DEF P
    <3>1. QED BY <2>1, <2>2, <2>3, Induct
  <2>5. QED BY <2>4
<1>10. g \in [0 .. n -> Nat]
  BY <1>7, <1>9
<1>11. QED BY <1>5, <1>7, <1>8, <1>10

LEMMA FromBitsIs ==
  ASSUME NEW n \in 0 .. 32, NEW bit \in [0 .. n - 1 -> {0, 1}]
  PROVE  /\ FromBits(bit, n) \in 0 .. 2^n - 1
         /\ \A j \in 0 .. n - 1 : Bit(FromBits(bit, n), j) = bit[j]
<1>1. PICK t \in [0 .. n -> Nat] : /\ t[0] = 0
                                   /\ \A k \in 0 .. n - 1 : t[k + 1] = t[k] + 2^k * bit[k]
                                   /\ FromBits(bit, n) = t[n]
  BY PartialSums
<1> DEFINE S == {k \in 0 .. n : t[k] \in 0 .. 2^k - 1 /\ \A j \in 0 .. k - 1 : Bit(t[k], j) = bit[j]}
<1>2. 0 \in S
  <2>1. 2^0 = 1 /\ 0 .. 0 - 1 = {} /\ 0 \in 0 .. n
    OBVIOUS
  <2>2. QED BY <1>1, <2>1
<1>3. ASSUME NEW k \in 0 .. n - 1, k \in S PROVE k + 1 \in S
  <2> DEFINE x == t[k]
             d == bit[k]
             y == x + 2^k * d
  <2>1. t[k + 1] = y /\ k \in 0 .. 31 /\ k + 1 \in 0 .. n
    BY <1>1
  <2>2. x \in 0 .. 2^k - 1 /\ d \in {0, 1}
    BY <1>3
  <2> HIDE DEF x, d
  <2>3. y \in 0 .. 2^(k + 1) - 1 /\ Bit(y, k) = d
    BY <2>1, <2>2, TopOfSum
  <2>4. ASSUME NEW j \in 0 .. k - 1 PROVE Bit(y, j) = bit[j]
    <3>1. j \in 0 .. 31 /\ j < k /\ k \in 0 .. 32
      OBVIOUS
    <3>2. x \in Int /\ d \in Int
      BY <1>1, <2>2 DEF x
    <3>3. Bit(y, j) = Bit(x, j)
      BY <3>1, <3>2, HigherBits
    <3>4. Bit(x, j) = bit[j]
      BY <1>3 DEF x
    <3>5. QED BY <3>3, <3>4
  <2>5. ASSUME NEW j \in 0 .. (k + 1) - 1 PROVE Bit(y, j) = bit[j]
    <3>1. j \in 0 .. k - 1 \/ j = k
      OBVIOUS
    <3>2. Bit(y, k) = bit[k]
      BY <2>3 DEF d
    <3> HIDE DEF y
    <3>3. QED BY <2>4, <3>1, <3>2
  <2> HIDE DEF y
  <2>6. t[k + 1] \in 0 .. 2^(k + 1) - 1
    BY <2>1, <2>3
  <2>7. \A j \in 0 .. (k + 1) - 1 : Bit(t[k + 1], j) = bit[j]
    BY <2>1, <2>5
  <2>8. QED BY <2>1, <2>6, <2>7
<1>4. n \in Nat
  OBVIOUS
<1>5. \A k \in 0 .. n : k \in S
  <2> HIDE DEF S
  <2>1. QED BY <1>2, <1>3, <1>4, Induct
<1>6. n \in S
  <2> HIDE DEF S
  <2>1. n \in 0 .. n
    OBVIOUS
  <2>2. QED BY <1>5, <2>1
<1>7. QED BY <1>1, <1>6

LEMMA BitsAre ==
  ASSUME ByteBits = 8, NEW sz \in Sizes
  PROVE  Bits(sz) \in 1 .. 32 /\ Modulus(sz) = 2^Bits(sz)
<1>1. CASE sz = "b"
  BY <1>1 DEF Bits, Bytes, Modulus
<1>2. CASE sz = "w"
  BY <1>2 DEF Bits, Bytes, Modulus
<1>3. CASE sz = "l"
  BY <1>3 DEF Bits, Bytes, Modulus
<1>4. QED BY <1>1, <1>2, <1>3 DEF Sizes

\* What the condition codes of a logical operation are.
LEMMA LogicIs ==
  ASSUME ByteBits = 8, NEW sz \in Sizes, NEW f \in Flags, NEW val \in 0 .. Modulus(sz) - 1
  PROVE  /\ Logic(f, val, sz).val = val
         /\ ~ Logic(f, val, sz).f.v /\ ~ Logic(f, val, sz).f.c
         /\ Logic(f, val, sz).f.x <=> f.x
         /\ Logic(f, val, sz).f.z <=> val = 0
         /\ Logic(f, val, sz).f.n <=> Signed(val, sz) < 0
<1> DEFINE g == aluSetNZ(f, val, sz)
           r == aluSetLogicFlags(f, val, sz)
<1>1. DOMAIN f = FlagNames /\ f.x \in BOOLEAN
  BY DEF Flags, FlagNames
<1>2. g.x = f.x /\ g.z = (Trunc(val, sz) = 0) /\ g.n = Negative(val, sz) /\ DOMAIN g = FlagNames
  BY <1>1, Zenon DEF aluSetNZ, FlagNames
<1>3. r = [g EXCEPT !.v = FALSE, !.c = FALSE]
  BY DEF aluSetLogicFlags
<1> HIDE DEF g, r
<1>4. r.x = g.x /\ r.z = g.z /\ r.n = g.n /\ r.v = FALSE /\ r.c = FALSE
  BY <1>2, <1>3, Zenon DEF FlagNames
<1>5. Trunc(val, sz) = val /\ (Negative(val, sz) <=> Signed(val, sz) < 0)
  BY SignIs
<1>6. Logic(f, val, sz).val = val /\ Logic(f, val, sz).f = r
  BY DEF Logic, Out, r
<1>7. (r.z <=> val = 0) /\ (r.n <=> Signed(val, sz) < 0)
  BY <1>2, <1>4, <1>5
<1>8. (r.x <=> f.x) /\ ~ r.v /\ ~ r.c
  BY <1>1, <1>2, <1>4
<1>9. QED BY <1>6, <1>7, <1>8

\* The bits of a complement.
LEMMA ComplementIs ==
  ASSUME ByteBits = 8, NEW sz \in Sizes, NEW v \in 0 .. Modulus(sz) - 1, NEW i \in 0 .. Bits(sz) - 1
  PROVE  Bit(Modulus(sz) - 1 - v, i) = 1 - Bit(v, i)
<1> DEFINE p == 2^i
           q == v \div p
           r == v % p
<1>0. i \in 0 .. 31 /\ i < Bits(sz) /\ Bits(sz) \in 0 .. 32 /\ Modulus(sz) = 2^Bits(sz)
  BY BitsAre
<1>1. p \in Nat \ {0}
  BY <1>0, Powers
<1>2. PICK c \in Nat \ {0} : Modulus(sz) = (2 * p) * c
  BY <1>0, PowerDivides
<1> HIDE DEF p
<1>3. q \in Int /\ r \in 0 .. p - 1 /\ v = p * q + r
  BY <1>1
<1> HIDE DEF q, r
<1>4. Modulus(sz) - 1 - v = p * (2 * c - 1 - q) + (p - 1 - r)
  <2>1. (2 * p) * c = p * (2 * c) /\ p * (2 * c) \in Int /\ p * q \in Int
    BY <1>1, <1>3
  <2>2. p * (2 * c - 1 - q) = p * (2 * c) - p - p * q
    BY <1>1, <1>3
  <2>3. QED BY <1>1, <1>2, <1>3, <2>1, <2>2
<1> DEFINE a == 2 * c - 1 - q
           b == p - 1 - r
           w == Modulus(sz) - 1 - v
<1>5. a \in Int /\ b \in 0 .. p - 1 /\ w = p * a + b /\ (a % 2) = 1 - (q % 2)
  BY <1>1, <1>3, <1>4
<1> HIDE DEF a, b, w
<1>6. w \div p = a
  BY <1>1, <1>5, ModIs
<1>7. Bit(w, i) = (w \div p) % 2 /\ Bit(v, i) = q % 2
  BY DEF Bit, p, q
<1>8. Bit(w, i) = 1 - Bit(v, i)
  BY <1>5, <1>6, <1>7
<1>9. QED BY <1>8 DEF w

\* AND, OR, EOR and NOT work bit by bit, on the low bits of whatever the registers hold; they
\* clear V and C, leave X, and N and Z are those of the result.
THEOREM LogicBitwise ==
  ASSUME ByteBits = 8, NEW sz \in Sizes, NEW f \in Flags, NEW src \in Int, NEW dst \in Int
  PROVE  LET and == aluAnd(f, src, dst, sz)
             or == aluOr(f, src, dst, sz)
             eor == aluEor(f, src, dst, sz)
             not == aluNot(f, dst, sz)
         IN  /\ \A i \in 0 .. Bits(sz) - 1 :
                  /\ Bit(and.val, i) = 1 <=> Bit(src, i) = 1 /\ Bit(dst, i) = 1
                  /\ Bit(or.val, i) = 1 <=> Bit(src, i) = 1 \/ Bit(dst, i) = 1
                  /\ Bit(eor.val, i) = 1 <=> ~ (Bit(src, i) = 1 <=> Bit(dst, i) = 1)
                  /\ Bit(not.val, i) = 1 <=> ~ (Bit(dst, i) = 1)
             /\ \A r \in {and, or, eor, not} :
                  /\ r.val \in 0 .. Modulus(sz) - 1
                  /\ ~ r.f.v /\ ~ r.f.c /\ (r.f.x <=> f.x)
                  /\ (r.f.z <=> r.val = 0) /\ (r.f.n <=> Signed(r.val, sz) < 0)
<1> DEFINE n == Bits(sz)
           A == [i \in 0 .. n - 1 |-> Bit(src, i) * Bit(dst, i)]
           O == [i \in 0 .. n - 1 |-> Bit(src, i) + Bit(dst, i) - Bit(src, i) * Bit(dst, i)]
           E == [i \in 0 .. n - 1 |-> (Bit(src, i) + Bit(dst, i)) % 2]
           N == Modulus(sz) - 1 - Trunc(dst, sz)
<1>1. n \in 1 .. 32 /\ Modulus(sz) = 2^n /\ n \in 0 .. 32
  BY BitsAre
<1>2. /\ aluAnd(f, src, dst, sz) = Logic(f, FromBits(A, n), sz)
      /\ aluOr(f, src, dst, sz) = Logic(f, FromBits(O, n), sz)
      /\ aluEor(f, src, dst, sz) = Logic(f, FromBits(E, n), sz)
      /\ aluNot(f, dst, sz) = Logic(f, N, sz)
  BY Zenon DEF aluAnd, aluOr, aluEor, aluNot, Bitwise
<1> HIDE DEF n
<1>3. ASSUME NEW i \in 0 .. n - 1
      PROVE  /\ Bit(src, i) \in {0, 1} /\ Bit(dst, i) \in {0, 1}
             /\ A[i] = Bit(src, i) * Bit(dst, i)
             /\ O[i] = Bit(src, i) + Bit(dst, i) - Bit(src, i) * Bit(dst, i)
             /\ E[i] = (Bit(src, i) + Bit(dst, i)) % 2
  <2>1. i \in 0 .. 31
    BY <1>1
  <2>2. QED BY <2>1, BitRange
<1>4. \A x \in {0, 1} : \A y \in {0, 1} :
         /\ x * y \in {0, 1} /\ (x * y = 1 <=> x = 1 /\ y = 1)
         /\ x + y - x * y \in {0, 1} /\ (x + y - x * y = 1 <=> x = 1 \/ y = 1)
         /\ (x + y) % 2 \in {0, 1} /\ ((x + y) % 2 = 1 <=> ~ (x = 1 <=> y = 1))
  OBVIOUS
<1>5. A \in [0 .. n - 1 -> {0, 1}] /\ O \in [0 .. n - 1 -> {0, 1}] /\ E \in [0 .. n - 1 -> {0, 1}]
  BY <1>3, <1>4
<1>6. ASSUME NEW i \in 0 .. n - 1
      PROVE  /\ A[i] = 1 <=> Bit(src, i) = 1 /\ Bit(dst, i) = 1
             /\ O[i] = 1 <=> Bit(src, i) = 1 \/ Bit(dst, i) = 1
             /\ E[i] = 1 <=> ~ (Bit(src, i) = 1 <=> Bit(dst, i) = 1)
  BY <1>3, <1>4
<1> HIDE DEF A, O, E
<1>7. ASSUME NEW bit \in [0 .. n - 1 -> {0, 1}]
      PROVE  /\ FromBits(bit, n) \in 0 .. Modulus(sz) - 1
             /\ \A i \in 0 .. n - 1 : Bit(FromBits(bit, n), i) = bit[i]
  BY <1>1, FromBitsIs
<1>8. Trunc(dst, sz) \in 0 .. Modulus(sz) - 1 /\ N \in 0 .. Modulus(sz) - 1
  <2>1. Trunc(dst, sz) \in 0 .. Modulus(sz) - 1
    BY OperandRange
  <2>2. Modulus(sz) \in Nat
    BY Widths
  <2>3. QED BY <2>1, <2>2
<1>9. ASSUME NEW i \in 0 .. n - 1 PROVE Bit(N, i) = 1 <=> ~ (Bit(dst, i) = 1)
  <2>1. Bit(N, i) = 1 - Bit(Trunc(dst, sz), i)
    BY <1>8, ComplementIs DEF n
  <2>2. Bit(Trunc(dst, sz), i) = Bit(dst, i)
    <3> DEFINE m == Modulus(sz)
               y == dst \div m
               x == dst % m
    <3>1. m \in Nat \ {0}
      BY Widths
    <3> HIDE DEF m
    <3>2. dst = x + m * y /\ x \in Int /\ y \in Int
      BY <3>1
    <3>3. i \in 0 .. 31 /\ i < n
      BY <1>1
    <3>4. Trunc(dst, sz) = x
      BY DEF Trunc, m
    <3> HIDE DEF x, y
    <3>5. Bit(x + 2^n * y, i) = Bit(x, i)
      BY <1>1, <3>2, <3>3, HigherBits
    <3>6. m = 2^n
      BY <1>1 DEF m
    <3>7. QED BY <3>2, <3>4, <3>5, <3>6
  <2>3. Bit(dst, i) \in {0, 1}
    BY <1>3
  <2>4. QED BY <2>1, <2>2, <2>3
<1> HIDE DEF N
<1>10. ASSUME NEW val \in 0 .. Modulus(sz) - 1
       PROVE  LET r == Logic(f, val, sz)
              IN  /\ r.val = val
                  /\ ~ r.f.v /\ ~ r.f.c /\ (r.f.x <=> f.x)
                  /\ (r.f.z <=> r.val = 0) /\ (r.f.n <=> Signed(r.val, sz) < 0)
  BY LogicIs
<1>11. \A r \in {aluAnd(f, src, dst, sz), aluOr(f, src, dst, sz), aluEor(f, src, dst, sz), aluNot(f, dst, sz)} :
         /\ r.val \in 0 .. Modulus(sz) - 1
         /\ ~ r.f.v /\ ~ r.f.c /\ (r.f.x <=> f.x)
         /\ (r.f.z <=> r.val = 0) /\ (r.f.n <=> Signed(r.val, sz) < 0)
  <2>1. \A x \in {FromBits(A, n), FromBits(O, n), FromBits(E, n), N} : x \in 0 .. Modulus(sz) - 1
    BY <1>5, <1>7, <1>8
  <2>2. QED BY <1>2, <1>10, <2>1
<1>12. /\ aluAnd(f, src, dst, sz).val = FromBits(A, n) /\ aluOr(f, src, dst, sz).val = FromBits(O, n)
       /\ aluEor(f, src, dst, sz).val = FromBits(E, n) /\ aluNot(f, dst, sz).val = N
  BY <1>2, <1>5, <1>7, <1>8, <1>10
<1>13. ASSUME NEW i \in 0 .. n - 1
       PROVE  /\ Bit(aluAnd(f, src, dst, sz).val, i) = 1 <=> Bit(src, i) = 1 /\ Bit(dst, i) = 1
              /\ Bit(aluOr(f, src, dst, sz).val, i) = 1 <=> Bit(src, i) = 1 \/ Bit(dst, i) = 1
              /\ Bit(aluEor(f, src, dst, sz).val, i) = 1 <=> ~ (Bit(src, i) = 1 <=> Bit(dst, i) = 1)
              /\ Bit(aluNot(f, dst, sz).val, i) = 1 <=> ~ (Bit(dst, i) = 1)
  <2>1. Bit(FromBits(A, n), i) = A[i] /\ Bit(FromBits(O, n), i) = O[i] /\ Bit(FromBits(E, n), i) = E[i]
    BY <1>5, <1>7
  <2>2. Bit(aluAnd(f, src, dst, sz).val, i) = A[i] /\ Bit(aluOr(f, src, dst, sz).val, i) = O[i]
        /\ Bit(aluEor(f, src, dst, sz).val, i) = E[i] /\ Bit(aluNot(f, dst, sz).val, i) = Bit(N, i)
    BY <1>12, <2>1
  <2>3. QED BY <1>6, <1>9, <2>2
<1>14. QED BY <1>11, <1>13 DEF n

=============================================================================
