------------------------- MODULE InstructionProofs -------------------------
(***************************************************************************)
(* Theorems about Instructions, for any code at all, at the program's own  *)
(* byte of 8 bits.                                                         *)
(*                                                                         *)
(* The first part takes the ALU, the addressing modes and the handlers one *)
(* by one and says which of the registers, the system byte and the stack   *)
(* pointers each can change (Kept): nothing of the mode, or what address   *)
(* errors change on entering supervisor mode (ModeKept, Handled), also in  *)
(* the handlers that go on after one; up to what an instruction of a user  *)
(* may do (PrivilegeCorrect).  The second is about words in memory: what   *)
(* is pushed is read back (LongIn, WordIn), so that RTE, RTS and UNLK give *)
(* back what exceptions, calls and LINK saved.  The third is about single  *)
(* bits of registers and of memory, the fourth about MOVEM; all that comes *)
(* in pairs is put together at the end (SavedCorrect).                     *)
(***************************************************************************)
EXTENDS Instructions, AluProofs, FiniteSetTheorems

\* The condition codes of two status registers may differ, and nothing else.
SameByte(f, g) == IsSr(g) /\ SystemByte(g) = SystemByte(f)

LEMMA FlagsKept ==
  ASSUME NEW f, NEW g, SameByte(f, g), NEW b
  PROVE  /\ SameByte(f, [g EXCEPT !.x = b]) /\ SameByte(f, [g EXCEPT !.n = b])
         /\ SameByte(f, [g EXCEPT !.z = b]) /\ SameByte(f, [g EXCEPT !.v = b])
         /\ SameByte(f, [g EXCEPT !.c = b])
<1>1. QED BY DEF SameByte, IsSr, SystemByte, FlagNames

LEMMA NZKept ==
  ASSUME NEW f, NEW g, SameByte(f, g), NEW val, NEW sz
  PROVE  /\ SameByte(f, aluSetNZ(g, val, sz)) /\ SameByte(f, StickyNZ(g, val, sz))
         /\ SameByte(f, aluSetLogicFlags(g, val, sz)) /\ SameByte(f, Logic(g, val, sz).f)
         /\ SameByte(f, aluSetClrFlags(g))
<1>1. QED BY FlagsKept DEF aluSetNZ, StickyNZ, aluSetLogicFlags, aluSetClrFlags, Logic, Out

LEMMA CarriedKept ==
  ASSUME NEW f, NEW g, SameByte(f, g), NEW carry, NEW v
  PROVE  SameByte(f, [Carried(g, carry) EXCEPT !.v = v]) /\ SameByte(f, Carried(g, carry))
<1>1. QED BY FlagsKept DEF Carried

\* Every operation of the ALU leaves the system byte alone.
LEMMA SumsKept ==
  ASSUME NEW f, IsSr(f), NEW src, NEW dst, NEW sz
  PROVE  /\ SameByte(f, aluAdd(f, src, dst, sz).f) /\ SameByte(f, aluAddX(f, src, dst, sz).f)
         /\ SameByte(f, aluSub(f, src, dst, sz).f) /\ SameByte(f, aluSubX(f, src, dst, sz).f)
         /\ SameByte(f, aluCmp(f, src, dst, sz))
         /\ SameByte(f, aluNeg(f, dst, sz).f) /\ SameByte(f, aluNegX(f, dst, sz).f)
<1>1. SameByte(f, f)
  BY DEF SameByte
<1>2. ASSUME NEW val, NEW carry, NEW v
      PROVE  /\ SameByte(f, aluSetNZ([Carried(f, carry) EXCEPT !.v = v], val, sz))
             /\ SameByte(f, StickyNZ([Carried(f, carry) EXCEPT !.v = v], val, sz))
  BY <1>1, CarriedKept, NZKept, Zenon
<1>3. SameByte(f, aluSub(f, src, dst, sz).f)
  BY <1>2, Zenon DEF aluSub, Out
<1>4. SameByte(f, aluCmp(f, src, dst, sz))
  BY <1>3, FlagsKept, Zenon DEF aluCmp
<1>5. QED BY <1>2, <1>3, <1>4, Zenon DEF aluAdd, aluAddX, aluSubX, aluNeg, aluNegX, Out

LEMMA LogicalKept ==
  ASSUME NEW f, IsSr(f), NEW src, NEW dst, NEW sz
  PROVE  /\ SameByte(f, aluAnd(f, src, dst, sz).f) /\ SameByte(f, aluOr(f, src, dst, sz).f)
         /\ SameByte(f, aluEor(f, src, dst, sz).f) /\ SameByte(f, aluNot(f, dst, sz).f)
         /\ SameByte(f, aluMulu(f, src, dst).f) /\ SameByte(f, aluMuls(f, src, dst).f)
         /\ SameByte(f, aluSetLogicFlags(f, dst, sz)) /\ SameByte(f, aluSetClrFlags(f))
<1>1. SameByte(f, f)
  BY DEF SameByte
<1>2. QED BY <1>1, NZKept, Zenon DEF aluAnd, aluOr, aluEor, aluNot, aluMulu, aluMuls

LEMMA DividedKept ==
  ASSUME NEW f, IsSr(f), NEW dividend, NEW divisor
  PROVE  /\ SameByte(f, aluDivu(f, dividend, divisor).f)
         /\ SameByte(f, aluDivs(f, dividend, divisor).f)
<1>1. SameByte(f, f)
  BY DEF SameByte
<1>2. ASSUME NEW q, NEW r, NEW fits
      PROVE  SameByte(f, Divided(f, dividend, q, r, fits).f)
  BY <1>1, FlagsKept, LogicalKept, Zenon DEF Divided, Out
<1>3. QED BY <1>2, Zenon DEF aluDivu, aluDivs

LEMMA DecimalKept ==
  ASSUME NEW f, IsSr(f), NEW src, NEW dst
  PROVE  /\ SameByte(f, aluAbcd(f, src, dst).f) /\ SameByte(f, aluSbcd(f, src, dst).f)
         /\ SameByte(f, aluNbcd(f, dst).f)
<1>1. SameByte(f, f)
  BY DEF SameByte
<1>2. ASSUME NEW val, NEW carry
      PROVE  SameByte(f, Decimal(f, val, carry).f)
  BY <1>1, CarriedKept, FlagsKept, Zenon DEF Decimal, Out
<1>3. QED BY <1>2, Zenon DEF aluAbcd, aluSbcd, aluNbcd

LEMMA ShiftsKept ==
  ASSUME NEW f, IsSr(f), NEW val, NEW count, NEW sz, NEW dir, NEW type
  PROVE  SameByte(f, ShiftOf(f, val, count, sz, dir, type).f)
<1>1. SameByte(f, f)
  BY DEF SameByte
<1>2. ASSUME NEW op
      PROVE  /\ SameByte(f, Shifted(op, f, val, count, sz).f)
             /\ Shifted(op, f, val, count, sz) = [val |-> Shifted(op, f, val, count, sz).val,
                                                  f |-> Shifted(op, f, val, count, sz).f]
  <2>1. ASSUME NEW c, NEW x, NEW v, NEW s
        PROVE  SameByte(f, aluSetNZ([f EXCEPT !.c = c, !.x = x, !.v = v], s, sz))
    BY <1>1, FlagsKept, NZKept
  <2>2. QED BY <2>1, Zenon DEF Shifted, Out
<1>3. ASSUME NEW op
      PROVE  SameByte(f, Rotated(op, f, val, count, sz).f)
  <2> DEFINE g == Shifted(op, f, val, count, sz)
  <2>1. SameByte(f, [g.f EXCEPT !.x = f.x])
    BY <1>2, FlagsKept, Zenon
  <2>2. g = [val |-> g.val, f |-> g.f]
    BY <1>2, Zenon
  <2> HIDE DEF g
  <2>3. [g EXCEPT !.f.x = f.x].f = [g.f EXCEPT !.x = f.x]
    BY <2>2
  <2>4. QED BY <2>1, <2>3, Zenon DEF Rotated, g
<1>4. ASSUME NEW op
      PROVE  SameByte(f, Extended(op, f, val, count, sz).f)
  <2>1. ASSUME NEW c, NEW x, NEW v, NEW s
        PROVE  SameByte(f, aluSetNZ([f EXCEPT !.c = c, !.x = x, !.v = v], s, sz))
    BY <1>1, FlagsKept, NZKept
  <2>2. QED BY <2>1, Zenon DEF Extended, Out
<1>5. QED BY <1>2, <1>3, <1>4
          DEF ShiftOf, aluAsl, aluLsl, aluRoxl, aluRol, aluAsr, aluLsr, aluRoxr, aluRor

----------------------------------------------------------------------------
(* Steps that change registers and memory, and the mode by an address error alone. *)

ModeKept(s, t) ==
  /\ IsCpu(t) /\ t.ssp = s.ssp /\ t.stopped = s.stopped
  /\ \/ SameByte(s.sr, t.sr) /\ t.usp = s.usp /\ t.erred = s.erred
     \/ t.erred /\ SystemByte(t.sr) = <<FALSE, TRUE, s.sr.ipl>>

\* The PC is where the address error left it.
Handled(t) == t.erred => t.crashed \/ t.pc = Vectors[3] % AddrSpace

Kept(s, t) == ModeKept(s, t) /\ (Handled(s) => Handled(t))

LEMMA KeptSelf ==
  ASSUME NEW s, IsCpu(s)
  PROVE  Kept(s, s)
<1>1. QED BY DEF Kept, ModeKept, SameByte, IsCpu

LEMMA KeptIs ==
  ASSUME NEW s, NEW t, Kept(s, t)
  PROVE  IsCpu(t) /\ IsSr(t.sr) /\ ModeKept(s, t) /\ (~s.erred => Handled(t))
<1>1. QED BY DEF Kept, ModeKept, IsCpu, Handled

LEMMA ModeKeptOn ==
  ASSUME NEW s, NEW t, NEW u, ModeKept(s, t), ModeKept(t, u)
  PROVE  ModeKept(s, u)
<1>1. QED BY DEF ModeKept, SameByte, SystemByte

LEMMA KeptOn ==
  ASSUME NEW s, NEW t, NEW u, Kept(s, t), Kept(t, u)
  PROVE  Kept(s, u)
<1>1. QED BY ModeKeptOn DEF Kept

LEMMA SetKept ==
  ASSUME NEW s, NEW t, Kept(s, t), NEW r, NEW v
  PROVE  /\ ~t.erred => Kept(s, [t EXCEPT !.pc = v]) /\ ~[t EXCEPT !.pc = v].erred
         /\ ModeKept(s, [t EXCEPT !.pc = v])
         /\ Kept(s, [t EXCEPT !.currentPC = v])
         /\ Kept(s, [t EXCEPT !.d[r] = v]) /\ Kept(s, [t EXCEPT !.a[r] = v])
         /\ ~t.erred => ~[t EXCEPT !.d[r] = v].erred /\ ~[t EXCEPT !.a[r] = v].erred
         /\ SameByte(t.sr, v) => Kept(s, [t EXCEPT !.sr = v])
<1>1. IsCpu(t) /\ SameByte(t.sr, t.sr)
  BY DEF Kept, ModeKept, SameByte, IsCpu
<1>2. ModeKept(t, [t EXCEPT !.pc = v]) /\ Kept(t, [t EXCEPT !.currentPC = v])
  BY <1>1 DEF Kept, ModeKept, IsCpu, Handled
<1>3. ~t.erred => Kept(t, [t EXCEPT !.pc = v]) /\ ~[t EXCEPT !.pc = v].erred
  BY <1>1 DEF Kept, ModeKept, IsCpu, Handled
<1>4. Kept(t, [t EXCEPT !.d[r] = v]) /\ [t EXCEPT !.d[r] = v].erred = t.erred
  BY <1>1 DEF Kept, ModeKept, IsCpu, Handled
<1>5. Kept(t, [t EXCEPT !.a[r] = v]) /\ [t EXCEPT !.a[r] = v].erred = t.erred
  BY <1>1 DEF Kept, ModeKept, IsCpu, Handled
<1>6. SameByte(t.sr, v) => Kept(t, [t EXCEPT !.sr = v])
  BY <1>1 DEF Kept, ModeKept, IsCpu, SameByte, Handled
<1>7. ModeKept(s, [t EXCEPT !.pc = v])
  BY <1>2, ModeKeptOn, Zenon DEF Kept
<1>8. QED BY <1>2, <1>3, <1>4, <1>5, <1>6, <1>7, KeptOn, Zenon

LEMMA MemoryKept ==
  ASSUME NEW s, IsCpu(s), NEW m, DOMAIN m = Ram
  PROVE  Kept(s, [s EXCEPT !.mem = m])
<1>1. SameByte(s.sr, s.sr)
  BY DEF IsCpu, SameByte
<1>2. QED BY <1>1 DEF Kept, ModeKept, IsCpu, Handled

\* An address error enters supervisor mode, and ends at its handler or is the end.
LEMMA ErrorsKept ==
  ASSUME NEW s, IsCpu(s), NEW n, NEW at, NEW isWrite
  PROVE  LET t == exceptionAddressErrors(s, n, at, isWrite)
         IN  Kept(s, t) /\ t.erred /\ Handled(t) /\ SystemByte(t.sr) = <<FALSE, TRUE, s.sr.ipl>>
<1> DEFINE e == cpuSetSupervisor(s, TRUE)
           d == [e EXCEPT !.sr.t = FALSE, !.erred = TRUE]
<1>1. /\ IsCpu(e) /\ e.ssp = s.ssp /\ e.stopped = s.stopped /\ e.sr.s /\ e.sr.ipl = s.sr.ipl
  <2>1. CASE s.sr.s
    BY <2>1 DEF cpuSetSupervisor
  <2>2. CASE ~s.sr.s
    <3>1. e = [s EXCEPT !.usp = s.a[7], !.a[7] = s.ssp, !.sr = [s.sr EXCEPT !.s = TRUE]]
      BY <2>2 DEF cpuSetSupervisor, IsCpu
    <3>2. IsSr([s.sr EXCEPT !.s = TRUE]) /\ [s.sr EXCEPT !.s = TRUE].s /\ [s.sr EXCEPT !.s = TRUE].ipl = s.sr.ipl
      BY DEF IsCpu, IsSr, FlagNames
    <3> DEFINE r == [s.sr EXCEPT !.s = TRUE]
    <3> HIDE DEF r
    <3>3. QED BY <3>1, <3>2 DEF IsCpu, r
  <2>3. QED BY <2>1, <2>2
<1> HIDE DEF e
<1>2. /\ IsCpu(d) /\ d.ssp = s.ssp /\ d.stopped = s.stopped /\ d.erred
      /\ SystemByte(d.sr) = <<FALSE, TRUE, s.sr.ipl>>
  <2> DEFINE r == [e.sr EXCEPT !.t = FALSE]
  <2>1. d = [e EXCEPT !.sr = r, !.erred = TRUE]
    BY <1>1 DEF IsCpu
  <2>2. IsSr(r) /\ SystemByte(r) = <<FALSE, TRUE, s.sr.ipl>>
    <3>1. IsSr(r) /\ r.t = FALSE /\ r.s = e.sr.s /\ r.ipl = e.sr.ipl
      BY <1>1 DEF IsCpu, IsSr, FlagNames
    <3>2. e.sr.s = TRUE
      BY <1>1 DEF IsCpu, IsSr
    <3>3. QED BY <1>1, <3>1, <3>2 DEF SystemByte
  <2> HIDE DEF r
  <2>3. QED BY <1>1, <2>1, <2>2 DEF IsCpu
<1> HIDE DEF d
<1>3. ASSUME NEW a, NEW m, DOMAIN m = Ram
      PROVE  LET t == [[d EXCEPT !.pc = Vectors[3] % AddrSpace] EXCEPT !.a[7] = a, !.mem = m]
             IN  Kept(s, t) /\ t.erred /\ Handled(t) /\ SystemByte(t.sr) = <<FALSE, TRUE, s.sr.ipl>>
  <2> DEFINE t == [[d EXCEPT !.pc = Vectors[3] % AddrSpace] EXCEPT !.a[7] = a, !.mem = m]
  <2>1. IsCpu(t) /\ t.erred = d.erred /\ t.sr = d.sr /\ t.ssp = d.ssp /\ t.stopped = d.stopped
        /\ t.pc = Vectors[3] % AddrSpace
    BY <1>2, <1>3 DEF IsCpu
  <2> HIDE DEF t
  <2>2. Handled(t) /\ ModeKept(s, t)
    BY <1>2, <2>1 DEF Handled, ModeKept
  <2>3. Kept(s, t) /\ t.erred /\ Handled(t) /\ SystemByte(t.sr) = <<FALSE, TRUE, s.sr.ipl>>
    BY <1>2, <2>1, <2>2 DEF Kept
  <2>4. QED BY <2>3, Zenon DEF t
<1>4. LET t == [d EXCEPT !.crashed = TRUE]
      IN  Kept(s, t) /\ t.erred /\ Handled(t) /\ SystemByte(t.sr) = <<FALSE, TRUE, s.sr.ipl>>
  BY <1>2 DEF Kept, ModeKept, Handled, IsCpu
<1> DEFINE u == [d EXCEPT !.pc = Vectors[3] % AddrSpace]
           m == Framed(s, u, n, at, isWrite)
<1>5. DOMAIN m = Ram
  BY DEF Framed
<1> HIDE DEF m
<1>6. exceptionAddressErrors(s, n, at, isWrite) =
        IF Odd(d.a[7]) THEN [d EXCEPT !.crashed = TRUE] ELSE [u EXCEPT !.a[7] = Trunc(u.a[7] - 14 * n, "l"), !.mem = m]
  BY DEF exceptionAddressErrors, d, e, m
<1>7. LET t == [u EXCEPT !.a[7] = Trunc(u.a[7] - 14 * n, "l"), !.mem = m]
      IN  Kept(s, t) /\ t.erred /\ Handled(t) /\ SystemByte(t.sr) = <<FALSE, TRUE, s.sr.ipl>>
  BY <1>3, <1>5, Zenon
<1>8. CASE Odd(d.a[7])
  BY <1>4, <1>6, <1>8, Zenon
<1>9. CASE ~Odd(d.a[7])
  BY <1>6, <1>7, <1>9, Zenon
<1>10. QED BY <1>8, <1>9

LEMMA TouchedKept ==
  ASSUME NEW s, NEW t, Kept(s, t), NEW a, NEW sz, NEW isWrite
  PROVE  Kept(s, Touched(t, a, sz, isWrite))
<1>1. \A n, at : Kept(t, exceptionAddressErrors(t, n, at, isWrite))
  BY KeptIs, ErrorsKept, Zenon
<1>2. QED BY <1>1, KeptOn, Zenon DEF Touched

LEMMA AllTouchedKept ==
  ASSUME NEW s, NEW t, Kept(s, t), NEW mask, NEW start, NEW step, NEW sz, NEW isWrite
  PROVE  Kept(s, AllTouched(t, mask, start, step, sz, isWrite))
<1>1. \A n, at : Kept(t, exceptionAddressErrors(t, n, at, isWrite))
  BY KeptIs, ErrorsKept, Zenon
<1>2. QED BY <1>1, KeptOn, Zenon DEF AllTouched

LEMMA WriteKept ==
  ASSUME NEW s, NEW t, Kept(s, t), NEW a, NEW val, NEW sz
  PROVE  Kept(s, busWrite(t, a, val, sz))
<1>1. IsCpu(t)
  BY KeptIs
<1>2. Kept(t, WithBytes(t, a, val, sz))
  <2> DEFINE last == (a % AddrSpace) + Bytes(sz) - 1
             m == [b \in Ram |-> IF b \in a % AddrSpace .. last THEN ByteOf(val, last - b) ELSE t.mem[b]]
  <2>1. DOMAIN m = Ram /\ WithBytes(t, a, val, sz) = [t EXCEPT !.mem = m]
    BY DEF WithBytes
  <2> HIDE DEF m
  <2>2. QED BY <1>1, <2>1, MemoryKept, Zenon
<1>3. QED BY <1>2, TouchedKept, KeptOn, Zenon DEF busWrite

LEMMA RegistersKept ==
  ASSUME NEW s, NEW t, Kept(s, t), NEW r, NEW val, NEW sz
  PROVE  /\ Kept(s, AddA(t, r, val)) /\ Kept(s, cpuWriteD(t, r, val, sz))
         /\ ~t.erred => ~AddA(t, r, val).erred /\ ~cpuWriteD(t, r, val, sz).erred
         /\ Kept(s, pushLong(t, val)) /\ Kept(s, pushWord(t, val))
         /\ ModeKept(s, Jump(t, val)) /\ (~t.erred => Kept(s, Jump(t, val)))
<1>1. ASSUME NEW v, NEW x, NEW size
      PROVE  Kept(s, busWrite([t EXCEPT !.a[7] = v], x, val, size))
  BY SetKept, WriteKept, Zenon
<1>2. ASSUME NEW v
      PROVE  /\ Kept(s, [t EXCEPT !.a[r] = v]) /\ Kept(s, [t EXCEPT !.d[r] = v])
             /\ ~t.erred => ~[t EXCEPT !.a[r] = v].erred /\ ~[t EXCEPT !.d[r] = v].erred
             /\ ModeKept(s, [t EXCEPT !.pc = v]) /\ (~t.erred => Kept(s, [t EXCEPT !.pc = v]))
  BY SetKept, Zenon
<1>3. QED BY <1>1, <1>2, Zenon DEF AddA, cpuWriteD, pushLong, pushWord, Jump

LEMMA FetchKept ==
  ASSUME NEW s, NEW t, Kept(s, t), ~t.erred, NEW sz
  PROVE  /\ Kept(s, instrFetchWord(t).s) /\ Kept(s, instrFetchLong(t).s) /\ Kept(s, Immediate(t, sz).s)
         /\ ~instrFetchWord(t).s.erred /\ ~instrFetchLong(t).s.erred /\ ~Immediate(t, sz).s.erred
<1>1. ASSUME NEW v PROVE Kept(s, [t EXCEPT !.pc = v]) /\ ~[t EXCEPT !.pc = v].erred
  BY SetKept, Zenon
<1>2. /\ Kept(s, instrFetchWord(t).s) /\ Kept(s, instrFetchLong(t).s)
      /\ ~instrFetchWord(t).s.erred /\ ~instrFetchLong(t).s.erred
  BY <1>1 DEF instrFetchWord, instrFetchLong
<1>3. \A w : [instrFetchWord(t) EXCEPT !.w = w].s = instrFetchWord(t).s
  BY DEF instrFetchWord
<1>4. QED BY <1>2, <1>3, Zenon DEF Immediate

LEMMA AddressKept ==
  ASSUME NEW s, NEW t, Kept(s, t), ~t.erred, NEW m, NEW r, NEW sz
  PROVE  Kept(s, addrCalcEA(t, m, r, sz).s) /\ ~addrCalcEA(t, m, r, sz).s.erred
<1>1. \A v : Kept(s, [t EXCEPT !.pc = v]) /\ ~[t EXCEPT !.pc = v].erred
  BY SetKept, Zenon
<1>2. \A n : Kept(s, AddA(t, r, n)) /\ ~AddA(t, r, n).erred
  BY RegistersKept, Zenon
<1>3. QED BY <1>1, <1>2 DEF addrCalcEA

LEMMA OperandKept ==
  ASSUME NEW s, NEW t, Kept(s, t), ~t.erred, NEW i, NEW sz
  PROVE  Kept(s, Operand(t, i, sz).s) /\ Kept(s, LongOperand(t, i).s)
<1>1. ASSUME NEW size
      PROVE  /\ Kept(s, Operand(t, i, size).s)
             /\ \A v : [Operand(t, i, size) EXCEPT !.val = v].s = Operand(t, i, size).s
  <2> DEFINE ea == addrCalcEA(t, i.m, i.r, size)
  <2>1. Kept(s, ea.s) /\ Kept(s, Touched(ea.s, ea.addr, size, FALSE))
    BY AddressKept, TouchedKept, Zenon
  <2>2. Operand(t, i, size) = [ea |-> ea, val |-> addrRead(ea.s, ea, size),
                               s |-> IF ea.m \in {"Dn", "An", "#"} THEN ea.s ELSE Touched(ea.s, ea.addr, size, FALSE)]
    BY DEF Operand
  <2> HIDE DEF ea
  <2> DEFINE u == Touched(ea.s, ea.addr, size, FALSE)
  <2> HIDE DEF u
  <2>3. Operand(t, i, size).s \in {ea.s, u} /\ \A v : [Operand(t, i, size) EXCEPT !.val = v].s = Operand(t, i, size).s
    BY <2>2 DEF u
  <2>4. QED BY <2>1, <2>3, Zenon DEF u
<1>2. QED BY <1>1, Zenon DEF LongOperand

LEMMA ResultKept ==
  ASSUME NEW s, NEW t, Kept(s, t), NEW ea, NEW val, NEW sz
  PROVE  Kept(s, addrWrite(t, ea, val, sz))
<1>1. ASSUME NEW r, NEW v PROVE Kept(s, [t EXCEPT !.a[r] = v])
  BY SetKept, Zenon
<1>2. QED BY <1>1, RegistersKept, WriteKept, Zenon DEF addrWrite

\* A result with its condition codes, in the operand's place.
LEMMA PutKept ==
  ASSUME NEW s, NEW t, Kept(s, t), NEW f, SameByte(t.sr, f), NEW ea, NEW a, NEW r, NEW val, NEW sz
  PROVE  /\ Kept(s, addrWrite([t EXCEPT !.sr = f], ea, val, sz))
         /\ Kept(s, cpuWriteD([t EXCEPT !.sr = f], r, val, sz))
         /\ Kept(s, busWrite([t EXCEPT !.sr = f], a, val, sz))
         /\ Kept(s, [t EXCEPT !.sr = f])
<1>1. Kept(s, [t EXCEPT !.sr = f])
  BY SetKept, Zenon
<1>2. QED BY <1>1, ResultKept, RegistersKept, WriteKept, Zenon

----------------------------------------------------------------------------
(* The handlers. *)

LEMMA OperandSr ==
  ASSUME NEW s, NEW t, Kept(s, t), ~t.erred, NEW i, NEW sz
  PROVE  IsSr(Operand(t, i, sz).s.sr) /\ SameByte(Operand(t, i, sz).s.sr, Operand(t, i, sz).s.sr)
<1>1. QED BY OperandKept, KeptIs, Zenon DEF SameByte

\* The state after an operand was addressed and read, with a result put into it.
LEMMA PlacedKept ==
  ASSUME NEW s, NEW t, Kept(s, t), ~t.erred, NEW i, NEW sz, NEW f, SameByte(Operand(t, i, sz).s.sr, f),
         NEW ea, NEW r, NEW val, NEW size
  PROVE  /\ Kept(s, addrWrite([Operand(t, i, sz).s EXCEPT !.sr = f], ea, val, size))
         /\ Kept(s, cpuWriteD([Operand(t, i, sz).s EXCEPT !.sr = f], r, val, size))
<1>1. Kept(s, Operand(t, i, sz).s)
  BY OperandKept, Zenon
<1>2. QED BY <1>1, PutKept, Zenon

LEMMA DyadicKept ==
  ASSUME NEW s, IsCpu(s), ~s.erred, NEW i
  PROVE  /\ Kept(s, instrAdd(s, i)) /\ Kept(s, instrSub(s, i))
         /\ Kept(s, instrAnd(s, i)) /\ Kept(s, instrOr(s, i)) /\ Kept(s, instrEor(s, i))
<1>1. Kept(s, s) /\ IsSr(s.sr)
  BY KeptSelf DEF IsCpu
<1>2. Kept(s, instrAdd(s, i))
  BY <1>1, OperandSr, PlacedKept, SumsKept, Zenon DEF instrAdd, Dyadic, Modify, IntoD
<1>3. Kept(s, instrSub(s, i))
  BY <1>1, OperandSr, PlacedKept, SumsKept, Zenon DEF instrSub, Dyadic, Modify, IntoD
<1>4. Kept(s, instrAnd(s, i))
  BY <1>1, OperandSr, PlacedKept, LogicalKept, Zenon DEF instrAnd, Dyadic, Modify, IntoD
<1>5. Kept(s, instrOr(s, i))
  BY <1>1, OperandSr, PlacedKept, LogicalKept, Zenon DEF instrOr, Dyadic, Modify, IntoD
<1>6. Kept(s, instrEor(s, i))
  BY <1>1, OperandSr, PlacedKept, LogicalKept, Zenon DEF instrEor, Dyadic, Modify, IntoD
<1>7. QED BY <1>2, <1>3, <1>4, <1>5, <1>6

LEMMA ImmediateKept ==
  ASSUME NEW s, IsCpu(s), ~s.erred, NEW i
  PROVE  /\ Kept(s, instrAddi(s, i)) /\ Kept(s, instrSubi(s, i)) /\ Kept(s, instrCmpi(s, i))
         /\ Kept(s, instrAndi(s, i)) /\ Kept(s, instrOri(s, i)) /\ Kept(s, instrEori(s, i))
<1> DEFINE t == Immediate(s, i.sz).s
<1>1. Kept(s, t) /\ ~t.erred
  BY KeptSelf, FetchKept, Zenon
<1>2. Kept(s, Operand(t, i, i.sz).s) /\ IsSr(Operand(t, i, i.sz).s.sr)
  BY <1>1, OperandKept, KeptIs, Zenon
<1>3. Kept(s, instrAddi(s, i))
  BY <1>1, OperandSr, PlacedKept, SumsKept, Zenon DEF instrAddi, Immediately, Modify
<1>4. Kept(s, instrSubi(s, i))
  BY <1>1, OperandSr, PlacedKept, SumsKept, Zenon DEF instrSubi, Immediately, Modify
<1>5. Kept(s, instrAndi(s, i))
  BY <1>1, OperandSr, PlacedKept, LogicalKept, Zenon DEF instrAndi, Immediately, Modify
<1>6. Kept(s, instrOri(s, i))
  BY <1>1, OperandSr, PlacedKept, LogicalKept, Zenon DEF instrOri, Immediately, Modify
<1>7. Kept(s, instrEori(s, i))
  BY <1>1, OperandSr, PlacedKept, LogicalKept, Zenon DEF instrEori, Immediately, Modify
<1>8. Kept(s, instrCmpi(s, i))
  BY <1>2, PutKept, SumsKept, Zenon DEF instrCmpi
<1>9. QED BY <1>3, <1>4, <1>5, <1>6, <1>7, <1>8

LEMMA QuickKept ==
  ASSUME NEW s, IsCpu(s), ~s.erred, NEW i
  PROVE  /\ Kept(s, instrAddq(s, i)) /\ Kept(s, instrSubq(s, i))
         /\ Kept(s, instrAdda(s, i)) /\ Kept(s, instrSuba(s, i))
<1>1. Kept(s, s) /\ IsSr(s.sr)
  BY KeptSelf DEF IsCpu
<1>2. \A n : Kept(s, AddA(s, i.r, n))
  BY <1>1, RegistersKept, Zenon
<1>3. Kept(s, instrAddq(s, i)) /\ Kept(s, instrSubq(s, i))
  BY <1>1, <1>2, OperandSr, PlacedKept, SumsKept, Zenon DEF instrAddq, instrSubq, Quickly, Modify
<1>4. Kept(s, LongOperand(s, i).s)
  BY <1>1, OperandKept
<1>5. QED BY <1>3, <1>4, RegistersKept, Zenon DEF instrAdda, instrSuba

LEMMA LimbsKept ==
  ASSUME NEW s, IsCpu(s), ~s.erred, NEW i
  PROVE  /\ Kept(s, instrAddx(s, i)) /\ Kept(s, instrSubx(s, i))
         /\ Kept(s, instrAbcd(s, i)) /\ Kept(s, instrSbcd(s, i)) /\ Kept(s, instrNbcd(s, i))
<1>1. Kept(s, s) /\ IsSr(s.sr)
  BY KeptSelf DEF IsCpu
<1>2. ASSUME NEW n, NEW m, NEW sz, NEW val, NEW a, NEW f,
             LET t == AddA(AddA(s, i.r, n), i.x, m)
                 u == Touched(t, t.a[i.r], sz, FALSE)
                 v == Touched(u, u.a[i.x], sz, FALSE)
             IN  IsSr(v.sr) => SameByte(v.sr, f)
      PROVE  LET t == AddA(AddA(s, i.r, n), i.x, m)
                 u == Touched(t, t.a[i.r], sz, FALSE)
                 v == Touched(u, u.a[i.x], sz, FALSE)
             IN  Kept(s, busWrite([v EXCEPT !.sr = f], a, val, sz))
  <2> DEFINE t == AddA(AddA(s, i.r, n), i.x, m)
             u == Touched(t, t.a[i.r], sz, FALSE)
             v == Touched(u, u.a[i.x], sz, FALSE)
  <2>1. Kept(s, t)
    BY <1>1, RegistersKept, Zenon
  <2> HIDE DEF t
  <2>2. Kept(s, v) /\ IsSr(v.sr)
    BY <2>1, TouchedKept, KeptIs, Zenon
  <2>3. QED BY <1>2, <2>2, PutKept, Zenon DEF t
<1>20. ASSUME NEW f, SameByte(s.sr, f), NEW r, NEW val, NEW sz
       PROVE  Kept(s, cpuWriteD([s EXCEPT !.sr = f], r, val, sz))
  BY <1>1, <1>20, PutKept, Zenon
<1>3. Kept(s, instrAddx(s, i))
  BY <1>1, <1>2, <1>20, SumsKept, Zenon DEF instrAddx, Multiprecision, IntoD
<1>4. Kept(s, instrSubx(s, i))
  BY <1>1, <1>2, <1>20, SumsKept, Zenon DEF instrSubx, Multiprecision, IntoD
<1>5. Kept(s, instrAbcd(s, i))
  BY <1>1, <1>2, <1>20, DecimalKept, Zenon DEF instrAbcd, Multiprecision, IntoD
<1>6. Kept(s, instrSbcd(s, i))
  BY <1>1, <1>2, <1>20, DecimalKept, Zenon DEF instrSbcd, Multiprecision, IntoD
<1>7. Kept(s, instrNbcd(s, i))
  BY <1>1, OperandSr, PlacedKept, DecimalKept, Zenon DEF instrNbcd, Modify
<1>8. QED BY <1>3, <1>4, <1>5, <1>6, <1>7

LEMMA UnaryKept ==
  ASSUME NEW s, IsCpu(s), ~s.erred, NEW i
  PROVE  /\ Kept(s, instrNeg(s, i)) /\ Kept(s, instrNegx(s, i)) /\ Kept(s, instrClr(s, i))
         /\ Kept(s, instrNot(s, i)) /\ Kept(s, instrTas(s, i)) /\ Kept(s, instrExt(s, i))
         /\ Kept(s, instrTst(s, i)) /\ Kept(s, instrCmp(s, i)) /\ Kept(s, instrCmpa(s, i))
         /\ Kept(s, instrMulu(s, i)) /\ Kept(s, instrMuls(s, i))
<1>1. Kept(s, s) /\ IsSr(s.sr)
  BY KeptSelf DEF IsCpu
<1>2. \A sz : Kept(s, Operand(s, i, sz).s) /\ IsSr(Operand(s, i, sz).s.sr)
  BY <1>1, OperandKept, KeptIs, Zenon
<1>3. Kept(s, LongOperand(s, i).s) /\ IsSr(LongOperand(s, i).s.sr)
  BY <1>1, OperandKept, KeptIs, Zenon
<1>4. Kept(s, instrNeg(s, i)) /\ Kept(s, instrNegx(s, i))
  BY <1>1, OperandSr, PlacedKept, SumsKept, Zenon DEF instrNeg, instrNegx, Modify
<1>5. Kept(s, instrNot(s, i))
  BY <1>1, OperandSr, PlacedKept, LogicalKept, Zenon DEF instrNot, Modify, Out
<1>13. Kept(s, instrClr(s, i))
  <2> DEFINE o == Operand(s, i, i.sz)
             u == addrWrite(o.s, o.ea, 0, i.sz)
  <2>1. Kept(s, u)
    BY <1>2, ResultKept, Zenon
  <2>2. SameByte(u.sr, aluSetClrFlags(u.sr))
    BY <2>1, KeptIs, LogicalKept, Zenon
  <2>3. Kept(s, [u EXCEPT !.sr = aluSetClrFlags(u.sr)])
    BY <2>1, <2>2, PutKept, Zenon
  <2>4. QED BY <2>3, Zenon DEF instrClr
<1>6. Kept(s, instrTas(s, i))
  BY <1>1, OperandSr, PlacedKept, LogicalKept, Zenon DEF instrTas, Modify, Out
<1>7. SameByte(s.sr, s.sr)
  BY <1>1 DEF SameByte
<1>8. Kept(s, instrExt(s, i))
  BY <1>1, <1>7, NZKept, PutKept, Zenon DEF instrExt, IntoD
<1>9. Kept(s, instrTst(s, i))
  BY <1>2, PutKept, LogicalKept, Zenon DEF instrTst
<1>10. Kept(s, instrCmp(s, i)) /\ Kept(s, instrCmpa(s, i))
  BY <1>2, <1>3, PutKept, SumsKept, Zenon DEF instrCmp, instrCmpa
<1>11. Kept(s, instrMulu(s, i)) /\ Kept(s, instrMuls(s, i))
  BY <1>1, OperandSr, PlacedKept, LogicalKept, Zenon DEF instrMulu, instrMuls, Multiply, IntoD
<1>12. QED BY <1>4, <1>5, <1>6, <1>8, <1>9, <1>10, <1>11, <1>13

LEMMA ShiftedKept ==
  ASSUME NEW s, IsCpu(s), ~s.erred, NEW i
  PROVE  Kept(s, shiftRegister(s, i)) /\ Kept(s, shiftMemory(s, i))
<1>1. Kept(s, s) /\ IsSr(s.sr)
  BY KeptSelf DEF IsCpu
<1>2. Kept(s, shiftRegister(s, i))
  BY <1>1, ShiftsKept, PutKept, Zenon DEF shiftRegister, IntoD
<1>3. Kept(s, shiftMemory(s, i))
  BY <1>1, OperandSr, ShiftsKept, PlacedKept, Zenon DEF shiftMemory, Modify
<1>4. QED BY <1>2, <1>3

LEMMA BitsKept ==
  ASSUME NEW s, IsCpu(s), ~s.erred, NEW i
  PROVE  /\ Kept(s, instrBtstDyn(s, i)) /\ Kept(s, instrBtstStatic(s, i))
         /\ Kept(s, instrBchgDyn(s, i)) /\ Kept(s, instrBchgStatic(s, i))
         /\ Kept(s, instrBclrDyn(s, i)) /\ Kept(s, instrBclrStatic(s, i))
         /\ Kept(s, instrBsetDyn(s, i)) /\ Kept(s, instrBsetStatic(s, i))
<1>1. ASSUME NEW t, Kept(s, t), ~t.erred, NEW n
      PROVE  /\ Kept(s, BitTest(t, i, n))
             /\ Kept(s, BitOf(t, i, n, Complement)) /\ Kept(s, BitOf(t, i, n, Zero))
             /\ Kept(s, BitOf(t, i, n, One))
  <2>2. \A sz, b : SameByte(Operand(t, i, sz).s.sr, [Operand(t, i, sz).s.sr EXCEPT !.z = b])
    BY <1>1, OperandSr, FlagsKept, Zenon
  <2>3. ASSUME NEW sz, NEW b PROVE Kept(s, [Operand(t, i, sz).s EXCEPT !.sr.z = b])
    <3> DEFINE u == Operand(t, i, sz).s
    <3>1. Kept(s, u)
      BY <1>1, OperandKept, Zenon
    <3>2. IsSr(u.sr) /\ SameByte(u.sr, u.sr)
      BY <3>1, KeptIs, Zenon DEF SameByte
    <3>3. SameByte(u.sr, [u.sr EXCEPT !.z = b])
      BY <3>2, FlagsKept, Zenon
    <3> HIDE DEF u
    <3>4. Kept(s, [u EXCEPT !.sr = [u.sr EXCEPT !.z = b]])
      BY <3>1, <3>3, PutKept, Zenon
    <3>5. QED BY <3>4 DEF u
  <2>4. Kept(s, BitTest(t, i, n))
    BY <2>3, Zenon DEF BitTest
  <2> DEFINE sz == IF i.m = "Dn" THEN "l" ELSE "b"
             o == Operand(t, i, sz)
             k == n % Bits(sz)
             Put(b) == addrWrite([o.s EXCEPT !.sr = [o.s.sr EXCEPT !.z = Bit(o.val, k) = 0]], o.ea,
                                 o.val + (b - Bit(o.val, k)) * 2^k, sz)
  <2>5. ASSUME NEW b PROVE Kept(s, Put(b))
    <3> DEFINE z == Bit(o.val, k) = 0
               f == [o.s.sr EXCEPT !.z = z]
               v == o.val + (b - Bit(o.val, k)) * 2^k
    <3>1. SameByte(o.s.sr, f)
      BY <2>2, Zenon
    <3> HIDE DEF f, v
    <3>2. Kept(s, addrWrite([o.s EXCEPT !.sr = f], o.ea, v, sz))
      BY <1>1, <3>1, PlacedKept, Zenon
    <3>3. QED BY <3>2 DEF f, v
  <2>6. /\ BitOf(t, i, n, Complement) = Put(Complement(Bit(o.val, k)))
        /\ BitOf(t, i, n, Zero) = Put(Zero(Bit(o.val, k)))
        /\ BitOf(t, i, n, One) = Put(One(Bit(o.val, k)))
    BY DEF BitOf, Modify, Out
  <2>7. QED BY <2>4, <2>5, <2>6
<1>2. Kept(s, s) /\ Kept(s, instrFetchWord(s).s) /\ ~instrFetchWord(s).s.erred
  BY KeptSelf, FetchKept, Zenon
<1>3. QED BY <1>1, <1>2, Zenon
          DEF Static, instrBtstDyn, instrBtstStatic, instrBchgDyn, instrBchgStatic,
              instrBclrDyn, instrBclrStatic, instrBsetDyn, instrBsetStatic

\* A MOVE takes the extension words of its destination from where its source has led it.
HandledBehind(t) ==
  t.erred => \/ t.crashed
             \/ t.pc = Vectors[3] % AddrSpace
             \/ t.pc \in {(Vectors[3] % AddrSpace) + 2, (Vectors[3] % AddrSpace) + 4}

\* What is written leaves the PC, or is an address error.
LEMMA ResultHandled ==
  ASSUME NEW s, IsCpu(s), NEW ea, NEW val, NEW sz
  PROVE  LET t == addrWrite(s, ea, val, sz)
         IN  Handled(t) \/ (t.pc = s.pc /\ t.crashed = s.crashed)
<1> DEFINE Leaves(t) == Handled(t) \/ (t.pc = s.pc /\ t.crashed = s.crashed)
<1>1. \A r, v : Leaves([s EXCEPT !.d[r] = v]) /\ Leaves([s EXCEPT !.a[r] = v]) /\ Leaves([s EXCEPT !.mem = v]) /\ Leaves(s)
  BY DEF IsCpu
<1>2. \A n, at : Leaves(exceptionAddressErrors(s, n, at, TRUE))
  BY ErrorsKept
<1> HIDE DEF Leaves
<1>3. Leaves(busWrite(s, ea.addr, val, sz))
  BY <1>1, <1>2, Zenon DEF busWrite, WithBytes, Touched
<1>4. Leaves(addrWrite(s, ea, val, sz))
  BY <1>1, <1>3, Zenon DEF addrWrite, cpuWriteD
<1>5. QED BY <1>4, Zenon DEF Leaves

LEMMA MoveKept ==
  ASSUME NEW s, IsCpu(s), ~s.erred, NEW i
  PROVE  ModeKept(s, instrMove(s, i)) /\ HandledBehind(instrMove(s, i))
<1> DEFINE o == Operand(s, i, i.sz)
           dst == addrCalcEA(o.s, i.dm, i.x, i.sz)
           u == addrWrite(dst.s, dst, o.val, i.sz)
           t == [u EXCEPT !.sr = aluSetLogicFlags(u.sr, o.val, i.sz)]
<1>1. Kept(s, o.s)
  BY KeptSelf, OperandKept, Zenon
<1>2. instrMove(s, i) = t
  BY Zenon DEF instrMove
<1> HIDE DEF o
<1>3. ASSUME NEW x, IsCpu(x), NEW val
      PROVE  LET y == addrWrite(x, dst, val, i.sz)
             IN  Kept(x, [y EXCEPT !.sr = aluSetLogicFlags(y.sr, val, i.sz)])
  <2> DEFINE y == addrWrite(x, dst, val, i.sz)
  <2>1. Kept(x, y)
    BY <1>3, KeptSelf, ResultKept, Zenon
  <2> HIDE DEF y
  <2>2. SameByte(y.sr, aluSetLogicFlags(y.sr, val, i.sz))
    BY <2>1, KeptIs, LogicalKept, Zenon
  <2>3. Kept(x, [y EXCEPT !.sr = aluSetLogicFlags(y.sr, val, i.sz)])
    BY <2>1, <2>2, PutKept, Zenon
  <2>4. QED BY <2>3 DEF y
<1>4. CASE ~o.s.erred
  <2>1. Kept(s, dst.s)
    BY <1>1, <1>4, AddressKept, Zenon
  <2>2. IsCpu(dst.s)
    BY <2>1, KeptIs, Zenon
  <2>3. Kept(dst.s, t)
    BY <1>3, <2>2, Zenon
  <2>4. Kept(s, t)
    BY <2>1, <2>3, KeptOn, Zenon
  <2> HIDE DEF t
  <2>5. ModeKept(s, t) /\ Handled(t)
    BY <2>4, KeptIs, Zenon
  <2>6. QED BY <1>2, <2>5 DEF Handled, HandledBehind
<1>5. CASE o.s.erred
  <2> DEFINE w == addrCalcEA(o.s, i.dm, i.x, i.sz).s
  <2>1. IsCpu(o.s) /\ ModeKept(s, o.s) /\ Handled(o.s)
    BY <1>1, KeptIs
  <2>2. \/ w = o.s \/ \E n : w = AddA(o.s, i.x, n)
        \/ w = [o.s EXCEPT !.pc = @ + 2] \/ w = [o.s EXCEPT !.pc = @ + 4]
    BY DEF addrCalcEA
  <2>3. /\ ModeKept(o.s, w) /\ w.crashed = o.s.crashed
        /\ w.pc \in {o.s.pc, o.s.pc + 2, o.s.pc + 4}
    BY <2>1, <2>2 DEF AddA, ModeKept, IsCpu, SameByte
  <2> HIDE DEF w
  <2>4. IsCpu(w) /\ HandledBehind(w) /\ ModeKept(s, w)
    <3>1. ModeKept(s, w)
      BY <2>1, <2>3, ModeKeptOn, Zenon
    <3>2. IsCpu(w)
      BY <2>3, Zenon DEF ModeKept
    <3> DEFINE v == Vectors[3] % AddrSpace
    <3>3. o.s.crashed \/ o.s.pc = v
      BY <1>5, <2>1, Zenon DEF Handled
    <3> HIDE DEF v
    <3>4. w.crashed \/ w.pc = v \/ w.pc \in {v + 2, v + 4}
      BY <2>3, <3>3
    <3>5. QED BY <3>1, <3>2, <3>4, Zenon DEF HandledBehind, v
  <2> DEFINE y == addrWrite(w, dst, o.val, i.sz)
             x == [y EXCEPT !.sr = aluSetLogicFlags(y.sr, o.val, i.sz)]
  <2>5. IsCpu(y) /\ (Handled(y) \/ (y.pc = w.pc /\ y.crashed = w.crashed))
    <3>1. Kept(w, y)
      BY <2>4, KeptSelf, ResultKept, Zenon
    <3>2. Handled(y) \/ (y.pc = w.pc /\ y.crashed = w.crashed)
      BY <2>4, ResultHandled
    <3>3. IsCpu(y)
      BY <3>1, KeptIs, Zenon
    <3>4. QED BY <3>2, <3>3
  <2>6. Kept(w, x)
    BY <1>3, <2>4, Zenon
  <2>7. t = x
    BY DEF w
  <2> HIDE DEF y
  <2>8. x.pc = y.pc /\ x.crashed = y.crashed /\ x.erred = y.erred
    BY <2>5 DEF IsCpu
  <2> HIDE DEF x
  <2>9. HandledBehind(x)
    <3>1. w.erred
      BY <1>5, <2>1, <2>3 DEF ModeKept
    <3>2. QED BY <2>4, <2>5, <2>8, <3>1 DEF Handled, HandledBehind
  <2>10. ModeKept(s, x)
    BY <2>4, <2>6, KeptIs, ModeKeptOn, Zenon
  <2>11. QED BY <1>2, <2>7, <2>9, <2>10, Zenon
<1>6. QED BY <1>4, <1>5

LEMMA MovesKept ==
  ASSUME NEW s, IsCpu(s), ~s.erred, NEW i
  PROVE  /\ Kept(s, instrMovea(s, i)) /\ Kept(s, instrMoveq(s, i))
         /\ Kept(s, instrLea(s, i)) /\ Kept(s, instrPea(s, i)) /\ Kept(s, instrLink(s, i))
         /\ Kept(s, instrUnlk(s, i)) /\ Kept(s, instrSwap(s, i))
<1>1. Kept(s, s) /\ IsSr(s.sr) /\ SameByte(s.sr, s.sr)
  BY KeptSelf DEF IsCpu, SameByte
<1>3. Kept(s, LongOperand(s, i).s)
  BY <1>1, OperandKept, Zenon
<1>4. Kept(s, instrMovea(s, i))
  BY <1>3, SetKept, Zenon DEF instrMovea
<1>5. Kept(s, instrMoveq(s, i)) /\ Kept(s, instrSwap(s, i))
  BY <1>1, NZKept, PutKept, Zenon DEF instrMoveq, instrSwap, IntoD
<1>6. Kept(s, addrCalcEA(s, i.m, i.r, "l").s)
  BY <1>1, AddressKept, Zenon
<1>7. Kept(s, instrLea(s, i)) /\ Kept(s, instrPea(s, i))
  BY <1>6, SetKept, RegistersKept, Zenon DEF instrLea, instrPea
<1>8. Kept(s, instrLink(s, i))
  BY <1>1, FetchKept, SetKept, RegistersKept, WriteKept, Zenon DEF instrLink
<1>9. Kept(s, instrUnlk(s, i))
  BY <1>1, SetKept, TouchedKept, RegistersKept, Zenon DEF instrUnlk
<1>10. QED BY <1>4, <1>5, <1>7, <1>8, <1>9

LEMMA MovemKept ==
  ASSUME NEW s, IsCpu(s), ~s.erred, NEW i
  PROVE  Kept(s, instrMovemRegToMem(s, i)) /\ Kept(s, instrMovemMemToReg(s, i))
<1>1. Kept(s, s)
  BY KeptSelf
<1>2. ASSUME NEW t, Kept(s, t), NEW mask, NEW start, NEW step, NEW sz
      PROVE  Kept(s, Stored(t, mask, start, step, sz))
  <2>1. IsCpu(t)
    BY <1>2, KeptIs
  <2>2. Kept(t, StoredAt(t, mask, start, step, sz))
    BY <2>1, MemoryKept, Zenon DEF StoredAt
  <2>3. QED BY <1>2, <2>2, AllTouchedKept, KeptOn, Zenon DEF Stored
<1>3. ASSUME NEW t, Kept(s, t), NEW mask, NEW start, NEW sz
      PROVE  Kept(s, Loaded(t, mask, start, sz))
  <2> DEFINE u == AllTouched(t, mask, start, Bytes(sz), sz, FALSE)
  <2>1. Kept(s, u) /\ IsCpu(u)
    BY <1>3, AllTouchedKept, KeptIs, Zenon
  <2> HIDE DEF u
  <2>2. ASSUME NEW d, DOMAIN d = 0 .. 7, NEW a, DOMAIN a = 0 .. 7
        PROVE  Kept(u, [u EXCEPT !.d = d, !.a = a])
    BY <2>1, <2>2 DEF Kept, ModeKept, IsCpu, SameByte, Handled
  <2>3. Kept(u, Loaded(t, mask, start, sz))
    BY <2>2, Zenon DEF Loaded, u
  <2>4. QED BY <2>1, <2>3, KeptOn, Zenon
<1>4. Kept(s, instrFetchWord(s).s) /\ ~instrFetchWord(s).s.erred
  BY <1>1, FetchKept, Zenon
<1>5. Kept(s, addrCalcEA(instrFetchWord(s).s, i.m, i.r, i.sz).s)
  BY <1>4, AddressKept, Zenon
<1>6. Kept(s, instrMovemRegToMem(s, i))
  BY <1>2, <1>4, <1>5, SetKept, Zenon DEF instrMovemRegToMem
<1>7. Kept(s, instrMovemMemToReg(s, i))
  BY <1>3, <1>4, <1>5, SetKept, Zenon DEF instrMovemMemToReg
<1>8. QED BY <1>6, <1>7

LEMMA BranchesKept ==
  ASSUME NEW s, IsCpu(s), ~s.erred, NEW i
  PROVE  /\ Kept(s, instrDbcc(s, i)) /\ Kept(s, instrScc(s, i)) /\ Kept(s, instrJmp(s, i)) /\ Kept(s, instrNop(s, i))
         /\ ModeKept(s, instrBcc(s, i)) /\ ModeKept(s, instrJsr(s, i)) /\ ModeKept(s, instrRts(s, i))
<1>1. Kept(s, s)
  BY KeptSelf
<1>2. Kept(s, instrFetchWord(s).s) /\ ~instrFetchWord(s).s.erred
  BY <1>1, FetchKept, Zenon
<1>3. \A sz : Kept(s, addrCalcEA(s, i.m, i.r, sz).s) /\ ~addrCalcEA(s, i.m, i.r, sz).s.erred
  BY <1>1, AddressKept, Zenon
<1>4. Kept(s, Displacement(s, i).s)
  BY <1>1, <1>2 DEF Displacement
<1>5. ModeKept(s, instrBcc(s, i))
  BY <1>4, RegistersKept, KeptIs, Zenon DEF instrBcc
<1>6. Kept(s, instrDbcc(s, i))
  BY <1>2, RegistersKept, Zenon DEF instrDbcc
<1>7. Kept(s, instrScc(s, i))
  BY <1>3, ResultKept, Zenon DEF instrScc
<1>8. Kept(s, instrJmp(s, i)) /\ ModeKept(s, instrJsr(s, i))
  BY <1>1, <1>3, RegistersKept, Zenon DEF instrJmp, instrJsr
<1>9. ModeKept(s, instrRts(s, i))
  BY <1>1, TouchedKept, RegistersKept, Zenon DEF instrRts, PopPc
<1>10. QED BY <1>1, <1>5, <1>6, <1>7, <1>8, <1>9, Zenon DEF instrNop

----------------------------------------------------------------------------
(* The status register as a word. *)

\* What each field of it weighs.
LEMMA EncodeIs ==
  ASSUME ByteBits = 8, NEW sr, IsSr(sr)
  PROVE  \E x, n, z, v, c, t, s \in {0, 1} :
           /\ (t = 1 <=> sr.t) /\ (s = 1 <=> sr.s) /\ (x = 1 <=> sr.x) /\ (n = 1 <=> sr.n)
           /\ (z = 1 <=> sr.z) /\ (v = 1 <=> sr.v) /\ (c = 1 <=> sr.c)
           /\ Encode(sr) = 32768 * t + 8192 * s + 256 * sr.ipl + 16 * x + 8 * n + 4 * z + 2 * v + c
<1> DEFINE At(b) == IF b THEN 1 ELSE 0
<1>1. \A b : At(b) \in {0, 1} /\ (At(b) = 1 <=> b)
  OBVIOUS
<1>2. /\ 2^0 = 1 /\ 2^1 = 2 /\ 2^2 = 4 /\ 2^3 = 8 /\ 2^4 = 16 /\ 2^13 = 8192 /\ 2^15 = 32768
      /\ TBit = 15 /\ SBit = 13
  BY DEF TBit, SBit
<1>3. Modulus("b") = 256
  <2>1. 2^8 = 256
    OBVIOUS
  <2>2. QED BY <2>1 DEF Modulus, Bits, Bytes
<1>4. sr.ipl \in 0 .. 7
  BY DEF IsSr
<1>5. \A b, k : (IF b THEN 2^k ELSE 0) = IF At(b) = 1 THEN 2^k ELSE 0
  OBVIOUS
<1> HIDE DEF At
<1>6. Encode(sr) = 32768 * At(sr.t) + 8192 * At(sr.s) + 256 * sr.ipl + 16 * At(sr.x)
                     + 8 * At(sr.n) + 4 * At(sr.z) + 2 * At(sr.v) + At(sr.c)
  BY <1>1, <1>2, <1>3, <1>4, <1>5 DEF Encode
<1>7. QED BY <1>1, <1>6

LEMMA EncodeBits ==
  ASSUME ByteBits = 8, NEW sr, IsSr(sr)
  PROVE  /\ Encode(sr) \in Nat /\ Encode(sr) < 65536
         /\ (Bit(Encode(sr), 15) = 1 <=> sr.t) /\ (Bit(Encode(sr), 13) = 1 <=> sr.s)
         /\ 4 * Bit(Encode(sr), 10) + 2 * Bit(Encode(sr), 9) + Bit(Encode(sr), 8) = sr.ipl
         /\ (Bit(Encode(sr), 4) = 1 <=> sr.x) /\ (Bit(Encode(sr), 3) = 1 <=> sr.n)
         /\ (Bit(Encode(sr), 2) = 1 <=> sr.z) /\ (Bit(Encode(sr), 1) = 1 <=> sr.v)
         /\ (Bit(Encode(sr), 0) = 1 <=> sr.c)
<1>1. PICK x, n, z, v, c, t, s \in {0, 1} :
           /\ (t = 1 <=> sr.t) /\ (s = 1 <=> sr.s) /\ (x = 1 <=> sr.x) /\ (n = 1 <=> sr.n)
           /\ (z = 1 <=> sr.z) /\ (v = 1 <=> sr.v) /\ (c = 1 <=> sr.c)
           /\ Encode(sr) = 32768 * t + 8192 * s + 256 * sr.ipl + 16 * x + 8 * n + 4 * z + 2 * v + c
  BY EncodeIs
<1> DEFINE p == sr.ipl
           w == 32768 * t + 8192 * s + 256 * p + 16 * x + 8 * n + 4 * z + 2 * v + c
<1>2. p \in 0 .. 7
  BY DEF IsSr
<1> HIDE DEF p
<1>3. w \in Nat /\ w < 65536
  BY <1>2
<1>4. /\ 2^0 = 1 /\ 2^1 = 2 /\ 2^2 = 4 /\ 2^3 = 8 /\ 2^4 = 16
      /\ 2^8 = 256 /\ 2^9 = 512 /\ 2^10 = 1024 /\ 2^13 = 8192 /\ 2^15 = 32768
  OBVIOUS
<1>5. Bit(w, 15) = t
  BY <1>2, <1>4 DEF Bit
<1>6. Bit(w, 13) = s
  BY <1>2, <1>4 DEF Bit
<1>7. 4 * Bit(w, 10) + 2 * Bit(w, 9) + Bit(w, 8) = p
  BY <1>2, <1>4 DEF Bit
<1>8. Bit(w, 4) = x
  BY <1>2, <1>4 DEF Bit
<1>9. Bit(w, 3) = n
  BY <1>2, <1>4 DEF Bit
<1>10. Bit(w, 2) = z
  BY <1>2, <1>4 DEF Bit
<1>11. Bit(w, 1) = v
  BY <1>2, <1>4 DEF Bit
<1>12. Bit(w, 0) = c
  BY <1>2, <1>4 DEF Bit
<1>13. Encode(sr) = w /\ p = sr.ipl
  BY <1>1 DEF p
<1> HIDE DEF w
<1>14. (Bit(Encode(sr), 15) = 1 <=> sr.t) /\ (Bit(Encode(sr), 13) = 1 <=> sr.s)
  BY <1>1, <1>5, <1>6, <1>13
<1>15. (Bit(Encode(sr), 4) = 1 <=> sr.x) /\ (Bit(Encode(sr), 3) = 1 <=> sr.n)
       /\ (Bit(Encode(sr), 2) = 1 <=> sr.z) /\ (Bit(Encode(sr), 1) = 1 <=> sr.v)
       /\ (Bit(Encode(sr), 0) = 1 <=> sr.c)
  BY <1>1, <1>8, <1>9, <1>10, <1>11, <1>12, <1>13
<1>16. Encode(sr) \in Nat /\ Encode(sr) < 65536
  BY <1>3, <1>13
<1>17. 4 * Bit(Encode(sr), 10) + 2 * Bit(Encode(sr), 9) + Bit(Encode(sr), 8) = sr.ipl
  BY <1>7, <1>13, SMT
<1>18. QED BY <1>14, <1>15, <1>16, <1>17

\* What each field of a decoded word comes from.
LEMMA DecodeIs ==
  ASSUME NEW w
  PROVE  /\ IsSr(Decode(w))
         /\ Decode(w).t = (Bit(w, TBit) = 1) /\ Decode(w).s = (Bit(w, SBit) = 1)
         /\ Decode(w).x = (Bit(w, 4) = 1) /\ Decode(w).n = (Bit(w, 3) = 1)
         /\ Decode(w).z = (Bit(w, 2) = 1) /\ Decode(w).v = (Bit(w, 1) = 1)
         /\ Decode(w).c = (Bit(w, 0) = 1)
         /\ Decode(w).ipl = (IF Bit(w, ByteBits + 0) = 1 THEN 1 ELSE 0)
                             + (IF Bit(w, ByteBits + 1) = 1 THEN 2 ELSE 0)
                             + (IF Bit(w, ByteBits + 2) = 1 THEN 4 ELSE 0)
         /\ \E r : Decode(w) = Ccr(r, w)
<1> DEFINE ipl == (IF Bit(w, ByteBits + 0) = 1 THEN 1 ELSE 0)
                   + (IF Bit(w, ByteBits + 1) = 1 THEN 2 ELSE 0)
                   + (IF Bit(w, ByteBits + 2) = 1 THEN 4 ELSE 0)
           r == [t |-> Bit(w, TBit) = 1, s |-> Bit(w, SBit) = 1, ipl |-> ipl,
                 x |-> FALSE, n |-> FALSE, z |-> FALSE, v |-> FALSE, c |-> FALSE]
<1>1. ipl \in 0 .. 7
  OBVIOUS
<1>2. Decode(w) = Ccr(r, w)
  BY DEF Decode
<1> HIDE DEF ipl
<1>3. IsSr(r) /\ SystemByte(r) = <<Bit(w, TBit) = 1, Bit(w, SBit) = 1, ipl>>
  BY <1>1 DEF IsSr, FlagNames, SystemByte
<1> HIDE DEF r
<1>4. /\ IsSr(Ccr(r, w)) /\ SystemByte(Ccr(r, w)) = SystemByte(r)
      /\ Ccr(r, w).x = (Bit(w, 4) = 1) /\ Ccr(r, w).n = (Bit(w, 3) = 1)
      /\ Ccr(r, w).z = (Bit(w, 2) = 1) /\ Ccr(r, w).v = (Bit(w, 1) = 1)
      /\ Ccr(r, w).c = (Bit(w, 0) = 1)
  BY <1>3 DEF Ccr, IsSr, FlagNames, SystemByte
<1>5. QED BY <1>2, <1>3, <1>4 DEF SystemByte, ipl

LEMMA CcrKept ==
  ASSUME NEW f, IsSr(f), NEW w
  PROVE  SameByte(f, Ccr(f, w))
<1>1. QED BY DEF Ccr, SameByte, IsSr, FlagNames, SystemByte

\* Two words whose bits above the condition codes are the same have the same system byte.
LEMMA ByteDecoded ==
  ASSUME ByteBits = 8, NEW sr, IsSr(sr), NEW w,
         \A j \in {8, 9, 10, 13, 15} : Bit(w, j) = Bit(Encode(sr), j)
  PROVE  SameByte(sr, Decode(w))
<1> DEFINE e == Encode(sr)
<1>1. /\ (Bit(e, 15) = 1 <=> sr.t) /\ (Bit(e, 13) = 1 <=> sr.s)
      /\ 4 * Bit(e, 10) + 2 * Bit(e, 9) + Bit(e, 8) = sr.ipl
  BY EncodeBits
<1>2. TBit = 15 /\ SBit = 13 /\ ByteBits + 0 = 8 /\ ByteBits + 1 = 9 /\ ByteBits + 2 = 10
  BY DEF TBit, SBit
<1>3. e \in Int
  BY EncodeBits
<1> HIDE DEF e
<1>4. Bit(e, 8) \in {0, 1} /\ Bit(e, 9) \in {0, 1} /\ Bit(e, 10) \in {0, 1}
  BY <1>3, BitRange
<1>5. /\ IsSr(Decode(w))
      /\ Decode(w).t = (Bit(e, 15) = 1) /\ Decode(w).s = (Bit(e, 13) = 1)
      /\ Decode(w).ipl = (IF Bit(e, 8) = 1 THEN 1 ELSE 0) + (IF Bit(e, 9) = 1 THEN 2 ELSE 0)
                          + (IF Bit(e, 10) = 1 THEN 4 ELSE 0)
  BY <1>2, DecodeIs DEF e
<1>6. Decode(w).ipl = sr.ipl
  BY <1>1, <1>4, <1>5
<1>7. sr.t \in BOOLEAN /\ sr.s \in BOOLEAN
  BY DEF IsSr
<1>8. Decode(w).t = sr.t /\ Decode(w).s = sr.s
  BY <1>1, <1>5, <1>7
<1>9. QED BY <1>5, <1>6, <1>8, Zenon DEF SameByte, SystemByte

\* ORI and EORI to CCR keep to the five low bits of their word.
LEMMA CombinedKept ==
  ASSUME ByteBits = 8, NEW sr, IsSr(sr), NEW w \in Int
  PROVE  SameByte(sr, Combined(sr, aluOr, w % 32)) /\ SameByte(sr, Combined(sr, aluEor, w % 32))
<1> DEFINE e == Encode(sr)
           m == w % 32
<1>1. e \in Int /\ m \in Nat /\ m < 32
  BY EncodeBits
<1> HIDE DEF m
<1>2. Bit(m, 8) = 0 /\ Bit(m, 9) = 0 /\ Bit(m, 10) = 0 /\ Bit(m, 13) = 0 /\ Bit(m, 15) = 0
  <2>1. 2^8 = 256 /\ 2^9 = 512 /\ 2^10 = 1024 /\ 2^13 = 8192 /\ 2^15 = 32768
    OBVIOUS
  <2>2. m \div 256 = 0 /\ m \div 512 = 0 /\ m \div 1024 = 0 /\ m \div 8192 = 0 /\ m \div 32768 = 0
    BY <1>1
  <2>3. QED BY <2>1, <2>2 DEF Bit
<1>3. Bits("w") = 16 /\ Bits("w") - 1 = 15
  BY DEF Bits, Bytes
<1> HIDE DEF e
<1>4. ASSUME NEW bit \in [0 .. 15 -> {0, 1}],
             \A j \in {8, 9, 10, 13, 15} : bit[j] = Bit(e, j)
      PROVE  SameByte(sr, Decode(FromBits(bit, 16)))
  <2>1. \A j \in {8, 9, 10, 13, 15} : Bit(FromBits(bit, 16), j) = bit[j]
    <3>1. 16 \in 0 .. 32 /\ 16 - 1 = 15 /\ {8, 9, 10, 13, 15} \subseteq 0 .. 15
      OBVIOUS
    <3>2. bit \in [0 .. 16 - 1 -> {0, 1}]
      BY <1>4, <3>1
    <3>3. \A j \in 0 .. 16 - 1 : Bit(FromBits(bit, 16), j) = bit[j]
      BY <3>1, <3>2, FromBitsIs
    <3>4. QED BY <3>1, <3>3
  <2>2. QED BY <1>4, <2>1, ByteDecoded DEF e
<1>5. \A j \in 0 .. 15 : Bit(m, j) \in {0, 1} /\ Bit(e, j) \in {0, 1}
  BY <1>1, BitRange
<1>6. SameByte(sr, Combined(sr, aluOr, m))
  <2> DEFINE bit == [j \in 0 .. 15 |-> Bit(m, j) + Bit(e, j) - Bit(m, j) * Bit(e, j)]
  <2>1. \A p, q \in {0, 1} : p + q - p * q \in {0, 1} /\ 0 + q - 0 * q = q
    OBVIOUS
  <2>2. bit \in [0 .. 15 -> {0, 1}]
    BY <1>5, <2>1
  <2>3. \A j \in {8, 9, 10, 13, 15} : bit[j] = Bit(e, j)
    BY <1>2, <1>5, <2>1
  <2>4. Combined(sr, aluOr, m) = Decode(FromBits(bit, 16))
    <3>1. Combined(sr, aluOr, m) = Decode(FromBits([j \in 0 .. Bits("w") - 1 |-> Bit(m, j) + Bit(e, j) - Bit(m, j) * Bit(e, j)], Bits("w")))
      BY DEF Combined, aluOr, Logic, Out, Bitwise, e
    <3>2. QED BY <1>3, <3>1
  <2>5. QED BY <1>4, <2>2, <2>3, <2>4
<1>7. SameByte(sr, Combined(sr, aluEor, m))
  <2> DEFINE bit == [j \in 0 .. 15 |-> (Bit(m, j) + Bit(e, j)) % 2]
  <2>1. \A p, q \in {0, 1} : (p + q) % 2 \in {0, 1} /\ (0 + q) % 2 = q
    OBVIOUS
  <2>2. bit \in [0 .. 15 -> {0, 1}]
    BY <1>5, <2>1
  <2>3. \A j \in {8, 9, 10, 13, 15} : bit[j] = Bit(e, j)
    BY <1>2, <1>5, <2>1
  <2>4. Combined(sr, aluEor, m) = Decode(FromBits(bit, 16))
    <3>1. Combined(sr, aluEor, m) = Decode(FromBits([j \in 0 .. Bits("w") - 1 |-> (Bit(m, j) + Bit(e, j)) % 2], Bits("w")))
      BY DEF Combined, aluEor, Logic, Out, Bitwise, e
    <3>2. QED BY <1>3, <3>1
  <2>5. QED BY <1>4, <2>2, <2>3, <2>4
<1>8. QED BY <1>6, <1>7 DEF m

----------------------------------------------------------------------------
(* Exceptions and changes of mode. *)

LEMMA SetCpu ==
  ASSUME NEW s, IsCpu(s), NEW v, NEW r
  PROVE  /\ IsCpu([s EXCEPT !.usp = v]) /\ IsCpu([s EXCEPT !.ssp = v]) /\ IsCpu([s EXCEPT !.a[r] = v])
         /\ IsCpu([s EXCEPT !.pc = v])
         /\ v \in BOOLEAN => /\ IsCpu([s EXCEPT !.stopped = v])
                             /\ IsCpu([s EXCEPT !.sr.s = v]) /\ IsCpu([s EXCEPT !.sr.t = v])
         /\ IsSr(v) => IsCpu([s EXCEPT !.sr = v])
<1>1. /\ IsCpu([s EXCEPT !.usp = v]) /\ IsCpu([s EXCEPT !.ssp = v]) /\ IsCpu([s EXCEPT !.a[r] = v])
      /\ IsCpu([s EXCEPT !.pc = v])
  BY DEF IsCpu
<1>2. v \in BOOLEAN => IsCpu([s EXCEPT !.stopped = v])
  BY DEF IsCpu
<1>3. IsSr(v) => IsCpu([s EXCEPT !.sr = v])
  BY DEF IsCpu
<1>4. v \in BOOLEAN => IsSr([s.sr EXCEPT !.s = v]) /\ IsSr([s.sr EXCEPT !.t = v])
  BY DEF IsCpu, IsSr, FlagNames
<1>5. v \in BOOLEAN => IsCpu([s EXCEPT !.sr.s = v]) /\ IsCpu([s EXCEPT !.sr.t = v])
  BY <1>4 DEF IsCpu
<1>6. QED BY <1>1, <1>2, <1>3, <1>5

LEMMA SupervisorCpu ==
  ASSUME NEW s, IsCpu(s), NEW b \in BOOLEAN
  PROVE  IsCpu(cpuSetSupervisor(s, b))
<1>1. ASSUME NEW v PROVE IsCpu([s EXCEPT !.usp = s.a[7], !.a[7] = v, !.sr.s = TRUE])
  BY SetCpu, Zenon
<1>2. ASSUME NEW v PROVE IsCpu([s EXCEPT !.ssp = s.a[7], !.a[7] = v, !.sr.s = FALSE])
  BY SetCpu, Zenon
<1>3. QED BY <1>1, <1>2 DEF cpuSetSupervisor

LEMMA SetSrCpu ==
  ASSUME NEW s, IsCpu(s), NEW sr, IsSr(sr)
  PROVE  IsCpu(SetSr(s, sr))
<1>1. QED BY SetCpu, SupervisorCpu, Zenon DEF SetSr

LEMMA ExceptionCpu ==
  ASSUME NEW s, IsCpu(s), NEW vec
  PROVE  IsCpu(exceptionProcess(s, vec))
<1> DEFINE d == [cpuSetSupervisor(s, TRUE) EXCEPT !.sr.t = FALSE]
           u == pushWord(pushLong(d, s.pc), Encode(s.sr))
<1>1. IsCpu(d)
  BY SupervisorCpu, SetCpu, Zenon
<1>2. Kept(d, u)
  BY <1>1, KeptSelf, RegistersKept, Zenon
<1>3. IsCpu([u EXCEPT !.pc = Vectors[vec] % AddrSpace])
  BY <1>2, KeptIs, SetCpu, Zenon
<1>4. QED BY <1>3, Zenon DEF exceptionProcess

\* What an instruction may do: anything in supervisor mode; in user mode it keeps the system
\* byte and the stack pointers, or takes an exception through one of the vectors.
Traps(s, t, V) == \E u, v : v \in V /\ ModeKept(s, u) /\ t = exceptionProcess(u, v)
Lawful(s, t, V) == IsCpu(t) /\ (s.sr.s \/ Kept(s, t) \/ Traps(s, t, V))

LEMMA LawfulBy ==
  ASSUME NEW s, IsCpu(s), NEW t, NEW V
  PROVE  /\ Kept(s, t) => Lawful(s, t, V)
         /\ Traps(s, t, V) => Lawful(s, t, V)
         /\ IsCpu(t) /\ 8 \in V => Lawful(s, Privileged(s, t), V)
<1>1. Kept(s, t) => Lawful(s, t, V)
  BY KeptIs, Zenon DEF Lawful
<1>2. ASSUME NEW x, Traps(s, x, V) PROVE Lawful(s, x, V)
  BY <1>2, ExceptionCpu, Zenon DEF Lawful, Traps, ModeKept
<1>3. 8 \in V => Traps(s, exceptionProcess(s, 8), V)
  BY KeptSelf, KeptIs, Zenon DEF Traps
<1>4. QED BY <1>1, <1>2, <1>3, Zenon DEF Privileged, Lawful

LEMMA DivideLawful ==
  ASSUME NEW s, IsCpu(s), ~s.erred, NEW i, NEW V, {5, 6, 7} \subseteq V
  PROVE  /\ Lawful(s, instrDivu(s, i), V) /\ Lawful(s, instrDivs(s, i), V)
         /\ Lawful(s, instrChk(s, i), V) /\ Lawful(s, instrTrapv(s, i), V)
<1>1. Kept(s, s) /\ IsSr(s.sr)
  BY KeptSelf DEF IsCpu
<1> DEFINE o == Operand(s, i, "w")
<1>2. Kept(s, o.s)
  BY <1>1, OperandKept, Zenon
<1>3. Traps(s, exceptionProcess(o.s, 5), V)
  BY <1>2, KeptIs, Zenon DEF Traps
<1>4. Lawful(s, instrDivu(s, i), V)
  BY <1>1, <1>3, OperandSr, PlacedKept, DividedKept, LawfulBy, Zenon DEF instrDivu, Divide, IntoD
<1>5. Lawful(s, instrDivs(s, i), V)
  BY <1>1, <1>3, OperandSr, PlacedKept, DividedKept, LawfulBy, Zenon DEF instrDivs, Divide, IntoD
<1>6. ASSUME NEW n PROVE Traps(s, exceptionProcess([o.s EXCEPT !.sr.n = n], 6), V)
  <2> HIDE DEF o
  <2>1. SameByte(o.s.sr, [o.s.sr EXCEPT !.n = n])
    <3>1. SameByte(o.s.sr, o.s.sr)
      BY <1>2, KeptIs, Zenon DEF SameByte
    <3>2. QED BY <3>1, FlagsKept, Zenon
  <2>2. Kept(s, [o.s EXCEPT !.sr = [o.s.sr EXCEPT !.n = n]])
    BY <1>2, <2>1, PutKept, Zenon
  <2>3. [o.s EXCEPT !.sr = [o.s.sr EXCEPT !.n = n]] = [o.s EXCEPT !.sr.n = n]
    OBVIOUS
  <2>4. QED BY <2>2, <2>3, KeptIs, Zenon DEF Traps
<1>7. Lawful(s, instrChk(s, i), V)
  <2>1. \/ \E n : instrChk(s, i) = exceptionProcess([o.s EXCEPT !.sr.n = n], 6)
        \/ instrChk(s, i) = o.s
    <3> DEFINE b == Signed(s.d[i.x], "w") < 0
               c == Signed(s.d[i.x], "w") >= 0 /\ Signed(s.d[i.x], "w") > Signed(o.val, "w")
               Trap(n) == exceptionProcess([o.s EXCEPT !.sr.n = n], 6)
    <3>1. instrChk(s, i) = CASE b -> Trap(TRUE) [] c -> Trap(FALSE) [] OTHER -> o.s
      BY Zenon DEF instrChk
    <3> HIDE DEF b, c, Trap, o
    <3>2. instrChk(s, i) \in {Trap(TRUE), Trap(FALSE), o.s}
      BY <3>1
    <3>3. QED BY <3>2, Zenon DEF Trap
  <2> HIDE DEF o
  <2>2. QED BY <1>2, <1>6, <2>1, LawfulBy, Zenon
<1>8. Lawful(s, instrTrapv(s, i), V)
  BY <1>1, KeptIs, LawfulBy, Zenon DEF instrTrapv, Traps
<1>9. QED BY <1>4, <1>5, <1>7, <1>8

LEMMA CodesKept ==
  ASSUME NEW s, IsCpu(s), ~s.erred, NEW i
  PROVE  /\ ModeKept(s, instrRtr(s, i)) /\ Kept(s, instrMoveFromSr(s, i))
         /\ Kept(s, instrMoveToCcr(s, i)) /\ Kept(s, instrAndiCcr(s, i))
<1>1. Kept(s, s) /\ IsSr(s.sr)
  BY KeptSelf DEF IsCpu
<1>2. ASSUME NEW t, Kept(s, t), NEW w
      PROVE  Kept(s, [t EXCEPT !.sr = Ccr(t.sr, w)])
  BY <1>2, KeptIs, CcrKept, PutKept, Zenon
<1>3. ModeKept(s, instrRtr(s, i))
  <2> DEFINE t == AddA(Touched(s, s.a[7], "w", FALSE), 7, 2)
             u == [t EXCEPT !.sr = Ccr(t.sr, busReadWord(s, s.a[7]))]
  <2>1. Kept(s, u)
    BY <1>1, <1>2, TouchedKept, RegistersKept, Zenon
  <2>2. instrRtr(s, i) = PopPc(u)
    BY Zenon DEF instrRtr
  <2> HIDE DEF u
  <2>3. QED BY <2>1, <2>2, TouchedKept, RegistersKept, Zenon DEF PopPc
<1>4. Kept(s, instrMoveFromSr(s, i))
  BY <1>1, AddressKept, ResultKept, Zenon DEF instrMoveFromSr
<1>5. Kept(s, instrMoveToCcr(s, i))
  BY <1>1, <1>2, OperandKept, Zenon DEF instrMoveToCcr
<1>6. Kept(s, instrAndiCcr(s, i))
  BY <1>1, <1>2, FetchKept, Zenon DEF instrAndiCcr
<1>7. QED BY <1>3, <1>4, <1>5, <1>6

LEMMA CombinedCodesKept ==
  ASSUME ByteBits = 8, NEW s, IsCpu(s), ~s.erred, NEW i, busReadWord(s, s.pc) \in Int
  PROVE  Kept(s, instrOriCcr(s, i)) /\ Kept(s, instrEoriCcr(s, i))
<1> DEFINE g == instrFetchWord(s)
<1>1. Kept(s, g.s) /\ IsSr(g.s.sr)
  BY KeptSelf, FetchKept, KeptIs, Zenon
<1>2. g.w \in Int
  BY DEF instrFetchWord
<1> HIDE DEF g
<1>3. /\ SameByte(g.s.sr, Combined(g.s.sr, aluOr, g.w % 32))
      /\ SameByte(g.s.sr, Combined(g.s.sr, aluEor, g.w % 32))
  BY <1>1, <1>2, CombinedKept
<1>4. /\ Kept(s, [g.s EXCEPT !.sr = Combined(g.s.sr, aluOr, g.w % 32)])
      /\ Kept(s, [g.s EXCEPT !.sr = Combined(g.s.sr, aluEor, g.w % 32)])
  BY <1>1, <1>3, PutKept, Zenon
<1>5. QED BY <1>4, Zenon DEF instrOriCcr, instrEoriCcr, g

LEMMA PrivilegedLawful ==
  ASSUME NEW s, IsCpu(s), ~s.erred, NEW i, NEW V, 8 \in V
  PROVE  /\ Lawful(s, instrReset(s, i), V) /\ Lawful(s, instrStop(s, i), V)
         /\ Lawful(s, instrAndiSr(s, i), V) /\ Lawful(s, instrOriSr(s, i), V)
         /\ Lawful(s, instrEoriSr(s, i), V) /\ Lawful(s, instrRte(s, i), V)
         /\ Lawful(s, instrMoveToSr(s, i), V) /\ Lawful(s, instrMoveUsp(s, i), V)
<1>1. Kept(s, s)
  BY KeptSelf
<1>2. \A w : IsSr(Decode(w))
  BY DecodeIs, Zenon
<1>3. IsCpu(instrFetchWord(s).s)
  BY <1>1, FetchKept, KeptIs, Zenon
<1>4. \A w : IsCpu(SetSr(instrFetchWord(s).s, Decode(w)))
  BY <1>2, <1>3, SetSrCpu, Zenon
<1>5. Lawful(s, instrReset(s, i), V)
  BY LawfulBy, Zenon DEF instrReset
<1>6. Lawful(s, instrStop(s, i), V)
  BY <1>4, SetCpu, LawfulBy, Zenon DEF instrStop
<1>7. Lawful(s, instrAndiSr(s, i), V)
  BY <1>4, LawfulBy, Zenon DEF instrAndiSr, Combined
<1>8. Lawful(s, instrOriSr(s, i), V)
  BY <1>2, <1>3, SetCpu, LawfulBy, Zenon DEF instrOriSr, Combined
<1>9. Lawful(s, instrEoriSr(s, i), V)
  BY <1>4, LawfulBy, Zenon DEF instrEoriSr, Combined
<1>10. Lawful(s, instrRte(s, i), V)
  <2> DEFINE u == AddA(Touched(s, s.a[7], "w", FALSE), 7, 6)
  <2>1. \A w : IsCpu(SetSr(u, Decode(w)))
    BY <1>1, <1>2, TouchedKept, RegistersKept, KeptIs, SetSrCpu, Zenon
  <2>2. \A w, a : IsCpu(Jump(SetSr(u, Decode(w)), a))
    BY <2>1, SetCpu, Zenon DEF Jump
  <2>3. QED BY <2>2, LawfulBy, Zenon DEF instrRte
<1>11. Lawful(s, instrMoveToSr(s, i), V)
  <2>1. \A w : IsCpu(SetSr(Operand(s, i, "w").s, Decode(w)))
    BY <1>1, <1>2, OperandKept, KeptIs, SetSrCpu, Zenon
  <2>2. QED BY <2>1, LawfulBy, Zenon DEF instrMoveToSr
<1>12. Lawful(s, instrMoveUsp(s, i), V)
  BY SetCpu, LawfulBy, Zenon DEF instrMoveUsp
<1>13. QED BY <1>5, <1>6, <1>7, <1>8, <1>9, <1>10, <1>11, <1>12

LEMMA UnassignedLawful ==
  ASSUME NEW s, IsCpu(s), NEW i, NEW V, {4, 10, 11} \subseteq V
  PROVE  /\ Lawful(s, handleIllegal(s, i), V) /\ Lawful(s, handleLineA(s, i), V)
         /\ Lawful(s, handleLineF(s, i), V)
         /\ 32 + i.vector \in V => Lawful(s, instrTrap(s, i), V)
<1>1. \A v \in V : Traps(s, exceptionProcess(s, v), V)
  BY KeptSelf, KeptIs, Zenon DEF Traps
<1>2. QED BY <1>1, LawfulBy, Zenon DEF handleIllegal, handleLineA, handleLineF, instrTrap

----------------------------------------------------------------------------
(* The instructions, group by group. *)

\* The state that a handler starts from, and what an instruction does then.
StepLawful ==
  \/ Lawful(Fetched(cpu), cpu', VectorsAhead)
  \/ /\ ModeKept(Fetched(cpu), cpu')
     /\ SetsPc \/ (Facing("Move") /\ HandledBehind(cpu'))

LEMMA FetchedKept ==
  ASSUME NEW s, IsCpu(s)
  PROVE  /\ IsCpu(Fetched(s)) /\ ~Fetched(s).erred
         /\ Fetched(s) = [s EXCEPT !.pc = @ + 2, !.currentPC = s.pc, !.erred = FALSE]
         /\ Fetched(s).pc = s.pc + 2 /\ Fetched(s).mem = s.mem
         /\ Fetched(s).sr = s.sr /\ Fetched(s).usp = s.usp /\ Fetched(s).ssp = s.ssp
         /\ Fetched(s).stopped = s.stopped /\ Fetched(s).a = s.a /\ Fetched(s).d = s.d
<1>1. QED BY DEF Fetched, IsCpu

\* What a step of an instruction is, but for its handler.
LEMMA StepIs ==
  ASSUME NEW h, h # "Trap", rom[cpu.pc].h = h
  PROVE  {4, 5, 6, 7, 8, 10, 11} = VectorsAhead
<1>1. QED BY Zenon DEF VectorsAhead, Facing

\* A step whose handler keeps the mode.
LEMMA KeptLawful ==
  ASSUME IsCpu(Fetched(cpu)), Kept(Fetched(cpu), cpu')
  PROVE  StepLawful
<1>1. QED BY LawfulBy, Zenon DEF StepLawful

LEMMA ArithmeticLawful ==
  ASSUME IsCpu(Fetched(cpu)), ~Fetched(cpu).erred, Arithmetic
  PROVE  StepLawful
<1> DEFINE s == Fetched(cpu)
           i == rom[cpu.pc]
           V == VectorsAhead
<1>1. {4, 5, 6, 7, 8, 10, 11} = V
  BY StepIs, Zenon DEF Arithmetic, Step
<1>2. \/ cpu' = instrDivu(s, i) \/ cpu' = instrDivs(s, i) \/ Kept(s, cpu')
  BY DyadicKept, ImmediateKept, QuickKept, LimbsKept, UnaryKept, Zenon DEF Arithmetic, Step
<1>3. {5, 6, 7} \subseteq V
  BY <1>1
<1> HIDE DEF s, i, V
<1>4. QED BY <1>2, <1>3, KeptLawful, DivideLawful, Zenon DEF StepLawful, s, i, V

LEMMA DecimalsLawful ==
  ASSUME IsCpu(Fetched(cpu)), ~Fetched(cpu).erred, Decimals
  PROVE  StepLawful
<1>1. Kept(Fetched(cpu), cpu')
  BY LimbsKept, Zenon DEF Decimals, Step
<1>2. QED BY <1>1, KeptLawful

\* The word that ORI and EORI to CCR combine with is the one behind the opcode.
LEMMA LogicalLawful ==
  ASSUME ByteBits = 8, IsCpu(cpu), CodesGiven, Logical
  PROVE  StepLawful
<1> DEFINE s == Fetched(cpu)
           i == rom[cpu.pc]
           V == VectorsAhead
<1>1. IsCpu(s) /\ ~s.erred /\ s.pc = cpu.pc + 2 /\ busReadWord(s, s.pc) = busReadWord(cpu, cpu.pc + 2)
  BY FetchedKept DEF busReadWord, busReadByte
<1>2. {4, 5, 6, 7, 8, 10, 11} = V
  BY StepIs, Zenon DEF Logical, Step
<1>3. Facing("OriCcr") \/ Facing("EoriCcr") => busReadWord(s, s.pc) \in Int
  BY <1>1, Zenon DEF CodesGiven
<1>4. Step("OriCcr", instrOriCcr) \/ Step("EoriCcr", instrEoriCcr) => Kept(s, cpu')
  BY <1>1, <1>3, CombinedCodesKept, Zenon DEF Step, Facing
<1>5. \/ cpu' = instrAndiSr(s, i) \/ cpu' = instrOriSr(s, i) \/ cpu' = instrEoriSr(s, i) \/ Kept(s, cpu')
  BY <1>1, <1>4, DyadicKept, ImmediateKept, UnaryKept, CodesKept, Zenon DEF Logical, Step
<1>6. 8 \in V
  BY <1>2
<1> HIDE DEF s, i, V
<1>7. QED BY <1>1, <1>5, <1>6, KeptLawful, PrivilegedLawful, Zenon DEF StepLawful, s, i, V

LEMMA ShiftsLawful ==
  ASSUME IsCpu(Fetched(cpu)), ~Fetched(cpu).erred, Shifts \/ BitInstructions
  PROVE  StepLawful
<1>1. Kept(Fetched(cpu), cpu')
  BY ShiftedKept, BitsKept, Zenon DEF Shifts, BitInstructions, Step
<1>2. QED BY <1>1, KeptLawful

LEMMA MovesLawful ==
  ASSUME IsCpu(Fetched(cpu)), ~Fetched(cpu).erred, Moves
  PROVE  StepLawful
<1>1. CASE Step("Move", instrMove)
  BY <1>1, MoveKept, Zenon DEF Step, StepLawful, Facing
<1>2. CASE ~Step("Move", instrMove)
  <2>1. Kept(Fetched(cpu), cpu')
    BY <1>2, MovesKept, MovemKept, Zenon DEF Moves, Step
  <2>2. QED BY <2>1, KeptLawful
<1>3. QED BY <1>1, <1>2

LEMMA BranchesLawful ==
  ASSUME IsCpu(Fetched(cpu)), ~Fetched(cpu).erred, Branches
  PROVE  StepLawful
<1> DEFINE s == Fetched(cpu)
           i == rom[cpu.pc]
           V == VectorsAhead
           Jumps == Step("Bcc", instrBcc) \/ Step("Jsr", instrJsr) \/ Step("Rts", instrRts) \/ Step("Rtr", instrRtr)
<1>1. CASE Jumps
  <2>1. ModeKept(s, cpu')
    BY <1>1, BranchesKept, CodesKept, Zenon DEF Step
  <2>2. SetsPc
    BY <1>1, Zenon DEF Step, SetsPc, Facing
  <2>3. QED BY <2>1, <2>2, Zenon DEF StepLawful
<1>2. CASE ~Jumps
  <2>1. {4, 5, 6, 7, 8, 10, 11} = V
    BY StepIs, Zenon DEF Branches, Step
  <2>2. cpu' = instrRte(s, i) \/ Kept(s, cpu')
    BY <1>2, BranchesKept, Zenon DEF Branches, Step
  <2>3. 8 \in V
    BY <2>1
  <2> HIDE DEF s, i, V
  <2>4. QED BY <2>2, <2>3, KeptLawful, PrivilegedLawful, Zenon DEF StepLawful, s, i, V
<1>3. QED BY <1>1, <1>2

LEMMA SystemLawful ==
  ASSUME IsCpu(Fetched(cpu)), ~Fetched(cpu).erred, System
  PROVE  StepLawful
<1> DEFINE s == Fetched(cpu)
           i == rom[cpu.pc]
           V == VectorsAhead
<1>1. CASE Step("Trap", instrTrap)
  <2>1. cpu' = exceptionProcess(s, 32 + i.vector) /\ i.h = "Trap"
    BY <1>1, Zenon DEF Step, instrTrap
  <2>2. 32 + i.vector \in V
    BY <1>1, Zenon DEF VectorsAhead, Facing, Step
  <2>3. Traps(s, cpu', V)
    BY <2>1, <2>2, KeptSelf, KeptIs, Zenon DEF Traps
  <2>4. QED BY <2>3, LawfulBy, Zenon DEF StepLawful
<1>2. CASE ~ Step("Trap", instrTrap)
  <2>1. {4, 5, 6, 7, 8, 10, 11} = V
    BY <1>2, StepIs, Zenon DEF System, Step
  <2>2. {5, 6, 7} \subseteq V /\ 8 \in V
    BY <2>1
  <2>3. \/ cpu' = instrReset(s, i) \/ cpu' = instrStop(s, i) \/ cpu' = instrTrapv(s, i)
        \/ cpu' = instrChk(s, i) \/ cpu' = instrMoveToSr(s, i) \/ cpu' = instrMoveUsp(s, i) \/ Kept(s, cpu')
    BY <1>2, BranchesKept, CodesKept, UnaryKept, Zenon DEF System, Step
  <2> HIDE DEF s, i, V
  <2>4. QED BY <2>2, <2>3, KeptLawful, DivideLawful, PrivilegedLawful, Zenon DEF StepLawful, s, i, V
<1>3. QED BY <1>1, <1>2

LEMMA NoneLawful ==
  ASSUME IsCpu(Fetched(cpu)), ~Fetched(cpu).erred, Unassigned
  PROVE  StepLawful
<1> DEFINE s == Fetched(cpu)
           i == rom[cpu.pc]
           V == VectorsAhead
<1>1. {4, 5, 6, 7, 8, 10, 11} = V
  BY StepIs, Zenon DEF Unassigned, Step
<1>2. cpu' = handleIllegal(s, i) \/ cpu' = handleLineA(s, i) \/ cpu' = handleLineF(s, i)
  BY Zenon DEF Unassigned, Step
<1>3. {4, 10, 11} \subseteq V
  BY <1>1
<1> HIDE DEF s, i, V
<1>4. QED BY <1>2, <1>3, UnassignedLawful, Zenon DEF StepLawful, s, i, V

\* The PC is odd: an error, and the exception of an opcode of ones.
LEMMA FetchLawful ==
  ASSUME IsCpu(cpu), OddFetch
  PROVE  StepLawful
<1> DEFINE s == Fetched(cpu)
           c == [cpu EXCEPT !.currentPC = cpu.pc]
           e == exceptionAddressError(c, c.pc, FALSE)
           u == [e EXCEPT !.pc = @ + 2]
<1>1. IsCpu(c) /\ c.sr = cpu.sr /\ c.ssp = cpu.ssp /\ c.stopped = cpu.stopped /\ c.pc = cpu.pc
  BY DEF IsCpu
<1> HIDE DEF c
<1>2. Kept(c, e) /\ e.erred /\ SystemByte(e.sr) = <<FALSE, TRUE, c.sr.ipl>>
  BY <1>1, ErrorsKept, Zenon DEF exceptionAddressError
<1> HIDE DEF e
<1>3. IsCpu(u) /\ u.erred = e.erred /\ u.sr = e.sr /\ u.ssp = e.ssp /\ u.stopped = e.stopped
  BY <1>2 DEF Kept, ModeKept, IsCpu
<1>4. cpu' = exceptionProcess(u, 11)
  BY <1>1, Zenon DEF OddFetch, handleLineF, c, e
<1> HIDE DEF u
<1>5. s.sr = cpu.sr /\ s.ssp = cpu.ssp /\ s.stopped = cpu.stopped /\ IsCpu(s)
  BY FetchedKept
<1>6. ModeKept(s, u)
  BY <1>1, <1>2, <1>3, <1>5 DEF Kept, ModeKept
<1>7. 11 \in VectorsAhead
  BY DEF OddFetch, VectorsAhead, Facing
<1>8. Traps(s, cpu', VectorsAhead)
  BY <1>4, <1>6, <1>7, Zenon DEF Traps
<1>9. QED BY <1>5, <1>8, LawfulBy, Zenon DEF StepLawful

\* Whatever an instruction is.
LEMMA InstructionLawful ==
  ASSUME ByteBits = 8, TypeOK, CodesGiven, Next, ~ Wait
  PROVE  StepLawful
<1>1. IsCpu(cpu) /\ IsCpu(Fetched(cpu)) /\ ~Fetched(cpu).erred
  BY FetchedKept, Zenon DEF TypeOK
<1>2. QED BY FetchLawful, <1>1, ArithmeticLawful, DecimalsLawful, LogicalLawful, ShiftsLawful, MovesLawful, BranchesLawful,
             SystemLawful, NoneLawful, Zenon DEF Next

----------------------------------------------------------------------------
(* Memory: what is written is read. *)

LEMMA Moduli ==
  ASSUME ByteBits = 8
  PROVE  Modulus("b") = 256 /\ Modulus("w") = 65536 /\ Modulus("l") = 4294967296
<1>1. 2^16 = 65536 /\ 2^32 = 4294967296
  OBVIOUS
<1>2. ASSUME NEW sz, Bits(sz) = 16 PROVE Modulus(sz) = 65536
  BY <1>1, <1>2 DEF Modulus
<1>3. ASSUME NEW sz, Bits(sz) = 32 PROVE Modulus(sz) = 4294967296
  BY <1>1, <1>3 DEF Modulus
<1>4. Bits("w") = 16 /\ Bits("l") = 32
  BY DEF Bits, Bytes
<1>5. QED BY <1>2, <1>3, <1>4, ByteIs, SMT

\* The bytes of a number are its digits.
LEMMA BytesAre ==
  ASSUME ByteBits = 8, NEW val \in Int
  PROVE  /\ \A k \in 0 .. 3 : ByteOf(val, k) \in 0 .. 255
         /\ ByteOf(val, 0) = Trunc(val, "b")
         /\ ByteOf(val, 1) * 256 + ByteOf(val, 0) = Trunc(val, "w")
         /\ (ByteOf(val, 3) * 256 + ByteOf(val, 2)) * 65536 + (ByteOf(val, 1) * 256 + ByteOf(val, 0))
              = Trunc(val, "l")
<1> DEFINE q0 == val \div 256
           q1 == q0 \div 256
           q2 == q1 \div 256
           q3 == q2 \div 256
           b0 == val % 256
           b1 == q0 % 256
           b2 == q1 % 256
           b3 == q2 % 256
<1>2. val = 256 * q0 + b0 /\ b0 \in 0 .. 255 /\ q0 \in Int
  OBVIOUS
<1> HIDE DEF q0, b0
<1>3. q0 = 256 * q1 + b1 /\ b1 \in 0 .. 255 /\ q1 \in Int
  BY <1>2
<1> HIDE DEF q1, b1
<1>4. q1 = 256 * q2 + b2 /\ b2 \in 0 .. 255 /\ q2 \in Int
  BY <1>3
<1> HIDE DEF q2, b2
<1>5. q2 = 256 * q3 + b3 /\ b3 \in 0 .. 255 /\ q3 \in Int
  BY <1>4
<1> HIDE DEF q3, b3
<1>6. val = 65536 * q1 + (b1 * 256 + b0) /\ b1 * 256 + b0 \in Nat /\ b1 * 256 + b0 < 65536
  BY <1>2, <1>3
<1>7. val = 16777216 * q2 + (b2 * 65536 + b1 * 256 + b0)
      /\ b2 * 65536 + b1 * 256 + b0 \in Nat /\ b2 * 65536 + b1 * 256 + b0 < 16777216
  BY <1>2, <1>3, <1>4, <1>6
<1>8. val = 4294967296 * q3 + ((b3 * 256 + b2) * 65536 + (b1 * 256 + b0))
      /\ (b3 * 256 + b2) * 65536 + (b1 * 256 + b0) \in Nat
      /\ (b3 * 256 + b2) * 65536 + (b1 * 256 + b0) < 4294967296
  BY <1>2, <1>3, <1>4, <1>5, <1>6, <1>7
<1>9. val \div 1 = val /\ val \div 256 = q0 /\ val % 256 = b0
  BY DEF q0, b0
<1>10. ASSUME NEW r \in Nat, r < 65536, val = 65536 * q1 + r
       PROVE  val \div 65536 = q1 /\ val % 65536 = r
  BY <1>3, <1>10
<1>11. val \div 65536 = q1 /\ val % 65536 = b1 * 256 + b0
  BY <1>6, <1>10
<1>12. ASSUME NEW r \in Nat, r < 16777216, val = 16777216 * q2 + r
       PROVE  val \div 16777216 = q2
  BY <1>4, <1>12
<1>13. val \div 16777216 = q2
  BY <1>7, <1>12
<1>14. ASSUME NEW r \in Nat, r < 4294967296, val = 4294967296 * q3 + r
       PROVE  val % 4294967296 = r
  BY <1>5, <1>14
<1>15. val % 4294967296 = (b3 * 256 + b2) * 65536 + (b1 * 256 + b0)
  BY <1>8, <1>14
<1>16. Trunc(val, "b") = val % 256 /\ Trunc(val, "w") = val % 65536 /\ Trunc(val, "l") = val % 4294967296
  BY Moduli DEF Trunc
<1>17. ByteOf(val, 0) = (val \div 256^0) % 256 /\ ByteOf(val, 1) = (val \div 256^1) % 256
       /\ ByteOf(val, 2) = (val \div 256^2) % 256 /\ ByteOf(val, 3) = (val \div 256^3) % 256
  BY ByteIs, Zenon DEF ByteOf
<1>18. ByteOf(val, 0) = b0 /\ ByteOf(val, 1) = b1
  <2>1. 256^0 = 1 /\ 256^1 = 256
    OBVIOUS
  <2>2. QED BY <2>1, <1>9, <1>17 DEF b1
<1>19. ByteOf(val, 2) = b2 /\ ByteOf(val, 3) = b3
  <2>1. 256^2 = 65536 /\ 256^3 = 16777216
    OBVIOUS
  <2>2. QED BY <2>1, <1>11, <1>13, <1>17 DEF b2, b3
<1>20. \A k \in 0 .. 3 : ByteOf(val, k) \in 0 .. 255
  BY <1>2, <1>3, <1>4, <1>5, <1>18, <1>19
<1>21. QED BY <1>9, <1>11, <1>15, <1>16, <1>18, <1>19, <1>20

\* What a number is in the bytes from p.
WordIn(m, p, val) == m[p] = ByteOf(val, 1) /\ m[p + 1] = ByteOf(val, 0)
LongIn(m, p, val) ==
  /\ m[p] = ByteOf(val, 3) /\ m[p + 1] = ByteOf(val, 2)
  /\ m[p + 2] = ByteOf(val, 1) /\ m[p + 3] = ByteOf(val, 0)

\* Addresses that do not wrap around.
LEMMA Ahead ==
  ASSUME NEW a \in Int, NEW p, p = a % AddrSpace, NEW k \in Nat, p + k <= RamTop
  PROVE  (a + k) % AddrSpace = p + k /\ p + k \in Ram /\ p \in Nat
<1>1. AddrSpace \in Nat \ {0} /\ RamTop \in Nat /\ RamTop < AddrSpace
  BY InstructionsAssumption
<1> DEFINE q == a \div AddrSpace
<1>2. q \in Int /\ a = AddrSpace * q + p /\ p \in Nat
  BY <1>1
<1> HIDE DEF q
<1>3. a + k = AddrSpace * q + (p + k) /\ p + k \in 0 .. AddrSpace - 1
  BY <1>1, <1>2
<1>4. (AddrSpace * q + (p + k)) % AddrSpace = p + k
  BY <1>1, <1>2, <1>3, ModIs
<1>5. p + k \in Ram
  BY <1>1, <1>2 DEF Ram
<1>6. QED BY <1>2, <1>3, <1>4, <1>5

\* Room starts at an even address, so words lie at even ones.
LEMMA EvenRoom ==
  ASSUME NEW p, NEW n, Room(p, n), NEW a, a % AddrSpace \in {p, p + 2, p + 4}
  PROVE  ~Odd(a)
<1>1. p \in Nat /\ p % 2 = 0
  BY DEF Room
<1>2. p % 2 = 0 /\ (p + 2) % 2 = 0 /\ (p + 4) % 2 = 0
  BY <1>1
<1>3. QED BY <1>2 DEF Odd

LEMMA ReadsWord ==
  ASSUME ByteBits = 8, NEW t, NEW a \in Int, NEW val \in Int, NEW p, p = a % AddrSpace,
         Room(p, 2), WordIn(t.mem, p, val)
  PROVE  busReadWord(t, a) = Trunc(val, "w")
<1>1. p \in Nat /\ p + 1 <= RamTop /\ RamTop \in Nat /\ p \notin DOMAIN rom
  BY InstructionsAssumption DEF Room
<1>2. a % AddrSpace = p /\ p \in Ram /\ (a + 1) % AddrSpace = p + 1 /\ p + 1 \in Ram
  BY <1>1, Ahead DEF Ram
<1>3. busReadWord(t, a) = ByteOf(val, 1) * Modulus("b") + ByteOf(val, 0)
  <2>1. ~Odd(a)
    BY EvenRoom
  <2>2. QED BY <1>1, <1>2, <2>1, Zenon DEF busReadWord, busReadByte, WordIn
<1>4. Modulus("b") = 256
  BY ByteIs
<1>5. QED BY <1>3, <1>4, BytesAre

LEMMA ReadsLong ==
  ASSUME ByteBits = 8, NEW t, NEW a \in Int, NEW val \in Int, NEW p, p = a % AddrSpace,
         Room(p, 4), LongIn(t.mem, p, val)
  PROVE  busReadLong(t, a) = Trunc(val, "l")
<1>1. /\ p \in Nat /\ p + 1 <= RamTop /\ p + 2 <= RamTop /\ p + 3 <= RamTop /\ RamTop \in Nat
      /\ p \notin DOMAIN rom /\ p + 2 \notin DOMAIN rom
  BY InstructionsAssumption DEF Room
<1>2. /\ a % AddrSpace = p /\ p \in Ram /\ (a + 1) % AddrSpace = p + 1 /\ p + 1 \in Ram
      /\ (a + 2) % AddrSpace = p + 2 /\ p + 2 \in Ram /\ (a + 2 + 1) % AddrSpace = p + 3 /\ p + 3 \in Ram
  <2>1. a + 2 + 1 = a + 3
    OBVIOUS
  <2>2. QED BY <1>1, <2>1, Ahead DEF Ram
<1> ~Odd(a) /\ ~Odd(a + 2)
  BY <1>2, EvenRoom
<1>3. busReadWord(t, a) = ByteOf(val, 3) * Modulus("b") + ByteOf(val, 2)
  BY <1>1, <1>2, Zenon DEF busReadWord, busReadByte, LongIn
<1>4. busReadWord(t, a + 2) = ByteOf(val, 1) * Modulus("b") + ByteOf(val, 0)
  BY <1>1, <1>2, Zenon DEF busReadWord, busReadByte, LongIn
<1>5. Modulus("b") = 256 /\ Modulus("w") = 65536
  BY Moduli
<1>6. busReadLong(t, a) = (ByteOf(val, 3) * 256 + ByteOf(val, 2)) * 65536 + (ByteOf(val, 1) * 256 + ByteOf(val, 0))
  BY <1>3, <1>4, <1>5, SMT DEF busReadLong
<1>7. QED BY <1>6, BytesAre, SMT

\* The bytes from first to last were written, and nothing else.
Written(s, t, first, last, val) ==
  /\ t.a = s.a /\ t.d = s.d /\ t.sr = s.sr /\ t.pc = s.pc /\ t.usp = s.usp /\ t.ssp = s.ssp
  /\ t.stopped = s.stopped
  /\ \A b \in Ram : b \in first .. last => t.mem[b] = ByteOf(val, last - b)
  /\ \A b \in Ram : b \notin first .. last => t.mem[b] = s.mem[b]

LEMMA Writes ==
  ASSUME NEW s, IsCpu(s), NEW a, NEW val, NEW sz, sz = "b" \/ ~Odd(a)
  PROVE  /\ Written(s, busWrite(s, a, val, sz), a % AddrSpace, (a % AddrSpace) + Bytes(sz) - 1, val)
         /\ IsCpu(busWrite(s, a, val, sz))
<1> DEFINE first == a % AddrSpace
           last == first + Bytes(sz) - 1
           m == [b \in Ram |-> IF b \in first .. last THEN ByteOf(val, last - b) ELSE s.mem[b]]
           t == [s EXCEPT !.mem = m]
<1>1. busWrite(s, a, val, sz) = t
  BY Zenon DEF busWrite, WithBytes
<1> HIDE DEF last
<1>2. /\ DOMAIN m = Ram
      /\ \A b \in Ram : b \in first .. last => m[b] = ByteOf(val, last - b)
      /\ \A b \in Ram : b \notin first .. last => m[b] = s.mem[b]
  OBVIOUS
<1> HIDE DEF m
<1>3. IsCpu(t)
  BY <1>2 DEF IsCpu
<1>4. t.mem = m /\ t.a = s.a /\ t.d = s.d /\ t.sr = s.sr /\ t.pc = s.pc /\ t.usp = s.usp /\ t.ssp = s.ssp
      /\ t.stopped = s.stopped
  BY Zenon DEF IsCpu
<1> HIDE DEF t
<1>5. Written(s, t, first, last, val)
  BY <1>2, <1>4, Zenon DEF Written
<1>6. QED BY <1>1, <1>3, <1>5, Zenon DEF last

LEMMA WrittenIn ==
  ASSUME NEW s, NEW t, NEW p \in Nat, NEW val
  PROVE  /\ p + 1 <= RamTop /\ Written(s, t, p, p + 1, val) => WordIn(t.mem, p, val)
         /\ p + 3 <= RamTop /\ Written(s, t, p, p + 3, val) => LongIn(t.mem, p, val)
<1>1. ASSUME NEW last \in Nat, last <= RamTop, Written(s, t, p, last, val), NEW k \in p .. last
      PROVE  t.mem[k] = ByteOf(val, last - k)
  BY <1>1, InstructionsAssumption DEF Written, Ram
<1>2. /\ p + 1 - p = 1 /\ p + 1 - (p + 1) = 0 /\ p + 1 \in Nat /\ p \in p .. p + 1 /\ p + 1 \in p .. p + 1
  OBVIOUS
<1>3. ASSUME p + 1 <= RamTop, Written(s, t, p, p + 1, val) PROVE WordIn(t.mem, p, val)
  <2>1. t.mem[p] = ByteOf(val, p + 1 - p) /\ t.mem[p + 1] = ByteOf(val, p + 1 - (p + 1))
    BY <1>1, <1>2, <1>3
  <2>2. QED BY <1>2, <2>1, Zenon DEF WordIn
<1>4. /\ p + 3 - p = 3 /\ p + 3 - (p + 1) = 2 /\ p + 3 - (p + 2) = 1 /\ p + 3 - (p + 3) = 0 /\ p + 3 \in Nat
      /\ p \in p .. p + 3 /\ p + 1 \in p .. p + 3 /\ p + 2 \in p .. p + 3 /\ p + 3 \in p .. p + 3
  OBVIOUS
<1>5. ASSUME p + 3 <= RamTop, Written(s, t, p, p + 3, val) PROVE LongIn(t.mem, p, val)
  <2>1. /\ t.mem[p] = ByteOf(val, p + 3 - p) /\ t.mem[p + 1] = ByteOf(val, p + 3 - (p + 1))
        /\ t.mem[p + 2] = ByteOf(val, p + 3 - (p + 2)) /\ t.mem[p + 3] = ByteOf(val, p + 3 - (p + 3))
    BY <1>1, <1>4, <1>5
  <2>2. QED BY <1>4, <2>1, Zenon DEF LongIn
<1>6. QED BY <1>3, <1>5

LEMMA Congruent ==
  ASSUME NEW n \in Nat \ {0}, NEW x \in Int, NEW k \in Int
  PROVE  (x + n * k) % n = x % n
<1> DEFINE q == x \div n
           r == x % n
<1>1. q \in Int /\ r \in 0 .. n - 1 /\ x = n * q + r
  OBVIOUS
<1> HIDE DEF q, r
<1>2. n * q + r + n * k = n * (q + k) + r
  BY <1>1
<1>3. (n * (q + k) + r) % n = r /\ (n * q + r) % n = r
  BY <1>1, ModIs
<1>4. QED BY <1>1, <1>2, <1>3

\* A remainder of a multiple of n is as good as the number, to a sum taken modulo n.
LEMMA CutFirst ==
  ASSUME NEW m \in Nat \ {0}, NEW n \in Nat \ {0}, m % n = 0, NEW x \in Int, NEW y \in Int
  PROVE  ((x % m) + y) % n = (x + y) % n
<1> DEFINE q == x \div m
           r == x % m
           k == m \div n
<1>1. q \in Int /\ r \in Int /\ x = m * q + r
  OBVIOUS
<1>2. k \in Int /\ m = n * k
  OBVIOUS
<1> HIDE DEF q, r, k
<1>3. m * q = n * (k * q) /\ k * q \in Int
  BY <1>1, <1>2
<1> DEFINE j == k * q
<1>4. x = n * j + r /\ j \in Int
  BY <1>1, <1>3
<1> HIDE DEF j
<1>5. r + y \in Int /\ x + y = (r + y) + n * j
  BY <1>1, <1>4
<1>6. (r + y) % n = (x + y) % n
  <2>1. ((r + y) + n * j) % n = (r + y) % n
    BY <1>4, <1>5, Congruent
  <2>2. QED BY <1>5, <2>1
<1>7. QED BY <1>6, Zenon DEF r

LEMMA LongCut ==
  ASSUME ByteBits = 8, NEW x \in Int, NEW y \in Int
  PROVE  /\ (Trunc(x, "l") + y) % AddrSpace = (x + y) % AddrSpace
         /\ Trunc(Trunc(x, "l") + y, "l") = Trunc(x + y, "l")
         /\ Trunc(x, "l") \in Int /\ Trunc(x, "l") % AddrSpace = x % AddrSpace
<1> DEFINE m == Modulus("l")
<1>1. m \in Nat \ {0}
  BY Moduli
<1>2. AddrSpace \in Nat \ {0} /\ m % AddrSpace = 0
  BY InstructionsAssumption
<1> HIDE DEF m
<1>3. m % m = 0 /\ x % m \in Int
  <2>1. (m * 1 + 0) % m = 0
    BY <1>1, ModIs
  <2>2. QED BY <2>1, <1>1
<1>4. ((x % m) + y) % AddrSpace = (x + y) % AddrSpace /\ ((x % m) + 0) % AddrSpace = (x + 0) % AddrSpace
  <2>1. 0 \in Int
    OBVIOUS
  <2>2. ASSUME NEW z \in Int PROVE ((x % m) + z) % AddrSpace = (x + z) % AddrSpace
    BY <1>1, <1>2, CutFirst
  <2>3. QED BY <2>1, <2>2, Zenon
<1>5. ((x % m) + y) % m = (x + y) % m
  BY <1>1, <1>3, CutFirst
<1>6. (x % m) + 0 = x % m /\ x + 0 = x
  BY <1>3
<1>7. QED BY <1>3, <1>4, <1>5, <1>6, Zenon DEF m, Trunc

\* A push lowers A7 and writes below it, and nothing else.
Pushed(s, t, n) ==
  /\ IsCpu(t) /\ t.a = [s.a EXCEPT ![7] = Trunc(s.a[7] - n, "l")]
  /\ t.d = s.d /\ t.sr = s.sr /\ t.pc = s.pc /\ t.usp = s.usp /\ t.ssp = s.ssp /\ t.stopped = s.stopped
  /\ \A b \in Ram : b \notin (s.a[7] - n) % AddrSpace .. ((s.a[7] - n) % AddrSpace) + n - 1 => t.mem[b] = s.mem[b]

LEMMA PushesLong ==
  ASSUME NEW s, IsCpu(s), NEW val, ~Odd(s.a[7] - 4)
  PROVE  LET t == pushLong(s, val)
             p == (s.a[7] - 4) % AddrSpace
         IN  Pushed(s, t, 4) /\ (p \in Nat /\ p + 3 <= RamTop => LongIn(t.mem, p, val))
<1> DEFINE u == [s EXCEPT !.a[7] = Trunc(s.a[7] - 4, "l")]
           t == busWrite(u, s.a[7] - 4, val, "l")
           p == (s.a[7] - 4) % AddrSpace
<1>1. IsCpu(u) /\ u.a = [s.a EXCEPT ![7] = Trunc(s.a[7] - 4, "l")] /\ u.d = s.d /\ u.sr = s.sr /\ u.pc = s.pc
      /\ u.usp = s.usp /\ u.ssp = s.ssp /\ u.stopped = s.stopped /\ u.mem = s.mem
  <2>1. IsCpu(u)
    BY SetCpu, Zenon
  <2>2. QED BY <2>1 DEF IsCpu
<1>2. pushLong(s, val) = t
  BY DEF pushLong
<1>3. Bytes("l") = 4
  BY DEF Bytes
<1> HIDE DEF u, p
<1>4. IsCpu(t) /\ Written(u, t, p, p + 4 - 1, val)
  BY <1>1, <1>3, Writes, Zenon DEF p
<1> HIDE DEF t
<1>5. Pushed(s, t, 4)
  BY <1>1, <1>4, Zenon DEF Pushed, Written, p
<1>6. ASSUME p \in Nat, p + 3 <= RamTop PROVE LongIn(t.mem, p, val)
  <2>1. p + 4 - 1 = p + 3
    BY <1>6
  <2>2. QED BY <1>4, <1>6, <2>1, WrittenIn
<1>7. QED BY <1>2, <1>5, <1>6, Zenon DEF p

LEMMA PushesWord ==
  ASSUME NEW s, IsCpu(s), NEW val, ~Odd(s.a[7] - 2)
  PROVE  LET t == pushWord(s, val)
             p == (s.a[7] - 2) % AddrSpace
         IN  Pushed(s, t, 2) /\ (p \in Nat /\ p + 1 <= RamTop => WordIn(t.mem, p, val))
<1> DEFINE u == [s EXCEPT !.a[7] = Trunc(s.a[7] - 2, "l")]
           t == busWrite(u, s.a[7] - 2, val, "w")
           p == (s.a[7] - 2) % AddrSpace
<1>1. IsCpu(u) /\ u.a = [s.a EXCEPT ![7] = Trunc(s.a[7] - 2, "l")] /\ u.d = s.d /\ u.sr = s.sr /\ u.pc = s.pc
      /\ u.usp = s.usp /\ u.ssp = s.ssp /\ u.stopped = s.stopped /\ u.mem = s.mem
  <2>1. IsCpu(u)
    BY SetCpu, Zenon
  <2>2. QED BY <2>1 DEF IsCpu
<1>2. pushWord(s, val) = t
  BY DEF pushWord
<1>3. Bytes("w") = 2
  BY DEF Bytes
<1> HIDE DEF u, p
<1>4. IsCpu(t) /\ Written(u, t, p, p + 2 - 1, val)
  BY <1>1, <1>3, Writes, Zenon DEF p
<1> HIDE DEF t
<1>5. Pushed(s, t, 2)
  BY <1>1, <1>4, Zenon DEF Pushed, Written, p
<1>6. ASSUME p \in Nat, p + 1 <= RamTop PROVE WordIn(t.mem, p, val)
  <2>1. p + 2 - 1 = p + 1
    BY <1>6
  <2>2. QED BY <1>4, <1>6, <2>1, WrittenIn
<1>7. QED BY <1>2, <1>5, <1>6, Zenon DEF p

----------------------------------------------------------------------------
(* An exception and its frame *)

Entered(s) == [cpuSetSupervisor(s, TRUE) EXCEPT !.sr.t = FALSE]

LEMMA EnteredIs ==
  ASSUME NEW s, IsCpu(s)
  PROVE  LET d == Entered(s)
         IN  /\ IsCpu(d) /\ d.a[7] = Top(s) /\ SystemByte(d.sr) = <<FALSE, TRUE, s.sr.ipl>>
             /\ d.pc = s.pc /\ d.ssp = s.ssp /\ d.stopped = s.stopped /\ d.mem = s.mem /\ d.d = s.d
             /\ d.erred = s.erred
             /\ d.usp = IF s.sr.s THEN s.usp ELSE s.a[7]
             /\ \A r \in 0 .. 6 : d.a[r] = s.a[r]
<1>1. IsCpu(Entered(s))
  BY SupervisorCpu, SetCpu, Zenon DEF Entered
<1>2. CASE s.sr.s
  <2>1. Entered(s) = [s EXCEPT !.sr = [s.sr EXCEPT !.t = FALSE]]
    BY <1>2 DEF Entered, cpuSetSupervisor
  <2>2. QED BY <1>1, <1>2, <2>1 DEF IsCpu, IsSr, FlagNames, SystemByte, Top
<1>3. CASE ~ s.sr.s
  <2> DEFINE r == [[s.sr EXCEPT !.s = TRUE] EXCEPT !.t = FALSE]
             e == [s EXCEPT !.usp = s.a[7], !.a = [s.a EXCEPT ![7] = s.ssp], !.sr = r]
  <2>1. Entered(s) = e
    BY <1>3 DEF Entered, cpuSetSupervisor, IsCpu
  <2>2. SystemByte(r) = <<FALSE, TRUE, s.sr.ipl>>
    BY DEF IsCpu, IsSr, FlagNames, SystemByte
  <2> HIDE DEF r
  <2>3. e.sr = r /\ e.a = [s.a EXCEPT ![7] = s.ssp] /\ e.usp = s.a[7] /\ e.pc = s.pc /\ e.ssp = s.ssp
        /\ e.stopped = s.stopped /\ e.mem = s.mem /\ e.d = s.d /\ e.erred = s.erred
    BY DEF IsCpu
  <2> HIDE DEF e
  <2>4. e.a[7] = s.ssp /\ \A k \in 0 .. 6 : e.a[k] = s.a[k]
    BY <2>3 DEF IsCpu
  <2>5. QED BY <1>1, <1>3, <2>1, <2>2, <2>3, <2>4 DEF Top
<1>4. QED BY <1>2, <1>3

\* What an exception does, whatever its stack lies on.
LEMMA ExceptionIs ==
  ASSUME NEW s, IsCpu(s), NEW vec
  PROVE  LET t == exceptionProcess(s, vec)
         IN  /\ IsCpu(t) /\ SystemByte(t.sr) = <<FALSE, TRUE, s.sr.ipl>>
             /\ t.pc = Vectors[vec] % AddrSpace /\ t.ssp = s.ssp /\ t.stopped = s.stopped
             /\ s.erred => t.erred
<1> DEFINE d == Entered(s)
           u == pushWord(pushLong(d, s.pc), Encode(s.sr))
           t == [u EXCEPT !.pc = Vectors[vec] % AddrSpace]
<1>1. exceptionProcess(s, vec) = t
  BY Zenon DEF exceptionProcess, Entered
<1>2. /\ IsCpu(d) /\ SystemByte(d.sr) = <<FALSE, TRUE, s.sr.ipl>> /\ d.ssp = s.ssp
      /\ d.stopped = s.stopped /\ d.erred = s.erred
  BY EnteredIs, Zenon
<1>3. ModeKept(d, u)
  BY <1>2, KeptSelf, RegistersKept, KeptIs, Zenon
<1> HIDE DEF d, u
<1>4. d.sr.ipl = s.sr.ipl
  BY <1>2 DEF SystemByte
<1>5. /\ IsCpu(u) /\ SystemByte(u.sr) = <<FALSE, TRUE, s.sr.ipl>> /\ u.ssp = s.ssp /\ u.stopped = s.stopped
      /\ s.erred => u.erred
  BY <1>2, <1>3, <1>4 DEF ModeKept, SameByte
<1>6. /\ IsCpu(t) /\ t.sr = u.sr /\ t.ssp = u.ssp /\ t.stopped = u.stopped /\ t.erred = u.erred
      /\ t.pc = Vectors[vec] % AddrSpace
  <2>1. IsCpu(t)
    BY <1>5, SetCpu, Zenon
  <2>2. QED BY <1>5, <2>1 DEF IsCpu
<1> HIDE DEF t
<1>7. QED BY <1>1, <1>5, <1>6

\* Six bytes of room hold the frame: the status word, and the PC above it.
LEMMA FrameIs ==
  ASSUME ByteBits = 8, NEW s, IsCpu(s), NEW vec, NEW top, top = Top(s), RoomBelow(top, 6),
         NEW p, p = (top - 6) % AddrSpace
  PROVE  LET t == exceptionProcess(s, vec)
         IN  /\ Room(p, 6) /\ WordIn(t.mem, p, Encode(s.sr)) /\ LongIn(t.mem, p + 2, s.pc)
             /\ t.a[7] = Trunc(top - 6, "l") /\ \A r \in 0 .. 6 : t.a[r] = s.a[r]
             /\ t.d = s.d /\ t.usp = IF s.sr.s THEN s.usp ELSE s.a[7]
<1> DEFINE d == Entered(s)
           l == pushLong(d, s.pc)
           u == pushWord(l, Encode(s.sr))
           t == [u EXCEPT !.pc = Vectors[vec] % AddrSpace]
<1>1. exceptionProcess(s, vec) = t
  BY Zenon DEF exceptionProcess, Entered
<1>2. /\ IsCpu(d) /\ d.a[7] = top /\ \A r \in 0 .. 6 : d.a[r] = s.a[r]
      /\ d.d = s.d /\ d.usp = IF s.sr.s THEN s.usp ELSE s.a[7]
  BY EnteredIs
<1>3. top \in Int /\ p \in Nat /\ p + 5 <= RamTop /\ RamTop \in Nat
  BY InstructionsAssumption DEF RoomBelow, Room
<1>4. Room(p, 6)
  BY <1>3 DEF RoomBelow, Room
<1>5. (top - 4) % AddrSpace = p + 2
  <2>1. top - 6 \in Int /\ top - 6 + 2 = top - 4 /\ p + 2 <= RamTop /\ 2 \in Nat
    BY <1>3
  <2>2. QED BY <2>1, Ahead
<1>6. Pushed(d, l, 4) /\ LongIn(l.mem, p + 2, s.pc)
  <2>1. (d.a[7] - 4) % AddrSpace = p + 2 /\ p + 2 \in Nat /\ p + 2 + 3 <= RamTop
    BY <1>2, <1>3, <1>5
  <2>2. ~Odd(d.a[7] - 4)
    BY <1>4, <2>1, EvenRoom
  <2>3. QED BY <1>2, <2>1, <2>2, PushesLong
<1>7. l.a[7] = Trunc(top - 4, "l") /\ \A r \in 0 .. 6 : l.a[r] = s.a[r]
  BY <1>2, <1>6 DEF Pushed, IsCpu
<1>8. (l.a[7] - 2) % AddrSpace = p /\ Trunc(l.a[7] - 2, "l") = Trunc(top - 6, "l")
  <2> DEFINE c == Trunc(top - 4, "l")
  <2>1. c \in Int /\ (c + (-2)) % AddrSpace = (top - 4 + (-2)) % AddrSpace
        /\ Trunc(c + (-2), "l") = Trunc(top - 4 + (-2), "l")
    <3>1. \A x, y \in Int : /\ Trunc(x, "l") \in Int /\ (Trunc(x, "l") + y) % AddrSpace = (x + y) % AddrSpace
                             /\ Trunc(Trunc(x, "l") + y, "l") = Trunc(x + y, "l")
      BY LongCut, Zenon
    <3>2. top - 4 \in Int /\ -2 \in Int
      BY <1>3
    <3>3. QED BY <3>1, <3>2, Zenon
  <2> HIDE DEF c
  <2>2. c + (-2) = c - 2 /\ top - 4 + (-2) = top - 6
    BY <1>3, <2>1
  <2>3. QED BY <1>7, <2>1, <2>2 DEF c
<1>9. IsCpu(l) /\ Pushed(l, u, 2) /\ WordIn(u.mem, p, Encode(s.sr))
  <2>1. IsCpu(l) /\ p + 1 <= RamTop
    BY <1>3, <1>6 DEF Pushed
  <2>2. ~Odd(l.a[7] - 2)
    BY <1>4, <1>8, EvenRoom
  <2>3. QED BY <1>3, <1>8, <2>1, <2>2, PushesWord
<1>10. LongIn(u.mem, p + 2, s.pc)
  <2>1. \A b \in Ram : b \notin p .. p + 2 - 1 => u.mem[b] = l.mem[b]
    BY <1>8, <1>9 DEF Pushed
  <2>2. \A k \in {p + 2, p + 2 + 1, p + 2 + 2, p + 2 + 3} : k \in Ram /\ k \notin p .. p + 2 - 1
    BY <1>3 DEF Ram
  <2> HIDE DEF u, l
  <2>3. \A k \in {p + 2, p + 2 + 1, p + 2 + 2, p + 2 + 3} : u.mem[k] = l.mem[k]
    BY <2>1, <2>2, Zenon
  <2>4. QED BY <1>6, <2>3, Zenon DEF LongIn
<1>11. u.a[7] = Trunc(top - 6, "l") /\ \A r \in 0 .. 6 : u.a[r] = s.a[r]
  BY <1>7, <1>8, <1>9 DEF Pushed, IsCpu
<1>12. t.a = u.a /\ t.mem = u.mem
  <2>1. IsCpu(u)
    BY <1>9, Zenon DEF Pushed
  <2> HIDE DEF u
  <2>2. QED BY <2>1 DEF IsCpu
<1>13. t.d = s.d /\ t.usp = IF s.sr.s THEN s.usp ELSE s.a[7]
  <2>1. IsCpu(u) /\ u.d = s.d /\ u.usp = d.usp
    BY <1>2, <1>6, <1>9, Zenon DEF Pushed
  <2> HIDE DEF u, d
  <2>2. t.d = u.d /\ t.usp = u.usp
    BY <2>1 DEF IsCpu
  <2>3. QED BY <1>2, <2>1, <2>2
<1> HIDE DEF t, u
<1>14. QED BY <1>1, <1>4, <1>9, <1>10, <1>11, <1>12, <1>13

LEMMA WordCut ==
  ASSUME ByteBits = 8, NEW sr, IsSr(sr)
  PROVE  Trunc(Encode(sr), "w") = Encode(sr)
<1>1. Encode(sr) \in Nat /\ Encode(sr) < 65536
  BY EncodeBits
<1>2. ASSUME NEW w \in Nat, w < 65536 PROVE w % 65536 = w
  BY <1>2
<1>3. QED BY <1>1, <1>2, Moduli DEF Trunc

\* What is read from the frame is what was pushed.
LEMMA FrameRead ==
  ASSUME ByteBits = 8, NEW s, IsCpu(s), NEW vec, NEW top, top = Top(s), RoomBelow(top, 6)
  PROVE  LET t == exceptionProcess(s, vec)
         IN  /\ t.a[7] = Trunc(top - 6, "l") /\ t.a[7] \in Int
             /\ busReadWord(t, t.a[7]) = Encode(s.sr)
             /\ s.pc \in Int => busReadLong(t, t.a[7] + 2) = Trunc(s.pc, "l")
<1> DEFINE t == exceptionProcess(s, vec)
           p == (top - 6) % AddrSpace
           a == Trunc(top - 6, "l")
<1>1. Room(p, 6) /\ WordIn(t.mem, p, Encode(s.sr)) /\ LongIn(t.mem, p + 2, s.pc) /\ t.a[7] = a
  BY FrameIs
<1>2. top \in Int /\ p \in Nat /\ p + 5 <= RamTop /\ RamTop \in Nat
  BY InstructionsAssumption DEF RoomBelow, Room
<1>3. a \in Int /\ a % AddrSpace = p /\ (a + 2) % AddrSpace = p + 2
  <2>1. a \in Int /\ a % AddrSpace = p
    BY <1>2, LongCut
  <2> HIDE DEF a, p
  <2>2. 2 \in Nat /\ p + 2 <= RamTop
    BY <1>2
  <2>3. QED BY <2>1, <2>2, Ahead
<1> HIDE DEF t, p, a
<1>4. Room(p, 2) /\ Room(p + 2, 4)
  BY <1>1, <1>2 DEF Room
<1>5. busReadWord(t, a) = Encode(s.sr)
  <2>1. Encode(s.sr) \in Int /\ Trunc(Encode(s.sr), "w") = Encode(s.sr)
    BY EncodeBits, WordCut DEF IsCpu
  <2>2. QED BY <1>1, <1>3, <1>4, <2>1, ReadsWord
<1>6. ASSUME s.pc \in Int PROVE busReadLong(t, a + 2) = Trunc(s.pc, "l")
  <2>1. a + 2 \in Int /\ p + 2 = (a + 2) % AddrSpace
    BY <1>3
  <2>2. QED BY <1>1, <1>4, <1>6, <2>1, ReadsLong
<1>7. QED BY <1>1, <1>3, <1>5, <1>6 DEF t, a

\* An exception that a user takes, and one after the address error in the same instruction.
LEMMA UserTraps ==
  ASSUME ByteBits = 8, TypeOK, ~ cpu.sr.s, Traps(Fetched(cpu), cpu', VectorsAhead)
  PROVE  UserTrapped \/ UserErred
<1>1. PICK u, v : /\ v \in VectorsAhead /\ ModeKept(Fetched(cpu), u)
                  /\ cpu' = exceptionProcess(u, v)
  BY Zenon DEF Traps
<1>2. /\ IsCpu(u) /\ u.ssp = cpu.ssp /\ u.stopped = cpu.stopped
      /\ \/ SystemByte(u.sr) = SystemByte(cpu.sr)
         \/ u.erred /\ SystemByte(u.sr) = <<FALSE, TRUE, cpu.sr.ipl>>
  <2>1. Fetched(cpu).sr = cpu.sr /\ Fetched(cpu).ssp = cpu.ssp /\ Fetched(cpu).stopped = cpu.stopped
    BY FetchedKept, Zenon DEF TypeOK
  <2> DEFINE s == Fetched(cpu)
  <2> HIDE DEF s
  <2>2. ModeKept(s, u) /\ s.sr = cpu.sr /\ s.ssp = cpu.ssp /\ s.stopped = cpu.stopped
    BY <1>1, <2>1 DEF s
  <2>3. QED BY <2>2, Zenon DEF ModeKept, SameByte
<1>3. u.sr.ipl = cpu.sr.ipl
  BY <1>2 DEF SystemByte
<1>4. UserEntered /\ AtVector /\ (u.erred => cpu'.erred)
  <2>1. \A vec : LET t == exceptionProcess(u, vec)
                IN  /\ SystemByte(t.sr) = <<FALSE, TRUE, u.sr.ipl>> /\ t.ssp = u.ssp
                    /\ t.stopped = u.stopped /\ t.pc = Vectors[vec] % AddrSpace
                    /\ u.erred => t.erred
    BY <1>2, ExceptionIs, Zenon
  <2>2. /\ SystemByte(cpu'.sr) = <<FALSE, TRUE, cpu.sr.ipl>> /\ cpu'.ssp = cpu.ssp
        /\ cpu'.stopped = cpu.stopped /\ cpu'.pc = Vectors[v] % AddrSpace /\ (u.erred => cpu'.erred)
    BY <1>1, <1>2, <1>3, <2>1, Zenon
  <2>3. QED BY <1>1, <2>2, Zenon DEF UserEntered, AtVector
<1>5. CASE u.erred
  BY <1>4, <1>5, Zenon DEF UserErred
<1>6. CASE ~u.erred
  <2>1. SystemByte(u.sr) = SystemByte(cpu.sr)
    BY <1>2, <1>6
  <2>2. u.sr.s = cpu.sr.s
    BY <2>1 DEF SystemByte
  <2>3. ASSUME RoomBelow(cpu.ssp, 6)
        PROVE  /\ cpu'.a[7] = Trunc(cpu.ssp - 6, "l")
               /\ SystemByte(Decode(busReadWord(cpu', cpu'.a[7]))) = SystemByte(cpu.sr)
    <3>1. cpu.ssp = Top(u)
      BY <1>2, <2>2 DEF Top
    <3>2. cpu'.a[7] = Trunc(cpu.ssp - 6, "l") /\ busReadWord(cpu', cpu'.a[7]) = Encode(u.sr)
      BY <1>1, <1>2, <2>3, <3>1, FrameRead
    <3>3. SameByte(u.sr, Decode(Encode(u.sr)))
      BY <1>2, ByteDecoded, Zenon DEF IsCpu
    <3>4. QED BY <2>1, <3>2, <3>3 DEF SameByte
  <2>4. QED BY <1>4, <2>3, Zenon DEF UserTrapped
<1>7. QED BY <1>5, <1>6

\* An instruction without an exception at its end: the user's, or on the way to the handler.
LEMMA UserKeeps ==
  ASSUME TypeOK, ~cpu.sr.s, ModeKept(Fetched(cpu), cpu'),
         cpu'.erred => cpu'.crashed \/ SetsPc \/ AtHandler
  PROVE  UserKept \/ UserErred \/ cpu'.crashed
<1> DEFINE s == Fetched(cpu)
<1>1. s.sr = cpu.sr /\ s.ssp = cpu.ssp /\ s.usp = cpu.usp /\ s.stopped = cpu.stopped
  BY FetchedKept, Zenon DEF TypeOK
<1>2. ModeKept(s, cpu')
  OBVIOUS
<1> HIDE DEF s
<1>3. CASE SameByte(s.sr, cpu'.sr) /\ cpu'.usp = s.usp
  BY <1>1, <1>2, <1>3, Zenon DEF ModeKept, SameByte, UserKept
<1>4. CASE cpu'.erred /\ SystemByte(cpu'.sr) = <<FALSE, TRUE, s.sr.ipl>>
  BY <1>1, <1>2, <1>4, Zenon DEF ModeKept, UserEntered, UserErred
<1>5. QED BY <1>2, <1>3, <1>4, Zenon DEF ModeKept

\* What one step of Next keeps.
LEMMA NextKept ==
  ASSUME ByteBits = 8, TypeOK, CodesGiven, Next
  PROVE  TypeOK' /\ (~ cpu.sr.s => UserKept \/ UserTrapped \/ UserErred \/ cpu'.crashed)
<1>1. CASE Wait
  BY <1>1, Zenon DEF Wait, TypeOK, IsCpu, UserKept
<1>2. CASE ~ Wait
  <2>1. StepLawful
    BY <1>2, InstructionLawful, Zenon
  <2>2. Fetched(cpu).sr = cpu.sr /\ ~Fetched(cpu).erred
    BY FetchedKept, Zenon DEF TypeOK
  <2>3. IsCpu(cpu')
    BY <2>1, Zenon DEF StepLawful, Lawful, ModeKept
  <2>4. ASSUME ~cpu.sr.s, Kept(Fetched(cpu), cpu') PROVE UserKept \/ UserErred \/ cpu'.crashed
    <3>1. ModeKept(Fetched(cpu), cpu') /\ Handled(cpu')
      BY <2>2, <2>4, KeptIs, Zenon
    <3>2. cpu'.erred => cpu'.crashed \/ AtHandler
      BY <3>1, Zenon DEF Handled, AtHandler
    <3>3. QED BY <2>4, <3>1, <3>2, UserKeeps, Zenon
  <2>5. ASSUME ~cpu.sr.s, ModeKept(Fetched(cpu), cpu'), SetsPc \/ (Facing("Move") /\ HandledBehind(cpu'))
        PROVE  UserKept \/ UserErred \/ cpu'.crashed
    <3>1. Facing("Move") /\ HandledBehind(cpu') => (cpu'.erred => cpu'.crashed \/ AtHandler)
      BY DEF HandledBehind, AtHandler
    <3>2. QED BY <2>5, <3>1, UserKeeps, Zenon
  <2>6. ~cpu.sr.s => UserKept \/ UserTrapped \/ UserErred \/ cpu'.crashed
    BY <2>1, <2>2, <2>4, <2>5, UserTraps, Zenon DEF StepLawful, Lawful
  <2>7. QED BY <2>3, <2>6, Zenon DEF TypeOK
<1>3. QED BY <1>1, <1>2

\* Whatever code is run, the registers stay registers and the system byte a system byte:
\* no handler writes a mask above 7 or a mode that is not one.
THEOREM TypeCorrect ==
  ASSUME ByteBits = 8
  PROVE  Spec /\ []CodesGiven => []TypeOK
<1>1. TypeOK /\ CodesGiven /\ [Next]_vars => TypeOK'
  BY NextKept, Zenon DEF vars, TypeOK, IsCpu
<1>2. QED BY <1>1, PTL DEF Spec

\* system.c, logic.c, branch.c, exceptions.c, bus.c: no code that a user runs changes the system
\* byte, a stack pointer of the other mode or the stop, but by an exception, whose frame is on the
\* supervisor's stack and has the system byte it came from, or by an address error in the middle
\* of an instruction, which then ends at the handler, at the vector of a second exception, or, if
\* it is BSR, JSR, RTS or RTR, in supervisor mode wherever it goes.
THEOREM PrivilegeCorrect ==
  ASSUME ByteBits = 8
  PROVE  Spec /\ []CodesGiven => PrivilegeKept
<1>1. TypeOK /\ CodesGiven /\ [Next]_vars
        => [~ cpu.sr.s => UserKept \/ UserTrapped \/ UserErred \/ cpu'.crashed]_vars
  BY NextKept, Zenon DEF vars
<1>2. Spec /\ []CodesGiven => []TypeOK
  BY TypeCorrect
<1>3. QED BY <1>1, <1>2, PTL DEF Spec, PrivilegeKept

----------------------------------------------------------------------------
(* What is pushed is popped. *)

LEMMA DecodeEncode ==
  ASSUME ByteBits = 8, NEW sr, IsSr(sr), \A f \in FlagNames : sr[f] \in BOOLEAN,
         sr = [f \in DOMAIN sr |-> sr[f]]
  PROVE  Decode(Encode(sr)) = sr
<1> DEFINE w == Encode(sr)
           q == Decode(w)
           D == {"t", "s", "ipl"} \cup FlagNames
<1>1. /\ (Bit(w, 15) = 1 <=> sr.t) /\ (Bit(w, 13) = 1 <=> sr.s)
      /\ (Bit(w, 4) = 1 <=> sr.x) /\ (Bit(w, 3) = 1 <=> sr.n)
      /\ (Bit(w, 2) = 1 <=> sr.z) /\ (Bit(w, 1) = 1 <=> sr.v) /\ (Bit(w, 0) = 1 <=> sr.c)
  BY EncodeBits
<1>2. TBit = 15 /\ SBit = 13
  BY DEF TBit, SBit
<1>3. /\ q.t = (Bit(w, 15) = 1) /\ q.s = (Bit(w, 13) = 1) /\ q.x = (Bit(w, 4) = 1) /\ q.n = (Bit(w, 3) = 1)
      /\ q.z = (Bit(w, 2) = 1) /\ q.v = (Bit(w, 1) = 1) /\ q.c = (Bit(w, 0) = 1)
  BY <1>2, DecodeIs
<1>4. q.ipl = sr.ipl
  <2>1. SameByte(sr, q)
    BY ByteDecoded, Zenon
  <2>2. QED BY <2>1 DEF SameByte, SystemByte
<1>5. DOMAIN q = D /\ DOMAIN sr = D
  BY DecodeIs, Zenon DEF IsSr
<1>6. q = [f \in DOMAIN q |-> q[f]]
  <2>1. ASSUME NEW r PROVE Ccr(r, w) = [f \in DOMAIN Ccr(r, w) |-> Ccr(r, w)[f]]
    BY <2>1 DEF Ccr
  <2>2. PICK r : q = Ccr(r, w)
    BY DecodeIs, Zenon
  <2>3. QED BY <2>1, <2>2, Zenon
<1> HIDE DEF w, q
<1>7. sr.t \in BOOLEAN /\ sr.s \in BOOLEAN
  BY DEF IsSr
<1>8. \A f \in D : q[f] = sr[f]
  BY <1>1, <1>3, <1>4, <1>7 DEF FlagNames
<1>9. QED BY <1>5, <1>6, <1>8, Zenon DEF q, w

\* A register that is raised by what it was lowered by.
LEMMA Raised ==
  ASSUME ByteBits = 8, NEW x \in LongValue, NEW n \in Int
  PROVE  Trunc(Trunc(x - n, "l") + n, "l") = x
<1>1. x \in Int /\ x - n \in Int /\ x - n + n = x
  BY Moduli DEF LongValue
<1>2. Trunc(Trunc(x - n, "l") + n, "l") = Trunc(x - n + n, "l")
  BY <1>1, LongCut
<1>3. Trunc(x, "l") = x
  BY Moduli DEF LongValue, Trunc
<1>4. QED BY <1>1, <1>2, <1>3

\* An RTE from a supervisor's stack that has a frame on it.
LEMMA RteIs ==
  ASSUME NEW s, IsCpu(s), s.sr.s, ~Odd(s.a[7]), NEW i, NEW sr, IsSr(sr), sr = Decode(busReadWord(s, s.a[7])),
         NEW pc, pc = busReadLong(s, s.a[7] + 2)
  PROVE  LET t == instrRte(s, i)
         IN  /\ t.sr = sr /\ t.pc = pc % AddrSpace /\ t.d = s.d /\ t.usp = s.usp /\ t.ssp = s.ssp
             /\ t.a = [s.a EXCEPT ![7] = Trunc(s.a[7] + 6, "l")]
<1> DEFINE u == [s EXCEPT !.a[7] = Trunc(s.a[7] + 6, "l")]
           v == [u EXCEPT !.sr = sr]
           t == [v EXCEPT !.pc = pc % AddrSpace]
<1>1. AddA(s, 7, 6) = u
  BY DEF AddA
<1>2. IsCpu(u) /\ u.sr = s.sr /\ IsCpu(v) /\ v.sr = sr
  <2>1. IsCpu(u) /\ IsCpu(v)
    BY SetCpu, Zenon
  <2>2. QED BY <2>1 DEF IsCpu
<1> HIDE DEF u
<1>3. SetSr(u, sr) = v
  BY <1>2 DEF SetSr, cpuSetSupervisor
<1>4. instrRte(s, i) = t
  BY <1>1, <1>3, Zenon DEF instrRte, Touched, Privileged, Jump
<1>5. u.a = [s.a EXCEPT ![7] = Trunc(s.a[7] + 6, "l")] /\ u.d = s.d /\ u.usp = s.usp /\ u.ssp = s.ssp
  BY DEF u, IsCpu
<1>6. t.sr = sr /\ t.pc = pc % AddrSpace /\ t.d = u.d /\ t.usp = u.usp /\ t.ssp = u.ssp /\ t.a = u.a
  BY <1>2 DEF IsCpu
<1> HIDE DEF t
<1>7. QED BY <1>4, <1>5, <1>6

\* exceptions.c, system.c, branch.c: whatever a handler does, with the frame as it was and A7 back
\* at it, its RTE goes back to the interrupted instruction with the status register that it had;
\* if that was a user's, A7 stays the supervisor's.
THEOREM HandlerReturns ==
  ASSUME ByteBits = 8, NEW s, IsCpu(s), IsRunning(s), NEW top, top = Top(s), top \in LongValue,
         RoomBelow(top, 6), NEW vec, NEW e, e = exceptionProcess(s, vec), NEW h, IsCpu(h), h.sr.s, h.a[7] = e.a[7],
         NEW p, p = (top - 6) % AddrSpace, \A b \in p .. p + 5 : h.mem[b] = e.mem[b], NEW i
  PROVE  LET t == instrRte(h, i)
         IN  /\ t.sr = s.sr /\ t.pc = s.pc /\ t.a[7] = top
             /\ t.d = h.d /\ t.usp = h.usp /\ t.ssp = h.ssp /\ \A r \in 0 .. 6 : t.a[r] = h.a[r]
<1> DEFINE a == Trunc(top - 6, "l")
<1>1. Room(p, 6) /\ WordIn(e.mem, p, Encode(s.sr)) /\ LongIn(e.mem, p + 2, s.pc) /\ e.a[7] = a
  BY FrameIs
<1>2. /\ top \in Int /\ p \in Nat /\ p + 5 <= RamTop /\ RamTop \in Nat
      /\ Room(p, 2) /\ Room(p + 2, 4)
  <2>1. top \in Int /\ p \in Nat /\ p + 5 <= RamTop /\ RamTop \in Nat
    BY InstructionsAssumption DEF RoomBelow, Room
  <2>2. QED BY <1>1, <2>1 DEF Room
<1>3. a \in Int /\ a % AddrSpace = p /\ (a + 2) % AddrSpace = p + 2
  <2>1. a \in Int /\ a % AddrSpace = p
    BY <1>2, LongCut
  <2> HIDE DEF a
  <2>2. 2 \in Nat /\ p + 2 <= RamTop
    BY <1>2
  <2>3. QED BY <2>1, <2>2, Ahead
<1>4. h.a[7] = a /\ \A b \in p .. p + 5 : h.mem[b] = e.mem[b]
  BY <1>1
<1> HIDE DEF a
<1>5. WordIn(h.mem, p, Encode(s.sr)) /\ LongIn(h.mem, p + 2, s.pc)
  <2>1. \A k \in {p, p + 1, p + 2, p + 2 + 1, p + 2 + 2, p + 2 + 3} : k \in p .. p + 5
    BY <1>2
  <2>2. \A k \in {p, p + 1, p + 2, p + 2 + 1, p + 2 + 2, p + 2 + 3} : h.mem[k] = e.mem[k]
    BY <1>4, <2>1, Zenon
  <2>3. QED BY <1>1, <2>2, Zenon DEF WordIn, LongIn
<1>6. busReadWord(h, a) = Encode(s.sr)
  <2>1. Encode(s.sr) \in Int /\ Trunc(Encode(s.sr), "w") = Encode(s.sr)
    BY EncodeBits, WordCut DEF IsCpu
  <2>2. QED BY <1>2, <1>3, <1>5, <2>1, ReadsWord
<1>7. s.pc \in Int /\ busReadLong(h, a + 2) = Trunc(s.pc, "l")
  <2>1. a + 2 \in Int /\ p + 2 = (a + 2) % AddrSpace /\ s.pc \in Int
    BY <1>3, InstructionsAssumption DEF IsRunning, Address
  <2>2. QED BY <1>2, <1>5, <2>1, ReadsLong
<1>8. Trunc(s.pc, "l") % AddrSpace = s.pc
  <2>1. Trunc(s.pc, "l") % AddrSpace = s.pc % AddrSpace
    BY <1>7, LongCut
  <2>2. s.pc % AddrSpace = s.pc
    BY <1>7, InstructionsAssumption DEF IsRunning, Address
  <2>3. QED BY <2>1, <2>2
<1>9. IsSr(s.sr) /\ s.sr = Decode(Encode(s.sr))
  BY DecodeEncode, Zenon DEF IsRunning, IsCpu
<1>10. Trunc(a + 6, "l") = top
  BY Raised DEF a
<1>11. LET t == instrRte(h, i)
       IN  /\ t.sr = s.sr /\ t.pc = Trunc(s.pc, "l") % AddrSpace /\ t.d = h.d /\ t.usp = h.usp /\ t.ssp = h.ssp
           /\ t.a = [h.a EXCEPT ![7] = Trunc(h.a[7] + 6, "l")]
  <2>1. s.sr = Decode(busReadWord(h, h.a[7])) /\ Trunc(s.pc, "l") = busReadLong(h, h.a[7] + 2)
    BY <1>4, <1>6, <1>7, <1>9, Zenon
  <2>2. ~Odd(h.a[7])
    BY <1>1, <1>3, <1>4, EvenRoom
  <2>3. QED BY <1>9, <2>1, <2>2, RteIs
<1>12. QED BY <1>4, <1>8, <1>10, <1>11 DEF IsCpu

LEMMA ExceptionBack ==
  ASSUME ByteBits = 8, TypeOK
  PROVE  ExceptionReturns
<1>1. SUFFICES ASSUME IsRunning(cpu), Top(cpu) \in LongValue, RoomBelow(Top(cpu), 6), NEW v, NEW i
               PROVE  LET t == instrRte(exceptionProcess(cpu, v), i)
                      IN  /\ t.sr = cpu.sr /\ t.pc = cpu.pc /\ t.d = cpu.d
                          /\ \A r \in 0 .. 6 : t.a[r] = cpu.a[r]
                          /\ t.a[7] = Top(cpu) /\ t.ssp = cpu.ssp
                          /\ t.usp = IF cpu.sr.s THEN cpu.usp ELSE cpu.a[7]
  BY Zenon DEF ExceptionReturns
<1> DEFINE h == exceptionProcess(cpu, v)
<1>2. IsCpu(h) /\ SystemByte(h.sr) = <<FALSE, TRUE, cpu.sr.ipl>> /\ h.ssp = cpu.ssp
  BY ExceptionIs, Zenon DEF TypeOK
<1>3. /\ h.d = cpu.d /\ h.usp = IF cpu.sr.s THEN cpu.usp ELSE cpu.a[7]
      /\ \A r \in 0 .. 6 : h.a[r] = cpu.a[r]
  BY <1>1, FrameIs, Zenon DEF TypeOK
<1>4. h.sr.s
  BY <1>2 DEF SystemByte
<1>5. LET t == instrRte(h, i)
      IN  /\ t.sr = cpu.sr /\ t.pc = cpu.pc /\ t.a[7] = Top(cpu)
          /\ t.d = h.d /\ t.usp = h.usp /\ t.ssp = h.ssp /\ \A r \in 0 .. 6 : t.a[r] = h.a[r]
  BY <1>1, <1>2, <1>4, HandlerReturns DEF TypeOK
<1> HIDE DEF h
<1>6. QED BY <1>2, <1>3, <1>5 DEF h

\* A long that was pushed, and is read where A7 then was.
LEMMA PushedLong ==
  ASSUME ByteBits = 8, NEW u, IsCpu(u), NEW top, top = u.a[7], top \in LongValue, RoomBelow(top, 4), NEW val,
         NEW p, p = (top - 4) % AddrSpace
  PROVE  LET t == pushLong(u, val)
         IN  Pushed(u, t, 4) /\ Room(p, 4) /\ LongIn(t.mem, p, val) /\ t.a[7] = Trunc(top - 4, "l")
<1> DEFINE t == pushLong(u, val)
<1>1. p \in Nat /\ p + 3 <= RamTop
  BY InstructionsAssumption DEF RoomBelow, Room
<1>2. Room(p, 4)
  <2>1. \A b \in DOMAIN rom : b \notin p .. p + 4 - 1
    BY Zenon DEF RoomBelow, Room
  <2>2. p \in Nat /\ p + 4 <= RamTop + 1
    BY <1>1, InstructionsAssumption
  <2>3. p % 2 = 0
    BY Zenon DEF RoomBelow, Room
  <2>4. QED BY <2>1, <2>2, <2>3, Zenon DEF Room
<1>3. Pushed(u, t, 4) /\ LongIn(t.mem, p, val)
  <2>1. ~Odd(u.a[7] - 4)
    BY <1>2, EvenRoom
  <2>2. QED BY <1>1, <2>1, PushesLong
<1> HIDE DEF t
<1>4. t.a[7] = Trunc(top - 4, "l")
  BY <1>3 DEF Pushed, IsCpu
<1>5. QED BY <1>2, <1>3, <1>4 DEF t

LEMMA PoppedLong ==
  ASSUME ByteBits = 8, NEW top \in LongValue, NEW p, p = (top - 4) % AddrSpace, Room(p, 4), NEW val \in Int,
         NEW h, LongIn(h.mem, p, val)
  PROVE  busReadLong(h, Trunc(top - 4, "l")) = Trunc(val, "l") /\ ~Odd(Trunc(top - 4, "l"))
<1> DEFINE a == Trunc(top - 4, "l")
<1>1. top - 4 \in Int
  BY Moduli DEF LongValue
<1>2. a \in Int /\ p = a % AddrSpace
  BY <1>1, LongCut
<1> HIDE DEF a
<1>3. busReadLong(h, a) = Trunc(val, "l") /\ ~Odd(a)
  BY <1>2, ReadsLong, EvenRoom
<1>4. QED BY <1>3 DEF a

\* branch.c: whatever a subroutine does, with its return address as it was and A7 back at
\* it, its RTS goes on behind the call with A7 as it was before.
THEOREM SubroutineReturns ==
  ASSUME ByteBits = 8, NEW u, IsCpu(u), NEW top, top = u.a[7], top \in LongValue, RoomBelow(top, 4),
         NEW pc \in Address, NEW e, e = pushLong(u, pc),
         NEW h, IsCpu(h), h.a[7] = e.a[7],
         NEW p, p = (top - 4) % AddrSpace, \A b \in p .. p + 3 : h.mem[b] = e.mem[b], NEW i
  PROVE  LET t == instrRts(h, i)
         IN  /\ t.pc = pc /\ t.a[7] = top /\ \A r \in 0 .. 6 : t.a[r] = h.a[r]
             /\ t.d = h.d /\ t.sr = h.sr /\ t.usp = h.usp /\ t.ssp = h.ssp
<1>1. Room(p, 4) /\ LongIn(e.mem, p, pc) /\ e.a[7] = Trunc(top - 4, "l")
  BY PushedLong
<1>2. LongIn(h.mem, p, pc)
  <2>1. \A k \in {p, p + 1, p + 2, p + 3} : k \in p .. p + 3
    BY <1>1 DEF Room
  <2>2. QED BY <1>1, <2>1, Zenon DEF LongIn
<1>3. pc \in Int /\ pc % AddrSpace = pc
  BY InstructionsAssumption DEF Address
<1>4. busReadLong(h, h.a[7]) = Trunc(pc, "l") /\ ~Odd(h.a[7])
  BY <1>1, <1>2, <1>3, PoppedLong
<1>5. Trunc(pc, "l") % AddrSpace = pc
  BY <1>3, LongCut
<1> DEFINE v == [h EXCEPT !.a[7] = Trunc(h.a[7] + 4, "l")]
           t == [v EXCEPT !.pc = pc]
<1>6. instrRts(h, i) = t
  BY <1>4, <1>5, Zenon DEF instrRts, PopPc, Touched, Jump, AddA
<1>7. Trunc(h.a[7] + 4, "l") = top
  BY <1>1, Raised
<1>8. v.a = [h.a EXCEPT ![7] = top] /\ v.d = h.d /\ v.sr = h.sr /\ v.usp = h.usp /\ v.ssp = h.ssp /\ IsCpu(v)
  <2>1. IsCpu(v)
    BY SetCpu, Zenon
  <2>2. QED BY <1>7, <2>1 DEF IsCpu
<1> HIDE DEF v
<1>9. t.pc = pc /\ t.a = v.a /\ t.d = v.d /\ t.sr = v.sr /\ t.usp = v.usp /\ t.ssp = v.ssp
  BY <1>8 DEF IsCpu
<1> HIDE DEF t
<1>10. QED BY <1>6, <1>8, <1>9 DEF IsCpu

\* The PC past k bytes of extension words.
Past(s, k) == IF k = 0 THEN s ELSE [s EXCEPT !.pc = s.pc + k]

\* Addresses that no register is stepped for.
LEMMA Addressed ==
  ASSUME NEW s, NEW m, m \notin {"(An)+", "-(An)"}, NEW r
  PROVE  addrCalcEA(s, m, r, "l").s \in {s, [s EXCEPT !.pc = s.pc + 2], [s EXCEPT !.pc = s.pc + 4]}
<1>1. QED BY DEF addrCalcEA

LEMMA Landed ==
  ASSUME NEW s, IsCpu(s), NEW a
  PROVE  LET t == Jump(s, a)
         IN  /\ IsCpu(t) /\ t.a = s.a /\ t.d = s.d /\ t.sr = s.sr /\ t.mem = s.mem /\ t.pc = a % AddrSpace
             /\ t.usp = s.usp /\ t.ssp = s.ssp
<1>1. IsCpu(Jump(s, a))
  BY SetCpu, Zenon DEF Jump
<1>2. QED BY <1>1 DEF Jump, IsCpu

\* A call is a push of the address behind it, and a jump.
LEMMA CallIs ==
  ASSUME TypeOK, Calling
  PROVE  \E n \in {2, 4, 6} : \E u, a :
            /\ Called(Fetched(cpu), rom[cpu.pc]) = Jump(pushLong(u, u.pc), a)
            /\ IsCpu(u) /\ u.a = cpu.a /\ u.d = cpu.d /\ u.sr = cpu.sr
            /\ (cpu.pc \in Nat => u.pc = cpu.pc + n)
<1> DEFINE s == Fetched(cpu)
           i == rom[cpu.pc]
<1>1. IsCpu(s) /\ s.pc = cpu.pc + 2 /\ s.a = cpu.a /\ s.d = cpu.d /\ s.sr = cpu.sr
  <2>1. IsCpu(s) /\ s.pc = cpu.pc + 2
    BY FetchedKept, Zenon DEF TypeOK
  <2>2. QED BY <2>1 DEF TypeOK, IsCpu, Fetched
<1> HIDE DEF s
<1>2. ASSUME NEW k \in {0, 2, 4}, NEW u, u = Past(s, k)
      PROVE  /\ IsCpu(u) /\ u.a = cpu.a /\ u.d = cpu.d /\ u.sr = cpu.sr
             /\ (cpu.pc \in Nat => u.pc = cpu.pc + (2 + k)) /\ 2 + k \in {2, 4, 6}
  <2>1. IsCpu(u)
    BY <1>1, <1>2, SetCpu, Zenon DEF Past
  <2>2. u.a = s.a /\ u.d = s.d /\ u.sr = s.sr /\ u.pc = IF k = 0 THEN s.pc ELSE s.pc + k
    BY <1>1, <1>2 DEF IsCpu, Past
  <2>3. cpu.pc \in Nat => u.pc = cpu.pc + (2 + k)
    BY <1>1, <2>2
  <2>4. QED BY <1>1, <2>1, <2>2, <2>3
<1>3. CASE Facing("Jsr") /\ i.m \notin {"(An)+", "-(An)"}
  <2> DEFINE ea == addrCalcEA(s, i.m, i.r, "l")
  <2>1. ea.s \in {s, [s EXCEPT !.pc = s.pc + 2], [s EXCEPT !.pc = s.pc + 4]}
    BY <1>3, Addressed, Zenon
  <2>2. Called(s, i) = Jump(pushLong(ea.s, ea.s.pc), ea.addr)
    BY <1>3, Zenon DEF Facing, Called, instrJsr
  <2> HIDE DEF ea
  <2>3. PICK k \in {0, 2, 4} : ea.s = Past(s, k)
    BY <2>1 DEF Past
  <2>4. /\ IsCpu(ea.s) /\ ea.s.a = cpu.a /\ ea.s.d = cpu.d /\ ea.s.sr = cpu.sr
        /\ (cpu.pc \in Nat => ea.s.pc = cpu.pc + (2 + k)) /\ 2 + k \in {2, 4, 6}
    BY <1>2, <2>3
  <2>5. Called(Fetched(cpu), i) = Jump(pushLong(ea.s, ea.s.pc), ea.addr)
    BY <2>2, Zenon DEF s
  <2>6. QED BY <2>4, <2>5
<1>4. CASE Facing("Bcc") /\ i.cc = "SR"
  <2> DEFINE g == Displacement(s, i)
  <2>1. g.s \in {s, [s EXCEPT !.pc = s.pc + 2]}
    BY DEF Displacement, instrFetchWord
  <2>2. Called(s, i) = Jump(pushLong(g.s, g.s.pc), s.currentPC + 2 + g.disp)
    BY <1>4 DEF Facing, Called, instrBcc
  <2> HIDE DEF g
  <2>3. PICK k \in {0, 2, 4} : g.s = Past(s, k)
    BY <2>1 DEF Past
  <2>4. /\ IsCpu(g.s) /\ g.s.a = cpu.a /\ g.s.d = cpu.d /\ g.s.sr = cpu.sr
        /\ (cpu.pc \in Nat => g.s.pc = cpu.pc + (2 + k)) /\ 2 + k \in {2, 4, 6}
    BY <1>2, <2>3
  <2>5. Called(Fetched(cpu), i) = Jump(pushLong(g.s, g.s.pc), s.currentPC + 2 + g.disp)
    BY <2>2, Zenon DEF s
  <2>6. QED BY <2>4, <2>5
<1>5. QED BY <1>3, <1>4, Zenon DEF Calling

LEMMA CallBack ==
  ASSUME ByteBits = 8, TypeOK
  PROVE  CallReturns
<1>1. SUFFICES ASSUME Calling, cpu.pc \in Nat, cpu.pc + 6 < AddrSpace, cpu.a[7] \in LongValue, RoomBelow(cpu.a[7], 4),
                      NEW i
               PROVE  LET t == instrRts(Called(Fetched(cpu), rom[cpu.pc]), i)
                      IN  /\ t.pc \in {cpu.pc + 2, cpu.pc + 4, cpu.pc + 6}
                          /\ t.d = cpu.d /\ t.sr = cpu.sr /\ \A r \in 0 .. 7 : t.a[r] = cpu.a[r]
  BY Zenon DEF CallReturns
<1>2. PICK n \in {2, 4, 6} : \E u, a :
        /\ Called(Fetched(cpu), rom[cpu.pc]) = Jump(pushLong(u, u.pc), a)
        /\ IsCpu(u) /\ u.a = cpu.a /\ u.d = cpu.d /\ u.sr = cpu.sr
        /\ (cpu.pc \in Nat => u.pc = cpu.pc + n)
  BY <1>1, CallIs, Zenon
<1>3. PICK u, a : /\ Called(Fetched(cpu), rom[cpu.pc]) = Jump(pushLong(u, u.pc), a)
                  /\ IsCpu(u) /\ u.a = cpu.a /\ u.d = cpu.d /\ u.sr = cpu.sr
                  /\ u.pc = cpu.pc + n
  BY <1>1, <1>2, Zenon
<1> DEFINE e == pushLong(u, u.pc)
           h == Jump(e, a)
           p == (u.a[7] - 4) % AddrSpace
<1>4. u.pc \in Address
  BY <1>1, <1>3, InstructionsAssumption DEF Address
<1>5. Pushed(u, e, 4)
  BY <1>1, <1>3, PushedLong
<1>6. IsCpu(e) /\ e.d = u.d /\ e.sr = u.sr /\ \A r \in 0 .. 6 : e.a[r] = u.a[r]
  BY <1>3, <1>5 DEF Pushed, IsCpu
<1>7. IsCpu(h) /\ h.a = e.a /\ h.d = e.d /\ h.sr = e.sr /\ h.mem = e.mem
  BY <1>6, Landed, Zenon
<1> HIDE DEF h
<1>8. LET t == instrRts(h, i)
      IN  /\ t.pc = u.pc /\ t.a[7] = u.a[7] /\ \A r \in 0 .. 6 : t.a[r] = h.a[r]
          /\ t.d = h.d /\ t.sr = h.sr
  BY <1>1, <1>3, <1>4, <1>7, SubroutineReturns
<1> HIDE DEF e
<1>9. QED BY <1>1, <1>2, <1>3, <1>6, <1>7, <1>8 DEF h, e

\* LINK writes at the A7 that it has lowered, and a push at the address that was lowered.
LEMMA LinkPushes ==
  ASSUME ByteBits = 8, NEW g, IsCpu(g), NEW top, top = g.a[7], top \in LongValue, RoomBelow(top, 4), NEW val
  PROVE  LET u == AddA(g, 7, -4)
         IN  busWrite(u, u.a[7], val, "l") = pushLong(g, val)
<1> DEFINE sp == Trunc(top - 4, "l")
           u == [g EXCEPT !.a[7] = sp]
<1>1. top - 4 \in Int /\ top + (-4) = top - 4
  BY Moduli DEF LongValue
<1>2. AddA(g, 7, -4) = u
  BY <1>1, Zenon DEF AddA
<1>3. u.a[7] = sp
  BY DEF IsCpu
<1>4. sp % AddrSpace = (top - 4) % AddrSpace
  BY <1>1, LongCut
<1>5. ~Odd(top - 4) /\ ~Odd(sp)
  BY <1>4, EvenRoom DEF RoomBelow
<1>6. pushLong(g, val) = busWrite(u, top - 4, val, "l")
  BY Zenon DEF pushLong
<1> HIDE DEF sp, u
<1>7. busWrite(u, sp, val, "l") = busWrite(u, top - 4, val, "l")
  BY <1>4, <1>5, Zenon DEF busWrite, WithBytes
<1>8. QED BY <1>2, <1>3, <1>6, <1>7, Zenon

\* move.c: whatever a routine does with its stack, with the four bytes of its frame as they were
\* and the frame pointer back at them, its UNLK gives back the caller's A7 and frame pointer.
THEOREM FrameUnlinks ==
  ASSUME ByteBits = 8, NEW s, IsCpu(s), NEW top, top = s.a[7], top \in LongValue, RoomBelow(top, 4),
         NEW i, i.r \in 0 .. 6, s.a[i.r] \in LongValue, NEW e, e = instrLink(s, i),
         NEW h, IsCpu(h), h.a[i.r] = e.a[i.r],
         NEW p, p = (top - 4) % AddrSpace, \A b \in p .. p + 3 : h.mem[b] = e.mem[b]
  PROVE  LET t == instrUnlk(h, i)
         IN  /\ t.a[i.r] = s.a[i.r] /\ t.a[7] = top /\ \A r \in (0 .. 6) \ {i.r} : t.a[r] = h.a[r]
             /\ t.d = h.d /\ t.sr = h.sr
             /\ e.d = s.d /\ e.sr = s.sr /\ \A r \in (0 .. 6) \ {i.r} : e.a[r] = s.a[r]
<1> DEFINE r == i.r
           val == s.a[r]
           g == [s EXCEPT !.pc = s.pc + 2]
           l == pushLong(g, val)
           sp == Trunc(top - 4, "l")
           disp == Signed(busReadWord(s, s.pc), "w")
           u == [l EXCEPT !.a[r] = l.a[7]]
           k == [u EXCEPT !.a[7] = Trunc(u.a[7] + disp, "l")]
<1>1. IsCpu(g) /\ g.a = s.a /\ g.d = s.d /\ g.sr = s.sr
  <2>1. IsCpu(g)
    BY SetCpu, Zenon
  <2>2. QED BY <2>1 DEF IsCpu
<1>2. e = k
  <2> DEFINE x == AddA(g, 7, -4)
  <2>1. x.a[r] = val
    BY <1>1 DEF AddA, IsCpu
  <2>2. l = busWrite(x, x.a[7], val, "l")
    <3>1. top = g.a[7]
      BY <1>1
    <3>2. QED BY <1>1, <3>1, LinkPushes
  <2>3. instrFetchWord(s).s = g /\ instrFetchWord(s).w = busReadWord(s, s.pc)
    BY DEF instrFetchWord
  <2> HIDE DEF g, x, l, val
  <2>4. e = AddA([l EXCEPT !.a[r] = l.a[7]], 7, disp)
    BY <2>1, <2>2, <2>3, Zenon DEF instrLink, x
  <2>5. QED BY <2>4, Zenon DEF AddA
<1> HIDE DEF g, disp
<1>3. Pushed(g, l, 4) /\ Room(p, 4) /\ LongIn(l.mem, p, val) /\ l.a[7] = sp
  BY <1>1, PushedLong
<1>4. IsCpu(l) /\ l.d = s.d /\ l.sr = s.sr /\ \A n \in 0 .. 6 : l.a[n] = s.a[n]
  BY <1>1, <1>3 DEF Pushed, IsCpu
<1> HIDE DEF l, sp
<1>5. IsCpu(k) /\ k.mem = l.mem /\ k.d = l.d /\ k.sr = l.sr /\ k.a[r] = sp
      /\ \A n \in (0 .. 6) \ {r} : k.a[n] = l.a[n]
  <2>1. IsCpu(u) /\ IsCpu(k)
    BY <1>4, SetCpu, Zenon
  <2>2. u.mem = l.mem /\ u.d = l.d /\ u.sr = l.sr /\ u.a = [l.a EXCEPT ![r] = sp]
    BY <1>3, <1>4 DEF IsCpu
  <2> HIDE DEF u
  <2>3. k.mem = u.mem /\ k.d = u.d /\ k.sr = u.sr /\ k.a = [u.a EXCEPT ![7] = Trunc(u.a[7] + disp, "l")]
    BY <2>1 DEF IsCpu
  <2> HIDE DEF k
  <2>4. DOMAIN l.a = 0 .. 7
    BY <1>4 DEF IsCpu
  <2>5. QED BY <2>1, <2>2, <2>3, <2>4
<1> HIDE DEF k
<1>6. h.a[r] = sp /\ LongIn(h.mem, p, val)
  <2>1. \A b \in {p, p + 1, p + 2, p + 3} : b \in p .. p + 3
    BY <1>3 DEF Room
  <2>2. h.a[r] = sp /\ \A b \in {p, p + 1, p + 2, p + 3} : h.mem[b] = l.mem[b]
    <3>1. e.a[r] = sp /\ e.mem = l.mem
      BY <1>2, <1>5
    <3>2. QED BY <2>1, <3>1
  <2>3. LongIn(h.mem, p, val)
    BY <1>3, <2>2, Zenon DEF LongIn
  <2>4. QED BY <2>2, <2>3
<1> DEFINE v == [h EXCEPT !.a[7] = sp]
           w == [v EXCEPT !.a[r] = val]
           t == [w EXCEPT !.a[7] = Trunc(w.a[7] + 4, "l")]
<1>7. IsCpu(v) /\ IsCpu(w) /\ v.mem = h.mem /\ v.a = [h.a EXCEPT ![7] = sp] /\ v.d = h.d /\ v.sr = h.sr
  <2>1. IsCpu(v) /\ IsCpu(w)
    BY SetCpu, Zenon
  <2> HIDE DEF w
  <2>2. QED BY <2>1 DEF IsCpu
<1>8. busReadLong(h, sp) = val /\ ~Odd(sp)
  <2>1. val \in Int /\ Trunc(val, "l") = val
    BY Moduli DEF LongValue, Trunc
  <2> HIDE DEF v, val
  <2>2. busReadLong(h, Trunc(top - 4, "l")) = Trunc(val, "l") /\ ~Odd(Trunc(top - 4, "l"))
    BY <1>3, <1>6, <2>1, PoppedLong
  <2>3. QED BY <2>1, <2>2 DEF sp
<1>9. instrUnlk(h, i) = t
  BY <1>6, <1>8, Zenon DEF instrUnlk, Touched, AddA
<1>10. w.a[7] = sp /\ w.a[r] = val /\ w.d = h.d /\ w.sr = h.sr /\ \A n \in (0 .. 6) \ {r} : w.a[n] = h.a[n]
  <2> HIDE DEF v
  <2>1. DOMAIN v.a = 0 .. 7 /\ DOMAIN h.a = 0 .. 7
    BY <1>7 DEF IsCpu
  <2>2. w.a = [v.a EXCEPT ![r] = val] /\ w.d = v.d /\ w.sr = v.sr
    BY <1>7 DEF IsCpu
  <2> HIDE DEF w
  <2>3. QED BY <1>7, <2>1, <2>2
<1> HIDE DEF v, w
<1>11. Trunc(sp + 4, "l") = top
  BY Raised DEF sp
<1>12. t.a = [w.a EXCEPT ![7] = top] /\ t.d = w.d /\ t.sr = w.sr /\ DOMAIN w.a = 0 .. 7
  BY <1>7, <1>10, <1>11 DEF IsCpu
<1> HIDE DEF t
<1>13. QED BY <1>2, <1>4, <1>5, <1>9, <1>10, <1>12

LEMMA LinkBack ==
  ASSUME ByteBits = 8, TypeOK
  PROVE  LinkUnlinks
<1> DEFINE s == Fetched(cpu)
           i == rom[cpu.pc]
           e == instrLink(s, i)
<1>1. IsCpu(s) /\ ~s.erred /\ s.a = cpu.a /\ s.d = cpu.d /\ s.sr = cpu.sr
  <2>1. IsCpu(s) /\ ~s.erred
    BY FetchedKept, Zenon DEF TypeOK
  <2>2. QED BY <2>1 DEF TypeOK, IsCpu, Fetched
<1> HIDE DEF s, i
<1>2. SUFFICES ASSUME cpu.a[7] \in LongValue, RoomBelow(cpu.a[7], 4), i.r \in 0 .. 6, cpu.a[i.r] \in LongValue
               PROVE  LET t == instrUnlk(e, i)
                      IN  t.d = cpu.d /\ t.sr = cpu.sr /\ \A r \in 0 .. 7 : t.a[r] = cpu.a[r]
  BY Zenon DEF LinkUnlinks, s, i
<1> HIDE DEF e
<1>3. IsCpu(e)
  BY <1>1, KeptSelf, MovesKept, KeptIs, Zenon DEF e
<1>4. LET t == instrUnlk(e, i)
      IN  /\ t.a[i.r] = s.a[i.r] /\ t.a[7] = cpu.a[7] /\ \A r \in (0 .. 6) \ {i.r} : t.a[r] = e.a[r]
          /\ t.d = e.d /\ t.sr = e.sr
          /\ e.d = s.d /\ e.sr = s.sr /\ \A r \in (0 .. 6) \ {i.r} : e.a[r] = s.a[r]
  BY <1>1, <1>2, <1>3, FrameUnlinks DEF e
<1>5. QED BY <1>1, <1>2, <1>4

----------------------------------------------------------------------------
(* Bits *)

\* Numbers that agree above bit n.
LEMMA SharedAbove ==
  ASSUME NEW n \in 0 .. 31, NEW j \in 0 .. 31, n < j, NEW q \in Int, NEW x \in 0 .. (2 * 2^n) - 1
  PROVE  ((2 * 2^n) * q + x) \div 2^j = q \div (2^j \div (2 * 2^n))
<1> DEFINE P == 2 * 2^n
           J == 2^j
<1>1. PICK c \in Nat \ {0} : J = P * c
  <2>1. j \in 0 .. 32
    OBVIOUS
  <2>2. QED BY <2>1, PowerDivides
<1>2. P \in Nat \ {0} /\ x \in 0 .. P - 1
  BY Powers
<1> HIDE DEF P, J
<1> DEFINE e == q \div c
           g == q % c
<1>3. e \in Int /\ g \in 0 .. c - 1 /\ q = c * e + g
  BY <1>1
<1> HIDE DEF e, g
<1>4. P * g + x \in 0 .. (P * c) - 1
  <2>1. P * g <= P * (c - 1) /\ P * g \in Nat
    BY <1>1, <1>2, <1>3
  <2>2. P * (c - 1) = P * c - P
    BY <1>1, <1>2
  <2>3. QED BY <1>1, <1>2, <2>1, <2>2
<1>5. P * q + x = (P * c) * e + (P * g + x)
  <2>1. P * (c * e + g) = (P * c) * e + P * g
    BY <1>1, <1>2, <1>3
  <2>2. QED BY <1>2, <1>3, <2>1
<1>6. P * c \in Nat \ {0}
  BY <1>1, <1>2
<1>7. ((P * c) * e + (P * g + x)) \div (P * c) = e
  BY <1>3, <1>4, <1>6, ModIs
<1>8. J \div P = c
  <2>1. (P * c + 0) \div P = c
    BY <1>1, <1>2, ModIs
  <2>2. QED BY <1>1, <1>2, <2>1
<1>9. QED BY <1>1, <1>5, <1>7, <1>8 DEF e, J, P

\* w is v with bit n set to b, and no bit above v's highest unless n is one.
OnlyBit(v, w, n, b) == \A j \in 0 .. 31 : Bit(w, j) = IF j = n THEN b ELSE Bit(v, j)
KeepsWidth(v, w, n) == \A k \in 0 .. 32 : n < k /\ v < 2^k => w < 2^k

LEMMA BitAlone ==
  ASSUME NEW v \in Nat, NEW n \in 0 .. 31, NEW b \in {0, 1},
         NEW w, w = v + (b - Bit(v, n)) * 2^n
  PROVE  w \in Nat /\ OnlyBit(v, w, n, b) /\ KeepsWidth(v, w, n)
<1> DEFINE p == 2^n
           q == v \div (2 * p)
           o == Bit(v, n)
           r == v % p
<1>1. p \in Nat \ {0}
  BY Powers
<1>2. o \in {0, 1}
  BY BitRange
<1>3. q \in Nat /\ r \in 0 .. p - 1 /\ v = (2 * p) * q + (o * p + r)
  <2> DEFINE d == v \div p
  <2>1. d \in Nat /\ r \in 0 .. p - 1 /\ v = p * d + r
    <3> HIDE DEF p
    <3>1. QED BY <1>1
  <2>2. o = d % 2
    BY DEF Bit
  <2> HIDE DEF p, d, r
  <2> DEFINE f == d \div 2
  <2>3. f \in Nat /\ d = 2 * f + o
    BY <2>1, <2>2
  <2> HIDE DEF f, o
  <2>4. p * (2 * f + o) = (2 * p) * f + o * p
    BY <1>1, <1>2, <2>3
  <2>5. v = (2 * p) * f + (o * p + r) /\ o * p + r \in 0 .. 2 * p - 1
    BY <1>1, <1>2, <2>1, <2>3, <2>4
  <2>6. ((2 * p) * f + (o * p + r)) \div (2 * p) = f
    <3> DEFINE P == 2 * p
               x == o * p + r
    <3>1. P \in Nat \ {0} /\ x \in 0 .. P - 1 /\ f \in Int
      BY <1>1, <2>3, <2>5
    <3> HIDE DEF P, x
    <3>2. (P * f + x) \div P = f
      BY <3>1, ModIs
    <3>3. QED BY <3>2 DEF P, x
  <2>7. q = f
    BY <2>5, <2>6
  <2>8. QED BY <2>1, <2>3, <2>5, <2>7
<1>4. w = v + (b - o) * p
  OBVIOUS
<1>5. o * p + r \in 0 .. 2 * p - 1 /\ b * p + r \in 0 .. 2 * p - 1
  <2> HIDE DEF p, o, r
  <2>1. QED BY <1>1, <1>2, <1>3
<1>6. w = (2 * p) * q + (b * p + r) /\ w \in Nat
  <2> HIDE DEF p, q, o, r
  <2>1. (b - o) * p = b * p - o * p /\ b * p \in Nat /\ o * p \in Nat /\ (2 * p) * q \in Nat
    BY <1>1, <1>2, <1>3
  <2>2. QED BY <1>3, <1>4, <1>5, <2>1
<1>7. Bit(w, n) = b
  <2> HIDE DEF p, q, o, r
  <2>1. (2 * p) * q + (b * p + r) = p * (2 * q + b) + r
    BY <1>1, <1>3
  <2>2. (p * (2 * q + b) + r) \div p = 2 * q + b
    BY <1>1, <1>3, ModIs
  <2>3. (2 * q + b) % 2 = b
    BY <1>3
  <2>4. w \div p = 2 * q + b
    BY <1>6, <2>1, <2>2
  <2>5. QED BY <2>3, <2>4 DEF Bit, p
<1>8. ASSUME NEW j \in 0 .. 31, j < n PROVE Bit(w, j) = Bit(v, j)
  <2>1. w = v + 2^n * (b - o) /\ b - o \in Int
    <3> HIDE DEF o
    <3>1. b - o \in Int /\ 2^n \in Int
      BY <1>1, <1>2
    <3>2. w = v + (b - o) * 2^n
      BY <1>4
    <3> HIDE DEF p
    <3>3. ASSUME NEW x \in Int, NEW y \in Int PROVE x * y = y * x
      OBVIOUS
    <3>4. QED BY <3>1, <3>2, <3>3
  <2>2. n \in 0 .. 32 /\ v \in Int
    OBVIOUS
  <2>3. Bit(v + 2^n * (b - o), j) = Bit(v, j)
    BY <1>8, <2>1, <2>2, HigherBits
  <2>4. QED BY <2>1, <2>3
<1>9. ASSUME NEW j \in 0 .. 31, n < j PROVE Bit(w, j) = Bit(v, j)
  <2>1. w \div 2^j = q \div (2^j \div (2 * p)) /\ v \div 2^j = q \div (2^j \div (2 * p))
    <3>1. ASSUME NEW x \in 0 .. (2 * 2^n) - 1 PROVE ((2 * 2^n) * q + x) \div 2^j = q \div (2^j \div (2 * 2^n))
      <4>1. q \in Int
        BY <1>3
      <4> HIDE DEF q
      <4>2. QED BY <1>9, <4>1, SharedAbove
    <3>2. /\ o * p + r \in 0 .. (2 * 2^n) - 1 /\ b * p + r \in 0 .. (2 * 2^n) - 1
          /\ v = (2 * 2^n) * q + (o * p + r) /\ w = (2 * 2^n) * q + (b * p + r)
      BY <1>3, <1>5, <1>6, Zenon DEF p
    <3> HIDE DEF q, o, r
    <3>3. QED BY <3>1, <3>2, Zenon DEF p
  <2>2. QED BY <2>1 DEF Bit
<1>10. ASSUME NEW k \in 0 .. 32, n < k, v < 2^k PROVE w < 2^k
  <2>1. PICK c \in Nat \ {0} : 2^k = (2 * p) * c
    BY <1>10, PowerDivides
  <2> HIDE DEF p, q, o, r
  <2>2. q < c
    <3>1. ASSUME q >= c PROVE (2 * p) * q >= (2 * p) * c
      BY <1>1, <1>3, <2>1, <3>1
    <3>2. (2 * p) * c \in Nat /\ (2 * p) * q \in Nat /\ o * p + r >= 0
      BY <1>1, <1>3, <1>5, <2>1
    <3> DEFINE A == (2 * p) * c
               B == (2 * p) * q
               x == o * p + r
    <3>3. v = B + x /\ v < A /\ A \in Nat /\ B \in Nat /\ x >= 0 /\ x \in Int
      <4>1. x \in Int /\ x >= 0
        BY <1>5
      <4>2. v = B + x /\ A \in Nat /\ B \in Nat
        BY <1>3, <3>2, Zenon
      <4>3. v < A
        BY <1>10, <2>1, Zenon
      <4>4. QED BY <4>1, <4>2, <4>3
    <3>4. q >= c => B >= A
      BY <3>1
    <3> HIDE DEF A, B, x
    <3>5. QED BY <1>3, <2>1, <3>3, <3>4
  <2>3. (2 * p) * q <= (2 * p) * (c - 1) /\ (2 * p) * (c - 1) = (2 * p) * c - 2 * p
    BY <1>1, <1>3, <2>1, <2>2
  <2>4. QED BY <1>1, <1>3, <1>5, <1>6, <2>1, <2>3
<1>11. \A j \in 0 .. 31 : Bit(w, j) = IF j = n THEN b ELSE Bit(v, j)
  BY <1>7, <1>8, <1>9
<1>12. \A k \in 0 .. 32 : n < k /\ v < 2^k => w < 2^k
  BY <1>10
<1>13. QED BY <1>6, <1>11, <1>12, Zenon DEF OnlyBit, KeepsWidth

\* What the handlers of BSET, BCLR and BCHG come to: bit number of the operand becomes b.
BitPut(s, i, number, b) ==
  LET sz == IF i.m = "Dn" THEN "l" ELSE "b"
      o == Operand(s, i, sz)
      n == number % Bits(sz)
  IN  addrWrite([o.s EXCEPT !.sr = [o.s.sr EXCEPT !.z = Bit(o.val, n) = 0]], o.ea,
                o.val + (b - Bit(o.val, n)) * 2^n, sz)

OperandBit(s, i, number) ==
  LET sz == IF i.m = "Dn" THEN "l" ELSE "b"
  IN  Bit(Operand(s, i, sz).val, number % Bits(sz))

LEMMA BitPuts ==
  ASSUME NEW s, NEW i
  PROVE  /\ instrBsetDyn(s, i) = BitPut(s, i, s.d[i.x], 1)
         /\ instrBclrDyn(s, i) = BitPut(s, i, s.d[i.x], 0)
         /\ instrBchgDyn(s, i) = BitPut(s, i, s.d[i.x], 1 - OperandBit(s, i, s.d[i.x]))
         /\ LET t == instrFetchWord(s).s
                number == Trunc(instrFetchWord(s).w, "b")
            IN  /\ instrBsetStatic(s, i) = BitPut(t, i, number, 1)
                /\ instrBclrStatic(s, i) = BitPut(t, i, number, 0)
                /\ instrBchgStatic(s, i) = BitPut(t, i, number, 1 - OperandBit(t, i, number))
<1>1. ASSUME NEW t, NEW number
      PROVE  /\ BitOf(t, i, number, One) = BitPut(t, i, number, 1)
             /\ BitOf(t, i, number, Zero) = BitPut(t, i, number, 0)
             /\ BitOf(t, i, number, Complement) = BitPut(t, i, number, 1 - OperandBit(t, i, number))
  <2> DEFINE sz == IF i.m = "Dn" THEN "l" ELSE "b"
             o == Operand(t, i, sz)
             k == number % Bits(sz)
             Put(b) == addrWrite([o.s EXCEPT !.sr = [o.s.sr EXCEPT !.z = Bit(o.val, k) = 0]], o.ea,
                                 o.val + (b - Bit(o.val, k)) * 2^k, sz)
  <2>1. /\ BitOf(t, i, number, Complement) = Put(Complement(Bit(o.val, k)))
        /\ BitOf(t, i, number, Zero) = Put(Zero(Bit(o.val, k)))
        /\ BitOf(t, i, number, One) = Put(One(Bit(o.val, k)))
    BY DEF BitOf, Modify, Out
  <2>2. \A b : BitPut(t, i, number, b) = Put(b)
    BY Zenon DEF BitPut
  <2>3. Complement(Bit(o.val, k)) = 1 - OperandBit(t, i, number) /\ Zero(Bit(o.val, k)) = 0 /\ One(Bit(o.val, k)) = 1
    BY Zenon DEF Complement, Zero, One, OperandBit
  <2> HIDE DEF Put
  <2>4. QED BY <2>1, <2>2, <2>3
<1>2. QED BY <1>1, Zenon
          DEF Static, instrBchgDyn, instrBchgStatic, instrBclrDyn, instrBclrStatic, instrBsetDyn, instrBsetStatic

\* Bit n of v becomes b, and no other, and Z tells what it was.
BitChanged(s, t, v, w, n, b) ==
  /\ w \in Nat /\ OnlyBit(v, w, n, b)
  /\ t.sr = [s.sr EXCEPT !.z = (Bit(v, n) = 0)]
  /\ t.a = s.a /\ t.pc = s.pc

\* A data register's bit n becomes b, and nothing else but Z changes.
RegisterBit(s, t, r, n, b) ==
  /\ BitChanged(s, t, s.d[r], t.d[r], n, b) /\ t.d[r] \in LongValue
  /\ t.mem = s.mem /\ \A q \in (0 .. 7) \ {r} : t.d[q] = s.d[q]

\* A long operand in a data register.
LEMMA InRegister ==
  ASSUME ByteBits = 8, NEW s, NEW i, i.m = "Dn", s.d[i.r] \in LongValue
  PROVE  /\ Operand(s, i, "l").s = s /\ Operand(s, i, "l").val = s.d[i.r]
         /\ Operand(s, i, "l").ea.m = "Dn" /\ Operand(s, i, "l").ea.r = i.r
<1>1. Trunc(s.d[i.r], "l") = s.d[i.r]
  BY Moduli DEF Trunc, LongValue
<1>2. addrCalcEA(s, "Dn", i.r, "l").s = s /\ addrCalcEA(s, "Dn", i.r, "l").m = "Dn"
      /\ addrCalcEA(s, "Dn", i.r, "l").r = i.r
  BY DEF addrCalcEA
<1>3. \A ea : ea.m = "Dn" => addrRead(s, ea, "l") = Trunc(s.d[ea.r], "l")
  BY DEF addrRead, cpuReadD
<1>4. QED BY <1>1, <1>2, <1>3 DEF Operand

\* In a data register the number of the bit is taken modulo 32.
LEMMA BitInRegister ==
  ASSUME ByteBits = 8, NEW s, IsCpu(s), NEW i, i.m = "Dn", NEW v, v = s.d[i.r], v \in LongValue, i.r \in 0 .. 7,
         NEW number \in Nat, NEW n, n = number % 32, NEW b \in {0, 1}
  PROVE  RegisterBit(s, BitPut(s, i, number, b), i.r, n, b)
<1> DEFINE w == v + (b - Bit(v, n)) * 2^n
           f == [s.sr EXCEPT !.z = (Bit(v, n) = 0)]
           u == [s EXCEPT !.sr = f]
           t == [u EXCEPT !.d[i.r] = w]
<1>1. Modulus("l") = 4294967296 /\ 2^32 = 4294967296 /\ Bits("l") = 32
  BY Moduli DEF Bits, Bytes
<1>2. v \in Nat /\ v < 2^32 /\ n \in 0 .. 31
  BY <1>1 DEF LongValue
<1>3. w \in Nat /\ w < 2^32 /\ OnlyBit(v, w, n, b)
  <2>1. 32 \in 0 .. 32 /\ n < 32
    BY <1>2
  <2>2. v \in Nat /\ n \in 0 .. 31 /\ b \in {0, 1} /\ w = v + (b - Bit(v, n)) * 2^n
    BY <1>2
  <2> HIDE DEF w
  <2>3. w \in Nat /\ OnlyBit(v, w, n, b) /\ KeepsWidth(v, w, n)
    BY <2>2, BitAlone, Zenon
  <2>4. QED BY <1>2, <2>1, <2>3 DEF KeepsWidth
<1>4. Trunc(v, "l") = v /\ Trunc(w, "l") = w /\ w \in LongValue
  BY <1>1, <1>2, <1>3 DEF Trunc, LongValue
<1> HIDE DEF w, f
<1>5. Operand(s, i, "l").s = s /\ Operand(s, i, "l").val = v
      /\ Operand(s, i, "l").ea.m = "Dn" /\ Operand(s, i, "l").ea.r = i.r
  BY InRegister
<1>6. BitPut(s, i, number, b) = cpuWriteD(u, i.r, w, "l")
  <2>1. ASSUME NEW q, NEW ea, NEW x, ea.m = "Dn" PROVE addrWrite(q, ea, x, "l") = cpuWriteD(q, ea.r, x, "l")
    BY <2>1, Zenon DEF addrWrite
  <2>2. BitPut(s, i, number, b) = addrWrite(u, Operand(s, i, "l").ea, w, "l")
    <3>1. Bits("l") = 32
      BY <1>1
    <3>2. QED BY <3>1, <1>5, Zenon DEF BitPut, w, f
  <2>3. QED BY <1>5, <2>1, <2>2, Zenon
<1>7. IsCpu(u) /\ u.d = s.d /\ u.sr = f /\ u.a = s.a /\ u.pc = s.pc /\ u.mem = s.mem
  <2>1. DOMAIN f = DOMAIN s.sr /\ f.t = s.sr.t /\ f.s = s.sr.s /\ f.ipl = s.sr.ipl
    BY DEF f, IsCpu, IsSr
  <2>2. IsCpu(u)
    BY <2>1 DEF IsCpu, IsSr
  <2>3. QED BY <2>2 DEF IsCpu
<1> HIDE DEF u
<1>8. cpuWriteD(u, i.r, w, "l") = t
  <2>1. u.d[i.r] - Trunc(u.d[i.r], "l") + Trunc(w, "l") = w
    BY <1>2, <1>3, <1>4, <1>7
  <2>2. QED BY <2>1 DEF cpuWriteD
<1>9. t.d = [u.d EXCEPT ![i.r] = w] /\ t.sr = f /\ t.a = s.a /\ t.pc = s.pc /\ t.mem = s.mem /\ DOMAIN u.d = 0 .. 7
  BY <1>7 DEF IsCpu
<1> HIDE DEF t
<1>10. t.d[i.r] = w /\ \A r \in (0 .. 7) \ {i.r} : t.d[r] = s.d[r]
  BY <1>7, <1>9
<1>11. BitPut(s, i, number, b) = t /\ t.d[i.r] \in LongValue
  BY <1>4, <1>6, <1>8, <1>10, Zenon
<1>12. w \in Nat /\ OnlyBit(v, w, n, b)
  BY <1>3, Zenon
<1>13. QED BY <1>9, <1>10, <1>11, <1>12, Zenon DEF RegisterBit, BitChanged, f

\* bit.c: BSET, BCLR and BCHG of a data register, numbered by a register or by the word behind
\* the opcode, put, clear and flip that bit modulo 32, and Z tells what it was.
THEOREM RegisterBits ==
  ASSUME ByteBits = 8, NEW s, IsCpu(s), NEW i, i.m = "Dn", i.r \in 0 .. 7, s.d[i.r] \in LongValue
  PROVE  /\ s.d[i.x] \in Nat =>
              LET n == s.d[i.x] % 32
              IN  /\ RegisterBit(s, instrBsetDyn(s, i), i.r, n, 1)
                  /\ RegisterBit(s, instrBclrDyn(s, i), i.r, n, 0)
                  /\ RegisterBit(s, instrBchgDyn(s, i), i.r, n, 1 - Bit(s.d[i.r], n))
         /\ Trunc(instrFetchWord(s).w, "b") \in Nat =>
              LET n == Trunc(instrFetchWord(s).w, "b") % 32
                  t == instrFetchWord(s).s
              IN  /\ RegisterBit(t, instrBsetStatic(s, i), i.r, n, 1)
                  /\ RegisterBit(t, instrBclrStatic(s, i), i.r, n, 0)
                  /\ RegisterBit(t, instrBchgStatic(s, i), i.r, n, 1 - Bit(s.d[i.r], n))
<1>1. ASSUME NEW t, IsCpu(t), t.d[i.r] \in LongValue, NEW number \in Nat, NEW b \in {0, 1}
      PROVE  RegisterBit(t, BitPut(t, i, number, b), i.r, number % 32, b)
  <2>1. PICK n : n = number % 32
    OBVIOUS
  <2>2. PICK v : v = t.d[i.r]
    OBVIOUS
  <2>3. RegisterBit(t, BitPut(t, i, number, b), i.r, n, b)
    BY <1>1, <2>1, <2>2, BitInRegister, Zenon
  <2>4. QED BY <2>1, <2>3, Zenon
<1>2. ASSUME NEW t, IsCpu(t), t.d[i.r] \in LongValue, NEW number \in Nat
      PROVE  OperandBit(t, i, number) = Bit(t.d[i.r], number % 32) /\ 1 - OperandBit(t, i, number) \in {0, 1}
  <2>1. Operand(t, i, "l").val = t.d[i.r]
    BY <1>2, InRegister
  <2>2. Bits("l") = 32
    BY DEF Bits, Bytes
  <2>3. OperandBit(t, i, number) = Bit(t.d[i.r], number % 32)
    BY <2>1, <2>2, Zenon DEF OperandBit
  <2>4. t.d[i.r] \in Nat /\ number % 32 \in 0 .. 31
    BY <1>2 DEF LongValue
  <2>5. Bit(t.d[i.r], number % 32) \in {0, 1}
    BY <2>4, BitRange
  <2>6. QED BY <2>3, <2>5
<1>3. ASSUME NEW t, IsCpu(t), t.d[i.r] \in LongValue, NEW number \in Nat
      PROVE  /\ RegisterBit(t, BitPut(t, i, number, 1), i.r, number % 32, 1)
             /\ RegisterBit(t, BitPut(t, i, number, 0), i.r, number % 32, 0)
             /\ RegisterBit(t, BitPut(t, i, number, 1 - OperandBit(t, i, number)), i.r, number % 32,
                            1 - Bit(t.d[i.r], number % 32))
  BY <1>1, <1>2, <1>3
<1>4. IsCpu(instrFetchWord(s).s) /\ instrFetchWord(s).s.d = s.d
  <2>1. instrFetchWord(s).s = [s EXCEPT !.pc = s.pc + 2]
    BY DEF instrFetchWord
  <2>2. IsCpu([s EXCEPT !.pc = s.pc + 2])
    BY SetCpu, Zenon
  <2>3. QED BY <2>1, <2>2 DEF IsCpu
<1>5. ASSUME s.d[i.x] \in Nat, NEW n, n = s.d[i.x] % 32
      PROVE  /\ RegisterBit(s, instrBsetDyn(s, i), i.r, n, 1)
             /\ RegisterBit(s, instrBclrDyn(s, i), i.r, n, 0)
             /\ RegisterBit(s, instrBchgDyn(s, i), i.r, n, 1 - Bit(s.d[i.r], n))
  BY <1>3, <1>5, BitPuts, Zenon
<1>6. ASSUME NEW number, number = Trunc(instrFetchWord(s).w, "b"), number \in Nat, NEW n, n = number % 32,
             NEW t, t = instrFetchWord(s).s
      PROVE  /\ RegisterBit(t, instrBsetStatic(s, i), i.r, n, 1)
             /\ RegisterBit(t, instrBclrStatic(s, i), i.r, n, 0)
             /\ RegisterBit(t, instrBchgStatic(s, i), i.r, n, 1 - Bit(s.d[i.r], n))
  <2>1. IsCpu(t) /\ t.d = s.d
    BY <1>4, <1>6, Zenon
  <2>2. /\ instrBsetStatic(s, i) = BitPut(t, i, number, 1)
        /\ instrBclrStatic(s, i) = BitPut(t, i, number, 0)
        /\ instrBchgStatic(s, i) = BitPut(t, i, number, 1 - OperandBit(t, i, number))
    BY <1>6, BitPuts, Zenon
  <2>3. t.d[i.r] \in LongValue /\ t.d[i.r] = s.d[i.r]
    BY <2>1, Zenon
  <2>4. QED BY <1>3, <1>6, <2>1, <2>2, <2>3, Zenon
<1>7. QED BY <1>5, <1>6, Zenon

Alterable == {"(An)", "(An)+", "-(An)", "d(An)", "d(An,Xn)", "abs.W", "abs.L"}

\* The state that an effective address e leaves behind it.
Reaches(s, m, e) ==
  IsCpu(e.s) /\ e.s.mem = s.mem /\ e.s.d = s.d /\ e.s.sr = s.sr /\ e.m = m

\* Addressing memory moves the PC or one address register, and touches nothing else.
LEMMA MemoryAddressed ==
  ASSUME NEW s, IsCpu(s), NEW m \in Alterable, NEW r, NEW sz
  PROVE  Reaches(s, m, addrCalcEA(s, m, r, sz))
<1> DEFINE e == addrCalcEA(s, m, r, sz)
<1>1. e.m = m /\ \E v : e.s \in {s, [s EXCEPT !.pc = v], [s EXCEPT !.a[r] = v]}
  <2>1. e.m = m /\ e.s \in {s, [s EXCEPT !.pc = s.pc + 2], [s EXCEPT !.pc = s.pc + 4],
                            AddA(s, r, addrIncrement(r, sz)), AddA(s, r, -addrIncrement(r, sz))}
    BY DEF addrCalcEA, Alterable
  <2>2. \A n : AddA(s, r, n) = [s EXCEPT !.a[r] = Trunc(s.a[r] + n, "l")]
    BY DEF AddA
  <2> HIDE DEF e
  <2>3. QED BY <2>1, <2>2
<1> HIDE DEF e
<1>2. PICK v : e.s \in {s, [s EXCEPT !.pc = v], [s EXCEPT !.a[r] = v]}
  BY <1>1
<1>3. ASSUME NEW t, t = [s EXCEPT !.pc = v] \/ t = [s EXCEPT !.a[r] = v]
      PROVE  IsCpu(t) /\ t.mem = s.mem /\ t.d = s.d /\ t.sr = s.sr
  BY <1>3 DEF IsCpu
<1>4. Reaches(s, m, e)
  BY <1>1, <1>2, <1>3 DEF Reaches
<1>5. QED BY <1>4 DEF e

\* A byte of memory has its bit n become b, no other byte or data register changes.
ByteBit(s, t, p, n, b) ==
  /\ OnlyBit(s.mem[p], t.mem[p], n, b) /\ t.mem[p] \in 0 .. 255
  /\ \A q \in Ram \ {p} : t.mem[q] = s.mem[q]
  /\ t.d = s.d /\ t.sr = [s.sr EXCEPT !.z = (Bit(s.mem[p], n) = 0)]

\* The operand of a bit instruction is the byte at p.
Aimed(s, i, p) == p \in Ram /\ p = Operand(s, i, "b").ea.addr /\ s.mem[p] \in 0 .. 255

\* In memory the number of the bit is taken modulo 8.
LEMMA BitInMemory ==
  ASSUME ByteBits = 8, NEW s, IsCpu(s), NEW i, i.m \in Alterable,
         NEW p, Aimed(s, i, p), NEW number \in Nat, NEW b \in {0, 1}
  PROVE  /\ ByteBit(s, BitPut(s, i, number, b), p, number % 8, b)
         /\ OperandBit(s, i, number) = Bit(s.mem[p], number % 8)
<1>aimed. p \in Ram /\ p = Operand(s, i, "b").ea.addr /\ s.mem[p] \in 0 .. 255
  BY DEF Aimed
<1>number. PICK n : n = number % 8
  OBVIOUS
<1> DEFINE e == addrCalcEA(s, i.m, i.r, "b")
           v == s.mem[p]
           w == v + (b - Bit(v, n)) * 2^n
           f == [s.sr EXCEPT !.z = (Bit(v, n) = 0)]
           u == [e.s EXCEPT !.sr = f]
<1>1. Bits("b") = 8 /\ Bytes("b") = 1 /\ i.m \notin {"Dn", "An", "#"} /\ 2^8 = 256
  <2>1. Bytes("b") = 1
    BY DEF Bytes
  <2>2. Bits("b") = 8
    BY <2>1, SMT DEF Bits
  <2>3. i.m \notin {"Dn", "An", "#"}
    BY DEF Alterable
  <2>4. 2^8 = 256
    OBVIOUS
  <2>5. QED BY <2>1, <2>2, <2>3, <2>4, Zenon
<1>2. IsCpu(e.s) /\ e.s.mem = s.mem /\ e.s.d = s.d /\ e.s.sr = s.sr /\ e.m = i.m
  <2>1. Reaches(s, i.m, e)
    BY MemoryAddressed, Zenon
  <2> HIDE DEF e
  <2>2. QED BY <2>1, Zenon DEF Reaches
<1> HIDE DEF e
<1>3. Operand(s, i, "b").s = e.s /\ Operand(s, i, "b").ea = e /\ Operand(s, i, "b").val = addrRead(e.s, e, "b")
  <2>1. Touched(e.s, e.addr, "b", FALSE) = e.s
    BY Zenon DEF Touched
  <2> DEFINE o == [ea |-> e, val |-> addrRead(e.s, e, "b"),
                   s |-> IF e.m \in {"Dn", "An", "#"} THEN e.s ELSE Touched(e.s, e.addr, "b", FALSE)]
  <2>2. Operand(s, i, "b") = o
    BY Zenon DEF Operand, e
  <2>3. o.ea = e /\ o.val = addrRead(e.s, e, "b") /\ o.s = e.s
    BY <2>1
  <2> HIDE DEF o
  <2>4. QED BY <2>2, <2>3
<1>4. e.addr = p /\ p % AddrSpace = p
  <2>1. p \in Nat /\ p < AddrSpace
    BY <1>aimed, InstructionsAssumption DEF Ram
  <2>2. QED BY <1>aimed, <1>3, <2>1, InstructionsAssumption
<1>5. addrRead(e.s, e, "b") = v
  <2>1. addrRead(e.s, e, "b") = busRead(e.s, p, "b")
    BY <1>1, <1>2, <1>4, Zenon DEF addrRead
  <2>2. busRead(e.s, p, "b") = busReadByte(e.s, p)
    BY DEF busRead
  <2>3. QED BY <1>aimed, <1>2, <1>4, <2>1, <2>2, Zenon DEF busReadByte
<1>6. v \in Nat /\ v < 2^8 /\ n \in 0 .. 31 /\ 8 \in 0 .. 32 /\ n < 8
  BY <1>1, <1>aimed, <1>number
<1>7. w \in Nat /\ w < 256 /\ OnlyBit(v, w, n, b)
  <2>1. w = v + (b - Bit(v, n)) * 2^n
    OBVIOUS
  <2> HIDE DEF v, w
  <2>2. w \in Nat /\ OnlyBit(v, w, n, b) /\ KeepsWidth(v, w, n)
    BY <1>6, <2>1, BitAlone, Zenon
  <2>3. QED BY <1>1, <1>6, <2>2 DEF KeepsWidth
<1>8. BitPut(s, i, number, b) = busWrite(u, p, w, "b") /\ OperandBit(s, i, number) = Bit(v, n)
  <2>1. ASSUME NEW q, NEW x PROVE addrWrite(q, e, x, "b") = busWrite(q, p, x, "b")
    BY <1>1, <1>2, <1>4, Zenon DEF addrWrite
  <2>2. BitPut(s, i, number, b) = addrWrite(u, e, w, "b")
    BY <1>1, <1>2, <1>3, <1>5, <1>number, Zenon DEF BitPut, w, f, u
  <2>3. OperandBit(s, i, number) = Bit(v, n)
    BY <1>1, <1>3, <1>5, <1>number, Zenon DEF OperandBit
  <2>4. QED BY <2>1, <2>2, <2>3, Zenon
<1>9. IsCpu(u) /\ u.mem = s.mem /\ u.d = s.d /\ u.sr = f
  <2>1. DOMAIN f = DOMAIN s.sr /\ f.t = s.sr.t /\ f.s = s.sr.s /\ f.ipl = s.sr.ipl
    BY <1>2 DEF f, IsCpu, IsSr
  <2>2. IsCpu(u)
    BY <1>2, <2>1 DEF IsCpu, IsSr
  <2>3. QED BY <1>2, <2>2 DEF IsCpu
<1> HIDE DEF u
<1> DEFINE t == busWrite(u, p, w, "b")
<1>10. Written(u, t, p, p, w)
  <2>1. (p % AddrSpace) + Bytes("b") - 1 = p
    BY <1>aimed, <1>1, <1>4, InstructionsAssumption DEF Ram
  <2> HIDE DEF w
  <2>2. Written(u, t, p % AddrSpace, (p % AddrSpace) + Bytes("b") - 1, w)
    BY <1>9, Writes, Zenon
  <2>3. QED BY <1>4, <2>1, <2>2, Zenon
<1> HIDE DEF t, w, v, f
<1>11. t.mem[p] = w /\ t.d = s.d /\ t.sr = f /\ \A q \in Ram \ {p} : t.mem[q] = s.mem[q]
  <2>1. p \in p .. p /\ p - p = 0 /\ \A q \in Ram \ {p} : q \notin p .. p
    BY <1>aimed, InstructionsAssumption DEF Ram
  <2>2. ByteOf(w, 0) = w
    <3>1. w \in Int /\ Modulus("b") = 256
      BY <1>7, Moduli
    <3>2. ByteOf(w, 0) = w % 256
      <4>1. ByteOf(w, 0) = Trunc(w, "b")
        BY <3>1, BytesAre
      <4>2. QED BY <3>1, <4>1 DEF Trunc
    <3>3. QED BY <1>7, <3>2
  <2>3. QED BY <1>aimed, <1>9, <1>10, <2>1, <2>2 DEF Written
<1>12. w \in 0 .. 255
  BY <1>7
<1>13. OnlyBit(s.mem[p], t.mem[p], n, b) /\ t.mem[p] \in 0 .. 255
  BY <1>7, <1>11, <1>12, Zenon DEF v
<1>14. t.sr = [s.sr EXCEPT !.z = (Bit(s.mem[p], n) = 0)] /\ OperandBit(s, i, number) = Bit(s.mem[p], n)
  BY <1>8, <1>11, Zenon DEF f, v
<1>15. ByteBit(s, t, p, n, b)
  BY <1>11, <1>13, <1>14, Zenon DEF ByteBit
<1>16. QED BY <1>8, <1>14, <1>15, <1>number, Zenon DEF t

\* bit.c: ... and of a byte of memory, in every mode that can change one, with the number modulo 8.
THEOREM MemoryBits ==
  ASSUME ByteBits = 8, NEW s, IsCpu(s), NEW i, i.m \in Alterable
  PROVE  /\ \A p : Aimed(s, i, p) /\ s.d[i.x] \in Nat =>
              LET n == s.d[i.x] % 8
              IN  /\ ByteBit(s, instrBsetDyn(s, i), p, n, 1)
                  /\ ByteBit(s, instrBclrDyn(s, i), p, n, 0)
                  /\ ByteBit(s, instrBchgDyn(s, i), p, n, 1 - Bit(s.mem[p], n))
         /\ LET t == instrFetchWord(s).s
                number == Trunc(instrFetchWord(s).w, "b")
                n == number % 8
            IN  \A p : Aimed(t, i, p) /\ number \in Nat =>
                  /\ ByteBit(s, instrBsetStatic(s, i), p, n, 1)
                  /\ ByteBit(s, instrBclrStatic(s, i), p, n, 0)
                  /\ ByteBit(s, instrBchgStatic(s, i), p, n, 1 - Bit(s.mem[p], n))
<1>1. ASSUME NEW t, IsCpu(t), NEW p, Aimed(t, i, p), NEW number \in Nat
      PROVE  /\ ByteBit(t, BitPut(t, i, number, 1), p, number % 8, 1)
             /\ ByteBit(t, BitPut(t, i, number, 0), p, number % 8, 0)
             /\ ByteBit(t, BitPut(t, i, number, 1 - OperandBit(t, i, number)), p, number % 8,
                        1 - Bit(t.mem[p], number % 8))
  <2>1. PICK n : n = number % 8
    OBVIOUS
  <2>2. ASSUME NEW b \in {0, 1}
        PROVE  /\ ByteBit(t, BitPut(t, i, number, b), p, n, b)
               /\ OperandBit(t, i, number) = Bit(t.mem[p], n)
    BY <1>1, <2>1, <2>2, BitInMemory, Zenon
  <2>3. 0 \in {0, 1} /\ 1 \in {0, 1}
    OBVIOUS
  <2>4. OperandBit(t, i, number) = Bit(t.mem[p], n)
    BY <2>2, <2>3, Zenon
  <2>5. 1 - OperandBit(t, i, number) \in {0, 1}
    <3>1. t.mem[p] \in Nat /\ n \in 0 .. 31
      BY <1>1, <2>1 DEF Aimed
    <3>2. Bit(t.mem[p], n) \in {0, 1}
      BY <3>1, BitRange
    <3>3. QED BY <2>4, <3>2
  <2>6. QED BY <2>1, <2>2, <2>3, <2>4, <2>5, Zenon
<1>2. IsCpu(instrFetchWord(s).s) /\ instrFetchWord(s).s.d = s.d /\ instrFetchWord(s).s.mem = s.mem
      /\ instrFetchWord(s).s.sr = s.sr
  <2>1. instrFetchWord(s).s = [s EXCEPT !.pc = s.pc + 2]
    BY DEF instrFetchWord
  <2>2. IsCpu([s EXCEPT !.pc = s.pc + 2])
    BY SetCpu, Zenon
  <2>3. QED BY <2>1, <2>2 DEF IsCpu
<1>3. ASSUME NEW p, Aimed(s, i, p), s.d[i.x] \in Nat,
             NEW n, n = s.d[i.x] % 8
      PROVE  /\ ByteBit(s, instrBsetDyn(s, i), p, n, 1)
             /\ ByteBit(s, instrBclrDyn(s, i), p, n, 0)
             /\ ByteBit(s, instrBchgDyn(s, i), p, n, 1 - Bit(s.mem[p], n))
  BY <1>1, <1>3, BitPuts, Zenon
<1>4. ASSUME NEW t, t = instrFetchWord(s).s, NEW number, number = Trunc(instrFetchWord(s).w, "b"), number \in Nat,
             NEW n, n = number % 8, NEW p, Aimed(t, i, p)
      PROVE  /\ ByteBit(s, instrBsetStatic(s, i), p, n, 1)
             /\ ByteBit(s, instrBclrStatic(s, i), p, n, 0)
             /\ ByteBit(s, instrBchgStatic(s, i), p, n, 1 - Bit(s.mem[p], n))
  <2>1. IsCpu(t) /\ t.d = s.d /\ t.mem = s.mem /\ t.sr = s.sr
    BY <1>2, <1>4, Zenon
  <2>2. /\ instrBsetStatic(s, i) = BitPut(t, i, number, 1)
        /\ instrBclrStatic(s, i) = BitPut(t, i, number, 0)
        /\ instrBchgStatic(s, i) = BitPut(t, i, number, 1 - OperandBit(t, i, number))
    BY <1>4, BitPuts, Zenon
  <2>3. /\ ByteBit(t, BitPut(t, i, number, 1), p, n, 1)
        /\ ByteBit(t, BitPut(t, i, number, 0), p, n, 0)
        /\ ByteBit(t, BitPut(t, i, number, 1 - OperandBit(t, i, number)), p, n, 1 - Bit(s.mem[p], n))
    BY <1>1, <1>4, <2>1, Zenon
  <2>4. \A u, b : ByteBit(t, u, p, n, b) => ByteBit(s, u, p, n, b)
    BY <2>1, Zenon DEF ByteBit
  <2>5. QED BY <2>2, <2>3, <2>4, Zenon
<1>5. QED BY <1>3, <1>4, Zenon

----------------------------------------------------------------------------
(* MOVEM: the registers of a mask, each in a place of its own. *)

LEMMA Ranks ==
  ASSUME NEW mask \in SUBSET (0 .. 15), NEW n \in mask
  PROVE  /\ Rank(mask, n) \in Nat /\ Cardinality(mask) \in Nat /\ Rank(mask, n) + 1 <= Cardinality(mask)
         /\ \A m \in mask : n < m => Rank(mask, n) + 1 <= Rank(mask, m)
<1> DEFINE Below(m) == {k \in mask : k < m}
<1>1. IsFiniteSet(mask)
  <2>1. IsFiniteSet(0 .. 15)
    <3>1. 0 \in Int /\ 15 \in Int
      OBVIOUS
    <3>2. QED BY <3>1, FS_Interval, Zenon
  <2>2. QED BY <2>1, FS_Subset
<1>2. \A T \in SUBSET mask : IsFiniteSet(T) /\ Cardinality(T) \in Nat
  BY <1>1, FS_Subset, FS_CardinalityType
<1>3. \A m : Rank(mask, m) = Cardinality(Below(m)) /\ Below(m) \in SUBSET mask
  BY DEF Rank
<1>4. n \notin Below(n)
  OBVIOUS
<1>5. Cardinality(Below(n) \cup {n}) = Rank(mask, n) + 1
  BY <1>2, <1>3, <1>4, FS_AddElement
<1>6. ASSUME NEW T \in SUBSET mask, Below(n) \cup {n} \in SUBSET T
      PROVE  Rank(mask, n) + 1 <= Cardinality(T)
  BY <1>2, <1>5, <1>6, FS_Subset
<1>7. Below(n) \cup {n} \in SUBSET mask
  OBVIOUS
<1>8. ASSUME NEW m \in mask, n < m PROVE Rank(mask, n) + 1 <= Rank(mask, m)
  <2>1. \A k \in mask : k \in Int
    OBVIOUS
  <2>2. \A k \in Below(n) \cup {n} : k \in mask /\ k < m
    BY <1>8, <2>1
  <2>3. Below(n) \cup {n} \in SUBSET Below(m)
    BY <2>2, Zenon
  <2>4. QED BY <1>3, <1>6, <2>3
<1>9. Rank(mask, n) \in Nat /\ Cardinality(mask) \in Nat
  BY <1>2, <1>3
<1>10. Rank(mask, n) + 1 <= Cardinality(mask)
  BY <1>6, <1>7
<1>11. QED BY <1>8, <1>9, <1>10

\* Where a mask's registers lie from p upwards: no two of them share a byte.
Place(mask, p, n) == p + 4 * Rank(mask, n)

LEMMA Apart ==
  ASSUME NEW mask \in SUBSET (0 .. 15), NEW p \in Nat, NEW n \in mask
  PROVE  /\ Place(mask, p, n) \in Nat /\ Place(mask, p, n) + 4 <= p + 4 * Cardinality(mask)
         /\ p <= Place(mask, p, n)
         /\ \A m \in mask : \A b \in Place(mask, p, n) .. Place(mask, p, n) + 3 :
              b \in Place(mask, p, m) .. Place(mask, p, m) + 3 => m = n
<1>1. \A m \in mask : m \in Int /\ Rank(mask, m) \in Nat
  BY Ranks
<1>2. Rank(mask, n) + 1 <= Cardinality(mask) /\ Cardinality(mask) \in Nat
  BY Ranks
<1>3. ASSUME NEW m \in mask, m # n
      PROVE  Rank(mask, n) + 1 <= Rank(mask, m) \/ Rank(mask, m) + 1 <= Rank(mask, n)
  <2>1. n < m \/ m < n
    BY <1>1, <1>3
  <2>2. QED BY <2>1, Ranks
<1>4. QED BY <1>1, <1>2, <1>3 DEF Place

LEMMA StoresAll ==
  ASSUME ByteBits = 8, NEW s, IsCpu(s), NEW mask \in SUBSET (0 .. 15), NEW p,
         Room(p, 4 * Cardinality(mask)), NEW n \in mask
  PROVE  LongIn(Stored(s, mask, p, 4, "l").mem, Place(mask, p, n), Register(s, n))
<1> DEFINE First(m) == (p + 4 * Rank(mask, m)) % AddrSpace
           Last(m) == First(m) + Bytes("l") - 1
           At(b) == {m \in mask : b \in First(m) .. Last(m)}
           Byte(b, m) == ByteOf(Register(s, m), Last(m) - b)
           mem == [b \in Ram |-> IF At(b) = {} THEN s.mem[b] ELSE Byte(b, CHOOSE m \in At(b) : TRUE)]
           q == Place(mask, p, n)
<1>1. p \in Nat /\ p + 4 * Cardinality(mask) <= RamTop + 1 /\ RamTop \in Nat /\ AddrSpace \in Nat /\ RamTop < AddrSpace
      /\ Cardinality(mask) \in Nat /\ 1 <= Cardinality(mask)
  <2>1. Cardinality(mask) \in Nat /\ Rank(mask, n) \in Nat /\ Rank(mask, n) + 1 <= Cardinality(mask)
    BY Ranks
  <2>2. QED BY <2>1, InstructionsAssumption DEF Room
<1>2. Stored(s, mask, p, 4, "l").mem = mem
  <2>1. ~Odd(p)
    <3>1. p % AddrSpace = p
      BY <1>1
    <3>2. QED BY <3>1, EvenRoom
  <2>2. Stored(s, mask, p, 4, "l") = [s EXCEPT !.mem = mem]
    BY <2>1, Zenon DEF Stored, StoredAt
  <2> HIDE DEF mem
  <2>3. QED BY <2>2 DEF IsCpu
<1>3. \A m \in mask : First(m) = Place(mask, p, m) /\ Last(m) = Place(mask, p, m) + 3
  <2>1. ASSUME NEW m \in mask PROVE Place(mask, p, m) \in Nat /\ Place(mask, p, m) < AddrSpace
    BY <1>1, Apart
  <2>2. Bytes("l") = 4
    BY DEF Bytes
  <2>3. ASSUME NEW m \in mask PROVE First(m) = Place(mask, p, m)
    <3>1. ASSUME NEW x \in Nat, x < AddrSpace PROVE x % AddrSpace = x
      BY <1>1, <3>1
    <3>2. Place(mask, p, m) % AddrSpace = Place(mask, p, m)
      BY <2>1, <3>1
    <3>3. QED BY <3>2, Zenon DEF Place
  <2> HIDE DEF First
  <2>4. QED BY <2>1, <2>2, <2>3
<1>4. q \in Nat /\ q + 3 <= RamTop
  <2>1. q \in Nat /\ q + 4 <= p + 4 * Cardinality(mask)
    BY <1>1, Apart
  <2> HIDE DEF q
  <2>2. QED BY <1>1, <2>1
<1> HIDE DEF First, Last
<1>5. ASSUME NEW b \in q .. q + 3
      PROVE  mem[b] = ByteOf(Register(s, n), (q + 3) - b)
  <2>1. b \in Ram
    BY <1>1, <1>4 DEF Ram
  <2>2. At(b) = {n}
    <3>1. n \in At(b)
      BY <1>3
    <3>2. \A m \in At(b) : m = n
      BY <1>1, <1>3, Apart
    <3>3. QED BY <3>1, <3>2
  <2> HIDE DEF At
  <2>3. (CHOOSE m \in At(b) : TRUE) = n /\ At(b) # {}
    BY <2>2
  <2> HIDE DEF Byte
  <2>4. mem[b] = Byte(b, n)
    BY <2>1, <2>3, Zenon
  <2>5. Last(n) = q + 3
    BY <1>3
  <2>6. Byte(b, n) = ByteOf(Register(s, n), Last(n) - b)
    BY Zenon DEF Byte
  <2>7. Last(n) - b = (q + 3) - b
    BY <2>5, Zenon
  <2>8. QED BY <2>4, <2>6, <2>7, Zenon
<1> HIDE DEF mem, q
<1>6. /\ q \in q .. q + 3 /\ q + 1 \in q .. q + 3 /\ q + 2 \in q .. q + 3 /\ q + 3 \in q .. q + 3
      /\ (q + 3) - q = 3 /\ (q + 3) - (q + 1) = 2 /\ (q + 3) - (q + 2) = 1 /\ (q + 3) - (q + 3) = 0
  BY <1>4
<1>7. /\ mem[q] = ByteOf(Register(s, n), (q + 3) - q) /\ mem[q + 1] = ByteOf(Register(s, n), (q + 3) - (q + 1))
      /\ mem[q + 2] = ByteOf(Register(s, n), (q + 3) - (q + 2)) /\ mem[q + 3] = ByteOf(Register(s, n), (q + 3) - (q + 3))
  BY <1>5, <1>6
<1>8. LongIn(mem, q, Register(s, n))
  BY <1>6, <1>7, Zenon DEF LongIn
<1>9. QED BY <1>2, <1>8, Zenon DEF q

LEMMA LoadedIs ==
  ASSUME NEW h, IsCpu(h), NEW mask \in SUBSET (0 .. 15), NEW start, ~Odd(start), NEW n \in 0 .. 15,
         NEW t, t = Loaded(h, mask, start, "l")
  PROVE  /\ n \in mask => Register(t, n) = busReadLong(h, start + 4 * Rank(mask, n))
         /\ n \notin mask => Register(t, n) = Register(h, n)
         /\ t.mem = h.mem /\ t.sr = h.sr /\ t.pc = h.pc
<1> DEFINE From(a) == busReadLong(h, a)
           Into(m, old) == IF m \in mask THEN From(start + 4 * Rank(mask, m)) ELSE old
           d == [m \in 0 .. 7 |-> Into(m, h.d[m])]
           a == [m \in 0 .. 7 |-> Into(m + 8, h.a[m])]
<1>1. t = [h EXCEPT !.d = d, !.a = a]
  <2>1. Bytes("l") = 4
    BY DEF Bytes
  <2>2. AllTouched(h, mask, start, Bytes("l"), "l", FALSE) = h
    BY Zenon DEF AllTouched
  <2>3. QED BY <2>1, <2>2, Zenon DEF Loaded
<1>2. (n < 8 => d[n] = Into(n, h.d[n])) /\ (~(n < 8) => a[n - 8] = Into(n, h.a[n - 8]))
  <2> HIDE DEF Into
  <2>1. n < 8 => n \in 0 .. 7
    OBVIOUS
  <2>2. ~(n < 8) => n - 8 \in 0 .. 7 /\ n - 8 + 8 = n
    OBVIOUS
  <2>3. QED BY <2>1, <2>2
<1> HIDE DEF d, a, Into
<1>3. t.d = d /\ t.a = a /\ t.mem = h.mem /\ t.sr = h.sr /\ t.pc = h.pc
  BY <1>1 DEF IsCpu
<1>4. Register(t, n) = Into(n, Register(h, n))
  BY <1>2, <1>3, Zenon DEF Register
<1>5. QED BY <1>3, <1>4 DEF Into

LEMMA LoadedCpu ==
  ASSUME NEW h, IsCpu(h), NEW mask, NEW start, NEW l, l = Loaded(h, mask, start, "l")
  PROVE  IsCpu(l)
<1> DEFINE g == AllTouched(h, mask, start, Bytes("l"), "l", FALSE)
<1>1. IsCpu(g)
  BY KeptSelf, AllTouchedKept, KeptIs, Zenon
<1>2. ASSUME NEW d, DOMAIN d = 0 .. 7, NEW a, DOMAIN a = 0 .. 7
      PROVE  IsCpu([g EXCEPT !.d = d, !.a = a])
  <2> HIDE DEF g
  <2>1. QED BY <1>1, <1>2 DEF IsCpu
<1>3. PICK d, a : DOMAIN d = 0 .. 7 /\ DOMAIN a = 0 .. 7 /\ l = [g EXCEPT !.d = d, !.a = a]
  <2> DEFINE From(addr) == busReadLong(h, addr)
             Into(m, old) == IF m \in mask THEN From(start + Bytes("l") * Rank(mask, m)) ELSE old
             d == [m \in 0 .. 7 |-> Into(m, g.d[m])]
             a == [m \in 0 .. 7 |-> Into(m + 8, g.a[m])]
  <2>1. l = [g EXCEPT !.d = d, !.a = a]
    BY Zenon DEF Loaded
  <2>2. DOMAIN d = 0 .. 7 /\ DOMAIN a = 0 .. 7
    OBVIOUS
  <2> HIDE DEF d, a, g
  <2>3. QED BY <2>1, <2>2
<1> HIDE DEF g
<1>4. IsCpu([g EXCEPT !.d = d, !.a = a])
  BY <1>2, <1>3, Zenon
<1>5. QED BY <1>3, <1>4, Zenon

LEMMA LoadsAll ==
  ASSUME ByteBits = 8, NEW h, IsCpu(h), NEW mask \in SUBSET (0 .. 15), NEW start \in Int, NEW p, p = start % AddrSpace,
         Room(p, 4 * Cardinality(mask)), NEW n \in mask, NEW val, val \in LongValue,
         LongIn(h.mem, Place(mask, p, n), val)
  PROVE  Register(Loaded(h, mask, start, "l"), n) = val
<1>1. Rank(mask, n) \in Nat /\ Rank(mask, n) + 1 <= Cardinality(mask) /\ Cardinality(mask) \in Nat
  BY Ranks
<1>2. p \in Nat /\ p + 4 * Cardinality(mask) <= RamTop + 1 /\ RamTop \in Nat
  BY InstructionsAssumption DEF Room
<1>3. (start + 4 * Rank(mask, n)) % AddrSpace = Place(mask, p, n)
  <2>1. 4 * Rank(mask, n) \in Nat /\ p + 4 * Rank(mask, n) <= RamTop
    BY <1>1, <1>2
  <2>2. QED BY <2>1, Ahead DEF Place
<1>4. Room(Place(mask, p, n), 4)
  <2>1. \A a \in DOMAIN rom : a \notin p .. p + 4 * Cardinality(mask) - 1
    BY DEF Room
  <2>2. ASSUME NEW a \in Place(mask, p, n) .. Place(mask, p, n) + 4 - 1 PROVE a \in p .. p + 4 * Cardinality(mask) - 1
    BY <1>1, <1>2 DEF Place
  <2>3. Place(mask, p, n) \in Nat /\ Place(mask, p, n) + 4 <= RamTop + 1
    BY <1>1, <1>2 DEF Place
  <2>4. Place(mask, p, n) % 2 = 0
    <3>1. ASSUME NEW k \in Nat PROVE (p + 4 * k) % 2 = 0
      BY <1>2 DEF Room
    <3>2. QED BY <1>1, <3>1 DEF Place
  <2>5. QED BY <2>1, <2>2, <2>3, <2>4 DEF Room
<1>5. busReadLong(h, start + 4 * Rank(mask, n)) = val
  <2>1. start + 4 * Rank(mask, n) \in Int
    BY <1>1
  <2>2. val \in Int /\ Trunc(val, "l") = val
    BY Moduli DEF Trunc, LongValue
  <2>3. QED BY <1>3, <1>4, <2>1, <2>2, ReadsLong
<1>6. Register(Loaded(h, mask, start, "l"), n) = busReadLong(h, start + 4 * Rank(mask, n))
  <2>1. ~Odd(start)
    BY EvenRoom
  <2>2. QED BY <2>1, LoadedIs
<1>7. QED BY <1>5, <1>6

\* The MOVEM.L i stores the registers of mask from p upwards, and in h they are still where
\* the MOVEM.L j loads those of the same mask.
StillThere(s, i, mask, p, h, j) ==
  /\ IsCpu(s) /\ i.m = "(An)" /\ i.sz = "l" /\ s.a[i.r] \in LongValue /\ p = s.a[i.r] % AddrSpace
  /\ mask \in SUBSET (0 .. 15) /\ mask = instrFetchWord(s).w /\ Room(p, 4 * Cardinality(mask))
  /\ IsCpu(h) /\ \A b \in p .. p + 4 * Cardinality(mask) - 1 : h.mem[b] = instrMovemRegToMem(s, i).mem[b]
  /\ j.m \in {"(An)", "(An)+"} /\ j.sz = "l" /\ j.r \in 0 .. 7 /\ h.a[j.r] = s.a[i.r] /\ mask = instrFetchWord(h).w

\* Unless the pointer is one of them, which (An)+ leaves behind them.
Reloaded(s, h, j, mask, n) ==
  LET t == instrMovemMemToReg(h, j)
  IN  (j.m = "(An)+" => n # j.r + 8) =>
        /\ n \in mask /\ Register(s, n) \in LongValue => Register(t, n) = Register(s, n)
        /\ n \notin mask => Register(t, n) = Register(h, n)

\* move.c: whatever a routine does with its registers, if it leaves alone the memory that MOVEM.L
\* stored some of them in, upwards from an address register, the MOVEM.L of the same mask from
\* there loads each of them unchanged, and no other.
THEOREM RegistersReload ==
  ASSUME ByteBits = 8, NEW s, NEW i, NEW mask, NEW p, NEW h, NEW j, StillThere(s, i, mask, p, h, j)
  PROVE  /\ \A n \in 0 .. 15 : Reloaded(s, h, j, mask, n)
         /\ j.m = "(An)+" => instrMovemMemToReg(h, j).a[j.r] = Trunc(s.a[i.r] + 4 * Cardinality(mask), "l")
<1> DEFINE w == instrFetchWord(s).s
           g == instrFetchWord(h).s
           t == instrMovemMemToReg(h, j)
           e == instrMovemRegToMem(s, i)
           top == s.a[i.r]
<1>0. /\ IsCpu(s) /\ i.m = "(An)" /\ i.sz = "l" /\ top \in LongValue /\ p = top % AddrSpace
      /\ mask \in SUBSET (0 .. 15) /\ mask = instrFetchWord(s).w /\ Room(p, 4 * Cardinality(mask))
      /\ IsCpu(h) /\ \A b \in p .. p + 4 * Cardinality(mask) - 1 : h.mem[b] = e.mem[b]
      /\ j.m \in {"(An)", "(An)+"} /\ j.sz = "l" /\ j.r \in 0 .. 7 /\ h.a[j.r] = top /\ mask = instrFetchWord(h).w
  BY Zenon DEF StillThere
<1>1. top \in Nat /\ Trunc(top, "l") = top /\ p \in Nat /\ Bytes("l") = 4
  <2>1. Bytes("l") = 4
    BY DEF Bytes
  <2>2. top \in 0 .. Modulus("l") - 1 /\ Modulus("l") \in Nat \ {0} /\ AddrSpace \in Nat \ {0}
    BY <1>0, Moduli, InstructionsAssumption DEF LongValue
  <2>3. p = top % AddrSpace
    BY <1>0
  <2> HIDE DEF top
  <2>4. top \in Nat /\ top % Modulus("l") = top
    BY <2>2
  <2>5. p \in Nat
    BY <2>2, <2>3, <2>4
  <2>6. QED BY <2>1, <2>4, <2>5 DEF Trunc
<1>2. ASSUME NEW u, IsCpu(u)
      PROVE  /\ IsCpu(instrFetchWord(u).s) /\ instrFetchWord(u).s.d = u.d /\ instrFetchWord(u).s.a = u.a
             /\ instrFetchWord(u).s.mem = u.mem
  <2>1. instrFetchWord(u).s = [u EXCEPT !.pc = u.pc + 2]
    BY DEF instrFetchWord
  <2>2. IsCpu([u EXCEPT !.pc = u.pc + 2])
    BY <1>2, SetCpu, Zenon
  <2>3. QED BY <1>2, <2>1, <2>2 DEF IsCpu
<1>3. IsCpu(w) /\ w.d = s.d /\ w.a = s.a /\ IsCpu(g) /\ g.d = h.d /\ g.a = h.a /\ g.mem = h.mem
  BY <1>0, <1>2
<1> HIDE DEF w, g, top
<1>4. ASSUME NEW u, NEW r, NEW sz
      PROVE  addrCalcEA(u, "(An)", r, sz).s = u /\ addrCalcEA(u, "(An)", r, sz).addr = Trunc(u.a[r], "l") % AddrSpace
  BY DEF addrCalcEA
<1>5. e = Stored(w, mask, p, 4, "l")
  <2>1. e = Stored(addrCalcEA(w, "(An)", i.r, "l").s, mask, addrCalcEA(w, "(An)", i.r, "l").addr, Bytes("l"), "l")
    BY <1>0, Zenon DEF instrMovemRegToMem, w
  <2>2. addrCalcEA(w, "(An)", i.r, "l").s = w /\ addrCalcEA(w, "(An)", i.r, "l").addr = p
    <3>1. w.a[i.r] = top
      BY <1>3, Zenon DEF top
    <3>2. QED BY <1>0, <1>1, <1>4, <3>1
  <2>3. QED BY <1>1, <2>1, <2>2, Zenon
<1> HIDE DEF e
<1>6. ASSUME NEW n \in mask PROVE LongIn(h.mem, Place(mask, p, n), Register(s, n))
  <2> DEFINE q == Place(mask, p, n)
  <2>1. LongIn(e.mem, q, Register(s, n))
    <3>1. Register(w, n) = Register(s, n)
      BY <1>3, Zenon DEF Register
    <3>2. QED BY <1>0, <1>3, <1>5, <3>1, StoresAll
  <2>2. q \in Nat /\ q + 4 <= p + 4 * Cardinality(mask) /\ p <= q /\ Cardinality(mask) \in Nat
    BY <1>0, <1>1, Apart, Ranks
  <2> HIDE DEF q
  <2>3. \A b \in q .. q + 3 : h.mem[b] = e.mem[b]
    BY <1>0, <1>1, <2>2
  <2>4. q \in q .. q + 3 /\ q + 1 \in q .. q + 3 /\ q + 2 \in q .. q + 3 /\ q + 3 \in q .. q + 3
    BY <2>2
  <2>5. LongIn(h.mem, q, Register(s, n))
    BY <2>1, <2>3, <2>4, Zenon DEF LongIn
  <2>6. QED BY <2>5 DEF q
<1>7. ASSUME NEW start \in Int, start % AddrSpace = p, NEW l, l = Loaded(g, mask, start, "l")
      PROVE  /\ IsCpu(l)
             /\ \A n \in mask : Register(s, n) \in LongValue => Register(l, n) = Register(s, n)
             /\ \A n \in (0 .. 15) \ mask : Register(l, n) = Register(h, n)
  <2>1. ASSUME NEW n \in mask, Register(s, n) \in LongValue PROVE Register(l, n) = Register(s, n)
    BY <1>0, <1>3, <1>6, <1>7, <2>1, LoadsAll
  <2>2. ASSUME NEW n \in (0 .. 15) \ mask PROVE Register(l, n) = Register(h, n)
    <3>1. ~Odd(start)
      BY <1>0, <1>7, EvenRoom
    <3>2. Register(l, n) = Register(g, n)
      BY <1>0, <1>3, <1>7, <3>1, LoadedIs
    <3>3. QED BY <1>3, <3>2, Zenon DEF Register
  <2>3. IsCpu(l)
    BY <1>0, <1>3, <1>7, LoadedCpu
  <2>4. QED BY <2>1, <2>2, <2>3
<1>8. CASE j.m = "(An)"
  <2>1. t = Loaded(g, mask, p, "l")
    <3>1. t = Loaded(addrCalcEA(g, "(An)", j.r, "l").s, mask, addrCalcEA(g, "(An)", j.r, "l").addr, "l")
      BY <1>0, <1>8, Zenon DEF instrMovemMemToReg, g
    <3>2. addrCalcEA(g, "(An)", j.r, "l").s = g /\ addrCalcEA(g, "(An)", j.r, "l").addr = p
      <4>1. g.a[j.r] = top
        BY <1>0, <1>3
      <4>2. QED BY <1>0, <1>1, <1>4, <4>1
    <3>3. QED BY <3>1, <3>2, Zenon
  <2>2. p \in Int /\ p % AddrSpace = p
    BY <1>0, <1>1, InstructionsAssumption
  <2> HIDE DEF t
  <2>3. /\ \A n \in mask : Register(s, n) \in LongValue => Register(t, n) = Register(s, n)
        /\ \A n \in (0 .. 15) \ mask : Register(t, n) = Register(h, n)
    BY <1>7, <2>1, <2>2, Zenon
  <2>4. QED BY <1>8, <2>3, Zenon DEF t, Reloaded
<1>9. CASE j.m = "(An)+"
  <2> DEFINE l == Loaded(g, mask, top, "l")
             v == Trunc(top + Bytes("l") * Cardinality(mask), "l")
  <2>1. t = [l EXCEPT !.a[j.r] = v]
    BY <1>0, <1>9, Zenon DEF instrMovemMemToReg, g
  <2>2. /\ IsCpu(l)
        /\ \A n \in mask : Register(s, n) \in LongValue => Register(l, n) = Register(s, n)
        /\ \A n \in (0 .. 15) \ mask : Register(l, n) = Register(h, n)
    <3>1. top \in Int
      BY <1>0, <1>1
    <3>2. QED BY <1>0, <1>1, <1>7, <3>1, Zenon
  <2> HIDE DEF l, v, t
  <2>3. t.d = l.d /\ t.a[j.r] = v /\ \A r \in 0 .. 7 : r # j.r => t.a[r] = l.a[r]
    BY <1>0, <2>1, <2>2 DEF IsCpu
  <2>4. ASSUME NEW n \in 0 .. 15, n # j.r + 8 PROVE Register(t, n) = Register(l, n)
    <3>1. ~(n < 8) => n - 8 \in 0 .. 7 /\ n - 8 # j.r
      BY <1>0, <2>4
    <3>2. QED BY <2>3, <3>1, Zenon DEF Register
  <2>5. v = Trunc(top + 4 * Cardinality(mask), "l")
    BY <1>1, Zenon DEF v
  <2>6. ASSUME NEW n \in 0 .. 15 PROVE Reloaded(s, h, j, mask, n)
    BY <1>9, <2>2, <2>4, Zenon DEF t, Reloaded
  <2>7. QED BY <2>3, <2>5, <2>6, Zenon DEF t, top
<1>10. QED BY <1>0, <1>8, <1>9

LEMMA ReloadBack ==
  ASSUME ByteBits = 8, TypeOK
  PROVE  SavesReload
<1> DEFINE s == Fetched(cpu)
           i == rom[cpu.pc]
           mask == MaskAhead
           e == instrMovemRegToMem(s, i)
           h == [e EXCEPT !.pc = s.pc]
           top == cpu.a[i.r]
           p == top % AddrSpace
<1>1. IsCpu(s) /\ ~s.erred /\ s.a = cpu.a /\ s.d = cpu.d /\ s.pc = cpu.pc + 2
  <2>1. IsCpu(s) /\ ~s.erred
    BY FetchedKept, Zenon DEF TypeOK
  <2>2. QED BY <2>1 DEF TypeOK, IsCpu, Fetched
<1> HIDE DEF s, i, mask, top, p
<1>2. SUFFICES ASSUME i.m = "(An)", i.sz = "l", mask \in SUBSET (0 .. 15), i.r \in 0 .. 7, top \in LongValue,
                      Room(p, 4 * Cardinality(mask)), s.pc % AddrSpace = s.pc, s.pc \in DOMAIN rom, ~Odd(s.pc)
               PROVE  LET t == instrMovemMemToReg(h, i)
                      IN  /\ \A n \in mask : Register(cpu, n) \in LongValue => Register(t, n) = Register(cpu, n)
                          /\ \A n \in (0 .. 15) \ mask : Register(t, n) = Register(cpu, n)
  <2>1. ASSUME Facing("MovemRegToMem"), cpu.pc \in Nat, cpu.pc + 2 < AddrSpace
        PROVE  s.pc % AddrSpace = s.pc /\ ~Odd(s.pc)
    BY <1>1, <2>1, InstructionsAssumption DEF Facing, Odd
  <2>2. QED BY <1>1, <2>1, Zenon DEF SavesReload, s, i, mask, top, p
<1>3. IsCpu(e) /\ e.a = s.a /\ e.d = s.d
  <2>1. IsCpu(e)
    BY <1>1, MovemKept, KeptIs, Zenon
  <2>2. e.a = addrCalcEA(instrFetchWord(s).s, "(An)", i.r, "l").s.a
        /\ e.d = addrCalcEA(instrFetchWord(s).s, "(An)", i.r, "l").s.d
    <3>1. ASSUME NEW u, IsCpu(u), NEW set, NEW start, ~Odd(start), NEW step
          PROVE  Stored(u, set, start, step, "l").a = u.a /\ Stored(u, set, start, step, "l").d = u.d
      <4>1. \A m : LET w == [u EXCEPT !.mem = m] IN w.a = u.a /\ w.d = u.d
        BY <3>1 DEF IsCpu
      <4>2. QED BY <3>1, <4>1, Zenon DEF Stored, StoredAt
    <3> DEFINE x == addrCalcEA(instrFetchWord(s).s, "(An)", i.r, "l")
               u == x.s
    <3>2. IsCpu(u)
      BY <1>1, KeptSelf, FetchKept, AddressKept, KeptIs, Zenon
    <3>3. PICK set, step : e = Stored(u, set, x.addr, step, "l")
      BY <1>2, Zenon DEF instrMovemRegToMem
    <3>4. x.addr % AddrSpace = p
      <4>1. x.addr = Trunc(s.a[i.r], "l") % AddrSpace
        <5>1. ASSUME NEW w PROVE addrCalcEA(w, "(An)", i.r, "l").addr = Trunc(w.a[i.r], "l") % AddrSpace
          BY DEF addrCalcEA
        <5>2. instrFetchWord(s).s.a = s.a
          BY <1>1 DEF instrFetchWord, IsCpu
        <5>3. QED BY <5>1, <5>2, Zenon
      <4>2. s.a[i.r] = top
        BY <1>1, Zenon DEF top
      <4>3. top \in Int
        BY <1>2, Moduli DEF LongValue
      <4>4. Trunc(top, "l") % AddrSpace = p
        BY <4>3, LongCut DEF p
      <4>5. p % AddrSpace = p
        BY <4>3, InstructionsAssumption DEF p
      <4>6. QED BY <4>1, <4>2, <4>4, <4>5
    <3>5. ~Odd(x.addr)
      BY <1>2, <3>4, EvenRoom
    <3> HIDE DEF e, u, x
    <3>6. Stored(u, set, x.addr, step, "l").a = u.a /\ Stored(u, set, x.addr, step, "l").d = u.d
      BY <3>1, <3>2, <3>5
    <3>7. e.a = u.a /\ e.d = u.d
      BY <3>3, <3>6
    <3>8. QED BY <3>7 DEF u, x
  <2>3. addrCalcEA(instrFetchWord(s).s, "(An)", i.r, "l").s = [s EXCEPT !.pc = s.pc + 2]
    BY DEF addrCalcEA, instrFetchWord
  <2> HIDE DEF e
  <2>4. QED BY <1>1, <2>1, <2>2, <2>3 DEF IsCpu
<1> HIDE DEF e
<1>4. IsCpu(h) /\ h.a = cpu.a /\ h.d = cpu.d /\ h.mem = e.mem /\ h.pc = s.pc
  <2>1. IsCpu(h)
    BY <1>3, SetCpu, Zenon
  <2>2. QED BY <1>1, <1>3, <2>1 DEF IsCpu
<1> HIDE DEF h
<1>5. instrFetchWord(h).w = mask /\ instrFetchWord(s).w = mask
  BY <1>1, <1>2, <1>4, Zenon DEF instrFetchWord, busReadWord, mask, MaskAhead
<1>6. LET t == instrMovemMemToReg(h, i)
      IN  /\ \A n \in mask : Register(s, n) \in LongValue => Register(t, n) = Register(s, n)
          /\ \A n \in (0 .. 15) \ mask : Register(t, n) = Register(h, n)
  <2> DEFINE t == instrMovemMemToReg(h, i)
  <2>1. /\ top = s.a[i.r] /\ p = top % AddrSpace /\ mask = instrFetchWord(s).w /\ e = instrMovemRegToMem(s, i)
        /\ \A b \in p .. p + 4 * Cardinality(mask) - 1 : h.mem[b] = e.mem[b]
        /\ h.a[i.r] = top /\ mask = instrFetchWord(h).w /\ i.m \in {"(An)", "(An)+"} /\ i.m # "(An)+"
    BY <1>1, <1>2, <1>4, <1>5, Zenon DEF top, p, e
  <2>2. StillThere(s, i, mask, p, h, i)
    BY <1>1, <1>2, <1>4, <2>1, Zenon DEF StillThere
  <2>3. \A n \in 0 .. 15 : Reloaded(s, h, i, mask, n)
    BY <2>2, RegistersReload, Zenon
  <2>4. \A n \in mask : n \in 0 .. 15
    BY <1>2
  <2>5. QED BY <2>1, <2>3, <2>4, Zenon DEF Reloaded
<1>7. ASSUME NEW n PROVE Register(s, n) = Register(cpu, n) /\ Register(h, n) = Register(cpu, n)
  BY <1>1, <1>4, Zenon DEF Register
<1>8. QED BY <1>6, <1>7, Zenon

\* exceptions.c, branch.c, move.c: at any point of any code, an exception and its RTE, a call and
\* an RTS, a LINK and an UNLK, a MOVEM and its reverse together give back what was saved.
THEOREM SavedCorrect ==
  ASSUME ByteBits = 8
  PROVE  Spec /\ []CodesGiven => []SavedRestored
<1>1. TypeOK => SavedRestored
  BY ExceptionBack, CallBack, LinkBack, ReloadBack, Zenon DEF SavedRestored
<1>2. QED BY <1>1, TypeCorrect, PTL

=============================================================================
