--------------------------- MODULE MachineProofs ---------------------------
(***************************************************************************)
(* Proofs about Machine, under any program: its types, what a program in   *)
(* user mode can do, stops and the entry of exceptions.  Then about Kernel *)
(* on it: under any interrupts, memory holds every open frame, RTE         *)
(* restores what was interrupted, and the masks rise.                      *)
(***************************************************************************)
EXTENDS Kernel, SequenceTheorems, TLAPS

----------------------------------------------------------------------------
(* Words, the status register and memory *)

LEMMA Sizes == Word = 65536 /\ AddrSpace = 16777216
  BY DEF Word, AddrSpace

LEMMA WordsAre == \A x : x \in Words <=> x \in Int /\ 0 <= x /\ x < Word
<1>1. Word \in Int
  BY DEF Word
<1>2. QED BY <1>1 DEF Words

LEMMA AddressesAre == \A x : x \in Addresses <=> x \in Int /\ 0 <= x /\ x < AddrSpace
<1>1. AddrSpace \in Int
  BY DEF AddrSpace
<1>2. QED BY <1>1 DEF Addresses

\* The word of a status register is read back as that status register.
LEMMA EncodeDecode ==
  ASSUME NEW sr \in StatusRegister
  PROVE  Encode(sr) \in Words /\ Decode(Encode(sr)) = sr
<1> DEFINE t == IF sr.t THEN 32768 ELSE 0
           s == IF sr.s THEN 8192 ELSE 0
           e == t + s + 256 * sr.ipl
<1>1. Decode(Encode(sr)) = sr
  BY DEF Decode, Encode, StatusRegister
<1>2. /\ t = 0 \/ t = 32768
      /\ s = 0 \/ s = 8192
      /\ sr.ipl \in Int /\ 0 <= sr.ipl /\ sr.ipl <= 7
  BY DEF StatusRegister
<1>3. e \in Int /\ 0 <= e /\ e < 65536
  <2> HIDE DEF t, s
  <2>1. t \in Int /\ s \in Int
    BY <1>2
  <2>2. QED BY <1>2, <2>1
<1>4. e \in Words
  <2> HIDE DEF e
  <2>1. QED BY <1>3, WordsAre, Sizes
<1>5. Encode(sr) = e
  BY DEF Encode
<1>6. QED
  BY <1>1, <1>4, <1>5

LEMMA DecodeType == ASSUME NEW w \in Words PROVE Decode(w) \in StatusRegister
<1>1. w \in Int
  BY WordsAre
<1>2. QED BY <1>1 DEF Decode, StatusRegister

\* The halves of a long are words, and those of a 24-bit address give it back.
LEMMA Halves ==
  ASSUME NEW v \in Int
  PROVE  /\ (v \div Word) % Word \in Words /\ v % Word \in Words
         /\ v \in Addresses => ((v \div Word) % Word) * Word + (v % Word) = v
<1> DEFINE q == v \div Word
           r == v % Word
           h == q % Word
<1>1. q \in Int
  BY Sizes
<1>2. r \in Int /\ 0 <= r /\ r < 65536
  BY Sizes
<1>3. v = 65536 * q + r
  BY Sizes
<1>4. h \in Int /\ 0 <= h /\ h < 65536
  <2> HIDE DEF q
  <2>1. QED BY <1>1, Sizes
<1>5. h \in Words /\ r \in Words
  <2> HIDE DEF h, r
  <2>1. QED BY <1>2, <1>4, WordsAre, Sizes
<1>6. ASSUME v \in Addresses PROVE h * Word + r = v
  <2>1. 0 <= q /\ q <= 255
    <3> HIDE DEF q, r
    <3>1. 0 <= v /\ v < 16777216
      BY <1>6, AddressesAre, Sizes
    <3>2. QED BY <3>1, <1>1, <1>2, <1>3
  <2>2. h = q
    <3> HIDE DEF q, r
    <3>1. QED BY <2>1, <1>1, Sizes
  <2>3. QED
    <3> HIDE DEF q, r, h
    <3>1. QED BY <2>2, <1>1, <1>2, <1>3, Sizes
<1>7. QED
  BY <1>5, <1>6

\* Masking the high word of an address changes nothing.
LEMMA MaskedHigh ==
  ASSUME NEW h \in Words, NEW l \in Words, h * Word + l \in Addresses
  PROVE  (h % 256) * Word + l = h * Word + l
<1>1. h \in Int /\ l \in Int /\ 0 <= h /\ 0 <= l
  BY WordsAre
<1>2. h * 65536 + l < 16777216
  BY AddressesAre, Sizes
<1>3. h <= 255
  BY <1>1, <1>2
<1>4. h % 256 = h
  BY <1>1, <1>3
<1>5. QED BY <1>4

Memories == [StackMem -> Words]

\* A word write changes one word; a write outside the stacks changes none.
LEMMA WriteWord ==
  ASSUME NEW m \in Memories, NEW a \in Int, NEW w \in Words
  PROVE  /\ WithWord(m, a, w) \in Memories
         /\ \A b \in StackMem : WithWord(m, a, w)[b] = IF b = a THEN w ELSE m[b]
  BY DEF WithWord, Memories

LEMMA WriteLong ==
  ASSUME NEW m \in Memories, NEW a \in Int, NEW v \in Int
  PROVE  /\ WithLong(m, a, v) \in Memories
         /\ \A b \in StackMem : WithLong(m, a, v)[b] =
              IF b = a + 2 THEN v % Word
              ELSE IF b = a THEN (v \div Word) % Word ELSE m[b]
<1>1. (v \div Word) % Word \in Words /\ v % Word \in Words
  BY Halves
<1>2. WithWord(m, a, (v \div Word) % Word) \in Memories
  BY <1>1, WriteWord
<1>3. QED
  BY <1>1, <1>2, WriteWord DEF WithLong

LEMMA ReadTypes ==
  ASSUME NEW c \in CpuState, NEW a \in Int
  PROVE  readWord(c, a) \in Words /\ readAddress(c, a) \in Addresses
<1> DEFINE h == readWord(c, a)
           l == readWord(c, a + 2)
<1>1. Word - 1 \in Words
  BY WordsAre, Sizes
<1>2. h \in Words /\ l \in Words
  BY <1>1 DEF readWord, CpuState
<1>3. (h % 256) * Word + l \in Addresses
  <2> HIDE DEF h, l
  <2>1. h \in Int /\ l \in Int /\ 0 <= l /\ l < 65536
    BY <1>2, WordsAre, Sizes
  <2> DEFINE k == h % 256
             p == k * 65536 + l
  <2>2. k \in Int /\ 0 <= k /\ k <= 255
    BY <2>1
  <2>3. p \in Int /\ 0 <= p /\ p < 16777216
    <3> HIDE DEF k
    <3>1. QED BY <2>1, <2>2
  <2>4. p \in Addresses
    <3> HIDE DEF p
    <3>1. QED BY <2>3, AddressesAre, Sizes
  <2>5. QED BY <2>4, Sizes
<1>4. QED
  BY <1>2, <1>3 DEF readAddress

----------------------------------------------------------------------------
(* Every operation takes a Cpu record to a Cpu record. *)

LEMMA FieldTypes ==
  ASSUME NEW c \in CpuState
  PROVE  /\ c.sr \in StatusRegister /\ c.pc \in Addresses /\ c.mem \in Memories
         /\ c.a7 \in Int /\ c.usp \in Int /\ c.ssp \in Int
         /\ c.stopped \in BOOLEAN /\ c.crashed \in BOOLEAN
         /\ c.pending \in {-1} \cup 1 .. 7 /\ c.frames \in Seq(Frame)
  BY DEF CpuState, Memories

LEMMA SrUpdates ==
  ASSUME NEW sr \in StatusRegister
  PROVE  /\ \A b \in BOOLEAN : [sr EXCEPT !.s = b] \in StatusRegister
         /\ ClearTrace(sr) \in StatusRegister
         /\ \A l \in 0 .. 7 : cpuSetIPL(sr, l) \in StatusRegister
         /\ cpuGetIPL(sr) \in 0 .. 7
  BY DEF StatusRegister, ClearTrace, cpuSetIPL, cpuGetIPL

LEMMA PushTypes ==
  ASSUME NEW c \in CpuState
  PROVE  /\ \A w \in Words : pushWord(c, w) \in CpuState
         /\ \A v \in Int : pushLong(c, v) \in CpuState
<1>1. c.mem \in Memories /\ c.a7 \in Int
  BY FieldTypes
<1>2. c.a7 - 2 \in Int /\ c.a7 - 4 \in Int
  BY <1>1
<1>3. ASSUME NEW w \in Words PROVE pushWord(c, w) \in CpuState
  <2>1. WithWord(c.mem, c.a7 - 2, w) \in [StackMem -> Words]
    BY <1>1, <1>2, WriteWord DEF Memories
  <2>2. QED BY <2>1, <1>2, Zenon DEF pushWord, CpuState
<1>4. ASSUME NEW v \in Int PROVE pushLong(c, v) \in CpuState
  <2>1. WithLong(c.mem, c.a7 - 4, v) \in [StackMem -> Words]
    BY <1>1, <1>2, WriteLong DEF Memories
  <2>2. QED BY <2>1, <1>2, Zenon DEF pushLong, CpuState
<1>5. QED BY <1>3, <1>4

LEMMA SupervisorType ==
  ASSUME NEW c \in CpuState, NEW b \in BOOLEAN
  PROVE  cpuSetSupervisor(c, b) \in CpuState
<1>1. c.a7 \in Int /\ c.usp \in Int /\ c.ssp \in Int /\ c.sr \in StatusRegister
  BY FieldTypes
<1>2. \A x \in BOOLEAN : [c.sr EXCEPT !.s = x] \in StatusRegister
  BY <1>1, SrUpdates
<1>3. /\ [c EXCEPT !.usp = c.a7, !.a7 = c.ssp, !.sr = [c.sr EXCEPT !.s = TRUE]] \in CpuState
      /\ [c EXCEPT !.ssp = c.a7, !.a7 = c.usp, !.sr = [c.sr EXCEPT !.s = FALSE]] \in CpuState
  BY <1>1, <1>2, Zenon DEF CpuState
<1>4. /\ [c EXCEPT !.usp = c.a7, !.a7 = c.ssp, !.sr.s = TRUE] \in CpuState
      /\ [c EXCEPT !.ssp = c.a7, !.a7 = c.usp, !.sr.s = FALSE] \in CpuState
  BY <1>1, <1>3
<1>5. QED BY <1>4 DEF cpuSetSupervisor

LEMMA EnterType ==
  ASSUME NEW c \in CpuState, NEW vec \in Vectors
  PROVE  EnterException(c, vec) \in CpuState
<1> DEFINE d == cpuSetSupervisor(c, TRUE)
           quiet == ClearTrace(d.sr)
           new == IF vec \in 25 .. 31 THEN cpuSetIPL(quiet, vec - SpuriousVector) ELSE quiet
<1>1. d \in CpuState
  BY SupervisorType
<1>2. quiet \in StatusRegister
  BY <1>1, FieldTypes, SrUpdates
<1>3. vec \in 25 .. 31 => vec - SpuriousVector \in 0 .. 7
  BY DEF SpuriousVector
<1>4. new \in StatusRegister
  <2> HIDE DEF quiet
  <2>1. QED BY <1>2, <1>3, SrUpdates
<1>5. [d EXCEPT !.sr = new] \in CpuState
  <2> HIDE DEF d, new
  <2>1. QED BY <1>1, <1>4, Zenon DEF CpuState
<1>6. QED BY <1>5 DEF EnterException

LEMMA FrameType ==
  ASSUME NEW c \in CpuState, NEW d \in CpuState, NEW vec \in Vectors
  PROVE  /\ OpenFrame(c, d, vec) \in Frame
         /\ \A b \in Int : [OpenFrame(c, d, vec) EXCEPT !.base = b] \in Frame
<1>1. /\ c.sr \in StatusRegister /\ c.pc \in Addresses /\ d.a7 \in Int
      /\ d.a7 - 6 \in Int /\ cpuGetIPL(d.sr) \in 0 .. 7
  BY FieldTypes, SrUpdates
<1>2. QED
  BY <1>1, Zenon DEF OpenFrame, Frame

LEMMA ProcessType ==
  ASSUME NEW c \in CpuState, NEW vec \in Vectors
  PROVE  exceptionProcess(c, vec) \in CpuState
<1> DEFINE d == EnterException(c, vec)
           e == pushWord(pushLong(d, c.pc), Encode(c.sr))
           fs == Append(c.frames, OpenFrame(c, d, vec))
<1>1. d \in CpuState
  BY EnterType
<1>2. Encode(c.sr) \in Words /\ c.pc \in Int
  BY FieldTypes, EncodeDecode, AddressesAre
<1>3. e \in CpuState
  <2> HIDE DEF d
  <2>1. QED BY <1>1, <1>2, PushTypes
<1>4. fs \in Seq(Frame)
  <2> HIDE DEF d
  <2>1. QED BY <1>1, FrameType, FieldTypes
<1>5. VectorTable[vec] \in Addresses
  BY CpuAssumption DEF Addresses
<1>6. /\ [d EXCEPT !.crashed = TRUE] \in CpuState
      /\ [e EXCEPT !.pc = VectorTable[vec], !.frames = fs] \in CpuState
  <2> HIDE DEF d, e, fs
  <2>1. QED BY <1>1, <1>3, <1>4, <1>5, Zenon DEF CpuState
<1>7. QED BY <1>6 DEF exceptionProcess

LEMMA AddressErrorType ==
  ASSUME NEW c \in CpuState, NEW address \in Int, NEW isWrite \in BOOLEAN
  PROVE  exceptionAddressError(c, address, isWrite) \in CpuState
<1> DEFINE d == EnterException(c, AddressErrorVector)
           info == 8 + 5 + (IF isWrite THEN 0 ELSE 16)
           e1 == pushLong(pushWord(d, info), address)
           e2 == pushWord(pushWord(e1, OpcodeWord), Encode(c.sr))
           e == pushLong(e2, c.pc)
           fs == Append(c.frames, [OpenFrame(c, d, AddressErrorVector) EXCEPT !.base = d.a7 - 14])
<1>0. AddressErrorVector \in Vectors
  BY DEF AddressErrorVector, Vectors
<1>1. d \in CpuState
  BY <1>0, EnterType
<1>2. Encode(c.sr) \in Words /\ c.pc \in Int /\ OpcodeWord \in Words
  BY FieldTypes, EncodeDecode, AddressesAre, CpuAssumption
<1>3. info \in Words
  BY WordsAre, Sizes
<1>4. e1 \in CpuState
  <2> HIDE DEF d, info
  <2>1. QED BY <1>1, <1>3, PushTypes
<1>5. e2 \in CpuState
  <2> HIDE DEF e1
  <2>1. QED BY <1>4, <1>2, PushTypes
<1>6. e \in CpuState
  <2> HIDE DEF e2
  <2>1. QED BY <1>5, <1>2, PushTypes
<1>7. fs \in Seq(Frame)
  <2> HIDE DEF d
  <2>1. d.a7 - 14 \in Int
    BY <1>1, FieldTypes
  <2>2. QED BY <1>0, <1>1, <2>1, FrameType, FieldTypes
<1>8. VectorTable[AddressErrorVector] \in Addresses
  BY <1>0, CpuAssumption DEF Addresses
<1>9. /\ [d EXCEPT !.crashed = TRUE] \in CpuState
      /\ [e EXCEPT !.pc = VectorTable[AddressErrorVector], !.frames = fs] \in CpuState
  <2> HIDE DEF d, e, fs
  <2>1. QED BY <1>1, <1>6, <1>7, <1>8, Zenon DEF CpuState
<1>10. QED BY <1>9 DEF exceptionAddressError

LEMMA WriteSrType ==
  ASSUME NEW c \in CpuState, NEW sr \in StatusRegister
  PROVE  WriteSr(c, sr) \in CpuState
<1>1. [c EXCEPT !.sr = sr] \in CpuState
  BY Zenon DEF CpuState
<1>2. QED BY <1>1, SupervisorType DEF WriteSr

LEMMA PoppedFrames ==
  ASSUME NEW s \in Seq(Frame)
  PROVE  SubSeq(s, 1, Len(s) - 1) \in Seq(Frame)
  OBVIOUS

LEMMA RteType ==
  ASSUME NEW c \in CpuState
  PROVE  instrRte(c) \in CpuState
<1> DEFINE b == [c EXCEPT !.a7 = c.a7 + 6]
           d == WriteSr(b, Decode(readWord(c, c.a7)))
           p == readAddress(c, c.a7 + 2)
           fs == SubSeq(c.frames, 1, Len(c.frames) - 1)
<1>1. c.a7 \in Int /\ c.a7 + 2 \in Int /\ c.a7 + 6 \in Int
  BY FieldTypes
<1>2. b \in CpuState
  BY <1>1, Zenon DEF CpuState
<1>3. d \in CpuState
  <2> HIDE DEF b
  <2>1. QED BY <1>1, <1>2, ReadTypes, DecodeType, WriteSrType
<1>4. p \in Addresses
  BY <1>1, ReadTypes
<1>5. fs \in Seq(Frame)
  BY FieldTypes, PoppedFrames
<1>6. [d EXCEPT !.pc = p, !.frames = fs] \in CpuState
  <2> HIDE DEF d, p, fs
  <2>1. QED BY <1>3, <1>4, <1>5, Zenon DEF CpuState
<1>7. exceptionAddressError(c, c.a7, FALSE) \in CpuState
  BY <1>1, AddressErrorType
<1>8. QED BY <1>6, <1>7 DEF instrRte

LEMMA SimpleTypes ==
  ASSUME NEW c \in CpuState
  PROVE  /\ \A sr \in StatusRegister : instrStop(c, sr) \in CpuState
         /\ \A v \in Int : instrMoveUsp(c, v) \in CpuState /\ instrLea(c, v) \in CpuState
         /\ \A w \in Words : instrPush(c, w) \in CpuState
         /\ instrPop(c) \in CpuState
<1>1. c.a7 \in Int /\ c.a7 - 2 \in Int /\ c.a7 + 2 \in Int
  BY FieldTypes
<1>2. ASSUME NEW sr \in StatusRegister PROVE instrStop(c, sr) \in CpuState
  <2>1. WriteSr(c, sr) \in CpuState
    BY WriteSrType
  <2>2. QED BY <2>1, Zenon DEF instrStop, CpuState
<1>3. ASSUME NEW v \in Int PROVE instrMoveUsp(c, v) \in CpuState /\ instrLea(c, v) \in CpuState
  BY Zenon DEF instrMoveUsp, instrLea, CpuState
<1>4. /\ [c EXCEPT !.a7 = c.a7 - 2] \in CpuState
      /\ [c EXCEPT !.a7 = c.a7 + 2] \in CpuState
  BY <1>1, Zenon DEF CpuState
<1>5. ASSUME NEW w \in Words PROVE instrPush(c, w) \in CpuState
  BY <1>1, <1>4, AddressErrorType, PushTypes DEF instrPush
<1>6. instrPop(c) \in CpuState
  BY <1>1, <1>4, AddressErrorType DEF instrPop
<1>7. QED BY <1>2, <1>3, <1>5, <1>6

\* What each instruction does, one operation at a time.
Operations ==
  {"moveToSr", "stop", "rte", "moveUsp", "lea", "push", "pop", "trap", "fault", "oddRead",
   "oddWrite", "oddLong", "moveOdd", "srOdd", "chkOdd", "jsr", "rts", "rtr", "link", "unlk",
   "movea", "movemDown", "movemUp"}

Decodes(c, i, d) ==
  /\ ~Allowed(c, i) => d = exceptionProcess(c, PrivilegeVector)
  /\ Allowed(c, i) /\ i.op \notin Operations => d = c
  /\ Allowed(c, i) /\ i.op = "moveToSr" => d = WriteSr(c, i.arg)
  /\ Allowed(c, i) /\ i.op = "stop" => d = instrStop(c, i.arg)
  /\ Allowed(c, i) /\ i.op = "rte" => d = instrRte(c)
  /\ Allowed(c, i) /\ i.op = "moveUsp" => d = instrMoveUsp(c, i.arg)
  /\ Allowed(c, i) /\ i.op = "lea" => d = instrLea(c, i.arg)
  /\ Allowed(c, i) /\ i.op = "push" => d = instrPush(c, i.arg)
  /\ Allowed(c, i) /\ i.op = "pop" => d = instrPop(c)
  /\ Allowed(c, i) /\ i.op = "trap" => d = exceptionProcess(c, Trap0Vector + i.arg)
  /\ Allowed(c, i) /\ i.op = "fault" => d = exceptionProcess(c, i.arg)
  /\ Allowed(c, i) /\ i.op = "oddRead" => d = exceptionAddressError(c, i.arg, FALSE)
  /\ Allowed(c, i) /\ i.op = "oddWrite" => d = exceptionAddressError(c, i.arg, TRUE)
  /\ Allowed(c, i) /\ i.op = "oddLong" => d = TouchLong(c, i.arg, FALSE)
  /\ Allowed(c, i) /\ i.op = "moveOdd" => d = MoveFromOdd(c, i.arg)
  /\ Allowed(c, i) /\ i.op = "srOdd" => d = SrFromOdd(c, i.arg)
  /\ Allowed(c, i) /\ i.op = "chkOdd" => d = ChkAtOdd(c, i.arg)
  /\ Allowed(c, i) /\ i.op = "jsr" => d = instrJsr(c, i.arg)
  /\ Allowed(c, i) /\ i.op = "rts" => d = instrRts(c)
  /\ Allowed(c, i) /\ i.op = "rtr" => d = instrRtr(c)
  /\ Allowed(c, i) /\ i.op = "link" => d = instrLink(c, i.arg.an, i.arg.disp)
  /\ Allowed(c, i) /\ i.op = "unlk" => d = instrUnlk(c, i.arg)
  /\ Allowed(c, i) /\ i.op = "movea" => d = instrMovea(c, i.arg)
  /\ Allowed(c, i) /\ i.op = "movemDown" => d = instrMovemRegToMem(c, i.arg)
  /\ Allowed(c, i) /\ i.op = "movemUp" => d = instrMovemMemToReg(c)

LEMMA DecodeIs ==
  ASSUME NEW c, NEW i
  PROVE  Decodes(c, i, decoderExecute(c, i))
<1> DEFINE d == decoderExecute(c, i)
<1>1. ~Allowed(c, i) => d = exceptionProcess(c, PrivilegeVector)
  BY DEF decoderExecute, Allowed, Privileged
<1>2. Allowed(c, i) /\ i.op \notin Operations => d = c
  BY DEF decoderExecute, Operations
<1>3. Allowed(c, i) /\ i.op = "moveToSr" => d = WriteSr(c, i.arg)
  BY DEF decoderExecute, instrMoveToSr
<1>4. Allowed(c, i) /\ i.op = "stop" => d = instrStop(c, i.arg)
  BY DEF decoderExecute
<1>5. Allowed(c, i) /\ i.op = "rte" => d = instrRte(c)
  BY DEF decoderExecute
<1>6. Allowed(c, i) /\ i.op = "moveUsp" => d = instrMoveUsp(c, i.arg)
  BY DEF decoderExecute
<1>7. Allowed(c, i) /\ i.op = "lea" => d = instrLea(c, i.arg)
  BY DEF decoderExecute
<1>8. Allowed(c, i) /\ i.op = "push" => d = instrPush(c, i.arg)
  BY DEF decoderExecute
<1>9. Allowed(c, i) /\ i.op = "pop" => d = instrPop(c)
  BY DEF decoderExecute
<1>10. Allowed(c, i) /\ i.op = "trap" => d = exceptionProcess(c, Trap0Vector + i.arg)
  BY DEF decoderExecute, instrTrap
<1>11. Allowed(c, i) /\ i.op = "fault" => d = exceptionProcess(c, i.arg)
  BY DEF decoderExecute
<1>12. Allowed(c, i) /\ i.op = "oddRead" => d = exceptionAddressError(c, i.arg, FALSE)
  BY DEF decoderExecute
<1>13. Allowed(c, i) /\ i.op = "oddWrite" => d = exceptionAddressError(c, i.arg, TRUE)
  BY DEF decoderExecute
<1>14. Allowed(c, i) /\ i.op = "oddLong" => d = TouchLong(c, i.arg, FALSE)
  BY DEF decoderExecute
<1>15. Allowed(c, i) /\ i.op = "moveOdd" => d = MoveFromOdd(c, i.arg)
  BY DEF decoderExecute
<1>16. Allowed(c, i) /\ i.op = "srOdd" => d = SrFromOdd(c, i.arg)
  BY DEF decoderExecute
<1>17. Allowed(c, i) /\ i.op = "chkOdd" => d = ChkAtOdd(c, i.arg)
  BY DEF decoderExecute
<1>18. Allowed(c, i) /\ i.op = "jsr" => d = instrJsr(c, i.arg)
  BY DEF decoderExecute
<1>19. Allowed(c, i) /\ i.op = "rts" => d = instrRts(c)
  BY DEF decoderExecute
<1>20. Allowed(c, i) /\ i.op = "rtr" => d = instrRtr(c)
  BY DEF decoderExecute
<1>21. Allowed(c, i) /\ i.op = "link" => d = instrLink(c, i.arg.an, i.arg.disp)
  BY DEF decoderExecute
<1>22. Allowed(c, i) /\ i.op = "unlk" => d = instrUnlk(c, i.arg)
  BY DEF decoderExecute
<1>23. Allowed(c, i) /\ i.op = "movea" => d = instrMovea(c, i.arg)
  BY DEF decoderExecute
<1>24. Allowed(c, i) /\ i.op = "movemDown" => d = instrMovemRegToMem(c, i.arg)
  BY DEF decoderExecute
<1>25. Allowed(c, i) /\ i.op = "movemUp" => d = instrMovemMemToReg(c)
  BY DEF decoderExecute
<1>26. QED
  <2> HIDE DEF d
  <2>1. Decodes(c, i, d)
    BY <1>1, <1>2, <1>3, <1>4, <1>5, <1>6, <1>7, <1>8, <1>9, <1>10, <1>11, <1>12,
       <1>13, <1>14, <1>15, <1>16, <1>17, <1>18, <1>19, <1>20, <1>21, <1>22, <1>23, <1>24, <1>25, Zenon
    DEF Decodes
  <2>2. QED BY <2>1 DEF d

LEMMA RegisterTypes ==
  ASSUME NEW c \in CpuState
  PROVE  /\ \A v \in Int : [c EXCEPT !.a7 = v] \in CpuState
         /\ \A p \in Addresses : [c EXCEPT !.pc = p] \in CpuState
         /\ \A v \in Int : \A p \in Addresses : [c EXCEPT !.pc = p, !.a7 = v] \in CpuState
  BY Zenon DEF CpuState

LEMMA TouchTypes ==
  ASSUME NEW c \in CpuState, NEW a \in Int, NEW w \in BOOLEAN
  PROVE  TouchWord(c, a, w) \in CpuState /\ TouchLong(c, a, w) \in CpuState
<1>1. \A b \in CpuState : \A x \in Int : TouchWord(b, x, w) \in CpuState
  BY AddressErrorType DEF TouchWord
<1>2. a + 2 \in Int
  OBVIOUS
<1>3. QED BY <1>1, <1>2 DEF TouchLong

\* The handlers that the bus may interrupt with an address error, and go on.
LEMMA GoingOnTypes ==
  ASSUME NEW c \in CpuState
  PROVE  /\ \A v \in Int : PushLong(c, v) \in CpuState
         /\ \A p \in Addresses : instrJsr(c, p) \in CpuState
         /\ instrRts(c) \in CpuState /\ instrRtr(c) \in CpuState
         /\ \A an \in Int : \A disp \in Int : instrLink(c, an, disp) \in CpuState
         /\ \A v \in Int : instrUnlk(c, v) \in CpuState /\ instrMovea(c, v) \in CpuState
         /\ \A v \in Int : instrMovemRegToMem(c, v) \in CpuState
         /\ instrMovemMemToReg(c) \in CpuState
<1>1. /\ c.a7 \in Int /\ c.a7 - 4 \in Int /\ c.a7 + 4 \in Int
      /\ \A v \in Int : v + 4 \in Int /\ v + 6 \in Int /\ v + 2 \in Int
      /\ c.pc \in Int
  BY FieldTypes, AddressesAre
<1>2. \A b \in CpuState : \A a \in Int : \A w \in BOOLEAN : TouchLong(b, a, w) \in CpuState
  BY TouchTypes
<1>3. \A b \in CpuState : b.a7 \in Int
  BY FieldTypes
<1>4. \A b \in CpuState : \A v \in Int : [b EXCEPT !.a7 = v] \in CpuState
  BY RegisterTypes
<1>5. ASSUME NEW v \in Int PROVE PushLong(c, v) \in CpuState
  BY <1>1, <1>2, <1>4, PushTypes DEF PushLong
<1>6. ASSUME NEW p \in Addresses PROVE instrJsr(c, p) \in CpuState
  BY <1>1, <1>5, RegisterTypes DEF instrJsr
<1>7. instrRts(c) \in CpuState
  <2> DEFINE d == TouchLong(c, c.a7, FALSE)
  <2>1. d \in CpuState /\ readAddress(c, c.a7) \in Addresses
    BY <1>1, <1>2, ReadTypes
  <2> HIDE DEF d
  <2>2. d.a7 + 4 \in Int
    BY <2>1, <1>1, <1>3
  <2>3. QED BY <2>1, <2>2, RegisterTypes DEF instrRts, d
<1>8. instrRtr(c) \in CpuState
  <2> DEFINE d == TouchWord(c, c.a7, FALSE)
  <2>1. d \in CpuState
    BY <1>1, TouchTypes
  <2> HIDE DEF d
  <2>2. d.a7 + 6 \in Int /\ d.a7 + 2 \in Int
    BY <2>1, <1>1, <1>3
  <2>3. readAddress(d, d.a7 + 2) \in Addresses
    BY <2>1, <2>2, ReadTypes
  <2>4. QED BY <2>1, <2>2, <2>3, RegisterTypes DEF instrRtr, d
<1>9. ASSUME NEW an \in Int, NEW disp \in Int PROVE instrLink(c, an, disp) \in CpuState
  <2> DEFINE d == PushLong(c, an)
  <2>1. d \in CpuState
    BY <1>5
  <2> HIDE DEF d
  <2>2. d.a7 + disp \in Int
    BY <2>1, <1>3
  <2>3. QED BY <2>1, <2>2, <1>4 DEF instrLink, d
<1>10. ASSUME NEW v \in Int PROVE instrUnlk(c, v) \in CpuState
  <2> DEFINE d == TouchLong([c EXCEPT !.a7 = v], v, FALSE)
  <2>1. d \in CpuState
    BY <1>2, <1>4
  <2> HIDE DEF d
  <2>2. d.a7 + 4 \in Int
    BY <2>1, <1>3
  <2>3. QED BY <2>1, <2>2, <1>4 DEF instrUnlk, d
<1>11. ASSUME NEW v \in Int PROVE instrMovea(c, v) \in CpuState
  <2>1. TouchLong(c, v, FALSE) \in CpuState /\ readAddress(c, v) \in Int
    BY <1>2, ReadTypes, AddressesAre
  <2>2. QED BY <2>1, <1>4 DEF instrMovea
<1>12. ASSUME NEW v \in Int PROVE instrMovemRegToMem(c, v) \in CpuState
  BY <1>1, <1>2, <1>4, PushTypes DEF instrMovemRegToMem
<1>13. instrMovemMemToReg(c) \in CpuState
  BY <1>1, <1>2, <1>4 DEF instrMovemMemToReg
<1>14. QED BY <1>5, <1>6, <1>7, <1>8, <1>9, <1>10, <1>11, <1>12, <1>13

\* The handlers that use a word which an address error has left as ones.
LEMMA OddTypes ==
  ASSUME NEW c \in CpuState, NEW a \in Int
  PROVE  /\ MoveFromOdd(c, a) \in CpuState /\ SrFromOdd(c, a) \in CpuState
         /\ ChkAtOdd(c, a) \in CpuState
<1> DEFINE d == exceptionAddressError(c, a, FALSE)
<1>1. d \in CpuState
  BY AddressErrorType
<1>2. ChkVector \in Vectors /\ WordOfOnes \in StatusRegister /\ Word - 1 \in Words
  BY Sizes, WordsAre DEF ChkVector, Vectors, WordOfOnes, StatusRegister
<1> HIDE DEF d
<1>3. /\ instrPush(d, Word - 1) \in CpuState /\ WriteSr(d, WordOfOnes) \in CpuState
      /\ exceptionProcess(d, ChkVector) \in CpuState
  BY <1>1, <1>2, SimpleTypes, WriteSrType, ProcessType
<1>4. QED BY <1>3 DEF MoveFromOdd, SrFromOdd, ChkAtOdd, instrMoveToSr, d

LEMMA DecodeTypes ==
  ASSUME NEW c \in CpuState, NEW i, IsInstruction(i)
  PROVE  decoderExecute(c, i) \in CpuState
<1>0. Decodes(c, i, decoderExecute(c, i))
  BY DecodeIs
<1>1. /\ PrivilegeVector \in Vectors /\ \A n \in 0 .. 15 : Trap0Vector + n \in Vectors
      /\ {4, 5, 6, 7, 10, 11} \subseteq Vectors
  BY DEF PrivilegeVector, Trap0Vector, Vectors
<1>2. CASE ~Allowed(c, i)
  BY <1>2, <1>1, <1>0, ProcessType DEF Decodes
<1>3. CASE Allowed(c, i) /\ i.op \in {"moveToSr", "stop", "rte", "moveUsp", "lea", "push", "pop"}
  BY <1>3, <1>0, WriteSrType, SimpleTypes, RteType DEF IsInstruction, Decodes
<1>4. CASE Allowed(c, i) /\ i.op \in {"trap", "fault"}
  BY <1>4, <1>1, <1>0, ProcessType DEF IsInstruction, Decodes
<1>5. CASE Allowed(c, i) /\ i.op \in {"oddRead", "oddWrite", "oddLong", "moveOdd", "srOdd", "chkOdd"}
  BY <1>5, <1>0, AddressErrorType, TouchTypes, OddTypes DEF IsInstruction, Decodes
<1>6. CASE Allowed(c, i) /\ i.op \in {"jsr", "rts", "rtr", "link", "unlk"}
  BY <1>6, <1>0, GoingOnTypes DEF IsInstruction, Decodes
<1>7. CASE Allowed(c, i) /\ i.op \in {"movea", "movemDown", "movemUp"}
  BY <1>7, <1>0, GoingOnTypes DEF IsInstruction, Decodes
<1>8. CASE Allowed(c, i) /\ i.op \notin Operations
  BY <1>8, <1>0 DEF Decodes
<1>9. QED
  BY <1>2, <1>3, <1>4, <1>5, <1>6, <1>7, <1>8 DEF Operations

LEMMA ExecuteType ==
  ASSUME NEW c \in CpuState, NEW i, IsInstruction(i)
  PROVE  FetchAndExecute(c, i) \in CpuState
<1>1. LineFVector \in Vectors /\ TraceVector \in Vectors
  BY DEF LineFVector, TraceVector, Vectors
<1>2. exceptionProcess(exceptionAddressError(c, c.pc, FALSE), LineFVector) \in CpuState
  BY <1>1, AddressErrorType, ProcessType, FieldTypes, AddressesAre
<1>3. QED
  BY <1>1, <1>2, DecodeTypes, ProcessType DEF FetchAndExecute

LEMMA ReplacedFrame ==
  ASSUME NEW s \in Seq(Frame), NEW l \in 0 .. 7
  PROVE  /\ [s EXCEPT ![Len(s)] = [@ EXCEPT !.mask = l]] \in Seq(Frame)
         /\ Len([s EXCEPT ![Len(s)] = [@ EXCEPT !.mask = l]]) = Len(s)
<1> DEFINE n == Len(s)
           r == [s EXCEPT ![n] = [@ EXCEPT !.mask = l]]
<1>1. n \in Nat /\ s \in [1 .. n -> Frame]
  OBVIOUS
<1>2. \A f \in Frame : [f EXCEPT !.mask = l] \in Frame
  BY DEF Frame
<1>3. r \in [1 .. n -> Frame]
  <2> HIDE DEF n
  <2>1. QED BY <1>1, <1>2
<1>4. QED
  <2> HIDE DEF r, n
  <2>1. r \in Seq(Frame) /\ Len(r) = n
    BY <1>1, <1>3
  <2>2. QED BY <2>1 DEF r, n

LEMMA AcceptType ==
  ASSUME NEW c \in CpuState, NEW vec \in Vectors, c.pending > 0
  PROVE  AcceptInterrupt(c, vec) \in CpuState
<1> DEFINE b == [c EXCEPT !.stopped = FALSE]
           d == exceptionProcess(b, vec)
           m == [d EXCEPT !.sr = cpuSetIPL(d.sr, c.pending)]
           fs == [d.frames EXCEPT ![Len(d.frames)] = [@ EXCEPT !.mask = c.pending]]
<1>1. b \in CpuState
  BY Zenon DEF CpuState
<1>2. d \in CpuState
  <2> HIDE DEF b
  <2>1. QED BY <1>1, ProcessType
<1>3. c.pending \in 0 .. 7
  BY FieldTypes
<1>4. cpuSetIPL(d.sr, c.pending) \in StatusRegister
  <2> HIDE DEF d
  <2>1. QED BY <1>2, <1>3, FieldTypes, SrUpdates
<1>5. m \in CpuState
  <2> HIDE DEF d
  <2>1. QED BY <1>2, <1>4, Zenon DEF CpuState
<1>6. fs \in Seq(Frame)
  <2> HIDE DEF d
  <2>1. d.frames \in Seq(Frame)
    BY <1>2, FieldTypes
  <2>2. QED BY <2>1, <1>3, ReplacedFrame
<1>7. m.frames = d.frames
  <2> HIDE DEF d
  <2>1. QED BY <1>2 DEF CpuState
<1>8. [m EXCEPT !.frames = fs] \in CpuState
  <2> HIDE DEF d, m, fs
  <2>1. QED BY <1>5, <1>6, Zenon DEF CpuState
<1>9. [m EXCEPT !.frames[Len(d.frames)].mask = c.pending] = [m EXCEPT !.frames = fs]
  <2> HIDE DEF d, m
  <2>1. QED BY <1>7
<1>10. QED BY <1>5, <1>8, <1>9 DEF AcceptInterrupt
----------------------------------------------------------------------------
(* Types are invariant *)

LEMMA RaiseType ==
  ASSUME NEW c \in CpuState, NEW level \in Nat
  PROVE  cpuRaiseInterrupt(c, level) \in CpuState
<1>1. level \in 1 .. 7 => [c EXCEPT !.pending = level] \in CpuState
  <2>1. level \in 1 .. 7 => level \in {-1} \cup 1 .. 7
    OBVIOUS
  <2>2. QED BY <2>1, Zenon DEF CpuState
<1>2. QED BY <1>1 DEF cpuRaiseInterrupt

LEMMA HighestLevelType ==
  ASSUME NEW up \in SUBSET Device
  PROVE  HighestLevel(up) \in Nat
<1>1. CASE up = {}
  BY <1>1 DEF HighestLevel
<1>2. CASE \E l \in 1 .. 7 : (\E d \in up : Level[d] = l) /\ (\A d \in up : Level[d] <= l)
  BY <1>2 DEF HighestLevel
<1>3. CASE up # {}
  <2> DEFINE L == {l \in 1 .. 7 : \E d \in up : Level[d] = l}
  <2>1. L \subseteq 1 .. 7 /\ \A d \in up : Level[d] \in L
    BY MachineAssumption
  <2>2. \E l \in L : \A k \in L : k <= l
    <3>1. L # {}
      BY <1>3, <2>1
    <3>2. CASE 7 \in L BY <3>2, <2>1
    <3>3. CASE 7 \notin L /\ 6 \in L BY <3>3, <2>1
    <3>4. CASE 7 \notin L /\ 6 \notin L /\ 5 \in L BY <3>4, <2>1
    <3>5. CASE 7 \notin L /\ 6 \notin L /\ 5 \notin L /\ 4 \in L BY <3>5, <2>1
    <3>6. CASE L \subseteq 1 .. 3 /\ 3 \in L BY <3>6
    <3>7. CASE L \subseteq 1 .. 2 /\ 2 \in L BY <3>7
    <3>8. CASE L \subseteq {1} BY <3>8, <3>1
    <3> HIDE DEF L
    <3>9. QED BY <2>1, <3>1, <3>2, <3>3, <3>4, <3>5, <3>6, <3>7, <3>8
  <2>3. QED
    BY <2>1, <2>2, <1>2
<1>4. QED BY <1>1, <1>3

\* What the actions assume of the instruction executed.
LEMMA TypeStep ==
  ASSUME TypeOK,
         Loop \/ (\E i : IsInstruction(i) /\ Execute(i))
  PROVE  TypeOK'
<1>1. CASE CheckInterrupt
  <2>1. ASSUME Interruptible(cpu)
        PROVE  AcceptInterrupt(cpu, VectorFor(cpu.pending)) \in CpuState
    <3>1. cpu \in CpuState /\ cpu.pending > 0 /\ cpu.pending \in 1 .. 7
      BY <2>1, FieldTypes DEF TypeOK, Interruptible
    <3>2. VectorFor(cpu.pending) \in Vectors
      BY <3>1 DEF VectorFor, SpuriousVector, Vectors
    <3>3. QED BY <3>1, <3>2, AcceptType
  <2>2. cpu' \in CpuState
    BY <1>1, <2>1 DEF CheckInterrupt, TypeOK
  <2>3. QED BY <1>1, <2>2 DEF CheckInterrupt, TypeOK
<1>2. CASE TickAndPoll
  <2>1. lines' \subseteq Device
    BY <1>2, MachineAssumption DEF TickAndPoll, machineTickDevices, TypeOK, Due
  <2>2. count' \in [Ticking -> Nat]
    BY <1>2 DEF TickAndPoll, machineTickDevices, TypeOK
  <2>3. cpu' \in CpuState
    BY <1>2, <2>1, HighestLevelType, RaiseType DEF TickAndPoll, machinePollInterrupts, TypeOK
  <2>4. at' \in {"interrupt", "host"} /\ used' = used
    BY <1>2 DEF TickAndPoll
  <2>5. QED BY <2>1, <2>2, <2>3, <2>4 DEF TypeOK
<1>3. CASE NextFrame
  BY <1>3, MachineAssumption DEF NextFrame, TypeOK
<1>4. ASSUME NEW i, IsInstruction(i), Execute(i) PROVE TypeOK'
  <2>1. cpu' \in CpuState
    BY <1>4, ExecuteType DEF Execute, TypeOK
  <2>2. QED BY <1>4, <2>1 DEF Execute, TypeOK
<1>5. QED BY <1>1, <1>2, <1>3, <1>4 DEF Loop

LEMMA TypeInit == ASSUME Init PROVE TypeOK
<1>1. [t |-> FALSE, s |-> TRUE, ipl |-> 7] \in StatusRegister
  BY DEF StatusRegister
<1>2. [a \in StackMem |-> 0] \in [StackMem -> Words]
  BY WordsAre, Sizes
<1>3. ResetSsp \in Int /\ ResetPc \in Addresses /\ ReadyAtReset \subseteq Device
  BY CpuAssumption, MachineAssumption DEF StackMem
<1>4. <<>> \in Seq(Frame) /\ -1 \in {-1} \cup 1 .. 7 /\ 0 \in Int
  OBVIOUS
<1>5. cpuReset(ResetSsp, ResetPc) \in CpuState
  BY <1>1, <1>2, <1>3, <1>4, Zenon DEF cpuReset, CpuState
<1>6. QED BY <1>5, <1>3 DEF Init, TypeOK

(* Whatever the program, every variable stays in its range. *)
THEOREM MachineTypes == Spec => []TypeOK
<1>1. Init => TypeOK
  BY TypeInit
<1>2. TypeOK /\ [Next]_vars => TypeOK'
  <2> SUFFICES ASSUME TypeOK, [Next]_vars PROVE TypeOK'
    OBVIOUS
  <2>1. CASE Next
    BY <2>1, TypeStep, MachineAssumption DEF Next
  <2>2. CASE UNCHANGED vars
    BY <2>2 DEF TypeOK, vars
  <2>3. QED BY <2>1, <2>2
<1>3. QED BY <1>1, <1>2, PTL DEF Spec

----------------------------------------------------------------------------
(* What an exception does to the record *)

\* d is c after an exception that recorded f on top of c's frames.
Took(c, d, f) ==
  /\ d.stopped = c.stopped /\ d.frames = Append(c.frames, f) /\ f.sr = c.sr
  /\ d.ssp = c.ssp /\ d.pc = VectorTable[f.vec] /\ f.vec \in Vectors
  /\ cpuIsSupervisor(d.sr) /\ ~Traced(d.sr)

LEMMA PushKeeps ==
  ASSUME NEW c \in CpuState, NEW v \in Int
  PROVE  LET w == pushWord(c, v)
             l == pushLong(c, v)
         IN  /\ w.stopped = c.stopped /\ w.frames = c.frames /\ w.ssp = c.ssp /\ w.sr = c.sr
             /\ l.stopped = c.stopped /\ l.frames = c.frames /\ l.ssp = c.ssp /\ l.sr = c.sr
             /\ w.crashed = c.crashed /\ l.crashed = c.crashed /\ w.usp = c.usp
             /\ w.a7 = c.a7 - 2 /\ w.mem = WithWord(c.mem, c.a7 - 2, v)
             /\ l.a7 = c.a7 - 4 /\ l.mem = WithLong(c.mem, c.a7 - 4, v)
  BY DEF pushWord, pushLong, CpuState

LEMMA StackMemIs ==
  /\ MemLo \in Nat /\ MemHi \in Nat /\ ResetSsp \in Int /\ ResetSsp <= MemHi
  /\ \A a \in Int : a \in StackMem <=> MemLo <= a /\ a <= MemHi /\ ~Odd(a)
<1>1. \A a \in Int : ~Odd(a) <=> a % 2 = 0
  BY DEF Odd
<1>2. QED
  BY <1>1, CpuAssumption, MachineAssumption DEF StackMem

LEMMA PushMem ==
  ASSUME NEW c \in CpuState, NEW b \in StackMem
  PROVE  /\ \A w \in Words : pushWord(c, w).mem[b] = IF b = c.a7 - 2 THEN w ELSE c.mem[b]
         /\ \A v \in Int : pushLong(c, v).mem[b] =
              IF b = c.a7 - 2 THEN v % Word
              ELSE IF b = c.a7 - 4 THEN (v \div Word) % Word ELSE c.mem[b]
<1>1. c.mem \in Memories /\ c.a7 \in Int /\ c.a7 - 4 \in Int /\ c.a7 - 2 \in Int
      /\ (c.a7 - 4) + 2 = c.a7 - 2
  BY FieldTypes
<1>2. \A w \in Words : pushWord(c, w).mem[b] = IF b = c.a7 - 2 THEN w ELSE c.mem[b]
  BY <1>1, PushKeeps, WriteWord, WordsAre
<1>3. ASSUME NEW v \in Int
      PROVE  pushLong(c, v).mem[b] = IF b = c.a7 - 2 THEN v % Word
                ELSE IF b = c.a7 - 4 THEN (v \div Word) % Word ELSE c.mem[b]
  <2>1. pushLong(c, v).mem = WithLong(c.mem, c.a7 - 4, v)
    BY PushKeeps
  <2>2. WithLong(c.mem, c.a7 - 4, v)[b] = IF b = (c.a7 - 4) + 2 THEN v % Word
                ELSE IF b = c.a7 - 4 THEN (v \div Word) % Word ELSE c.mem[b]
    BY <1>1, WriteLong
  <2>3. QED BY <2>1, <2>2, <1>1
<1>4. QED BY <1>2, <1>3

LEMMA EnterEffect ==
  ASSUME NEW c \in CpuState, NEW vec \in Vectors
  PROVE  LET d == EnterException(c, vec)
         IN  /\ d.stopped = c.stopped /\ d.frames = c.frames /\ d.ssp = c.ssp
             /\ d.crashed = c.crashed /\ cpuIsSupervisor(d.sr) /\ ~Traced(d.sr)
             /\ d.mem = c.mem /\ (cpuIsSupervisor(c.sr) => d.a7 = c.a7)
             /\ cpuGetIPL(d.sr) = IF vec \in 25 .. 31 THEN vec - SpuriousVector
                                                    ELSE cpuGetIPL(c.sr)
<1> DEFINE s == cpuSetSupervisor(c, TRUE)
           quiet == ClearTrace(s.sr)
           new == IF vec \in 25 .. 31 THEN cpuSetIPL(quiet, vec - SpuriousVector) ELSE quiet
<1>1. s \in CpuState
  BY SupervisorType
<1>2. /\ s.stopped = c.stopped /\ s.frames = c.frames /\ s.ssp = c.ssp
      /\ s.crashed = c.crashed /\ s.sr.s /\ s.sr.ipl = c.sr.ipl
      /\ s.mem = c.mem /\ (cpuIsSupervisor(c.sr) => s.a7 = c.a7)
  BY DEF cpuSetSupervisor, cpuIsSupervisor, CpuState, StatusRegister
<1>3. /\ new.s /\ ~new.t
      /\ new.ipl = IF vec \in 25 .. 31 THEN vec - SpuriousVector ELSE c.sr.ipl
  <2> HIDE DEF s
  <2>1. s.sr \in StatusRegister
    BY <1>1, FieldTypes
  <2>2. quiet.s /\ ~quiet.t /\ quiet.ipl = c.sr.ipl /\ quiet \in StatusRegister
    BY <2>1, <1>2 DEF ClearTrace, StatusRegister
  <2> HIDE DEF quiet
  <2>3. QED BY <2>2 DEF cpuSetIPL, StatusRegister
<1>4. LET d == [s EXCEPT !.sr = new]
      IN  /\ d.stopped = s.stopped /\ d.frames = s.frames /\ d.ssp = s.ssp
          /\ d.crashed = s.crashed /\ d.sr = new /\ d.mem = s.mem /\ d.a7 = s.a7
  <2> HIDE DEF s, new
  <2>1. QED BY <1>1 DEF CpuState
<1>5. EnterException(c, vec) = [s EXCEPT !.sr = new]
  BY DEF EnterException
<1>6. QED
  <2> HIDE DEF s, new
  <2>1. QED BY <1>2, <1>3, <1>4, <1>5 DEF cpuIsSupervisor, Traced, cpuGetIPL

LEMMA ProcessEffect ==
  ASSUME NEW c \in CpuState, NEW vec \in Vectors
  PROVE  LET d == EnterException(c, vec)
             r == exceptionProcess(c, vec)
         IN  /\ c.crashed => r.crashed
             /\ r.crashed \/ Took(c, r, OpenFrame(c, d, vec))
<1> DEFINE d == EnterException(c, vec)
           e1 == pushLong(d, c.pc)
           e == pushWord(e1, Encode(c.sr))
           f == OpenFrame(c, d, vec)
           fs == Append(c.frames, f)
           x == [d EXCEPT !.crashed = TRUE]
           y == [e EXCEPT !.pc = VectorTable[vec], !.frames = fs]
<1>1. d \in CpuState /\ c.pc \in Int /\ Encode(c.sr) \in Words /\ Encode(c.sr) \in Int
  BY EnterType, FieldTypes, AddressesAre, EncodeDecode, WordsAre
<1>2. e1 \in CpuState /\ e \in CpuState
  <2> HIDE DEF d
  <2>1. QED BY <1>1, PushTypes
<1>3. /\ e.stopped = d.stopped /\ e.frames = d.frames /\ e.ssp = d.ssp /\ e.sr = d.sr
      /\ e.crashed = d.crashed
  <2> HIDE DEF d
  <2>1. /\ e1.stopped = d.stopped /\ e1.frames = d.frames /\ e1.ssp = d.ssp /\ e1.sr = d.sr
        /\ e1.crashed = d.crashed
    BY <1>1, PushKeeps
  <2> HIDE DEF e1
  <2>2. QED BY <1>1, <1>2, <2>1, PushKeeps
<1>4. /\ d.stopped = c.stopped /\ d.frames = c.frames /\ d.ssp = c.ssp
      /\ d.crashed = c.crashed /\ cpuIsSupervisor(d.sr) /\ ~Traced(d.sr)
  BY EnterEffect
<1>5. f.sr = c.sr /\ f.vec = vec
  BY DEF OpenFrame
<1>6. x.crashed
  <2> HIDE DEF d
  <2>1. QED BY <1>1 DEF CpuState
<1>7. /\ y.stopped = e.stopped /\ y.frames = fs /\ y.ssp = e.ssp /\ y.sr = e.sr
      /\ y.crashed = e.crashed /\ y.pc = VectorTable[vec]
  <2> HIDE DEF e, fs
  <2>1. QED BY <1>2 DEF CpuState
<1>8. exceptionProcess(c, vec) = IF Odd(d.a7) THEN x ELSE y
  BY DEF exceptionProcess
<1>9. LET r == exceptionProcess(c, vec)
      IN  (c.crashed => r.crashed) /\ (r.crashed \/ Took(c, r, f))
  <2> HIDE DEF d, e, f, x, y
  <2>1. QED
    BY <1>3, <1>4, <1>5, <1>6, <1>7, <1>8, EnterEffect, CpuAssumption DEF Took
<1>10. QED BY <1>9

LEMMA AddressErrorEffect ==
  ASSUME NEW c \in CpuState, NEW address \in Int, NEW isWrite \in BOOLEAN
  PROVE  LET r == exceptionAddressError(c, address, isWrite)
         IN  /\ c.crashed => r.crashed
             /\ r.crashed \/ \E f \in Frame : Took(c, r, f)
<1> DEFINE vec == AddressErrorVector
           d == EnterException(c, vec)
           info == 8 + 5 + (IF isWrite THEN 0 ELSE 16)
           e1 == pushWord(d, info)
           e2 == pushLong(e1, address)
           e3 == pushWord(e2, OpcodeWord)
           e4 == pushWord(e3, Encode(c.sr))
           e == pushLong(e4, c.pc)
           f == [OpenFrame(c, d, vec) EXCEPT !.base = d.a7 - 14]
           fs == Append(c.frames, f)
           x == [d EXCEPT !.crashed = TRUE]
           y == [e EXCEPT !.pc = VectorTable[vec], !.frames = fs]
           Same(p, q) == /\ p.stopped = q.stopped /\ p.frames = q.frames /\ p.ssp = q.ssp
                         /\ p.sr = q.sr /\ p.crashed = q.crashed
<1>0. vec \in Vectors
  BY DEF AddressErrorVector, Vectors
<1>1. /\ d \in CpuState /\ c.pc \in Int /\ Encode(c.sr) \in Words
      /\ info \in Words /\ OpcodeWord \in Words
  <2>1. d \in CpuState
    BY <1>0, EnterType
  <2>2. c.pc \in Int /\ Encode(c.sr) \in Words
    BY FieldTypes, AddressesAre, EncodeDecode
  <2>3. info \in Words
    BY WordsAre, Sizes
  <2>4. QED BY <2>1, <2>2, <2>3, CpuAssumption
<1>2. \A p \in CpuState : \A w \in Words : pushWord(p, w) \in CpuState /\ Same(pushWord(p, w), p)
  <2> TAKE p \in CpuState
  <2> TAKE w \in Words
  <2>1. w \in Int /\ pushWord(p, w) \in CpuState
    BY PushTypes, WordsAre
  <2> HIDE DEF vec, d, info, e1, e2, e3, e4, e, f, fs, x, y
  <2>2. QED BY <2>1, PushKeeps
<1>3. \A p \in CpuState : \A v \in Int : pushLong(p, v) \in CpuState /\ Same(pushLong(p, v), p)
  <2> TAKE p \in CpuState
  <2> TAKE v \in Int
  <2>1. pushLong(p, v) \in CpuState
    BY PushTypes
  <2> HIDE DEF vec, d, info, e1, e2, e3, e4, e, f, fs, x, y
  <2>2. QED BY <2>1, PushKeeps
<1>4. e \in CpuState /\ Same(e, d)
  <2> HIDE DEF d, info, Same
  <2>1. e1 \in CpuState /\ e2 \in CpuState /\ e3 \in CpuState /\ e4 \in CpuState /\ e \in CpuState
    BY <1>1, <1>2, <1>3
  <2>2. Same(e1, d) /\ Same(e2, e1) /\ Same(e3, e2) /\ Same(e4, e3) /\ Same(e, e4)
    BY <1>1, <1>2, <1>3, <2>1
  <2> HIDE DEF e1, e2, e3, e4, e
  <2>3. QED BY <2>1, <2>2 DEF Same
<1>5. /\ d.stopped = c.stopped /\ d.frames = c.frames /\ d.ssp = c.ssp
      /\ d.crashed = c.crashed /\ cpuIsSupervisor(d.sr) /\ ~Traced(d.sr)
  BY <1>0, EnterEffect
<1>6. f \in Frame /\ f.sr = c.sr /\ f.vec = vec
  <2>1. OpenFrame(c, d, vec) \in Frame /\ d.a7 - 14 \in Int
    BY <1>0, <1>1, FrameType, FieldTypes
  <2>2. f \in Frame /\ f.sr = OpenFrame(c, d, vec).sr /\ f.vec = OpenFrame(c, d, vec).vec
    BY <2>1 DEF Frame
  <2>3. QED BY <2>2 DEF OpenFrame
<1>7. x.crashed
  <2> HIDE DEF d
  <2>1. QED BY <1>1 DEF CpuState
<1>8. /\ y.stopped = e.stopped /\ y.frames = fs /\ y.ssp = e.ssp /\ y.sr = e.sr
      /\ y.crashed = e.crashed /\ y.pc = VectorTable[vec]
  <2> HIDE DEF e, fs
  <2>1. QED BY <1>4 DEF CpuState
<1>9. exceptionAddressError(c, address, isWrite) = IF Odd(d.a7) THEN x ELSE y
  BY DEF exceptionAddressError
<1>10. QED
  <2> HIDE DEF vec, d, e, f, x, y
  <2>1. Took(c, y, f)
    BY <1>0, <1>4, <1>5, <1>6, <1>7, <1>8 DEF Took
  <2>2. c.crashed => y.crashed
    BY <1>4, <1>5, <1>8
  <2> DEFINE r == exceptionAddressError(c, address, isWrite)
  <2>3. r = x \/ r = y
    BY <1>9
  <2> HIDE DEF r
  <2>4. c.crashed => r.crashed
    BY <1>7, <2>2, <2>3
  <2>5. r.crashed \/ \E g \in Frame : Took(c, r, g)
    BY <1>6, <1>7, <2>1, <2>3
  <2>6. QED BY <2>4, <2>5 DEF r

----------------------------------------------------------------------------
(* User mode *)

LEMMA AppendedFrame ==
  ASSUME NEW s \in Seq(Frame), NEW f \in Frame
  PROVE  /\ Append(s, f) \in Seq(Frame) /\ Len(Append(s, f)) = Len(s) + 1
         /\ Append(s, f)[Len(s) + 1] = f
         /\ \A k \in 1 .. Len(s) : Append(s, f)[k] = s[k]
  OBVIOUS

\* What UserConfined says of a step, of two records.
Kept(c, d) ==
  /\ d.sr = c.sr /\ d.usp = c.usp /\ d.ssp = c.ssp /\ d.stopped = c.stopped
  /\ d.frames = c.frames
Trapped(c, d) ==
  /\ Len(d.frames) > Len(c.frames) /\ d.ssp = c.ssp /\ d.stopped = c.stopped
  /\ d.frames[Len(c.frames) + 1].sr = c.sr
InTable(d) == \E v \in Vectors : d.pc = VectorTable[v]

\* What becomes of user code in the course of an instruction.
Confined(c, d) ==
  /\ d \in CpuState
  /\ d.crashed \/ Kept(c, d) \/ (Trapped(c, d) /\ InTable(d) /\ ~Traced(d.sr))

LEMMA TookConfines ==
  ASSUME NEW c \in CpuState, NEW d \in CpuState, NEW r \in CpuState, NEW f \in Frame,
         Kept(c, d) \/ Trapped(c, d), Took(d, r, f)
  PROVE  Trapped(c, r) /\ InTable(r) /\ ~Traced(r.sr)
<1>1. c.frames \in Seq(Frame) /\ d.frames \in Seq(Frame)
  BY FieldTypes
<1>2. QED BY <1>1, AppendedFrame DEF Took, Kept, Trapped, InTable

\* An exception of kept or trapped code leaves it trapped.
LEMMA ProcessConfines ==
  ASSUME NEW c \in CpuState, NEW d, Confined(c, d), NEW vec \in Vectors
  PROVE  LET r == exceptionProcess(d, vec)
         IN  Confined(c, r) /\ (r.crashed \/ ~Traced(r.sr))
<1> DEFINE r == exceptionProcess(d, vec)
           f == OpenFrame(d, EnterException(d, vec), vec)
<1>1. d \in CpuState
  BY DEF Confined
<1>2. f \in Frame /\ r \in CpuState
  BY <1>1, EnterType, FrameType, ProcessType
<1>3. (d.crashed => r.crashed) /\ (r.crashed \/ Took(d, r, f))
  BY <1>1, ProcessEffect
<1>4. QED
  <2> HIDE DEF r, f
  <2>1. r.crashed \/ (Trapped(c, r) /\ InTable(r) /\ ~Traced(r.sr))
    BY <1>1, <1>2, <1>3, TookConfines DEF Confined
  <2>2. Confined(c, r) /\ (r.crashed \/ ~Traced(r.sr))
    BY <1>2, <2>1 DEF Confined
  <2>3. QED BY <2>2 DEF r

LEMMA AddressErrorConfines ==
  ASSUME NEW c \in CpuState, NEW d, Confined(c, d), NEW a \in Int, NEW w \in BOOLEAN
  PROVE  Confined(c, exceptionAddressError(d, a, w))
<1> DEFINE r == exceptionAddressError(d, a, w)
<1>1. d \in CpuState
  BY DEF Confined
<1>2. r \in CpuState /\ (d.crashed => r.crashed) /\ (r.crashed \/ \E f \in Frame : Took(d, r, f))
  BY <1>1, AddressErrorType, AddressErrorEffect
<1> HIDE DEF r
<1>3. r.crashed \/ (Trapped(c, r) /\ InTable(r) /\ ~Traced(r.sr))
  BY <1>1, <1>2, TookConfines DEF Confined
<1>4. QED BY <1>2, <1>3 DEF Confined, r

LEMMA TouchConfines ==
  ASSUME NEW c \in CpuState, NEW d, Confined(c, d), NEW a \in Int, NEW w \in BOOLEAN
  PROVE  Confined(c, TouchWord(d, a, w)) /\ Confined(c, TouchLong(d, a, w))
<1>1. \A e : Confined(c, e) => \A x \in Int : Confined(c, TouchWord(e, x, w))
  BY AddressErrorConfines DEF TouchWord
<1>2. QED BY <1>1 DEF TouchLong

\* A7 and the memory are the user's.
LEMMA StackConfines ==
  ASSUME NEW c \in CpuState, NEW d, Confined(c, d)
  PROVE  /\ \A v \in Int : Confined(c, [d EXCEPT !.a7 = v])
         /\ \A v \in Int : Confined(c, pushLong(d, v))
         /\ \A w \in Words : Confined(c, pushWord(d, w))
         /\ \A w \in Words : Confined(c, instrPush(d, w))
<1>1. d \in CpuState /\ d.a7 \in Int /\ d.a7 - 2 \in Int
  BY FieldTypes DEF Confined
<1>2. ASSUME NEW v \in Int PROVE Confined(c, [d EXCEPT !.a7 = v])
  <2> DEFINE r == [d EXCEPT !.a7 = v]
  <2>1. r \in CpuState
    BY <1>1, RegisterTypes
  <2>2. /\ r.sr = d.sr /\ r.usp = d.usp /\ r.ssp = d.ssp /\ r.stopped = d.stopped
        /\ r.frames = d.frames /\ r.pc = d.pc /\ r.crashed = d.crashed
    BY <1>1 DEF CpuState
  <2> HIDE DEF r
  <2>3. QED BY <2>1, <2>2 DEF Confined, Kept, Trapped, InTable, r
<1>3. ASSUME NEW v \in Int PROVE Confined(c, pushLong(d, v))
  <2> DEFINE r == pushLong(d, v)
  <2>1. r \in CpuState
    BY <1>1, PushTypes
  <2>2. /\ r.sr = d.sr /\ r.usp = d.usp /\ r.ssp = d.ssp /\ r.stopped = d.stopped
        /\ r.frames = d.frames /\ r.pc = d.pc /\ r.crashed = d.crashed
    BY <1>1 DEF pushLong, CpuState
  <2> HIDE DEF r
  <2>3. QED BY <2>1, <2>2 DEF Confined, Kept, Trapped, InTable, r
<1>4. ASSUME NEW w \in Words PROVE Confined(c, pushWord(d, w))
  <2> DEFINE r == pushWord(d, w)
  <2>1. r \in CpuState
    BY <1>1, PushTypes
  <2>2. /\ r.sr = d.sr /\ r.usp = d.usp /\ r.ssp = d.ssp /\ r.stopped = d.stopped
        /\ r.frames = d.frames /\ r.pc = d.pc /\ r.crashed = d.crashed
    BY <1>1 DEF pushWord, CpuState
  <2> HIDE DEF r
  <2>3. QED BY <2>1, <2>2 DEF Confined, Kept, Trapped, InTable, r
<1>5. ASSUME NEW w \in Words PROVE Confined(c, instrPush(d, w))
  BY <1>1, <1>2, <1>4, AddressErrorConfines DEF instrPush
<1>6. QED BY <1>2, <1>3, <1>4, <1>5

LEMMA ConfinedItself ==
  ASSUME NEW c \in CpuState
  PROVE  Confined(c, c)
  BY DEF Confined, Kept

\* One instruction in user mode, before the trace, but for those that jump.
LEMMA UserDecodes ==
  ASSUME NEW c \in CpuState, ~cpuIsSupervisor(c.sr), NEW i, IsInstruction(i), i.op \notin Jumping
  PROVE  Confined(c, decoderExecute(c, i))
<1>0. Decodes(c, i, decoderExecute(c, i))
  BY DecodeIs
<1>1. /\ PrivilegeVector \in Vectors /\ \A n \in 0 .. 15 : Trap0Vector + n \in Vectors
      /\ {4, 5, 6, 7, 10, 11} \subseteq Vectors /\ ChkVector \in Vectors
  BY DEF PrivilegeVector, Trap0Vector, ChkVector, Vectors
<1>2. Confined(c, c)
  BY ConfinedItself
<1>3. /\ c.a7 \in Int /\ c.a7 - 2 \in Int /\ c.a7 + 2 \in Int /\ c.a7 - 4 \in Int
      /\ c.a7 + 4 \in Int /\ \A v \in Int : v + 4 \in Int
  BY FieldTypes
<1>4. \A v \in Int : [c EXCEPT !.a7 = v] \in CpuState /\ Confined(c, [c EXCEPT !.a7 = v])
  BY <1>2, RegisterTypes, StackConfines
<1>5. ASSUME NEW v \in Int PROVE Confined(c, PushLong(c, v))
  BY <1>2, <1>3, <1>4, StackConfines, TouchConfines DEF PushLong
<1>6. CASE ~Allowed(c, i)
  BY <1>6, <1>1, <1>2, <1>0, ProcessConfines DEF Decodes
<1>7. CASE Allowed(c, i) /\ i.op \in {"moveToSr", "stop", "rte", "moveUsp", "srOdd"}
  BY <1>7 DEF Allowed, Privileged
<1>8. CASE Allowed(c, i) /\ i.op \in {"lea", "push"}
  BY <1>8, <1>2, <1>4, <1>0, StackConfines DEF IsInstruction, instrLea, Decodes
<1>9. CASE Allowed(c, i) /\ i.op = "pop"
  <2>1. decoderExecute(c, i) = instrPop(c)
    BY <1>9, <1>0 DEF Decodes
  <2>2. QED BY <2>1, <1>3, <1>4, AddressErrorConfines DEF instrPop
<1>10. CASE Allowed(c, i) /\ i.op \in {"trap", "fault"}
  <2>1. PICK vec \in Vectors : decoderExecute(c, i) = exceptionProcess(c, vec)
    BY <1>10, <1>1, <1>0 DEF IsInstruction, Decodes
  <2>2. QED BY <2>1, <1>2, ProcessConfines
<1>11. CASE Allowed(c, i) /\ i.op \in {"oddRead", "oddWrite", "oddLong"}
  BY <1>11, <1>2, <1>0, AddressErrorConfines, TouchConfines DEF IsInstruction, Decodes
<1>12. CASE Allowed(c, i) /\ i.op \in {"moveOdd", "chkOdd"}
  <2> DEFINE d == exceptionAddressError(c, i.arg, FALSE)
  <2>1. Confined(c, d)
    BY <1>12, <1>2, AddressErrorConfines DEF IsInstruction
  <2>2. Word - 1 \in Words
    BY Sizes, WordsAre
  <2> HIDE DEF d
  <2>3. Confined(c, instrPush(d, Word - 1)) /\ Confined(c, exceptionProcess(d, ChkVector))
    BY <2>1, <2>2, <1>1, StackConfines, ProcessConfines
  <2>4. QED BY <1>12, <2>3, <1>0 DEF MoveFromOdd, ChkAtOdd, d, Decodes
<1>13. CASE Allowed(c, i) /\ i.op = "link"
  <2> DEFINE d == PushLong(c, i.arg.an)
  <2>1. Confined(c, d) /\ d \in CpuState /\ i.arg.disp \in Int
    BY <1>13, <1>5 DEF IsInstruction, Confined
  <2> HIDE DEF d
  <2>2. d.a7 + i.arg.disp \in Int
    BY <2>1, FieldTypes
  <2>3. Confined(c, [d EXCEPT !.a7 = d.a7 + i.arg.disp])
    BY <2>1, <2>2, StackConfines
  <2>4. QED BY <1>13, <2>3, <1>0 DEF instrLink, d, Decodes
<1>14. CASE Allowed(c, i) /\ i.op = "unlk"
  <2> DEFINE d == TouchLong([c EXCEPT !.a7 = i.arg], i.arg, FALSE)
  <2>1. i.arg \in Int
    BY <1>14 DEF IsInstruction
  <2>2. Confined(c, d) /\ d \in CpuState
    BY <2>1, <1>4, TouchConfines DEF Confined
  <2> HIDE DEF d
  <2>3. d.a7 + 4 \in Int
    BY <2>2, FieldTypes
  <2>4. Confined(c, [d EXCEPT !.a7 = d.a7 + 4])
    BY <2>2, <2>3, StackConfines
  <2>5. QED BY <1>14, <2>4, <1>0 DEF instrUnlk, d, Decodes
<1>15. CASE Allowed(c, i) /\ i.op = "movea"
  <2>1. i.arg \in Int /\ readAddress(c, i.arg) \in Int
    BY <1>15, ReadTypes, AddressesAre DEF IsInstruction
  <2>2. Confined(c, TouchLong(c, i.arg, FALSE))
    BY <2>1, <1>2, TouchConfines
  <2>3. Confined(c, instrMovea(c, i.arg))
    BY <2>1, <2>2, StackConfines DEF instrMovea
  <2>4. QED BY <1>15, <2>3, <1>0 DEF Decodes
<1>16. CASE Allowed(c, i) /\ i.op \in {"movemDown", "movemUp"}
  <2>1. /\ Confined(c, TouchLong(c, c.a7 - 4, TRUE)) /\ Confined(c, TouchLong(c, c.a7, FALSE))
    BY <1>2, <1>3, TouchConfines
  <2>2. /\ \A v \in Int : Confined(c, instrMovemRegToMem(c, v))
        /\ Confined(c, instrMovemMemToReg(c))
    BY <2>1, <1>2, <1>3, StackConfines DEF instrMovemRegToMem, instrMovemMemToReg
  <2>3. QED BY <1>16, <2>2, <1>0 DEF IsInstruction, Decodes
<1>17. CASE Allowed(c, i) /\ i.op \notin Operations
  BY <1>17, <1>2, <1>0 DEF Decodes
<1>18. QED
  BY <1>6, <1>7, <1>8, <1>9, <1>10, <1>11, <1>12, <1>13, <1>14, <1>15, <1>16, <1>17
  DEF Operations, Jumping

\* What OddAccess says, of a record.
OddAt(c, i) ==
  \/ i.op \in {"jsr", "rts", "rtr", "link", "movemDown", "movemUp"} /\ Odd(c.a7)
  \/ i.op \in {"unlk", "movea", "moveOdd"} /\ Odd(i.arg)

\* Those that jump: confined but for the PC, and as it was if A7 is even.
Jumped(c, i, d) ==
  /\ d \in CpuState
  /\ \/ d.crashed
     \/ Kept(c, d)
     \/ Trapped(c, d) /\ ~Traced(d.sr) /\ i.op \in Jumping /\ OddAt(c, i)

LEMMA UserJumps ==
  ASSUME NEW c \in CpuState, NEW i, IsInstruction(i), i.op \in Jumping
  PROVE  Jumped(c, i, decoderExecute(c, i))
<1>0. Decodes(c, i, decoderExecute(c, i))
  BY DecodeIs
<1>1. Allowed(c, i) /\ (OddAt(c, i) <=> Odd(c.a7))
  BY DEF Jumping, Allowed, Privileged, OddAt
<1>2. /\ c.a7 \in Int /\ c.a7 - 4 \in Int /\ c.pc \in Int
  BY FieldTypes, AddressesAre
<1>3. \A v \in Int : v + 4 \in Int /\ v + 6 \in Int /\ v + 2 \in Int
  OBVIOUS
<1>4. ASSUME NEW d, Confined(c, d), Kept(c, d) \/ Odd(c.a7), NEW p \in Addresses, NEW v \in Int
      PROVE  /\ Jumped(c, i, [d EXCEPT !.pc = p])
             /\ Jumped(c, i, [d EXCEPT !.pc = p, !.a7 = v])
  <2>1. d \in CpuState
    BY <1>4 DEF Confined
  <2>2. ASSUME NEW r \in CpuState,
               r.sr = d.sr, r.usp = d.usp, r.ssp = d.ssp, r.stopped = d.stopped,
               r.frames = d.frames, r.crashed = d.crashed
        PROVE  Jumped(c, i, r)
    BY <2>1, <2>2, <1>1, <1>4 DEF Confined, Jumped, Kept, Trapped
  <2>3. [d EXCEPT !.pc = p] \in CpuState /\ [d EXCEPT !.pc = p, !.a7 = v] \in CpuState
    BY <2>1, RegisterTypes
  <2>4. LET r == [d EXCEPT !.pc = p]
        IN  /\ r.sr = d.sr /\ r.usp = d.usp /\ r.ssp = d.ssp /\ r.stopped = d.stopped
            /\ r.frames = d.frames /\ r.crashed = d.crashed
    BY <2>1 DEF CpuState
  <2>5. LET r == [d EXCEPT !.pc = p, !.a7 = v]
        IN  /\ r.sr = d.sr /\ r.usp = d.usp /\ r.ssp = d.ssp /\ r.stopped = d.stopped
            /\ r.frames = d.frames /\ r.crashed = d.crashed
    BY <2>1 DEF CpuState
  <2>6. Jumped(c, i, [d EXCEPT !.pc = p])
    BY <2>2, <2>3, <2>4
  <2>7. Jumped(c, i, [d EXCEPT !.pc = p, !.a7 = v])
    BY <2>2, <2>3, <2>5
  <2>8. QED BY <2>6, <2>7
<1>5. Confined(c, c) /\ Kept(c, c)
  BY ConfinedItself DEF Kept
<1>6. \A w \in BOOLEAN : \A a \in Int :
         /\ Confined(c, TouchLong(c, a, w)) /\ Confined(c, TouchWord(c, a, w))
  BY <1>5, TouchConfines
<1>7. ~Odd(c.a7) => TouchLong(c, c.a7, FALSE) = c /\ TouchWord(c, c.a7, FALSE) = c
  <2>1. ~Odd(c.a7) => ~Odd(c.a7 + 2)
    BY <1>2 DEF Odd
  <2>2. QED BY <2>1 DEF TouchLong, TouchWord
<1>8. CASE i.op = "jsr"
  <2> DEFINE d == PushLong(c, c.pc)
  <2>1. Confined(c, d)
    <3>1. Confined(c, pushLong(c, c.pc)) /\ Confined(c, [c EXCEPT !.a7 = c.a7 - 4])
      BY <1>2, <1>5, StackConfines
    <3>2. QED BY <3>1, <1>2, TouchConfines DEF PushLong
  <2>2. ~Odd(c.a7) => Kept(c, d)
    <3>1. Kept(c, pushLong(c, c.pc))
      BY DEF pushLong, CpuState, Kept
    <3>2. QED BY <3>1 DEF PushLong
  <2> HIDE DEF d
  <2>3. i.arg \in Addresses
    BY <1>8 DEF IsInstruction
  <2>4. Jumped(c, i, [d EXCEPT !.pc = i.arg])
    BY <2>1, <2>2, <2>3, <1>2, <1>4
  <2>5. QED BY <1>8, <1>1, <2>4, <1>0 DEF instrJsr, d, Decodes
<1>9. CASE i.op = "rts"
  <2> DEFINE d == TouchLong(c, c.a7, FALSE)
  <2>1. Confined(c, d) /\ (Kept(c, d) \/ Odd(c.a7)) /\ d \in CpuState
    BY <1>2, <1>5, <1>6, <1>7 DEF Confined
  <2> HIDE DEF d
  <2>2. d.a7 + 4 \in Int /\ readAddress(c, c.a7) \in Addresses
    BY <2>1, <1>2, FieldTypes, ReadTypes
  <2>3. Jumped(c, i, [d EXCEPT !.pc = readAddress(c, c.a7), !.a7 = d.a7 + 4])
    BY <2>1, <2>2, <1>4
  <2>4. QED BY <1>9, <1>1, <2>3, <1>0 DEF instrRts, d, Decodes
<1>10. CASE i.op = "rtr"
  <2> DEFINE d == TouchWord(c, c.a7, FALSE)
  <2>1. Confined(c, d) /\ (Kept(c, d) \/ Odd(c.a7)) /\ d \in CpuState
    BY <1>2, <1>5, <1>6, <1>7 DEF Confined
  <2> HIDE DEF d
  <2>2. d.a7 + 6 \in Int /\ d.a7 + 2 \in Int
    BY <2>1, FieldTypes
  <2>3. readAddress(d, d.a7 + 2) \in Addresses
    BY <2>1, <2>2, ReadTypes
  <2>4. Jumped(c, i, [d EXCEPT !.pc = readAddress(d, d.a7 + 2), !.a7 = d.a7 + 6])
    BY <2>1, <2>2, <2>3, <1>4
  <2>5. QED BY <1>10, <1>1, <2>4, <1>0 DEF instrRtr, d, Decodes
<1>11. QED BY <1>8, <1>9, <1>10 DEF Jumping

LEMMA UserExecutes ==
  ASSUME NEW c \in CpuState, ~cpuIsSupervisor(c.sr), NEW i, IsInstruction(i)
  PROVE  LET d == FetchAndExecute(c, i)
         IN  \/ d.crashed
             \/ Kept(c, d)
             \/ Trapped(c, d) /\ (InTable(d) \/ (i.op \in Jumping /\ OddAt(c, i)))
<1> DEFINE b == exceptionAddressError(c, c.pc, FALSE)
           d == IF Odd(c.pc) THEN exceptionProcess(b, LineFVector) ELSE decoderExecute(c, i)
           r == exceptionProcess(d, TraceVector)
<1>1. LineFVector \in Vectors /\ TraceVector \in Vectors /\ c.pc \in Int
  BY FieldTypes, AddressesAre DEF LineFVector, TraceVector, Vectors
<1>2. Confined(c, b)
  BY <1>1, ConfinedItself, AddressErrorConfines
<1>3. Confined(c, exceptionProcess(b, LineFVector))
  <2> HIDE DEF b
  <2>1. QED BY <1>1, <1>2, ProcessConfines
<1>4. Confined(c, d) \/ Jumped(c, i, d)
  <2> HIDE DEF b
  <2>1. QED BY <1>3, UserDecodes, UserJumps
<1>5. FetchAndExecute(c, i) = IF Traced(d.sr) THEN r ELSE d
  BY DEF FetchAndExecute
<1>6. d.crashed => r.crashed
  <2>1. d \in CpuState
    BY <1>4 DEF Confined, Jumped
  <2> HIDE DEF b, d
  <2>2. QED BY <2>1, <1>1, ProcessEffect
<1>7. Traced(d.sr) => r.crashed \/ (Trapped(c, r) /\ InTable(r))
  <2> HIDE DEF b, d
  <2>1. Traced(d.sr) => (d.crashed \/ Confined(c, d))
    BY <1>4 DEF Confined, Jumped
  <2>2. Confined(c, d) => Confined(c, r) /\ (r.crashed \/ ~Traced(r.sr))
    BY <1>1, ProcessConfines
  <2>3. Confined(c, d) => r.crashed \/ (Trapped(c, r) /\ InTable(r))
    <3>1. SUFFICES ASSUME Confined(c, d), ~d.crashed PROVE r.crashed \/ (Trapped(c, r) /\ InTable(r))
      BY <1>6
    <3>2. d \in CpuState /\ (Kept(c, d) \/ Trapped(c, d))
      BY <3>1 DEF Confined
    <3>3. EnterException(d, TraceVector) \in CpuState /\ r \in CpuState
      BY <3>2, <1>1, EnterType, ProcessType
    <3>4. OpenFrame(d, EnterException(d, TraceVector), TraceVector) \in Frame
      BY <3>2, <3>3, <1>1, FrameType
    <3>5. r.crashed \/ Took(d, r, OpenFrame(d, EnterException(d, TraceVector), TraceVector))
      BY <3>2, <1>1, ProcessEffect
    <3> HIDE DEF r
    <3>6. QED BY <3>2, <3>3, <3>4, <3>5, TookConfines
  <2> HIDE DEF r
  <2>4. QED BY <1>6, <2>1, <2>3
<1>8. QED
  <2> HIDE DEF b, d, r
  <2>1. QED BY <1>4, <1>5, <1>7 DEF Confined, Jumped

(* For any program and any devices: a step of user code keeps the system byte,  *)
(* USP, SSP and the stopped state, or takes an exception that records them and  *)
(* enters a handler of the vector table; but JSR, BSR, RTS and RTR at an odd A7 *)
(* then go where they jump to.                                                  *)
THEOREM MachineUserConfined == Spec => UserConfined
<1>1. TypeOK /\ [Next]_vars => [UserStep => UserKept \/ UserTrapped \/ cpu'.crashed]_vars
  <2> SUFFICES ASSUME TypeOK, Next, UserStep
               PROVE  UserKept \/ UserTrapped \/ cpu'.crashed
    BY DEF vars
  <2>1. PICK i \in Instr : Execute(i)
    BY DEF Next, Loop, CheckInterrupt, TickAndPoll, NextFrame, UserStep
  <2>2. cpu' = FetchAndExecute(cpu, i) /\ cpu \in CpuState /\ IsInstruction(i)
    BY <2>1, MachineAssumption DEF Execute, TypeOK
  <2>3. \/ cpu'.crashed
        \/ Kept(cpu, cpu')
        \/ Trapped(cpu, cpu') /\ (InTable(cpu') \/ (i.op \in Jumping /\ OddAt(cpu, i)))
    BY <2>2, UserExecutes DEF UserStep
  <2>4. i.op \in Jumping /\ OddAt(cpu, i) => GoesOn(Jumping)
    BY <2>1 DEF GoesOn, OddAt, OddAccess
  <2>5. QED BY <2>3, <2>4 DEF Kept, Trapped, InTable, UserKept, UserTrapped, Raised
<1>2. QED BY <1>1, MachineTypes, PTL DEF Spec, UserConfined

----------------------------------------------------------------------------
(* A stopped CPU waits *)

\* An exception by itself neither stops the CPU nor wakes it.
LEMMA ProcessKeepsStopped ==
  ASSUME NEW c \in CpuState, NEW vec \in Vectors
  PROVE  exceptionProcess(c, vec).stopped = c.stopped
<1> DEFINE d == EnterException(c, vec)
           e1 == pushLong(d, c.pc)
           e == pushWord(e1, Encode(c.sr))
           fs == Append(c.frames, OpenFrame(c, d, vec))
<1>1. d \in CpuState /\ d.stopped = c.stopped
  BY EnterType, EnterEffect
<1>2. [d EXCEPT !.crashed = TRUE].stopped = d.stopped
  <2> HIDE DEF d
  <2>1. QED BY <1>1 DEF CpuState
<1>3. c.pc \in Int /\ Encode(c.sr) \in Words /\ Encode(c.sr) \in Int
  BY FieldTypes, AddressesAre, EncodeDecode, WordsAre
<1>4. e1 \in CpuState /\ e1.stopped = d.stopped
  <2> HIDE DEF d
  <2>1. QED BY <1>1, <1>3, PushTypes, PushKeeps
<1>5. e \in CpuState /\ e.stopped = d.stopped
  <2> HIDE DEF d, e1
  <2>1. QED BY <1>3, <1>4, PushTypes, PushKeeps
<1>6. [e EXCEPT !.pc = VectorTable[vec], !.frames = fs].stopped = e.stopped
  <2> HIDE DEF e, fs
  <2>1. QED BY <1>5 DEF CpuState
<1>7. exceptionProcess(c, vec) = IF Odd(d.a7) THEN [d EXCEPT !.crashed = TRUE]
                                 ELSE [e EXCEPT !.pc = VectorTable[vec], !.frames = fs]
  BY DEF exceptionProcess
<1>8. QED
  <2> HIDE DEF d, e, fs
  <2>1. QED BY <1>1, <1>2, <1>5, <1>6, <1>7

LEMMA AcceptWakes ==
  ASSUME NEW c \in CpuState, NEW vec \in Vectors, c.pending > 0
  PROVE  ~AcceptInterrupt(c, vec).stopped
<1> DEFINE b == [c EXCEPT !.stopped = FALSE]
           d == exceptionProcess(b, vec)
           m == [d EXCEPT !.sr = cpuSetIPL(d.sr, c.pending)]
           n == [m EXCEPT !.frames[Len(d.frames)].mask = c.pending]
<1>1. b \in CpuState /\ ~b.stopped
  BY DEF CpuState
<1>2. d \in CpuState /\ ~d.stopped
  <2> HIDE DEF b
  <2>1. QED BY <1>1, ProcessType, ProcessKeepsStopped
<1>3. m.stopped = d.stopped /\ n.stopped = m.stopped
  <2> HIDE DEF d
  <2>1. QED BY <1>2 DEF CpuState
<1>4. AcceptInterrupt(c, vec) = IF d.crashed THEN m ELSE n
  BY DEF AcceptInterrupt
<1>5. QED
  <2> HIDE DEF d, m, n
  <2>1. QED BY <1>2, <1>3, <1>4

LEMMA PendingRestored ==
  ASSUME NEW c \in CpuState, NEW level
  PROVE  [cpuRaiseInterrupt(c, level) EXCEPT !.pending = c.pending] = c
<1>1. [c EXCEPT !.pending = c.pending] = c
  BY DEF CpuState
<1>2. [[c EXCEPT !.pending = level] EXCEPT !.pending = c.pending] = c
  BY DEF CpuState
<1>3. QED BY <1>1, <1>2 DEF cpuRaiseInterrupt

\* What StopHolds needs to be inductive: nothing executes while the CPU is stopped, for the
\* check of the stopped state lies between each STOP and the next fetch.
NothingExecutes == at = "execute" => ~cpu.stopped

THEOREM MachineNothingExecutes == Spec => []NothingExecutes
<1>1. Init => NothingExecutes
  BY DEF Init, NothingExecutes
<1>2. NothingExecutes /\ [Next]_vars => NothingExecutes'
  <2> SUFFICES ASSUME NothingExecutes, [Next]_vars
               PROVE  NothingExecutes'
    OBVIOUS
  <2>1. CASE CheckInterrupt
    BY <2>1 DEF CheckInterrupt, NothingExecutes
  <2>2. CASE TickAndPoll
    BY <2>2 DEF TickAndPoll, NothingExecutes
  <2>3. CASE NextFrame
    BY <2>3 DEF NextFrame, NothingExecutes
  <2>4. ASSUME NEW i \in Instr, Execute(i)
        PROVE  NothingExecutes'
    BY <2>4 DEF Execute, NothingExecutes
  <2>5. CASE UNCHANGED vars
    BY <2>5 DEF vars, NothingExecutes
  <2>6. QED BY <2>1, <2>2, <2>3, <2>4, <2>5 DEF Next, Loop
<1>3. QED BY <1>1, <1>2, PTL DEF Spec

(* For any program and any devices: what a STOP has stopped stays as it is, but   *)
(* for the pending level, until an interrupt that the mask lets through wakes it. *)
THEOREM MachineStopHolds == Spec => StopHolds
<1>1. TypeOK /\ NothingExecutes /\ [Next]_vars => [cpu.stopped => Asleep \/ Woken]_vars
  <2> SUFFICES ASSUME TypeOK, NothingExecutes, Next, cpu.stopped
               PROVE  Asleep \/ Woken
    BY DEF vars
  <2>1. cpu \in CpuState /\ [cpu EXCEPT !.pending = cpu.pending] = cpu
    BY DEF TypeOK, CpuState
  <2>2. CASE CheckInterrupt
    <3>1. CASE Interruptible(cpu)
      <4>1. cpu.pending > 0 /\ cpu.pending \in 1 .. 7
        BY <2>1, <3>1, FieldTypes DEF Interruptible
      <4>2. VectorFor(cpu.pending) \in Vectors
        BY <4>1 DEF VectorFor, SpuriousVector, Vectors
      <4>3. ~cpu'.stopped
        BY <2>1, <2>2, <3>1, <4>1, <4>2, AcceptWakes DEF CheckInterrupt
      <4>4. QED BY <2>2, <3>1, <4>3 DEF CheckInterrupt, Interruptible, Woken
    <3>2. CASE ~Interruptible(cpu)
      BY <2>1, <2>2, <3>2 DEF CheckInterrupt, Asleep
    <3>3. QED BY <3>1, <3>2
  <2>3. CASE TickAndPoll
    BY <2>1, <2>3, PendingRestored DEF TickAndPoll, machinePollInterrupts, Asleep
  <2>4. CASE NextFrame
    BY <2>1, <2>4 DEF NextFrame, Asleep
  <2>5. ~ \E i \in Instr : Execute(i)
    BY DEF Execute, NothingExecutes
  <2>6. QED BY <2>2, <2>3, <2>4, <2>5 DEF Next, Loop
<1>2. QED BY <1>1, MachineTypes, MachineNothingExecutes, PTL DEF Spec, StopHolds

----------------------------------------------------------------------------
(* Exceptions enter as they must *)

\* d is c after an exception, not an interrupt, that recorded f and stacked it at A7.
Enters(c, d, f) ==
  /\ d.frames = Append(c.frames, f) /\ f \in Frame
  /\ cpuIsSupervisor(d.sr) /\ ~Traced(d.sr) /\ d.pc = VectorTable[f.vec]
  /\ f.sr = c.sr /\ d.a7 = f.base /\ (InMemory(f) => Holds(d.mem, f))

\* The frame of an exception other than an address error, wherever the stack is.
LEMMA ProcessEnters ==
  ASSUME NEW c \in CpuState, NEW vec \in Vectors, vec # AddressErrorVector
  PROVE  LET r == exceptionProcess(c, vec)
             f == OpenFrame(c, EnterException(c, vec), vec)
         IN  /\ c.crashed => r.crashed
             /\ r.crashed \/ Enters(c, r, f)
             /\ vec \notin 25 .. 31 => r.crashed \/ cpuGetIPL(r.sr) = cpuGetIPL(c.sr)
<1> DEFINE d == EnterException(c, vec)
           sr == Encode(c.sr)
           e1 == pushLong(d, c.pc)
           e == pushWord(e1, sr)
           f == OpenFrame(c, d, vec)
           fs == Append(c.frames, f)
           r == exceptionProcess(c, vec)
<1>1. /\ d \in CpuState /\ c.pc \in Int /\ c.pc \in Addresses /\ sr \in Words /\ sr \in Int
      /\ d.a7 \in Int
  BY EnterType, FieldTypes, AddressesAre, EncodeDecode, WordsAre
<1>2. /\ d.frames = c.frames /\ d.crashed = c.crashed
      /\ cpuIsSupervisor(d.sr) /\ ~Traced(d.sr)
      /\ cpuGetIPL(d.sr) = IF vec \in 25 .. 31 THEN vec - SpuriousVector ELSE cpuGetIPL(c.sr)
  BY EnterEffect
<1>3. /\ f \in Frame /\ f.sr = c.sr /\ f.pc = c.pc /\ f.base = d.a7 - 6 /\ f.vec = vec
  BY <1>1, FrameType DEF OpenFrame
<1>4. r \in CpuState /\ (c.crashed => r.crashed)
  BY ProcessType, ProcessEffect
<1>5. r = IF Odd(d.a7) THEN [d EXCEPT !.crashed = TRUE]
          ELSE [e EXCEPT !.pc = VectorTable[vec], !.frames = fs]
  BY DEF exceptionProcess
<1> HIDE DEF d, sr, f
<1>6. /\ e1 \in CpuState /\ e1.sr = d.sr /\ e1.a7 = d.a7 - 4
  BY <1>1, PushTypes, PushKeeps
<1>7. \A b \in StackMem : e1.mem[b] = IF b = d.a7 - 2 THEN c.pc % Word
                                     ELSE IF b = d.a7 - 4 THEN (c.pc \div Word) % Word ELSE d.mem[b]
  BY <1>1, PushMem
<1> HIDE DEF e1
<1>8. /\ e \in CpuState /\ e.sr = d.sr /\ e.a7 = d.a7 - 6
  <2>1. e \in CpuState /\ e.sr = e1.sr /\ e.a7 = e1.a7 - 2
    BY <1>1, <1>6, PushTypes, PushKeeps
  <2> HIDE DEF e
  <2>2. QED BY <2>1, <1>1, <1>6
<1>9. \A b \in StackMem : e.mem[b] = IF b = d.a7 - 6 THEN sr ELSE e1.mem[b]
  <2>1. e1.a7 - 2 = d.a7 - 6
    BY <1>1, <1>6
  <2>2. QED BY <2>1, <1>1, <1>6, PushMem
<1> HIDE DEF e, fs, r
<1>10. CASE Odd(d.a7)
  <2>1. r.crashed
    BY <1>10, <1>5, <1>1 DEF CpuState
  <2>2. QED BY <2>1, <1>4 DEF r
<1>11. CASE ~Odd(d.a7)
  <2>1. /\ r.sr = d.sr /\ r.a7 = d.a7 - 6 /\ r.mem = e.mem
        /\ r.pc = VectorTable[vec] /\ r.frames = fs
    BY <1>11, <1>5, <1>8 DEF CpuState
  <2>2. ASSUME InMemory(f) PROVE Holds(r.mem, f)
    <3>1. d.a7 - 6 \in StackMem /\ d.a7 - 4 \in StackMem /\ d.a7 - 2 \in StackMem
      <4>1. MemLo <= d.a7 - 6 /\ d.a7 - 2 <= MemHi
        BY <2>2, <1>1, <1>3, StackMemIs DEF InMemory
      <4>2. ~Odd(d.a7 - 6) /\ ~Odd(d.a7 - 4) /\ ~Odd(d.a7 - 2)
        BY <1>11, <1>1 DEF Odd
      <4>3. QED BY <4>1, <4>2, <1>1, StackMemIs
    <3>2. /\ r.mem[d.a7 - 6] = sr
          /\ r.mem[d.a7 - 4] = (c.pc \div Word) % Word /\ r.mem[d.a7 - 2] = c.pc % Word
      BY <3>1, <2>1, <1>1, <1>7, <1>9
    <3>3. r.mem[d.a7 - 4] * Word + r.mem[d.a7 - 2] = c.pc
      BY <3>2, <1>1, Halves
    <3>4. f.base = d.a7 - 6 /\ f.base + 2 = d.a7 - 4 /\ f.base + 4 = d.a7 - 2
      BY <1>1, <1>3
    <3>5. QED BY <3>2, <3>3, <3>4, <1>3 DEF Holds, sr
  <2>3. Enters(c, r, f)
    BY <2>1, <2>2, <1>1, <1>2, <1>3 DEF Enters, fs
  <2>4. QED BY <2>1, <2>3, <1>2, <1>4 DEF r, f, d
<1>12. QED BY <1>10, <1>11

\* The longer frame of an address error, with PC on top of SR.
LEMMA AddressErrorEnters ==
  ASSUME NEW c \in CpuState, NEW address \in Int, NEW isWrite \in BOOLEAN
  PROVE  LET r == exceptionAddressError(c, address, isWrite)
         IN  /\ c.crashed => r.crashed
             /\ \/ r.crashed
                \/ (\E f \in Frame : Enters(c, r, f)) /\ cpuGetIPL(r.sr) = cpuGetIPL(c.sr)
<1> DEFINE vec == AddressErrorVector
           d == EnterException(c, vec)
           sr == Encode(c.sr)
           info == 8 + 5 + (IF isWrite THEN 0 ELSE 16)
           e1 == pushWord(d, info)
           e2 == pushLong(e1, address)
           e3 == pushWord(e2, OpcodeWord)
           e4 == pushWord(e3, sr)
           e == pushLong(e4, c.pc)
           g == OpenFrame(c, d, vec)
           f == [g EXCEPT !.base = d.a7 - 14]
           fs == Append(c.frames, f)
           r == exceptionAddressError(c, address, isWrite)
           Pushed(p, q, n) == /\ p \in CpuState /\ p.sr = q.sr /\ p.crashed = q.crashed
                              /\ p.a7 = q.a7 - n
<1>0. vec \in Vectors /\ vec = 3
  BY DEF AddressErrorVector, Vectors
<1>1. /\ d \in CpuState /\ c.pc \in Int /\ c.pc \in Addresses /\ sr \in Words /\ sr \in Int
      /\ d.a7 \in Int /\ OpcodeWord \in Words
  BY <1>0, EnterType, FieldTypes, AddressesAre, EncodeDecode, WordsAre, CpuAssumption
<1>2. info \in Words
  BY WordsAre, Sizes
<1>3. /\ d.frames = c.frames /\ d.crashed = c.crashed
      /\ cpuIsSupervisor(d.sr) /\ ~Traced(d.sr) /\ cpuGetIPL(d.sr) = cpuGetIPL(c.sr)
  BY <1>0, EnterEffect
<1>4. f \in Frame /\ f.sr = c.sr /\ f.pc = c.pc /\ f.base = d.a7 - 14 /\ f.vec = vec
  <2>1. g \in Frame /\ g.sr = c.sr /\ g.pc = c.pc /\ g.vec = vec
    BY <1>0, <1>1, FrameType DEF OpenFrame
  <2>2. d.a7 - 14 \in Int
    BY <1>1
  <2> HIDE DEF g, vec, d
  <2>3. QED BY <2>1, <2>2 DEF Frame
<1>5. r = IF Odd(d.a7) THEN [d EXCEPT !.crashed = TRUE]
          ELSE [e EXCEPT !.pc = VectorTable[vec], !.frames = fs]
  BY DEF exceptionAddressError
<1> HIDE DEF vec, d, sr, info, g, f
<1>6. \A p \in CpuState : \A w \in Words : Pushed(pushWord(p, w), p, 2)
  <2> TAKE p \in CpuState
  <2> TAKE w \in Words
  <2>1. w \in Int /\ pushWord(p, w) \in CpuState
    BY PushTypes, WordsAre
  <2> HIDE DEF e1, e2, e3, e4, e, fs, r
  <2>2. QED BY <2>1, PushKeeps
<1>7. \A p \in CpuState : \A v \in Int : Pushed(pushLong(p, v), p, 4)
  <2> TAKE p \in CpuState
  <2> TAKE v \in Int
  <2>1. pushLong(p, v) \in CpuState
    BY PushTypes
  <2> HIDE DEF e1, e2, e3, e4, e, fs, r
  <2>2. QED BY <2>1, PushKeeps
<1>8. Pushed(e1, d, 2) /\ e1 \in CpuState
  BY <1>1, <1>2, <1>6
<1> HIDE DEF e1
<1>9. Pushed(e2, e1, 4) /\ e2 \in CpuState
  BY <1>8, <1>7
<1> HIDE DEF e2
<1>10. Pushed(e3, e2, 2) /\ e3 \in CpuState
  BY <1>9, <1>6, <1>1
<1> HIDE DEF e3
<1>11. Pushed(e4, e3, 2) /\ e4 \in CpuState
  BY <1>10, <1>6, <1>1
<1>12. \A b \in StackMem : e4.mem[b] = IF b = e3.a7 - 2 THEN sr ELSE e3.mem[b]
  BY <1>10, <1>1, PushMem
<1> HIDE DEF e4
<1>13. Pushed(e, e4, 4) /\ e \in CpuState
  BY <1>11, <1>7, <1>1
<1>14. \A b \in StackMem : e.mem[b] = IF b = e4.a7 - 2 THEN c.pc % Word
                             ELSE IF b = e4.a7 - 4 THEN (c.pc \div Word) % Word ELSE e4.mem[b]
  BY <1>11, <1>1, PushMem
<1> HIDE DEF e, fs, r
<1>15. /\ e3.a7 = d.a7 - 8 /\ e4.a7 = d.a7 - 10 /\ e.a7 = d.a7 - 14 /\ e.sr = d.sr
       /\ e.crashed = d.crashed
  BY <1>1, <1>8, <1>9, <1>10, <1>11, <1>13
<1>16. CASE Odd(d.a7)
  <2>1. r.crashed
    BY <1>16, <1>5, <1>1 DEF CpuState
  <2>2. QED BY <2>1 DEF r
<1>17. CASE ~Odd(d.a7)
  <2>1. /\ r.sr = d.sr /\ r.a7 = d.a7 - 14 /\ r.mem = e.mem /\ r.crashed = d.crashed
        /\ r.pc = VectorTable[vec] /\ r.frames = fs
    BY <1>17, <1>5, <1>13, <1>15 DEF CpuState
  <2>2. ASSUME InMemory(f) PROVE Holds(r.mem, f)
    <3>1. d.a7 - 14 \in StackMem /\ d.a7 - 12 \in StackMem /\ d.a7 - 10 \in StackMem
      <4>1. MemLo <= d.a7 - 14 /\ d.a7 - 10 <= MemHi
        BY <2>2, <1>1, <1>4, StackMemIs DEF InMemory
      <4>2. ~Odd(d.a7 - 14) /\ ~Odd(d.a7 - 12) /\ ~Odd(d.a7 - 10)
        BY <1>17, <1>1 DEF Odd
      <4>3. QED BY <4>1, <4>2, <1>1, StackMemIs
    <3>2. /\ e4.a7 - 2 = d.a7 - 12 /\ e4.a7 - 4 = d.a7 - 14 /\ e3.a7 - 2 = d.a7 - 10
      BY <1>15, <1>1
    <3>3. /\ r.mem[d.a7 - 10] = sr
          /\ r.mem[d.a7 - 14] = (c.pc \div Word) % Word /\ r.mem[d.a7 - 12] = c.pc % Word
      <4>1. d.a7 - 10 # d.a7 - 12 /\ d.a7 - 10 # d.a7 - 14 /\ d.a7 - 14 # d.a7 - 12
        BY <1>1
      <4>2. QED BY <4>1, <3>1, <3>2, <2>1, <1>12, <1>14
    <3>4. r.mem[d.a7 - 14] * Word + r.mem[d.a7 - 12] = c.pc
      BY <3>3, <1>1, Halves
    <3>5. f.base = d.a7 - 14 /\ f.base + 2 = d.a7 - 12 /\ f.base + 4 = d.a7 - 10
      BY <1>1, <1>4
    <3>6. QED BY <3>3, <3>4, <3>5, <1>4 DEF Holds, sr, vec
  <2>3. Enters(c, r, f)
    BY <2>1, <2>2, <1>1, <1>3, <1>4 DEF Enters, fs
  <2>4. QED BY <2>1, <2>3, <1>3, <1>4 DEF r
<1>18. QED BY <1>16, <1>17, <1>5, <1>3

\* What ExceptionEntry says of the record after an exception that is no interrupt.
LastTaken(d) == d.frames[Len(d.frames)]
InMode(d) ==
  cpuIsSupervisor(d.sr) /\ ~Traced(d.sr) /\ cpuGetIPL(d.sr) = cpuGetIPL(LastTaken(d).sr)
HandlerIn(d) == d.pc = VectorTable[LastTaken(d).vec]
FrameOn(d) == d.a7 = LastTaken(d).base /\ (InMemory(LastTaken(d)) => Holds(d.mem, LastTaken(d)))
WellEntered(d) == InMode(d) /\ HandlerIn(d) /\ FrameOn(d)

LEMMA EntersWell ==
  ASSUME NEW c \in CpuState, NEW d, NEW f, Enters(c, d, f), cpuGetIPL(d.sr) = cpuGetIPL(c.sr)
  PROVE  WellEntered(d) /\ ~Traced(d.sr)
<1>1. LastTaken(d) = f
  BY FieldTypes, AppendedFrame DEF Enters, LastTaken
<1>2. QED BY <1>1 DEF Enters, WellEntered, InMode, HandlerIn, FrameOn

\* An exception that an instruction raises, and one for a bad address.
LEMMA ProcessWell ==
  ASSUME NEW c \in CpuState, NEW vec \in Vectors, vec # AddressErrorVector, vec \notin 25 .. 31
  PROVE  LET r == exceptionProcess(c, vec)
         IN  (c.crashed => r.crashed) /\ (r.crashed \/ (WellEntered(r) /\ ~Traced(r.sr)))
<1> DEFINE r == exceptionProcess(c, vec)
           f == OpenFrame(c, EnterException(c, vec), vec)
<1>1. /\ c.crashed => r.crashed
      /\ r.crashed \/ (Enters(c, r, f) /\ cpuGetIPL(r.sr) = cpuGetIPL(c.sr))
  BY ProcessEnters
<1> HIDE DEF r, f
<1>2. r.crashed \/ (WellEntered(r) /\ ~Traced(r.sr))
  BY <1>1, EntersWell
<1>3. QED BY <1>1, <1>2 DEF r

LEMMA AddressErrorWell ==
  ASSUME NEW c \in CpuState, NEW a \in Int, NEW isWrite \in BOOLEAN
  PROVE  LET r == exceptionAddressError(c, a, isWrite)
         IN  (c.crashed => r.crashed) /\ (r.crashed \/ (WellEntered(r) /\ ~Traced(r.sr)))
<1> DEFINE r == exceptionAddressError(c, a, isWrite)
<1>1. /\ c.crashed => r.crashed
      /\ r.crashed \/ ((\E f \in Frame : Enters(c, r, f)) /\ cpuGetIPL(r.sr) = cpuGetIPL(c.sr))
  BY AddressErrorEnters
<1> HIDE DEF r
<1>2. r.crashed \/ (WellEntered(r) /\ ~Traced(r.sr))
  BY <1>1, EntersWell
<1>3. QED BY <1>1, <1>2 DEF r

\* A crashed CPU, or one at the handler of the last exception.
Errs(r) == r \in CpuState /\ (r.crashed \/ (WellEntered(r) /\ ~Traced(r.sr)))

LEMMA TouchErrs ==
  ASSUME NEW c \in CpuState, NEW a \in Int, NEW w \in BOOLEAN
  PROVE  IF Odd(a) THEN Errs(TouchWord(c, a, w)) /\ Errs(TouchLong(c, a, w))
                   ELSE TouchWord(c, a, w) = c /\ TouchLong(c, a, w) = c
<1>1. a + 2 \in Int /\ (Odd(a) <=> Odd(a + 2))
  BY DEF Odd
<1>2. \A d \in CpuState : \A x \in Int : Errs(exceptionAddressError(d, x, w))
  BY AddressErrorType, AddressErrorWell DEF Errs
<1>3. exceptionAddressError(c, a, w) \in CpuState
  BY AddressErrorType
<1>4. QED BY <1>1, <1>2, <1>3 DEF TouchWord, TouchLong

\* A new SR, and RTE, add no frame.
LEMMA NoFrameAdded ==
  ASSUME NEW c \in CpuState
  PROVE  /\ \A sr \in StatusRegister : WriteSr(c, sr).frames = c.frames
         /\ \A sr \in StatusRegister : instrStop(c, sr).frames = c.frames
         /\ ~Odd(c.a7) => Len(instrRte(c).frames) <= Len(c.frames)
<1>1. ASSUME NEW b \in CpuState, NEW sr \in StatusRegister
      PROVE  WriteSr(b, sr).frames = b.frames /\ WriteSr(b, sr) \in CpuState
  <2>1. WriteSr(b, sr) \in CpuState
    BY WriteSrType
  <2>2. QED BY <2>1 DEF WriteSr, cpuSetSupervisor, CpuState
<1>2. \A sr \in StatusRegister : instrStop(c, sr).frames = c.frames
  <2> TAKE sr \in StatusRegister
  <2> DEFINE d == WriteSr(c, sr)
  <2>1. d \in CpuState /\ d.frames = c.frames
    BY <1>1
  <2>2. instrStop(c, sr) = [d EXCEPT !.stopped = TRUE]
    BY DEF instrStop
  <2> HIDE DEF d
  <2>3. QED BY <2>1, <2>2 DEF CpuState
<1>3. ASSUME ~Odd(c.a7) PROVE Len(instrRte(c).frames) <= Len(c.frames)
  <2> DEFINE b == [c EXCEPT !.a7 = c.a7 + 6]
             d == WriteSr(b, Decode(readWord(c, c.a7)))
             p == readAddress(c, c.a7 + 2)
             fs == SubSeq(c.frames, 1, Len(c.frames) - 1)
  <2>1. b \in CpuState /\ Decode(readWord(c, c.a7)) \in StatusRegister
    <3>1. c.a7 \in Int /\ c.a7 + 6 \in Int
      BY FieldTypes
    <3>2. b \in CpuState
      BY <3>1, Zenon DEF CpuState
    <3>3. QED BY <3>1, <3>2, ReadTypes, DecodeType
  <2>2. d \in CpuState
    <3> HIDE DEF b
    <3>1. QED BY <2>1, <1>1
  <2>3. instrRte(c) = [d EXCEPT !.pc = p, !.frames = fs]
    BY <1>3 DEF instrRte
  <2> HIDE DEF d, p
  <2>4. instrRte(c).frames = fs
    BY <2>2, <2>3 DEF CpuState
  <2>5. Len(fs) <= Len(c.frames)
    BY FieldTypes
  <2>6. QED BY <2>4, <2>5
<1>4. QED BY <1>1, <1>2, <1>3

\* What an instruction leaves before the trace: no new frame, or a well-entered exception,
\* but for the PC and the A7 of the handlers that go on.
Served(c, i, d) ==
  \/ d.crashed
  \/ Len(d.frames) <= Len(c.frames)
  \/ Traced(d.sr)
  \/ /\ InMode(d)
     /\ HandlerIn(d) \/ (i.op \in Jumping /\ OddAt(c, i))
     /\ FrameOn(d) \/ (i.op \in Stepping /\ OddAt(c, i))

\* What moves A7 or the PC after an exception leaves the rest of it.
LEMMA GoingOnWell ==
  ASSUME NEW r, Errs(r)
  PROVE  /\ \A v \in Int : LET d == [r EXCEPT !.a7 = v] IN d.crashed \/ (InMode(d) /\ HandlerIn(d))
         /\ \A p \in Addresses : LET d == [r EXCEPT !.pc = p] IN d.crashed \/ (InMode(d) /\ FrameOn(d))
         /\ \A v \in Int : \A p \in Addresses :
               LET d == [r EXCEPT !.pc = p, !.a7 = v] IN d.crashed \/ InMode(d)
<1>1. ASSUME NEW v \in Int PROVE LET d == [r EXCEPT !.a7 = v] IN d.crashed \/ (InMode(d) /\ HandlerIn(d))
  <2> DEFINE d == [r EXCEPT !.a7 = v]
  <2>1. d.sr = r.sr /\ d.pc = r.pc /\ d.frames = r.frames /\ d.crashed = r.crashed
    BY DEF Errs, CpuState
  <2> HIDE DEF d
  <2>2. d.crashed \/ (InMode(d) /\ HandlerIn(d))
    BY <2>1 DEF Errs, WellEntered, InMode, HandlerIn, LastTaken
  <2>3. QED BY <2>2 DEF d
<1>2. ASSUME NEW p \in Addresses PROVE LET d == [r EXCEPT !.pc = p] IN d.crashed \/ (InMode(d) /\ FrameOn(d))
  <2> DEFINE d == [r EXCEPT !.pc = p]
  <2>1. d.sr = r.sr /\ d.a7 = r.a7 /\ d.mem = r.mem /\ d.frames = r.frames /\ d.crashed = r.crashed
    BY DEF Errs, CpuState
  <2> HIDE DEF d
  <2>2. d.crashed \/ (InMode(d) /\ FrameOn(d))
    BY <2>1 DEF Errs, WellEntered, InMode, FrameOn, LastTaken
  <2>3. QED BY <2>2 DEF d
<1>3. ASSUME NEW v \in Int, NEW p \in Addresses
      PROVE  LET d == [r EXCEPT !.pc = p, !.a7 = v] IN d.crashed \/ InMode(d)
  <2> DEFINE d == [r EXCEPT !.pc = p, !.a7 = v]
  <2>1. d.sr = r.sr /\ d.frames = r.frames /\ d.crashed = r.crashed
    BY DEF Errs, CpuState
  <2> HIDE DEF d
  <2>2. d.crashed \/ InMode(d)
    BY <2>1 DEF Errs, WellEntered, InMode, LastTaken
  <2>3. QED BY <2>2 DEF d
<1>4. QED BY <1>1, <1>2, <1>3

\* What moves A7, the PC or the memory, and takes no exception.
LEMMA FramesStay ==
  ASSUME NEW c \in CpuState
  PROVE  /\ \A v : [c EXCEPT !.a7 = v].frames = c.frames
         /\ \A p : [c EXCEPT !.pc = p].frames = c.frames
         /\ \A v, p : [c EXCEPT !.pc = p, !.a7 = v].frames = c.frames
         /\ \A v : pushLong(c, v).frames = c.frames /\ pushWord(c, v).frames = c.frames
         /\ \A v : instrMoveUsp(c, v).frames = c.frames /\ instrLea(c, v).frames = c.frames
  BY DEF CpuState, pushLong, pushWord, instrMoveUsp, instrLea

\* JSR, RTS, RTR, LINK, UNLK, MOVEA and MOVEM: as they are at an even address, and after the
\* address errors of an odd one.
LEMMA GoingOnServes ==
  ASSUME NEW c \in CpuState, NEW i, IsInstruction(i), Allowed(c, i),
         i.op \in {"jsr", "rts", "rtr", "link", "unlk", "movea", "movemDown", "movemUp"}
  PROVE  Served(c, i, decoderExecute(c, i))
<1>0. Decodes(c, i, decoderExecute(c, i))
  BY DecodeIs
<1>1. /\ c.a7 \in Int /\ c.a7 - 4 \in Int /\ c.a7 + 4 \in Int /\ c.pc \in Int
      /\ (Odd(c.a7) <=> Odd(c.a7 - 4)) /\ Len(c.frames) \in Nat
  BY FieldTypes, AddressesAre DEF Odd
<1>2. \A v \in Int : v + 4 \in Int /\ v + 6 \in Int /\ v + 2 \in Int
  OBVIOUS
<1>3. \A d : d.frames = c.frames => Served(c, i, d)
  BY <1>1 DEF Served
<1>4. \A v \in Int : [c EXCEPT !.a7 = v] \in CpuState /\ [c EXCEPT !.a7 = v].frames = c.frames
  BY RegisterTypes, FramesStay
<1>5. \A r : Errs(r) => r \in CpuState /\ r.a7 \in Int
  BY FieldTypes DEF Errs
<1>6. ASSUME NEW r, Errs(r), OddAt(c, i), i.op \in Stepping, NEW v \in Int
      PROVE  Served(c, i, [r EXCEPT !.a7 = v])
  BY <1>6, GoingOnWell DEF Served
<1>7. ASSUME NEW v \in Int
      PROVE  IF Odd(c.a7) THEN Errs(PushLong(c, v)) ELSE PushLong(c, v) = pushLong(c, v)
  BY <1>1, <1>4, TouchErrs DEF PushLong
<1>8. CASE i.op = "jsr"
  <2> DEFINE d == PushLong(c, c.pc)
  <2>1. decoderExecute(c, i) = [d EXCEPT !.pc = i.arg] /\ i.arg \in Addresses
    BY <1>8, <1>0 DEF instrJsr, IsInstruction, Decodes
  <2>2. CASE Odd(c.a7)
    <3>1. Errs(d) /\ OddAt(c, i) /\ i.op \in Jumping
      BY <1>1, <1>7, <1>8, <2>2 DEF OddAt, Jumping
    <3> HIDE DEF d
    <3>2. QED BY <2>1, <3>1, GoingOnWell DEF Served
  <2>3. CASE ~Odd(c.a7)
    <3>1. d = pushLong(c, c.pc)
      BY <1>1, <1>7, <2>3
    <3>2. pushLong(c, c.pc) \in CpuState /\ pushLong(c, c.pc).frames = c.frames
      BY <1>1, PushTypes, FramesStay
    <3>3. d.frames = c.frames /\ d \in CpuState
      BY <3>1, <3>2
    <3> HIDE DEF d
    <3>4. decoderExecute(c, i).frames = c.frames
      BY <2>1, <3>3 DEF CpuState
    <3>5. QED BY <3>4, <1>3
  <2>4. QED BY <2>2, <2>3
<1>9. CASE i.op = "rts"
  <2> DEFINE d == TouchLong(c, c.a7, FALSE)
             p == readAddress(c, c.a7)
             v == d.a7 + 4
  <2>1. decoderExecute(c, i) = [d EXCEPT !.pc = p, !.a7 = v] /\ p \in Addresses
    BY <1>1, <1>9, <1>0, ReadTypes DEF instrRts, Decodes
  <2>2. IF Odd(c.a7) THEN Errs(d) ELSE d = c
    BY <1>1, TouchErrs
  <2> HIDE DEF d, p
  <2>3. CASE Odd(c.a7)
    <3>1. Errs(d) /\ v \in Int /\ OddAt(c, i) /\ i.op \in Jumping /\ i.op \in Stepping
      BY <1>2, <1>5, <1>9, <2>2, <2>3 DEF OddAt, Jumping, Stepping
    <3> HIDE DEF v
    <3>2. LET x == [d EXCEPT !.pc = p, !.a7 = v] IN x.crashed \/ InMode(x)
      BY <2>1, <3>1, GoingOnWell
    <3>3. QED BY <2>1, <3>1, <3>2 DEF Served
  <2>4. CASE ~Odd(c.a7)
    <3>1. decoderExecute(c, i).frames = c.frames
      BY <2>1, <2>2, <2>4 DEF CpuState
    <3>2. QED BY <3>1, <1>3
  <2>5. QED BY <2>3, <2>4
<1>10. CASE i.op = "rtr"
  <2> DEFINE d == TouchWord(c, c.a7, FALSE)
             p == readAddress(d, d.a7 + 2)
             v == d.a7 + 6
  <2>1. decoderExecute(c, i) = [d EXCEPT !.pc = p, !.a7 = v]
    BY <1>10, <1>0 DEF instrRtr, Decodes
  <2>2. (IF Odd(c.a7) THEN Errs(d) ELSE d = c) /\ d \in CpuState
    BY <1>1, TouchErrs DEF Errs
  <2>3. p \in Addresses /\ v \in Int
    <3> HIDE DEF d
    <3>1. d.a7 \in Int /\ d.a7 + 2 \in Int /\ d.a7 + 6 \in Int
      BY <2>2, FieldTypes
    <3>2. QED BY <3>1, <2>2, ReadTypes
  <2> HIDE DEF d, p
  <2>4. CASE Odd(c.a7)
    <3>1. Errs(d) /\ OddAt(c, i) /\ i.op \in Jumping /\ i.op \in Stepping
      BY <1>10, <2>2, <2>4 DEF OddAt, Jumping, Stepping
    <3> HIDE DEF v
    <3>2. LET x == [d EXCEPT !.pc = p, !.a7 = v] IN x.crashed \/ InMode(x)
      BY <2>3, <3>1, GoingOnWell
    <3>3. QED BY <2>1, <3>1, <3>2 DEF Served
  <2>5. CASE ~Odd(c.a7)
    <3>1. decoderExecute(c, i).frames = c.frames
      BY <2>1, <2>2, <2>5 DEF CpuState
    <3>2. QED BY <3>1, <1>3
  <2>6. QED BY <2>4, <2>5
<1>11. CASE i.op = "link"
  <2> DEFINE d == PushLong(c, i.arg.an)
             v == d.a7 + i.arg.disp
  <2>1. decoderExecute(c, i) = [d EXCEPT !.a7 = v]
    BY <1>11, <1>0 DEF instrLink, Decodes
  <2>2. i.arg.an \in Int /\ i.arg.disp \in Int
    BY <1>11 DEF IsInstruction
  <2>3. (IF Odd(c.a7) THEN Errs(d) ELSE d = pushLong(c, i.arg.an)) /\ d \in CpuState
    BY <1>7, <2>2, PushTypes DEF Errs
  <2>4. v \in Int
    <3> HIDE DEF d
    <3>1. QED BY <2>2, <2>3, FieldTypes
  <2> HIDE DEF d, v
  <2>5. CASE Odd(c.a7)
    BY <1>6, <1>11, <2>1, <2>3, <2>4, <2>5 DEF OddAt, Stepping
  <2>6. CASE ~Odd(c.a7)
    <3>1. pushLong(c, i.arg.an).frames = c.frames
      BY FramesStay
    <3>2. d.frames = c.frames
      BY <3>1, <2>3, <2>6
    <3>3. decoderExecute(c, i).frames = c.frames
      BY <2>1, <2>3, <3>2 DEF CpuState
    <3>4. QED BY <3>3, <1>3
  <2>7. QED BY <2>5, <2>6
<1>12. CASE i.op = "unlk"
  <2> DEFINE b == [c EXCEPT !.a7 = i.arg]
             d == TouchLong(b, i.arg, FALSE)
             v == d.a7 + 4
  <2>1. decoderExecute(c, i) = [d EXCEPT !.a7 = v] /\ i.arg \in Int
    BY <1>12, <1>0 DEF instrUnlk, IsInstruction, Decodes
  <2>2. b \in CpuState /\ b.frames = c.frames
    BY <1>4, <2>1
  <2> HIDE DEF b
  <2>3. (IF Odd(i.arg) THEN Errs(d) ELSE d = b) /\ d \in CpuState
    BY <2>1, <2>2, TouchErrs DEF Errs
  <2>4. v \in Int
    <3> HIDE DEF d
    <3>1. QED BY <2>3, <1>2, FieldTypes
  <2> HIDE DEF d, v
  <2>5. CASE Odd(i.arg)
    BY <1>6, <1>12, <2>1, <2>3, <2>4, <2>5 DEF OddAt, Stepping
  <2>6. CASE ~Odd(i.arg)
    <3>1. decoderExecute(c, i).frames = c.frames
      BY <2>1, <2>2, <2>3, <2>6 DEF CpuState
    <3>2. QED BY <3>1, <1>3
  <2>7. QED BY <2>5, <2>6
<1>13. CASE i.op = "movea"
  <2> DEFINE d == TouchLong(c, i.arg, FALSE)
             v == readAddress(c, i.arg)
  <2>1. decoderExecute(c, i) = [d EXCEPT !.a7 = v] /\ i.arg \in Int
    BY <1>13, <1>0 DEF instrMovea, IsInstruction, Decodes
  <2>2. (IF Odd(i.arg) THEN Errs(d) ELSE d = c) /\ v \in Int
    BY <2>1, TouchErrs, ReadTypes, AddressesAre
  <2> HIDE DEF d, v
  <2>3. CASE Odd(i.arg)
    BY <1>6, <1>13, <2>1, <2>2, <2>3 DEF OddAt, Stepping
  <2>4. CASE ~Odd(i.arg)
    <3>1. decoderExecute(c, i).frames = c.frames
      BY <2>1, <2>2, <2>4 DEF CpuState
    <3>2. QED BY <3>1, <1>3
  <2>5. QED BY <2>3, <2>4
<1>14. CASE i.op = "movemDown"
  <2>1. decoderExecute(c, i) = instrMovemRegToMem(c, i.arg)
    BY <1>14, <1>0 DEF Decodes
  <2>2. CASE Odd(c.a7)
    <3> DEFINE d == TouchLong(c, c.a7 - 4, TRUE)
    <3>1. Errs(d) /\ instrMovemRegToMem(c, i.arg) = [d EXCEPT !.a7 = c.a7 - 4]
      BY <1>1, <2>2, TouchErrs DEF instrMovemRegToMem
    <3> HIDE DEF d
    <3>2. QED BY <1>1, <1>6, <1>14, <2>1, <2>2, <3>1 DEF OddAt, Stepping
  <2>3. CASE ~Odd(c.a7)
    BY <2>1, <2>3, <1>3, FramesStay DEF instrMovemRegToMem
  <2>4. QED BY <2>2, <2>3
<1>15. CASE i.op = "movemUp"
  <2> DEFINE d == TouchLong(c, c.a7, FALSE)
  <2>1. decoderExecute(c, i) = [d EXCEPT !.a7 = c.a7 + 4]
    BY <1>15, <1>0 DEF instrMovemMemToReg, Decodes
  <2>2. IF Odd(c.a7) THEN Errs(d) ELSE d = c
    BY <1>1, TouchErrs
  <2> HIDE DEF d
  <2>3. CASE Odd(c.a7)
    BY <1>1, <1>6, <1>15, <2>1, <2>2, <2>3 DEF OddAt, Stepping
  <2>4. CASE ~Odd(c.a7)
    <3>1. decoderExecute(c, i).frames = c.frames
      BY <2>1, <2>2, <2>4 DEF CpuState
    <3>2. QED BY <3>1, <1>3
  <2>5. QED BY <2>3, <2>4
<1>16. QED BY <1>8, <1>9, <1>10, <1>11, <1>12, <1>13, <1>14, <1>15

LEMMA DecodeServes ==
  ASSUME NEW c \in CpuState, NEW i, IsInstruction(i)
  PROVE  Served(c, i, decoderExecute(c, i))
<1>0. Decodes(c, i, decoderExecute(c, i))
  BY DecodeIs
<1>1. /\ PrivilegeVector \in Vectors \ ({AddressErrorVector} \cup 25 .. 31)
      /\ \A n \in 0 .. 15 : Trap0Vector + n \in Vectors \ ({AddressErrorVector} \cup 25 .. 31)
      /\ {4, 5, 6, 7, 10, 11} \subseteq Vectors \ ({AddressErrorVector} \cup 25 .. 31)
      /\ ChkVector \in Vectors \ ({AddressErrorVector} \cup 25 .. 31)
  BY DEF PrivilegeVector, Trap0Vector, ChkVector, Vectors, AddressErrorVector
<1>2. /\ c.a7 \in Int /\ c.a7 - 2 \in Int /\ c.a7 + 2 \in Int
      /\ c.frames \in Seq(Frame) /\ Len(c.frames) \in Nat
  BY FieldTypes
<1>3. \A a \in Int : [c EXCEPT !.a7 = a] \in CpuState /\ [c EXCEPT !.a7 = a].frames = c.frames
  BY RegisterTypes, FramesStay
<1>4. \A d : d.frames = c.frames => Served(c, i, d)
  BY <1>2 DEF Served
<1>5. \A d : Errs(d) => Served(c, i, d)
  BY DEF Served, Errs, WellEntered
<1>6. \A b \in CpuState : \A vec \in Vectors \ ({AddressErrorVector} \cup 25 .. 31) :
         Errs(exceptionProcess(b, vec))
  BY ProcessType, ProcessWell DEF Errs
<1>7. \A b \in CpuState : \A a \in Int : \A w \in BOOLEAN : Errs(exceptionAddressError(b, a, w))
  BY AddressErrorType, AddressErrorWell DEF Errs
<1>8. CASE ~Allowed(c, i)
  BY <1>8, <1>1, <1>5, <1>6, <1>0 DEF Decodes
<1>9. CASE Allowed(c, i) /\ i.op \in {"moveToSr", "stop"}
  BY <1>9, <1>4, <1>0, NoFrameAdded DEF IsInstruction, Decodes
<1>10. CASE Allowed(c, i) /\ i.op = "rte"
  <2>1. decoderExecute(c, i) = instrRte(c)
    BY <1>10, <1>0 DEF Decodes
  <2>2. CASE Odd(c.a7)
    BY <2>1, <2>2, <1>2, <1>5, <1>7 DEF instrRte
  <2>3. CASE ~Odd(c.a7)
    BY <2>1, <2>3, NoFrameAdded DEF Served
  <2>4. QED BY <2>2, <2>3
<1>11. CASE Allowed(c, i) /\ i.op \in {"moveUsp", "lea"}
  BY <1>11, <1>4, <1>0, FramesStay DEF Decodes
<1>12. CASE Allowed(c, i) /\ i.op = "push"
  <2>1. decoderExecute(c, i) = instrPush(c, i.arg)
    BY <1>12, <1>0 DEF Decodes
  <2>2. CASE Odd(c.a7)
    BY <2>1, <2>2, <1>2, <1>3, <1>5, <1>7 DEF instrPush
  <2>3. CASE ~Odd(c.a7)
    BY <2>1, <2>3, <1>4, FramesStay DEF instrPush
  <2>4. QED BY <2>2, <2>3
<1>13. CASE Allowed(c, i) /\ i.op = "pop"
  <2>1. decoderExecute(c, i) = instrPop(c)
    BY <1>13, <1>0 DEF Decodes
  <2>2. CASE Odd(c.a7)
    BY <2>1, <2>2, <1>2, <1>3, <1>5, <1>7 DEF instrPop
  <2>3. CASE ~Odd(c.a7)
    BY <2>1, <2>3, <1>2, <1>3, <1>4 DEF instrPop
  <2>4. QED BY <2>2, <2>3
<1>14. CASE Allowed(c, i) /\ i.op \in {"trap", "fault"}
  BY <1>14, <1>1, <1>5, <1>6, <1>0 DEF IsInstruction, Decodes
<1>15. CASE Allowed(c, i) /\ i.op \in {"oddRead", "oddWrite", "oddLong"}
  <2>1. i.arg \in Int /\ Odd(i.arg)
    BY <1>15 DEF IsInstruction
  <2>2. Errs(TouchLong(c, i.arg, FALSE))
    BY <2>1, TouchErrs
  <2>3. QED BY <1>15, <2>1, <2>2, <1>5, <1>7, <1>0 DEF Decodes
<1>16. CASE Allowed(c, i) /\ i.op \in {"moveOdd", "srOdd", "chkOdd"}
  <2> DEFINE d == exceptionAddressError(c, i.arg, FALSE)
  <2>1. Errs(d) /\ d \in CpuState /\ i.arg \in Int /\ Odd(i.arg) /\ d.a7 \in Int /\ d.a7 - 2 \in Int
    <3>1. i.arg \in Int /\ Odd(i.arg)
      BY <1>16 DEF IsInstruction
    <3>2. Errs(d)
      BY <3>1, <1>7
    <3> HIDE DEF d
    <3>3. d \in CpuState /\ d.a7 \in Int /\ d.a7 - 2 \in Int
      BY <3>2, FieldTypes DEF Errs
    <3>4. QED BY <3>1, <3>2, <3>3
  <2> HIDE DEF d
  <2>2. ASSUME i.op = "moveOdd" PROVE Served(c, i, instrPush(d, Word - 1))
    <3> DEFINE r == pushWord(d, Word - 1)
    <3>1. OddAt(c, i) /\ i.op \in Stepping
      BY <2>1, <2>2 DEF OddAt, Stepping
    <3>2. CASE Odd(d.a7)
      <4>1. [d EXCEPT !.a7 = d.a7 - 2] \in CpuState
        BY <2>1, RegisterTypes
      <4>2. QED BY <4>1, <3>2, <2>1, <1>5, <1>7 DEF instrPush
    <3>3. CASE ~Odd(d.a7)
      <4>1. instrPush(d, Word - 1) = r
        BY <3>3 DEF instrPush
      <4>2. r.sr = d.sr /\ r.pc = d.pc /\ r.frames = d.frames /\ r.crashed = d.crashed
        BY <2>1 DEF pushWord, CpuState
      <4> HIDE DEF r
      <4>3. r.crashed \/ (InMode(r) /\ HandlerIn(r))
        BY <4>2, <2>1 DEF Errs, WellEntered, InMode, HandlerIn, LastTaken
      <4>4. QED BY <4>1, <4>3, <3>1 DEF Served
    <3>4. QED BY <3>2, <3>3
  <2>3. Served(c, i, WriteSr(d, WordOfOnes))
    BY <2>1 DEF WriteSr, WordOfOnes, cpuIsSupervisor, Served, Traced, CpuState
  <2>4. Served(c, i, exceptionProcess(d, ChkVector))
    BY <2>1, <1>1, <1>5, <1>6
  <2>5. QED BY <1>16, <2>2, <2>3, <2>4, <1>0 DEF MoveFromOdd, SrFromOdd, ChkAtOdd, instrMoveToSr, d, Decodes
<1>17. CASE Allowed(c, i) /\ i.op \in {"jsr", "rts", "rtr", "link", "unlk", "movea", "movemDown", "movemUp"}
  BY <1>17, GoingOnServes
<1>18. CASE Allowed(c, i) /\ i.op \notin Operations
  BY <1>18, <1>4, <1>0 DEF Decodes
<1>19. QED
  BY <1>8, <1>9, <1>10, <1>11, <1>12, <1>13, <1>14, <1>15, <1>16, <1>17, <1>18 DEF Operations

LEMMA ExecuteServes ==
  ASSUME NEW c \in CpuState, NEW i, IsInstruction(i)
  PROVE  LET d == FetchAndExecute(c, i)
         IN  \/ d.crashed
             \/ Len(d.frames) <= Len(c.frames)
             \/ /\ InMode(d)
                /\ HandlerIn(d) \/ (i.op \in Jumping /\ OddAt(c, i))
                /\ FrameOn(d) \/ (i.op \in Stepping /\ OddAt(c, i))
<1> DEFINE b == exceptionAddressError(c, c.pc, FALSE)
           d == IF Odd(c.pc) THEN exceptionProcess(b, LineFVector) ELSE decoderExecute(c, i)
           r == exceptionProcess(d, TraceVector)
<1>1. /\ c.pc \in Int
      /\ {LineFVector, TraceVector} \subseteq Vectors \ ({AddressErrorVector} \cup 25 .. 31)
  BY FieldTypes, AddressesAre DEF LineFVector, TraceVector, Vectors, AddressErrorVector
<1>2. b \in CpuState
  BY <1>1, AddressErrorType
<1>3. exceptionProcess(b, LineFVector) \in CpuState /\ Served(c, i, exceptionProcess(b, LineFVector))
  <2> HIDE DEF b
  <2>1. QED BY <1>1, <1>2, ProcessType, ProcessWell DEF Served, WellEntered
<1>4. d \in CpuState /\ Served(c, i, d)
  <2> HIDE DEF b
  <2>1. QED BY <1>3, DecodeTypes, DecodeServes
<1>5. FetchAndExecute(c, i) = IF Traced(d.sr) THEN r ELSE d
  BY DEF FetchAndExecute
<1>6. r.crashed \/ WellEntered(r)
  <2> HIDE DEF b, d
  <2>1. QED BY <1>1, <1>4, ProcessWell
<1>7. QED
  <2> HIDE DEF b, d, r
  <2>1. QED BY <1>4, <1>5, <1>6 DEF Served, WellEntered

\* Accepting an interrupt changes the mask of an entered exception, and its record.
LEMMA AcceptEnters ==
  ASSUME NEW c \in CpuState, NEW vec \in Vectors, vec # AddressErrorVector, c.pending > 0
  PROVE  LET d == AcceptInterrupt(c, vec)
             f == d.frames[Len(d.frames)]
         IN  \/ d.crashed
             \/ /\ cpuIsSupervisor(d.sr) /\ ~Traced(d.sr) /\ d.pc = VectorTable[f.vec]
                /\ cpuGetIPL(d.sr) = c.pending
                /\ d.a7 = f.base /\ (InMemory(f) => Holds(d.mem, f))
<1> DEFINE b == [c EXCEPT !.stopped = FALSE]
           r == exceptionProcess(b, vec)
           g == OpenFrame(b, EnterException(b, vec), vec)
           m == [r EXCEPT !.sr = cpuSetIPL(r.sr, c.pending)]
           n == Len(r.frames)
           d == [m EXCEPT !.frames[n].mask = c.pending]
           f == d.frames[n]
<1>1. b \in CpuState /\ b.frames = c.frames /\ b.frames \in Seq(Frame)
  BY FieldTypes DEF CpuState
<1>2. AcceptInterrupt(c, vec) = IF r.crashed THEN m ELSE d
  BY DEF AcceptInterrupt
<1> HIDE DEF b
<1>3. r \in CpuState /\ (r.crashed \/ Enters(b, r, g))
  BY <1>1, ProcessType, ProcessEnters
<1> HIDE DEF r, g
<1>4. c.pending \in 0 .. 7
  BY FieldTypes
<1>5. CASE r.crashed
  <2>1. m.crashed
    BY <1>5, <1>3 DEF CpuState
  <2>2. QED BY <2>1, <1>2, <1>5
<1>6. CASE ~r.crashed
  <2>1. /\ n \in Nat \ {0} /\ r.frames[n] = g /\ g \in Frame /\ r.frames \in Seq(Frame)
    BY <1>1, <1>3, <1>6, AppendedFrame, FieldTypes DEF Enters
  <2>2. /\ m.sr = cpuSetIPL(r.sr, c.pending) /\ m.frames = r.frames /\ m.a7 = r.a7
        /\ m.pc = r.pc /\ m.mem = r.mem
    BY <1>3 DEF CpuState
  <2>3. m \in CpuState
    <3>1. cpuSetIPL(r.sr, c.pending) \in StatusRegister
      BY <1>3, <1>4, FieldTypes, SrUpdates
    <3>2. QED BY <1>3, <3>1, Zenon DEF CpuState
  <2> HIDE DEF m
  <2> DEFINE fs == [m.frames EXCEPT ![n].mask = c.pending]
  <2>4. d = [m EXCEPT !.frames = fs]
    OBVIOUS
  <2>5. fs[n] = [g EXCEPT !.mask = c.pending] /\ Len(fs) = n
    <3>1. n \in DOMAIN m.frames /\ m.frames[n] = g
      BY <2>1, <2>2
    <3>2. fs \in Seq(Frame) /\ Len(fs) = n
      BY <2>1, <2>2, <1>4, ReplacedFrame
    <3>3. QED BY <3>1, <3>2
  <2> HIDE DEF n, fs
  <2>6. /\ d.frames = fs /\ d.sr = m.sr /\ d.a7 = m.a7 /\ d.pc = m.pc /\ d.mem = m.mem
    <3> HIDE DEF d
    <3>1. QED BY <2>3, <2>4 DEF CpuState
  <2> HIDE DEF d
  <2>7. /\ f.base = g.base /\ f.sr = g.sr /\ f.pc = g.pc /\ f.vec = g.vec /\ f = d.frames[Len(d.frames)]
    BY <2>1, <2>5, <2>6 DEF Frame
  <2>8. cpuIsSupervisor(d.sr) /\ ~Traced(d.sr) /\ cpuGetIPL(d.sr) = c.pending
    <3>1. r.sr \in StatusRegister /\ cpuIsSupervisor(r.sr) /\ ~Traced(r.sr)
      BY <1>3, <1>6, FieldTypes DEF Enters
    <3>2. QED BY <3>1, <2>2, <2>6, <1>4 DEF cpuSetIPL, cpuIsSupervisor, Traced, cpuGetIPL, StatusRegister
  <2>9. d.pc = VectorTable[f.vec] /\ d.a7 = f.base /\ (InMemory(f) => Holds(d.mem, f))
    <3> HIDE DEF f
    <3>1. QED BY <2>2, <2>6, <2>7, <1>3, <1>6 DEF Enters, InMemory, Holds
  <2>10. QED BY <2>7, <2>8, <2>9, <1>2, <1>6
<1>7. QED BY <1>5, <1>6

(* An exception that was taken left the CPU in supervisor mode and untraced,    *)
(* with the mask that it must have, at its handler, and stacked what it         *)
(* interrupted, for any program of these instructions, any devices, any stack   *)
(* pointer and several exceptions in a step; but for the PC and the A7 of the   *)
(* instructions that an address error interrupts and that then go on.           *)
THEOREM MachineExceptionEntry == Spec => ExceptionEntry
<1> DEFINE Sound == EnteredMode /\ (AtHandler \/ GoesOn(Jumping)) /\ (OnFrame \/ GoesOn(Stepping))
<1>1. TypeOK /\ [Next]_vars => [Raised => Sound]_vars
  <2> SUFFICES ASSUME TypeOK, Next, Raised PROVE Sound
    BY DEF vars
  <2>1. cpu \in CpuState /\ ~cpu'.crashed /\ Len(cpu'.frames) > Len(cpu.frames)
        /\ Len(cpu.frames) \in Nat
    BY FieldTypes DEF TypeOK, Raised
  <2>2. CASE CheckInterrupt
    <3>1. Interruptible(cpu) /\ cpu' = AcceptInterrupt(cpu, VectorFor(cpu.pending))
      BY <2>1, <2>2 DEF CheckInterrupt
    <3>2. cpu.pending > 0 /\ cpu.pending \in 1 .. 7
      BY <2>1, <3>1, FieldTypes DEF Interruptible
    <3>3. VectorFor(cpu.pending) \in Vectors /\ VectorFor(cpu.pending) # AddressErrorVector
      BY <3>2 DEF VectorFor, SpuriousVector, Vectors, AddressErrorVector
    <3>4. at = "interrupt"
      BY <2>2 DEF CheckInterrupt
    <3>5. QED BY <2>1, <3>1, <3>2, <3>3, <3>4, AcceptEnters DEF EnteredMode, AtHandler, OnFrame, Taken
  <2>3. CASE \E i \in Instr : Execute(i)
    <3>1. PICK i \in Instr : Execute(i)
      BY <2>3
    <3>2. cpu' = FetchAndExecute(cpu, i) /\ IsInstruction(i) /\ at = "execute"
      BY <3>1, MachineAssumption DEF Execute
    <3>3. /\ InMode(cpu')
          /\ HandlerIn(cpu') \/ (i.op \in Jumping /\ OddAt(cpu, i))
          /\ FrameOn(cpu') \/ (i.op \in Stepping /\ OddAt(cpu, i))
      BY <2>1, <3>2, ExecuteServes
    <3>4. \A ops : i.op \in ops /\ OddAt(cpu, i) => GoesOn(ops)
      BY <3>1 DEF GoesOn, OddAt, OddAccess
    <3>5. InMode(cpu') => EnteredMode
      BY <3>2 DEF InMode, EnteredMode, LastTaken, Taken
    <3>6. (HandlerIn(cpu') => AtHandler) /\ (FrameOn(cpu') => OnFrame)
      BY DEF HandlerIn, AtHandler, FrameOn, OnFrame, LastTaken, Taken
    <3>7. QED BY <3>3, <3>4, <3>5, <3>6
  <2>4. CASE TickAndPoll
    <3>1. cpu' = cpuRaiseInterrupt(cpu, HighestLevel(lines'))
      BY <2>4 DEF TickAndPoll, machinePollInterrupts
    <3>2. cpu'.frames = cpu.frames
      BY <2>1, <3>1 DEF cpuRaiseInterrupt, CpuState
    <3>3. QED BY <2>1, <3>2
  <2>5. CASE NextFrame
    BY <2>1, <2>5 DEF NextFrame
  <2>6. QED BY <2>2, <2>3, <2>4, <2>5 DEF Next, Loop
<1>2. QED BY <1>1, MachineTypes, PTL DEF Spec, ExceptionEntry

----------------------------------------------------------------------------
(* The invariant of records *)

\* The state d after an exception that pushed frame f on the stack of c.
Stacked(c, d, f) ==
  /\ d \in CpuState /\ f \in Frame
  /\ cpuIsSupervisor(d.sr) /\ ~Traced(d.sr) /\ ~d.crashed /\ ~Odd(d.a7) /\ ~Odd(d.pc)
  /\ d.frames = Append(c.frames, f)
  /\ f.sr = c.sr /\ f.pc = c.pc /\ f.sp = c.a7 /\ f.base = d.a7 /\ f.sp = f.base + FrameSize(f)
  /\ \A a \in StackMem : c.a7 <= a => d.mem[a] = c.mem[a]
  /\ MemLo <= d.a7 => Holds(d.mem, f)

\* Writes below the frames leave them alone.
LEMMA HoldsStays ==
  ASSUME NEW c, NEW d, NEW f \in Frame, Regular(c, f), NEW top \in Int, top <= f.base,
         \A a \in StackMem : top <= a => d.mem[a] = c.mem[a]
  PROVE  Holds(d.mem, f)
<1>1. f.base \in Int /\ f.sp \in Int /\ f.base \in StackMem /\ f.sp = f.base + FrameSize(f)
      /\ f.sp <= ResetSsp
  BY DEF Frame, Regular
<1>2. FrameSize(f) = (IF f.vec = AddressErrorVector THEN 14 ELSE 6)
  BY DEF FrameSize
<1>3. ~Odd(f.base + 2) /\ ~Odd(f.base + 4)
  BY <1>1, StackMemIs DEF Odd
<1>4. f.base + 2 \in StackMem /\ f.base + 4 \in StackMem
  BY <1>1, <1>2, <1>3, StackMemIs
<1>5. /\ d.mem[f.base] = c.mem[f.base] /\ d.mem[f.base + 2] = c.mem[f.base + 2]
      /\ d.mem[f.base + 4] = c.mem[f.base + 4]
  BY <1>1, <1>4
<1>6. QED BY <1>5 DEF Holds, Regular

LEMMA StackingKeeps ==
  ASSUME NEW c \in CpuState, KernelInv(c), NEW d, NEW f, Stacked(c, d, f), MemLo <= d.a7,
         cpuGetIPL(c.sr) <= f.mask, f.mask <= cpuGetIPL(d.sr),
         IsInterrupt(f) => cpuGetIPL(c.sr) < f.mask
  PROVE  KernelInv(d)
<1> DEFINE n == Len(c.frames)
<1>1. /\ d.frames = Append(c.frames, f) /\ f \in Frame /\ d \in CpuState
      /\ c.frames \in Seq(Frame) /\ d.frames \in Seq(Frame)
      /\ Len(d.frames) = n + 1 /\ d.frames[n + 1] = f /\ n \in Nat
      /\ \A k \in 1 .. n : d.frames[k] = c.frames[k] /\ c.frames[k] \in Frame
  BY FieldTypes, AppendedFrame DEF Stacked
<1>2. /\ c.a7 \in Int /\ d.a7 \in Int /\ f.sp \in Int /\ f.base \in Int
      /\ cpuGetIPL(c.sr) \in Int /\ cpuGetIPL(d.sr) \in Int /\ f.mask \in Int
  <2>1. c.a7 \in Int /\ d.a7 \in Int /\ c.sr \in StatusRegister /\ d.sr \in StatusRegister
    BY <1>1, FieldTypes
  <2>2. cpuGetIPL(c.sr) \in Int /\ cpuGetIPL(d.sr) \in Int
    BY <2>1, SrUpdates
  <2>3. f.sp \in Int /\ f.base \in Int /\ f.mask \in Int
    BY <1>1 DEF Frame
  <2>4. QED BY <2>1, <2>2, <2>3
<1>3. /\ f.sp = c.a7 /\ f.base = d.a7 /\ f.sp = f.base + FrameSize(f) /\ f.sr = c.sr
      /\ f.base <= f.sp
  BY <1>2 DEF Stacked, FrameSize
<1>4. d.a7 \in StackMem
  BY <1>2, <1>3, StackMemIs DEF Stacked, KernelInv, Calm
<1>5. Calm(d)
  BY <1>2, <1>4, StackMemIs, <1>3 DEF Stacked, Calm, KernelInv
<1>6. Regular(d, f)
  BY <1>2, <1>3, <1>4 DEF Stacked, Regular, KernelInv, Calm
<1>7. ASSUME NEW k \in 1 .. n PROVE Regular(d, d.frames[k]) /\ Above(f, d.frames[k])
  <2> DEFINE g == c.frames[k]
  <2>1. g = d.frames[k] /\ g \in Frame /\ Regular(c, g)
    BY <1>1 DEF KernelInv
  <2> HIDE DEF g
  <2>2. g.base \in Int /\ g.mask \in Int
    BY <2>1 DEF Frame
  <2>3. Holds(d.mem, g)
    <3>1. c.a7 <= g.base
      BY <2>1 DEF Regular
    <3>2. \A a \in StackMem : c.a7 <= a => d.mem[a] = c.mem[a]
      BY DEF Stacked
    <3>3. QED BY <2>1, <3>1, <3>2, <1>2, HoldsStays
  <2>4. c.a7 <= g.base /\ d.a7 <= g.base /\ g.mask <= cpuGetIPL(c.sr) /\ g.mask <= cpuGetIPL(d.sr)
    BY <2>1, <2>2, <1>2, <1>3 DEF Regular
  <2>5. Regular(d, g)
    BY <2>1, <2>3, <2>4 DEF Regular
  <2>6. Above(f, g)
    BY <2>4, <1>3 DEF Above
  <2>7. QED BY <2>1, <2>5, <2>6
<1>8. ASSUME NEW j \in 1 .. n + 1, NEW k \in 1 .. n + 1, j < k
      PROVE  Above(d.frames[k], d.frames[j])
  <2>1. CASE k = n + 1
    BY <2>1, <1>8, <1>7, <1>1
  <2>2. CASE k \in 1 .. n
    <3>1. j \in 1 .. n
      BY <2>2, <1>8, <1>1
    <3>2. Above(c.frames[k], c.frames[j])
      BY <3>1, <2>2, <1>8 DEF KernelInv
    <3>3. QED BY <3>1, <3>2, <2>2, <1>1
  <2>3. QED BY <2>1, <2>2, <1>1
<1>9. ASSUME NEW k \in 1 .. n + 1 PROVE Regular(d, d.frames[k])
  BY <1>1, <1>6, <1>7
<1>10. QED
  BY <1>1, <1>5, <1>8, <1>9 DEF KernelInv

\* A step that takes and drops no frame keeps the invariant when it writes below
\* the running routine's frame only and does not lower the mask under others.
LEMMA RoutineKeeps ==
  ASSUME NEW c \in CpuState, KernelInv(c), NEW d \in CpuState, Calm(d),
         d.frames = c.frames,
         \A k \in 1 .. Len(c.frames) : d.a7 <= c.frames[k].base
                                       /\ c.frames[k].mask <= cpuGetIPL(d.sr),
         \A a \in StackMem : c.a7 <= a => d.mem[a] = c.mem[a]
  PROVE  KernelInv(d)
<1>1. c.a7 \in Int /\ \A k \in 1 .. Len(c.frames) : c.frames[k] \in Frame
  BY FieldTypes
<1>2. ASSUME NEW k \in 1 .. Len(c.frames) PROVE Regular(d, c.frames[k])
  <2> DEFINE g == c.frames[k]
  <2>1. g \in Frame /\ Regular(c, g) /\ d.a7 <= g.base /\ g.mask <= cpuGetIPL(d.sr)
    BY <1>1 DEF KernelInv
  <2> HIDE DEF g
  <2>2. Holds(d.mem, g)
    <3>1. c.a7 <= g.base
      BY <2>1 DEF Regular
    <3>2. QED BY <2>1, <3>1, <1>1, HoldsStays
  <2>3. Regular(d, g)
    BY <2>1, <2>2 DEF Regular
  <2>4. QED BY <2>3 DEF g
<1>3. QED BY <1>2 DEF KernelInv

----------------------------------------------------------------------------
(* Exceptions of the kernel *)

LEMMA PendingKept ==
  ASSUME NEW c \in CpuState
  PROVE  /\ \A v \in Int : pushWord(c, v).pending = c.pending /\ pushLong(c, v).pending = c.pending
         /\ \A vec \in Vectors : EnterException(c, vec).pending = c.pending
<1>1. \A v \in Int : pushWord(c, v).pending = c.pending /\ pushLong(c, v).pending = c.pending
  BY DEF pushWord, pushLong, CpuState
<1>2. ASSUME NEW vec \in Vectors PROVE EnterException(c, vec).pending = c.pending
  <2> DEFINE s == cpuSetSupervisor(c, TRUE)
             quiet == ClearTrace(s.sr)
             new == IF vec \in 25 .. 31 THEN cpuSetIPL(quiet, vec - SpuriousVector) ELSE quiet
  <2>1. s \in CpuState /\ s.pending = c.pending
    BY SupervisorType DEF cpuSetSupervisor, CpuState
  <2>2. [s EXCEPT !.sr = new].pending = s.pending
    <3> HIDE DEF s, new
    <3>1. QED BY <2>1 DEF CpuState
  <2>3. EnterException(c, vec) = [s EXCEPT !.sr = new]
    BY DEF EnterException
  <2>4. QED BY <2>1, <2>2, <2>3
<1>3. QED BY <1>1, <1>2

\* The frame of an exception from the kernel, six bytes below what it interrupted.
LEMMA ProcessStacks ==
  ASSUME NEW c \in CpuState, KernelInv(c), NEW vec \in Vectors, vec # AddressErrorVector
  PROVE  LET r == exceptionProcess(c, vec)
             f == OpenFrame(c, EnterException(c, vec), vec)
         IN  /\ Stacked(c, r, f) /\ f.vec = vec /\ f.mask = cpuGetIPL(r.sr)
             /\ cpuGetIPL(r.sr) = IF vec \in 25 .. 31 THEN vec - SpuriousVector
                                                     ELSE cpuGetIPL(c.sr)
             /\ r.pending = c.pending
<1> DEFINE d == EnterException(c, vec)
           sr == Encode(c.sr)
           e1 == pushLong(d, c.pc)
           e == pushWord(e1, sr)
           f == OpenFrame(c, d, vec)
           fs == Append(c.frames, f)
           r == exceptionProcess(c, vec)
<1>1. /\ d \in CpuState /\ c.pc \in Int /\ c.pc \in Addresses /\ sr \in Words /\ sr \in Int
      /\ c.a7 \in Int /\ c.mem \in Memories
  BY EnterType, FieldTypes, AddressesAre, EncodeDecode, WordsAre
<1>2. /\ d.frames = c.frames /\ d.crashed = c.crashed /\ d.mem = c.mem /\ d.a7 = c.a7
      /\ cpuIsSupervisor(d.sr) /\ ~Traced(d.sr) /\ d.pending = c.pending
      /\ cpuGetIPL(d.sr) = IF vec \in 25 .. 31 THEN vec - SpuriousVector ELSE cpuGetIPL(c.sr)
  BY EnterEffect, PendingKept DEF KernelInv, Calm
<1>3. /\ f \in Frame /\ f.sr = c.sr /\ f.pc = c.pc /\ f.sp = c.a7 /\ f.base = c.a7 - 6
      /\ f.vec = vec /\ f.mask = cpuGetIPL(d.sr)
  BY <1>1, <1>2, FrameType DEF OpenFrame
<1> HIDE DEF d, sr, f
<1>4. /\ e1 \in CpuState /\ e1.sr = d.sr /\ e1.crashed = d.crashed /\ e1.pending = d.pending
      /\ e1.a7 = d.a7 - 4 /\ e1.mem = WithLong(d.mem, d.a7 - 4, c.pc)
  BY <1>1, PushTypes, PushKeeps, PendingKept
<1> HIDE DEF e1
<1>5. /\ e \in CpuState /\ e.sr = d.sr /\ e.crashed = d.crashed /\ e.pending = d.pending
      /\ e.a7 = e1.a7 - 2 /\ e.mem = WithWord(e1.mem, e1.a7 - 2, sr)
  BY <1>1, <1>4, PushTypes, PushKeeps, PendingKept
<1> HIDE DEF e
<1>6. e.a7 = c.a7 - 6 /\ e.mem = WithWord(WithLong(c.mem, c.a7 - 4, c.pc), c.a7 - 6, sr)
  BY <1>1, <1>2, <1>4, <1>5
<1>7. /\ r = [e EXCEPT !.pc = VectorTable[vec], !.frames = fs]
      /\ r \in CpuState
  <2>1. ~Odd(d.a7)
    BY <1>2 DEF KernelInv, Calm
  <2>2. QED BY <2>1, ProcessType DEF exceptionProcess, d, sr, e1, e, f
<1> HIDE DEF fs, r
<1>8. /\ r.sr = d.sr /\ r.crashed = c.crashed /\ r.pending = c.pending /\ r.a7 = c.a7 - 6
      /\ r.mem = e.mem /\ r.pc = VectorTable[vec] /\ r.frames = fs
  BY <1>2, <1>5, <1>6, <1>7 DEF CpuState
<1>9. ~Odd(r.pc)
  BY <1>8, KernelAssumption DEF Odd
<1>10. ~Odd(c.a7) /\ ~Odd(c.a7 - 6) /\ ~Odd(c.a7 - 4) /\ ~Odd(c.a7 - 2)
  BY <1>1 DEF KernelInv, Calm, Odd
<1>11. \A b \in StackMem : r.mem[b] =
         IF b = c.a7 - 6 THEN sr
         ELSE IF b = c.a7 - 2 THEN c.pc % Word
         ELSE IF b = c.a7 - 4 THEN (c.pc \div Word) % Word ELSE c.mem[b]
  <2>1. c.a7 - 4 \in Int /\ c.a7 - 6 \in Int /\ (c.a7 - 4) + 2 = c.a7 - 2
    BY <1>1
  <2>2. WithLong(c.mem, c.a7 - 4, c.pc) \in Memories
    BY <2>1, <1>1, WriteLong
  <2>3. \A b \in StackMem : r.mem[b] =
          IF b = c.a7 - 6 THEN sr ELSE WithLong(c.mem, c.a7 - 4, c.pc)[b]
    BY <2>1, <2>2, <1>1, <1>6, <1>8, WriteWord
  <2>4. \A b \in StackMem : WithLong(c.mem, c.a7 - 4, c.pc)[b] =
          IF b = c.a7 - 2 THEN c.pc % Word
          ELSE IF b = c.a7 - 4 THEN (c.pc \div Word) % Word ELSE c.mem[b]
    BY <2>1, <1>1, WriteLong
  <2>5. QED BY <2>3, <2>4
<1>12. \A b \in StackMem : c.a7 <= b => r.mem[b] = c.mem[b]
  BY <1>11, <1>1, StackMemIs
<1>13. ASSUME MemLo <= r.a7 PROVE Holds(r.mem, f)
  <2>1. /\ c.a7 - 6 \in StackMem /\ c.a7 - 4 \in StackMem /\ c.a7 - 2 \in StackMem
    BY <1>13, <1>8, <1>10, <1>1, StackMemIs DEF KernelInv, Calm
  <2>2. /\ r.mem[c.a7 - 6] = sr
        /\ r.mem[c.a7 - 4] = (c.pc \div Word) % Word /\ r.mem[c.a7 - 2] = c.pc % Word
    BY <2>1, <1>11, <1>1
  <2>3. r.mem[c.a7 - 4] * Word + r.mem[c.a7 - 2] = c.pc
    BY <2>2, <1>1, Halves
  <2>4. f.base = c.a7 - 6 /\ f.base + 2 = c.a7 - 4 /\ f.base + 4 = c.a7 - 2
    BY <1>1, <1>3
  <2>5. QED BY <2>2, <2>3, <2>4, <1>3 DEF Holds, sr
<1>14. Stacked(c, r, f)
  <2>1. f.sp = f.base + FrameSize(f) /\ f.base = r.a7
    BY <1>1, <1>3, <1>8 DEF FrameSize
  <2>2. ~r.crashed /\ ~Odd(r.a7) /\ cpuIsSupervisor(r.sr) /\ ~Traced(r.sr)
    BY <1>2, <1>8, <1>10 DEF KernelInv, Calm
  <2>3. QED BY <2>1, <2>2, <1>3, <1>7, <1>8, <1>9, <1>12, <1>13 DEF Stacked, fs
<1>15. QED BY <1>2, <1>3, <1>8, <1>14 DEF d, f, r

\* The longer frame of an address error, with SR under PC.
LEMMA AddressErrorStacks ==
  ASSUME NEW c \in CpuState, KernelInv(c), NEW address \in Int, NEW isWrite \in BOOLEAN
  PROVE  LET r == exceptionAddressError(c, address, isWrite)
             f == [OpenFrame(c, EnterException(c, AddressErrorVector), AddressErrorVector)
                     EXCEPT !.base = c.a7 - 14]
         IN  /\ Stacked(c, r, f) /\ f.vec = AddressErrorVector /\ f.mask = cpuGetIPL(c.sr)
             /\ cpuGetIPL(r.sr) = cpuGetIPL(c.sr) /\ r.pending = c.pending
<1> DEFINE vec == AddressErrorVector
           d == EnterException(c, vec)
           sr == Encode(c.sr)
           info == 8 + 5 + (IF isWrite THEN 0 ELSE 16)
           e1 == pushWord(d, info)
           e2 == pushLong(e1, address)
           e3 == pushWord(e2, OpcodeWord)
           e4 == pushWord(e3, sr)
           e == pushLong(e4, c.pc)
           g == OpenFrame(c, d, vec)
           f == [g EXCEPT !.base = c.a7 - 14]
           fs == Append(c.frames, f)
           r == exceptionAddressError(c, address, isWrite)
           SameSr(p, q) == p \in CpuState /\ p.sr = q.sr /\ p.crashed = q.crashed
                          /\ p.pending = q.pending
<1>0. vec \in Vectors /\ vec = 3
  BY DEF AddressErrorVector, Vectors
<1>1. /\ d \in CpuState /\ c.pc \in Int /\ c.pc \in Addresses /\ sr \in Words /\ sr \in Int
      /\ c.a7 \in Int /\ OpcodeWord \in Words
  BY <1>0, EnterType, FieldTypes, AddressesAre, EncodeDecode, WordsAre, CpuAssumption
<1>2. info \in Words
  BY WordsAre, Sizes
<1>3. /\ d.frames = c.frames /\ d.crashed = c.crashed /\ d.mem = c.mem /\ d.a7 = c.a7
      /\ cpuIsSupervisor(d.sr) /\ ~Traced(d.sr) /\ d.pending = c.pending
      /\ cpuGetIPL(d.sr) = cpuGetIPL(c.sr)
  BY <1>0, EnterEffect, PendingKept DEF KernelInv, Calm
<1>4. /\ f \in Frame /\ f.sr = c.sr /\ f.pc = c.pc /\ f.sp = c.a7 /\ f.base = c.a7 - 14
      /\ f.vec = vec /\ f.mask = cpuGetIPL(d.sr)
  <2>1. /\ g \in Frame /\ g.sr = c.sr /\ g.pc = c.pc /\ g.sp = c.a7
        /\ g.vec = vec /\ g.mask = cpuGetIPL(d.sr)
    BY <1>0, <1>1, <1>3, FrameType DEF OpenFrame
  <2>2. c.a7 - 14 \in Int
    BY <1>1
  <2> HIDE DEF g, vec, d
  <2>3. QED BY <2>1, <2>2 DEF Frame
<1> HIDE DEF vec, d, sr, info, g
<1>5. \A p \in CpuState : \A w \in Words :
        SameSr(pushWord(p, w), p) /\ pushWord(p, w).a7 = p.a7 - 2
  <2> TAKE p \in CpuState
  <2> TAKE w \in Words
  <2>1. w \in Int /\ pushWord(p, w) \in CpuState
    BY PushTypes, WordsAre
  <2> HIDE DEF e1, e2, e3, e4, e, f, fs, r
  <2>2. QED BY <2>1, PushKeeps, PendingKept
<1>6. \A p \in CpuState : \A v \in Int :
        SameSr(pushLong(p, v), p) /\ pushLong(p, v).a7 = p.a7 - 4
  <2> TAKE p \in CpuState
  <2> TAKE v \in Int
  <2>1. pushLong(p, v) \in CpuState
    BY PushTypes
  <2> HIDE DEF e1, e2, e3, e4, e, f, fs, r
  <2>2. /\ pushLong(p, v).sr = p.sr /\ pushLong(p, v).crashed = p.crashed
        /\ pushLong(p, v).a7 = p.a7 - 4
    BY PushKeeps
  <2>3. pushLong(p, v).pending = p.pending
    BY PendingKept
  <2>4. QED BY <2>1, <2>2, <2>3
<1>7. SameSr(e1, d) /\ e1.a7 = c.a7 - 2
  <2>1. e1.a7 = d.a7 - 2
    BY <1>1, <1>2, <1>5
  <2>2. SameSr(e1, d)
    BY <1>1, <1>2, <1>5
  <2>3. QED BY <2>1, <2>2, <1>3
<1>8. SameSr(e2, e1) /\ e2.a7 = c.a7 - 6
  <2> HIDE DEF e1
  <2>1. SameSr(e2, e1) /\ e2.a7 = e1.a7 - 4
    BY <1>7, <1>6
  <2>2. QED BY <2>1, <1>7, <1>1
<1>9. SameSr(e3, e2) /\ e3.a7 = c.a7 - 8
  <2> HIDE DEF e2
  <2>1. SameSr(e3, e2) /\ e3.a7 = e2.a7 - 2
    BY <1>8, <1>5, <1>1
  <2>2. QED BY <2>1, <1>8, <1>1
<1>10. SameSr(e4, e3) /\ e4.a7 = c.a7 - 10
  <2> HIDE DEF e3
  <2>1. SameSr(e4, e3) /\ e4.a7 = e3.a7 - 2
    BY <1>9, <1>5, <1>1
  <2>2. QED BY <2>1, <1>9, <1>1
<1>11. SameSr(e, e4) /\ e.a7 = c.a7 - 14
  <2> HIDE DEF e4
  <2>1. SameSr(e, e4) /\ e.a7 = e4.a7 - 4
    BY <1>10, <1>6, <1>1
  <2>2. QED BY <2>1, <1>10, <1>1
<1>12. \A b \in StackMem :
         /\ c.a7 <= b => e.mem[b] = c.mem[b]
         /\ b = c.a7 - 10 => e.mem[b] = sr
         /\ b = c.a7 - 14 => e.mem[b] = (c.pc \div Word) % Word
         /\ b = c.a7 - 12 => e.mem[b] = c.pc % Word
  <2> TAKE b \in StackMem
  <2>1. b \in Int
    BY DEF StackMem
  <2>2. e1.mem[b] = IF b = c.a7 - 2 THEN info ELSE c.mem[b]
    BY <1>1, <1>2, <1>3, PushMem
  <2> HIDE DEF e1
  <2>3. c.a7 <= b => e2.mem[b] = e1.mem[b]
    BY <1>7, <1>1, <2>1, PushMem
  <2> HIDE DEF e2
  <2>4. c.a7 <= b => e3.mem[b] = e2.mem[b]
    BY <1>8, <1>1, <2>1, PushMem
  <2> HIDE DEF e3
  <2>5. e4.mem[b] = IF b = c.a7 - 10 THEN sr ELSE e3.mem[b]
    <3>1. e3.a7 - 2 = c.a7 - 10
      BY <1>9, <1>1
    <3>2. QED BY <3>1, <1>9, <1>1, PushMem
  <2> HIDE DEF e4
  <2>6. e.mem[b] = IF b = c.a7 - 12 THEN c.pc % Word
                   ELSE IF b = c.a7 - 14 THEN (c.pc \div Word) % Word ELSE e4.mem[b]
    <3>1. e4.a7 - 2 = c.a7 - 12 /\ e4.a7 - 4 = c.a7 - 14
      BY <1>10, <1>1
    <3>2. QED BY <3>1, <1>10, <1>1, PushMem
  <2> HIDE DEF e
  <2>7. QED BY <2>1, <2>2, <2>3, <2>4, <2>5, <2>6, <1>1
<1>13. e \in CpuState /\ e.sr = d.sr /\ e.crashed = c.crashed /\ e.pending = c.pending
  BY <1>3, <1>7, <1>8, <1>9, <1>10, <1>11
<1>14. r = [e EXCEPT !.pc = VectorTable[vec], !.frames = fs] /\ r \in CpuState
  <2>1. ~Odd(d.a7)
    BY <1>3 DEF KernelInv, Calm
  <2>2. f = [g EXCEPT !.base = d.a7 - 14]
    BY <1>3
  <2>3. QED BY <2>1, <2>2, AddressErrorType DEF exceptionAddressError, d, sr, info, g, vec
<1> HIDE DEF e1, e2, e3, e4, e, fs, r, SameSr
<1>15. /\ r.sr = d.sr /\ r.crashed = c.crashed /\ r.pending = c.pending /\ r.a7 = c.a7 - 14
       /\ r.mem = e.mem /\ r.pc = VectorTable[vec] /\ r.frames = fs
  BY <1>11, <1>13, <1>14 DEF CpuState
<1>16. ~Odd(r.pc)
  BY <1>0, <1>15, KernelAssumption DEF Odd
<1>17. ~Odd(c.a7) /\ ~Odd(c.a7 - 14) /\ ~Odd(c.a7 - 12) /\ ~Odd(c.a7 - 10)
  BY <1>1 DEF KernelInv, Calm, Odd
<1>18. ASSUME MemLo <= r.a7 PROVE Holds(r.mem, f)
  <2>1. c.a7 - 14 \in StackMem /\ c.a7 - 12 \in StackMem /\ c.a7 - 10 \in StackMem
    BY <1>18, <1>15, <1>17, <1>1, StackMemIs DEF KernelInv, Calm
  <2>2. /\ r.mem[c.a7 - 10] = sr
        /\ r.mem[c.a7 - 14] = (c.pc \div Word) % Word /\ r.mem[c.a7 - 12] = c.pc % Word
    BY <2>1, <1>12, <1>15
  <2>3. r.mem[c.a7 - 14] * Word + r.mem[c.a7 - 12] = c.pc
    BY <2>2, <1>1, Halves
  <2>4. f.base = c.a7 - 14 /\ f.base + 2 = c.a7 - 12 /\ f.base + 4 = c.a7 - 10
    BY <1>1, <1>4
  <2> HIDE DEF f
  <2>5. QED BY <2>2, <2>3, <2>4, <1>4 DEF Holds, sr, vec
<1> HIDE DEF f
<1>19. Stacked(c, r, f)
  <2>1. f.sp = f.base + FrameSize(f) /\ f.base = r.a7
    BY <1>1, <1>4, <1>15 DEF FrameSize, vec
  <2>2. ~r.crashed /\ ~Odd(r.a7) /\ cpuIsSupervisor(r.sr) /\ ~Traced(r.sr)
    BY <1>3, <1>15, <1>17 DEF KernelInv, Calm
  <2>3. \A a \in StackMem : c.a7 <= a => r.mem[a] = c.mem[a]
    BY <1>12, <1>15
  <2>4. QED BY <2>1, <2>2, <2>3, <1>4, <1>14, <1>15, <1>16, <1>18 DEF Stacked, fs
<1>20. QED BY <1>3, <1>4, <1>15, <1>19 DEF d, f, g, r, vec

LEMMA ChangedLast ==
  ASSUME NEW s \in Seq(Frame), NEW f \in Frame, NEW g \in Frame
  PROVE  LET t == Append(s, f)
         IN  t[Len(t)] = f /\ [t EXCEPT ![Len(t)] = g] = Append(s, g)
<1> DEFINE n == Len(s)
           t == Append(s, f)
           u == [t EXCEPT ![n + 1] = g]
           v == Append(s, g)
<1>1. /\ n \in Nat /\ n + 1 \in 1 .. Len(t) /\ t \in Seq(Frame) /\ Len(t) = n + 1
      /\ t[n + 1] = f /\ \A k \in 1 .. n : t[k] = s[k]
  BY AppendedFrame
<1>2. /\ v \in Seq(Frame) /\ Len(v) = n + 1 /\ v[n + 1] = g
      /\ \A k \in 1 .. n : v[k] = s[k]
  BY AppendedFrame
<1> HIDE DEF t, v
<1>3. u \in Seq(Frame) /\ Len(u) = n + 1
      /\ \A k \in 1 .. n + 1 : u[k] = IF k = n + 1 THEN g ELSE t[k]
  BY <1>1, ExceptSeq
<1> HIDE DEF u
<1>4. \A k \in 1 .. n + 1 : u[k] = v[k]
  BY <1>1, <1>2, <1>3
<1>5. u = v
  BY <1>2, <1>3, <1>4, SeqEqual
<1>6. QED BY <1>1, <1>5 DEF t, u, v

\* An interrupt is accepted like any exception, with the mask of its level.
LEMMA AcceptKeeps ==
  ASSUME NEW c \in CpuState, KernelInv(c), Interruptible(c), c.pending < 7,
         NEW vec \in Vectors, vec # AddressErrorVector
  PROVE  LET r == AcceptInterrupt(c, vec)
         IN  /\ MemLo <= r.a7 => KernelInv(r)
             /\ r.pending = c.pending /\ Len(r.frames) > Len(c.frames)
<1> DEFINE b == [c EXCEPT !.stopped = FALSE]
           d == exceptionProcess(b, vec)
           f == OpenFrame(b, EnterException(b, vec), vec)
           m == [d EXCEPT !.sr = cpuSetIPL(d.sr, c.pending)]
           g == [f EXCEPT !.mask = c.pending]
           fs == [d.frames EXCEPT ![Len(d.frames)] = [@ EXCEPT !.mask = c.pending]]
           r == AcceptInterrupt(c, vec)
<1>1. /\ b \in CpuState /\ b.sr = c.sr /\ b.pc = c.pc /\ b.a7 = c.a7 /\ b.mem = c.mem
      /\ b.frames = c.frames /\ b.crashed = c.crashed /\ b.pending = c.pending
  BY DEF CpuState
<1> HIDE DEF b
<1>2. KernelInv(b)
  BY <1>1 DEF KernelInv, Calm, Regular
<1>3. /\ Stacked(b, d, f) /\ f.mask = cpuGetIPL(d.sr) /\ d.pending = c.pending
  BY <1>1, <1>2, ProcessStacks
<1> HIDE DEF d, f
<1>4. d \in CpuState /\ f \in Frame /\ d.frames = Append(c.frames, f) /\ ~d.crashed
  BY <1>1, <1>3 DEF Stacked
<1>5. /\ c.pending \in 1 .. 6 /\ c.pending \in 0 .. 7 /\ cpuGetIPL(c.sr) < c.pending
      /\ cpuGetIPL(c.sr) \in Int
  BY FieldTypes, SrUpdates DEF Interruptible
<1>6. /\ g \in Frame /\ g.sr = f.sr /\ g.pc = f.pc /\ g.sp = f.sp /\ g.base = f.base
      /\ g.vec = f.vec /\ g.mask = c.pending
  BY <1>4, <1>5 DEF Frame
<1>7. fs = Append(c.frames, g)
  <2>1. c.frames \in Seq(Frame)
    BY FieldTypes
  <2> DEFINE t == d.frames
  <2>2. t[Len(t)] = f
    BY <2>1, <1>4, ChangedLast
  <2>3. fs = [t EXCEPT ![Len(t)] = g]
    BY <2>2
  <2> HIDE DEF m, fs, g, r
  <2>4. f \in Frame /\ g \in Frame /\ t = Append(c.frames, f)
    BY <1>4, <1>6
  <2> HIDE DEF t
  <2>5. LET q == Append(c.frames, f) IN [q EXCEPT ![Len(q)] = g] = Append(c.frames, g)
    BY <2>1, <2>4, ChangedLast
  <2>6. QED BY <2>3, <2>4, <2>5
<1>8. /\ m.sr = cpuSetIPL(d.sr, c.pending) /\ m.a7 = d.a7 /\ m.pc = d.pc /\ m.mem = d.mem
      /\ m.frames = d.frames /\ m.pending = d.pending /\ ~m.crashed
      /\ r = [m EXCEPT !.frames = fs]
  <2>1. /\ m.sr = cpuSetIPL(d.sr, c.pending) /\ m.a7 = d.a7 /\ m.pc = d.pc /\ m.mem = d.mem
        /\ m.frames = d.frames /\ m.pending = d.pending /\ ~m.crashed
    BY <1>4 DEF CpuState
  <2>2. [m EXCEPT !.frames[Len(d.frames)].mask = c.pending] = [m EXCEPT !.frames = fs]
    BY <2>1
  <2>3. QED BY <2>1, <2>2, <1>4 DEF AcceptInterrupt, d, b
<1>9. r \in CpuState
  BY <1>5, AcceptType
<1> HIDE DEF fs, g
<1>10. /\ r.sr = cpuSetIPL(d.sr, c.pending) /\ r.a7 = d.a7 /\ r.pc = d.pc /\ r.mem = d.mem
       /\ r.frames = fs /\ r.pending = d.pending /\ ~r.crashed
  <2>1. m \in CpuState
    <3>1. d.sr \in StatusRegister /\ cpuSetIPL(d.sr, c.pending) \in StatusRegister
      BY <1>4, <1>5, FieldTypes, SrUpdates
    <3>2. QED BY <3>1, <1>4, Zenon DEF CpuState
  <2> HIDE DEF m
  <2>2. QED BY <2>1, <1>4, <1>8 DEF CpuState
<1> HIDE DEF m, r
<1>11. cpuGetIPL(r.sr) = c.pending /\ cpuIsSupervisor(r.sr) /\ ~Traced(r.sr)
  <2>1. d.sr \in StatusRegister /\ cpuIsSupervisor(d.sr) /\ ~Traced(d.sr)
    BY <1>3, <1>4, FieldTypes DEF Stacked
  <2>2. QED BY <2>1, <1>10 DEF cpuSetIPL, cpuGetIPL, cpuIsSupervisor, Traced, StatusRegister
<1>12. Stacked(c, r, g)
  <2>1. /\ ~Odd(r.a7) /\ ~Odd(r.pc) /\ g.sr = c.sr /\ g.pc = c.pc /\ g.sp = c.a7
        /\ g.base = r.a7 /\ g.sp = g.base + FrameSize(g)
    BY <1>1, <1>3, <1>6, <1>10 DEF Stacked, FrameSize
  <2>2. \A a \in StackMem : c.a7 <= a => r.mem[a] = c.mem[a]
    BY <1>1, <1>3, <1>10 DEF Stacked
  <2>3. MemLo <= r.a7 => Holds(r.mem, g)
    BY <1>3, <1>6, <1>10 DEF Stacked, Holds
  <2>4. QED BY <2>1, <2>2, <2>3, <1>6, <1>7, <1>9, <1>10, <1>11 DEF Stacked
<1>13. ASSUME MemLo <= r.a7 PROVE KernelInv(r)
  BY <1>5, <1>6, <1>11, <1>12, <1>13, StackingKeeps
<1>14. Len(r.frames) > Len(c.frames)
  <2>1. c.frames \in Seq(Frame)
    BY FieldTypes
  <2>2. QED BY <2>1, <1>6, <1>7, <1>10, AppendedFrame
<1>15. QED BY <1>3, <1>10, <1>13, <1>14 DEF r

\* What ContextRestored says of a step, of two records.
Restores(c, d) ==
  LET f == Last(c.frames)
  IN  d.pc = f.pc /\ d.sr = f.sr /\ d.a7 = f.sp /\ c.frames = Append(d.frames, f)

LEMMA WithoutLast ==
  ASSUME NEW s \in Seq(Frame), s # <<>>
  PROVE  LET t == SubSeq(s, 1, Len(s) - 1)
         IN  /\ t \in Seq(Frame) /\ Len(t) = Len(s) - 1 /\ Len(s) \in Nat \ {0}
             /\ \A k \in 1 .. Len(t) : t[k] = s[k]
             /\ s = Append(t, Last(s)) /\ Last(s) \in Frame
<1> DEFINE n == Len(s)
           t == SubSeq(s, 1, n - 1)
           u == Append(t, s[n])
<1>1. n \in Nat \ {0} /\ s[n] \in Frame
  BY EmptySeq, ElementOfSeq
<1>2. t \in Seq(Frame) /\ Len(t) = n - 1 /\ \A k \in 1 .. Len(t) : t[k] = s[k]
  <2>1. \A k \in 1 .. n - 1 : s[k] \in Frame
    BY <1>1, ElementOfSeq
  <2>2. t \in Seq(Frame) /\ Len(t) = (IF 1 <= n - 1 THEN (n - 1) - 1 + 1 ELSE 0)
        /\ \A k \in 1 .. (n - 1) - 1 + 1 : t[k] = s[1 + k - 1]
    <3>1. n - 1 \in Int
      BY <1>1
    <3>2. QED BY <2>1, <3>1, SubSeqProperties
  <2> HIDE DEF t, n
  <2>3. Len(t) = n - 1
    BY <2>2, <1>1
  <2>4. ASSUME NEW k \in 1 .. Len(t) PROVE t[k] = s[k]
    <3>1. k \in 1 .. (n - 1) - 1 + 1 /\ 1 + k - 1 = k
      BY <2>3, <1>1
    <3>2. QED BY <3>1, <2>2
  <2>5. QED BY <2>2, <2>3, <2>4
<1> HIDE DEF t
<1>3. u \in Seq(Frame) /\ Len(u) = n /\ \A k \in 1 .. n : u[k] = s[k]
  BY <1>1, <1>2
<1> HIDE DEF u
<1>4. u = s
  BY <1>3, SeqEqual
<1>5. QED BY <1>1, <1>2, <1>4 DEF Last, t, u

\* With A7 at the last frame, RTE goes back to what that exception interrupted.
LEMMA ReturnKeeps ==
  ASSUME NEW c \in CpuState, KernelInv(c), c.frames # <<>>,
         Last(c.frames).vec # AddressErrorVector, c.a7 = Last(c.frames).base
  PROVE  LET r == instrRte(c) IN KernelInv(r) /\ Restores(c, r) /\ r.pending = c.pending
<1> DEFINE n == Len(c.frames)
           f == Last(c.frames)
           fs == SubSeq(c.frames, 1, Len(c.frames) - 1)
           up == [c EXCEPT !.a7 = c.a7 + 6]
           sr == Decode(readWord(c, c.a7))
           p == readAddress(c, c.a7 + 2)
           d == WriteSr(up, sr)
           r == instrRte(c)
<1>1. /\ n \in Nat \ {0} /\ f \in Frame /\ f = c.frames[n] /\ Regular(c, f)
      /\ fs \in Seq(Frame) /\ Len(fs) = n - 1 /\ c.frames = Append(fs, f)
      /\ \A k \in 1 .. Len(fs) : fs[k] = c.frames[k] /\ c.frames[k] \in Frame
  <2>1. c.frames \in Seq(Frame)
    BY FieldTypes
  <2>2. n \in 1 .. n /\ f = c.frames[n]
    BY <2>1, WithoutLast DEF Last
  <2>3. Regular(c, f)
    BY <2>2 DEF KernelInv
  <2>4. QED BY <2>1, <2>2, <2>3, WithoutLast
<1> HIDE DEF n, f, fs
<1>2. /\ c.a7 \in Int /\ c.mem \in Memories /\ f.sp \in Int /\ f.base \in Int
      /\ f.sr \in StatusRegister /\ f.pc \in Addresses
  BY <1>1, FieldTypes DEF Frame
<1>3. c.a7 = f.base /\ f.sp = c.a7 + 6 /\ ~Odd(c.a7) /\ f.sp <= ResetSsp
  BY <1>1 DEF Regular, FrameSize, KernelInv, Calm, f
<1>4. c.a7 \in StackMem /\ c.a7 + 2 \in StackMem /\ c.a7 + 4 \in StackMem
  <2>1. ~Odd(c.a7 + 2) /\ ~Odd(c.a7 + 4)
    BY <1>2, <1>3 DEF Odd
  <2>2. c.a7 \in StackMem
    BY <1>1, <1>3 DEF Regular
  <2>3. QED BY <2>1, <2>2, <1>2, <1>3, StackMemIs
<1>5. c.mem[c.a7] = Encode(f.sr) /\ c.mem[c.a7 + 2] * Word + c.mem[c.a7 + 4] = f.pc
  BY <1>1, <1>3 DEF Regular, Holds, f
<1>6. sr = f.sr
  BY <1>2, <1>4, <1>5, EncodeDecode DEF readWord
<1>7. p = f.pc
  <2>1. c.mem[c.a7 + 2] \in Words /\ c.mem[c.a7 + 4] \in Words
    BY <1>2, <1>4 DEF Memories
  <2>2. (c.a7 + 2) + 2 = c.a7 + 4
    BY <1>2
  <2>3. (c.mem[c.a7 + 2] % 256) * Word + c.mem[c.a7 + 4] = f.pc
    BY <2>1, <1>2, <1>5, MaskedHigh
  <2>4. QED BY <2>2, <2>3, <1>4 DEF readAddress, readWord
<1> HIDE DEF sr, p
<1>8. up \in CpuState
  <2>1. c.a7 + 6 \in Int
    BY <1>2
  <2>2. QED BY <2>1, Zenon DEF CpuState
<1>9. d = [up EXCEPT !.sr = f.sr]
  BY <1>1, <1>6 DEF WriteSr, Regular
<1>10. r = [d EXCEPT !.pc = f.pc, !.frames = fs]
  BY <1>3, <1>7 DEF instrRte, sr, p, fs
<1>11. r \in CpuState
  BY RteType
<1>12. /\ r.sr = f.sr /\ r.a7 = f.sp /\ r.pc = f.pc /\ r.mem = c.mem /\ r.frames = fs
       /\ r.crashed = c.crashed /\ r.pending = c.pending
  <2>1. /\ up.a7 = f.sp /\ up.mem = c.mem /\ up.crashed = c.crashed /\ up.pending = c.pending
    BY <1>3 DEF CpuState
  <2> HIDE DEF up
  <2>2. /\ d \in CpuState /\ d.sr = f.sr /\ d.a7 = f.sp /\ d.mem = c.mem
        /\ d.crashed = c.crashed /\ d.pending = c.pending
    BY <2>1, <1>8, <1>9, <1>2 DEF CpuState
  <2> HIDE DEF d
  <2>3. QED BY <2>2, <1>10 DEF CpuState
<1> HIDE DEF r
<1>13. Calm(r)
  <2>1. ~Odd(f.sp)
    BY <1>2, <1>3 DEF Odd
  <2>2. QED BY <2>1, <1>1, <1>3, <1>12 DEF Calm, Regular, KernelInv
<1>14. ASSUME NEW k \in 1 .. Len(fs) PROVE Regular(r, fs[k])
  <2> DEFINE g == c.frames[k]
  <2>1. k \in 1 .. n /\ n \in 1 .. n /\ k < n /\ fs[k] = g /\ g \in Frame
    BY <1>1
  <2>2. Regular(c, g) /\ Above(f, g)
    BY <2>1, <1>1 DEF KernelInv, n
  <2> HIDE DEF g
  <2>3. Regular(r, g)
    BY <2>2, <1>12 DEF Regular, Above
  <2>4. QED BY <2>1, <2>3
<1>15. ASSUME NEW j \in 1 .. Len(fs), NEW k \in 1 .. Len(fs), j < k PROVE Above(fs[k], fs[j])
  <2>1. j \in 1 .. n /\ k \in 1 .. n
    BY <1>1
  <2>2. QED BY <2>1, <1>1, <1>15 DEF KernelInv, n
<1>16. KernelInv(r)
  BY <1>12, <1>13, <1>14, <1>15 DEF KernelInv
<1>17. QED BY <1>1, <1>12, <1>16 DEF Restores, f, r

----------------------------------------------------------------------------
(* Instructions of the kernel *)

\* What the instructions of Code have in common, whichever the routine is.
Form(c, i) ==
  \/ i.op \in {"nop", "device"}
  \/ i.op = "push" /\ i.arg = Saved
  \/ i.op = "pop" /\ OwnsData(c)
  \/ i.op = "rte" /\ ~OwnsData(c) /\ c.frames # <<>> /\ Last(c.frames).vec # AddressErrorVector
  \/ i.op \in {"moveToSr", "stop"} /\ (i.arg = Masked \/ (i.arg = Open /\ c.frames = <<>>))
  \/ i.op = "trap" /\ i.arg = 0
  \/ i.op = "fault" /\ i.arg \in {4, 5}
  \/ i.op = "oddRead" /\ i.arg = 1

LEMMA CodeForms ==
  ASSUME NEW c, NEW i \in Code(c)
  PROVE  Form(c, i) /\ IsInstruction(i)
<1>1. /\ \A j \in Stacking(c) : Form(c, j)
      /\ \A S : \A j \in Access(S) : Form(c, j)
      /\ \A j \in Mistakes : Form(c, j)
      /\ Form(c, I("nop", 0)) /\ Form(c, I("trap", 0))
      /\ Form(c, I("stop", Masked)) /\ Form(c, I("moveToSr", Masked))
  BY DEF Stacking, Access, Mistakes, Form, I
<1>2. c.frames = <<>> => Form(c, I("stop", Open)) /\ Form(c, I("moveToSr", Open))
  BY DEF Form, I
<1>3. c.frames # <<>> /\ Last(c.frames).vec # AddressErrorVector
        => \A j \in Return(c) : Form(c, j)
  BY DEF Return, Form, I
<1>4. AddressErrorVector \in PanicVectors
  BY DEF AddressErrorVector, PanicVectors
<1>5. Form(c, i)
  <2>1. CASE Routine(c) = "main"
    <3>1. c.frames = <<>>
      BY <2>1 DEF Routine
    <3>2. Code(c) = MainCode(c)
      BY <2>1 DEF Code
    <3>3. QED BY <3>1, <3>2, <1>1, <1>2 DEF MainCode
  <2>2. CASE Routine(c) = "service"
    <3>1. c.frames # <<>> /\ Last(c.frames).vec # AddressErrorVector
      BY <2>2, <1>4 DEF Routine
    <3>2. Code(c) = ServiceCode(c)
      BY <2>2 DEF Code
    <3>3. QED BY <3>1, <3>2, <1>1, <1>3 DEF ServiceCode
  <2>3. CASE Routine(c) = "syscall"
    <3>1. c.frames # <<>> /\ Last(c.frames).vec # AddressErrorVector
      BY <2>3, <1>4 DEF Routine
    <3>2. Code(c) = SyscallCode(c)
      BY <2>3 DEF Code
    <3>3. QED BY <3>1, <3>2, <1>1, <1>3 DEF SyscallCode
  <2>4. CASE Routine(c) = "panic"
    <3>1. Code(c) = PanicCode(c)
      BY <2>4 DEF Code
    <3>2. QED BY <3>1, <1>1 DEF PanicCode
  <2>5. CASE Routine(c) = "default"
    <3>1. c.frames # <<>> /\ Last(c.frames).vec # AddressErrorVector
      BY <2>5, <1>4 DEF Routine
    <3>2. Code(c) = Return(c)
      BY <2>5 DEF Code
    <3>3. QED BY <3>1, <3>2, <1>3
  <2>6. QED BY <2>1, <2>2, <2>3, <2>4, <2>5 DEF Routine
<1>6. Masked \in StatusRegister /\ Open \in StatusRegister
  BY DEF Masked, Open, StatusRegister
<1>7. 0 \in 0 .. 15 /\ 4 \in Vectors /\ 5 \in Vectors /\ 1 \in Int /\ Odd(1)
  BY DEF Vectors, Odd
<1>8. QED BY <1>5, <1>6, <1>7, KernelAssumption DEF Form, IsInstruction

\* What an instruction of the kernel does: no trace, no interrupt lost, and as
\* long as the stack fits the invariant holds and a return restores.
Good(c, r) ==
  /\ ~Traced(r.sr) /\ r.pending = c.pending
  /\ MemLo <= r.a7 => KernelInv(r)
  /\ Restores(c, r) \/ Len(r.frames) >= Len(c.frames)

LEMMA StackedIsGood ==
  ASSUME NEW c \in CpuState, KernelInv(c), NEW d, NEW f, Stacked(c, d, f), ~IsInterrupt(f),
         f.mask = cpuGetIPL(c.sr), cpuGetIPL(d.sr) = cpuGetIPL(c.sr), d.pending = c.pending
  PROVE  Good(c, d)
<1>1. cpuGetIPL(c.sr) \in Int /\ c.frames \in Seq(Frame) /\ f \in Frame
  BY FieldTypes, SrUpdates DEF Stacked
<1>2. MemLo <= d.a7 => KernelInv(d)
  BY <1>1, StackingKeeps
<1>3. Len(d.frames) >= Len(c.frames)
  BY <1>1, AppendedFrame DEF Stacked
<1>4. QED BY <1>2, <1>3 DEF Good, Stacked

LEMMA TrapIsGood ==
  ASSUME NEW c \in CpuState, KernelInv(c), NEW vec \in {4, 5, 32}
  PROVE  Good(c, exceptionProcess(c, vec))
<1> DEFINE r == exceptionProcess(c, vec)
           f == OpenFrame(c, EnterException(c, vec), vec)
<1>1. vec \in Vectors /\ vec # AddressErrorVector /\ vec \notin 25 .. 31
      /\ vec \notin SpuriousVector .. SpuriousVector + 7
  BY DEF Vectors, AddressErrorVector, SpuriousVector
<1>2. /\ Stacked(c, r, f) /\ f.vec = vec /\ f.mask = cpuGetIPL(r.sr)
      /\ cpuGetIPL(r.sr) = cpuGetIPL(c.sr) /\ r.pending = c.pending
  BY <1>1, ProcessStacks
<1> HIDE DEF r, f
<1>3. ~IsInterrupt(f)
  BY <1>1, <1>2 DEF IsInterrupt
<1>4. QED BY <1>2, <1>3, StackedIsGood DEF r

LEMMA AddressErrorIsGood ==
  ASSUME NEW c \in CpuState, KernelInv(c), NEW a \in Int, NEW w \in BOOLEAN
  PROVE  Good(c, exceptionAddressError(c, a, w))
<1> DEFINE r == exceptionAddressError(c, a, w)
           g == OpenFrame(c, EnterException(c, AddressErrorVector), AddressErrorVector)
           f == [g EXCEPT !.base = c.a7 - 14]
<1>1. /\ Stacked(c, r, f) /\ f.vec = AddressErrorVector /\ f.mask = cpuGetIPL(c.sr)
      /\ cpuGetIPL(r.sr) = cpuGetIPL(c.sr) /\ r.pending = c.pending
  BY AddressErrorStacks
<1> HIDE DEF r, f
<1>2. ~IsInterrupt(f)
  BY <1>1 DEF IsInterrupt, AddressErrorVector, SpuriousVector
<1>3. QED BY <1>1, <1>2, StackedIsGood DEF r

LEMMA FrameFacts ==
  ASSUME NEW c \in CpuState, KernelInv(c), NEW k \in 1 .. Len(c.frames)
  PROVE  /\ c.frames[k] \in Frame /\ c.frames[k].base \in Int /\ c.frames[k].mask \in Int
         /\ c.frames[k].mask <= 7
         /\ c.a7 <= c.frames[k].base /\ c.frames[k].mask <= cpuGetIPL(c.sr)
<1> DEFINE f == c.frames[k]
<1>1. c.frames \in Seq(Frame)
  BY FieldTypes
<1>2. f \in Frame /\ Regular(c, f)
  BY <1>1, ElementOfSeq DEF KernelInv
<1> HIDE DEF f
<1>3. f.base \in Int /\ f.mask \in Int /\ f.mask <= 7
  BY <1>2 DEF Frame
<1>4. QED BY <1>2, <1>3 DEF Regular, f

\* A save below A7 and the restore of a routine's own data.
LEMMA StackingIsGood ==
  ASSUME NEW c \in CpuState, KernelInv(c)
  PROVE  Good(c, instrPush(c, Saved)) /\ (OwnsData(c) => Good(c, instrPop(c)))
<1>1. /\ c.a7 \in Int /\ c.frames \in Seq(Frame) /\ ~Odd(c.a7) /\ Saved \in Words
      /\ Saved \in Int /\ Calm(c)
  BY FieldTypes, KernelAssumption, WordsAre DEF KernelInv, Calm
<1>2. \A k \in 1 .. Len(c.frames) :
        /\ c.frames[k] \in Frame /\ c.frames[k].base \in Int /\ c.frames[k].mask \in Int
        /\ c.a7 <= c.frames[k].base /\ c.frames[k].mask <= cpuGetIPL(c.sr)
  BY FrameFacts
<1>3. Good(c, instrPush(c, Saved))
  <2> DEFINE d == pushWord(c, Saved)
  <2>1. /\ d \in CpuState /\ d.sr = c.sr /\ d.a7 = c.a7 - 2 /\ d.frames = c.frames
        /\ d.crashed = c.crashed /\ d.pending = c.pending
    BY <1>1, PushTypes, PushKeeps, PendingKept
  <2>2. d.pc = c.pc
    BY DEF pushWord, CpuState
  <2>3. \A b \in StackMem : c.a7 <= b => d.mem[b] = c.mem[b]
    BY <1>1, PushMem, StackMemIs
  <2>4. ResetSsp \in Int
    BY StackMemIs
  <2> HIDE DEF d
  <2>5. Calm(d)
    BY <1>1, <2>1, <2>2, <2>4 DEF Calm, Odd
  <2>6. \A k \in 1 .. Len(c.frames) : d.a7 <= c.frames[k].base
    BY <1>1, <1>2, <2>1
  <2>7. KernelInv(d)
    BY <1>2, <2>1, <2>3, <2>5, <2>6, RoutineKeeps
  <2>8. instrPush(c, Saved) = d
    BY <1>1 DEF instrPush, d
  <2>9. QED BY <2>1, <2>5, <2>7, <2>8, <1>1 DEF Good, Calm
<1>4. ASSUME OwnsData(c) PROVE Good(c, instrPop(c))
  <2> DEFINE d == [c EXCEPT !.a7 = c.a7 + 2]
  <2>1. /\ d \in CpuState /\ d.sr = c.sr /\ d.a7 = c.a7 + 2 /\ d.frames = c.frames
        /\ d.crashed = c.crashed /\ d.pending = c.pending /\ d.pc = c.pc /\ d.mem = c.mem
    <3>1. c.a7 + 2 \in Int
      BY <1>1
    <3>2. d \in CpuState
      BY <3>1, Zenon DEF CpuState
    <3>3. QED BY <3>2 DEF CpuState
  <2> HIDE DEF d
  <2>2. StackTop(c) \in Int /\ ~Odd(StackTop(c)) /\ StackTop(c) <= ResetSsp /\ c.a7 < StackTop(c)
        /\ \A k \in 1 .. Len(c.frames) : StackTop(c) <= c.frames[k].base
    <3>1. CASE c.frames = <<>>
      <4>1. Len(c.frames) = 0 /\ StackTop(c) = ResetSsp
        BY <3>1 DEF StackTop
      <4>2. QED BY <4>1, <1>4, StackMemIs, KernelAssumption DEF OwnsData, Odd
    <3>2. CASE c.frames # <<>>
      <4> DEFINE n == Len(c.frames)
                 f == c.frames[n]
      <4>1. n \in 1 .. n /\ n \in Nat /\ f \in Frame /\ Regular(c, f) /\ StackTop(c) = f.base
        <5>1. n \in Nat \ {0}
          BY <1>1, <3>2, EmptySeq
        <5>2. n \in 1 .. n
          BY <5>1
        <5>3. QED BY <5>1, <5>2, <1>2, <3>2 DEF KernelInv, StackTop, Last
      <4>2. \A k \in 1 .. n : k < n => f.sp <= c.frames[k].base
        BY <4>1 DEF KernelInv, Above
      <4> HIDE DEF f, n
      <4>3. f.base \in Int /\ f.sp \in Int /\ f.base <= f.sp
        BY <4>1 DEF Frame, Regular, FrameSize
      <4>4. ASSUME NEW k \in 1 .. n PROVE f.base <= c.frames[k].base
        <5>1. c.frames[k].base \in Int
          BY <1>2 DEF n
        <5>2. k = n => c.frames[k] = f
          BY DEF f
        <5>3. QED BY <5>1, <5>2, <4>1, <4>2, <4>3
      <4>5. QED BY <4>1, <4>3, <4>4, <1>4, StackMemIs DEF n, OwnsData, Regular
    <3>3. QED BY <3>1, <3>2
  <2>3. c.a7 + 2 <= StackTop(c)
    BY <2>2, <1>1 DEF Odd
  <2>4. \A k \in 1 .. Len(c.frames) : d.a7 <= c.frames[k].base
    BY <1>1, <1>2, <2>1, <2>2, <2>3
  <2>5. Calm(d)
    BY <1>1, <2>1, <2>2, <2>3, StackMemIs DEF Calm, Odd
  <2>6. KernelInv(d)
    BY <1>2, <2>1, <2>4, <2>5, RoutineKeeps
  <2>7. instrPop(c) = d
    BY <1>1 DEF instrPop, d
  <2>8. QED BY <2>1, <2>5, <2>6, <2>7, <1>1 DEF Good, Calm
<1>5. QED BY <1>3, <1>4

LEMMA MaskIsGood ==
  ASSUME NEW c \in CpuState, KernelInv(c), NEW sr \in {Masked, Open}, sr = Open => c.frames = <<>>
  PROVE  Good(c, instrMoveToSr(c, sr)) /\ Good(c, instrStop(c, sr))
<1>1. /\ sr \in StatusRegister /\ cpuIsSupervisor(sr) /\ ~Traced(sr)
      /\ sr = Masked => cpuGetIPL(sr) = 7
  <2>1. CASE sr = Masked
    BY <2>1 DEF Masked, StatusRegister, cpuIsSupervisor, Traced, cpuGetIPL
  <2>2. CASE sr = Open
    BY <2>2 DEF Masked, Open, StatusRegister, cpuIsSupervisor, Traced
  <2>3. QED BY <2>1, <2>2
<1>2. c.a7 \in Int /\ c.frames \in Seq(Frame) /\ Calm(c)
  BY FieldTypes DEF KernelInv
<1>3. ASSUME NEW d \in CpuState, d.sr = sr, d.a7 = c.a7, d.frames = c.frames, d.pc = c.pc,
             d.crashed = c.crashed, d.pending = c.pending, d.mem = c.mem
      PROVE  Good(c, d)
  <2>1. Calm(d)
    BY <1>1, <1>2, <1>3 DEF Calm
  <2>2. ASSUME NEW k \in 1 .. Len(c.frames)
        PROVE  d.a7 <= c.frames[k].base /\ c.frames[k].mask <= cpuGetIPL(d.sr)
    <3>1. sr = Masked
      <4>1. c.frames # <<>>
        BY <2>2, <1>2
      <4>2. QED BY <4>1
    <3>2. QED BY <3>1, <1>1, <1>3, FrameFacts
  <2>3. KernelInv(d)
    BY <1>3, <2>1, <2>2, RoutineKeeps
  <2>4. Len(d.frames) >= Len(c.frames)
    BY <1>2, <1>3
  <2>5. QED BY <1>3, <2>1, <2>3, <2>4 DEF Good, Calm
<1> DEFINE d == [c EXCEPT !.sr = sr]
           e == [d EXCEPT !.stopped = TRUE]
<1>4. WriteSr(c, sr) = d
  BY <1>1 DEF WriteSr
<1>5. d \in CpuState /\ d.sr = sr /\ d.a7 = c.a7 /\ d.frames = c.frames /\ d.pc = c.pc
      /\ d.crashed = c.crashed /\ d.pending = c.pending /\ d.mem = c.mem
  <2>1. d \in CpuState
    BY <1>1, Zenon DEF CpuState
  <2>2. QED BY <2>1 DEF CpuState
<1> HIDE DEF d
<1>6. e \in CpuState /\ e.sr = sr /\ e.a7 = c.a7 /\ e.frames = c.frames /\ e.pc = c.pc
      /\ e.crashed = c.crashed /\ e.pending = c.pending /\ e.mem = c.mem
  <2>1. e \in CpuState
    BY <1>5, Zenon DEF CpuState
  <2>2. QED BY <1>5, <2>1 DEF CpuState
<1> HIDE DEF e
<1>7. Good(c, d) /\ Good(c, e)
  BY <1>3, <1>5, <1>6
<1>8. QED BY <1>4, <1>7 DEF instrMoveToSr, instrStop, e

LEMMA ReturnIsGood ==
  ASSUME NEW c \in CpuState, KernelInv(c), ~OwnsData(c), c.frames # <<>>,
         Last(c.frames).vec # AddressErrorVector
  PROVE  Good(c, instrRte(c))
<1>1. c.frames \in Seq(Frame) /\ c.a7 \in Int
  BY FieldTypes
<1>2. Len(c.frames) \in 1 .. Len(c.frames)
  <2>1. Len(c.frames) \in Nat \ {0}
    BY <1>1, EmptySeq
  <2>2. QED BY <2>1
<1>3. c.a7 = Last(c.frames).base
  <2>1. c.a7 <= c.frames[Len(c.frames)].base /\ c.frames[Len(c.frames)].base \in Int
    BY <1>2, FrameFacts
  <2>2. QED BY <2>1, <1>1 DEF OwnsData, StackTop, Last
<1>4. QED BY <1>3, ReturnKeeps DEF Good, KernelInv, Calm

LEMMA ExecuteIsGood ==
  ASSUME NEW c \in CpuState, KernelInv(c), NEW i, Form(c, i)
  PROVE  Good(c, FetchAndExecute(c, i))
<1>1. /\ ~Odd(c.pc) /\ cpuIsSupervisor(c.sr) /\ ~Traced(c.sr) /\ Allowed(c, i)
  BY DEF KernelInv, Calm, Allowed
<1>2. Good(c, decoderExecute(c, i))
  <2>1. CASE i.op \in {"nop", "device"}
    <3>1. decoderExecute(c, i) = c
      BY <2>1, <1>1 DEF decoderExecute
    <3>2. c.frames \in Seq(Frame)
      BY FieldTypes
    <3>3. QED BY <3>1, <3>2, <1>1 DEF Good
  <2>2. CASE i.op = "push" /\ i.arg = Saved
    <3>1. decoderExecute(c, i) = instrPush(c, Saved)
      BY <2>2, <1>1 DEF decoderExecute
    <3>2. QED BY <3>1, StackingIsGood
  <2>3. CASE i.op = "pop" /\ OwnsData(c)
    <3>1. decoderExecute(c, i) = instrPop(c)
      BY <2>3, <1>1 DEF decoderExecute
    <3>2. QED BY <2>3, <3>1, StackingIsGood
  <2>4. CASE i.op = "rte" /\ ~OwnsData(c) /\ c.frames # <<>>
             /\ Last(c.frames).vec # AddressErrorVector
    <3>1. decoderExecute(c, i) = instrRte(c)
      BY <2>4, <1>1 DEF decoderExecute
    <3>2. QED BY <2>4, <3>1, ReturnIsGood
  <2>5. CASE i.op \in {"moveToSr", "stop"} /\ (i.arg = Masked \/ (i.arg = Open /\ c.frames = <<>>))
    <3>1. \/ decoderExecute(c, i) = instrMoveToSr(c, i.arg)
          \/ decoderExecute(c, i) = instrStop(c, i.arg)
      BY <2>5, <1>1 DEF decoderExecute
    <3>2. Masked # Open
      BY DEF Masked, Open
    <3>3. QED BY <2>5, <3>1, <3>2, MaskIsGood
  <2>6. CASE i.op = "trap" /\ i.arg = 0
    <3>1. decoderExecute(c, i) = exceptionProcess(c, 32)
      BY <2>6, <1>1 DEF decoderExecute, instrTrap, Trap0Vector
    <3>2. QED BY <3>1, TrapIsGood
  <2>7. CASE i.op = "fault" /\ i.arg \in {4, 5}
    <3>1. decoderExecute(c, i) = exceptionProcess(c, i.arg)
      BY <2>7, <1>1 DEF decoderExecute
    <3>2. QED BY <2>7, <3>1, TrapIsGood
  <2>8. CASE i.op = "oddRead" /\ i.arg = 1
    <3>1. decoderExecute(c, i) = exceptionAddressError(c, 1, FALSE)
      BY <2>8, <1>1 DEF decoderExecute
    <3>2. Good(c, exceptionAddressError(c, 1, FALSE))
      <4>1. \A a \in Int : \A w \in BOOLEAN : Good(c, exceptionAddressError(c, a, w))
        BY AddressErrorIsGood
      <4>2. 1 \in Int
        OBVIOUS
      <4>3. QED BY <4>1, <4>2, Zenon
    <3>3. QED BY <3>1, <3>2, Zenon
  <2>9. QED BY <2>1, <2>2, <2>3, <2>4, <2>5, <2>6, <2>7, <2>8 DEF Form
<1>3. FetchAndExecute(c, i) = decoderExecute(c, i)
  BY <1>1, <1>2 DEF FetchAndExecute, Good
<1>4. QED BY <1>2, <1>3

----------------------------------------------------------------------------
(* The machine under the kernel *)

\* The inductive invariant of the specification: with no device at level 7, none
\* is ever pending, and the mask of 7 masks all.
IInv == TypeOK /\ KernelIInv /\ cpu.pending < 7

LEMMA PolledLevel ==
  ASSUME NEW up \in SUBSET Device
  PROVE  HighestLevel(up) \in 0 .. 6
<1>1. CASE up = {}
  BY <1>1 DEF HighestLevel
<1>2. CASE up # {}
  <2> DEFINE P(l) == /\ \E d \in up : Level[d] = l
                     /\ \A d \in up : Level[d] <= l
  <2>1. \A d \in up : Level[d] \in 1 .. 6
    BY MachineAssumption, KernelAssumption
  <2>2. \E l \in 1 .. 7 : P(l)
    <3>1. \A n \in 0 .. 7 : (\A d \in up : Level[d] <= n) => \E l \in 1 .. 7 : P(l)
      BY <1>2, <2>1
    <3>2. QED BY <3>1, <2>1
  <2>3. HighestLevel(up) = CHOOSE l \in 1 .. 7 : P(l)
    BY <1>2 DEF HighestLevel
  <2>4. HighestLevel(up) \in 1 .. 7 /\ P(HighestLevel(up))
    <3> HIDE DEF P
    <3>1. QED BY <2>2, <2>3
  <2>5. QED BY <2>1, <2>4
<1>3. QED BY <1>1, <1>2

LEMMA PollKeeps ==
  ASSUME NEW c \in CpuState, KernelInv(c), c.pending < 7, NEW level \in 0 .. 6
  PROVE  LET r == cpuRaiseInterrupt(c, level)
         IN  KernelInv(r) /\ r.pending < 7 /\ r.frames = c.frames
<1> DEFINE r == [c EXCEPT !.pending = level]
<1>1. /\ r.sr = c.sr /\ r.pc = c.pc /\ r.a7 = c.a7 /\ r.mem = c.mem
      /\ r.frames = c.frames /\ r.crashed = c.crashed /\ r.pending = level
  BY DEF CpuState
<1> HIDE DEF r
<1>2. KernelInv(r) /\ r.pending < 7
  BY <1>1 DEF KernelInv, Calm, Regular
<1>3. QED BY <1>1, <1>2 DEF cpuRaiseInterrupt, r

LEMMA InvInit == ASSUME Init PROVE IInv
<1>1. TypeOK
  BY TypeInit
<1>2. /\ cpu.sr = [t |-> FALSE, s |-> TRUE, ipl |-> 7] /\ cpu.pc = ResetPc /\ cpu.a7 = ResetSsp
      /\ cpu.crashed = FALSE /\ cpu.pending = -1 /\ cpu.frames = <<>>
  BY DEF Init, cpuReset
<1>3. Calm(cpu)
  BY <1>2, KernelAssumption, StackMemIs DEF Calm, cpuIsSupervisor, Traced, Odd
<1>4. KernelInv(cpu) /\ cpu.pending < 7
  BY <1>2, <1>3 DEF KernelInv
<1>5. QED BY <1>1, <1>4 DEF IInv, KernelIInv

\* A step of the kernel keeps the invariant; a shorter history is a restored one.
LEMMA InvStep ==
  ASSUME IInv, [KernelNext]_vars
  PROVE  IInv' /\ (Returned => Restores(cpu, cpu'))
<1>1. cpu \in CpuState /\ KernelInv(cpu) /\ cpu.pending < 7 /\ cpu.frames \in Seq(Frame)
      /\ Len(cpu.frames) \in Nat /\ lines \subseteq Device
  BY FieldTypes DEF IInv, KernelIInv, TypeOK
<1>2. CASE CheckInterrupt
  <2>1. TypeOK'
    BY <1>2, TypeStep DEF Loop, IInv
  <2>2. CASE Interruptible(cpu)
    <3> DEFINE vec == VectorFor(cpu.pending)
    <3>1. vec \in Vectors /\ vec # AddressErrorVector
      <4>1. cpu.pending \in 1 .. 7
        BY <1>1, <2>2, FieldTypes DEF Interruptible
      <4>2. QED BY <4>1 DEF VectorFor, Vectors, SpuriousVector, AddressErrorVector
    <3>2. cpu' = AcceptInterrupt(cpu, vec) /\ cpu'.a7 \in MemLo .. MemHi
      <4>1. cpu' = AcceptInterrupt(cpu, vec) /\ cpu'.a7 \in Stacks
        BY <1>2, <2>2 DEF CheckInterrupt, Fits
      <4>2. QED BY <4>1, KernelAssumption
    <3> HIDE DEF vec
    <3>3. KernelInv(cpu') /\ cpu'.pending = cpu.pending /\ Len(cpu'.frames) > Len(cpu.frames)
      <4>1. cpu'.a7 \in Int
        BY <2>1, FieldTypes DEF TypeOK
      <4>2. MemLo <= cpu'.a7
        BY <4>1, <3>2, StackMemIs
      <4>3. QED BY <4>2, <1>1, <2>2, <3>1, <3>2, AcceptKeeps
    <3>4. ~Returned
      <4>1. Len(cpu'.frames) \in Nat
        BY <2>1, FieldTypes DEF TypeOK
      <4>2. QED BY <4>1, <3>3, <1>1 DEF Returned
    <3>5. QED BY <2>1, <3>3, <3>4, <1>1 DEF IInv, KernelIInv
  <2>3. CASE ~Interruptible(cpu)
    <3>1. cpu' = cpu
      BY <1>2, <2>3 DEF CheckInterrupt
    <3>2. QED BY <2>1, <3>1, <1>1 DEF IInv, KernelIInv, Returned
  <2>4. QED BY <2>2, <2>3
<1>3. CASE TickAndPoll
  <2>1. TypeOK'
    BY <1>3, TypeStep DEF Loop, IInv
  <2>2. HighestLevel(lines') \in 0 .. 6
    BY <2>1, PolledLevel DEF TypeOK
  <2>3. cpu' = cpuRaiseInterrupt(cpu, HighestLevel(lines'))
    BY <1>3 DEF TickAndPoll, machinePollInterrupts
  <2>4. KernelInv(cpu') /\ cpu'.pending < 7 /\ cpu'.frames = cpu.frames
    BY <2>2, <2>3, <1>1, PollKeeps
  <2>5. QED BY <2>1, <2>4, <1>1 DEF IInv, KernelIInv, Returned
<1>4. CASE NextFrame
  <2>1. TypeOK'
    BY <1>4, TypeStep DEF Loop, IInv
  <2>2. cpu' = cpu
    BY <1>4 DEF NextFrame
  <2>3. QED BY <2>1, <2>2, <1>1 DEF IInv, KernelIInv, Returned
<1>5. ASSUME NEW i \in Code(cpu), Execute(i)
      PROVE  IInv' /\ (Returned => Restores(cpu, cpu'))
  <2>1. Form(cpu, i) /\ IsInstruction(i)
    BY CodeForms
  <2>2. TypeOK'
    BY <2>1, <1>5, TypeStep DEF IInv
  <2>3. cpu' = FetchAndExecute(cpu, i) /\ cpu'.a7 \in MemLo .. MemHi
    BY <1>5, KernelAssumption DEF Execute, Fits
  <2>4. Good(cpu, cpu')
    BY <1>1, <2>1, <2>3, ExecuteIsGood
  <2>5. KernelInv(cpu') /\ cpu'.pending < 7
    BY <1>1, <2>3, <2>4, StackMemIs DEF Good
  <2>6. Len(cpu'.frames) \in Nat
    BY <2>2, FieldTypes DEF TypeOK
  <2>7. QED BY <1>1, <2>2, <2>4, <2>5, <2>6 DEF IInv, KernelIInv, Good, Returned
<1>6. CASE UNCHANGED vars
  <2>1. /\ cpu' = cpu /\ lines' = lines /\ count' = count /\ at' = at /\ used' = used
    BY <1>6 DEF vars
  <2>2. QED BY <2>1, <1>1 DEF IInv, KernelIInv, TypeOK, Returned
<1>7. QED BY <1>2, <1>3, <1>4, <1>5, <1>6 DEF KernelNext, Loop

(* Whatever interrupts nest in whatever routine of the kernel: the CPU stays in *)
(* supervisor mode on an even stack, and every open frame is in order below the *)
(* one before it, held by memory, at a mask no lower.                           *)
THEOREM KernelInvariant == KernelSpec => []KernelIInv
<1>1. Init => IInv
  BY InvInit
<1>2. IInv /\ [KernelNext]_vars => IInv'
  BY InvStep
<1>3. IInv => KernelIInv
  BY DEF IInv
<1>4. QED BY <1>1, <1>2, <1>3, PTL DEF KernelSpec

(* Nothing the CPU pushes lands on a frame that is still to be returned from.  *)
THEOREM KernelFramesIntact == KernelSpec => []FramesIntact
<1>1. IInv => FramesIntact
  <2> SUFFICES ASSUME IInv PROVE FramesIntact
    OBVIOUS
  <2>1. cpu \in CpuState /\ KernelInv(cpu) /\ cpu.frames \in Seq(Frame) /\ cpu.a7 \in Int
    BY FieldTypes DEF IInv, KernelIInv, TypeOK
  <2>2. \A k \in 1 .. Len(cpu.frames) : Regular(cpu, cpu.frames[k]) /\ cpu.frames[k] \in Frame
    BY <2>1, ElementOfSeq DEF KernelInv
  <2>3. FramesHeld(cpu)
    BY <2>2 DEF FramesHeld, Regular
  <2>4. cpu.a7 <= StackTop(cpu)
    <3>1. CASE cpu.frames = <<>>
      BY <3>1, <2>1 DEF StackTop, KernelInv, Calm
    <3>2. CASE cpu.frames # <<>>
      <4>1. Len(cpu.frames) \in Nat \ {0}
        BY <2>1, <3>2, EmptySeq
      <4>2. Len(cpu.frames) \in 1 .. Len(cpu.frames)
        BY <4>1
      <4>3. QED BY <2>2, <3>2, <4>2 DEF StackTop, Last, Regular
    <3>3. QED BY <3>1, <3>2
  <2>5. ASSUME NEW k \in 1 .. Len(cpu.frames)
        PROVE  cpu.frames[k].base < cpu.frames[k].sp /\ cpu.frames[k].sp <= ResetSsp
    <3> DEFINE f == cpu.frames[k]
    <3>1. f \in Frame /\ Regular(cpu, f)
      BY <2>2
    <3> HIDE DEF f
    <3>2. f.base < f.sp /\ f.sp <= ResetSsp
      BY <3>1 DEF Frame, Regular, FrameSize
    <3>3. QED BY <3>2 DEF f
  <2>6. QED BY <2>1, <2>3, <2>4, <2>5 DEF FramesIntact, FramesNested, KernelInv, Above
<1>2. KernelSpec => []IInv
  BY InvInit, InvStep, PTL DEF KernelSpec
<1>3. QED BY <1>1, <1>2, PTL

(* An interrupt is taken at a level above the mask of all it interrupts.       *)
THEOREM KernelMasksRise == KernelSpec => []MasksRise
<1>1. IInv => MasksRise
  <2> SUFFICES ASSUME IInv PROVE MasksRise
    OBVIOUS
  <2>1. cpu \in CpuState /\ KernelInv(cpu) /\ cpu.frames \in Seq(Frame)
    BY FieldTypes DEF IInv, KernelIInv, TypeOK
  <2>2. \A k \in 1 .. Len(cpu.frames) : Regular(cpu, cpu.frames[k]) /\ cpu.frames[k] \in Frame
    BY <2>1, ElementOfSeq DEF KernelInv
  <2>3. ASSUME NEW j \in 1 .. Len(cpu.frames), NEW k \in 1 .. Len(cpu.frames), j < k
        PROVE  IF IsInterrupt(cpu.frames[k]) THEN cpu.frames[j].mask < cpu.frames[k].mask
               ELSE cpu.frames[j].mask <= cpu.frames[k].mask
    <3> DEFINE f == cpu.frames[j]
               g == cpu.frames[k]
    <3>1. f \in Frame /\ g \in Frame /\ Regular(cpu, g) /\ Above(g, f)
      BY <2>1, <2>2, <2>3 DEF KernelInv
    <3> HIDE DEF f, g
    <3>2. f.mask \in Int /\ g.mask \in Int /\ g.sr \in StatusRegister
      BY <3>1 DEF Frame
    <3>3. cpuGetIPL(g.sr) \in Int
      BY <3>2, SrUpdates
    <3>4. IF IsInterrupt(g) THEN f.mask < g.mask ELSE f.mask <= g.mask
      BY <3>1, <3>2, <3>3 DEF Regular, Above
    <3>5. QED BY <3>4 DEF f, g
  <2>4. QED BY <2>2, <2>3 DEF MasksRise, Regular
<1>2. KernelSpec => []IInv
  BY InvInit, InvStep, PTL DEF KernelSpec
<1>3. QED BY <1>1, <1>2, PTL

(* RTE resumes exactly what its exception interrupted, at any nesting.         *)
THEOREM KernelContextRestored == KernelSpec => ContextRestored
<1>1. IInv /\ [KernelNext]_vars
        => [Returned => LET f == Last(cpu.frames)
                        IN  /\ cpu'.pc = f.pc /\ cpu'.sr = f.sr /\ cpu'.a7 = f.sp
                            /\ cpu.frames = Append(cpu'.frames, f)]_vars
  BY InvStep DEF Restores
<1>2. KernelSpec => []IInv
  BY InvInit, InvStep, PTL DEF KernelSpec
<1>3. QED BY <1>1, <1>2, PTL DEF KernelSpec, ContextRestored
=============================================================================
