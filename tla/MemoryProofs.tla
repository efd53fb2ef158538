---------------------------- MODULE MemoryProofs ----------------------------
(***************************************************************************)
(* Proofs about memories.  The bus and what moves over it: the network     *)
(* controller's frames, the storage controller's sectors and the kernel    *)
(* they load.  What is kept in rings: the kernel's key buffer, the two     *)
(* rings of the uart and the samples of the tone generator.                *)
(***************************************************************************)
EXTENDS SequencesExt, Network, Boot, Keys, Uart, Audio, Basics, SequenceTheorems

----------------------------------------------------------------------------
(* The bus *)

\* Between an even number and a greater one there is room for the odd one.
LEMMA OddBelow ==
  ASSUME NEW x \in Nat, NEW y \in Nat, x % 2 = 0, y % 2 = 0, x < y
  PROVE  x + 1 < y
OBVIOUS

LEMMA ModSmall ==
  ASSUME NEW x \in Nat, x < Top
  PROVE  x % Top = x
BY BusAssumption

\* Where the two bytes of a word lie: regions begin and end at even addresses,
\* but for the end of RAM.
LEMMA Neighbours ==
  ASSUME NEW x \in EvenAddresses
  PROVE  /\ x \in Nat /\ x % Top = x /\ (x + 1) % Top = x + 1
         /\ x + 1 < RomSize <=> x < RomSize
         /\ InRom(x + 1) <=> InRom(x)
         /\ InRam(x + 1) => InRam(x)
         /\ x + 1 # Latch
         /\ x = Latch => ~InRom(x + 1) /\ ~InRam(x + 1)
         /\ InRom(x) => ~InRam(x) /\ x # Latch
         /\ RomBase \in Nat
<1>1. /\ x \in Nat /\ x < Top /\ x % 2 = 0
      /\ RomSize \in Nat /\ RomBase \in Nat /\ Latch \in Nat /\ RamSize \in Nat /\ Top \in Nat
      /\ RomSize % 2 = 0 /\ RomBase % 2 = 0 /\ Latch % 2 = 0 /\ Top % 2 = 0
      /\ RamSize <= Latch /\ Latch + 1 < RomBase /\ RomBase + RomSize <= Top
  BY BusAssumption DEF EvenAddresses
<1>2. x + 1 < Top
  BY <1>1, OddBelow
<1>3. x % Top = x /\ (x + 1) % Top = x + 1
  BY <1>1, <1>2, ModSmall
<1>4. (RomBase + RomSize) % 2 = 0 /\ RomBase + RomSize \in Nat
  BY <1>1
<1>5. x + 1 < RomSize <=> x < RomSize
  BY <1>1, OddBelow
<1>6. InRom(x + 1) <=> InRom(x)
  <2>1. x < RomBase => x + 1 < RomBase
    BY <1>1, OddBelow
  <2>2. x < RomBase + RomSize => x + 1 < RomBase + RomSize
    BY <1>1, <1>4, OddBelow
  <2>3. QED BY <1>1, <1>4, <2>1, <2>2 DEF InRom
<1>7. InRam(x + 1) => InRam(x)
  BY <1>1 DEF InRam
<1>8. x + 1 # Latch
  BY <1>1
<1>9. /\ x = Latch => ~InRom(x + 1) /\ ~InRam(x + 1)
      /\ InRom(x) => ~InRam(x) /\ x # Latch
  BY <1>1, <1>4 DEF InRom, InRam
<1>10. QED BY <1>1, <1>3, <1>5, <1>6, <1>7, <1>8, <1>9

LEMMA ReadsAgree ==
  ASSUME NEW mem, NEW x \in EvenAddresses
  PROVE  busReadWord(mem, x) = Base * busReadByte(mem, x) + busReadByte(mem, x + 1)
<1>1. /\ x \in Nat /\ x % Top = x /\ (x + 1) % Top = x + 1
      /\ x + 1 < RomSize <=> x < RomSize
      /\ InRom(x + 1) <=> InRom(x)
      /\ RomBase \in Nat
  BY Neighbours
<1>2. CASE mem.overlay /\ x + 1 < RomSize
  <2>1. busReadByte(mem, x) = Rom[x] /\ busReadByte(mem, x + 1) = Rom[x + 1]
    BY <1>1, <1>2 DEF busReadByte
  <2>2. busReadWord(mem, x) = Base * Rom[x] + Rom[x + 1]
    BY <1>1, <1>2 DEF busReadWord
  <2>3. QED BY <2>1, <2>2
<1>3. CASE ~(mem.overlay /\ x + 1 < RomSize) /\ InRom(x)
  <2>1. busReadByte(mem, x) = Rom[x - RomBase] /\ busReadByte(mem, x + 1) = Rom[x + 1 - RomBase]
    BY <1>1, <1>3 DEF busReadByte
  <2>2. busReadWord(mem, x) = Base * Rom[x - RomBase] + Rom[x + 1 - RomBase]
    BY <1>1, <1>3 DEF busReadWord
  <2>3. QED BY <2>1, <2>2
<1>4. CASE ~(mem.overlay /\ x + 1 < RomSize) /\ ~InRom(x) /\ InRam(x) /\ InRam(x + 1)
  <2>1. busReadByte(mem, x) = mem.ram[x] /\ busReadByte(mem, x + 1) = mem.ram[x + 1]
    BY <1>1, <1>4 DEF busReadByte
  <2>2. busReadWord(mem, x) = Base * mem.ram[x] + mem.ram[x + 1]
    BY <1>1, <1>4 DEF busReadWord
  <2>3. QED BY <2>1, <2>2
<1>5. CASE ~(mem.overlay /\ x + 1 < RomSize) /\ ~InRom(x) /\ ~(InRam(x) /\ InRam(x + 1))
  BY <1>1, <1>5 DEF busReadWord
<1>6. QED BY <1>2, <1>3, <1>4, <1>5

LEMMA WritesAgree ==
  ASSUME NEW mem, NEW x \in EvenAddresses, NEW w
  PROVE  busWriteWord(mem, x, w)
           = busWriteByte(busWriteByte(mem, x, w \div Base), x + 1, w % Base)
<1> DEFINE high == w \div Base
           low == w % Base
<1>1. /\ x \in Nat /\ x % Top = x /\ (x + 1) % Top = x + 1
      /\ InRom(x + 1) <=> InRom(x)
      /\ InRam(x + 1) => InRam(x)
      /\ x + 1 # Latch
      /\ x = Latch => ~InRom(x + 1) /\ ~InRam(x + 1)
      /\ InRom(x) => ~InRam(x) /\ x # Latch
  BY Neighbours
<1>2. CASE x = Latch
  <2>1. busWriteWord(mem, x, w) = [mem EXCEPT !.overlay = FALSE]
    BY <1>1, <1>2 DEF busWriteWord
  <2>2. busWriteByte(mem, x, high) = [mem EXCEPT !.overlay = FALSE]
    BY <1>1, <1>2 DEF busWriteByte
  <2>3. \A m : busWriteByte(m, x + 1, low) = m
    BY <1>1, <1>2 DEF busWriteByte
  <2>4. QED BY <2>1, <2>2, <2>3
<1>3. CASE InRom(x)
  <2>1. busWriteWord(mem, x, w) = mem
    BY <1>1, <1>3 DEF busWriteWord
  <2>2. busWriteByte(mem, x, high) = mem /\ busWriteByte(mem, x + 1, low) = mem
    BY <1>1, <1>3 DEF busWriteByte
  <2>3. QED BY <2>1, <2>2
<1>4. CASE x # Latch /\ ~InRom(x) /\ InRam(x) /\ InRam(x + 1)
  <2>1. busWriteWord(mem, x, w) = [mem EXCEPT !.ram[x] = high, !.ram[x + 1] = low]
    BY <1>1, <1>4 DEF busWriteWord
  <2>2. busWriteByte(mem, x, high) = [mem EXCEPT !.ram[x] = high]
    BY <1>1, <1>4 DEF busWriteByte
  <2>3. \A m : busWriteByte(m, x + 1, low) = [m EXCEPT !.ram[x + 1] = low]
    BY <1>1, <1>4 DEF busWriteByte
  <2>4. [mem EXCEPT !.ram[x] = high, !.ram[x + 1] = low]
          = [[mem EXCEPT !.ram[x] = high] EXCEPT !.ram[x + 1] = low]
    OBVIOUS
  <2>5. QED BY <2>1, <2>2, <2>3, <2>4
<1>5. CASE x # Latch /\ ~InRom(x) /\ ~(InRam(x) /\ InRam(x + 1))
  BY <1>1, <1>5 DEF busWriteWord
<1>6. QED BY <1>2, <1>3, <1>4, <1>5

(* Words are their two bytes at every address, for memories of any size and    *)
(* contents: what is needed of the layout is that regions begin and end at     *)
(* even addresses (RAM alone may end at an odd one) and do not overlap.        *)
THEOREM BusWordsAreBytes == NetworkSpec => []WordsAreBytes
<1>1. WordsAreBytes
  <2> SUFFICES ASSUME NEW x \in EvenAddresses
               PROVE  /\ busReadWord(Mem, x) = Base * busReadByte(Mem, x) + busReadByte(Mem, x + 1)
                      /\ \A w \in BusWords :
                           busWriteWord(Mem, x, w)
                             = busWriteByte(busWriteByte(Mem, x, w \div Base), x + 1, w % Base)
    BY DEF WordsAreBytes
  <2>1. busReadWord(Mem, x) = Base * busReadByte(Mem, x) + busReadByte(Mem, x + 1)
    BY ReadsAgree
  <2>2. \A w \in BusWords :
          busWriteWord(Mem, x, w)
            = busWriteByte(busWriteByte(Mem, x, w \div Base), x + 1, w % Base)
    BY WritesAgree, Zenon
  <2>3. QED BY <2>1, <2>2
<1>2. QED BY <1>1, PTL

----------------------------------------------------------------------------
(* The network controller *)

\* What FrameAsSent rests on: the frame is at the beginning of the buffer.
SentIsBuffered ==
  /\ txLen \in Nat
  /\ \E S : txBuf \in Seq(S)
  /\ Len(txBuf) = MaxFrame
  /\ "done" \in netStatus =>
       /\ Len(sent) \in 0 .. MaxFrame
       /\ sent = SubSeq(txBuf, 1, Len(sent))

\* A frame put at the beginning of a buffer is its beginning, and the buffer
\* keeps its length.
LEMMA FrontReplaced ==
  ASSUME NEW S, NEW frame \in Seq(S), NEW buf \in Seq(S), Len(frame) <= Len(buf)
  PROVE  LET new == frame \o SubSeq(buf, Len(frame) + 1, Len(buf))
         IN  /\ new \in Seq(S)
             /\ Len(new) = Len(buf)
             /\ frame = SubSeq(new, 1, Len(frame))
<1> DEFINE n == Len(frame)
           m == Len(buf)
           rest == SubSeq(buf, n + 1, m)
           new == frame \o rest
<1>1. n \in Nat /\ m \in Nat /\ n <= m
  BY LenProperties
<1>2. \A i \in 1 .. m : buf[i] \in S
  BY ElementOfSeq
<1>3. rest \in Seq(S) /\ Len(rest) = m - n
  <2>1. \A i \in n + 1 .. m : buf[i] \in S
    BY <1>1, <1>2
  <2>2. rest \in Seq(S) /\ Len(rest) = IF n + 1 <= m THEN m - (n + 1) + 1 ELSE 0
    <3> HIDE DEF n, m
    <3>1. n + 1 \in Int /\ m \in Int
      BY <1>1
    <3>2. QED BY <2>1, <3>1, SubSeqProperties
  <2>3. QED BY <1>1, <2>2
<1>4. new \in Seq(S) /\ Len(new) = m /\ \A i \in 1 .. n : new[i] = frame[i]
  <2> HIDE DEF rest
  <2>1. /\ new \in Seq(S)
        /\ Len(new) = n + Len(rest)
        /\ \A i \in 1 .. n + Len(rest) : new[i] = IF i <= n THEN frame[i] ELSE rest[i - n]
    BY <1>3, ConcatProperties
  <2> HIDE DEF new, n, m
  <2>2. n + Len(rest) = m /\ \A i \in 1 .. n : i \in 1 .. n + Len(rest) /\ i <= n
    BY <1>1, <1>3
  <2>3. QED BY <2>1, <2>2
<1>5. frame = SubSeq(new, 1, n)
  <2> DEFINE front == SubSeq(new, 1, n)
  <2> HIDE DEF new
  <2>1. \A i \in 1 .. n : new[i] \in S
    <3>1. \A i \in 1 .. n : frame[i] \in S
      BY ElementOfSeq
    <3>2. QED BY <3>1, <1>4
  <2>2. /\ front \in Seq(S)
        /\ Len(front) = IF 1 <= n THEN n - 1 + 1 ELSE 0
        /\ \A i \in 1 .. n - 1 + 1 : front[i] = new[1 + i - 1]
    <3> HIDE DEF n
    <3>1. n \in Int /\ 1 \in Int
      BY <1>1
    <3>2. QED BY <2>1, <3>1, SubSeqProperties
  <2>3. Len(front) = Len(frame) /\ \A i \in 1 .. Len(frame) : frame[i] = front[i]
    <3> HIDE DEF front
    <3>1. QED BY <1>1, <1>4, <2>2
  <2> HIDE DEF front
  <2>4. frame = front
    BY <2>2, <2>3, SeqEqual
  <2>5. QED BY <2>4 DEF front
<1>6. QED BY <1>4, <1>5

LEMMA NetworkInvariant == NetworkSpec => []SentIsBuffered
<1>0. MaxFrame \in Nat
  BY NetworkAssumption
<1>1. NetworkInit => SentIsBuffered
  <2> SUFFICES ASSUME NetworkInit PROVE SentIsBuffered
    OBVIOUS
  <2>1. txBuf = [i \in 1 .. MaxFrame |-> 0] /\ txLen = 0 /\ netStatus = {}
    BY DEF NetworkInit
  <2>2. txBuf \in Seq({0}) /\ Len(txBuf) = MaxFrame
    BY <2>1, <1>0
  <2>3. QED BY <2>1, <2>2 DEF SentIsBuffered
<1>2. SentIsBuffered /\ [NetworkNext]_netAll => SentIsBuffered'
  <2> SUFFICES ASSUME SentIsBuffered, [NetworkNext]_netAll PROVE SentIsBuffered'
    OBVIOUS
  <2>1. ASSUME UNCHANGED <<txLen, txBuf>>, UNCHANGED <<netStatus, sent>> PROVE SentIsBuffered'
    BY <2>1 DEF SentIsBuffered
  <2>2. ASSUME txLen' \in Nat, UNCHANGED txBuf, "done" \notin netStatus' PROVE SentIsBuffered'
    BY <2>2 DEF SentIsBuffered
  <2>3. ASSUME NEW irq, NEW start, WriteNetCtrl(irq, start) PROVE SentIsBuffered'
    <3>1. CASE ~(start /\ txLen <= MaxFrame)
      BY <2>3, <3>1, <2>1 DEF WriteNetCtrl
    <3>2. CASE start /\ txLen <= MaxFrame
      <4> DEFINE frame == InMemory(txLen)
                 bytes == {busReadByte(Mem, netDma + i - 1) : i \in 1 .. txLen}
      <4>1. txLen \in Nat /\ txLen <= MaxFrame /\ Len(txBuf) = MaxFrame
        BY <3>2 DEF SentIsBuffered
      <4>2. PICK S : txBuf \in Seq(S)
        BY DEF SentIsBuffered
      <4>3. frame \in Seq(S \cup bytes) /\ Len(frame) = txLen
        <5>1. \A i \in 1 .. txLen : busReadByte(Mem, netDma + i - 1) \in S \cup bytes
          OBVIOUS
        <5>2. frame = [i \in 1 .. txLen |-> busReadByte(Mem, netDma + i - 1)]
          BY DEF InMemory
        <5> HIDE DEF frame, bytes
        <5>3. QED BY <4>1, <5>1, <5>2
      <4>4. txBuf \in Seq(S \cup bytes)
        <5> HIDE DEF bytes
        <5>1. S \subseteq S \cup bytes
          OBVIOUS
        <5>2. QED BY <4>2, <5>1, SeqMonotonic
      <4>5. /\ txBuf' = frame \o SubSeq(txBuf, txLen + 1, MaxFrame)
            /\ sent' = frame /\ txLen' = txLen
        BY <2>3, <3>2 DEF WriteNetCtrl
      <4> HIDE DEF frame, bytes
      <4>6. /\ txBuf' \in Seq(S \cup bytes) /\ Len(txBuf') = MaxFrame
            /\ sent' = SubSeq(txBuf', 1, Len(sent'))
        <5>1. Len(frame) <= Len(txBuf)
          BY <4>1, <4>3
        <5>2. /\ frame \o SubSeq(txBuf, Len(frame) + 1, Len(txBuf)) \in Seq(S \cup bytes)
              /\ Len(frame \o SubSeq(txBuf, Len(frame) + 1, Len(txBuf))) = Len(txBuf)
              /\ frame = SubSeq(frame \o SubSeq(txBuf, Len(frame) + 1, Len(txBuf)), 1, Len(frame))
          BY <4>3, <4>4, <5>1, FrontReplaced
        <5>3. txBuf' = frame \o SubSeq(txBuf, Len(frame) + 1, Len(txBuf))
          BY <4>1, <4>3, <4>5
        <5>4. QED BY <4>1, <4>5, <5>2, <5>3, Zenon
      <4>7. Len(sent') \in 0 .. MaxFrame /\ txLen' \in Nat
        BY <4>1, <4>3, <4>5
      <4>8. QED BY <4>6, <4>7 DEF SentIsBuffered
    <3>3. QED BY <3>1, <3>2
  <2>4. ASSUME NEW bits, WriteNetStatus(bits) PROVE SentIsBuffered'
    <3>1. CASE "done" \in netStatus'
      BY <2>4, <3>1 DEF WriteNetStatus, SentIsBuffered
    <3>2. CASE "done" \notin netStatus'
      BY <2>4, <3>2, <2>2 DEF WriteNetStatus, SentIsBuffered
    <3>3. QED BY <3>1, <3>2
  <2>5. ASSUME NEW k \in Lengths, WriteTxLen(k) PROVE SentIsBuffered'
    <3>1. k \in Nat
      BY <1>0 DEF Lengths
    <3>2. QED BY <2>5, <3>1 DEF WriteTxLen, SentIsBuffered
  <2>6. ASSUME NEW w, WriteNetDma(w) PROVE SentIsBuffered'
    BY <2>6, <2>1 DEF WriteNetDma
  <2>7. ASSUME NEW i, NEW v, FillBuffer(i, v) PROVE SentIsBuffered'
    BY <2>7, <2>1 DEF FillBuffer, netVars
  <2>8. ASSUME NEW frame, networkInjectFrame(frame) PROVE SentIsBuffered'
    <3>1. /\ UNCHANGED <<txLen, txBuf, sent>>
          /\ netStatus' = netStatus \cup {"received"}
      BY <2>8, Zenon DEF networkInjectFrame
    <3>2. QED BY <3>1 DEF SentIsBuffered
  <2>9. CASE networkPullFrame
    BY <2>9, <2>2 DEF networkPullFrame, SentIsBuffered
  <2>10. CASE netReset
    BY <2>10, <2>2 DEF netReset
  <2>11. CASE UNCHANGED netAll
    BY <2>11, <2>1 DEF netAll, netVars
  <2>12. QED
    BY <2>3, <2>4, <2>5, <2>6, <2>7, <2>8, <2>9, <2>10, <2>11 DEF NetworkNext
<1>3. QED BY <1>1, <1>2, PTL DEF NetworkSpec

(* The host is given what was sent, for frames of any length, memories of any  *)
(* contents and DMA addresses anywhere, also where memory ends.                *)
THEOREM NetworkFrameAsSent == NetworkSpec => []FrameAsSent
<1>1. SentIsBuffered => FrameAsSent
  <2> SUFFICES ASSUME SentIsBuffered, "done" \in netStatus, txLen = Len(sent),
                      NEW max \in 0 .. MaxFrame
               PROVE  Pulled(max) = SubSeq(sent, 1, IF Len(sent) <= max THEN Len(sent) ELSE max)
    BY DEF FrameAsSent
  <2> DEFINE n == Len(sent)
             k == IF n <= max THEN n ELSE max
  <2>1. /\ n \in 0 .. MaxFrame /\ sent = SubSeq(txBuf, 1, n) /\ Len(txBuf) = MaxFrame
        /\ MaxFrame \in Nat
    BY NetworkAssumption DEF SentIsBuffered
  <2>2. PICK S : txBuf \in Seq(S)
    BY DEF SentIsBuffered
  <2>3. Pulled(max) = SubSeq(txBuf, 1, k)
    BY DEF Pulled
  <2>4. k \in 0 .. n
    BY <2>1
  <2> HIDE DEF k
  <2>5. CASE k = 0
    <3>1. SubSeq(txBuf, 1, 0) = <<>> /\ SubSeq(sent, 1, 0) = <<>>
      BY SubSeqEmpty
    <3>2. QED BY <2>3, <2>5, <3>1 DEF k
  <2>6. CASE k # 0
    <3> HIDE DEF n
    <3>1. /\ 1 \in 1 .. Len(txBuf) /\ n \in 1 .. Len(txBuf)
          /\ 1 \in 1 .. n - 1 + 1 /\ k \in 1 .. n - 1 + 1
      BY <2>1, <2>4, <2>6
    <3>2. SubSeq(SubSeq(txBuf, 1, n), 1, k) = SubSeq(txBuf, 1 + 1 - 1, 1 + k - 1)
      BY <2>2, <3>1, SubSeqOfSubSeq
    <3>3. SubSeq(sent, 1, k) = SubSeq(txBuf, 1, k)
      BY <2>1, <2>4, <3>2
    <3>4. QED BY <2>3, <3>3 DEF k, n
  <2>7. QED BY <2>5, <2>6
<1>2. QED BY <1>1, NetworkInvariant, PTL

----------------------------------------------------------------------------
(* The storage controller *)

Memory == [ram : [0 .. RamSize - 1 -> Octet], overlay : BOOLEAN]
DiskTypes ==
  /\ Mem \in Memory /\ image \in Seq(Octet)
  /\ sector \in Nat /\ dmaAddress \in Nat /\ sectorCount \in Nat

LEMMA Numbers ==
  /\ Base \in Nat \ {0} /\ Pair \in Nat \ {0} /\ LongMod \in Nat \ {0} /\ Top \in Nat \ {0}
  /\ SectorSize \in Nat \ {0} /\ 0 \in Octet
<1>1. Base \in Nat \ {0} /\ Top \in Nat \ {0} /\ SectorSize \in Nat \ {0}
  BY BusAssumption, StorageAssumption
<1>2. \A a, b \in Nat \ {0} : a * b \in Nat \ {0}
  OBVIOUS
<1>3. Pair \in Nat \ {0}
  BY <1>1, <1>2 DEF Pair
<1>4. LongMod \in Nat \ {0}
  BY <1>2, <1>3 DEF LongMod
<1>5. QED BY <1>1, <1>3, <1>4 DEF Octet

LEMMA ProductNat ==
  ASSUME NEW a \in Nat, NEW b \in Nat
  PROVE  a * b \in Nat
OBVIOUS

LEMMA BytesRead ==
  ASSUME NEW mem \in Memory, NEW address \in Int
  PROVE  busReadByte(mem, address) \in Octet
<1> DEFINE x == address % Top
<1>1. x \in 0 .. Top - 1
  BY Numbers
<1>2. Base \in Nat \ {0} /\ RomSize \in Nat /\ RomBase \in Nat /\ RamSize \in Nat
      /\ Rom \in [0 .. RomSize - 1 -> Octet]
  BY BusAssumption
<1>3. Open \in Octet
  BY <1>2 DEF Open, Octet
<1> HIDE DEF x
<1>4. x < RomSize => Rom[x] \in Octet
  BY <1>1, <1>2
<1>5. InRom(x) => Rom[x - RomBase] \in Octet
  <2>1. ASSUME InRom(x) PROVE x - RomBase \in 0 .. RomSize - 1
    BY <2>1, <1>1, <1>2 DEF InRom
  <2>2. QED BY <2>1, <1>2
<1>6. InRam(x) => mem.ram[x] \in Octet
  BY <1>1, <1>2 DEF InRam, Memory
<1>7. QED BY <1>3, <1>4, <1>5, <1>6 DEF busReadByte, x

LEMMA BytesWritten ==
  ASSUME NEW mem \in Memory, NEW address \in Int, NEW value \in Octet
  PROVE  busWriteByte(mem, address, value) \in Memory
BY DEF busWriteByte, Memory

LEMMA Totals ==
  ASSUME DiskTypes
  PROVE  /\ TotalBytes \in Nat /\ Indices = [i \in 1 .. TotalBytes |-> i - 1]
         /\ DOMAIN Indices = 1 .. TotalBytes
         /\ \A i \in 1 .. TotalBytes : Indices[i] = i - 1
         /\ StartByte \in Nat
         /\ \A i \in Nat : Offset(i) \in Nat
<1>1. TotalBytes \in Nat
  BY Numbers, ProductNat DEF DiskTypes, TotalBytes
<1>2. StartByte \in Nat
  <2>1. sector * SectorSize \in Nat
    BY Numbers, ProductNat DEF DiskTypes
  <2>2. \A a \in Nat : a % LongMod \in Nat
    BY Numbers
  <2>3. QED BY <2>1, <2>2 DEF StartByte
<1>3. \A i \in Nat : Offset(i) \in Nat
  <2>1. \A a \in Nat : a % LongMod \in Nat
    BY Numbers
  <2>2. QED BY <1>2, <2>1 DEF Offset
<1>4. QED BY <1>1, <1>2, <1>3 DEF Indices

LEMMA ImageBytes ==
  ASSUME DiskTypes, NEW i \in Nat, NEW stray \in Octet
  PROVE  ImageByte(i, stray) \in Octet
<1>1. Offset(i) \in Nat
  BY Totals
<1>2. ASSUME Offset(i) < Len(image) PROVE image[Offset(i) + 1] \in Octet
  <2>1. Offset(i) + 1 \in 1 .. Len(image) /\ image \in Seq(Octet)
    BY <1>1, <1>2 DEF DiskTypes
  <2>2. QED BY <2>1, ElementOfSeq
<1>3. QED BY <1>2 DEF ImageByte

----------------------------------------------------------------------------
(* The loop of a read *)

Reading(stray) == CHOOSE g : g = [S \in SUBSET (DOMAIN Indices) |->
  IF S = {} THEN Mem
  ELSE busWriteByte(g[S \ {Greatest(S)}], dmaAddress + Indices[Greatest(S)],
                    ImageByte(Indices[Greatest(S)], stray))]

LEMMA ReadIsReading ==
  ASSUME storageExecRead, attached # "none", ~BeyondImage
  PROVE  \E stray \in Octet : Becomes(Reading(stray)[DOMAIN Indices])
BY DEF storageExecRead, Reading, FoldLeft, MapThenFoldSet, Max, Greatest

ReadTurn(m, k, stray) == busWriteByte(m, dmaAddress + k, ImageByte(k, stray))

LEMMA ReadingLoop ==
  ASSUME DiskTypes, NEW stray \in Octet
  PROVE  /\ Reading(stray)[1 .. 0] = Mem
         /\ \A k \in 0 .. TotalBytes - 1 :
              Reading(stray)[1 .. k + 1] = ReadTurn(Reading(stray)[1 .. k], k, stray)
<1> DEFINE n == TotalBytes
           F == [p \in Memory \X (1 .. n) |-> ReadTurn(p[1], p[2] - 1, stray)]
           g == Reading(stray)
<1>0. n \in Nat /\ DOMAIN Indices = 1 .. n /\ \A i \in 1 .. n : Indices[i] = i - 1
  BY Totals
<1> HIDE DEF n
<1>1. F \in [Memory \X (1 .. n) -> Memory]
  <2>1. ASSUME NEW m \in Memory, NEW k \in 1 .. n PROVE ReadTurn(m, k - 1, stray) \in Memory
    <3>1. k - 1 \in Nat /\ dmaAddress + (k - 1) \in Int
      BY <1>0 DEF DiskTypes
    <3>2. ImageByte(k - 1, stray) \in Octet
      BY <3>1, ImageBytes
    <3>3. QED BY <3>1, <3>2, BytesWritten DEF ReadTurn
  <2>2. QED BY <2>1
<1>2. PICK f \in [SUBSET (1 .. n) -> Memory] : IsFold(f, n, Mem, F)
  <2> HIDE DEF F
  <2>1. Mem \in Memory
    BY DEF DiskTypes
  <2>2. QED BY <1>0, <1>1, <2>1, FoldDefined
<1>3. ASSUME NEW S \in SUBSET (1 .. n), S # {}
      PROVE  /\ F[<<f[S \ {Greatest(S)}], Greatest(S)>>]
                  = busWriteByte(f[S \ {Greatest(S)}], dmaAddress + Indices[Greatest(S)],
                                 ImageByte(Indices[Greatest(S)], stray))
  <2>1. Greatest(S) \in 1 .. n /\ f[S \ {Greatest(S)}] \in Memory
    BY <1>0, <1>3, GreatestExists
  <2>2. Indices[Greatest(S)] = Greatest(S) - 1
    BY <1>0, <2>1
  <2>3. F[<<f[S \ {Greatest(S)}], Greatest(S)>>]
          = ReadTurn(f[S \ {Greatest(S)}], Greatest(S) - 1, stray)
    BY <2>1
  <2>4. QED BY <2>2, <2>3 DEF ReadTurn
<1> HIDE DEF F
<1>4. f = [S \in SUBSET (1 .. n) |->
             IF S = {} THEN Mem
             ELSE busWriteByte(f[S \ {Greatest(S)}], dmaAddress + Indices[Greatest(S)],
                               ImageByte(Indices[Greatest(S)], stray))]
  BY <1>2, <1>3 DEF IsFold
<1>5. f = [S \in SUBSET (DOMAIN Indices) |->
             IF S = {} THEN Mem
             ELSE busWriteByte(f[S \ {Greatest(S)}], dmaAddress + Indices[Greatest(S)],
                               ImageByte(Indices[Greatest(S)], stray))]
  BY <1>0, <1>4, Zenon
<1>6. g = [S \in SUBSET (DOMAIN Indices) |->
             IF S = {} THEN Mem
             ELSE busWriteByte(g[S \ {Greatest(S)}], dmaAddress + Indices[Greatest(S)],
                               ImageByte(Indices[Greatest(S)], stray))]
  BY <1>5, Zenon DEF Reading
<1> HIDE DEF g
<1>7. g[1 .. 0] = Mem
  <2>1. 1 .. 0 = {} /\ {} \in SUBSET (DOMAIN Indices)
    OBVIOUS
  <2>2. QED BY <1>6, <2>1
<1>8. ASSUME NEW k \in 0 .. n - 1
      PROVE  g[1 .. k + 1] = ReadTurn(g[1 .. k], k, stray)
  <2>1. /\ 1 .. k + 1 \in SUBSET (1 .. n) /\ 1 .. k + 1 # {}
        /\ Greatest(1 .. k + 1) = k + 1 /\ (1 .. k + 1) \ {k + 1} = 1 .. k
    BY <1>0, LastTurn
  <2>2. Indices[k + 1] = k
    <3>1. k + 1 \in 1 .. n /\ k + 1 - 1 = k
      BY <1>0
    <3>2. QED BY <3>1, <1>0
  <2>3. g[1 .. k + 1] = busWriteByte(g[1 .. k], dmaAddress + Indices[k + 1],
                                     ImageByte(Indices[k + 1], stray))
    BY <1>0, <1>6, <2>1
  <2>4. QED BY <2>2, <2>3 DEF ReadTurn
<1>9. QED BY <1>7, <1>8 DEF g, n

LEMMA ReadingTypes ==
  ASSUME DiskTypes, NEW stray \in Octet
  PROVE  \A k \in 0 .. TotalBytes : Reading(stray)[1 .. k] \in Memory
<1> DEFINE n == TotalBytes
           h(k) == Reading(stray)[1 .. k]
           P == {k \in 0 .. n : h(k) \in Memory}
<1>0. n \in Nat /\ Mem \in Memory
  BY Totals DEF DiskTypes
<1>1. 0 \in P
  BY <1>0, ReadingLoop
<1>2. ASSUME NEW k \in 0 .. n - 1, k \in P PROVE k + 1 \in P
  <2>1. h(k + 1) = ReadTurn(h(k), k, stray) /\ h(k) \in Memory
    BY <1>2, ReadingLoop
  <2>2. k \in Nat /\ dmaAddress + k \in Int /\ k + 1 \in 0 .. n
    BY <1>0 DEF DiskTypes
  <2>3. ImageByte(k, stray) \in Octet
    BY <2>2, ImageBytes
  <2> HIDE DEF h
  <2>4. ReadTurn(h(k), k, stray) \in Memory
    BY <2>1, <2>2, <2>3, BytesWritten DEF ReadTurn
  <2>5. QED BY <2>1, <2>2, <2>4
<1>3. \A k \in 0 .. n : k \in P
  <2> HIDE DEF P
  <2>1. QED BY <1>0, <1>1, <1>2, Induct
<1>4. QED BY <1>3

----------------------------------------------------------------------------
(* Where the bytes go *)

\* The byte that takes a number of steps from an address, and back.
LEMMA Distances ==
  ASSUME NEW d \in Int, NEW x \in 0 .. Top - 1, NEW k \in 0 .. Top - 1
  PROVE  ((x - d) % Top = k) <=> (x = (d + k) % Top)
<1>0. Top \in Nat \ {0}
  BY Numbers
<1>1. ASSUME (x - d) % Top = k PROVE x = (d + k) % Top
  <2> DEFINE y == x - d
             q == y \div Top
  <2>1. y \in Int /\ y % Top = k
    BY <1>1
  <2>2. q \in Int /\ y = Top * q + k
    <3> HIDE DEF y
    <3>1. QED BY <1>0, <2>1
  <2> HIDE DEF q
  <2>3. d + k = Top * (0 - q) + x /\ 0 - q \in Int
    BY <2>2, <1>0
  <2>4. (Top * (0 - q) + x) % Top = x
    BY <2>3, <1>0, ModIs
  <2>5. QED BY <2>3, <2>4
<1>2. ASSUME x = (d + k) % Top PROVE (x - d) % Top = k
  <2> DEFINE y == d + k
             q == y \div Top
  <2>1. y \in Int /\ y % Top = x
    BY <1>2
  <2>2. q \in Int /\ y = Top * q + x
    <3> HIDE DEF y
    <3>1. QED BY <1>0, <2>1
  <2> HIDE DEF q
  <2>3. x - d = Top * (0 - q) + k /\ 0 - q \in Int
    BY <2>2, <1>0
  <2>4. (Top * (0 - q) + k) % Top = k
    BY <2>3, <1>0, ModIs
  <2>5. QED BY <2>3, <2>4
<1>3. QED BY <1>1, <1>2

LEMMA OffsetsInReach ==
  ASSUME DiskTypes, InReach
  PROVE  /\ sector * SectorSize \in Nat
         /\ \A i \in 0 .. TotalBytes : Offset(i) = sector * SectorSize + i
         /\ BeyondImage <=> sector * SectorSize + TotalBytes > Len(image)
         /\ BeyondImage <=> ~((sector + sectorCount) * SectorSize <= Len(image))
<1> DEFINE s == sector * SectorSize
           n == TotalBytes
<1>1. s \in Nat /\ n \in Nat /\ s + n < LongMod /\ LongMod \in Nat \ {0}
  BY Numbers, Totals, ProductNat DEF DiskTypes, InReach
<1> HIDE DEF s, n
<1>2. \A a \in Nat : a < LongMod => a % LongMod = a
  BY <1>1
<1>3. StartByte = s
  BY <1>1, <1>2 DEF StartByte, s
<1>4. \A i \in 0 .. n : Offset(i) = s + i
  <2> SUFFICES ASSUME NEW i \in 0 .. n PROVE (s + i) % LongMod = s + i
    BY <1>3 DEF Offset
  <2>1. s + i \in Nat /\ s + i < LongMod
    BY <1>1
  <2>2. QED BY <2>1, <1>2
<1>5. Offset(n) = s + n
  BY <1>1, <1>4
<1>6. (sector + sectorCount) * SectorSize = s + n
  BY Numbers DEF DiskTypes, s, n, TotalBytes
<1>7. BeyondImage <=> s + n > Len(image)
  BY <1>5 DEF BeyondImage, n
<1>8. Len(image) \in Nat
  BY DEF DiskTypes
<1>9. QED BY <1>1, <1>4, <1>6, <1>7, <1>8 DEF s, n

\* Memory once the first k bytes have been read.
Loaded(m, k) ==
  /\ m.ram = [x \in 0 .. RamSize - 1 |->
               IF Distance(x) < k THEN image[sector * SectorSize + Distance(x) + 1] ELSE ram[x]]
  /\ m.overlay <=> romOverlay /\ Distance(Latch) >= k

LEMMA OneLoaded ==
  ASSUME DiskTypes, InReach, NEW m \in Memory, NEW k \in 0 .. TotalBytes - 1, Loaded(m, k)
  PROVE  Loaded(busWriteByte(m, dmaAddress + k, image[sector * SectorSize + k + 1]), k + 1)
<1> DEFINE v == image[sector * SectorSize + k + 1]
           y == (dmaAddress + k) % Top
           new == busWriteByte(m, dmaAddress + k, v)
<1>0. /\ Top \in Nat \ {0} /\ RamSize \in Nat /\ Latch \in Nat /\ RomBase \in Nat /\ RomSize \in Nat
      /\ RamSize <= Latch /\ Latch + 1 < RomBase /\ RomBase + RomSize <= Top
      /\ dmaAddress \in Nat /\ k \in Nat /\ k < Top
  <2>1. TotalBytes \in Nat /\ TotalBytes <= Top
    BY Totals DEF InReach
  <2>2. k \in Nat /\ k < Top
    BY <2>1, Numbers
  <2>3. QED BY <2>2, Numbers, BusAssumption DEF DiskTypes
<1>1. y \in 0 .. Top - 1
  BY <1>0
<1>2. ASSUME NEW x \in 0 .. Top - 1
      PROVE  Distance(x) \in Nat /\ (Distance(x) = k <=> x = y)
  <2>1. x - dmaAddress \in Int
    BY <1>0
  <2>2. Distance(x) \in Nat
    BY <2>1, <1>0 DEF Distance
  <2>3. Distance(x) = k <=> x = y
    BY <1>0, Distances DEF Distance
  <2>4. QED BY <2>2, <2>3
<1>3. \A x \in 0 .. RamSize - 1 : x \in 0 .. Top - 1
  BY <1>0
<1>4. Latch \in 0 .. Top - 1 /\ Latch \notin 0 .. RamSize - 1
  BY <1>0
<1>5. m.ram \in [0 .. RamSize - 1 -> Octet] /\ m.overlay \in BOOLEAN
  BY DEF Memory
<1>6. /\ new.ram = IF InRam(y) THEN [m.ram EXCEPT ![y] = v] ELSE m.ram
      /\ new.overlay = IF y = Latch THEN FALSE ELSE m.overlay
  <2>1. InRam(y) => ~InRom(y) /\ y # Latch
    BY <1>0, <1>1 DEF InRam, InRom
  <2>2. y = Latch => ~InRom(y)
    BY <1>0, <1>1 DEF InRom
  <2>3. new = IF y = Latch THEN [m EXCEPT !.overlay = FALSE]
              ELSE IF InRom(y) THEN m
              ELSE IF InRam(y) THEN [m EXCEPT !.ram[y] = v] ELSE m
    BY DEF busWriteByte
  <2> HIDE DEF y, v, new
  <2>4. QED BY <2>1, <2>2, <2>3 DEF Memory
<1> HIDE DEF y, new
<1>7. \A x \in 0 .. RamSize - 1 :
        new.ram[x] = IF Distance(x) < k + 1
                       THEN image[sector * SectorSize + Distance(x) + 1] ELSE ram[x]
  <2> SUFFICES ASSUME NEW x \in 0 .. RamSize - 1
               PROVE  new.ram[x] = IF Distance(x) < k + 1
                                     THEN image[sector * SectorSize + Distance(x) + 1] ELSE ram[x]
    OBVIOUS
  <2>1. m.ram[x] = IF Distance(x) < k THEN image[sector * SectorSize + Distance(x) + 1] ELSE ram[x]
    BY DEF Loaded
  <2>2. CASE x = y
    <3>1. new.ram[x] = v
      BY <2>2, <1>5, <1>6 DEF InRam
    <3>2. Distance(x) = k
      BY <2>2, <1>2, <1>3
    <3>3. k < k + 1
      BY <1>0
    <3>4. QED BY <3>1, <3>2, <3>3
  <2>3. CASE x # y
    <3>1. new.ram[x] = m.ram[x]
      BY <2>3, <1>5, <1>6
    <3>2. Distance(x) \in Nat /\ Distance(x) # k
      BY <2>3, <1>2, <1>3
    <3>3. Distance(x) < k + 1 <=> Distance(x) < k
      BY <3>2, <1>0
    <3>4. QED BY <3>1, <3>3, <2>1
  <2>4. QED BY <2>2, <2>3
<1>8. new.ram = [x \in 0 .. RamSize - 1 |->
                  IF Distance(x) < k + 1
                    THEN image[sector * SectorSize + Distance(x) + 1] ELSE ram[x]]
  <2>1. new.ram = [x \in 0 .. RamSize - 1 |-> new.ram[x]]
    BY <1>5, <1>6
  <2>2. QED BY <2>1, <1>7
<1>9. new.overlay <=> romOverlay /\ Distance(Latch) >= k + 1
  <2>1. Distance(Latch) \in Nat /\ (Distance(Latch) = k <=> Latch = y)
    BY <1>2, <1>4
  <2>2. m.overlay <=> romOverlay /\ Distance(Latch) >= k
    BY DEF Loaded
  <2>3. Distance(Latch) >= k + 1 <=> Distance(Latch) >= k /\ Distance(Latch) # k
    BY <2>1, <1>0
  <2>4. QED BY <2>1, <2>2, <2>3, <1>6
<1>10. QED BY <1>8, <1>9 DEF Loaded, new

LEMMA ReadingLoads ==
  ASSUME DiskTypes, InReach, ~BeyondImage, NEW stray \in Octet
  PROVE  Loaded(Reading(stray)[1 .. TotalBytes], TotalBytes)
<1> DEFINE n == TotalBytes
           h(k) == Reading(stray)[1 .. k]
           P == {k \in 0 .. n : Loaded(h(k), k)}
<1>0. n \in Nat /\ Mem \in Memory
  BY Totals DEF DiskTypes
<1>1. 0 \in P
  <2>1. h(0) = Mem
    BY ReadingLoop
  <2>2. \A x \in Int : Distance(x) \in Nat
    <3>1. \A x \in Int : x - dmaAddress \in Int
      BY DEF DiskTypes
    <3>2. \A x \in Int : x % Top \in Nat
      BY Numbers
    <3>3. QED BY <3>1, <3>2 DEF Distance
  <2>3. ram = [x \in 0 .. RamSize - 1 |-> ram[x]]
    BY <1>0 DEF Mem, Memory
  <2>4. Latch \in Int /\ \A x \in 0 .. RamSize - 1 : x \in Int
    BY BusAssumption
  <2>5. \A x \in 0 .. RamSize - 1 : ~(Distance(x) < 0)
    BY <2>2, <2>4
  <2>6. Distance(Latch) >= 0
    BY <2>2, <2>4
  <2>7. Loaded(Mem, 0)
    BY <2>3, <2>5, <2>6 DEF Loaded, Mem
  <2>8. QED BY <2>1, <2>7, <1>0
<1>2. ASSUME NEW k \in 0 .. n - 1, k \in P PROVE k + 1 \in P
  <2>1. h(k + 1) = ReadTurn(h(k), k, stray)
    BY ReadingLoop
  <2>2. h(k) \in Memory /\ Loaded(h(k), k)
    <3>1. k \in 0 .. n
      BY <1>2
    <3>2. QED BY <3>1, <1>2, ReadingTypes
  <2>3. ImageByte(k, stray) = image[sector * SectorSize + k + 1]
    <3>1. /\ Offset(k) = sector * SectorSize + k /\ sector * SectorSize \in Nat
          /\ sector * SectorSize + n <= Len(image)
      <4>1. k \in 0 .. n /\ Len(image) \in Nat
        BY <1>0 DEF DiskTypes
      <4>2. QED BY <4>1, <1>0, OffsetsInReach
    <3> DEFINE s == sector * SectorSize
    <3>2. s \in Nat /\ s + n <= Len(image) /\ Len(image) \in Nat /\ Offset(k) = s + k
      BY <3>1 DEF DiskTypes
    <3> HIDE DEF s
    <3>3. s + k < Len(image)
      BY <3>2, <1>0
    <3>4. QED BY <3>2, <3>3 DEF ImageByte, s
  <2> HIDE DEF h
  <2>4. Loaded(busWriteByte(h(k), dmaAddress + k, image[sector * SectorSize + k + 1]), k + 1)
    BY <2>2, OneLoaded
  <2>5. Loaded(h(k + 1), k + 1)
    BY <2>1, <2>3, <2>4 DEF ReadTurn
  <2>6. QED BY <2>5, <1>0
<1>3. \A k \in 0 .. n : k \in P
  <2> HIDE DEF P
  <2>1. QED BY <1>0, <1>1, <1>2, Induct
<1>4. n \in 0 .. n
  BY <1>0
<1>5. QED BY <1>3, <1>4

----------------------------------------------------------------------------
(* The loop of a write *)

Images == {im \in Seq(Octet) : Len(im) = Len(image)}
WriteTurn(im, k) ==
  IF Offset(k) < Len(im)
    THEN [im EXCEPT ![Offset(k) + 1] = busReadByte(Mem, dmaAddress + k)] ELSE im

Writing == CHOOSE g : g = [S \in SUBSET (DOMAIN Indices) |->
  IF S = {} THEN image ELSE WriteTurn(g[S \ {Greatest(S)}], Indices[Greatest(S)])]

LEMMA WriteIsWriting ==
  ASSUME storageExecWrite, attached = "writable", ~BeyondImage
  PROVE  image' = Writing[DOMAIN Indices]
BY DEF storageExecWrite, Writing, WriteTurn, FoldLeft, MapThenFoldSet, Max, Greatest

LEMMA WriteTurns ==
  ASSUME DiskTypes, NEW im \in Images, NEW k \in Nat
  PROVE  WriteTurn(im, k) \in Images
<1>1. CASE Offset(k) < Len(im)
  <2> DEFINE v == busReadByte(Mem, dmaAddress + k)
             j == Offset(k) + 1
             new == [im EXCEPT ![j] = v]
  <2>1. v \in Octet
    <3>1. Mem \in Memory /\ dmaAddress + k \in Int
      BY DEF DiskTypes
    <3>2. QED BY <3>1, BytesRead
  <2>2. im \in Seq(Octet) /\ Len(im) = Len(image)
    BY DEF Images
  <2>3. Offset(k) \in Nat
    BY Totals
  <2>0. j \in 1 .. Len(im)
    BY <1>1, <2>2, <2>3
  <2> HIDE DEF v, j
  <2>4. new \in Seq(Octet) /\ Len(new) = Len(im)
    BY <2>0, <2>1, <2>2, ExceptSeq
  <2>5. WriteTurn(im, k) = new
    BY <1>1 DEF WriteTurn, v, j
  <2> HIDE DEF new
  <2>6. QED BY <2>2, <2>4, <2>5 DEF Images
<1>2. CASE ~(Offset(k) < Len(im))
  BY <1>2 DEF WriteTurn
<1>3. QED BY <1>1, <1>2

LEMMA WritingLoop ==
  ASSUME DiskTypes
  PROVE  /\ Writing[1 .. 0] = image
         /\ \A k \in 0 .. TotalBytes - 1 :
              Writing[1 .. k + 1] = WriteTurn(Writing[1 .. k], k)
<1> DEFINE n == TotalBytes
           F == [p \in Images \X (1 .. n) |-> WriteTurn(p[1], p[2] - 1)]
           g == Writing
<1>0. n \in Nat /\ DOMAIN Indices = 1 .. n /\ \A i \in 1 .. n : Indices[i] = i - 1
  BY Totals
<1> HIDE DEF n
<1>1. F \in [Images \X (1 .. n) -> Images]
  <2>1. ASSUME NEW m \in Images, NEW k \in 1 .. n PROVE WriteTurn(m, k - 1) \in Images
    <3>1. k - 1 \in Nat
      BY <1>0
    <3>2. QED BY <3>1, WriteTurns
  <2>2. QED BY <2>1
<1>2. PICK f \in [SUBSET (1 .. n) -> Images] : IsFold(f, n, image, F)
  <2> HIDE DEF F
  <2>1. image \in Images
    BY DEF DiskTypes, Images
  <2>2. QED BY <1>0, <1>1, <2>1, FoldDefined
<1>3. ASSUME NEW S \in SUBSET (1 .. n), S # {}
      PROVE  F[<<f[S \ {Greatest(S)}], Greatest(S)>>]
               = WriteTurn(f[S \ {Greatest(S)}], Indices[Greatest(S)])
  <2>1. Greatest(S) \in 1 .. n /\ f[S \ {Greatest(S)}] \in Images
    BY <1>0, <1>3, GreatestExists
  <2>2. Indices[Greatest(S)] = Greatest(S) - 1
    BY <1>0, <2>1
  <2>3. F[<<f[S \ {Greatest(S)}], Greatest(S)>>]
          = WriteTurn(f[S \ {Greatest(S)}], Greatest(S) - 1)
    BY <2>1
  <2>4. QED BY <2>2, <2>3
<1> HIDE DEF F
<1>4. f = [S \in SUBSET (1 .. n) |->
             IF S = {} THEN image ELSE WriteTurn(f[S \ {Greatest(S)}], Indices[Greatest(S)])]
  BY <1>2, <1>3 DEF IsFold
<1>5. f = [S \in SUBSET (DOMAIN Indices) |->
             IF S = {} THEN image ELSE WriteTurn(f[S \ {Greatest(S)}], Indices[Greatest(S)])]
  BY <1>0, <1>4, Zenon
<1>6. g = [S \in SUBSET (DOMAIN Indices) |->
             IF S = {} THEN image ELSE WriteTurn(g[S \ {Greatest(S)}], Indices[Greatest(S)])]
  BY <1>5, Zenon DEF Writing
<1> HIDE DEF g
<1>7. g[1 .. 0] = image
  <2>1. 1 .. 0 = {} /\ {} \in SUBSET (DOMAIN Indices)
    OBVIOUS
  <2>2. QED BY <1>6, <2>1
<1>8. ASSUME NEW k \in 0 .. n - 1
      PROVE  g[1 .. k + 1] = WriteTurn(g[1 .. k], k)
  <2>1. /\ 1 .. k + 1 \in SUBSET (1 .. n) /\ 1 .. k + 1 # {}
        /\ Greatest(1 .. k + 1) = k + 1 /\ (1 .. k + 1) \ {k + 1} = 1 .. k
    BY <1>0, LastTurn
  <2>2. Indices[k + 1] = k
    <3>1. k + 1 \in 1 .. n /\ k + 1 - 1 = k
      BY <1>0
    <3>2. QED BY <3>1, <1>0
  <2>3. g[1 .. k + 1] = WriteTurn(g[1 .. k], Indices[k + 1])
    BY <1>0, <1>6, <2>1
  <2>4. QED BY <2>2, <2>3
<1>9. QED BY <1>7, <1>8 DEF g, n

LEMMA WritingTypes ==
  ASSUME DiskTypes
  PROVE  \A k \in 0 .. TotalBytes : Writing[1 .. k] \in Images
<1> DEFINE n == TotalBytes
           h(k) == Writing[1 .. k]
           P == {k \in 0 .. n : h(k) \in Images}
<1>0. n \in Nat /\ image \in Images
  BY Totals DEF DiskTypes, Images
<1>1. 0 \in P
  BY <1>0, WritingLoop
<1>2. ASSUME NEW k \in 0 .. n - 1, k \in P PROVE k + 1 \in P
  <2>1. h(k + 1) = WriteTurn(h(k), k) /\ h(k) \in Images
    BY <1>2, WritingLoop
  <2>2. k \in Nat /\ k + 1 \in 0 .. n
    BY <1>0
  <2> HIDE DEF h
  <2>3. QED BY <2>1, <2>2, WriteTurns
<1>3. \A k \in 0 .. n : k \in P
  <2> HIDE DEF P
  <2>1. QED BY <1>0, <1>1, <1>2, Induct
<1>4. QED BY <1>3

\* The image once the first k bytes have been written.
Moved(im, k) ==
  im = [b \in 1 .. Len(image) |->
          IF b - sector * SectorSize \in 1 .. k
            THEN busReadByte(Mem, dmaAddress + b - 1 - sector * SectorSize) ELSE image[b]]

LEMMA WritingMoves ==
  ASSUME DiskTypes, InReach, ~BeyondImage
  PROVE  Moved(Writing[1 .. TotalBytes], TotalBytes)
<1> DEFINE n == TotalBytes
           s == sector * SectorSize
           l == Len(image)
           h(k) == Writing[1 .. k]
           P == {k \in 0 .. n : Moved(h(k), k)}
<1>0. /\ n \in Nat /\ s \in Nat /\ l \in Nat /\ s + n <= l /\ image \in Seq(Octet)
      /\ dmaAddress \in Nat
  <2>1. n \in Nat /\ s \in Nat /\ l \in Nat /\ ~(s + n > l)
    BY Totals, OffsetsInReach DEF DiskTypes
  <2> HIDE DEF n, s, l
  <2>2. QED BY <2>1 DEF DiskTypes
<1>1. 0 \in P
  <2>1. h(0) = image
    BY WritingLoop
  <2>2. image = [b \in 1 .. l |-> image[b]]
    BY <1>0
  <2>3. Moved(image, 0)
    <3> HIDE DEF s, l
    <3>1. \A b \in 1 .. l : ~(b - s \in 1 .. 0)
      BY <1>0
    <3>2. QED BY <2>2, <3>1 DEF Moved, s, l
  <2>4. QED BY <2>1, <2>3, <1>0
<1>2. ASSUME NEW k \in 0 .. n - 1, k \in P PROVE k + 1 \in P
  <2> DEFINE v == busReadByte(Mem, dmaAddress + k)
             im == h(k)
  <2>1. h(k + 1) = WriteTurn(im, k)
    BY WritingLoop
  <2>2. im \in Images /\ Moved(im, k)
    <3>1. k \in 0 .. n
      BY <1>2
    <3>2. QED BY <3>1, <1>2, WritingTypes
  <2>3. Offset(k) = s + k
    <3>1. k \in 0 .. n
      BY <1>0
    <3>2. QED BY <3>1, OffsetsInReach
  <2>4. Len(im) = l
    BY <2>2 DEF Images
  <2>5. h(k + 1) = [im EXCEPT ![s + k + 1] = v]
    <3> HIDE DEF h, im, n, s, l, v
    <3>1. Offset(k) < Len(im)
      BY <2>3, <2>4, <1>0
    <3>2. QED BY <2>1, <2>3, <3>1 DEF WriteTurn, v
  <2>6. im = [b \in 1 .. l |-> IF b - s \in 1 .. k
                                 THEN busReadByte(Mem, dmaAddress + b - 1 - s) ELSE image[b]]
    BY <2>2 DEF Moved
  <2>7. \A b \in 1 .. l :
          h(k + 1)[b] = IF b - s \in 1 .. k + 1
                          THEN busReadByte(Mem, dmaAddress + b - 1 - s) ELSE image[b]
    <3> SUFFICES ASSUME NEW b \in 1 .. l
                 PROVE  h(k + 1)[b] = IF b - s \in 1 .. k + 1
                          THEN busReadByte(Mem, dmaAddress + b - 1 - s) ELSE image[b]
      OBVIOUS
    <3> HIDE DEF h, im, n, s, l, v
    <3>1. CASE b = s + k + 1
      <4>1. h(k + 1)[b] = v
        BY <3>1, <2>5, <2>6
      <4>2. b - s \in 1 .. k + 1 /\ dmaAddress + b - 1 - s = dmaAddress + k
        BY <3>1, <1>0
      <4>3. QED BY <4>1, <4>2 DEF v
    <3>2. CASE b # s + k + 1
      <4>1. h(k + 1)[b] = im[b]
        BY <3>2, <2>5, <2>6
      <4>2. b - s \in 1 .. k + 1 <=> b - s \in 1 .. k
        BY <3>2, <1>0
      <4>3. QED BY <4>1, <4>2, <2>6
    <3>3. QED BY <3>1, <3>2
  <2>8. h(k + 1) = [b \in 1 .. l |-> h(k + 1)[b]]
    <3> HIDE DEF h, im, n, s, l, v
    <3>1. QED BY <2>5, <2>6
  <2>9. Moved(h(k + 1), k + 1)
    <3>1. h(k + 1) = [b \in 1 .. l |-> IF b - s \in 1 .. k + 1
                          THEN busReadByte(Mem, dmaAddress + b - 1 - s) ELSE image[b]]
      <4> HIDE DEF h, im, n, s, l, v
      <4>1. QED BY <2>7, <2>8
    <3>2. QED BY <3>1 DEF Moved
  <2>10. k + 1 \in 0 .. n
    BY <1>0
  <2>11. QED BY <2>9, <2>10
<1>3. \A k \in 0 .. n : k \in P
  <2> HIDE DEF P
  <2>1. QED BY <1>0, <1>1, <1>2, Induct
<1>4. n \in 0 .. n
  BY <1>0
<1>5. QED BY <1>3, <1>4

----------------------------------------------------------------------------
(* What the commands promise *)

LEMMA ReadEnds ==
  ASSUME DiskTypes, storageExecRead
  PROVE  /\ Mem' \in Memory
         /\ InReach => ReadHonest
<1>1. CASE attached = "none" \/ BeyondImage
  <2>1. status' = "error" /\ UNCHANGED busVars
    BY <1>1, Zenon DEF storageExecRead
  <2>2. Mem' = Mem
    BY <2>1 DEF Mem, busVars
  <2>3. InReach => ~Holds
    BY <1>1, OffsetsInReach DEF Holds
  <2>4. QED BY <2>1, <2>2, <2>3 DEF DiskTypes, ReadHonest
<1>2. CASE attached # "none" /\ ~BeyondImage
  <2>1. PICK stray \in Octet : Becomes(Reading(stray)[DOMAIN Indices])
    BY <1>2, ReadIsReading
  <2> DEFINE m == Reading(stray)[1 .. TotalBytes]
  <2>2. ram' = m.ram /\ romOverlay' = m.overlay
    BY <2>1, Totals DEF Becomes
  <2>3. m \in Memory
    <3>1. TotalBytes \in 0 .. TotalBytes
      BY Totals
    <3>2. QED BY <3>1, ReadingTypes
  <2>4. status' = "ready"
    BY <1>2, Zenon DEF storageExecRead
  <2>5. InReach => Loaded(m, TotalBytes)
    BY <1>2, ReadingLoads
  <2>6. InReach => Holds
    BY <1>2, OffsetsInReach DEF Holds
  <2> HIDE DEF m
  <2>7. Mem' \in Memory
    BY <2>2, <2>3 DEF Mem, Memory
  <2>8. InReach => ReadMoved
    <3>1. SUFFICES ASSUME InReach PROVE ReadMoved
      OBVIOUS
    <3>2. romOverlay' \in BOOLEAN /\ romOverlay \in BOOLEAN
      BY <2>7 DEF Mem, Memory, DiskTypes
    <3>3. Loaded(m, TotalBytes)
      BY <2>5, <3>1
    <3>4. ram' = [x \in 0 .. RamSize - 1 |->
                   IF Distance(x) < TotalBytes
                     THEN image[sector * SectorSize + Distance(x) + 1] ELSE ram[x]]
      BY <2>2, <3>3 DEF Loaded
    <3>5. romOverlay' = (romOverlay /\ Distance(Latch) >= TotalBytes)
      BY <2>2, <3>2, <3>3 DEF Loaded
    <3>6. QED BY <3>4, <3>5, Zenon DEF ReadMoved
  <2>9. QED BY <2>4, <2>6, <2>7, <2>8 DEF ReadHonest
<1>3. QED BY <1>1, <1>2

LEMMA WriteEnds ==
  ASSUME DiskTypes, storageExecWrite
  PROVE  /\ image' \in Seq(Octet)
         /\ InReach => WriteHonest
<1>1. CASE attached # "writable" \/ BeyondImage
  <2>1. status' = "error" /\ image' = image
    BY <1>1, Zenon DEF storageExecWrite
  <2>2. InReach => ~(Holds /\ attached = "writable")
    BY <1>1, OffsetsInReach DEF Holds
  <2>3. QED BY <2>1, <2>2 DEF DiskTypes, WriteHonest
<1>2. CASE attached = "writable" /\ ~BeyondImage
  <2>1. image' = Writing[1 .. TotalBytes]
    BY <1>2, WriteIsWriting, Totals
  <2>2. Writing[1 .. TotalBytes] \in Images
    <3>1. TotalBytes \in 0 .. TotalBytes
      BY Totals
    <3>2. QED BY <3>1, WritingTypes
  <2>3. status' = "ready"
    BY <1>2, Zenon DEF storageExecWrite
  <2>4. InReach => Moved(Writing[1 .. TotalBytes], TotalBytes)
    BY <1>2, WritingMoves
  <2>5. InReach => Holds
    BY <1>2, OffsetsInReach DEF Holds
  <2>6. InReach => WriteMoved
    BY <2>1, <2>4, Zenon DEF Moved, WriteMoved
  <2>7. QED BY <1>2, <2>1, <2>2, <2>3, <2>5, <2>6 DEF WriteHonest, Images
<1>3. QED BY <1>1, <1>2

LEMMA HalvesNat ==
  ASSUME NEW long \in Nat, NEW w \in 0 .. Pair - 1
  PROVE  WithHigh(long, w) \in Nat /\ WithLow(long, w) \in Nat
<1>1. Pair \in Nat \ {0} /\ w \in Nat
  BY Numbers
<1>2. long % Pair \in Nat /\ long \div Pair \in Int
  BY <1>1
<1>3. long \div Pair \in Nat
  <2> DEFINE q == long \div Pair
             m == long % Pair
  <2>1. q \in Int /\ m \in Int /\ m < Pair /\ long = Pair * q + m
    BY <1>1
  <2> HIDE DEF q, m
  <2>2. ASSUME q <= -1 PROVE FALSE
    <3>1. Pair * q <= Pair * (-1)
      BY <1>1, <2>1, <2>2
    <3>2. QED BY <1>1, <2>1, <3>1
  <2>3. QED BY <2>1, <2>2 DEF q
<1>4. Pair * w \in Nat /\ Pair * (long \div Pair) \in Nat
  BY <1>1, <1>3, ProductNat
<1>5. QED BY <1>1, <1>2, <1>4 DEF WithHigh, WithLow

LEMMA DiskTypesHold == StorageSpec => []DiskTypes
<1>1. StorageInit => DiskTypes
  <2> SUFFICES ASSUME StorageInit PROVE DiskTypes
    OBVIOUS
  <2>1. Mem \in Memory
    BY Numbers DEF StorageInit, BusInit, Cleared, Mem, Memory
  <2>2. QED BY <2>1, StorageAssumption DEF StorageInit, DiskTypes
<1>2. DiskTypes /\ [StorageNext]_diskVars => DiskTypes'
  <2> SUFFICES ASSUME DiskTypes, [StorageNext]_diskVars PROVE DiskTypes'
    OBVIOUS
  <2>0. UNCHANGED busVars => Mem' = Mem
    BY DEF busVars, Mem
  <2>00. \A w \in SectorWords \cup DmaWords \cup Counts : w \in 0 .. Pair - 1 /\ w \in Nat
    BY BusAssumption, StorageAssumption
  <2>1. ASSUME NEW w \in SectorWords,
               WriteSector(WithHigh(sector, w)) \/ WriteSector(WithLow(sector, w))
        PROVE  DiskTypes'
    <3>1. sector' \in Nat
      BY <2>1, <2>00, HalvesNat DEF WriteSector, DiskTypes
    <3>2. QED BY <2>0, <2>1, <3>1 DEF WriteSector, DiskTypes
  <2>2. ASSUME NEW w \in DmaWords,
               WriteDma(WithHigh(dmaAddress, w)) \/ WriteDma(WithLow(dmaAddress, w))
        PROVE  DiskTypes'
    <3>1. dmaAddress' \in Nat
      BY <2>2, <2>00, HalvesNat DEF WriteDma, DiskTypes
    <3>2. QED BY <2>0, <2>2, <3>1 DEF WriteDma, DiskTypes
  <2>3. ASSUME NEW n \in Counts, WriteCount(n) PROVE DiskTypes'
    BY <2>0, <2>00, <2>3 DEF WriteCount, DiskTypes
  <2>4. CASE storageExecRead
    <3>1. Mem' \in Memory
      BY <2>4, ReadEnds
    <3>2. UNCHANGED <<image, registers>>
      BY <2>4, Zenon DEF storageExecRead
    <3>3. QED BY <3>1, <3>2 DEF registers, DiskTypes
  <2>5. CASE storageExecWrite
    <3>1. image' \in Seq(Octet)
      BY <2>5, WriteEnds
    <3>2. UNCHANGED <<busVars, registers>>
      BY <2>5, Zenon DEF storageExecWrite
    <3>3. QED BY <2>0, <3>1, <3>2 DEF registers, DiskTypes
  <2>6. CASE storageAttachImage \/ storageDetachImage
    <3>1. image' \in Seq(Octet)
      BY <2>6, StorageAssumption DEF storageAttachImage, storageDetachImage, DiskTypes
    <3>2. QED BY <2>0, <2>6, <3>1 DEF storageAttachImage, storageDetachImage, registers, DiskTypes
  <2>7. CASE storageReset
    <3>1. Mem' \in Memory
      BY <2>7, Numbers DEF storageReset, Becomes, Cleared, Mem, Memory
    <3>2. QED BY <2>7, <3>1 DEF storageReset, DiskTypes
  <2>8. CASE UNCHANGED diskVars
    BY <2>0, <2>8 DEF diskVars, storageVars, registers, DiskTypes
  <2>9. QED
    BY <2>1, <2>2, <2>3, <2>4, <2>5, <2>6, <2>7, <2>8 DEF StorageNext
<1>3. QED BY <1>1, <1>2, PTL DEF StorageSpec

(* A command of any number of sectors, anywhere in the image and in memory,     *)
(* says READY exactly when the image has them all and then has moved exactly    *)
(* those bytes, through ROM, latch and RAM; one that says ERROR has moved none. *)
THEOREM StorageHonest == StorageSpec => CommandHonest
<1>1. DiskTypes => (InReach => (storageExecRead => ReadHonest) /\ (storageExecWrite => WriteHonest))
  BY ReadEnds, WriteEnds
<1>2. QED BY <1>1, DiskTypesHold, PTL DEF CommandHonest

----------------------------------------------------------------------------
(* The boot program *)

KernelBytes == KernelSectors * SectorSize
LongAt(a) == Pair * (Base * ram[a] + ram[a + 1]) + (Base * ram[a + 2] + ram[a + 3])

\* What the boot program has done when a store is next.
Booting ==
  /\ romPc \in 1 .. 10
  /\ image \in Seq(Octet) /\ ram \in [0 .. RamSize - 1 -> Int]
  /\ sector \in Nat /\ dmaAddress \in Nat /\ sectorCount \in Nat
  /\ romPc <= 6 => Mem = Cleared
  /\ romPc <= 2 => sector = 0
  /\ romPc >= 3 => sector = 1
  /\ romPc <= 3 => dmaAddress = 0
  /\ romPc = 4 => dmaAddress = Pair * (KernelLoad \div Pair)
  /\ romPc >= 5 => dmaAddress = KernelLoad
  /\ romPc >= 6 => sectorCount = KernelSectors
  /\ romPc >= 7 => \A i \in 0 .. KernelBytes - 1 :
                     ram[KernelLoad + i] = IF KernelOnDisk THEN image[SectorSize + i + 1] ELSE 0
  /\ romPc >= 8 => ~romOverlay
  /\ romPc >= 9 => LongAt(0) = StackTop
  /\ romPc = 10 => LongAt(4) = KernelLoad

LEMMA Layout ==
  /\ KernelLoad \in Nat /\ KernelSectors \in Nat /\ StackTop \in Nat /\ KernelBytes \in Nat
  /\ KernelLoad >= 8 /\ KernelLoad + KernelBytes <= RamSize
  /\ RamSize \in Nat /\ Latch \in Nat /\ RomBase \in Nat /\ RomSize \in Nat /\ Top \in Nat \ {0}
  /\ RamSize <= Latch /\ Latch < RomBase /\ RamSize >= 8
  /\ \A x \in 0 .. Latch : x % Top = x
<1>1. /\ KernelLoad \in Nat /\ KernelSectors \in Nat /\ StackTop \in Nat
      /\ KernelLoad >= 8 /\ KernelLoad + KernelBytes <= RamSize
  BY BootAssumption DEF KernelBytes
<1>2. KernelBytes \in Nat
  BY <1>1, Numbers, ProductNat DEF KernelBytes
<1>3. /\ RamSize \in Nat /\ Latch \in Nat /\ RomBase \in Nat /\ RomSize \in Nat /\ Top \in Nat \ {0}
      /\ RamSize <= Latch /\ Latch + 1 < RomBase /\ RomBase + RomSize <= Top
  BY BusAssumption
<1>4. Latch < RomBase /\ Latch < Top /\ RamSize >= 8
  <2> HIDE DEF KernelBytes
  <2>1. QED BY <1>1, <1>2, <1>3
<1>6. \A x \in 0 .. Latch : x % Top = x
  BY <1>3, <1>4
<1>7. QED BY <1>1, <1>2, <1>3, <1>4, <1>6

\* A number is its high and its low part.
LEMMA Parts ==
  ASSUME NEW n \in Nat \ {0}, NEW x \in Nat
  PROVE  x = n * (x \div n) + (x % n) /\ x \div n \in Nat /\ x % n \in Nat /\ x % n < n
<1> DEFINE q == x \div n
           m == x % n
<1>1. q \in Int /\ m \in Nat /\ m < n /\ x = n * q + m
  OBVIOUS
<1> HIDE DEF q, m
<1>2. ASSUME q <= -1 PROVE FALSE
  <2>1. n * q <= n * (-1)
    BY <1>1, <1>2
  <2>2. QED BY <1>1, <2>1
<1>3. q \in Nat
  BY <1>1, <1>2
<1>4. x = n * q + m /\ q \in Nat /\ m \in Nat /\ m < n
  BY <1>1, <1>3
<1>5. QED BY <1>4, Zenon DEF q, m

\* Words in RAM.
WithBytes(mem, x, high, low) == [mem EXCEPT !.ram[x] = high, !.ram[x + 1] = low]

LEMMA WordWritten ==
  ASSUME NEW mem, NEW x \in 0 .. RamSize - 2, NEW w
  PROVE  busWriteWord(mem, x, w) = WithBytes(mem, x, w \div Base, w % Base)
<1>1. x % Top = x /\ x # Latch /\ ~InRom(x) /\ InRam(x) /\ InRam(x + 1)
  BY Layout DEF InRom, InRam
<1>2. QED BY <1>1 DEF busWriteWord, WithBytes

LEMMA WordRead ==
  ASSUME NEW mem, ~mem.overlay, NEW x \in 0 .. RamSize - 2
  PROVE  busReadWord(mem, x) = Base * mem.ram[x] + mem.ram[x + 1]
<1>1. x % Top = x /\ ~InRom(x) /\ InRam(x) /\ InRam(x + 1)
  BY Layout DEF InRom, InRam
<1>2. QED BY <1>1 DEF busReadWord

LEMMA LongRead ==
  ASSUME ~romOverlay, NEW a \in {0, 4}
  PROVE  busReadLong(Mem, a) = LongAt(a)
<1>1. a \in 0 .. RamSize - 2 /\ a + 2 \in 0 .. RamSize - 2 /\ a + 2 + 1 = a + 3
  BY Layout
<1>2. ~Mem.overlay /\ Mem.ram = ram
  BY DEF Mem
<1>3. busReadWord(Mem, a) = Base * ram[a] + ram[a + 1]
  BY <1>1, <1>2, WordRead
<1>4. busReadWord(Mem, a + 2) = Base * ram[a + 2] + ram[a + 3]
  <2> DEFINE x == a + 2
  <2>1. x \in 0 .. RamSize - 2 /\ x + 1 = a + 3
    BY <1>1
  <2> HIDE DEF x
  <2>2. busReadWord(Mem, x) = Base * ram[x] + ram[x + 1]
    BY <1>2, <2>1, WordRead
  <2>3. QED BY <2>1, <2>2 DEF x
<1>5. QED BY <1>3, <1>4 DEF busReadLong, LongAt

LEMMA LongWritten ==
  ASSUME ram \in [0 .. RamSize - 1 -> Int], NEW a \in {0, 4}, NEW v \in Nat,
         Becomes(busWriteLong(Mem, a, v))
  PROVE  /\ ram' \in [0 .. RamSize - 1 -> Int] /\ romOverlay' = romOverlay
         /\ LongAt(a)' = v
         /\ \A x \in 0 .. RamSize - 1 : x \notin a .. a + 3 => ram'[x] = ram[x]
<1> DEFINE high == v \div Pair
           low == v % Pair
           b0 == high \div Base
           b1 == high % Base
           b2 == low \div Base
           b3 == low % Base
<1>1. /\ Base \in Nat \ {0} /\ Pair \in Nat \ {0}
      /\ v = Pair * high + low /\ high \in Nat /\ low \in Nat
  BY Numbers, Parts
<1>2. /\ high = Base * b0 + b1 /\ low = Base * b2 + b3
      /\ {b0, b1, b2, b3} \subseteq Int
  <2>1. high = Base * b0 + b1 /\ b0 \in Nat /\ b1 \in Nat
    <3> HIDE DEF high
    <3>1. QED BY <1>1, Parts
  <2>2. low = Base * b2 + b3 /\ b2 \in Nat /\ b3 \in Nat
    <3> HIDE DEF low
    <3>1. QED BY <1>1, Parts
  <2> HIDE DEF b0, b1, b2, b3, high, low
  <2>3. QED BY <2>1, <2>2
<1>3. /\ a \in 0 .. RamSize - 2 /\ a + 2 \in 0 .. RamSize - 2
      /\ {a, a + 1, a + 2, a + 3} \subseteq 0 .. RamSize - 1
  BY Layout
<1>4. busWriteWord(Mem, a, high) = WithBytes(Mem, a, b0, b1)
  <2> HIDE DEF high
  <2>1. QED BY <1>3, WordWritten
<1>5. \A m : busWriteWord(m, a + 2, low) = WithBytes(m, a + 2, b2, b3)
  <2> HIDE DEF low
  <2>1. QED BY <1>3, WordWritten
<1> DEFINE r1 == [ram EXCEPT ![a] = b0, ![a + 1] = b1]
           r2 == [r1 EXCEPT ![a + 2] = b2, ![a + 3] = b3]
<1>6. ram' = r2 /\ romOverlay' = romOverlay
  <2> DEFINE m1 == busWriteWord(Mem, a, high)
             m2 == busWriteWord(m1, a + 2, low)
  <2>1. Becomes(m2)
    BY DEF busWriteLong
  <2> HIDE DEF high, low, b0, b1, b2, b3
  <2>2. m1 = [ram |-> r1, overlay |-> romOverlay]
    BY <1>4 DEF Mem, WithBytes
  <2>3. m2 = [m1 EXCEPT !.ram[a + 2] = b2, !.ram[a + 3] = b3]
    <3>1. a + 2 + 1 = a + 3
      BY <1>3
    <3>2. QED BY <1>5, <3>1 DEF WithBytes
  <2> HIDE DEF m1, m2, r1
  <2>4. m2 = [ram |-> r2, overlay |-> romOverlay]
    BY <2>2, <2>3
  <2>5. QED BY <2>1, <2>4 DEF Becomes
<1> HIDE DEF b0, b1, b2, b3, high, low
<1>7. r1 \in [0 .. RamSize - 1 -> Int] /\ r2 \in [0 .. RamSize - 1 -> Int]
  BY <1>2, <1>3
<1>8. /\ r2[a] = b0 /\ r2[a + 1] = b1 /\ r2[a + 2] = b2 /\ r2[a + 3] = b3
      /\ \A x \in 0 .. RamSize - 1 : x \notin a .. a + 3 => r2[x] = ram[x]
  <2>1. CASE a = 0
    BY <1>3, <1>7, <2>1
  <2>2. CASE a = 4
    BY <1>3, <1>7, <2>2
  <2>3. QED BY <2>1, <2>2
<1> HIDE DEF r1, r2
<1>9. LongAt(a)' = v
  <2>1. LongAt(a)' = Pair * (Base * b0 + b1) + (Base * b2 + b3)
    BY <1>6, <1>8 DEF LongAt
  <2>2. QED BY <2>1, <1>1, <1>2
<1>10. QED BY <1>6, <1>7, <1>8, <1>9

\* The halves of a number written into a register, the high one first.
LEMMA HalvesWritten ==
  ASSUME NEW x \in Nat
  PROVE  /\ WithHigh(0, x \div Pair) = Pair * (x \div Pair)
         /\ WithLow(Pair * (x \div Pair), x % Pair) = x
<1> DEFINE q == x \div Pair
           m == x % Pair
<1>1. Pair \in Nat \ {0} /\ x = Pair * q + m /\ q \in Nat /\ m \in Nat
  BY Numbers, Parts
<1>2. 0 % Pair = 0
  BY <1>1
<1> HIDE DEF q, m
<1>3. Pair * q \in Nat /\ WithHigh(0, q) = Pair * q
  BY <1>1, <1>2, ProductNat DEF WithHigh
<1>4. (Pair * q + 0) \div Pair = q
  <2>1. 0 \in 0 .. Pair - 1
    BY <1>1
  <2>2. QED BY <1>1, <2>1, ModIs
<1>5. WithLow(Pair * q, m) = x
  BY <1>1, <1>3, <1>4 DEF WithLow
<1>6. QED BY <1>3, <1>5 DEF q, m

\* The command that loads the kernel: all of it, or none with no disk for it.
LEMMA KernelRead ==
  ASSUME Booting, romPc = 6, storageExecRead
  PROVE  /\ ram' \in [0 .. RamSize - 1 -> Int]
         /\ UNCHANGED <<image, attached, sector, dmaAddress, sectorCount>>
         /\ \A i \in 0 .. KernelBytes - 1 :
              ram'[KernelLoad + i] = IF KernelOnDisk THEN image[SectorSize + i + 1] ELSE 0
<1>1. sector = 1 /\ dmaAddress = KernelLoad /\ sectorCount = KernelSectors /\ Mem = Cleared
      /\ image \in Seq(Octet)
  BY DEF Booting
<1>2. Mem \in Memory /\ ram = [x \in 0 .. RamSize - 1 |-> 0]
  BY <1>1, Numbers DEF Cleared, Mem, Memory
<1>3. DiskTypes
  BY <1>1, <1>2 DEF DiskTypes, Booting
<1>4. TotalBytes = KernelBytes
  BY <1>1 DEF TotalBytes, KernelBytes
<1>5. sector * SectorSize = SectorSize /\ SectorSize \in Nat
  BY <1>1, Numbers
<1>6. (1 + KernelSectors) * SectorSize = SectorSize + KernelBytes
  BY Numbers, Layout DEF KernelBytes
<1>7. InReach
  <2>1. SectorSize + KernelBytes < LongMod
    BY <1>6, BootAssumption
  <2>2. KernelBytes <= Top
    <3>1. KernelBytes <= RamSize
      <4> HIDE DEF KernelBytes
      <4>1. QED BY Layout
    <3>2. RamSize <= Top
      BY BusAssumption
    <3>3. QED BY <3>1, <3>2, Layout
  <2>3. QED BY <2>1, <2>2, <1>4, <1>5 DEF InReach
<1>8. Holds <=> KernelOnDisk
  <2>1. (sector + sectorCount) * SectorSize = (1 + KernelSectors) * SectorSize
    BY <1>1
  <2>2. (1 + KernelSectors) * SectorSize \in Nat /\ Len(image) \in Nat
    BY <1>1, <1>5, <1>6, Layout
  <2> DEFINE t == (1 + KernelSectors) * SectorSize
  <2>3. Holds <=> attached # "none" /\ t <= Len(image)
    BY <2>1 DEF Holds
  <2>4. KernelOnDisk <=> attached # "none" /\ Len(image) >= t
    BY DEF KernelOnDisk
  <2>5. t \in Nat
    BY <2>2
  <2> HIDE DEF t
  <2>6. QED BY <2>2, <2>3, <2>4, <2>5
<1>9. ReadHonest /\ Mem' \in Memory
  BY <1>3, <1>7, ReadEnds
<1>10. UNCHANGED <<image, attached, sector, dmaAddress, sectorCount>>
  <2>1. UNCHANGED <<image, attached, registers>>
    BY Zenon DEF storageExecRead
  <2>2. QED BY <2>1 DEF registers
<1>11. ram' \in [0 .. RamSize - 1 -> Int]
  <2>1. ram' \in [0 .. RamSize - 1 -> Octet]
    BY <1>9 DEF Mem, Memory
  <2>2. \A o \in Octet : o \in Int
    BY DEF Octet
  <2>3. QED BY <2>1, <2>2
<1>12. ASSUME NEW i \in 0 .. KernelBytes - 1
       PROVE  ram'[KernelLoad + i] = IF KernelOnDisk THEN image[SectorSize + i + 1] ELSE 0
  <2>1. i \in Nat /\ i < KernelBytes /\ KernelLoad + i \in 0 .. RamSize - 1 /\ i < Top
    <3> HIDE DEF KernelBytes
    <3>1. i \in Nat /\ i < KernelBytes /\ KernelLoad + i \in 0 .. RamSize - 1
      BY Layout
    <3>2. RamSize <= Top
      BY BusAssumption
    <3>3. QED BY <3>1, <3>2, Layout
  <2>2. CASE Holds
    <3>1. ram' = [x \in 0 .. RamSize - 1 |->
                   IF Distance(x) < TotalBytes
                     THEN image[sector * SectorSize + Distance(x) + 1] ELSE ram[x]]
      BY <2>2, <1>9, Zenon DEF ReadHonest, ReadMoved
    <3>2. Distance(KernelLoad + i) = i
      <4>1. (KernelLoad + i) - dmaAddress = i
        BY <1>1, <2>1, Layout
      <4>2. i % Top = i
        BY <2>1, Layout
      <4>3. Distance(KernelLoad + i) = ((KernelLoad + i) - dmaAddress) % Top
        BY Zenon DEF Distance
      <4>4. QED BY <4>1, <4>2, <4>3, Zenon
    <3> HIDE DEF KernelBytes
    <3>3. QED BY <2>1, <2>2, <3>1, <3>2, <1>4, <1>5, <1>8
  <2>3. CASE ~Holds
    <3>1. UNCHANGED busVars
      BY <2>3, <1>9, Zenon DEF ReadHonest
    <3>2. ram' = ram
      BY <3>1 DEF busVars
    <3>3. QED BY <2>1, <2>3, <3>2, <1>2, <1>8
  <2>4. QED BY <2>2, <2>3
<1>13. QED BY <1>10, <1>11, <1>12

LEMMA BootingHolds == BootSpec => []Booting
<1>1. BootInit => Booting
  <2> SUFFICES ASSUME BootInit PROVE Booting
    OBVIOUS
  <2>1. Mem = Cleared /\ ram \in [0 .. RamSize - 1 -> Int]
    BY DEF BootInit, StorageInit, BusInit, Cleared, Mem
  <2>2. image \in Seq(Octet)
    BY StorageAssumption DEF BootInit, StorageInit
  <2>3. QED BY <2>1, <2>2 DEF BootInit, StorageInit, Booting
<1>2. Booting /\ [BootNext]_bootVars => Booting'
  <2> SUFFICES ASSUME Booting, [BootNext]_bootVars PROVE Booting'
    OBVIOUS
  <2>0. Pair \in Nat \ {0} /\ KernelLoad \in Nat /\ KernelSectors \in Nat /\ StackTop \in Nat
    BY Numbers, Layout
  <2>00. UNCHANGED <<image, attached>> => (KernelOnDisk' <=> KernelOnDisk)
    BY DEF KernelOnDisk
  <2>01. UNCHANGED busVars => Mem' = Mem /\ ram' = ram /\ romOverlay' = romOverlay
    BY DEF busVars, Mem
  <2>1. CASE machineReset
    <3>1. Mem' = Cleared /\ ram' \in [0 .. RamSize - 1 -> Int]
      BY <2>1 DEF machineReset, storageReset, Becomes, Cleared, Mem
    <3>2. QED BY <2>1, <3>1 DEF machineReset, storageReset, Booting
  <2>2. CASE Store(1) /\ WriteSector(WithHigh(sector, 0))
    <3>1. WithHigh(0, 0) = 0
      BY <2>0 DEF WithHigh
    <3>2. romPc = 1 /\ romPc' = 2 /\ sector' = 0
      BY <2>2, <3>1 DEF Store, WriteSector, Booting
    <3>3. QED BY <2>2, <3>2, <2>01 DEF WriteSector, Booting
  <2>3. CASE Store(2) /\ WriteSector(WithLow(sector, 1))
    <3>1. WithLow(0, 1) = 1
      <4>1. 0 \div Pair = 0
        BY <2>0
      <4>2. QED BY <4>1, <2>0 DEF WithLow
    <3>2. romPc = 2 /\ romPc' = 3 /\ sector' = 1
      BY <2>3, <3>1 DEF Store, WriteSector, Booting
    <3>3. QED BY <2>3, <3>2, <2>01 DEF WriteSector, Booting
  <2>4. CASE Store(3) /\ WriteDma(WithHigh(dmaAddress, KernelLoad \div Pair))
    <3>1. romPc = 3 /\ romPc' = 4 /\ dmaAddress' = Pair * (KernelLoad \div Pair)
      <4>1. romPc = 3 /\ romPc' = 4 /\ dmaAddress = 0
        BY <2>4 DEF Store, Booting
      <4>2. dmaAddress' = WithHigh(0, KernelLoad \div Pair)
        BY <2>4, <4>1 DEF WriteDma
      <4>3. WithHigh(0, KernelLoad \div Pair) = Pair * (KernelLoad \div Pair)
        BY <2>0, HalvesWritten
      <4>4. QED BY <4>1, <4>2, <4>3, Zenon
    <3>2. Pair * (KernelLoad \div Pair) \in Nat
      <4>1. KernelLoad \div Pair \in Nat
        BY <2>0, Parts
      <4>2. QED BY <4>1, <2>0, ProductNat
    <3>3. QED BY <2>4, <3>1, <3>2, <2>01 DEF WriteDma, Booting
  <2>5. CASE Store(4) /\ WriteDma(WithLow(dmaAddress, KernelLoad % Pair))
    <3>1. romPc = 4 /\ romPc' = 5 /\ dmaAddress' = KernelLoad
      <4>1. romPc = 4 /\ romPc' = 5 /\ dmaAddress = Pair * (KernelLoad \div Pair)
        BY <2>5 DEF Store, Booting
      <4>2. dmaAddress' = WithLow(Pair * (KernelLoad \div Pair), KernelLoad % Pair)
        BY <2>5, <4>1 DEF WriteDma
      <4>3. WithLow(Pair * (KernelLoad \div Pair), KernelLoad % Pair) = KernelLoad
        BY <2>0, HalvesWritten
      <4>4. QED BY <4>1, <4>2, <4>3, Zenon
    <3>2. QED BY <2>5, <3>1, <2>0, <2>01 DEF WriteDma, Booting
  <2>6. CASE Store(5) /\ WriteCount(KernelSectors)
    <3>1. romPc = 5 /\ romPc' = 6 /\ sectorCount' = KernelSectors
      BY <2>6 DEF Store, WriteCount
    <3>2. QED BY <2>6, <3>1, <2>0, <2>01 DEF WriteCount, Booting
  <2>7. CASE Store(6) /\ storageExecRead
    <3>1. romPc = 6 /\ romPc' = 7
      BY <2>7 DEF Store
    <3>2. /\ ram' \in [0 .. RamSize - 1 -> Int]
          /\ UNCHANGED <<image, attached, sector, dmaAddress, sectorCount>>
          /\ \A i \in 0 .. KernelBytes - 1 :
               ram'[KernelLoad + i] = IF KernelOnDisk THEN image[SectorSize + i + 1] ELSE 0
      BY <2>7, <3>1, KernelRead
    <3>3. QED BY <3>1, <3>2, <2>00 DEF Booting
  <2>8. CASE Store(7) /\ Becomes(busWriteByte(Mem, Latch, 0)) /\ UNCHANGED storageVars
    <3>1. romPc = 7 /\ romPc' = 8
      BY <2>8 DEF Store
    <3>2. ram' = ram /\ ~romOverlay'
      <4>1. Latch % Top = Latch
        BY Layout
      <4>2. busWriteByte(Mem, Latch, 0) = [Mem EXCEPT !.overlay = FALSE]
        BY <4>1 DEF busWriteByte
      <4>3. QED BY <2>8, <4>2 DEF Becomes, Mem
    <3>3. UNCHANGED <<image, attached, sector, dmaAddress, sectorCount>>
      BY <2>8 DEF storageVars, registers
    <3>4. QED BY <3>1, <3>2, <3>3, <2>00 DEF Booting
  <2>9. CASE Store(8) /\ Becomes(busWriteLong(Mem, 0, StackTop)) /\ UNCHANGED storageVars
    <3>1. romPc = 8 /\ romPc' = 9
      BY <2>9 DEF Store
    <3>2. UNCHANGED <<image, attached, sector, dmaAddress, sectorCount>>
      BY <2>9 DEF storageVars, registers
    <3>3. /\ ram' \in [0 .. RamSize - 1 -> Int] /\ romOverlay' = romOverlay
          /\ LongAt(0)' = StackTop
          /\ \A x \in 0 .. RamSize - 1 : x \notin 0 .. 0 + 3 => ram'[x] = ram[x]
      BY <2>9, <2>0, LongWritten DEF Booting
    <3>4. \A i \in 0 .. KernelBytes - 1 : ram'[KernelLoad + i] = ram[KernelLoad + i]
      <4> HIDE DEF KernelBytes
      <4>1. \A i \in 0 .. KernelBytes - 1 :
              KernelLoad + i \in 0 .. RamSize - 1 /\ KernelLoad + i \notin 0 .. 0 + 3
        BY Layout
      <4>2. QED BY <4>1, <3>3
    <3>5. QED BY <3>1, <3>2, <3>3, <3>4, <2>00 DEF Booting
  <2>10. CASE Store(9) /\ Becomes(busWriteLong(Mem, 4, KernelLoad)) /\ UNCHANGED storageVars
    <3>1. romPc = 9 /\ romPc' = 10
      BY <2>10 DEF Store
    <3>2. UNCHANGED <<image, attached, sector, dmaAddress, sectorCount>>
      BY <2>10 DEF storageVars, registers
    <3>3. /\ ram' \in [0 .. RamSize - 1 -> Int] /\ romOverlay' = romOverlay
          /\ LongAt(4)' = KernelLoad
          /\ \A x \in 0 .. RamSize - 1 : x \notin 4 .. 4 + 3 => ram'[x] = ram[x]
      BY <2>10, <2>0, LongWritten DEF Booting
    <3>4. \A i \in 0 .. KernelBytes - 1 : ram'[KernelLoad + i] = ram[KernelLoad + i]
      <4> HIDE DEF KernelBytes
      <4>1. \A i \in 0 .. KernelBytes - 1 :
              KernelLoad + i \in 0 .. RamSize - 1 /\ KernelLoad + i \notin 4 .. 4 + 3
        BY Layout
      <4>2. QED BY <4>1, <3>3
    <3>5. LongAt(0)' = LongAt(0)
      <4>1. \A x \in {0, 1, 2, 3} : ram'[x] = ram[x]
        BY <3>3, Layout
      <4>2. QED BY <4>1 DEF LongAt
    <3>6. QED BY <3>1, <3>2, <3>3, <3>4, <3>5, <2>00 DEF Booting
  <2>11. CASE UNCHANGED bootVars
    <3>1. UNCHANGED <<ram, romOverlay, image, attached, sector, dmaAddress, sectorCount, romPc>>
      BY <2>11 DEF bootVars, diskVars, busVars, storageVars, registers
    <3>2. Mem' = Mem /\ LongAt(0)' = LongAt(0) /\ LongAt(4)' = LongAt(4)
      BY <3>1 DEF Mem, LongAt
    <3>3. QED BY <3>1, <3>2, <2>00 DEF Booting
  <2>12. QED
    BY <2>1, <2>2, <2>3, <2>4, <2>5, <2>6, <2>7, <2>8, <2>9, <2>10, <2>11 DEF BootNext
<1>3. QED BY <1>1, <1>2, PTL DEF BootSpec

(* Whatever the disk, the program in ROM reaches the kernel with what the disk *)
(* has from its second sector on in place, or with cleared memory there, the   *)
(* reset vectors written and nothing over them: for every kernel that lies in  *)
(* RAM above the vectors.                                                      *)
THEOREM KernelBoots == BootSpec => []BootLoads
<1>1. Booting => BootLoads
  <2> SUFFICES ASSUME Booting, AtKernel PROVE
        /\ ~romOverlay
        /\ busReadLong(Mem, 0) = StackTop /\ busReadLong(Mem, 4) = KernelLoad
        /\ \A i \in 0 .. KernelSectors * SectorSize - 1 :
             busReadByte(Mem, KernelLoad + i)
               = IF KernelOnDisk THEN image[SectorSize + i + 1] ELSE 0
    BY DEF BootLoads
  <2>1. /\ ~romOverlay /\ LongAt(0) = StackTop /\ LongAt(4) = KernelLoad
        /\ \A i \in 0 .. KernelBytes - 1 :
             ram[KernelLoad + i] = IF KernelOnDisk THEN image[SectorSize + i + 1] ELSE 0
    BY DEF Booting, AtKernel
  <2>2. busReadLong(Mem, 0) = StackTop /\ busReadLong(Mem, 4) = KernelLoad
    BY <2>1, LongRead
  <2>3. ASSUME NEW i \in 0 .. KernelBytes - 1
        PROVE  busReadByte(Mem, KernelLoad + i) = ram[KernelLoad + i]
    <3> DEFINE x == KernelLoad + i
    <3>1. x \in 0 .. RamSize - 1
      <4> HIDE DEF KernelBytes
      <4>1. QED BY Layout
    <3> HIDE DEF x
    <3>2. x % Top = x /\ ~InRom(x) /\ InRam(x)
      BY <3>1, Layout DEF InRom, InRam
    <3>3. ~Mem.overlay /\ Mem.ram = ram
      BY <2>1 DEF Mem
    <3>4. busReadByte(Mem, x) = ram[x]
      BY <3>2, <3>3 DEF busReadByte
    <3>5. QED BY <3>4 DEF x
  <2>4. QED BY <2>1, <2>2, <2>3 DEF KernelBytes
<1>2. QED BY <1>1, BootingHolds, PTL

----------------------------------------------------------------------------
(* The keys *)

KeySlot == 0 .. KeySlots - 1
\* A slot counted on from another, less than two turns of the ring ahead.
Around(i) == IF i < KeySlots THEN i ELSE i - KeySlots

KbLabel == {"idle", "read", "clear", "aim", "head", "slot", "store", "done"}

\* An exchange of D0 and A0 keeps what is said of them: once A0 has been loaded
\* one of them is the ring, and the other the byte to be stored.
Registers(h) ==
  /\ h.at \in KbLabel /\ h.d1 \in KeySlot
  /\ h = [at |-> h.at, d0 |-> h.d0, a0 |-> h.a0, d1 |-> h.d1]
  /\ IF h.at \in {"head", "slot"}
       THEN (h.a0 = SYS_KEYBUF /\ h.d0 \in Key) \/ (h.d0 = SYS_KEYBUF /\ h.a0 \in Key)
       ELSE h.d0 \in Key /\ h.a0 \in Key

KeysTypes ==
  /\ keyHead \in KeySlot /\ keyTail \in KeySlot
  /\ keyBuf \in [KeySlot -> Key]
  /\ Registers(handler)
  /\ polling \in {"no", "look", "turned", "found", "taken"} /\ ahead \in BOOLEAN
  /\ survivor \in Key /\ raced \in Nat
  /\ portData \in [Port -> Key] /\ portDir \in [Port -> Key] /\ portInput \in [Port -> Key]

\* Where the unread keys end, those that race with the keyboard's handler left out.
UnreadEnd == IF InWindow THEN handler.d1 ELSE keyHead
HoldsQueue == \A i \in 1 .. Len(queue) : keyBuf[Around(keyTail + i - 1)] = queue[i]

\* What a poll goes by: the head it has read, and the key it has found.
PollOwed ==
  /\ polling \in {"look", "turned"} /\ ahead => queue # <<>>
  /\ polling \in {"found", "taken"} => queue # <<>>

QueueInv ==
  /\ queue \in Seq(Key) /\ Len(queue) <= KeySlots
  /\ UnreadEnd = Around(keyTail + Len(queue))
  /\ InWindow => keyHead = Around(handler.d1 + raced)
  /\ raced <= KeySlots /\ (Len(queue) < KeySlots => raced <= KeySlots - Len(queue))
  /\ ~InWindow => raced = 0
  /\ HoldsQueue \/ (InWindow /\ Len(queue) = KeySlots)
  /\ At("store") \/ (At("slot") /\ raced > 0) => keyBuf[handler.d1] = survivor

RingInv == QueueInv /\ PollOwed

\* Until an exchanged register has done its damage.
RingHeld == ~astray => RingInv

\* What the keyboard's handler is about to clear is no key it has not read.
SignalInv ==
  /\ KeySignalled
  /\ At("clear") => fresh # "set"

LEMMA Turning ==
  ASSUME NEW i \in Nat, i < 2 * KeySlots
  PROVE  i % KeySlots = Around(i) /\ Around(i) \in KeySlot
<1>1. KeySlots \in Nat \ {0} /\ 0 - KeySlots <= i /\ i \in Int
  BY KeysAssumption
<1>2. i % KeySlots = IF i < 0 THEN i + KeySlots ELSE IF i < KeySlots THEN i ELSE i - KeySlots
  BY <1>1, ModWrap
<1>3. QED BY <1>1, <1>2 DEF Around, KeySlot

LEMMA NextSlotIs ==
  ASSUME NEW i \in KeySlot
  PROVE  NextSlot(i) = Around(i + 1) /\ NextSlot(i) \in KeySlot
BY KeysAssumption, Turning DEF NextSlot, KeySlot

\* The next slot after a number of keys is the one after one more.
LEMMA OneFurther ==
  ASSUME NEW i \in KeySlot, NEW n \in Nat, n <= KeySlots
  PROVE  NextSlot(Around(i + n)) = IF n < KeySlots THEN Around(i + n + 1) ELSE Around(i + 1)
<1>1. i + n \in Nat /\ i + n < 2 * KeySlots /\ KeySlots \in Nat \ {0} /\ i < KeySlots /\ i \in Nat
  BY KeysAssumption DEF KeySlot
<1>2. Around(i + n) \in KeySlot
  BY <1>1, Turning
<1>3. NextSlot(Around(i + n)) = Around(Around(i + n) + 1)
  BY <1>2, NextSlotIs
<1>4. QED BY <1>1, <1>3 DEF Around

\* A slot less than a turn of the ring before another is another one.
LEMMA Apart ==
  ASSUME NEW t \in KeySlot, NEW i \in Nat, NEW n \in Nat,
         1 <= i, i <= n, n <= KeySlots, n < i - 1 + KeySlots
  PROVE  Around(t + i - 1) \in KeySlot /\ Around(t + i - 1) # Around(t + n)
BY KeysAssumption DEF KeySlot, Around

LEMMA ExchangedTypes ==
  ASSUME Registers(handler), polling \in {"no", "look", "turned", "found", "taken"}, Exchanged
  PROVE  Registers(handler)' /\ polling' \in {"no", "look", "turned", "found", "taken"}
         /\ handler'.at = handler.at /\ handler'.d1 = handler.d1
<1>1. CASE At("idle")
  BY <1>1 DEF Exchanged, PollExchanged
<1>2. CASE ~At("idle")
  <2>1. handler' = [at |-> handler.at, d0 |-> handler.a0, a0 |-> handler.d0, d1 |-> handler.d1]
        /\ polling' = polling
    BY <1>2 DEF Exchanged
  <2>2. QED BY <2>1 DEF Registers
<1>3. QED BY <1>1, <1>2

LEMMA KeysTypesHold == KeysSpec => []KeysTypes
<1>1. KeysInit => KeysTypes
  BY KeysAssumption DEF KeysInit, KeysTypes, Registers, KbLabel, KeySlot, Idle, Key
<1>2. KeysTypes /\ [KeysNext]_keysAll => KeysTypes'
  <2> SUFFICES ASSUME KeysTypes, [KeysNext]_keysAll PROVE KeysTypes'
    OBVIOUS
  <2>0. {} \in Key /\ 0 \in KeySlot
    BY KeysAssumption DEF Key, KeySlot
  <2>00. ReadPort("A") \in Key
    <3>1. portData["A"] \in Key /\ portInput["A"] \in Key
      BY DEF KeysTypes, Port
    <3>2. QED BY <3>1 DEF ReadPort, Key
  <2>R. Registers(handler)
    BY DEF KeysTypes
  <2>a. ASSUME Registers(handler'),
               UNCHANGED <<ringVars, polling, ahead, portData, portDir, portInput>>
        PROVE  KeysTypes'
    BY <2>a DEF KeysTypes, Registers, ringVars
  <2>1. ASSUME NEW p \in Port, NEW key \in Key, HostSets(p, key) PROVE KeysTypes'
    BY <2>1 DEF HostSets, parallelSetInput, KeysTypes, Registers, ringVars, pollVars
  <2>2. CASE KbEnter \/ KbRead \/ KbAim \/ KbHead
    <3>1. Registers(handler')
      <4>1. CASE KbEnter
        BY <4>1, <2>R DEF KbEnter, At, Registers, KbLabel
      <4>2. CASE KbRead
        BY <4>2, <2>0, <2>00 DEF KbRead, Registers, KbLabel
      <4>3. CASE KbAim
        BY <4>3, <2>R DEF KbAim, At, Registers, KbLabel
      <4>4. CASE KbHead
        <5>1. keyHead \in KeySlot
          BY DEF KeysTypes
        <5>2. QED BY <4>4, <5>1, <2>R DEF KbHead, At, Registers, KbLabel
      <4>5. QED BY <2>2, <4>1, <4>2, <4>3, <4>4
    <3>2. QED
      BY <2>2, <3>1, <2>a DEF KbEnter, KbRead, KbAim, KbHead, parVars, pollVars
  <2>3. CASE KbClear
    <3>1. Registers(handler')
      BY <2>3, <2>R, <2>0 DEF KbClear, At, Registers, KbLabel, Idle
    <3>2. QED BY <2>3, <3>1, <2>a DEF KbClear, WriteParStatus, pollVars
  <2>4. CASE KbSlot
    <3>1. Registers(handler')
      BY <2>4, <2>R, <2>0 DEF KbSlot, At, Registers, KbLabel, Idle
    <3>2. keyBuf' \in [KeySlot -> Key] /\ survivor' \in Key
      <4>1. CASE handler.a0 = SYS_KEYBUF
        <5>1. handler.d0 \in Key
          BY <2>4, <4>1, <2>R, KeysAssumption DEF KbSlot, At, Registers
        <5>2. QED BY <2>4, <4>1, <5>1 DEF KbSlot, KeysTypes
      <4>2. CASE handler.a0 # SYS_KEYBUF
        BY <2>4, <4>2 DEF KbSlot, KeysTypes
      <4>3. QED BY <4>1, <4>2
    <3>3. UNCHANGED <<portData, portDir, portInput, keyHead, keyTail, raced, polling, ahead>>
      BY <2>4 DEF KbSlot, parVars, pollVars
    <3>4. QED BY <3>1, <3>2, <3>3 DEF KeysTypes, Registers
  <2>5. CASE KbStore
    <3>1. keyHead' \in KeySlot
      BY <2>5, <2>R, NextSlotIs DEF KbStore, Registers
    <3>2. Registers(handler')
      BY <2>5, <2>0 DEF KbStore, Registers, KbLabel, Idle
    <3>3. UNCHANGED <<portData, portDir, portInput, keyBuf, keyTail, polling, ahead>>
          /\ survivor' = {} /\ raced' = 0
      BY <2>5 DEF KbStore, parVars, pollVars
    <3>4. QED BY <3>1, <3>2, <3>3, <2>0 DEF KeysTypes, Registers
  <2>6. CASE KbReturn
    <3>1. Registers(handler')
      BY <2>6, <2>0 DEF KbReturn, Registers, KbLabel, Idle
    <3>2. polling' \in {"no", "look", "turned", "found", "taken"}
      BY <2>6 DEF KbReturn, PollExchanged, KeysTypes
    <3>3. UNCHANGED <<portData, portDir, portInput, ringVars, ahead>>
      BY <2>6 DEF KbReturn, parVars
    <3>4. QED BY <3>1, <3>2, <3>3 DEF KeysTypes, Registers, ringVars
  <2>7. CASE UartNothing
    <3>1. Registers(handler') /\ polling' \in {"no", "look", "turned", "found", "taken"}
      BY <2>7, ExchangedTypes DEF UartNothing, KeysTypes, Registers
    <3>2. UNCHANGED <<portData, portDir, portInput, ringVars, ahead>>
      BY <2>7 DEF UartNothing, parVars
    <3>3. QED BY <3>1, <3>2 DEF KeysTypes, Registers, ringVars
  <2>8. ASSUME NEW ch \in Key, UartKey(ch) PROVE KeysTypes'
    <3>1. keyHead' \in KeySlot
      BY <2>8, NextSlotIs DEF UartKey, KeysTypes
    <3>2. survivor' \in Key /\ raced' \in Nat /\ keyBuf' \in [KeySlot -> Key]
      BY <2>8 DEF UartKey, KeysTypes
    <3>3. Registers(handler') /\ polling' \in {"no", "look", "turned", "found", "taken"}
      BY <2>8, ExchangedTypes DEF UartKey, KeysTypes, Registers
    <3>4. UNCHANGED <<portData, portDir, portInput, keyTail, ahead>>
      BY <2>8 DEF UartKey, parVars
    <3>5. QED BY <3>1, <3>2, <3>3, <3>4 DEF KeysTypes, Registers
  <2>9. CASE PollHead \/ PollLook \/ PollRead
    <3>1. /\ UNCHANGED <<portData, portDir, portInput, ringVars, handler>>
          /\ polling' \in {"no", "look", "turned", "found", "taken"}
      BY <2>9 DEF PollHead, PollLook, PollRead, parVars
    <3>2. ahead' \in BOOLEAN
      BY <2>9 DEF PollHead, PollLook, PollRead, KeysTypes
    <3>3. QED BY <3>1, <3>2 DEF KeysTypes, Registers, ringVars
  <2>10. CASE PollStore
    <3>1. keyTail' \in KeySlot
      BY <2>10, NextSlotIs DEF PollStore, KeysTypes
    <3>2. QED BY <2>10, <3>1 DEF PollStore, KeysTypes, Registers, parVars
  <2>11. CASE UNCHANGED keysAll
    BY <2>11 DEF keysAll, keyVars, ringVars, pollVars, parVars, KeysTypes, Registers
  <2>12. QED
    BY <2>0, <2>1, <2>2, <2>3, <2>4, <2>5, <2>6, <2>7, <2>8, <2>9, <2>10, <2>11
       DEF KeysNext, KbStep, PollStep, Port
<1>3. QED BY <1>1, <1>2, PTL DEF KeysSpec

LEMMA SignalHolds == KeysSpec => []SignalInv
<1>1. KeysInit => SignalInv
  BY DEF KeysInit, SignalInv, KeySignalled, At, Idle
<1>2. KeysTypes /\ SignalInv /\ [KeysNext]_keysAll => SignalInv'
  <2> SUFFICES ASSUME KeysTypes, SignalInv, [KeysNext]_keysAll PROVE SignalInv'
    OBVIOUS
  <2> USE DEF SignalInv, KeySignalled, At
  <2>R. handler = [at |-> handler.at, d0 |-> handler.d0, a0 |-> handler.a0, d1 |-> handler.d1]
    BY DEF KeysTypes, Registers
  <2>1. ASSUME NEW p \in Port, NEW key \in Key, HostSets(p, key) PROVE SignalInv'
    BY <2>1 DEF HostSets, parallelSetInput
  <2>2. ASSUME UNCHANGED <<fresh, parStatus>>, handler'.at = "clear" => handler.at = "clear"
        PROVE  SignalInv'
    BY <2>2
  <2>3. CASE KbRead
    BY <2>3 DEF KbRead
  <2>4. CASE KbClear
    BY <2>4, <2>R DEF KbClear, Idle
  <2>5. CASE KbEnter \/ KbAim \/ KbHead \/ KbSlot \/ KbStore \/ KbReturn
    <3>1. handler'.at # "clear"
      <4>1. CASE KbEnter \/ KbAim \/ KbHead
        BY <4>1, <2>R DEF KbEnter, KbAim, KbHead
      <4>2. CASE KbSlot
        BY <4>2 DEF KbSlot, Idle
      <4>3. CASE KbStore \/ KbReturn
        BY <4>3 DEF KbStore, KbReturn, Idle
      <4>4. QED BY <2>5, <4>1, <4>2, <4>3
    <3>2. UNCHANGED <<fresh, parStatus>>
      BY <2>5 DEF KbEnter, KbAim, KbHead, KbSlot, KbStore, KbReturn, parVars
    <3>3. QED BY <3>1, <3>2, <2>2
  <2>6. ASSUME Exchanged, UNCHANGED <<fresh, parStatus>> PROVE SignalInv'
    <3>1. handler'.at = handler.at
      BY <2>6, ExchangedTypes DEF KeysTypes
    <3>2. QED BY <2>6, <3>1, <2>2
  <2>7. CASE UartNothing
    BY <2>7, <2>6 DEF UartNothing, parVars
  <2>8. ASSUME NEW ch \in Key, UartKey(ch) PROVE SignalInv'
    BY <2>8, <2>6 DEF UartKey, parVars
  <2>9. CASE PollStep
    <3>1. UNCHANGED <<fresh, parStatus, handler>>
      BY <2>9 DEF PollStep, PollHead, PollLook, PollRead, PollStore, parVars
    <3>2. QED BY <3>1, <2>2
  <2>10. CASE UNCHANGED keysAll
    BY <2>10, <2>2 DEF keysAll, keyVars, parVars
  <2>11. {} \in Key /\ "A" \in Port /\ "B" \in Port
    BY DEF Key, Port
  <2>12. QED
    BY <2>1, <2>3, <2>4, <2>5, <2>7, <2>8, <2>9, <2>10, <2>11 DEF KeysNext, KbStep
<1>3. QED BY <1>1, <1>2, KeysTypesHold, PTL DEF KeysSpec

\* What becomes of the queue when a key comes in at the end of it.
\* An exchange of the poll's D0 and A0, and keys that come in, leave it with what it goes by.
LEMMA PollKept ==
  ASSUME PollOwed, PollExchanged \/ polling' = polling, UNCHANGED ahead,
         queue # <<>> => queue' # <<>>
  PROVE  PollOwed'
<1>1. /\ polling' \in {"found", "taken"} => polling \in {"found", "taken"}
      /\ polling' \in {"look", "turned"} => polling \in {"look", "turned"}
  BY DEF PollExchanged
<1>2. QED BY <1>1 DEF PollOwed

LEMMA OwedSome ==
  ASSUME NEW q \in Seq(Key), NEW k \in Key
  PROVE  Owed(q, k) # <<>>
<1>1. Len(Append(q, k)) = Len(q) + 1 /\ Len(q) \in Nat /\ Len(<<k>>) = 1
  OBVIOUS
<1>2. Append(q, k) # <<>> /\ <<k>> # <<>>
  BY <1>1
<1>3. QED BY <1>2 DEF Owed

LEMMA KeyComesIn ==
  ASSUME KeysTypes, QueueInv, NEW k \in Key,
         ~InWindow', keyTail' = keyTail, raced' = 0,
         queue' = Owed(queue, k),
         keyHead' = NextSlot(UnreadEnd),
         keyBuf' \in [KeySlot -> Key], keyBuf'[UnreadEnd] = k,
         Len(queue) < KeySlots =>
           \A i \in 1 .. Len(queue) : keyBuf'[Around(keyTail + i - 1)] = queue[i]
  PROVE  QueueInv'
<1> DEFINE L == Len(queue)
<1>0. L \in Nat /\ KeySlots \in Nat \ {0} /\ queue \in Seq(Key) /\ keyTail \in KeySlot
      /\ L <= KeySlots /\ UnreadEnd = Around(keyTail + L)
  BY KeysAssumption DEF QueueInv, KeysTypes
<1>1. keyHead' = IF L < KeySlots THEN Around(keyTail + L + 1) ELSE Around(keyTail + 1)
  BY <1>0, OneFurther
<1>2. UnreadEnd' = keyHead' /\ ~At("store")' /\ ~At("slot")'
  BY DEF UnreadEnd, InWindow, At
<1>3. CASE L < KeySlots
  <2>1. queue' = Append(queue, k) /\ Len(queue') = L + 1 /\ queue' \in Seq(Key)
    BY <1>3, <1>0 DEF Owed
  <2>2. HoldsQueue'
    <3> SUFFICES ASSUME NEW i \in 1 .. L + 1
                 PROVE  keyBuf'[Around(keyTail + i - 1)] = queue'[i]
      BY <2>1 DEF HoldsQueue
    <3>1. CASE i <= L
      <4>1. queue'[i] = queue[i]
        BY <2>1, <3>1, <1>0
      <4>2. QED BY <4>1, <3>1, <1>0, <1>3
    <3>2. CASE i = L + 1
      <4>1. queue'[i] = k
        BY <2>1, <3>2, <1>0
      <4>2. keyTail + i - 1 = keyTail + L
        BY <3>2, <1>0 DEF KeySlot
      <4>3. QED BY <4>1, <4>2, <1>0
    <3>3. QED BY <3>1, <3>2, <1>0
  <2>3. UnreadEnd' = Around(keyTail' + Len(queue'))
    BY <1>1, <1>2, <1>3, <2>1, <1>0 DEF KeySlot
  <2>4. queue' # <<>>
    BY <2>1, <1>0
  <2>5. QED BY <2>1, <2>2, <2>3, <2>4, <1>2, <1>3, <1>0 DEF QueueInv
<1>4. CASE L = KeySlots
  <2>1. queue' = <<k>> /\ Len(queue') = 1 /\ queue' \in Seq(Key) /\ queue' # <<>>
    BY <1>4 DEF Owed
  <2>2. Around(keyTail) = keyTail /\ Around(keyTail + KeySlots) = keyTail
    BY <1>0 DEF KeySlot, Around
  <2>3. HoldsQueue'
    <3> SUFFICES ASSUME NEW i \in 1 .. 1
                 PROVE  keyBuf'[Around(keyTail + i - 1)] = queue'[i]
      BY <2>1 DEF HoldsQueue
    <3>1. i = 1 /\ keyTail + i - 1 = keyTail /\ queue'[i] = k
      BY <2>1, <1>0 DEF KeySlot
    <3>2. QED BY <3>1, <2>2, <1>0, <1>4
  <2>4. UnreadEnd' = Around(keyTail' + Len(queue'))
    BY <1>1, <1>2, <1>4, <2>1
  <2>5. QED BY <2>1, <2>3, <2>4, <1>2, <1>4, <1>0 DEF QueueInv
<1>5. QED BY <1>3, <1>4, <1>0

LEMMA RingHolds == KeysSpec => []RingHeld
<1>1. KeysInit => RingHeld
  BY KeysAssumption
     DEF KeysInit, RingHeld, RingInv, QueueInv, PollOwed, HoldsQueue, UnreadEnd, InWindow, At, Idle, Around
<1>2. KeysTypes /\ KeysTypes' /\ RingHeld /\ [KeysNext]_keysAll => RingHeld'
  <2> SUFFICES ASSUME KeysTypes, KeysTypes', RingHeld, [KeysNext]_keysAll, ~astray' PROVE RingInv'
    BY DEF RingHeld
  <2>A. ~astray
    BY DEF KeysNext, HostSets, keysAll, keyVars
  <2>I. RingInv
    BY <2>A DEF RingHeld
  <2>Q. QueueInv /\ PollOwed
    BY <2>I DEF RingInv
  <2> DEFINE L == Len(queue)
  <2>0. /\ KeySlots \in Nat \ {0} /\ L \in Nat /\ L <= KeySlots /\ queue \in Seq(Key)
        /\ keyTail \in KeySlot /\ keyHead \in KeySlot /\ handler.d1 \in KeySlot
        /\ raced \in Nat
    BY <2>Q, KeysAssumption DEF KeysTypes, QueueInv, Registers
  <2>R. handler = [at |-> handler.at, d0 |-> handler.d0, a0 |-> handler.a0, d1 |-> handler.d1]
    BY DEF KeysTypes, Registers
  <2>1. ASSUME UNCHANGED ringVars, ~InWindow, ~InWindow' PROVE QueueInv'
    BY <2>1, <2>Q DEF QueueInv, UnreadEnd, HoldsQueue, InWindow, At, ringVars
  <2>2. ASSUME UNCHANGED ringVars, handler'.at = handler.at, handler'.d1 = handler.d1
        PROVE  QueueInv'
    BY <2>2, <2>Q DEF QueueInv, UnreadEnd, HoldsQueue, InWindow, At, ringVars
  <2>p. ASSUME UNCHANGED pollVars, queue # <<>> => queue' # <<>>
        PROVE  PollOwed'
    BY <2>p, <2>Q, PollKept DEF pollVars
  <2>3. ASSUME NEW p \in Port, NEW key \in Key, HostSets(p, key) PROVE RingInv'
    <3>1. UNCHANGED ringVars /\ UNCHANGED pollVars /\ UNCHANGED handler
      BY <2>3, Zenon DEF HostSets
    <3>2. QueueInv' /\ PollOwed'
      BY <3>1, <2>2, <2>p DEF ringVars
    <3>3. QED BY <3>2 DEF RingInv
  <2>4. CASE KbEnter \/ KbRead \/ KbClear \/ KbAim
    <3>1. ~InWindow /\ ~InWindow'
      <4>1. CASE KbEnter \/ KbAim
        BY <4>1, <2>R DEF KbEnter, KbAim, At, InWindow
      <4>2. CASE KbRead
        BY <4>2, <2>R DEF KbRead, At, InWindow
      <4>3. CASE KbClear
        BY <4>3, <2>R DEF KbClear, At, InWindow, Idle
      <4>4. QED BY <2>4, <4>1, <4>2, <4>3
    <3>2. UNCHANGED ringVars /\ UNCHANGED pollVars
      BY <2>4 DEF KbEnter, KbRead, KbClear, KbAim
    <3>3. QueueInv' /\ PollOwed'
      BY <3>1, <3>2, <2>1, <2>p DEF ringVars
    <3>4. QED BY <3>3 DEF RingInv
  <2>5. CASE KbHead
    <3>1. handler.at = "head" /\ handler'.at = "slot" /\ handler'.d1 = keyHead
      BY <2>5, <2>R DEF KbHead, At
    <3>2. UNCHANGED ringVars /\ UNCHANGED pollVars
      BY <2>5 DEF KbHead
    <3>3. /\ ~InWindow /\ InWindow' /\ UnreadEnd' = UnreadEnd
          /\ At("slot")' /\ ~At("store")' /\ raced = 0 /\ ~At("store") /\ ~At("slot")
      BY <3>1, <3>2, <2>Q DEF At, InWindow, QueueInv, UnreadEnd, ringVars
    <3>4. keyHead = Around(keyHead + 0) /\ keyHead + raced = keyHead
      BY <3>3, <2>0 DEF Around, KeySlot
    <3>5. QueueInv'
      BY <3>1, <3>2, <3>3, <3>4, <2>0, <2>Q DEF QueueInv, HoldsQueue, ringVars
    <3>6. QED BY <3>2, <3>5, <2>p DEF RingInv, ringVars
  <2>6. CASE KbSlot
    <3>0. /\ handler.a0 = SYS_KEYBUF /\ handler.at = "slot"
          /\ handler'.at = "store" /\ handler'.d1 = handler.d1
      BY <2>6, <2>R DEF KbSlot, At, Idle
    <3>00. handler.d0 \in Key
      BY <3>0, KeysAssumption DEF KeysTypes, Registers
    <3>1. /\ InWindow /\ InWindow' /\ UnreadEnd' = UnreadEnd
          /\ ~At("slot")' /\ At("store")' /\ UnreadEnd = handler.d1
      BY <3>0 DEF At, InWindow, UnreadEnd
    <3>2. /\ UNCHANGED <<keyHead, keyTail, queue, raced>> /\ UNCHANGED pollVars
          /\ keyBuf' = [keyBuf EXCEPT ![handler.d1] = handler.d0] /\ survivor' = handler.d0
      BY <2>6, <3>0 DEF KbSlot
    <3>3. keyBuf'[handler.d1] = survivor'
      BY <3>2, <2>0 DEF KeysTypes
    <3>4. L < KeySlots => HoldsQueue'
      <4> SUFFICES ASSUME L < KeySlots, NEW i \in 1 .. L
                   PROVE  keyBuf'[Around(keyTail + i - 1)] = queue[i]
        BY <3>2 DEF HoldsQueue
      <4>1. i \in Nat /\ 1 <= i /\ i <= L /\ L < i - 1 + KeySlots
        BY <2>0
      <4>2. Around(keyTail + i - 1) \in KeySlot /\ Around(keyTail + i - 1) # Around(keyTail + L)
        BY <4>1, <2>0, Apart
      <4>3. keyBuf[Around(keyTail + i - 1)] = queue[i]
        BY <2>Q DEF QueueInv, HoldsQueue
      <4>4. QED BY <4>2, <4>3, <3>1, <3>2, <2>Q DEF QueueInv, KeysTypes
    <3>5. QueueInv'
      BY <3>0, <3>1, <3>2, <3>3, <3>4, <2>0, <2>Q DEF QueueInv
    <3>6. QED BY <3>2, <3>5, <2>p DEF RingInv
  <2>7. CASE KbStore
    <3>0. handler.at = "store" /\ handler'.at = "done"
      BY <2>7, <2>R DEF KbStore, At, Idle
    <3>1. InWindow /\ ~InWindow' /\ UnreadEnd = handler.d1
      BY <3>0 DEF At, InWindow, UnreadEnd
    <3>2. /\ keyHead' = NextSlot(handler.d1) /\ queue' = Owed(queue, survivor) /\ raced' = 0
          /\ UNCHANGED <<keyBuf, keyTail>> /\ UNCHANGED pollVars
      BY <2>7 DEF KbStore
    <3>3. keyBuf[handler.d1] = survivor /\ survivor \in Key /\ keyBuf \in [KeySlot -> Key]
      BY <3>0, <2>Q DEF QueueInv, KeysTypes, At
    <3>4. L < KeySlots => \A i \in 1 .. L : keyBuf'[Around(keyTail + i - 1)] = queue[i]
      BY <3>2, <2>0, <2>Q DEF QueueInv, HoldsQueue
    <3>5. QueueInv'
      BY <3>1, <3>2, <3>3, <3>4, <2>Q, KeyComesIn
    <3>6. queue' # <<>>
      BY <3>2, <3>3, <2>0, OwedSome
    <3>7. QED BY <3>2, <3>5, <3>6, <2>p DEF RingInv
  <2>70. CASE KbReturn
    <3>0. handler.at = "done" /\ handler'.at = "idle" /\ UNCHANGED ringVars /\ UNCHANGED ahead
          /\ PollExchanged
      BY <2>70 DEF KbReturn, At, Idle
    <3>1. ~InWindow /\ ~InWindow'
      BY <3>0 DEF InWindow
    <3>2. QueueInv'
      BY <3>0, <3>1, <2>1
    <3>3. PollOwed'
      BY <3>0, <2>Q, PollKept DEF ringVars
    <3>4. QED BY <3>2, <3>3 DEF RingInv
  <2>71. ASSUME Exchanged
         PROVE  /\ handler'.at = handler.at /\ handler'.d1 = handler.d1
                /\ PollExchanged \/ polling' = polling
    <3>1. handler'.at = handler.at /\ handler'.d1 = handler.d1
      BY <2>71, ExchangedTypes DEF KeysTypes
    <3>2. PollExchanged \/ polling' = polling
      BY <2>71 DEF Exchanged
    <3>3. QED BY <3>1, <3>2
  <2>72. CASE UartNothing
    <3>1. Exchanged /\ UNCHANGED ringVars /\ UNCHANGED ahead
      BY <2>72 DEF UartNothing
    <3>2. QueueInv'
      BY <3>1, <2>71, <2>2
    <3>3. PollOwed'
      BY <3>1, <2>71, <2>Q, PollKept DEF ringVars
    <3>4. QED BY <3>2, <3>3 DEF RingInv
  <2>8. ASSUME NEW ch \in Key, UartKey(ch) PROVE RingInv'
    <3>0. /\ keyBuf' = [keyBuf EXCEPT ![keyHead] = ch] /\ keyHead' = NextSlot(keyHead)
          /\ keyBuf' \in [KeySlot -> Key]
          /\ UNCHANGED <<keyTail, ahead>> /\ Exchanged
          /\ keyBuf'[keyHead] = ch
      BY <2>8, <2>0 DEF UartKey, KeysTypes
    <3>00. /\ handler'.at = handler.at /\ handler'.d1 = handler.d1
           /\ (InWindow' <=> InWindow) /\ (At("slot")' <=> At("slot")) /\ (At("store")' <=> At("store"))
      BY <3>0, <2>71 DEF InWindow, At
    <3>000. queue # <<>> => queue' # <<>>
      <4>1. queue' = queue \/ queue' = Owed(queue, ch)
        BY <2>8 DEF UartKey
      <4>2. QED BY <4>1, <2>0, OwedSome
    <3>p. PollOwed'
      BY <3>0, <3>000, <2>71, <2>Q, PollKept
    <3>1. CASE ~InWindow
      <4>1. UnreadEnd = keyHead /\ raced' = 0 /\ queue' = Owed(queue, ch)
        BY <2>8, <3>1, <2>Q DEF UartKey, UnreadEnd, QueueInv
      <4>2. L < KeySlots => \A i \in 1 .. L : keyBuf'[Around(keyTail + i - 1)] = queue[i]
        <5> SUFFICES ASSUME L < KeySlots, NEW i \in 1 .. L
                     PROVE  keyBuf'[Around(keyTail + i - 1)] = queue[i]
          OBVIOUS
        <5>1. i \in Nat /\ 1 <= i /\ i <= L /\ L < i - 1 + KeySlots
          BY <2>0
        <5>2. Around(keyTail + i - 1) \in KeySlot /\ Around(keyTail + i - 1) # Around(keyTail + L)
          BY <5>1, <2>0, Apart
        <5>3. keyBuf[Around(keyTail + i - 1)] = queue[i]
          BY <3>1, <2>Q DEF QueueInv, HoldsQueue
        <5>4. QED BY <5>2, <5>3, <4>1, <3>0, <2>Q DEF QueueInv, KeysTypes
      <4>3. QueueInv'
        BY <3>0, <3>00, <3>1, <4>1, <4>2, <2>Q, KeyComesIn
      <4>4. QED BY <4>3, <3>p DEF RingInv
    <3>2. CASE InWindow
      <4>1. /\ raced < Room /\ raced' = raced + 1 /\ queue' = queue
            /\ survivor' = IF raced = 0 THEN ch ELSE survivor
            /\ UnreadEnd = handler.d1 /\ UnreadEnd' = handler.d1
            /\ keyHead = Around(handler.d1 + raced)
        BY <2>8, <3>0, <3>00, <3>2, <2>Q DEF UartKey, UnreadEnd, QueueInv
      <4>2. Room = IF L < KeySlots THEN KeySlots - L ELSE KeySlots
        <5>1. L < 2 * KeySlots
          BY <2>0
        <5>2. L % KeySlots = Around(L)
          BY <5>1, <2>0, Turning
        <5>3. QED BY <5>2, <2>0 DEF Room, Around
      <4>3. /\ raced' <= KeySlots /\ (L < KeySlots => raced' <= KeySlots - L) /\ raced < KeySlots
        BY <4>1, <4>2, <2>0
      <4>4. keyHead' = Around(handler.d1 + raced')
        <5>1. NextSlot(keyHead) = Around(handler.d1 + raced + 1)
          BY <4>1, <4>3, <2>0, OneFurther
        <5>2. handler.d1 + raced + 1 = handler.d1 + raced'
          BY <4>1, <2>0 DEF KeySlot
        <5>3. QED BY <5>1, <5>2, <3>0
      <4>5. raced > 0 => keyHead # handler.d1
        BY <4>1, <4>3, <2>0 DEF Around, KeySlot
      <4>6. keyBuf'[handler.d1] = survivor'
        <5>1. CASE raced = 0
          <6>1. keyHead = handler.d1
            BY <5>1, <4>1, <2>0 DEF Around, KeySlot
          <6>2. QED BY <6>1, <5>1, <4>1, <3>0
        <5>2. CASE raced > 0
          <6>1. keyBuf[handler.d1] = survivor
            BY <5>2, <3>2, <2>Q DEF QueueInv, InWindow, At
          <6>2. QED BY <6>1, <5>2, <4>1, <4>5, <3>0, <2>0 DEF KeysTypes
        <5>3. QED BY <5>1, <5>2, <2>0
      <4>7. L < KeySlots => HoldsQueue'
        <5> SUFFICES ASSUME L < KeySlots, NEW i \in 1 .. L
                     PROVE  keyBuf'[Around(keyTail + i - 1)] = queue[i]
          BY <3>0, <4>1 DEF HoldsQueue
        <5>1. keyHead # Around(keyTail + i - 1)
          <6>1. keyHead = Around(Around(keyTail + L) + raced)
            BY <4>1, <2>Q DEF QueueInv
          <6>2. raced < KeySlots - L
            BY <4>1, <4>2
          <6>3. Around(Around(keyTail + L) + raced) = Around(keyTail + (L + raced))
            BY <6>2, <2>0 DEF Around, KeySlot
          <6>4. /\ i \in Nat /\ 1 <= i /\ i <= L + raced /\ L + raced \in Nat
                /\ L + raced <= KeySlots /\ L + raced < i - 1 + KeySlots
            BY <6>2, <2>0
          <6>5. Around(keyTail + i - 1) # Around(keyTail + (L + raced))
            BY <6>4, <2>0, Apart
          <6>6. QED BY <6>1, <6>3, <6>5
        <5>2. Around(keyTail + i - 1) \in KeySlot
          <6>1. i \in Nat /\ 1 <= i /\ i <= L /\ L < i - 1 + KeySlots
            BY <2>0
          <6>2. QED BY <6>1, <2>0, Apart
        <5>3. keyBuf[Around(keyTail + i - 1)] = queue[i]
          BY <2>Q DEF QueueInv, HoldsQueue
        <5>4. QED BY <5>1, <5>2, <5>3, <3>0 DEF KeysTypes
      <4>8. QueueInv'
        BY <3>0, <3>00, <3>2, <4>1, <4>3, <4>4, <4>6, <4>7, <2>0, <2>Q DEF QueueInv
      <4>9. QED BY <4>8, <3>p DEF RingInv
    <3>3. QED BY <3>1, <3>2
  <2>9. CASE PollHead \/ PollLook \/ PollRead
    <3>1. UNCHANGED ringVars /\ UNCHANGED handler
      BY <2>9 DEF PollHead, PollLook, PollRead
    <3>2. QueueInv'
      BY <3>1, <2>2
    <3>3. ASSUME keyHead # keyTail, At("idle") PROVE queue # <<>>
      <4>1. SUFFICES ASSUME queue = <<>> PROVE FALSE
        OBVIOUS
      <4>2. keyHead = Around(keyTail + 0)
        BY <3>3, <4>1, <2>Q DEF QueueInv, UnreadEnd, InWindow, At
      <4>3. QED BY <3>3, <4>2, <2>0 DEF Around, KeySlot
    <3>4. PollOwed'
      <4>1. CASE PollHead
        BY <4>1, <3>1, <3>3 DEF PollHead, PollOwed, Polling, ringVars
      <4>2. CASE PollLook
        BY <4>2, <3>1, <2>Q DEF PollLook, PollOwed, Polling, ringVars
      <4>3. CASE PollRead
        BY <4>3, <3>1, <2>Q DEF PollRead, PollOwed, Polling, ringVars
      <4>4. QED BY <2>9, <4>1, <4>2, <4>3
    <3>5. QED BY <3>2, <3>4 DEF RingInv
  <2>11. CASE PollStore
    <3>1. /\ UNCHANGED <<keyBuf, keyHead, handler, survivor, raced>> /\ polling' = "no"
          /\ keyTail' = Around(keyTail + 1) /\ queue' = Tail(queue) /\ queue # <<>>
          /\ ~InWindow /\ ~InWindow' /\ ~At("store")' /\ ~At("slot")'
      BY <2>11, <2>0, <2>Q, NextSlotIs DEF PollStore, Polling, At, InWindow, PollOwed
    <3>2. /\ L > 0 /\ queue' \in Seq(Key) /\ Len(queue') = L - 1
          /\ \A i \in 1 .. L - 1 : queue'[i] = queue[i + 1]
      BY <3>1, <2>0
    <3>3. keyHead = Around(keyTail + L)
      BY <3>1, <2>Q DEF QueueInv, UnreadEnd
    <3>4. UnreadEnd' = Around(keyTail' + Len(queue'))
      BY <3>1, <3>2, <3>3, <2>0 DEF UnreadEnd, Around, KeySlot
    <3>5. HoldsQueue'
      <4> SUFFICES ASSUME NEW i \in 1 .. L - 1
                   PROVE  keyBuf[Around(keyTail' + i - 1)] = queue[i + 1]
        BY <3>1, <3>2 DEF HoldsQueue
      <4>1. Around(keyTail' + i - 1) = Around(keyTail + (i + 1) - 1)
        BY <3>1, <2>0 DEF Around, KeySlot
      <4>2. i + 1 \in 1 .. L
        BY <2>0
      <4>3. QED BY <4>1, <4>2, <3>1, <2>Q DEF QueueInv, HoldsQueue
    <3>6. raced' = 0 /\ Len(queue') <= KeySlots
      <4>1. raced = 0
        BY <3>1, <2>Q DEF QueueInv
      <4> HIDE DEF L
      <4>2. QED BY <4>1, <3>1, <3>2, <2>0
    <3>7. QueueInv'
      <4> HIDE DEF L
      <4>1. QED BY <3>1, <3>2, <3>4, <3>5, <3>6, <2>0 DEF QueueInv
    <3>8. PollOwed'
      BY <3>1 DEF PollOwed
    <3>9. QED BY <3>7, <3>8 DEF RingInv
  <2>12. CASE UNCHANGED keysAll
    <3>1. UNCHANGED ringVars /\ UNCHANGED pollVars /\ UNCHANGED handler
      BY <2>12 DEF keysAll, keyVars
    <3>2. QED BY <3>1, <2>2, <2>p DEF RingInv, ringVars
  <2>13. {} \in Key /\ "A" \in Port /\ "B" \in Port
    BY DEF Key, Port
  <2>14. QED
    BY <2>3, <2>4, <2>5, <2>6, <2>7, <2>70, <2>72, <2>8, <2>9, <2>11, <2>12, <2>13
       DEF KeysNext, KbStep, PollStep
<1>3. QED BY <1>1, <1>2, KeysTypesHold, PTL DEF KeysSpec

(* While the keyboard's handler does not hold the head, the buffer holds the    *)
(* bytes the handlers have brought, once each and in their order, but for keys  *)
(* of the uart that raced it for one slot; a full ring reads as empty, a poll   *)
(* goes to the oldest key, and a key that is not read keeps its interrupt up:   *)
(* for a ring of any size and every interleaving of arrivals, exchanges of D0   *)
(* and A0, the handlers' steps and polls, until an exchange has sent a byte to  *)
(* another place or a poll into an empty ring.                                  *)
THEOREM KeysAccountedFor == KeysSpec => []KeysAccounted
<1>1. KeysTypes /\ RingHeld => KeysStored
  <2> SUFFICES ASSUME KeysTypes, RingHeld, ~astray, ~InWindow
               PROVE  /\ Unread = IF Len(queue) = KeySlots THEN <<>> ELSE queue
                      /\ polling \in {"found", "taken"} => queue # <<>>
                      /\ polling = "found" => Polled = Head(queue)
    BY DEF KeysStored
  <2>Q. QueueInv /\ PollOwed
    BY DEF RingHeld, RingInv
  <2> DEFINE L == Len(queue)
             R == IF L = KeySlots THEN <<>> ELSE queue
  <2>0. /\ KeySlots \in Nat \ {0} /\ L \in Nat /\ L <= KeySlots /\ queue \in Seq(Key)
        /\ keyTail \in KeySlot /\ keyHead \in KeySlot /\ ~InWindow
        /\ keyHead = Around(keyTail + L) /\ HoldsQueue
    BY <2>Q, KeysAssumption DEF KeysTypes, QueueInv, UnreadEnd
  <2>1. (keyHead - keyTail) % KeySlots = Len(R)
    <3>1. keyHead - keyTail \in Int /\ 0 - KeySlots <= keyHead - keyTail
          /\ keyHead - keyTail < KeySlots
      BY <2>0 DEF KeySlot
    <3>2. (keyHead - keyTail) % KeySlots
             = IF keyHead < keyTail THEN keyHead - keyTail + KeySlots ELSE keyHead - keyTail
      <4>1. keyHead \in Int /\ keyTail \in Int /\ keyHead - keyTail < 2 * KeySlots
        BY <2>0 DEF KeySlot
      <4>2. (keyHead - keyTail) % KeySlots
               = IF keyHead - keyTail < 0 THEN keyHead - keyTail + KeySlots
                 ELSE IF keyHead - keyTail < KeySlots THEN keyHead - keyTail
                 ELSE keyHead - keyTail - KeySlots
        BY <4>1, <3>1, <2>0, ModWrap
      <4>3. QED BY <4>1, <4>2, <3>1
    <3>3. Len(R) = IF L = KeySlots THEN 0 ELSE L
      OBVIOUS
    <3>4. QED
      <4> HIDE DEF L, R
      <4>1. QED BY <3>2, <3>3, <2>0 DEF Around, KeySlot
  <2>2. \A i \in 1 .. Len(R) : keyBuf[(keyTail + i - 1) % KeySlots] = R[i]
    <3> SUFFICES ASSUME NEW i \in 1 .. Len(R)
                 PROVE  keyBuf[(keyTail + i - 1) % KeySlots] = R[i]
      OBVIOUS
    <3>1. R = queue /\ i \in 1 .. L
      BY <2>0
    <3>2. (keyTail + i - 1) % KeySlots = Around(keyTail + i - 1)
      BY <2>0, <3>1, Turning DEF KeySlot
    <3>3. QED BY <3>1, <3>2, <2>0 DEF HoldsQueue
  <2>3. R \in Seq(Key)
    BY <2>0
  <2>4. Unread = R
    <3> HIDE DEF R
    <3>1. Unread = [i \in 1 .. Len(R) |-> keyBuf[(keyTail + i - 1) % KeySlots]]
      BY <2>1 DEF Unread
    <3>2. R = [i \in 1 .. Len(R) |-> R[i]]
      BY <2>3
    <3>3. QED BY <3>1, <3>2, <2>2
  <2>5. polling \in {"found", "taken"} => queue # <<>>
    BY <2>Q DEF PollOwed
  <2>6. polling = "found" => Polled = Head(queue)
    <3>1. SUFFICES ASSUME polling = "found" PROVE keyBuf[keyTail] = queue[1]
      BY <2>0 DEF Polled
    <3>2. queue # <<>> /\ 1 \in 1 .. L
      BY <3>1, <2>5, <2>0
    <3>3. Around(keyTail + 1 - 1) = keyTail
      BY <2>0 DEF Around, KeySlot
    <3>4. QED BY <3>2, <3>3, <2>0 DEF HoldsQueue
  <2>7. QED BY <2>4, <2>5, <2>6
<1>2. SignalInv => KeySignalled
  BY DEF SignalInv
<1>3. QED BY <1>1, <1>2, KeysTypesHold, RingHolds, SignalHolds, PTL DEF KeysAccounted

----------------------------------------------------------------------------
(* The rings of the uart *)

RingSlot == 0 .. Slots - 1
InRing == Char \cup {NoChar}
Ring == [buf : [RingSlot -> InRing], head : RingSlot, tail : RingSlot]

\* A slot counted on from another, less than two turns of the ring ahead.
Wrapped(i) == IF i < Slots THEN i ELSE i - Slots

UartTypes == rx \in Ring /\ tx \in Ring

LEMMA Wrapping ==
  ASSUME NEW i \in Nat, i < 2 * Slots
  PROVE  i % Slots = Wrapped(i) /\ Wrapped(i) \in RingSlot
<1>1. Slots \in Nat \ {0} /\ 0 - Slots <= i /\ i \in Int
  BY UartAssumption
<1>2. i % Slots = IF i < 0 THEN i + Slots ELSE IF i < Slots THEN i ELSE i - Slots
  BY <1>1, ModWrap
<1>3. QED BY <1>1, <1>2 DEF Wrapped, RingSlot

LEMMA WrapTwice ==
  ASSUME NEW t \in RingSlot, NEW m \in Nat, NEW n \in Nat, m + n < Slots
  PROVE  Wrapped(Wrapped(t + m) + n) = Wrapped(t + (m + n))
BY UartAssumption DEF RingSlot, Wrapped

LEMMA ContentsAre ==
  ASSUME NEW r \in Ring
  PROVE  /\ Contents(r) \in Seq(InRing)
         /\ Len(Contents(r)) = IF r.tail <= r.head THEN r.head - r.tail ELSE r.head - r.tail + Slots
         /\ Len(Contents(r)) \in RingSlot
         /\ r.head = Wrapped(r.tail + Len(Contents(r)))
         /\ \A i \in 1 .. Len(Contents(r)) :
              /\ Contents(r)[i] = r.buf[Wrapped(r.tail + i - 1)]
              /\ Wrapped(r.tail + i - 1) \in RingSlot
              /\ Wrapped(r.tail + i - 1) # r.head
<1> DEFINE n == (r.head - r.tail) % Slots
<1>0. Slots \in Nat \ {0} /\ r.head \in RingSlot /\ r.tail \in RingSlot
      /\ r.buf \in [RingSlot -> InRing]
  BY UartAssumption DEF Ring
<1>1. n = IF r.tail <= r.head THEN r.head - r.tail ELSE r.head - r.tail + Slots
  <2>1. r.head \in Int /\ r.tail \in Int /\ 0 - Slots <= r.head - r.tail /\ r.head - r.tail < Slots
        /\ r.head - r.tail < 2 * Slots /\ r.head - r.tail \in Int
    BY <1>0 DEF RingSlot
  <2>2. n = IF r.head - r.tail < 0 THEN r.head - r.tail + Slots
            ELSE IF r.head - r.tail < Slots THEN r.head - r.tail ELSE r.head - r.tail - Slots
    BY <2>1, <1>0, ModWrap
  <2> HIDE DEF n
  <2>3. QED BY <2>1, <2>2
<1>2. n \in RingSlot /\ r.head = Wrapped(r.tail + n)
  <2> HIDE DEF n
  <2>1. QED BY <1>0, <1>1 DEF RingSlot, Wrapped
<1>3. \A i \in 1 .. n : /\ (r.tail + i - 1) % Slots = Wrapped(r.tail + i - 1)
                        /\ Wrapped(r.tail + i - 1) \in RingSlot
                        /\ Wrapped(r.tail + i - 1) # r.head
  <2> SUFFICES ASSUME NEW i \in 1 .. n
               PROVE  /\ (r.tail + i - 1) % Slots = Wrapped(r.tail + i - 1)
                      /\ Wrapped(r.tail + i - 1) \in RingSlot
                      /\ Wrapped(r.tail + i - 1) # r.head
    OBVIOUS
  <2> HIDE DEF n
  <2>1. i \in Int /\ 1 <= i /\ i <= n /\ n < Slots /\ r.tail \in Nat /\ r.tail < Slots /\ n \in Nat
    BY <1>0, <1>2 DEF RingSlot
  <2>2. r.tail + i - 1 \in Nat /\ r.tail + i - 1 < 2 * Slots
    BY <2>1, <1>0
  <2>3. QED BY <2>1, <2>2, <1>0, <1>2, Wrapping DEF Wrapped
<1>4. Contents(r) = [i \in 1 .. n |-> r.buf[(r.tail + i - 1) % Slots]]
  BY DEF Contents
<1> HIDE DEF n
<1>5. n \in Nat /\ \A i \in 1 .. n : r.buf[(r.tail + i - 1) % Slots] \in InRing
  BY <1>0, <1>2, <1>3 DEF RingSlot
<1>6. Contents(r) \in Seq(InRing) /\ Len(Contents(r)) = n
  BY <1>4, <1>5
<1>7. \A i \in 1 .. n : Contents(r)[i] = r.buf[Wrapped(r.tail + i - 1)]
  BY <1>3, <1>4
<1>8. QED BY <1>1, <1>2, <1>3, <1>6, <1>7

\* Rings with the same contents: what lies from their tails to their heads.
LEMMA ContentsFrom ==
  ASSUME NEW r \in Ring, NEW q \in Seq(InRing), Len(q) < Slots,
         r.head = Wrapped(r.tail + Len(q)),
         \A i \in 1 .. Len(q) : r.buf[Wrapped(r.tail + i - 1)] = q[i]
  PROVE  Contents(r) = q
<1>0. Slots \in Nat \ {0} /\ r.head \in RingSlot /\ r.tail \in RingSlot /\ Len(q) \in Nat
  BY UartAssumption DEF Ring
<1>1. Len(Contents(r)) = Len(q)
  <2>1. Len(Contents(r)) = IF r.tail <= r.head THEN r.head - r.tail ELSE r.head - r.tail + Slots
    BY ContentsAre
  <2>2. QED BY <2>1, <1>0 DEF RingSlot, Wrapped
<1>2. \A i \in 1 .. Len(q) : Contents(r)[i] = q[i]
  BY <1>1, ContentsAre
<1>3. Contents(r) \in Seq(InRing)
  BY ContentsAre
<1>4. QED BY <1>1, <1>2, <1>3, SeqEqual

\* A character put into a ring comes last, or the full ring looks empty.
LEMMA PutContents ==
  ASSUME NEW r \in Ring, NEW ch \in Char
  PROVE  /\ Put(r, ch) \in Ring
         /\ Contents(Put(r, ch)) = IF Len(Contents(r)) + 1 = Slots THEN <<>>
                                   ELSE Append(Contents(r), ch)
<1> DEFINE q == Contents(r)
           p == Put(r, ch)
<1>0. /\ Slots \in Nat \ {0} /\ r.head \in RingSlot /\ r.tail \in RingSlot
      /\ r.buf \in [RingSlot -> InRing] /\ ch \in InRing
  BY UartAssumption DEF Ring, InRing
<1>1. q \in Seq(InRing) /\ Len(q) \in Nat /\ Len(q) < Slots /\ r.head = Wrapped(r.tail + Len(q))
  <2>1. Len(q) \in RingSlot
    BY ContentsAre
  <2>2. QED BY <2>1, <1>0, ContentsAre DEF RingSlot
<1>2. Advance(r.head) = Wrapped(r.head + 1) /\ Advance(r.head) \in RingSlot
  <2>1. (r.head + 1 \in Nat /\ r.head + 1 < 2 * Slots) \/ Slots = 1
    BY <1>0 DEF RingSlot
  <2>2. r.head + 1 \in Nat /\ r.head + 1 < 2 * Slots
    BY <2>1, <1>0 DEF RingSlot
  <2>3. QED BY <2>2, Wrapping DEF Advance
<1>3. /\ p.head = Wrapped(r.head + 1) /\ p.tail = r.tail
      /\ p.buf = [r.buf EXCEPT ![r.head] = ch] /\ p \in Ring
  BY <1>0, <1>2 DEF Put, Ring
<1>4. CASE Len(q) + 1 = Slots
  <2>1. p.head = Wrapped(p.tail + Len(<<>>))
    <3> HIDE DEF p, q
    <3>1. QED BY <1>0, <1>1, <1>3, <1>4 DEF RingSlot, Wrapped
  <2>2. <<>> \in Seq(InRing) /\ Len(<<>>) = 0 /\ 0 < Slots
    BY <1>0
  <2>3. \A i \in 1 .. Len(<<>>) : p.buf[Wrapped(p.tail + i - 1)] = <<>>[i]
    OBVIOUS
  <2>4. Contents(p) = <<>>
    <3> DEFINE none == <<>>
    <3> HIDE DEF p, q, none
    <3>1. none \in Seq(InRing) /\ Len(none) < Slots /\ p.head = Wrapped(p.tail + Len(none))
          /\ \A i \in 1 .. Len(none) : p.buf[Wrapped(p.tail + i - 1)] = none[i]
      BY <2>1, <2>2, <2>3 DEF none
    <3>2. Contents(p) = none
      BY <3>1, <1>3, ContentsFrom
    <3>3. QED BY <3>2 DEF none
  <2>5. QED BY <2>4, <1>3, <1>4
<1>5. CASE Len(q) + 1 # Slots
  <2> DEFINE a == Append(q, ch)
  <2>1. a \in Seq(InRing) /\ Len(a) = Len(q) + 1 /\ Len(a) < Slots
    <3> HIDE DEF q
    <3>1. QED BY <1>0, <1>1, <1>5
  <2>2. p.head = Wrapped(p.tail + Len(a))
    <3> HIDE DEF p, q, a
    <3>1. Wrapped(Wrapped(r.tail + Len(q)) + 1) = Wrapped(r.tail + (Len(q) + 1))
      BY <1>0, <1>1, <2>1, WrapTwice
    <3>2. QED BY <3>1, <1>1, <1>3, <2>1
  <2>3. ASSUME NEW i \in 1 .. Len(a) PROVE p.buf[Wrapped(p.tail + i - 1)] = a[i]
    <3>1. CASE i \in 1 .. Len(q)
      <4>1. /\ q[i] = r.buf[Wrapped(r.tail + i - 1)] /\ Wrapped(r.tail + i - 1) \in RingSlot
            /\ Wrapped(r.tail + i - 1) # r.head
        BY <3>1, ContentsAre
      <4>2. a[i] = q[i]
        <5> HIDE DEF q
        <5>1. QED BY <3>1, <1>1
      <4> HIDE DEF p, q, a
      <4>3. QED BY <4>1, <4>2, <1>3, <1>0
    <3>2. CASE i = Len(q) + 1
      <4>1. a[i] = ch
        <5> HIDE DEF q
        <5>1. QED BY <3>2, <1>1
      <4>2. p.tail + i - 1 = r.tail + Len(q)
        <5> HIDE DEF p, q, a
        <5>1. QED BY <3>2, <1>0, <1>1, <1>3 DEF RingSlot
      <4> HIDE DEF p, q, a
      <4>3. QED BY <4>1, <4>2, <1>3, <1>0, <1>1
    <3> HIDE DEF p, q, a
    <3>3. QED BY <3>1, <3>2, <2>1, <1>1
  <2>4. Contents(p) = a
    <3> HIDE DEF p, q, a
    <3>1. QED BY <2>1, <2>2, <2>3, <1>3, ContentsFrom
  <2>5. QED BY <2>4, <1>3, <1>5
<1>6. QED BY <1>4, <1>5

\* Dropping some of what is unread leaves the rest of it.
LEMMA DropContents ==
  ASSUME NEW r \in Ring, NEW n \in 0 .. Len(Contents(r))
  PROVE  /\ Drop(r, n) \in Ring
         /\ Contents(Drop(r, n)) = SubSeq(Contents(r), n + 1, Len(Contents(r)))
<1> DEFINE q == Contents(r)
           p == Drop(r, n)
           d == SubSeq(q, n + 1, Len(q))
<1>0. /\ Slots \in Nat \ {0} /\ r.head \in RingSlot /\ r.tail \in RingSlot
      /\ r.buf \in [RingSlot -> InRing]
  BY UartAssumption DEF Ring
<1>1. q \in Seq(InRing) /\ Len(q) \in Nat /\ Len(q) < Slots /\ r.head = Wrapped(r.tail + Len(q))
      /\ n \in Nat /\ n <= Len(q)
  <2>1. Len(q) \in RingSlot
    BY ContentsAre
  <2>2. QED BY <2>1, <1>0, ContentsAre DEF RingSlot
<1>2. (r.tail + n) % Slots = Wrapped(r.tail + n) /\ Wrapped(r.tail + n) \in RingSlot
  <2> HIDE DEF q
  <2>1. r.tail + n \in Nat /\ r.tail + n < 2 * Slots
    BY <1>0, <1>1 DEF RingSlot
  <2>2. QED BY <2>1, Wrapping
<1>3. p.tail = Wrapped(r.tail + n) /\ p.head = r.head /\ p.buf = r.buf /\ p \in Ring
  BY <1>0, <1>2 DEF Drop, Ring
<1>4. d \in Seq(InRing) /\ Len(d) = Len(q) - n /\ \A i \in 1 .. Len(d) : d[i] = q[i + n]
  <2> HIDE DEF q
  <2>1. QED BY <1>1, SubSeqProperties
<1>5. p.head = Wrapped(p.tail + Len(d)) /\ Len(d) < Slots
  <2> HIDE DEF p, q, d
  <2>1. Len(d) \in Nat /\ n + Len(d) = Len(q)
    BY <1>1, <1>4
  <2>2. Wrapped(Wrapped(r.tail + n) + Len(d)) = Wrapped(r.tail + (n + Len(d)))
    BY <2>1, <1>0, <1>1, WrapTwice
  <2>3. QED BY <2>1, <2>2, <1>0, <1>1, <1>3
<1>6. ASSUME NEW i \in 1 .. Len(d) PROVE p.buf[Wrapped(p.tail + i - 1)] = d[i]
  <2>1. i + n \in 1 .. Len(q)
    <3> HIDE DEF q, d
    <3>1. QED BY <1>1, <1>4
  <2>2. q[i + n] = r.buf[Wrapped(r.tail + (i + n) - 1)]
    BY <2>1, ContentsAre
  <2>3. Wrapped(p.tail + i - 1) = Wrapped(r.tail + (i + n) - 1)
    <3> HIDE DEF p, q, d
    <3>1. i - 1 \in Nat /\ n + (i - 1) < Slots
      BY <1>0, <1>1, <1>4
    <3>2. Wrapped(Wrapped(r.tail + n) + (i - 1)) = Wrapped(r.tail + (n + (i - 1)))
      BY <3>1, <1>0, <1>1, WrapTwice
    <3>3. /\ p.tail + i - 1 = Wrapped(r.tail + n) + (i - 1)
          /\ r.tail + (i + n) - 1 = r.tail + (n + (i - 1))
      BY <1>0, <1>1, <1>2, <1>3, <3>1 DEF RingSlot
    <3>4. QED BY <3>2, <3>3
  <2> HIDE DEF p, q, d
  <2>4. QED BY <2>2, <2>3, <1>3, <1>4
<1>7. Contents(p) = d
  <2> HIDE DEF p, q, d
  <2>1. QED BY <1>3, <1>4, <1>5, <1>6, ContentsFrom
<1>8. QED BY <1>3, <1>7

\* What a channel keeps of one character more.
LEMMA KeptOneMore ==
  ASSUME NEW V, NEW q \in Seq(V), NEW ch \in V
  PROVE  /\ Rx!Kept(q) \in Seq(V)
         /\ Rx!Kept(Append(q, ch)) = IF Len(Rx!Kept(q)) + 1 = Slots THEN <<>>
                                     ELSE Append(Rx!Kept(q), ch)
<1> DEFINE n == Len(q)
           m == n % Slots
           a == Append(q, ch)
<1>0. n \in Nat /\ Slots \in Nat \ {0} /\ m \in Nat /\ m < Slots /\ m <= n
  <2>1. n \in Nat /\ Slots \in Nat \ {0}
    BY UartAssumption
  <2> DEFINE d == n \div Slots
  <2>2. d \in Int /\ m \in Int /\ 0 <= m /\ m < Slots /\ n = Slots * d + m
    <3> HIDE DEF n
    <3>1. QED BY <2>1
  <2>3. d >= 0
    <3> HIDE DEF n, d, m
    <3>1. SUFFICES ASSUME d <= -1 PROVE FALSE
      BY <2>2
    <3>2. Slots * d <= Slots * (-1)
      BY <3>1, <2>1, <2>2
    <3>3. QED BY <3>2, <2>1, <2>2
  <2>4. Slots * d >= 0
    <3> HIDE DEF n, d, m
    <3>1. QED BY <2>1, <2>2, <2>3
  <2> HIDE DEF n, d, m
  <2>5. QED BY <2>1, <2>2, <2>4
<1>1. a \in Seq(V) /\ Len(a) = n + 1 /\ a[n + 1] = ch /\ \A i \in 1 .. n : a[i] = q[i]
  OBVIOUS
<1>2. (n + 1) % Slots = IF m + 1 = Slots THEN 0 ELSE m + 1
  <2> DEFINE d == n \div Slots
             e == (n + 1) \div Slots
             o == (n + 1) % Slots
  <2>1. d \in Int /\ m \in Int /\ n = Slots * d + m
    <3> HIDE DEF n
    <3>1. QED BY <1>0
  <2>2. e \in Int /\ o \in Int /\ 0 <= o /\ o < Slots /\ n + 1 = Slots * e + o
    <3> HIDE DEF n
    <3>1. QED BY <1>0
  <2> HIDE DEF n, m, d, e, o
  <2>3. Slots * (e - d) = Slots * e - Slots * d /\ e - d \in Int
    BY <1>0, <2>1, <2>2
  <2>4. Slots * (e - d) = m + 1 - o
    BY <1>0, <2>1, <2>2, <2>3
  <2>5. e - d \in {0, 1}
    <3> DEFINE x == e - d
    <3>1. x \in Int /\ Slots * x = m + 1 - o
      BY <2>3, <2>4
    <3>2. x < 2
      <4> HIDE DEF x
      <4>1. SUFFICES ASSUME x >= 2 PROVE FALSE
        BY <3>1
      <4>2. Slots * x >= Slots * 2
        BY <4>1, <3>1, <1>0
      <4>3. QED BY <4>2, <3>1, <1>0, <2>2
    <3>3. x > -1
      <4> HIDE DEF x
      <4>1. SUFFICES ASSUME x <= -1 PROVE FALSE
        BY <3>1
      <4>2. Slots * x <= Slots * (-1)
        BY <4>1, <3>1, <1>0
      <4>3. QED BY <4>2, <3>1, <1>0, <2>2
    <3> HIDE DEF x
    <3>4. x \in {0, 1}
      BY <3>1, <3>2, <3>3
    <3>5. QED BY <3>4 DEF x
  <2>6. CASE e - d = 0
    <3>1. o = m + 1
      BY <2>6, <2>4, <1>0, <2>2
    <3>2. QED BY <3>1, <1>0, <2>2 DEF o
  <2>7. CASE e - d = 1
    <3>1. o = m + 1 - Slots
      BY <2>7, <2>4, <1>0, <2>2
    <3>2. QED BY <3>1, <1>0, <2>2 DEF o
  <2>8. QED BY <2>5, <2>6, <2>7
<1>3. /\ Rx!Kept(q) = SubSeq(q, n - m + 1, n)
      /\ Rx!Kept(a) = SubSeq(a, Len(a) - (Len(a) % Slots) + 1, Len(a))
      /\ Len(a) % Slots = IF m + 1 = Slots THEN 0 ELSE m + 1
  <2>1. Rx!Kept(q) = SubSeq(q, n - m + 1, n)
    BY DEF Rx!Kept
  <2>2. Rx!Kept(a) = SubSeq(a, Len(a) - (Len(a) % Slots) + 1, Len(a))
    BY DEF Rx!Kept
  <2>3. Len(a) = n + 1
    BY <1>1
  <2> DEFINE l == Len(a)
  <2>4. l % Slots = IF m + 1 = Slots THEN 0 ELSE m + 1
    <3> HIDE DEF n, m, l
    <3>1. QED BY <1>2, <2>3 DEF l
  <2>5. QED BY <2>1, <2>2, <2>4
<1> DEFINE k == SubSeq(q, n - m + 1, n)
<1>4. k \in Seq(V) /\ Len(k) = m /\ Rx!Kept(q) = k /\ \A i \in 1 .. m : k[i] = q[n - m + i]
  <2>1. Rx!Kept(q) = k
    BY <1>3
  <2> HIDE DEF m
  <2>2. k \in Seq(V) /\ Len(k) = m /\ \A i \in 1 .. m : k[i] = q[n - m + i]
    BY <1>0, SubSeqProperties
  <2>3. QED BY <2>1, <2>2
<1> HIDE DEF n, m, k
<1>5. CASE m + 1 = Slots
  <2>1. Rx!Kept(a) = SubSeq(a, n + 2, n + 1)
    <3> HIDE DEF n, m, a
    <3>1. n + 1 - 0 + 1 = n + 2
      BY <1>0
    <3>2. QED BY <3>1, <1>1, <1>3, <1>5
  <2>2. SubSeq(a, n + 2, n + 1) = <<>>
    <3> HIDE DEF n, a
    <3>1. QED BY <1>0, <1>1
  <2>3. QED BY <2>1, <2>2, <1>4, <1>5
<1>6. CASE m + 1 # Slots
  <2> DEFINE b == SubSeq(a, n + 1 - m, n + 1)
             c == Append(k, ch)
  <2>1. Rx!Kept(a) = b
    <3> HIDE DEF n, m, a
    <3> DEFINE l == Len(a)
               t == l % Slots
    <3>1. Rx!Kept(a) = SubSeq(a, l - t + 1, l) /\ l = n + 1 /\ t = m + 1
      BY <1>1, <1>3, <1>6
    <3> HIDE DEF l, t
    <3>2. l - t + 1 = n + 1 - m
      BY <3>1, <1>0
    <3>3. QED BY <3>1, <3>2
  <2>2. b \in Seq(V) /\ Len(b) = m + 1 /\ \A i \in 1 .. m + 1 : b[i] = a[n - m + i]
    <3> HIDE DEF n, m, a
    <3>1. n + 1 - m \in 1 .. Len(a) + 1 /\ n + 1 \in n + 1 - m - 1 .. Len(a)
      BY <1>0, <1>1
    <3>2. QED BY <3>1, <1>0, <1>1, SubSeqProperties
  <2>3. c \in Seq(V) /\ Len(c) = m + 1 /\ c[m + 1] = ch /\ \A i \in 1 .. m : c[i] = k[i]
    <3> HIDE DEF n, m, k
    <3>1. QED BY <1>4, <1>0
  <2>4. \A i \in 1 .. m + 1 : b[i] = c[i]
    <3> SUFFICES ASSUME NEW i \in 1 .. m + 1 PROVE b[i] = c[i]
      OBVIOUS
    <3> HIDE DEF n, m, a, b, c, k
    <3>1. CASE i \in 1 .. m
      <4>1. n - m + i \in 1 .. n
        BY <3>1, <1>0
      <4>2. b[i] = a[n - m + i] /\ a[n - m + i] = q[n - m + i]
        BY <3>1, <4>1, <1>1, <2>2
      <4>3. c[i] = k[i] /\ k[i] = q[n - m + i]
        BY <3>1, <1>4, <2>3
      <4>4. QED BY <4>2, <4>3
    <3>2. CASE i = m + 1
      <4>1. n - m + i = n + 1
        BY <3>2, <1>0
      <4>2. QED BY <3>2, <4>1, <1>1, <2>2, <2>3
    <3>3. QED BY <3>1, <3>2, <1>0
  <2>5. b = c
    <3> HIDE DEF n, m, a, b, c, k
    <3>1. QED BY <2>2, <2>3, <2>4, SeqEqual
  <2> HIDE DEF b
  <2>6. QED BY <2>1, <2>5, <1>4, <1>6
<1>7. QED BY <1>4, <1>5, <1>6

\* What is unread in a ring is kept whole.
LEMMA KeptContents ==
  ASSUME NEW r \in Ring
  PROVE  Rx!Kept(Contents(r)) = Contents(r)
<1> DEFINE q == Contents(r)
<1>1. q \in Seq(InRing) /\ Len(q) \in Nat /\ Len(q) < Slots /\ Slots \in Nat \ {0}
  BY ContentsAre, UartAssumption DEF RingSlot
<1> HIDE DEF q
<1>2. Len(q) % Slots = Len(q)
  BY <1>1
<1>3. Rx!Kept(q) = SubSeq(q, 1, Len(q))
  BY <1>1, <1>2 DEF Rx!Kept
<1>4. QED BY <1>1, <1>3 DEF q

\* uartPushInput's loop as a recursive function on the characters put so far.
Puts(r, s) == CHOOSE g : g = [S \in SUBSET (DOMAIN s) |->
                IF S = {} THEN r ELSE Put(g[S \ {Greatest(S)}], s[Greatest(S)])]

LEMMA PutAllIsPuts ==
  ASSUME NEW r, NEW s
  PROVE  PutAll(r, s) = Puts(r, s)[DOMAIN s]
BY DEF PutAll, Puts, FoldLeft, MapThenFoldSet, Max, Greatest

LEMMA PutsIs ==
  ASSUME NEW r \in Ring, NEW s \in Seq(Char)
  PROVE  \A S \in SUBSET (1 .. Len(s)) : Puts(r, s)[S] =
           IF S = {} THEN r ELSE Put(Puts(r, s)[S \ {Greatest(S)}], s[Greatest(S)])
<1> DEFINE n == Len(s)
           F == [p \in Ring \X (1 .. n) |-> Put(p[1], s[p[2]])]
<1>1. n \in Nat /\ DOMAIN s = 1 .. n /\ \A i \in 1 .. n : s[i] \in Char
  OBVIOUS
<1>2. F \in [Ring \X (1 .. n) -> Ring]
  BY PutContents, <1>1
<1> HIDE DEF n
<1>3. PICK g \in [SUBSET (1 .. n) -> Ring] : IsFold(g, n, r, F)
  <2> HIDE DEF F
  <2>1. QED BY <1>1, <1>2, FoldDefined
<1>4. ASSUME NEW S \in SUBSET (1 .. n), S # {}
      PROVE  F[<<g[S \ {Greatest(S)}], Greatest(S)>>] = Put(g[S \ {Greatest(S)}], s[Greatest(S)])
  <2>1. Greatest(S) \in 1 .. n
    BY <1>1, <1>4, GreatestExists
  <2>2. g[S \ {Greatest(S)}] \in Ring
    OBVIOUS
  <2>3. QED BY <2>1, <2>2
<1> HIDE DEF F
<1>5. g = [S \in SUBSET (1 .. n) |->
             IF S = {} THEN r ELSE Put(g[S \ {Greatest(S)}], s[Greatest(S)])]
  BY <1>3, <1>4 DEF IsFold
<1>6. g = [S \in SUBSET (DOMAIN s) |->
             IF S = {} THEN r ELSE Put(g[S \ {Greatest(S)}], s[Greatest(S)])]
  BY <1>1, <1>5
<1>7. Puts(r, s) = [S \in SUBSET (DOMAIN s) |->
             IF S = {} THEN r ELSE Put(Puts(r, s)[S \ {Greatest(S)}], s[Greatest(S)])]
  BY <1>6, Zenon DEF Puts
<1>8. QED BY <1>1, <1>7 DEF n

LEMMA PutAllContents ==
  ASSUME NEW r \in Ring, NEW s \in Seq(Char)
  PROVE  /\ PutAll(r, s) \in Ring
         /\ Contents(PutAll(r, s)) = Rx!Kept(Contents(r) \o s)
<1> DEFINE n == Len(s)
           f(k) == Puts(r, s)[1 .. k]
           q(k) == Contents(r) \o SubSeq(s, 1, k)
           P == {k \in 0 .. n : f(k) \in Ring /\ Contents(f(k)) = Rx!Kept(q(k))}
<1>1. n \in Nat /\ DOMAIN s = 1 .. n /\ Contents(r) \in Seq(InRing)
      /\ \A i \in 1 .. n : s[i] \in Char
  BY ContentsAre
<1>2. 0 \in P
  <2>1. f(0) = r
    <3>1. {} \in SUBSET (1 .. n) /\ 1 .. 0 = {}
      OBVIOUS
    <3>2. QED BY <3>1, PutsIs
  <2>2. q(0) = Contents(r)
    BY <1>1
  <2> HIDE DEF f, q
  <2>3. QED BY <1>1, <2>1, <2>2, KeptContents
<1>3. ASSUME NEW k \in 0 .. n - 1, k \in P PROVE k + 1 \in P
  <2>1. f(k + 1) = Put(f(k), s[k + 1])
    <3>1. (1 .. k + 1) \in SUBSET (1 .. n) /\ 1 .. k + 1 # {}
      <4> HIDE DEF n
      <4>1. 1 \in 1 .. k + 1 /\ \A x \in 1 .. k + 1 : x \in 1 .. n
        BY <1>1
      <4>2. QED BY <4>1
    <3>2. Greatest(1 .. k + 1) = k + 1 /\ (1 .. k + 1) \ {k + 1} = 1 .. k
      <4>1. k + 1 \in 1 .. k + 1 /\ \A x \in 1 .. k + 1 : x <= k + 1
        BY <1>1
      <4>2. (1 .. k + 1) \in SUBSET Int
        OBVIOUS
      <4>3. Greatest(1 .. k + 1) = k + 1
        BY <4>1, <4>2, GreatestIs
      <4>4. QED BY <4>3, <1>1
    <3>3. QED BY <3>1, <3>2, PutsIs
  <2>2. q(k + 1) = Append(q(k), s[k + 1]) /\ q(k) \in Seq(InRing) /\ s[k + 1] \in InRing
    <3> DEFINE t == SubSeq(s, 1, k)
               c == Contents(r)
    <3>1. SubSeq(s, 1, k + 1) = Append(t, s[k + 1]) /\ t \in Seq(InRing) /\ s[k + 1] \in InRing
      BY <1>1 DEF InRing
    <3> HIDE DEF t, c, n
    <3>2. c \o Append(t, s[k + 1]) = Append(c \o t, s[k + 1]) /\ c \o t \in Seq(InRing)
      BY <3>1, <1>1 DEF c
    <3>3. QED BY <3>1, <3>2 DEF t, c
  <2>3. f(k) \in Ring /\ Contents(f(k)) = Rx!Kept(q(k)) /\ s[k + 1] \in Char
    BY <1>1, <1>3
  <2> HIDE DEF f, q, n
  <2>4. f(k + 1) \in Ring /\ Contents(f(k + 1)) = Rx!Kept(q(k + 1))
    <3>1. /\ Put(f(k), s[k + 1]) \in Ring
          /\ Contents(Put(f(k), s[k + 1])) = IF Len(Contents(f(k))) + 1 = Slots THEN <<>>
                                             ELSE Append(Contents(f(k)), s[k + 1])
      BY <2>3, PutContents
    <3>2. Rx!Kept(Append(q(k), s[k + 1])) = IF Len(Rx!Kept(q(k))) + 1 = Slots THEN <<>>
                                            ELSE Append(Rx!Kept(q(k)), s[k + 1])
      BY <2>2, KeptOneMore
    <3>3. QED BY <2>1, <2>2, <2>3, <3>1, <3>2, Zenon
  <2>5. QED BY <2>4, <1>1
<1>4. n \in P
  <2> HIDE DEF P
  <2>1. \A k \in 0 .. n : k \in P
    <3> HIDE DEF n
    <3>1. QED BY <1>1, <1>2, <1>3, Induct
  <2>2. QED BY <2>1, <1>1
<1>5. SubSeq(s, 1, n) = s
  BY <1>1
<1>6. PutAll(r, s) = f(n)
  BY PutAllIsPuts, <1>1
<1>7. f(n) \in Ring /\ Contents(f(n)) = Rx!Kept(q(n))
  BY <1>4
<1> HIDE DEF f
<1>8. QED BY <1>5, <1>6, <1>7

LEMMA EmptyContents ==
  /\ EmptyRing \in Ring
  /\ Contents(EmptyRing) = <<>>
<1>1. Slots \in Nat \ {0} /\ 0 \in RingSlot /\ NoChar \in InRing
  BY UartAssumption DEF RingSlot, InRing
<1>2. EmptyRing \in Ring /\ EmptyRing.head = 0 /\ EmptyRing.tail = 0
  BY <1>1 DEF EmptyRing, Ring, RingSlot
<1>3. Contents(EmptyRing) \in Seq(InRing) /\ Len(Contents(EmptyRing)) = 0
  BY <1>2, ContentsAre
<1>4. QED BY <1>2, <1>3

LEMMA PushesAreSeqs ==
  ASSUME NEW s \in Pushes
  PROVE  s \in Seq(Char)
BY UartAssumption DEF Pushes

\* What WindowConsole pulls is within the ring, and it loses nothing.
LEMMA WindowTakesAll ==
  ASSUME tx \in Ring
  PROVE  /\ WindowPulls = Len(Contents(tx))
         /\ WindowKeeps = SubSeq(Contents(tx), 1, Len(Contents(tx)))
<1>1. /\ Len(Contents(tx)) \in Nat /\ Len(Contents(tx)) < Slots
      /\ Slots \in Nat /\ ConsoleMax \in Nat /\ Slots <= ConsoleMax + 1
  BY ContentsAre, UartAssumption, ConsoleAssumption DEF RingSlot
<1>2. QED BY <1>1 DEF WindowPulls, WindowKeeps, Pullable

LEMMA UartTypesHold == UartSpec => []UartTypes
<1>1. UartInit => UartTypes
  BY EmptyContents DEF UartInit, UartTypes
<1>2. UartTypes /\ [UartNext]_uartVars => UartTypes'
  <2> SUFFICES ASSUME UartTypes, [UartNext]_uartVars PROVE UartTypes'
    OBVIOUS
  <2>0. rx \in Ring /\ tx \in Ring
    BY DEF UartTypes
  <2>1. CASE uartPushInput
    BY <2>0, <2>1, PushesAreSeqs, PutAllContents DEF uartPushInput, UartTypes
  <2>2. CASE ReadData
    <3>1. CASE IsEmpty(rx)
      BY <2>0, <2>2, <3>1 DEF ReadData, UartTypes
    <3>2. CASE ~IsEmpty(rx)
      <4>1. 1 \in 0 .. Len(Contents(rx))
        <5>1. /\ Len(Contents(rx)) \in Nat /\ rx.head \in RingSlot /\ rx.tail \in RingSlot
              /\ rx.head = Wrapped(rx.tail + Len(Contents(rx)))
          BY <2>0, ContentsAre, UartAssumption DEF RingSlot, Ring
        <5>2. Len(Contents(rx)) # 0
          BY <3>2, <5>1, UartAssumption DEF IsEmpty, Wrapped, RingSlot
        <5>3. QED BY <5>1, <5>2
      <4>2. Drop(rx, 1) \in Ring
        BY <2>0, <4>1, DropContents
      <4>3. QED BY <2>0, <2>2, <3>2, <4>2 DEF ReadData, UartTypes
    <3>3. QED BY <3>1, <3>2
  <2>3. ASSUME NEW ch \in Char, WriteData(ch) PROVE UartTypes'
    BY <2>0, <2>3, PutContents DEF WriteData, UartTypes
  <2>4. CASE WindowConsole \/ TextConsole
    <3>1. Len(Contents(tx)) \in 0 .. Len(Contents(tx))
      BY <2>0, ContentsAre, UartAssumption DEF RingSlot
    <3>2. tx' = Drop(tx, Len(Contents(tx))) /\ rx' = rx
      BY <2>0, <2>4, WindowTakesAll DEF WindowConsole, TextConsole
    <3>3. QED BY <2>0, <3>1, <3>2, DropContents DEF UartTypes
  <2>5. CASE uartReset
    BY <2>5, EmptyContents DEF uartReset, UartTypes
  <2>6. CASE UNCHANGED uartVars
    BY <2>6 DEF uartVars, UartTypes
  <2>7. QED BY <2>1, <2>2, <2>3, <2>4, <2>5, <2>6 DEF UartNext
<1>3. QED BY <1>1, <1>2, PTL DEF UartSpec

(* Each direction delivers its characters in the order in which they came in,  *)
(* none twice, and loses them only a full ring at a time, for rings of any     *)
(* size and input of any length.                                               *)
THEOREM UartInOrder == UartSpec => CharactersInOrder
<1>1. UartInit => Rx!ChannelInit /\ Tx!ChannelInit
  BY EmptyContents DEF UartInit, Rx!ChannelInit, Tx!ChannelInit
<1>2. UartTypes /\ [UartNext]_uartVars => [Rx!ChannelNext]_(Rx!cvars) /\ [Tx!ChannelNext]_(Tx!cvars)
  <2> SUFFICES ASSUME UartTypes, [UartNext]_uartVars
               PROVE  [Rx!ChannelNext]_(Rx!cvars) /\ [Tx!ChannelNext]_(Tx!cvars)
    OBVIOUS
  <2>0. rx \in Ring /\ tx \in Ring
    BY DEF UartTypes
  <2>1. UNCHANGED <<rx, received>> => UNCHANGED Rx!cvars
    BY DEF Rx!cvars, Contents
  <2>2. UNCHANGED <<tx, console>> => UNCHANGED Tx!cvars
    BY DEF Tx!cvars, Contents
  <2>3. CASE uartPushInput
    <3>1. PICK data \in Pushes : rx' = PutAll(rx, data)
      BY <2>3 DEF uartPushInput
    <3>2. Contents(rx)' = Rx!Kept(Contents(rx) \o data) /\ received' = <<>>
      <4>1. Contents(rx)' = Contents(PutAll(rx, data))
        BY <3>1 DEF Contents
      <4>2. QED BY <4>1, <2>0, <2>3, PushesAreSeqs, PutAllContents DEF uartPushInput
    <3>3. Rx!ComeIn
      BY <3>2 DEF Rx!ComeIn
    <3>4. UNCHANGED <<tx, console>>
      BY <2>3 DEF uartPushInput
    <3>5. QED BY <2>2, <3>3, <3>4 DEF Rx!ChannelNext
  <2>4. CASE ReadData
    <3>1. UNCHANGED <<tx, console>>
      BY <2>4 DEF ReadData
    <3>2. /\ Contents(rx) \in Seq(InRing) /\ Len(Contents(rx)) \in Nat
          /\ rx.head \in RingSlot /\ rx.tail \in RingSlot
          /\ rx.head = Wrapped(rx.tail + Len(Contents(rx)))
      BY <2>0, ContentsAre, UartAssumption DEF RingSlot, Ring
    <3>3. CASE IsEmpty(rx)
      <4>1. received' = <<>> /\ rx' = rx
        BY <2>4, <3>3 DEF ReadData
      <4>2. Contents(rx)' = Contents(rx)
        BY <4>1 DEF Contents
      <4>3. Rx!Deliver
        <5> DEFINE q == Contents(rx)
        <5>1. SubSeq(q, 1, 0) = <<>> /\ SubSeq(q, 0 + 1, Len(q)) = q /\ 0 \in 0 .. Len(q)
          <6> HIDE DEF q
          <6>1. q \in Seq(InRing)
            BY <3>2 DEF q
          <6>2. SubSeq(q, 1, 0) = <<>>
            BY <6>1
          <6>3. SubSeq(q, 1, Len(q)) = q
            BY <6>1
          <6>4. 0 \in 0 .. Len(q) /\ 0 + 1 = 1
            BY <6>1
          <6>5. QED BY <6>2, <6>3, <6>4
        <5>2. QED BY <4>1, <4>2, <5>1 DEF Rx!Deliver
      <4>4. QED BY <2>2, <3>1, <4>3 DEF Rx!ChannelNext
    <3>4. CASE ~IsEmpty(rx)
      <4>1. 1 \in 0 .. Len(Contents(rx))
        <5>1. Len(Contents(rx)) # 0
          BY <3>4, <3>2, UartAssumption DEF IsEmpty, Wrapped, RingSlot
        <5>2. QED BY <3>2, <5>1
      <4>2. Contents(rx)' = SubSeq(Contents(rx), 1 + 1, Len(Contents(rx)))
        <5>1. rx' = Drop(rx, 1)
          BY <2>4, <3>4 DEF ReadData
        <5>2. Contents(rx)' = Contents(Drop(rx, 1))
          BY <5>1 DEF Contents
        <5>3. QED BY <5>2, <2>0, <4>1, DropContents
      <4>3. received' = SubSeq(Contents(rx), 1, 1)
        <5> DEFINE q == Contents(rx)
        <5>1. received' = <<rx.buf[rx.tail]>>
          BY <2>4, <3>4 DEF ReadData
        <5>2. 1 \in 1 .. Len(Contents(rx))
          BY <3>2, <4>1
        <5>3. Contents(rx)[1] = rx.buf[Wrapped(rx.tail + 1 - 1)]
          BY <2>0, <5>2, ContentsAre
        <5>4. Wrapped(rx.tail + 1 - 1) = rx.tail
          BY <3>2, UartAssumption DEF Wrapped, RingSlot
        <5>5. SubSeq(q, 1, 1) = <<q[1]>>
          <6>1. q \in Seq(InRing) /\ 1 \in 1 .. Len(q)
            BY <3>2, <5>2
          <6> DEFINE d == SubSeq(q, 1, 1)
                     e == <<q[1]>>
          <6> HIDE DEF q
          <6>2. d \in Seq(InRing) /\ Len(d) = 1 /\ d[1] = q[1]
            BY <6>1, SubSeqProperties
          <6>3. e \in Seq(InRing) /\ Len(e) = 1 /\ e[1] = q[1]
            BY <6>1
          <6> HIDE DEF d, e
          <6>4. d = e
            BY <6>2, <6>3, SeqEqual
          <6>5. QED BY <6>4 DEF d, e
        <5>6. QED BY <5>1, <5>3, <5>4, <5>5
      <4>4. Rx!Deliver
        BY <4>1, <4>2, <4>3 DEF Rx!Deliver
      <4>5. QED BY <2>2, <3>1, <4>4 DEF Rx!ChannelNext
    <3>5. QED BY <3>3, <3>4
  <2>5. ASSUME NEW ch \in Char, WriteData(ch)
        PROVE  [Rx!ChannelNext]_(Rx!cvars) /\ [Tx!ChannelNext]_(Tx!cvars)
    <3>1. UNCHANGED <<rx, received>> /\ tx' = Put(tx, ch) /\ console' = <<>>
      BY <2>5 DEF WriteData
    <3>2. Contents(tx)' = Contents(Put(tx, ch))
      BY <3>1 DEF Contents
    <3>3. Contents(tx)' = Rx!Kept(Append(Contents(tx), ch))
      <4>1. Contents(tx) \in Seq(InRing) /\ ch \in InRing
        BY <2>0, ContentsAre DEF InRing
      <4>2. Rx!Kept(Append(Contents(tx), ch))
              = IF Len(Rx!Kept(Contents(tx))) + 1 = Slots THEN <<>>
                ELSE Append(Rx!Kept(Contents(tx)), ch)
        BY <4>1, KeptOneMore
      <4>3. Rx!Kept(Contents(tx)) = Contents(tx)
        BY <2>0, KeptContents
      <4>4. Contents(Put(tx, ch)) = IF Len(Contents(tx)) + 1 = Slots THEN <<>>
                                    ELSE Append(Contents(tx), ch)
        BY <2>0, PutContents
      <4>5. QED BY <3>2, <4>2, <4>3, <4>4
    <3>4. Tx!Kept(Contents(tx) \o <<ch>>) = Rx!Kept(Append(Contents(tx), ch))
      <4>1. Contents(tx) \o <<ch>> = Append(Contents(tx), ch)
        BY <2>0, ContentsAre DEF InRing
      <4>2. QED BY <4>1 DEF Tx!Kept, Rx!Kept
    <3>5. Tx!ComeIn
      BY <3>1, <3>3, <3>4 DEF Tx!ComeIn
    <3>6. QED BY <2>1, <3>1, <3>5 DEF Tx!ChannelNext
  <2>6. CASE WindowConsole \/ TextConsole
    <3> DEFINE q == Contents(tx)
               n == Len(q)
    <3>1. q \in Seq(InRing) /\ n \in 0 .. n
      BY <2>0, ContentsAre, UartAssumption DEF RingSlot
    <3>2. /\ tx' = Drop(tx, n) /\ UNCHANGED <<rx, received>>
          /\ console' = q \/ console' = SubSeq(q, 1, n)
      BY <2>0, <2>6, WindowTakesAll DEF WindowConsole, TextConsole
    <3>3. Contents(tx)' = SubSeq(q, n + 1, n)
      <4>1. Contents(tx)' = Contents(Drop(tx, n))
        BY <3>2 DEF Contents
      <4>2. QED BY <4>1, <2>0, <3>1, DropContents
    <3>4. SubSeq(q, 1, n) = q
      <4> HIDE DEF q
      <4>1. QED BY <3>1
    <3>5. Tx!Deliver
      BY <3>1, <3>2, <3>3, <3>4 DEF Tx!Deliver
    <3>6. QED BY <2>1, <3>2, <3>5 DEF Tx!ChannelNext
  <2>7. CASE uartReset
    <3>1. rx' = EmptyRing /\ tx' = EmptyRing /\ received' = <<>> /\ console' = <<>>
      BY <2>7 DEF uartReset
    <3>2. Contents(rx)' = Contents(EmptyRing) /\ Contents(tx)' = Contents(EmptyRing)
      BY <3>1 DEF Contents
    <3>3. Rx!Clear /\ Tx!Clear
      BY <3>1, <3>2, EmptyContents DEF Rx!Clear, Tx!Clear
    <3>4. QED BY <3>3 DEF Rx!ChannelNext, Tx!ChannelNext
  <2>8. CASE UNCHANGED uartVars
    BY <2>8, <2>1, <2>2 DEF uartVars
  <2>9. QED BY <2>3, <2>4, <2>5, <2>6, <2>7, <2>8 DEF UartNext
<1>3. QED
  BY <1>1, <1>2, UartTypesHold, PTL
     DEF UartSpec, CharactersInOrder, Rx!ChannelSpec, Tx!ChannelSpec

(* Unread input is signalled, for rings of any size and input of any length,   *)
(* also when the host fills the ring so that its head meets the tail.          *)
THEOREM UartInputSignalled == UartSpec => []InputSignalled
<1>1. UartInit => InputSignalled
  BY DEF UartInit, InputSignalled, IsEmpty, EmptyRing
<1>2. InputSignalled /\ [UartNext]_uartVars => InputSignalled'
  <2> SUFFICES ASSUME InputSignalled, [UartNext]_uartVars PROVE InputSignalled'
    OBVIOUS
  <2>1. CASE uartPushInput
    BY <2>1 DEF uartPushInput, InputSignalled
  <2>2. CASE ReadData
    <3>1. CASE IsEmpty(rx)
      BY <2>2, <3>1 DEF ReadData, InputSignalled, IsEmpty
    <3>2. CASE ~IsEmpty(rx)
      <4>1. rxrdy /\ rxrdy' = (rxrdy /\ (IsEmpty(rx) \/ ~IsEmpty(rx')))
        BY <2>2, <3>2 DEF ReadData, InputSignalled
      <4>2. QED BY <3>2, <4>1, Zenon DEF InputSignalled
    <3>3. QED BY <3>1, <3>2
  <2>3. ASSUME UNCHANGED <<rx, rxrdy>> PROVE InputSignalled'
    BY <2>3 DEF InputSignalled, IsEmpty
  <2>4. CASE (\E ch \in Char : WriteData(ch)) \/ WindowConsole \/ TextConsole
    BY <2>4, <2>3, Zenon DEF WriteData, WindowConsole, TextConsole
  <2>5. CASE uartReset
    BY <2>5 DEF uartReset, InputSignalled, IsEmpty, EmptyRing
  <2>6. CASE UNCHANGED uartVars
    BY <2>6, <2>3 DEF uartVars
  <2>7. QED BY <2>1, <2>2, <2>4, <2>5, <2>6 DEF UartNext
<1>3. QED BY <1>1, <1>2, PTL DEF UartSpec

----------------------------------------------------------------------------
(* The tone generator *)

Slot == 0 .. Samples - 1
Sound == [phase : [Voice -> Nat], buf : [Slot -> Int], pos : 0 .. Positions - 1,
          generated : Seq(Int)]
Playing == [phase |-> phase, buf |-> sampleBuf, pos |-> sampleWritePos, generated |-> generated]

\* The slot that was written j samples before slot q comes to be.
Back(q, j) == IF j <= q THEN q - j ELSE q - j + Samples
\* The ring has the newest samples backwards from the write position.
HoldsNewest(st) ==
  /\ st \in Sound /\ Len(st.generated) <= Samples
  /\ Least(st.pos, Samples) <= Len(st.generated)
  /\ \A j \in 1 .. Len(st.generated) :
       st.buf[Back(st.pos % Samples, j)] = st.generated[Len(st.generated) + 1 - j]

Knobs ==
  /\ freq \in [Voice -> Nat] /\ volume \in [Voice -> Nat] /\ voices \in SUBSET (Voice \cup {2})
AudioInv == Knobs /\ HoldsNewest(Playing)

LEMMA MixInt ==
  ASSUME Knobs, NEW ph \in [Voice -> Nat]
  PROVE  Mix(ph) \in Int /\ Turned(ph) \in [Voice -> Nat]
<1>1. 0 \in Voice /\ 1 \in Voice /\ Clip \in Nat
  BY AudioAssumption DEF Voice
<1>2. \A ch \in Voice : Level(ch, ph) \in Int
  BY DEF Level, Knobs
<1>3. Mix(ph) \in Int
  <2>1. Level(0, ph) + Level(1, ph) \in Int
    BY <1>1, <1>2
  <2>2. \A mix \in Int : Clamp(mix) \in Int
    BY <1>1 DEF Clamp
  <2>3. QED BY <2>1, <2>2 DEF Mix
<1>4. Turned(ph) \in [Voice -> Nat]
  BY DEF Turned
<1>5. QED BY <1>3, <1>4

\* The newest samples of a history, counted backwards.
LEMMA NewestAre ==
  ASSUME NEW s \in Seq(Int), NEW n \in 0 .. Len(s)
  PROVE  /\ Newest(s, n) \in Seq(Int) /\ Len(Newest(s, n)) = n
         /\ \A j \in 1 .. n : Newest(s, n)[n + 1 - j] = s[Len(s) + 1 - j]
<1> DEFINE t == Newest(s, n)
           l == Len(s)
<1>1. l \in Nat /\ n \in Nat /\ n <= l /\ l - n + 1 \in 1 .. l + 1
  OBVIOUS
<1>2. t \in Seq(Int) /\ Len(t) = n /\ \A i \in 1 .. n : t[i] = s[l - n + i]
  <2>1. t = SubSeq(s, l - n + 1, l)
    BY DEF Newest
  <2>2. /\ SubSeq(s, l - n + 1, l) \in Seq(Int)
        /\ Len(SubSeq(s, l - n + 1, l)) = IF l - n + 1 <= l THEN l - (l - n + 1) + 1 ELSE 0
        /\ \A i \in 1 .. l - (l - n + 1) + 1 : SubSeq(s, l - n + 1, l)[i] = s[l - n + 1 + i - 1]
    <3> DEFINE a == l - n + 1
    <3>1. a \in Int /\ l \in Int /\ \A i \in a .. l : s[i] \in Int
      <4>1. \A i \in 1 .. l : s[i] \in Int
        OBVIOUS
      <4> HIDE DEF l, t
      <4>2. \A i \in a .. l : i \in 1 .. l
        BY <1>1
      <4>3. QED BY <4>1, <4>2, <1>1
    <3> HIDE DEF a, l
    <3>2. /\ SubSeq(s, a, l) \in Seq(Int)
          /\ Len(SubSeq(s, a, l)) = IF a <= l THEN l - a + 1 ELSE 0
          /\ \A i \in 1 .. l - a + 1 : SubSeq(s, a, l)[i] = s[a + i - 1]
      BY <3>1, SubSeqProperties
    <3>3. QED BY <3>2 DEF a
  <2> HIDE DEF t, l
  <2>3. l - (l - n + 1) + 1 = n /\ (l - n + 1 <= l <=> n # 0)
    BY <1>1
  <2>4. \A i \in 1 .. n : l - n + 1 + i - 1 = l - n + i
    BY <1>1
  <2>5. QED BY <2>1, <2>2, <2>3, <2>4, <1>1
<1>3. ASSUME NEW j \in 1 .. n PROVE t[n + 1 - j] = s[l + 1 - j]
  <2> HIDE DEF t, l
  <2>1. n + 1 - j \in 1 .. n /\ l - n + (n + 1 - j) = l + 1 - j
    BY <1>1
  <2>2. QED BY <2>1, <1>2
<1>4. QED BY <1>2, <1>3

\* The write position and its slot move on together.
LEMMA SlotMoves ==
  ASSUME NEW pos \in 0 .. Positions - 1
  PROVE  /\ pos % Samples \in Slot
         /\ (pos + 1) % Positions \in 0 .. Positions - 1
         /\ (pos + 1) % Positions = IF pos + 1 = Positions THEN 0 ELSE pos + 1
         /\ ((pos + 1) % Positions) % Samples
              = IF (pos % Samples) + 1 = Samples THEN 0 ELSE (pos % Samples) + 1
<1> DEFINE q == pos \div Samples
           m == pos % Samples
<1>0. Samples \in Nat \ {0} /\ Positions \in Nat \ {0} /\ Positions % Samples = 0 /\ pos \in Nat
  BY AudioAssumption
<1>1. m \in Slot /\ q \in Int /\ pos = Samples * q + m /\ m \in Nat /\ m < Samples
  BY <1>0 DEF Slot
<1>2. (pos + 1) % Positions = IF pos + 1 = Positions THEN 0 ELSE pos + 1
  <2>1. (pos + 1 \in Int /\ 0 - Positions <= pos + 1 /\ pos + 1 < 2 * Positions) \/ Positions = 1
    BY <1>0
  <2>2. CASE Positions = 1
    BY <2>2, <1>0
  <2>3. CASE Positions # 1
    <3>1. pos + 1 \in Int /\ 0 - Positions <= pos + 1 /\ pos + 1 < 2 * Positions
      BY <2>3, <1>0
    <3> DEFINE y == pos + 1
    <3>2. y \in Int /\ 0 - Positions <= y /\ y < 2 * Positions /\ Positions \in Nat \ {0}
      BY <3>1, <1>0
    <3> HIDE DEF y
    <3>3. y % Positions = IF y < 0 THEN y + Positions ELSE IF y < Positions THEN y ELSE y - Positions
      BY <3>2, ModWrap
    <3>4. y = pos + 1 /\ pos \in Nat /\ pos < Positions
      BY <1>0 DEF y
    <3>5. QED BY <3>2, <3>3, <3>4
  <2>4. QED BY <2>2, <2>3
<1>3. (pos + 1) % Samples = IF m + 1 = Samples THEN 0 ELSE m + 1
  <2> HIDE DEF q, m
  <2>1. CASE m + 1 = Samples
    <3>1. pos + 1 = Samples * (q + 1) + 0
      BY <2>1, <1>0, <1>1
    <3>2. q + 1 \in Int /\ 0 \in 0 .. Samples - 1
      BY <1>0, <1>1
    <3>3. (Samples * (q + 1) + 0) % Samples = 0
      BY <1>0, <3>2, ModIs
    <3>4. QED BY <2>1, <3>1, <3>3
  <2>2. CASE m + 1 # Samples
    <3>1. pos + 1 = Samples * q + (m + 1)
      BY <2>2, <1>0, <1>1
    <3>2. m + 1 \in 0 .. Samples - 1
      BY <1>0, <1>1, <2>2
    <3>3. (Samples * q + (m + 1)) % Samples = m + 1
      BY <1>0, <1>1, <3>2, ModIs
    <3>4. QED BY <2>2, <3>1, <3>3
  <2>3. QED BY <2>1, <2>2
<1>4. 0 % Samples = 0
  BY <1>0
<1>5. ((pos + 1) % Positions) % Samples = IF m + 1 = Samples THEN 0 ELSE m + 1
  <2> HIDE DEF m
  <2>1. CASE pos + 1 = Positions
    <3>1. (pos + 1) % Samples = 0 /\ (pos + 1) % Positions = 0
      BY <2>1, <1>0, <1>2
    <3>2. QED BY <3>1, <1>3, <1>4, Zenon
  <2>2. CASE pos + 1 # Positions
    BY <2>2, <1>2, <1>3
  <2>3. QED BY <2>1, <2>2
<1>6. (pos + 1) % Positions \in 0 .. Positions - 1
  BY <1>0, <1>2
<1>7. QED BY <1>1, <1>2, <1>5, <1>6

\* One cycle keeps the newest samples in the ring.
LEMMA SampledHolds ==
  ASSUME Knobs, NEW st \in Sound
  PROVE  /\ Sampled(st) \in Sound
         /\ HoldsNewest(st) => HoldsNewest(Sampled(st))
<1> DEFINE x == Mix(Turned(st.phase))
           all == Append(st.generated, x)
           n == Len(st.generated)
           keep == Least(n + 1, Samples)
           q == st.pos % Samples
           new == Sampled(st)
<1>0. /\ Samples \in Nat \ {0} /\ st.phase \in [Voice -> Nat] /\ st.buf \in [Slot -> Int]
      /\ st.pos \in 0 .. Positions - 1 /\ st.generated \in Seq(Int) /\ n \in Nat
  BY AudioAssumption DEF Sound
<1>1. x \in Int /\ Turned(st.phase) \in [Voice -> Nat]
  BY <1>0, MixInt
<1>2. all \in Seq(Int) /\ Len(all) = n + 1 /\ all[n + 1] = x /\ \A i \in 1 .. n : all[i] = st.generated[i]
  BY <1>0, <1>1
<1>3. keep \in 0 .. n + 1 /\ keep <= Samples /\ keep # 0
  <2> HIDE DEF n
  <2>1. QED BY <1>0 DEF Least
<1>4. /\ new.phase = Turned(st.phase) /\ new.buf = [st.buf EXCEPT ![q] = x]
      /\ new.pos = (st.pos + 1) % Positions /\ new.generated = Newest(all, keep)
      /\ new = [phase |-> new.phase, buf |-> new.buf, pos |-> new.pos, generated |-> new.generated]
  <2>1. Len(all) = n + 1
    BY <1>2
  <2> HIDE DEF x, n, q
  <2>2. QED BY <2>1 DEF Sampled, x, q
<1>5. /\ q \in Slot /\ new.pos \in 0 .. Positions - 1
      /\ new.pos = IF st.pos + 1 = Positions THEN 0 ELSE st.pos + 1
      /\ new.pos % Samples = IF q + 1 = Samples THEN 0 ELSE q + 1
  BY <1>0, <1>4, SlotMoves
<1>6. /\ new.generated \in Seq(Int) /\ Len(new.generated) = keep
      /\ \A j \in 1 .. keep : new.generated[keep + 1 - j] = all[n + 2 - j]
  <2> HIDE DEF x, n, q, new, keep, all
  <2>1. keep \in 0 .. Len(all)
    BY <1>2, <1>3
  <2>2. \A j \in 1 .. keep : Len(all) + 1 - j = n + 2 - j
    BY <1>2, <1>3, <1>0
  <2>3. /\ Newest(all, keep) \in Seq(Int) /\ Len(Newest(all, keep)) = keep
        /\ \A j \in 1 .. keep : Newest(all, keep)[keep + 1 - j] = all[Len(all) + 1 - j]
    BY <2>1, <1>2, NewestAre
  <2>4. QED BY <2>2, <2>3, <1>4
<1>7. new \in Sound
  <2> HIDE DEF x, n, q, new, keep, all
  <2>1. new.buf \in [Slot -> Int]
    BY <1>0, <1>1, <1>4
  <2>2. QED BY <2>1, <1>1, <1>4, <1>5, <1>6 DEF Sound
<1>8. ASSUME HoldsNewest(st) PROVE HoldsNewest(new)
  <2> HIDE DEF x, q, new, keep, all
  <2>1. n <= Samples /\ Least(st.pos, Samples) <= n
        /\ \A j \in 1 .. n : st.buf[Back(q, j)] = st.generated[n + 1 - j]
    BY <1>8 DEF HoldsNewest, q
  <2> HIDE DEF n
  <2>2. Least(new.pos, Samples) <= keep
    BY <2>1, <1>0, <1>3, <1>5 DEF Least, keep
  <2>3. ASSUME NEW j \in 1 .. keep
        PROVE  new.buf[Back(new.pos % Samples, j)] = new.generated[keep + 1 - j]
    <3>1. j \in Nat /\ 1 <= j /\ j <= keep /\ new.generated[keep + 1 - j] = all[n + 2 - j]
      BY <1>3, <1>6
    <3>2. CASE j = 1
      <4>1. Back(new.pos % Samples, 1) = q
        BY <1>0, <1>5 DEF Back, Slot
      <4>2. new.buf[q] = x
        BY <1>0, <1>4, <1>5
      <4>3. n + 2 - 1 = n + 1
        BY <1>0
      <4>4. QED BY <3>1, <3>2, <4>1, <4>2, <4>3, <1>2
    <3>3. CASE j # 1
      <4> DEFINE i == j - 1
      <4>1. i \in Nat /\ 1 <= i /\ i <= n /\ i < Samples /\ j = i + 1
        BY <3>1, <3>3, <1>0, <1>3
      <4> HIDE DEF i
      <4>2. Back(new.pos % Samples, i + 1) = Back(q, i) /\ Back(q, i) # q /\ Back(q, i) \in Slot
        <5> DEFINE r == new.pos % Samples
        <5>1. r = IF q + 1 = Samples THEN 0 ELSE q + 1
          BY <1>5
        <5> HIDE DEF r
        <5>2. q \in Nat /\ q < Samples /\ Samples \in Nat
          BY <1>0, <1>5 DEF Slot
        <5>3. Back(r, i + 1) = Back(q, i)
          BY <4>1, <5>1, <5>2 DEF Back
        <5>4. Back(q, i) # q /\ Back(q, i) \in Slot
          BY <4>1, <5>2 DEF Back, Slot
        <5>5. QED BY <5>3, <5>4 DEF r
      <4>3. new.buf[Back(q, i)] = st.buf[Back(q, i)]
        BY <4>2, <1>0, <1>4
      <4>4. n + 2 - j = n + 1 - i /\ n + 1 - i \in 1 .. n /\ i \in 1 .. n
        BY <4>1, <1>0
      <4>5. all[n + 1 - i] = st.generated[n + 1 - i]
        BY <4>4, <1>2
      <4>6. st.buf[Back(q, i)] = st.generated[n + 1 - i]
        BY <4>4, <2>1
      <4>7. QED BY <3>1, <4>1, <4>2, <4>3, <4>4, <4>5, <4>6
    <3>4. QED BY <3>2, <3>3
  <2>4. QED BY <2>2, <2>3, <1>3, <1>6, <1>7 DEF HoldsNewest
<1>9. QED BY <1>7, <1>8

\* A tick's loop as a recursive function on the cycles passed so far.
Passing(n) == CHOOSE g : g = [S \in SUBSET (DOMAIN [c \in 1 .. n |-> c]) |->
                IF S = {} THEN Playing ELSE Sampled(g[S \ {Greatest(S)}])]

LEMMA TickIsPassing ==
  ASSUME NEW n, audioTick(n)
  PROVE  LET st == Passing(n)[DOMAIN [c \in 1 .. n |-> c]]
         IN /\ phase' = st.phase /\ sampleBuf' = st.buf
            /\ sampleWritePos' = st.pos /\ generated' = st.generated
BY DEF audioTick, Passing, Playing, FoldLeft, MapThenFoldSet, Max, Greatest

LEMMA PassingIs ==
  ASSUME Knobs, Playing \in Sound, NEW n \in Nat
  PROVE  \A S \in SUBSET (1 .. n) : Passing(n)[S] =
           IF S = {} THEN Playing ELSE Sampled(Passing(n)[S \ {Greatest(S)}])
<1> DEFINE F == [p \in Sound \X (1 .. n) |-> Sampled(p[1])]
           g == Passing(n)
<1>1. F \in [Sound \X (1 .. n) -> Sound]
  BY SampledHolds
<1>2. PICK f \in [SUBSET (1 .. n) -> Sound] : IsFold(f, n, Playing, F)
  <2> HIDE DEF F
  <2>1. QED BY <1>1, FoldDefined
<1>3. ASSUME NEW S \in SUBSET (1 .. n), S # {}
      PROVE  F[<<f[S \ {Greatest(S)}], Greatest(S)>>] = Sampled(f[S \ {Greatest(S)}])
  <2>1. Greatest(S) \in 1 .. n /\ f[S \ {Greatest(S)}] \in Sound
    BY <1>3, GreatestExists
  <2>2. QED BY <2>1
<1> HIDE DEF F
<1>4. f = [S \in SUBSET (1 .. n) |->
             IF S = {} THEN Playing ELSE Sampled(f[S \ {Greatest(S)}])]
  BY <1>2, <1>3 DEF IsFold
<1>5. DOMAIN [c \in 1 .. n |-> c] = 1 .. n
  OBVIOUS
<1>6. f = [S \in SUBSET (DOMAIN [c \in 1 .. n |-> c]) |->
             IF S = {} THEN Playing ELSE Sampled(f[S \ {Greatest(S)}])]
  BY <1>4, <1>5
<1>7. g = [S \in SUBSET (DOMAIN [c \in 1 .. n |-> c]) |->
             IF S = {} THEN Playing ELSE Sampled(g[S \ {Greatest(S)}])]
  BY <1>6, Zenon DEF Passing
<1> HIDE DEF g
<1>8. QED BY <1>5, <1>7 DEF g

LEMMA PassingHolds ==
  ASSUME Knobs, HoldsNewest(Playing), NEW n \in Nat
  PROVE  HoldsNewest(Passing(n)[1 .. n])
<1> DEFINE P == {k \in 0 .. n : HoldsNewest(Passing(n)[1 .. k])}
<1>0. Playing \in Sound
  BY DEF HoldsNewest
<1>1. 0 \in P
  <2>1. 1 .. 0 = {} /\ {} \in SUBSET (1 .. n)
    OBVIOUS
  <2>2. Passing(n)[1 .. 0] = Playing
    BY <2>1, <1>0, PassingIs
  <2>3. QED BY <2>2
<1>2. ASSUME NEW k \in 0 .. n - 1, k \in P PROVE k + 1 \in P
  <2>1. Passing(n)[1 .. k + 1] = Sampled(Passing(n)[1 .. k])
    <3>1. /\ 1 .. k + 1 \in SUBSET (1 .. n) /\ 1 .. k + 1 # {}
          /\ Greatest(1 .. k + 1) = k + 1 /\ (1 .. k + 1) \ {k + 1} = 1 .. k
      BY LastTurn
    <3>2. QED BY <3>1, <1>0, PassingIs
  <2>2. HoldsNewest(Passing(n)[1 .. k]) /\ Passing(n)[1 .. k] \in Sound
    BY <1>2 DEF HoldsNewest
  <2>3. HoldsNewest(Sampled(Passing(n)[1 .. k]))
    BY <2>2, SampledHolds
  <2>4. QED BY <2>1, <2>3
<1>3. \A k \in 0 .. n : k \in P
  <2> HIDE DEF P
  <2>1. QED BY <1>1, <1>2, Induct
<1>4. QED BY <1>3

\* What a history that holds tells of a drain.
LEMMA DrainedIs ==
  ASSUME HoldsNewest(Playing), NEW max \in Nat
  PROVE  Drained(max) = Newest(generated, Least(Least(sampleWritePos, Samples), max))
<1> DEFINE A == Available(max)
           pos == sampleWritePos
           q == pos % Samples
           s == generated
           start == (pos - A) % Samples
           d == Drained(max)
           w == Newest(s, A)
<1>0. /\ Samples \in Nat \ {0} /\ pos \in Nat /\ s \in Seq(Int)
      /\ Len(s) \in Nat /\ Len(s) <= Samples /\ sampleBuf \in [Slot -> Int]
      /\ Least(pos, Samples) <= Len(s)
      /\ \A j \in 1 .. Len(s) : sampleBuf[Back(q, j)] = s[Len(s) + 1 - j]
  <2>1. Playing \in Sound
    BY DEF HoldsNewest
  <2>2. pos \in 0 .. Positions - 1 /\ s \in Seq(Int) /\ sampleBuf \in [Slot -> Int]
    BY <2>1 DEF Sound, Playing
  <2>3. QED BY <2>2, AudioAssumption DEF HoldsNewest, Playing
<1>1. A \in Nat /\ A <= Samples /\ A <= pos /\ A <= Len(s)
  <2> HIDE DEF pos
  <2>1. A = Least(Least(pos, Samples), max)
    BY DEF Available, pos
  <2>2. QED BY <2>1, <1>0 DEF Least
<1>2. /\ w \in Seq(Int) /\ Len(w) = A
      /\ \A j \in 1 .. A : w[A + 1 - j] = s[Len(s) + 1 - j]
  <2> HIDE DEF A, s
  <2>1. A \in 0 .. Len(s)
    BY <1>0, <1>1
  <2>2. QED BY <2>1, <1>0, NewestAre
<1>3. q \in Nat /\ q < Samples /\ pos = Samples * (pos \div Samples) + q
  <2> HIDE DEF pos
  <2>1. QED BY <1>0
<1>4. start = Back(q, A) /\ start \in Slot
  <2> DEFINE k == pos \div Samples
  <2>1. k \in Int /\ pos = Samples * k + q
    <3> HIDE DEF q, A
    <3>1. QED BY <1>0, <1>3
  <2> HIDE DEF k, q, A, pos
  <2>2. CASE A <= q
    <3>1. q - A \in 0 .. Samples - 1 /\ pos - A = Samples * k + (q - A)
      BY <2>1, <2>2, <1>0, <1>1, <1>3
    <3>2. (Samples * k + (q - A)) % Samples = q - A
      BY <3>1, <2>1, <1>0, ModIs
    <3>3. QED BY <3>1, <3>2, <2>2 DEF Back, Slot
  <2>3. CASE A > q
    <3>1. q - A + Samples \in 0 .. Samples - 1 /\ k - 1 \in Int
          /\ pos - A = Samples * (k - 1) + (q - A + Samples)
      BY <2>1, <2>3, <1>0, <1>1, <1>3
    <3>2. (Samples * (k - 1) + (q - A + Samples)) % Samples = q - A + Samples
      BY <3>1, <1>0, ModIs
    <3>3. QED BY <3>1, <3>2, <2>3, <1>0, <1>1, <1>3 DEF Back, Slot
  <2>4. QED BY <2>2, <2>3, <1>1, <1>3
<1>5. ASSUME NEW i \in 1 .. A PROVE sampleBuf[(start + i - 1) % Samples] = w[i]
  <2> DEFINE j == A + 1 - i
             x == start + i - 1
  <2> HIDE DEF A, q, s, w, start, pos
  <2>1. j \in 1 .. A /\ j \in 1 .. Len(s) /\ A + 1 - j = i
    BY <1>1, <1>0
  <2>2. start \in Nat /\ start < Samples
    BY <1>4, <1>0 DEF Slot
  <2>3. x \in Int /\ 0 - Samples <= x /\ x < 2 * Samples /\ 0 <= x
    BY <2>2, <1>0, <1>1
  <2>4. x % Samples = IF x < 0 THEN x + Samples ELSE IF x < Samples THEN x ELSE x - Samples
    <3> HIDE DEF x
    <3>1. QED BY <2>3, <1>0, ModWrap
  <2>5. x % Samples = Back(q, j)
    <3>1. x = Back(q, A) + i - 1
      BY <1>4
    <3> DEFINE y == x % Samples
    <3>2. y = IF x < 0 THEN x + Samples ELSE IF x < Samples THEN x ELSE x - Samples
      BY <2>4
    <3> HIDE DEF y, x
    <3>3. y = Back(q, j)
      BY <3>1, <3>2, <2>3, <1>0, <1>1, <1>3 DEF Back
    <3>4. QED BY <3>3 DEF y
  <2>6. sampleBuf[Back(q, j)] = s[Len(s) + 1 - j]
    BY <2>1, <1>0
  <2>7. w[i] = s[Len(s) + 1 - j]
    <3> HIDE DEF j
    <3>1. w[A + 1 - j] = s[Len(s) + 1 - j]
      BY <2>1, <1>2
    <3>2. QED BY <3>1, <2>1
  <2>8. QED BY <2>5, <2>6, <2>7
<1>6. d = [i \in 1 .. A |-> sampleBuf[(start + i - 1) % Samples]]
  BY DEF Drained
<1> HIDE DEF A, q, s, w, start, pos, d
<1>7. d = [i \in 1 .. A |-> w[i]]
  BY <1>5, <1>6
<1>8. d \in Seq(Int) /\ Len(d) = A /\ \A i \in 1 .. A : d[i] = w[i]
  BY <1>1, <1>2, <1>7
<1>9. d = w
  BY <1>2, <1>8, SeqEqual
<1>10. QED BY <1>9 DEF d, w, s, A, Available

LEMMA AudioHolds == AudioSpec => []AudioInv
<1>1. AudioInit => AudioInv
  <2> SUFFICES ASSUME AudioInit PROVE AudioInv
    OBVIOUS
  <2>1. Silent \in [Voice -> Nat]
    BY DEF Silent
  <2>2. Knobs
    BY <2>1 DEF AudioInit, Knobs
  <2>3. Playing \in Sound
    BY <2>1, AudioAssumption DEF AudioInit, Playing, Sound, Slot
  <2>4. Playing.generated = <<>> /\ Playing.pos = 0 /\ Len(<<>>) = 0
    BY DEF AudioInit, Playing
  <2>5. QED BY <2>2, <2>3, <2>4, AudioAssumption DEF AudioInv, HoldsNewest, Least
<1>2. AudioInv /\ [AudioNext]_audioVars => AudioInv'
  <2> SUFFICES ASSUME AudioInv, [AudioNext]_audioVars PROVE AudioInv'
    OBVIOUS
  <2>1. ASSUME Knobs', UNCHANGED <<phase, sampleBuf, sampleWritePos, generated>> PROVE AudioInv'
    <3>1. Playing' = Playing
      BY <2>1 DEF Playing
    <3>2. HoldsNewest(Playing)'
      BY <3>1 DEF AudioInv, HoldsNewest, Sound
    <3>3. QED BY <2>1, <3>2 DEF AudioInv
  <2>2. ASSUME NEW ch \in Voice, NEW f \in Freqs, WriteFreq(ch, f) PROVE AudioInv'
    <3>1. f \in Nat
      BY AudioAssumption
    <3>2. Knobs'
      BY <2>2, <3>1 DEF WriteFreq, Knobs, AudioInv
    <3>3. QED BY <2>1, <2>2, <3>2 DEF WriteFreq
  <2>3. ASSUME NEW ch \in Voice, NEW w \in Volumes, WriteVolume(ch, w) PROVE AudioInv'
    <3>1. w % (Loud + 1) \in Nat
      BY AudioAssumption
    <3>2. Knobs'
      BY <2>3, <3>1 DEF WriteVolume, Knobs, AudioInv
    <3>3. QED BY <2>1, <2>3, <3>2 DEF WriteVolume
  <2>4. ASSUME NEW bits \in SUBSET (Voice \cup {2}), WriteAudioCtrl(bits) PROVE AudioInv'
    <3>1. Knobs'
      BY <2>4 DEF WriteAudioCtrl, Knobs, AudioInv
    <3>2. QED BY <2>1, <2>4, <3>1 DEF WriteAudioCtrl
  <2>5. ASSUME NEW n \in 0 .. MaxTick, audioTick(n) PROVE AudioInv'
    <3>1. n \in Nat
      BY AudioAssumption
    <3> DEFINE st == Passing(n)[1 .. n]
    <3>2. HoldsNewest(st)
      BY <3>1, PassingHolds DEF AudioInv
    <3>3. /\ phase' = st.phase /\ sampleBuf' = st.buf
          /\ sampleWritePos' = st.pos /\ generated' = st.generated
      <4>1. DOMAIN [c \in 1 .. n |-> c] = 1 .. n
        OBVIOUS
      <4>2. QED BY <2>5, <4>1, TickIsPassing
    <3> HIDE DEF st
    <3>4. Playing' = st
      BY <3>2, <3>3 DEF Playing, HoldsNewest, Sound
    <3>5. HoldsNewest(Playing)'
      BY <3>2, <3>4 DEF HoldsNewest, Sound
    <3>6. Knobs'
      <4>1. UNCHANGED <<freq, volume, voices>>
        BY <2>5, Zenon DEF audioTick
      <4>2. QED BY <4>1 DEF Knobs, AudioInv
    <3>7. QED BY <3>5, <3>6 DEF AudioInv
  <2>6. CASE audioReset
    <3>1. Silent \in [Voice -> Nat]
      BY DEF Silent
    <3>2. Knobs'
      BY <2>6, <3>1 DEF audioReset, Knobs
    <3>3. Playing' \in Sound
      BY <2>6, <3>1, AudioAssumption DEF audioReset, Playing, Sound, Slot
    <3>4. Playing'.generated = <<>> /\ Playing'.pos = 0 /\ Len(<<>>) = 0
      BY <2>6 DEF audioReset, Playing
    <3>5. HoldsNewest(Playing)'
      BY <3>3, <3>4, AudioAssumption DEF HoldsNewest, Least, Sound
    <3>6. QED BY <3>2, <3>5 DEF AudioInv
  <2>7. CASE UNCHANGED audioVars
    <3>1. Knobs'
      BY <2>7 DEF audioVars, Knobs, AudioInv
    <3>2. QED BY <2>1, <2>7, <3>1 DEF audioVars
  <2>8. QED BY <2>2, <2>3, <2>4, <2>5, <2>6, <2>7 DEF AudioNext
<1>3. QED BY <1>1, <1>2, PTL DEF AudioSpec

(* A drain gives the newest samples in their order, for a ring and a host of *)
(* any size: the ring has them backwards from the write position, and they   *)
(* stay where they are when the position wraps, its range being a multiple   *)
(* of the ring's slots.                                                      *)
THEOREM AudioDrains == AudioSpec => []DrainsNewest
<1>1. AudioInv => DrainsNewest
  <2>1. \A max \in 0 .. Samples + 1 : max \in Nat
    BY AudioAssumption
  <2>2. QED BY <2>1, DrainedIs DEF AudioInv, DrainsNewest
<1>2. QED BY <1>1, AudioHolds, PTL
=============================================================================
