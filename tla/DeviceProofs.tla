--------------------------- MODULE DeviceProofs ---------------------------
(* Proofs about the timer, the video and interrupt controllers and the       *)
(* real-time clock.                                                          *)
EXTENDS Rtc, FiniteSetTheorems, Timer, Video, Pic, TLAPS

----------------------------------------------------------------------------
(* The timer *)

TimerTypes ==
  /\ counter \in WordValue /\ reload \in WordValue /\ loaded \in WordValue
  /\ enabled \in BOOLEAN /\ fired \in BOOLEAN

\* A word stays a word when either of its halves is replaced.
LEMMA HalvesOfWord ==
  ASSUME NEW r \in WordValue, NEW v \in Byte, NEW w \in Byte
  PROVE  /\ (r % Half) + Half * v \in WordValue
         /\ Half * (r \div Half) + v \in WordValue
         /\ Half * v + w \in WordValue
<1>1. /\ Half \in Int /\ Half > 0 /\ r \in Int /\ 0 <= r /\ r <= Half * Half - 1
      /\ v \in Int /\ w \in Int /\ 0 <= v /\ v <= Half - 1 /\ 0 <= w /\ w <= Half - 1
  BY TimerAssumption DEF WordValue, Byte
<1> DEFINE q == r \div Half
           m == r % Half
<1>2. q \in Int /\ m \in Int /\ 0 <= m /\ m <= Half - 1 /\ r = Half * q + m
  BY <1>1
<1>3. \A x, y \in Int : 0 <= x /\ x <= Half - 1 /\ 0 <= y /\ y <= Half - 1
                          => Half * x + y \in WordValue
  <2> SUFFICES ASSUME NEW x \in Int, NEW y \in Int, 0 <= x, x <= Half - 1, 0 <= y, y <= Half - 1
               PROVE  Half * x + y \in WordValue
    OBVIOUS
  <2>1. 0 <= Half * x /\ Half * x <= Half * (Half - 1) /\ Half * x \in Int
    BY <1>1
  <2>2. Half * (Half - 1) = Half * Half - Half /\ Half * Half \in Int
    BY <1>1
  <2> DEFINE p == Half * x
             s == Half * Half
  <2>3. p \in Int /\ s \in Int /\ 0 <= p /\ p <= s - Half
    BY <2>1, <2>2
  <2>4. p + y \in 0 .. s - 1
    <3> HIDE DEF p, s
    <3>1. QED BY <2>3, <1>1
  <2>5. QED BY <2>4 DEF WordValue
<1>4. 0 <= q /\ q <= Half - 1
  <2> HIDE DEF q, m
  <2>1. Half * q <= Half * Half - 1 /\ Half * q > 0 - Half
    <3> DEFINE p == Half * q
               s == Half * Half
    <3>1. p \in Int /\ s \in Int
      BY <1>1, <1>2
    <3> HIDE DEF p, s
    <3>2. r = p + m /\ r <= s - 1
      BY <1>1, <1>2 DEF p, s
    <3>3. p <= s - 1 /\ p > 0 - Half
      BY <1>1, <1>2, <3>1, <3>2
    <3>4. QED BY <3>3 DEF p, s
  <2>2. q < Half
    <3>1. SUFFICES ASSUME q >= Half PROVE FALSE
      BY <1>1, <1>2
    <3>2. Half * q >= Half * Half
      BY <3>1, <1>1, <1>2
    <3>3. QED BY <3>2, <2>1, <1>1, <1>2
  <2>3. q > -1
    <3>1. SUFFICES ASSUME q <= -1 PROVE FALSE
      BY <1>1, <1>2
    <3>2. Half * q <= Half * (-1)
      BY <3>1, <1>1, <1>2
    <3>3. QED BY <3>2, <2>1, <1>1, <1>2
  <2>4. QED BY <2>2, <2>3, <1>1, <1>2
<1>5. m + Half * v = Half * v + m
  BY <1>1, <1>2
<1>6. QED
  <2> HIDE DEF q, m
  <2>1. /\ Half * v + m \in WordValue
        /\ Half * q + v \in WordValue /\ Half * v + w \in WordValue
    BY <1>1, <1>2, <1>3, <1>4
  <2>2. QED BY <2>1, <1>5 DEF q, m

LEMMA ZeroIsWord == 0 \in WordValue
<1>1. Half \in Nat /\ 1 <= Half
  BY TimerAssumption
<1>2. 1 * Half <= Half * Half
  BY <1>1
<1>3. Half * Half \in Nat /\ 1 <= Half * Half
  BY <1>1, <1>2
<1>4. QED BY <1>3 DEF WordValue

LEMMA TimerTypesHold == TimerSpec => []TimerTypes
<1>1. TimerInit => TimerTypes
  BY ZeroIsWord DEF TimerInit, TimerTypes
<1>2. TimerTypes /\ [TimerNext]_timerVars => TimerTypes'
  <2> SUFFICES ASSUME TimerTypes, [TimerNext]_timerVars PROVE TimerTypes'
    OBVIOUS
  <2> USE DEF TimerTypes
  <2>1. CASE WriteReload
    BY <2>1, HalvesOfWord DEF WriteReload
  <2>2. ASSUME NEW run \in BOOLEAN, WriteControl(run) PROVE TimerTypes'
    BY <2>2 DEF WriteControl
  <2>3. ASSUME NEW c \in Cycles, timerTick(c) PROVE TimerTypes'
    <3>1. CASE enabled /\ counter <= c
      BY <2>3, <3>1 DEF timerTick
    <3>2. CASE ~(enabled /\ counter <= c)
      <4>1. (counter - c \in Nat /\ counter - c <= counter) \/ ~enabled
        BY <3>2, TimerAssumption DEF Cycles, WordValue
      <4>2. ~enabled \/ counter - c \in WordValue
        BY <4>1, TimerAssumption DEF WordValue
      <4>3. QED BY <2>3, <3>2, <4>2 DEF timerTick
    <3>3. QED BY <3>1, <3>2
  <2>4. CASE timerReset
    BY <2>4, ZeroIsWord DEF timerReset
  <2>5. CASE UNCHANGED timerVars
    BY <2>5 DEF timerVars
  <2>6. QED BY <2>1, <2>2, <2>3, <2>4, <2>5 DEF TimerNext
<1>3. QED BY <1>1, <1>2, PTL DEF TimerSpec

(* The down counter implements the alarm, for words of any size and ticks of   *)
(* any length: no period ends a cycle early or a tick late.                    *)
THEOREM TimerRingsOnTime == TimerSpec => RingsOnTime
<1>1. TimerInit => A!AlarmInit
  BY DEF TimerInit, A!AlarmInit
<1>2. TimerTypes /\ [TimerNext]_timerVars => [A!AlarmNext]_(A!avars)
  <2> SUFFICES ASSUME TimerTypes, [TimerNext]_timerVars PROVE [A!AlarmNext]_(A!avars)
    OBVIOUS
  <2>0. counter \in Int /\ loaded \in Int /\ reload \in Int
    BY DEF TimerTypes, WordValue
  <2>1. CASE WriteReload
    <3>1. reload' \in WordValue
      BY <2>1, HalvesOfWord DEF WriteReload, TimerTypes
    <3>2. A!SetNext
      BY <2>1, <3>1 DEF WriteReload, A!SetNext
    <3>3. QED BY <3>2 DEF A!AlarmNext
  <2>2. ASSUME NEW run \in BOOLEAN, WriteControl(run) PROVE A!AlarmNext
    <3>1. CASE run
      BY <2>2, <3>1, <2>0 DEF WriteControl, A!AlarmNext, A!Start
    <3>2. CASE ~run
      BY <2>2, <3>2 DEF WriteControl, A!AlarmNext, A!Stop
    <3>3. QED BY <3>1, <3>2
  <2>3. ASSUME NEW c \in Cycles, timerTick(c) PROVE A!AlarmNext \/ UNCHANGED A!avars
    <3>0. c \in Int
      BY TimerAssumption DEF Cycles
    <3>1. CASE enabled /\ counter <= c
      <4>1. A!Ring(c)
        BY <2>3, <3>1, <2>0, <3>0 DEF timerTick, A!Ring
      <4>2. QED BY <4>1 DEF A!AlarmNext
    <3>2. CASE enabled /\ ~(counter <= c)
      <4>1. A!Pass(c)
        BY <2>3, <3>2, <2>0, <3>0 DEF timerTick, A!Pass
      <4>2. QED BY <4>1 DEF A!AlarmNext
    <3>3. CASE ~enabled
      BY <2>3, <3>3 DEF timerTick, A!avars
    <3>4. QED BY <3>1, <3>2, <3>3
  <2>4. CASE timerReset
    BY <2>4 DEF timerReset, A!AlarmNext, A!Reset
  <2>5. CASE UNCHANGED timerVars
    BY <2>5 DEF timerVars, A!avars
  <2>6. QED BY <2>1, <2>2, <2>3, <2>4, <2>5 DEF TimerNext
<1>3. QED BY <1>1, <1>2, TimerTypesHold, PTL DEF TimerSpec, RingsOnTime, A!AlarmSpec

----------------------------------------------------------------------------
(* The video controller *)

\* What FramesOnTime rests on: what is not yet a frame is in the accumulator.
Accounted ==
  /\ ran \in Nat /\ frames \in Nat /\ cycleAccum \in Nat
  /\ cycleAccum < cyclesPerFrame
  /\ ran = cyclesPerFrame * frames + cycleAccum

LEMMA Quotient ==
  ASSUME NEW p \in Nat \ {0}, NEW f \in Nat, NEW a \in Nat, a < p
  PROVE  (p * f + a) \div p = f
<1> DEFINE n == p * f + a
           q == n \div p
           m == n % p
<1>1. n \in Nat /\ q \in Int /\ m \in Int /\ 0 <= m /\ m < p /\ n = p * q + m
  <2>1. n \in Nat
    OBVIOUS
  <2> HIDE DEF n
  <2>2. QED BY <2>1
<1>2. q = f
  <2> HIDE DEF q, m
  <2>0. p * f + a = p * q + m
    BY <1>1
  <2> HIDE DEF n
  <2>1. SUFFICES ASSUME q # f PROVE FALSE
    OBVIOUS
  <2>2. CASE q >= f + 1
    <3>1. p * q >= p * (f + 1)
      BY <2>2, <1>1
    <3>2. p * (f + 1) = p * f + p
      BY <1>1
    <3>3. QED BY <3>1, <3>2, <2>0, <1>1
  <2>3. CASE f >= q + 1
    <3>1. p * f >= p * (q + 1)
      BY <2>3, <1>1
    <3>2. p * (q + 1) = p * q + p
      BY <1>1
    <3>3. QED BY <3>1, <3>2, <2>0, <1>1
  <2>4. QED BY <2>1, <2>2, <2>3, <1>1
<1>3. QED BY <1>2

(* Vertical blanks do not drift, whatever the lengths of frames and steps.     *)
THEOREM VideoFramesOnTime == VideoSpec => []FramesOnTime
<1>1. VideoInit => Accounted
  BY VideoAssumption DEF VideoInit, Accounted
<1>2. Accounted /\ [VideoNext]_videoVars => Accounted'
  <2> SUFFICES ASSUME Accounted, [VideoNext]_videoVars PROVE Accounted'
    OBVIOUS
  <2>1. CASE WriteCtrl \/ WriteStatus \/ UNCHANGED videoVars
    BY <2>1 DEF WriteCtrl, WriteStatus, videoVars, Accounted
  <2>2. ASSUME NEW c \in 0 .. MaxStep, videoTick(c) PROVE Accounted'
    <3>1. /\ c \in Nat /\ c < cyclesPerFrame /\ cyclesPerFrame \in Nat
          /\ cyclesPerFrame * frames \in Nat
          /\ cyclesPerFrame * (frames + 1) = cyclesPerFrame * frames + cyclesPerFrame
      BY VideoAssumption DEF Accounted
    <3>2. CASE cycleAccum + c >= cyclesPerFrame
      BY <2>2, <3>1, <3>2 DEF videoTick, Remaining, Accounted
    <3>3. CASE ~(cycleAccum + c >= cyclesPerFrame)
      BY <2>2, <3>1, <3>3 DEF videoTick, Remaining, Accounted
    <3>4. QED BY <3>2, <3>3
  <2>3. CASE videoReset
    BY <2>3, VideoAssumption DEF videoReset, Accounted
  <2>4. QED BY <2>1, <2>2, <2>3 DEF VideoNext
<1>3. Accounted => FramesOnTime
  BY Quotient, VideoAssumption DEF Accounted, FramesOnTime
<1>4. QED BY <1>1, <1>2, <1>3, PTL DEF VideoSpec

----------------------------------------------------------------------------
(* The interrupt controller *)

(* The output is never stale, for any set of lines, those out of range too.    *)
THEOREM PicOutputCurrent == PicSpec => []OutputCurrent
<1>1. PicInit => OutputCurrent
  BY DEF PicInit, OutputCurrent, Output
<1>2. OutputCurrent /\ [PicNext]_picVars => OutputCurrent'
  <2> SUFFICES ASSUME OutputCurrent, [PicNext]_picVars PROVE OutputCurrent'
    OBVIOUS
  <2>1. ASSUME picRecalc PROVE OutputCurrent'
    BY <2>1 DEF picRecalc, OutputCurrent
  <2>2. CASE WriteEnable \/ WriteService \/ WritePriority
    BY <2>2, <2>1 DEF WriteEnable, WriteService, WritePriority
  <2>3. ASSUME NEW line, picAssertLine(line) \/ picDeassertLine(line) PROVE OutputCurrent'
    BY <2>3, <2>1 DEF picAssertLine, picDeassertLine
  <2>4. CASE picReset
    BY <2>4 DEF picReset, OutputCurrent, Output
  <2>5. CASE UNCHANGED picVars
    BY <2>5 DEF picVars, OutputCurrent, Output
  <2>6. QED BY <2>2, <2>3, <2>4, <2>5 DEF PicNext
<1>3. QED BY <1>1, <1>2, PTL DEF PicSpec

----------------------------------------------------------------------------
(* The real-time clock *)

\* What OneInstant rests on: what was read is what the registers hold.
SeenIsHeld == latched => seen \subseteq {instant}

(* A latched time is one instant, however long the program takes to read it    *)
(* and whether or not the host could tell the time when it was latched.        *)
THEOREM RtcOneInstant == RtcSpec => []OneInstant
<1>1. RtcInit => SeenIsHeld
  BY DEF RtcInit, SeenIsHeld
<1>2. SeenIsHeld /\ [RtcNext]_rtcVars => SeenIsHeld'
  <2> SUFFICES ASSUME SeenIsHeld, [RtcNext]_rtcVars PROVE SeenIsHeld'
    OBVIOUS
  <2>1. CASE rtcReadWord
    <3>1. PICK t \in now .. LastInstant, first \in IF latched THEN {instant} ELSE FilledAt(now) :
               /\ instant' \in IF latched THEN {first} ELSE {t, first}
               /\ seen' = seen \cup {first, instant'}
               /\ latched' = latched
      BY <2>1, Zenon DEF rtcReadWord
    <3>2. latched => first = instant /\ instant' = instant
      BY <3>1
    <3>3. QED BY <3>1, <3>2 DEF SeenIsHeld
  <2>2. CASE rtcReadByte
    <3>1. latched => instant' = instant
      BY <2>2 DEF rtcReadByte
    <3>2. seen' = seen \cup {instant'} /\ latched' = latched
      BY <2>2 DEF rtcReadByte
    <3>3. QED BY <3>1, <3>2 DEF SeenIsHeld
  <2>3. ASSUME NEW latch \in BOOLEAN, WriteRtcCtrl(latch) PROVE SeenIsHeld'
    BY <2>3 DEF WriteRtcCtrl, SeenIsHeld
  <2>4. CASE Elapse \/ rtcReset \/ UNCHANGED rtcVars
    BY <2>4 DEF Elapse, rtcReset, rtcVars, SeenIsHeld
  <2>5. QED BY <2>1, <2>2, <2>3, <2>4 DEF RtcNext
<1>3. SeenIsHeld => OneInstant
  <2>1. IsFiniteSet({instant}) /\ Cardinality({instant}) = 1
    BY FS_Singleton
  <2>2. \A T \in SUBSET {instant} : Cardinality(T) <= 1
    BY <2>1, FS_Subset
  <2>3. QED BY <2>2 DEF SeenIsHeld, OneInstant
<1>4. QED BY <1>1, <1>2, <1>3, PTL DEF RtcSpec
=============================================================================
