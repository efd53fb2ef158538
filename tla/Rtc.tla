-------------------------------- MODULE Rtc --------------------------------
(***************************************************************************)
(* The real-time clock (src/src/devices/rtc.c): its registers are filled   *)
(* from the host's clock, all at once, at each read, or once when bit 0 of *)
(* the control register is set.  A time is an instant, and the value of a  *)
(* register is the instant it tells of.                                    *)
(***************************************************************************)
EXTENDS Integers, FiniteSets

CONSTANT LastInstant      \* bound on the host's clock
ASSUME RtcAssumption == LastInstant \in Nat

VARIABLES
  now,            \* the host's clock
  instant,        \* the instant the registers were filled at
  latched,
  seen            \* history: the instants of what was read since the last latch

rtcVars == <<now, instant, latched, seen>>

RtcInit == now = 0 /\ instant = 0 /\ latched = FALSE /\ seen = {}
rtcReset == latched' = FALSE /\ seen' = {} /\ UNCHANGED <<now, instant>>

Elapse == now < LastInstant /\ now' = now + 1 /\ UNCHANGED <<instant, latched, seen>>

\* rtcLatch at a time t, where localtime may fail.
FilledAt(t) == {t, instant}

\* The time of day at each read, one for each byte of a word, lies between now
\* and the time the second byte is read.
ReadAlwaysFilling ==                                       \* a mutant of the next
  \E t \in now .. LastInstant : \E first \in FilledAt(now) :
    /\ now' = t /\ instant' \in {t, first}
    /\ seen' = seen \cup {first, instant'}
    /\ UNCHANGED latched

rtcReadWord ==
  \E t \in now .. LastInstant : \E first \in IF latched THEN {instant} ELSE FilledAt(now) :
    /\ now' = t /\ instant' \in IF latched THEN {first} ELSE {t, first}
    /\ seen' = seen \cup {first, instant'}
    /\ UNCHANGED latched
rtcReadByte ==
  /\ instant' \in IF latched THEN {instant} ELSE FilledAt(now)
  /\ seen' = seen \cup {instant'}
  /\ UNCHANGED <<now, latched>>

\* rtcWriteByte at 7, the control register; a word write never reaches it.
WriteRtcCtrl(latch) ==
  /\ latched' = latch
  /\ instant' \in IF latch THEN FilledAt(now) ELSE {instant}
  /\ seen' = IF latch THEN {} ELSE seen
  /\ UNCHANGED now

RtcNext ==
  \/ Elapse \/ rtcReadWord \/ rtcReadByte \/ rtcReset
  \/ (\E latch \in BOOLEAN : WriteRtcCtrl(latch))

RtcSpec == RtcInit /\ [][RtcNext]_rtcVars

----------------------------------------------------------------------------
(* While the clock is latched, every register read tells of one instant,      *)
(* however long the program takes, so that a time read in several reads is    *)
(* one that has been.  Without the latch this fails even for a single word.   *)
OneInstant == latched => Cardinality(seen) <= 1
=============================================================================
