------------------------------- MODULE Alarm -------------------------------
(***************************************************************************)
(* What the timer promises: while it runs it adds up the cycles that pass, *)
(* and at the first tick that completes a period its line goes up and the  *)
(* next period begins.  A period that has begun keeps its length.          *)
(***************************************************************************)
EXTENDS Integers

CONSTANTS
  Periods,    \* the lengths a period can have
  Cycles      \* the cycles a tick can bring

VARIABLES
  next,       \* the length of periods to come
  period,     \* the length of the current one
  elapsed,    \* what has passed of it
  running,
  line

avars == <<next, period, elapsed, running, line>>

AlarmInit == next = 0 /\ period = 0 /\ elapsed = 0 /\ running = FALSE /\ line = FALSE

SetNext == next' \in Periods /\ UNCHANGED <<period, elapsed, running, line>>

Start == /\ running' = TRUE /\ line' = FALSE
         /\ period' = next /\ elapsed' = 0 /\ UNCHANGED next

Stop == running' = FALSE /\ UNCHANGED <<next, period, elapsed, line>>

Pass(c) ==
  /\ running /\ elapsed + c < period
  /\ elapsed' = elapsed + c /\ UNCHANGED <<next, period, running, line>>

Ring(c) ==
  /\ running /\ elapsed + c >= period
  /\ line' = TRUE /\ period' = next /\ elapsed' = 0 /\ UNCHANGED <<next, running>>

Reset ==
  next' = 0 /\ period' = 0 /\ elapsed' = 0 /\ running' = FALSE /\ line' = FALSE

AlarmNext ==
  SetNext \/ Start \/ Stop \/ (\E c \in Cycles : Pass(c) \/ Ring(c)) \/ Reset

AlarmSpec == AlarmInit /\ [][AlarmNext]_avars
=============================================================================
