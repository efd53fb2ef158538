------------------------------- MODULE Timer -------------------------------
(***************************************************************************)
(* The programmable timer (src/src/devices/timer.c): a down counter that   *)
(* machineTickDevices lowers by the cycles of each machine step.           *)
(***************************************************************************)
EXTENDS Integers

CONSTANTS
  Half,       \* a byte is 0 .. Half - 1 (256), a word 0 .. Half * Half - 1
  MaxCycles   \* bound: cycles of one machine step

ASSUME TimerAssumption == Half \in Nat \ {0} /\ MaxCycles \in Nat

VARIABLES
  counter, reload,
  enabled,    \* bit 0 of control
  fired,
  loaded      \* history: what the counter was last loaded with

timerVars == <<counter, reload, enabled, fired, loaded>>

Byte == 0 .. Half - 1
WordValue == 0 .. Half * Half - 1
Cycles == 0 .. MaxCycles

\* timerCreate and timerReset
TimerInit ==
  counter = 0 /\ reload = 0 /\ enabled = FALSE /\ fired = FALSE /\ loaded = 0
timerReset ==
  counter' = 0 /\ reload' = 0 /\ enabled' = FALSE /\ fired' = FALSE /\ loaded' = 0

\* timerWriteByte and timerWriteWord: the high byte, the low byte or the word of
\* COUNTER, which is the value of the next reload.
WriteReload ==
  /\ \E v \in Byte : \/ reload' = (reload % Half) + Half * v
                     \/ reload' = Half * (reload \div Half) + v
                     \/ \E w \in Byte : reload' = Half * v + w
  /\ UNCHANGED <<counter, enabled, fired, loaded>>

\* CONTROL: bit 0 set restarts the count and acknowledges the interrupt; clear,
\* it stops the count and leaves the line as it is.
WriteControl(run) ==
  /\ enabled' = run
  /\ IF run THEN counter' = reload /\ loaded' = reload /\ fired' = FALSE
            ELSE UNCHANGED <<counter, loaded, fired>>
  /\ UNCHANGED reload

\* A mutant of the next: it waits for the counter to pass zero.
TickLate(cycles) ==
  /\ IF enabled /\ counter < cycles
       THEN counter' = reload /\ loaded' = reload /\ fired' = TRUE
       ELSE /\ counter' = IF enabled THEN counter - cycles ELSE counter
            /\ UNCHANGED <<loaded, fired>>
  /\ UNCHANGED <<reload, enabled>>

timerTick(cycles) ==
  /\ IF enabled /\ counter <= cycles
       THEN counter' = reload /\ loaded' = reload /\ fired' = TRUE
       ELSE /\ counter' = IF enabled THEN counter - cycles ELSE counter
            /\ UNCHANGED <<loaded, fired>>
  /\ UNCHANGED <<reload, enabled>>

TimerNext ==
  \/ WriteReload \/ (\E run \in BOOLEAN : WriteControl(run))
  \/ (\E c \in Cycles : timerTick(c)) \/ timerReset

TimerSpec == TimerInit /\ [][TimerNext]_timerVars

----------------------------------------------------------------------------
(* The counter implements Alarm: it rings neither a cycle early nor a tick     *)
(* late, whatever is written to the registers meanwhile and in whatever halves *)
(* the next period is written (what a tick brings beyond the end of a period   *)
(* is not counted for the next one, in Alarm as in the code).                  *)
A == INSTANCE Alarm WITH
       Periods <- WordValue, next <- reload, period <- loaded,
       elapsed <- loaded - counter, running <- enabled, line <- fired
RingsOnTime == A!AlarmSpec
=============================================================================
