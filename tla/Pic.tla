-------------------------------- MODULE Pic --------------------------------
(***************************************************************************)
(* The interrupt controller (src/src/devices/pic.c): lines that are        *)
(* asserted and enabled make one output at the base priority.  The output  *)
(* is kept in interruptLevel, which picRecalc computes.                    *)
(***************************************************************************)
EXTENDS Integers

CONSTANTS Line,     \* the lines 0 .. PIC_MAX_SOURCES - 1
          NoLine    \* a line number out of that range

VARIABLES pendingMask, enableMask, serviceMask, priorityLevel, interruptLevel

picVars == <<pendingMask, enableMask, serviceMask, priorityLevel, interruptLevel>>

Output == IF (pendingMask \cap enableMask) \ serviceMask # {} THEN priorityLevel ELSE 0
picRecalc == interruptLevel' = Output'

PicInit ==
  /\ pendingMask = {} /\ enableMask = {} /\ serviceMask = {}
  /\ priorityLevel = 0 /\ interruptLevel = 0
picReset ==
  /\ pendingMask' = {} /\ enableMask' = {} /\ serviceMask' = {}
  /\ priorityLevel' = 0 /\ interruptLevel' = 0

\* picWriteByte at 1, 2 and 3: enable, acknowledge, priority.  A write at 0, as
\* the first half of a word write at 0 makes one, only recalculates.
WriteEnable ==
  /\ enableMask' \in SUBSET Line
  /\ UNCHANGED <<pendingMask, serviceMask, priorityLevel>> /\ picRecalc
WriteService ==
  /\ \E ack \in SUBSET Line : serviceMask' = serviceMask \ ack
  /\ UNCHANGED <<pendingMask, enableMask, priorityLevel>> /\ picRecalc
WritePriority ==
  /\ priorityLevel' \in 0 .. 7
  /\ UNCHANGED <<pendingMask, enableMask, serviceMask>> /\ picRecalc

\* Lines out of range are ignored.
picAssertLine(line) ==
  /\ line \in Line
  /\ pendingMask' = pendingMask \cup {line}
  /\ UNCHANGED <<enableMask, serviceMask, priorityLevel>> /\ picRecalc

DeassertWithoutRecalc(line) ==                    \* a mutant of the next
  /\ line \in Line
  /\ pendingMask' = pendingMask \ {line}
  /\ UNCHANGED <<enableMask, serviceMask, priorityLevel, interruptLevel>>
picDeassertLine(line) ==
  /\ line \in Line
  /\ pendingMask' = pendingMask \ {line}
  /\ UNCHANGED <<enableMask, serviceMask, priorityLevel>> /\ picRecalc

PicNext ==
  \/ WriteEnable \/ WriteService \/ WritePriority \/ picReset
  \/ \E line \in Line \cup {NoLine} : picAssertLine(line) \/ picDeassertLine(line)

PicSpec == PicInit /\ [][PicNext]_picVars

----------------------------------------------------------------------------
(* The kept output is never stale: after any sequence of register writes and   *)
(* line changes it is what the masks give (four places must recalculate it).   *)
OutputCurrent == interruptLevel = Output
=============================================================================
