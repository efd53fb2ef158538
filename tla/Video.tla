------------------------------- MODULE Video -------------------------------
(***************************************************************************)
(* The vertical blank of the video controller (src/src/devices/video.c):   *)
(* while the display is on, an accumulator adds up the cycles of the       *)
(* machine steps and keeps what exceeds a frame.                           *)
(***************************************************************************)
EXTENDS Integers

CONSTANTS
  cyclesPerFrame,
  MaxStep,     \* bound: cycles of one machine step
  MaxRan       \* bound: cycles with the display on, in one behaviour

\* A machine step is shorter than a frame (158 cycles and some 133000).
ASSUME VideoAssumption ==
  /\ cyclesPerFrame \in Nat \ {0} /\ MaxRan \in Nat
  /\ MaxStep \in Nat /\ MaxStep < cyclesPerFrame

VARIABLES
  display,     \* bit 0 of CTRL
  irqEnable,   \* bit 1 of CTRL
  vblank,      \* bit 0 of STATUS
  cycleAccum,
  ran,         \* history: cycles with the display on, since the reset
  frames       \* history: vertical blanks, since the reset

videoVars == <<display, irqEnable, vblank, cycleAccum, ran, frames>>

VideoInit ==
  /\ display = FALSE /\ irqEnable = FALSE /\ vblank = FALSE
  /\ cycleAccum = 0 /\ ran = 0 /\ frames = 0
videoReset ==
  /\ display' = FALSE /\ irqEnable' = FALSE /\ vblank' = FALSE
  /\ cycleAccum' = 0 /\ ran' = 0 /\ frames' = 0

\* videoWriteWord and videoWriteByte of CTRL
WriteCtrl ==
  /\ display' \in BOOLEAN /\ irqEnable' \in BOOLEAN
  /\ UNCHANGED <<vblank, cycleAccum, ran, frames>>

\* videoWriteWord of STATUS with bit 0: written as one, it is cleared.
WriteStatus ==
  /\ vblank' = FALSE
  /\ UNCHANGED <<display, irqEnable, cycleAccum, ran, frames>>

\* A mutant of the next: a frame starts from zero.
FrameFromZero(accum) == IF accum >= cyclesPerFrame THEN 0 ELSE accum
Remaining(accum) == IF accum >= cyclesPerFrame THEN accum - cyclesPerFrame ELSE accum

videoTick(cycles) ==
  /\ display /\ ran + cycles <= MaxRan
  /\ ran' = ran + cycles
  /\ cycleAccum' = Remaining(cycleAccum + cycles)
  /\ vblank' = (vblank \/ cycleAccum + cycles >= cyclesPerFrame)
  /\ frames' = IF cycleAccum + cycles >= cyclesPerFrame THEN frames + 1 ELSE frames
  /\ UNCHANGED <<display, irqEnable>>

VideoNext ==
  \/ WriteCtrl \/ WriteStatus \/ (\E c \in 0 .. MaxStep : videoTick(c)) \/ videoReset

VideoSpec == VideoInit /\ [][VideoNext]_videoVars

\* videoGetIRQ
VideoIRQ == vblank /\ irqEnable

----------------------------------------------------------------------------
(* Blanks do not drift: however the steps fall, and however often the display  *)
(* is switched off between them, there have been as many as whole frames of    *)
(* cycles with the display on.                                                 *)
FramesOnTime == frames = ran \div cyclesPerFrame
=============================================================================
