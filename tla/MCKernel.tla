------------------------------ MODULE MCKernel ------------------------------
(* Kernel on two small instances.  In both there are the uart (host-driven,   *)
(* level 4) and the timer (ticking, level 5); the third device is the video   *)
(* controller (ticking, level 1), or the storage controller (level 6), whose  *)
(* line is up from reset on.                                                  *)
EXTENDS Kernel

MCVectorTable == [v \in Vectors |-> 2048 + 4 * v]
MCDevice == {"video", "uart", "timer"}
MCLevel == [video |-> 1, uart |-> 4, timer |-> 5]
MCPeriod == [video |-> 3, timer |-> 7]
MCHostDriven == {"uart"}
MCReadyAtReset == {}
MCMainDevice == {"uart"}

StorageDevice == {"uart", "timer", "storage"}
StorageLevel == [uart |-> 4, timer |-> 5, storage |-> 6]
StoragePeriod == [timer |-> 2]
StorageReady == {"storage"}
StorageMainDevice == {"uart", "storage"}

\* The two bounds of Machine that are none here: the RAM, and any code.
MCStacks == MemLo .. MemHi
NoDevice == {}
MCInstr == {[op |-> "nop", arg |-> 0]}
=============================================================================
