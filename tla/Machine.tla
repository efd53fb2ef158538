------------------------------ MODULE Machine ------------------------------
(***************************************************************************)
(* The machine loop (src/src/machine/machine.c): machineRunFrame calls     *)
(* machineStep until the frame's cycles are used, and machineStep runs     *)
(* cpuStep, ticks the devices and polls their interrupt lines.  The loop   *)
(* is one thread; "at" is the point it has reached:                        *)
(*                                                                         *)
(*   interrupt  cpuStep, at the check for a pending interrupt              *)
(*   execute    cpuStep, after that check                                  *)
(*   devices    machineStep, after cpuStep                                 *)
(*   host       between two frames, where the host program uses its        *)
(*              device functions (uartPushInput, parallelSetInputA, ...)   *)
(*                                                                         *)
(* A device is known here by the level of its interrupt line and by what   *)
(* moves the line: its tick (timer, video, audio), the host (uart,         *)
(* parallel, network), or reset (storage, whose line says READY).  The     *)
(* program lowers a line with an access to the device: the instruction     *)
(* "device", whose argument is the device (a read that empties the         *)
(* uart's ring, a write to TIMER_CONTROL or VIDEO_STATUS, a storage        *)
(* command that fails).                                                    *)
(***************************************************************************)
EXTENDS Cpu

CONSTANTS
  Device,       \* the attached devices that have an interrupt line
  Level,        \* Level[d]: the line's level
  Period,       \* Period[d]: ticks between two rises of a ticking device's line
  HostDriven,   \* the devices whose line the host raises
  ReadyAtReset, \* the devices whose line is up from reset on
  Instr,        \* the instructions that programs are made of
  Budget,       \* machine steps of a frame (targetCyclesPerFrame)
  ResetSsp,     \* the longs at $000000 and $000004
  ResetPc,
  MaxFrames,    \* bound: exceptions taken and not returned from
  Stacks,       \* bound: the values of A7
  Routines      \* bound: the values of the PC

Ticking == DOMAIN Period

ASSUME MachineAssumption ==
  /\ Level \in [Device -> 1 .. 7]
  /\ Period \in [Ticking -> Nat \ {0}]
  /\ Ticking \subseteq Device /\ HostDriven \subseteq Device
  /\ ReadyAtReset \subseteq Device
  /\ \A i \in Instr : IsInstruction(i)
  /\ Budget \in Nat \ {0} /\ MaxFrames \in Nat /\ Stacks \subseteq Int
  /\ Routines \subseteq Addresses
  /\ ResetSsp \in StackMem /\ ResetPc \in Addresses

VARIABLES
  cpu,      \* the Cpu record
  lines,    \* the devices whose getInterruptLevel is not 0
  count,    \* count[d]: ticks since a ticking device last raised its line
  at,       \* where the loop is
  used      \* steps of this frame that executed an instruction (totalCycles - start)

vars == <<cpu, lines, count, at, used>>

----------------------------------------------------------------------------
\* machineReset
Init ==
  /\ cpu = cpuReset(ResetSsp, ResetPc)
  /\ lines = ReadyAtReset
  /\ count = [d \in Ticking |-> 0]
  /\ at = "interrupt"
  /\ used = 0

(* busAcknowledgeInterrupt: no device has an acknowledge function, so a device  *)
(* at the level means its autovector, and none the spurious vector.             *)
VectorFor(level) ==
  IF \E d \in lines : Level[d] = level THEN SpuriousVector + level ELSE SpuriousVector

\* Bounds of the exploration: the depth of nested exceptions, where the stacks may
\* grow, and where a program may jump to.  Programs that leave them are not followed.
Fits(c) == Len(c.frames) <= MaxFrames /\ c.a7 \in Stacks /\ c.pc \in Routines

\* cpuStep, lines 97-132.  A CPU that stays stopped returns without executing.
CheckInterrupt ==
  /\ at = "interrupt" /\ ~cpu.crashed
  /\ cpu' = IF Interruptible(cpu) THEN AcceptInterrupt(cpu, VectorFor(cpu.pending)) ELSE cpu
  /\ Fits(cpu')
  /\ at' = IF cpu'.stopped THEN "devices" ELSE "execute"
  /\ UNCHANGED <<lines, count, used>>

\* cpuStep, lines 134-151, with what the instruction does to a device.
Execute(i) ==
  /\ at = "execute" /\ ~cpu.crashed
  /\ cpu' = FetchAndExecute(cpu, i)
  /\ Fits(cpu')
  /\ lines' = IF i.op = "device" /\ ~Odd(cpu.pc) THEN lines \ {i.arg} ELSE lines
  /\ used' = used + 1
  /\ at' = "devices"
  /\ UNCHANGED count

\* machineTickDevices: the devices whose period is over raise their line.
Due == {d \in Ticking : count[d] + 1 = Period[d]}

machineTickDevices ==
  /\ lines' = lines \cup Due
  /\ count' = [d \in Ticking |-> IF d \in Due THEN 0 ELSE count[d] + 1]

\* machinePollInterrupts: the highest level of the lines that are up, 0 if none is.
HighestLevel(up) ==
  IF up = {} THEN 0 ELSE CHOOSE l \in 1 .. 7 : /\ \E d \in up : Level[d] = l
                                               /\ \A d \in up : Level[d] <= l

PollUnlessStopped(up) ==                              \* a mutant
  IF cpu.stopped THEN cpu ELSE cpuRaiseInterrupt(cpu, HighestLevel(up))
machinePollInterrupts(up) == cpuRaiseInterrupt(cpu, HighestLevel(up))

\* The rest of machineStep, and the test of the while loop around it.
TickAndPoll ==
  /\ at = "devices" /\ ~cpu.crashed
  /\ machineTickDevices
  /\ cpu' = machinePollInterrupts(lines')
  /\ at' = IF used < Budget THEN "interrupt" ELSE "host"
  /\ UNCHANGED used

\* Between two frames the host may make any of its devices raise its line.
NextFrame ==
  /\ at = "host"
  /\ \E up \in SUBSET HostDriven : lines' = lines \cup up
  /\ used' = 0
  /\ at' = "interrupt"
  /\ UNCHANGED <<cpu, count>>

Loop == CheckInterrupt \/ TickAndPoll \/ NextFrame

\* Any program at all: every instruction, in every state.
Next == Loop \/ \E i \in Instr : Execute(i)

\* The loop is a while loop of one thread: it goes on as long as the process does.
Spec == Init /\ [][Next]_vars
FairSpec == Spec /\ WF_vars(Next)

----------------------------------------------------------------------------
(* Every variable in its range; the stack pointer is free, it is a register. *)
TypeOK ==
  /\ cpu \in CpuState
  /\ lines \subseteq Device
  /\ count \in [Ticking -> Nat]
  /\ at \in {"interrupt", "execute", "devices", "host"}
  /\ used \in Nat

\* What RTE at a7 = f.base would pop is what exception f interrupted.
Holds(m, f) ==
  IF f.vec = AddressErrorVector
    THEN /\ m[f.base + 4] = Encode(f.sr)
         /\ m[f.base] * Word + m[f.base + 2] = f.pc
    ELSE /\ m[f.base] = Encode(f.sr)
         /\ m[f.base + 2] * Word + m[f.base + 4] = f.pc

\* What RTE would pop of it lies in the RAM that the stacks live in: what is pushed
\* past its end is lost.
InMemory(f) == f.base \in MemLo .. MemHi - 4

(* The handlers whose last steps follow the bus access that an odd address    *)
(* makes an address error: they assign the PC, or they step or load A7.       *)
Jumping == {"jsr", "rts", "rtr"}
Stepping == {"rts", "rtr", "link", "unlk", "movea", "movemDown", "movemUp", "moveOdd"}
OddAccess(i) ==
  \/ i.op \in {"jsr", "rts", "rtr", "link", "movemDown", "movemUp"} /\ Odd(cpu.a7)
  \/ i.op \in {"unlk", "movea", "moveOdd"} /\ Odd(i.arg)
GoesOn(ops) == \E i \in Instr : i.op \in ops /\ OddAccess(i) /\ Execute(i)

(* Whatever the program does, an exception that was taken leaves the CPU in    *)
(* supervisor mode with trace off and with the mask as it was or, after an     *)
(* interrupt, at the level accepted; it is at a handler of the vector table,   *)
(* unless one of the instructions that then jump was what took it; and the     *)
(* interrupted SR and PC are on the stack at A7, if there is memory there and  *)
(* the instruction is none of those that then step or load A7 (cpuStep and     *)
(* exceptionProcess each write the mask, a trace can follow an exception of    *)
(* the same step, and bus.c:140 and 217 return to the handler).                *)
Taken == cpu'.frames[Len(cpu'.frames)]

EnteredMode ==
  /\ cpuIsSupervisor(cpu'.sr) /\ ~Traced(cpu'.sr)
  /\ IF at = "interrupt" THEN cpuGetIPL(cpu'.sr) = cpu.pending
                         ELSE cpuGetIPL(cpu'.sr) = cpuGetIPL(Taken.sr)
AtHandler == cpu'.pc = VectorTable[Taken.vec]
OnFrame == cpu'.a7 = Taken.base /\ (InMemory(Taken) => Holds(cpu'.mem, Taken))

Raised == Len(cpu'.frames) > Len(cpu.frames) /\ ~cpu'.crashed
ExceptionEntry ==
  [][Raised => EnteredMode /\ (AtHandler \/ GoesOn(Jumping)) /\ (OnFrame \/ GoesOn(Stepping))]_vars

(* Code in user mode changes the system byte, the two saved stack pointers and *)
(* the stopped state in one way only: by an exception, which records the       *)
(* user's SR and leads to a handler of the vector table (every privileged      *)
(* instruction tests the S bit on its own: a missing test breaks this).  JSR,  *)
(* BSR, RTS and RTR at an odd A7 end in supervisor mode as well, and not at a  *)
(* handler but where they jump to.                                             *)
UserKept ==
  /\ cpu'.sr = cpu.sr
  /\ cpu'.usp = cpu.usp /\ cpu'.ssp = cpu.ssp /\ cpu'.stopped = cpu.stopped

UserTrapped ==
  /\ Raised /\ cpu'.ssp = cpu.ssp /\ cpu'.stopped = cpu.stopped
  /\ (\E v \in Vectors : cpu'.pc = VectorTable[v]) \/ GoesOn(Jumping)
  /\ cpu'.frames[Len(cpu.frames) + 1].sr = cpu.sr

UserStep == at = "execute" /\ ~cpuIsSupervisor(cpu.sr)
UserConfined == [][UserStep => UserKept \/ UserTrapped \/ cpu'.crashed]_vars

(* A stopped CPU stays as it is, whatever devices and host do, until an        *)
(* interrupt above its mask (or of level 7) is accepted: the mask that STOP    *)
(* loads is the one that decides (cpuStep checks interrupts before stopped).   *)
Asleep == [cpu' EXCEPT !.pending = cpu.pending] = cpu
Woken ==
  /\ at = "interrupt" /\ ~cpu'.stopped
  /\ cpu.pending > cpuGetIPL(cpu.sr) \/ cpu.pending = 7
StopHolds == [][cpu.stopped => Asleep \/ Woken]_vars

----------------------------------------------------------------------------
(* What the code does not do.  These are statements of its comments, and the   *)
(* model shows each of them violated.                                          *)

\* cpu.h: A7 is the active stack pointer and a change of mode swaps it with the
\* shadow.  So an instruction that leaves supervisor mode puts USP in A7.
LeavesSupervisor == cpuIsSupervisor(cpu.sr) /\ ~cpuIsSupervisor(cpu'.sr)
StackOfMode == [][LeavesSupervisor => cpu'.a7 = cpu.usp]_vars

=============================================================================
