------------------------------- MODULE Kernel -------------------------------
(***************************************************************************)
(* The machine under a kernel built like MiniMint (src/os/kernel.s): all   *)
(* code runs in supervisor mode on one stack, and what may be executed is  *)
(* determined by the routine that runs, which the last exception taken and *)
(* not returned from determines.                                           *)
(*                                                                         *)
(*   main      start-up with interrupts masked, then the idle loop         *)
(*   service   isr_vblank, isr_keyboard, isr_uart, isr_timer               *)
(*   syscall   trap_syscall, sys_exit among them                           *)
(*   panic     panic_bus .. panic_priv and panic_common                    *)
(*   default   default_handler, where all other vectors lead               *)
(*                                                                         *)
(* Each routine saves registers on the stack, takes off what it has put    *)
(* there, and ends in RTE when nothing of its own is left; panic_common    *)
(* masks all levels and ends in STOP.  The registers saved are one word.   *)
(***************************************************************************)
EXTENDS Machine

CONSTANTS
  Saved,        \* the value of a saved register
  MainDevice,   \* the devices that the main routine accesses
  Sleeps        \* whether the idle loop waits with STOP (MiniMint's polls)

\* SR after ORI.W #$0700,SR and STOP #$2700, and after ANDI.W #$F8FF,SR.
Masked == [t |-> FALSE, s |-> TRUE, ipl |-> 7]
Open == [t |-> FALSE, s |-> TRUE, ipl |-> 0]

ASSUME KernelAssumption ==
  /\ Saved \in Words /\ MainDevice \subseteq Device /\ Sleeps \in BOOLEAN
  /\ Stacks \subseteq MemLo .. MemHi
  /\ \A d \in Device : Level[d] < 7
  /\ ResetSsp % 2 = 0 /\ ResetPc % 2 = 0
  /\ \A v \in Vectors : VectorTable[v] % 2 = 0

\* install_vectors: 2-5 and 8 panic, the video, parallel, uart and timer
\* autovectors are served, TRAP #0 is the system call.
PanicVectors == {2, 3, 4, 5, 8}
ServedVectors == {25, 27, 28, 29}

Last(s) == s[Len(s)]

Routine(c) ==
  IF c.frames = <<>> THEN "main"
  ELSE IF Last(c.frames).vec \in PanicVectors THEN "panic"
  ELSE IF Last(c.frames).vec \in ServedVectors THEN "service"
  ELSE IF Last(c.frames).vec = Trap0Vector THEN "syscall"
  ELSE "default"

\* Where the running routine's own part of the stack begins.
StackTop(c) == IF c.frames = <<>> THEN ResetSsp ELSE Last(c.frames).base
OwnsData(c) == c.a7 < StackTop(c)

----------------------------------------------------------------------------
I(op, arg) == [op |-> op, arg |-> arg]

\* MOVEM to and from the stack, of one word; one save at a time is enough to
\* put data between any two frames.
Stacking(c) == IF OwnsData(c) THEN {I("pop", 0)} ELSE {I("push", Saved)}
Return(c) == IF OwnsData(c) THEN {} ELSE {I("rte", 0)}
Access(devices) == {I("device", d) : d \in devices}
Mistakes == {I("fault", 4), I("fault", 5), I("oddRead", 1)}

\* Open main code may lose an instruction to a mistake, call the system, wait.
MainCode(c) ==
  Stacking(c) \cup Access(MainDevice) \cup Mistakes \cup {I("nop", 0), I("trap", 0)}
    \cup {I("moveToSr", Open)} \cup (IF Sleeps THEN {I("stop", Open)} ELSE {})

\* The device of the vector's level, as every isr_ acknowledges its own.
ServiceCode(c) ==
  Stacking(c) \cup Return(c)
    \cup Access({d \in Device : Level[d] = Last(c.frames).vec - SpuriousVector})

SyscallCode(c) == Stacking(c) \cup Return(c) \cup {I("nop", 0), I("stop", Masked)}

\* ORI.W #$0700,SR comes before anything is saved; nothing follows STOP #$2700
\* but default_handler, for there is no level 7 to wake it.
PanicCode(c) ==
  IF cpuGetIPL(c.sr) < 7 THEN {I("nop", 0), I("moveToSr", Masked)}
  ELSE Stacking(c) \cup {I("stop", Masked)}

Code(c) ==
  CASE Routine(c) = "main" -> MainCode(c)
    [] Routine(c) = "service" -> ServiceCode(c)
    [] Routine(c) = "syscall" -> SyscallCode(c)
    [] Routine(c) = "panic" -> PanicCode(c)
    [] OTHER -> Return(c)

KernelNext == Loop \/ \E i \in Code(cpu) : Execute(i)

KernelSpec == Init /\ [][KernelNext]_vars
FairKernelSpec == KernelSpec /\ WF_vars(KernelNext)

----------------------------------------------------------------------------
(* At any moment, with any interrupts nested in any handler, the memory holds  *)
(* the SR and PC of every exception not yet returned from, the frames lie one  *)
(* below the other without overlap, and A7 is below the last of them: nothing  *)
(* the CPU pushes for an interrupt lands on a frame or on saved registers that *)
(* are still needed.                                                           *)
FramesHeld(c) == \A k \in 1 .. Len(c.frames) : Holds(c.mem, c.frames[k])
FramesNested(c) ==
  /\ c.a7 <= StackTop(c)
  /\ \A k \in 1 .. Len(c.frames) : /\ c.frames[k].base < c.frames[k].sp
                                   /\ c.frames[k].sp <= ResetSsp
  /\ \A j, k \in 1 .. Len(c.frames) : j < k => c.frames[k].sp <= c.frames[j].base
FramesIntact == FramesHeld(cpu) /\ FramesNested(cpu)

(* RTE resumes exactly what its exception interrupted: PC, SR with its mask,   *)
(* and A7 are those from before, and the outer exceptions are untouched        *)
(* (instrRte reads the frame from memory; the history says what was there).    *)
Returned == Len(cpu'.frames) < Len(cpu.frames)
ContextRestored ==
  [][Returned => LET f == Last(cpu.frames)
                 IN  /\ cpu'.pc = f.pc /\ cpu'.sr = f.sr /\ cpu'.a7 = f.sp
                     /\ cpu.frames = Append(cpu'.frames, f)]_vars

(* An interrupt is never interrupted at its own level or a lower one: along    *)
(* the open exceptions the masks only rise, strictly at every interrupt, and   *)
(* the current mask is no lower than any of them.  Nesting is thus at most    *)
(* one interrupt deep for each level.                                          *)
IsInterrupt(f) == f.vec \in SpuriousVector .. SpuriousVector + 7
MasksRise ==
  /\ \A k \in 1 .. Len(cpu.frames) : cpu.frames[k].mask <= cpuGetIPL(cpu.sr)
  /\ \A j, k \in 1 .. Len(cpu.frames) :
       j < k => IF IsInterrupt(cpu.frames[k]) THEN cpu.frames[j].mask < cpu.frames[k].mask
                ELSE cpu.frames[j].mask <= cpu.frames[k].mask

(* The inductive invariant behind the three: the CPU is in supervisor mode,    *)
(* untraced, on an even stack, and so was all that is interrupted; frames lie  *)
(* in order between A7 and the reset stack and memory holds them; and what an  *)
(* exception interrupted ran at a mask no lower than that of any exception     *)
(* below it, which is what RTE goes back to.                                   *)
FrameSize(f) == IF f.vec = AddressErrorVector THEN 14 ELSE 6

Calm(c) == /\ cpuIsSupervisor(c.sr) /\ ~Traced(c.sr) /\ ~c.crashed
           /\ ~Odd(c.a7) /\ ~Odd(c.pc) /\ c.a7 <= ResetSsp

Regular(c, f) ==
  /\ cpuIsSupervisor(f.sr) /\ ~Traced(f.sr) /\ ~Odd(f.pc) /\ f.base \in StackMem
  /\ f.sp = f.base + FrameSize(f) /\ f.sp <= ResetSsp /\ c.a7 <= f.base
  /\ cpuGetIPL(f.sr) <= f.mask /\ f.mask <= cpuGetIPL(c.sr)
  /\ IsInterrupt(f) => cpuGetIPL(f.sr) < f.mask
  /\ Holds(c.mem, f)

Above(g, f) == g.sp <= f.base /\ f.mask <= cpuGetIPL(g.sr)

KernelInv(c) ==
  /\ Calm(c)
  /\ \A k \in 1 .. Len(c.frames) : Regular(c, c.frames[k])
  /\ \A j, k \in 1 .. Len(c.frames) : j < k => Above(c.frames[k], c.frames[j])
KernelIInv == KernelInv(cpu)

(* A line that is up, at a level the mask lets through, while the idle loop    *)
(* waits in STOP, wakes the CPU: the devices are ticked and polled although    *)
(* the stopped CPU uses no cycles of the frame.                                *)
Waiting == cpu.stopped /\ \E d \in lines : Level[d] > cpuGetIPL(cpu.sr)
WakesUp == Waiting ~> ~cpu.stopped

----------------------------------------------------------------------------
(* What the code does not do.  These are statements of its comments, and the   *)
(* model shows each of them violated.                                          *)

\* machine.h: machinePollInterrupts presents the highest level of the devices
\* to the CPU.  So what the CPU accepts is asserted by some device.
NoStaleInterrupt ==
  [][at = "interrupt" /\ Interruptible(cpu) => \E d \in lines : Level[d] = cpu.pending]_vars

\* machine.h: machineRunFrame runs for one video frame, so that the host gets
\* control again and again.
FrameEnds == []<>(at = "host")

\* kernel.s: interrupts are enabled and then the main idle loop runs.
IdleLoopRuns == (Routine(cpu) = "main" /\ cpuGetIPL(cpu.sr) = 0)
                  ~> (at = "execute" /\ Routine(cpu) = "main")
=============================================================================
