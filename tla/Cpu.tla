-------------------------------- MODULE Cpu --------------------------------
(***************************************************************************)
(* The control core of the MC68000 interpreter (src/src/cpu): the status   *)
(* register, the two stack pointers behind A7, exception processing and    *)
(* the instructions that change any of them.                               *)
(*                                                                         *)
(* The C code is sequential and one instruction may take two exceptions    *)
(* (an interrupt before it, a trace after it), so the operations are       *)
(* operators from a CPU record to a CPU record, named as in the source.    *)
(* Data registers and condition codes are left out: an instruction whose   *)
(* only effect is on them is a "nop" here, and an instruction that traps   *)
(* on their value (CHK, TRAPV, DIVU) is a "fault".  The program counter is *)
(* kept at the granularity of routines: it holds the entry address of the  *)
(* routine being executed, and stays there until control leaves it.        *)
(*                                                                         *)
(* A word access at an odd address is an address error, and then the bus   *)
(* returns to the handler that made it, which goes on to its end with the  *)
(* A7 and the PC that the exception has left: a read has given ones.       *)
(***************************************************************************)
EXTENDS Integers, Sequences

CONSTANTS
  VectorTable,   \* vector number -> handler address, the longs at $000-$3FF
  MemLo,         \* the RAM that holds stacks is MemLo .. MemHi
  MemHi,
  OpcodeWord     \* cpu->currentOpcode, which group-0 frames record

Word == 65536                       \* 2^16: words and halves of longs
AddrSpace == 16777216               \* 2^24: ADDR_MASK + 1
Words == 0 .. Word - 1
StackMem == {a \in MemLo .. MemHi : a % 2 = 0}
Vectors == 0 .. 255

ASSUME CpuAssumption ==
  /\ VectorTable \in [Vectors -> 0 .. AddrSpace - 1]
  /\ MemLo \in Nat /\ MemHi \in Nat /\ MemLo <= MemHi
  /\ OpcodeWord \in Words

AddressErrorVector == 3
ChkVector == 6
PrivilegeVector == 8
TraceVector == 9
LineFVector == 11
SpuriousVector == 24
Trap0Vector == 32

----------------------------------------------------------------------------
(* The status register: trace bit, supervisor bit, interrupt mask.  Its word   *)
(* has them at bits 15, 13 and 10-8; the condition codes are taken to be 0.    *)

StatusRegister == [t : BOOLEAN, s : BOOLEAN, ipl : 0 .. 7]

Encode(sr) == (IF sr.t THEN 32768 ELSE 0) + (IF sr.s THEN 8192 ELSE 0) + 256 * sr.ipl
Decode(w) ==
  [t |-> (w \div 32768) % 2 = 1, s |-> (w \div 8192) % 2 = 1, ipl |-> (w \div 256) % 8]

cpuIsSupervisor(sr) == sr.s
Traced(sr) == sr.t
cpuGetIPL(sr) == sr.ipl
cpuSetIPL(sr, level) == [sr EXCEPT !.ipl = level]
ClearTrace(sr) == [sr EXCEPT !.t = FALSE]

----------------------------------------------------------------------------
(* The CPU record.  "frames" is a history: one entry for each exception    *)
(* taken, with what it interrupted, the last one dropped by RTE; no        *)
(* operation reads it.  "crashed" says that the emulator itself died: an   *)
(* exception that pushes at an odd A7 raises an address error from within  *)
(* busWriteWord, which pushes at that A7 again, without end.               *)

Addresses == 0 .. AddrSpace - 1

Frame == [vec : Vectors, sr : StatusRegister, pc : Addresses, sp : Int, base : Int, mask : 0 .. 7]

CpuState ==
  [sr : StatusRegister, a7 : Int, usp : Int, ssp : Int, pc : Addresses, stopped : BOOLEAN,
   crashed : BOOLEAN, pending : {-1} \cup 1 .. 7, mem : [StackMem -> Words],
   frames : Seq(Frame)]

\* cpuReset, with SSP and PC as the first two longs of memory give them.
cpuReset(ssp, pc) ==
  [sr |-> [t |-> FALSE, s |-> TRUE, ipl |-> 7], a7 |-> ssp, usp |-> 0, ssp |-> ssp, pc |-> pc,
   stopped |-> FALSE, crashed |-> FALSE, pending |-> -1,
   mem |-> [a \in StackMem |-> 0], frames |-> <<>>]

\* Leaving supervisor mode saves SSP, entering it loads SSP; a call that finds
\* the S bit already as asked for does nothing.
cpuSetSupervisor(c, supervisor) ==
  IF supervisor /\ ~cpuIsSupervisor(c.sr)
    THEN [c EXCEPT !.usp = c.a7, !.a7 = c.ssp, !.sr.s = TRUE]
  ELSE IF ~supervisor /\ cpuIsSupervisor(c.sr)
    THEN [c EXCEPT !.ssp = c.a7, !.a7 = c.usp, !.sr.s = FALSE]
  ELSE c

\* Words outside this RAM read as all ones and swallow what is written to them.
\* readAddress is a long read masked by ADDR_MASK, as a PC is.
readWord(c, a) == IF a \in StackMem THEN c.mem[a] ELSE Word - 1
readAddress(c, a) == (readWord(c, a) % 256) * Word + readWord(c, a + 2)

\* The memory after a word, or a long (high word first), is written at a.
WithWord(m, a, w) == IF a \in StackMem THEN [m EXCEPT ![a] = w] ELSE m
WithLong(m, a, v) == WithWord(WithWord(m, a, (v \div Word) % Word), a + 2, v % Word)

pushWord(c, w) == [c EXCEPT !.a7 = c.a7 - 2, !.mem = WithWord(c.mem, c.a7 - 2, w)]
pushLong(c, v) == [c EXCEPT !.a7 = c.a7 - 4, !.mem = WithLong(c.mem, c.a7 - 4, v)]

Odd(a) == a % 2 = 1
WordOfOnes == [t |-> TRUE, s |-> TRUE, ipl |-> 7]     \* $FFFF as an SR

----------------------------------------------------------------------------
(* Exception processing *)

\* The history entry of an exception taken from c that left the CPU in d.
OpenFrame(c, d, vec) ==
  [vec |-> vec, sr |-> c.sr, pc |-> c.pc, sp |-> d.a7, base |-> d.a7 - 6,
   mask |-> cpuGetIPL(d.sr)]

\* In supervisor mode, trace off and, for an autovector, masked at its level.
EnterException(c, vec) ==
  LET d == cpuSetSupervisor(c, TRUE)
      quiet == ClearTrace(d.sr)
  IN  [d EXCEPT !.sr = IF vec \in 25 .. 31
                         THEN cpuSetIPL(quiet, vec - SpuriousVector) ELSE quiet]

\* A mutant of the next: the SR is stacked as the exception has changed it.
ProcessStackingNewSr(c, vec) ==
  LET d == EnterException(c, vec)
      e == pushWord(pushLong(d, c.pc), Encode(d.sr))
  IN  IF Odd(d.a7) THEN [d EXCEPT !.crashed = TRUE]
      ELSE [e EXCEPT !.pc = VectorTable[vec],
                     !.frames = Append(c.frames, OpenFrame(c, d, vec))]

exceptionProcess(c, vec) ==
  LET d == EnterException(c, vec)
      e == pushWord(pushLong(d, c.pc), Encode(c.sr))
  IN  IF Odd(d.a7) THEN [d EXCEPT !.crashed = TRUE]
      ELSE [e EXCEPT !.pc = VectorTable[vec],
                     !.frames = Append(c.frames, OpenFrame(c, d, vec))]

\* The group-0 frame: information word, access address, opcode, SR and then PC,
\* which ends on top.
exceptionAddressError(c, address, isWrite) ==
  LET d == EnterException(c, AddressErrorVector)
      info == 8 + 5 + (IF isWrite THEN 0 ELSE 16)
      e == pushLong(pushWord(pushWord(pushLong(pushWord(d, info), address),
                                      OpcodeWord), Encode(c.sr)), c.pc)
  IN  IF Odd(d.a7) THEN [d EXCEPT !.crashed = TRUE]
      ELSE [e EXCEPT !.pc = VectorTable[AddressErrorVector],
                     !.frames = Append(c.frames,
                        [OpenFrame(c, d, AddressErrorVector) EXCEPT !.base = d.a7 - 14])]

\* A word, and a long, which is two words, touched at an address that may be odd.
TouchWord(c, a, isWrite) == IF Odd(a) THEN exceptionAddressError(c, a, isWrite) ELSE c
TouchLong(c, a, isWrite) == TouchWord(TouchWord(c, a, isWrite), a + 2, isWrite)

----------------------------------------------------------------------------
(* Instructions *)

\* What the two stacks would need: the call made while the S bit tells the old mode.
WriteSrSwapping(c, newSR) ==
  IF cpuIsSupervisor(newSR) THEN [c EXCEPT !.sr = newSR]
  ELSE [cpuSetSupervisor(c, FALSE) EXCEPT !.sr = newSR]

\* What MOVE to SR, ANDI/EORI to SR, STOP and RTE do with a new SR: it is stored
\* first, and cpuSetSupervisor is called after, on a clear S bit.
WriteSr(c, newSR) ==
  LET d == [c EXCEPT !.sr = newSR]
  IN  IF cpuIsSupervisor(newSR) THEN d ELSE cpuSetSupervisor(d, FALSE)

instrMoveToSr(c, newSR) == WriteSr(c, newSR)

instrStop(c, imm) == [WriteSr(c, imm) EXCEPT !.stopped = TRUE]

\* A mutant of instrRte: the frame read in the other order.
RteReadsPcFirst(c) ==
  LET d == WriteSr([c EXCEPT !.a7 = c.a7 + 6], Decode(readWord(c, c.a7 + 4)))
  IN  [d EXCEPT !.pc = readAddress(c, c.a7),
                !.frames = SubSeq(c.frames, 1, Len(c.frames) - 1)]

\* RTE pops SR, then PC; on an odd A7 the first read raises an address error.
instrRte(c) ==
  LET d == WriteSr([c EXCEPT !.a7 = c.a7 + 6], Decode(readWord(c, c.a7)))
  IN  IF Odd(c.a7) THEN exceptionAddressError(c, c.a7, FALSE)
      ELSE [d EXCEPT !.pc = readAddress(c, c.a7 + 2),
                     !.frames = SubSeq(c.frames, 1, Len(c.frames) - 1)]

\* MOVE An,USP
instrMoveUsp(c, v) == [c EXCEPT !.usp = v]

\* LEA <ea>,A7: a new stack.
instrLea(c, v) == [c EXCEPT !.a7 = v]

\* MOVE.W Dn,-(A7) and MOVE.W (A7)+,Dn: A7 moves before the bus is accessed.
instrPush(c, w) ==
  IF Odd(c.a7) THEN exceptionAddressError([c EXCEPT !.a7 = c.a7 - 2], c.a7 - 2, TRUE)
  ELSE pushWord(c, w)
PopOfLong(c) == [c EXCEPT !.a7 = c.a7 + 4]     \* a mutant: the size taken for a long
instrPop(c) ==
  LET d == [c EXCEPT !.a7 = c.a7 + 2]
  IN  IF Odd(c.a7) THEN exceptionAddressError(d, c.a7, FALSE) ELSE d

instrTrap(c, n) == exceptionProcess(c, Trap0Vector + n)

\* JSR and BSR push the PC, RTS and RTR pop it, RTR after a word of condition codes.
\* Whatever the bus has made of A7 and PC, the last assignment to the PC is theirs.
\* A long pushed at an odd A7 is lost.
PushLong(c, v) ==
  IF Odd(c.a7) THEN TouchLong([c EXCEPT !.a7 = c.a7 - 4], c.a7 - 4, TRUE) ELSE pushLong(c, v)

instrJsr(c, target) == [PushLong(c, c.pc) EXCEPT !.pc = target]

instrRts(c) ==
  LET d == TouchLong(c, c.a7, FALSE)
  IN  [d EXCEPT !.pc = readAddress(c, c.a7), !.a7 = d.a7 + 4]

instrRtr(c) ==
  LET d == TouchWord(c, c.a7, FALSE)
  IN  [d EXCEPT !.pc = readAddress(d, d.a7 + 2), !.a7 = d.a7 + 6]

\* LINK An,#disp and UNLK An with an An other than A7, of which only the value is known.
instrLink(c, an, disp) == LET d == PushLong(c, an) IN [d EXCEPT !.a7 = d.a7 + disp]

instrUnlk(c, an) ==
  LET d == TouchLong([c EXCEPT !.a7 = an], an, FALSE) IN [d EXCEPT !.a7 = d.a7 + 4]

\* MOVEA.L <ea>,A7.  The byte above ADDR_MASK never reaches the bus.
instrMovea(c, a) == [TouchLong(c, a, FALSE) EXCEPT !.a7 = readAddress(c, a)]

\* MOVEM.L of one register to -(A7) and from (A7)+: A7 becomes the address that the
\* handler has counted up or down itself.
instrMovemRegToMem(c, v) ==
  IF Odd(c.a7) THEN [TouchLong(c, c.a7 - 4, TRUE) EXCEPT !.a7 = c.a7 - 4] ELSE pushLong(c, v)
instrMovemMemToReg(c) == [TouchLong(c, c.a7, FALSE) EXCEPT !.a7 = c.a7 + 4]

\* A word read at an odd address a and used after that: MOVE.W a,-(A7), MOVE a,SR, and CHK,
\* whose bound is then -1.
MoveFromOdd(c, a) == instrPush(exceptionAddressError(c, a, FALSE), Word - 1)
SrFromOdd(c, a) == instrMoveToSr(exceptionAddressError(c, a, FALSE), WordOfOnes)
ChkAtOdd(c, a) == exceptionProcess(exceptionAddressError(c, a, FALSE), ChkVector)

\* The arguments that instructions can have.
IsInstruction(i) ==
  /\ i.op \in {"moveToSr", "stop"} => i.arg \in StatusRegister
  /\ i.op = "push" => i.arg \in Words
  /\ i.op \in {"moveUsp", "lea", "unlk", "movea", "movemDown"} => i.arg \in Int
  /\ i.op \in {"oddRead", "oddWrite", "oddLong", "moveOdd", "srOdd", "chkOdd"} =>
       i.arg \in Int /\ Odd(i.arg)
  /\ i.op = "jsr" => i.arg \in Addresses
  /\ i.op = "link" => i.arg \in [an : Int, disp : Int]
  /\ i.op = "trap" => i.arg \in 0 .. 15
  /\ i.op = "fault" => i.arg \in {4, 5, 6, 7, 10, 11}

PrivilegedButStop == {"moveToSr", "srOdd", "rte", "moveUsp", "reset"}     \* a mutant
Privileged == {"moveToSr", "srOdd", "stop", "rte", "moveUsp", "reset"}
Allowed(c, i) == i.op \in Privileged => cpuIsSupervisor(c.sr)

(* An instruction is a record [op, arg].  "nop" stands for every instruction  *)
(* without effect on this state (an I/O access among them, "device"), "fault" *)
(* for one that traps to vector arg (illegal, zero divide, CHK, TRAPV, line A *)
(* and F), "oddRead", "oddWrite" and "oddLong" for a word read, a word        *)
(* written or a long read at an odd address that nothing comes of.            *)
decoderExecute(c, i) ==
  CASE ~Allowed(c, i) -> exceptionProcess(c, PrivilegeVector)
    [] i.op = "moveToSr" /\ Allowed(c, i) -> instrMoveToSr(c, i.arg)
    [] i.op = "stop" /\ Allowed(c, i) -> instrStop(c, i.arg)
    [] i.op = "rte" /\ Allowed(c, i) -> instrRte(c)
    [] i.op = "moveUsp" /\ Allowed(c, i) -> instrMoveUsp(c, i.arg)
    [] i.op = "lea" -> instrLea(c, i.arg)
    [] i.op = "push" -> instrPush(c, i.arg)
    [] i.op = "pop" -> instrPop(c)
    [] i.op = "trap" -> instrTrap(c, i.arg)
    [] i.op = "fault" -> exceptionProcess(c, i.arg)
    [] i.op = "oddRead" -> exceptionAddressError(c, i.arg, FALSE)
    [] i.op = "oddWrite" -> exceptionAddressError(c, i.arg, TRUE)
    [] i.op = "oddLong" -> TouchLong(c, i.arg, FALSE)
    [] i.op = "moveOdd" -> MoveFromOdd(c, i.arg)
    [] i.op = "srOdd" /\ Allowed(c, i) -> SrFromOdd(c, i.arg)
    [] i.op = "chkOdd" -> ChkAtOdd(c, i.arg)
    [] i.op = "jsr" -> instrJsr(c, i.arg)
    [] i.op = "rts" -> instrRts(c)
    [] i.op = "rtr" -> instrRtr(c)
    [] i.op = "link" -> instrLink(c, i.arg.an, i.arg.disp)
    [] i.op = "unlk" -> instrUnlk(c, i.arg)
    [] i.op = "movea" -> instrMovea(c, i.arg)
    [] i.op = "movemDown" -> instrMovemRegToMem(c, i.arg)
    [] i.op = "movemUp" -> instrMovemMemToReg(c)
    [] OTHER -> c

\* The second half of cpuStep.  Fetching at an odd PC raises an address error and
\* yields $FFFF, which is then executed: a line-F exception on top of it.
FetchAndExecute(c, i) ==
  LET d == IF Odd(c.pc)
             THEN exceptionProcess(exceptionAddressError(c, c.pc, FALSE), LineFVector)
             ELSE decoderExecute(c, i)
  IN  IF Traced(d.sr) THEN exceptionProcess(d, TraceVector) ELSE d

----------------------------------------------------------------------------
(* Interrupts *)

InterruptibleWhenMasked(c) == c.pending > 0                      \* mutants of the next
InterruptibleAtLevel(c) == c.pending > 0 /\ c.pending >= cpuGetIPL(c.sr)
Interruptible(c) == c.pending > 0 /\ (c.pending > cpuGetIPL(c.sr) \/ c.pending = 7)

\* A mutant of the next: the mask is left to exceptionProcess.
AcceptWithoutMask(c, vec) ==
  LET d == exceptionProcess([c EXCEPT !.stopped = FALSE], vec)
  IN  IF d.crashed THEN d ELSE [d EXCEPT !.frames[Len(d.frames)].mask = c.pending]

\* The first half of cpuStep: the exception, then the mask at the level accepted
\* (which a spurious vector has not set).
AcceptInterrupt(c, vec) ==
  LET d == exceptionProcess([c EXCEPT !.stopped = FALSE], vec)
      masked == [d EXCEPT !.sr = cpuSetIPL(d.sr, c.pending)]
  IN  IF d.crashed THEN masked
      ELSE [masked EXCEPT !.frames[Len(d.frames)].mask = c.pending]

\* pendingInterruptLevel only ever rises: nothing calls cpuLowerInterrupt.  (The
\* mutant lacks the early return of level 0.)
RaiseAnyLevel(c, level) == IF level > c.pending THEN [c EXCEPT !.pending = level] ELSE c
cpuRaiseInterrupt(c, level) ==
  IF level \in 1 .. 7 /\ level > c.pending THEN [c EXCEPT !.pending = level] ELSE c
=============================================================================
