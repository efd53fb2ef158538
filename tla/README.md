# TLA+ models and proofs of the MC68000 emulator

The repository is an emulator of a small MC68000 computer (`src/src`), a kernel that
runs on it (`src/os/kernel.s`), and tools: an assembler, a disassembler, a C compiler.
The emulator is one C thread.  What is hard in it is not parallel C code; it is the
asynchronous system that the thread *simulates*: devices raise interrupt lines while
a program runs, interrupts nest in handlers, and a handler must give back exactly
what it interrupted.  The specifications begin with that.  Around it are the devices
and the bus, each with the accesses of a program, of the host and of time in any order;
the instruction set, run as programs; the tools, whose three readings of the same 65536
opcode words (assembler, CPU, disassembler) are written apart from each other; and the C
compiler, whose stages have to mean the same by a program.

## The system

| part | state | operations | what makes it correct |
|---|---|---|---|
| CPU core (`cpu.c`, `exceptions.c`, `system.c`, `branch.c`) | SR (trace, supervisor, mask), A7 and its two shadows, PC, stopped, pending level | exceptions, RTE, STOP, MOVE to SR, MOVE USP, traps, `cpuStep` | an exception enters at a handler, masked, with what it interrupted on the stack, but for instructions that go on after an address error; user code cannot leave user mode in another way; STOP waits for the right interrupt |
| Machine loop (`machine.c`, `main.c`) | position in the loop, cycles of the frame | `cpuStep`, tick all devices, poll their lines; the host between frames | every line that is up is eventually presented; frames end |
| Bus (`bus.c`) | RAM, ROM, overlay latch, device table | byte, word and long access, interrupt acknowledge | accesses of every width agree; odd words raise an address error |
| Kernel (`kernel.s`) | vector table, stack, key buffer, ticks | start-up, main loop, four service routines, system calls, panics | nested routines leave each other's stack alone; keys are not lost; the main loop runs |
| Uart (`uart.c`) | two rings, status | register access by the program, push and pull by the host | order, no duplicates, unread input is signalled |
| Timer (`timer.c`) | counter, reload, control, fired | register halves, tick | rings exactly when a period is over |
| Video (`video.c`) | control, status, cycle accumulator, VRAM | register access, tick | one blank per frame of cycles, without drift |
| PIC (`pic.c`) | three masks, priority, cached output | register access, assert, deassert | the cached output is current |
| Storage, network (`storage.c`, `network.c`) | registers, image, frame buffers | commands with DMA through the bus | sectors and frames go where they should, errors leave nothing half done |
| Parallel port, audio, clock | registers | register access, host calls, tick | input is not lost; samples are delivered once; a latched time does not move |
| Instruction set (`alu.c`, `instructions/*.c`, `addressing.c`, `decoder.c`) | registers, condition codes | some 70 instructions | results and flags agree with the definition of the operation at each width |
| Assembler (`assembler/*.c`) | symbols, position, output | two passes | pass 2 places everything where pass 1 counted it |
| Disassembler (`disassembler.c`) | | a word at a time | what it lists is what the CPU would execute |
| C compiler (`compiler/`) | tokens, tree, scopes, intermediate code, registers in use | parse, analyse, lower, three passes, generate | each stage does what the one before it said, and the first what the programmer wrote |
| GUI, command-line tools | | | input and output |

The parts meet in four places: the CPU calls the bus for every access; the bus calls
a device, or, on an odd address, *back into the CPU* to raise an address error in the
middle of an instruction, whose handler then goes on; the machine loop ticks devices and copies the highest of
their lines into the CPU; the host program calls device functions between frames.

## The modules

| module | models | how |
|---|---|---|
| `Cpu` | `cpu.c`, `exceptions.c`, `system.c`, RTE | operators from a CPU record to a CPU record, one per function of the source and of the same name.  A `cpuStep` may take several exceptions in sequence, and operators compose where actions do not. |
| `Machine` | `machine.c`, `cpuStep`, the loop of `main.c` | the state machine: `CheckInterrupt` and `Execute` are the two halves of `cpuStep`, `TickAndPoll` the rest of `machineStep`, `NextFrame` the host's turn.  The program is arbitrary. |
| `Kernel` | `kernel.s` | `Machine` with the program restricted to what each routine of the kernel does; the routine is determined by the last exception not returned from |
| `MCMachine`, `MCKernel` | | small instances |
| `Uart`, `Channel` | `uart.c` and its use in `main.c` | rings with indices; `Channel` is the queue each direction implements |
| `Timer`, `Alarm` | `timer.c` | the down counter; `Alarm` counts up and says when it rings |
| `Video`, `Pic` | the blank of `video.c`; `pic.c` | |
| `Bus` | `bus.c` | RAM, ROM, overlay latch and open bus as bytes; operators for each width, on which every DMA is built, and an action per access of a program |
| `Storage` (extends `Bus`) | `storage.c` | registers written in halves, the two commands with their DMA, attaching and detaching images |
| `Boot` (extends `Storage`) | `rom.s`, reset in `machine.c` | the boot program step by step: kernel into the RAM under the overlay, latch, vectors, jump; a reset at any moment |
| `Network` (extends `Bus`) | `network.c` | frames out of and into memory, lengths, the host's injection and pull |
| `Audio` | `audio.c` | voices, mixing with clipping, the ring of samples and draining |
| `Rtc` | `rtc.c` | latch and refresh; a register's value is the instant it tells of |
| `Parallel` | `parallel.c` | both ports; the host's input and the interrupt |
| `Keys` (extends `Parallel`) | the key buffer of `kernel.s` | two service routines of different level and `key_poll`, instruction by instruction where they share the buffer or hold D0 and A0, which one handler's MOVEM exchanges in the other |
| `MCDevices` | | the devices, one at a time |
| `Alu` | `alu.c` | arithmetic, shifts, decimal digits and conditions at any width, results with flags |
| `Instructions` | `instructions/*.c`, `addressing.c`, exceptions taken by them | a machine of a few bytes' width that executes every handler, effective address by effective address |
| `MCInstructions` | | a library of programs, their operands, and what they must leave |
| `Decoder` | `opcodes.c`, `decoder.c` | the opcode table in the order of its registration |
| `AsmLine`, `Parser` | `parser.c`, `parser.h` | lines over tokens: labels, directives, operands, and what is left of a line |
| `Encoder` | `encoder.c` | mnemonic and operands to words, sizes included |
| `Assembler` | `assembler.c`, `symbols.c`, `directives.c` | both passes, each of which parses every line again; symbols and directives |
| `Disassembler` | `disassembler.c` | word to mnemonic, operands, length |
| `Toolchain`, `MCToolchain` | | a line through all of the above; small instances |
| `CParser` | `cc_parser.c`, `ast.c` | recursive descent over tokens: declarations, statements, precedence levels, the separate reading of statements that begin with an identifier, recovery from errors |
| `Semantics` | `semantics.c`, `cc_types.c` | the stack of scopes, types of expressions, loops and cases that are open |
| `Lowering` | `compiler.c`, `ir.c` | from tree to blocks of intermediate code; a block that `realloc` moves while a pointer to it is kept |
| `Optimizer` | `optimizer.c` | folding, copy propagation, dead code, and the levels that run them |
| `CodeGen` | `codegen.c`, `registers.c` | a place for each temporary, the static buffer for the names of places in the frame, lines of assembly |
| `Compiler` | `compilerCompileString` | the state machine: a declaration, the analysis, the lowering, a pass, the generation per step |
| `MCMeaning`, `MCCompiler` | | what a program means as C, as intermediate code and as assembly; the library of programs |
| `MachineProofs` | | theorems about the machine under any program and about the kernel on it |
| `DeviceProofs` | | theorems about the timer, the video and interrupt controllers and the clock |
| `MemoryProofs` | | theorems about what moves through the bus: words, frames, sectors, the boot program; and about what is kept in rings: keys, characters, samples |
| `AluProofs` | | theorems about the arithmetic of bytes, words and longs: comparisons, limbs, decimal digits, division, shifts, rotations and bitwise logic |
| `InstructionProofs` | | theorems about every handler of the opcode table: privileges, what is saved and restored, single bits |
| `AssemblerProofs` | | theorems about parser, encoder and both passes: a line's length, symbols and places |
| `Basics` | | lemmas that these share: remainders, least numbers, induction and folds |

Abstractions of `Cpu` and `Machine`:

* Data registers and condition codes are left out.  An instruction that changes only
  those is `nop`; one that traps on their value is `fault`.
* PC is kept at the granularity of routines: it is the entry address of the routine
  that runs, and what is pushed as "PC" is that.  It differs from the entry address
  only by what the routine has executed, which no property tells apart.
* A word at an odd address raises the address error inside `busReadWord` and `busWriteWord`
  (`bus.c:140`, `217`), which then return, so that the handler runs on in supervisor mode, on the
  other stack and with ones for what it read.  `TouchWord` and `TouchLong` are that call, and each
  handler is what it does before and after it: JSR, BSR, RTS and RTR assign the PC all the
  same, RTS, RTR, UNLK, LINK, MOVEA and MOVEM step or load the A7 that is the supervisor's by now,
  MOVE pushes, MOVE to SR loads the ones, CHK traps once more.  A MOVEM has one register
  here; `Instructions` has them all.
* Memory is the RAM that stacks live in, as 16-bit words, so that a stack is really
  bytes at addresses and a wrong offset really reads another word.  The vector table
  is a constant: programs that rewrite it while they run are not modelled.
* `frames` is a history variable in the CPU record: what each open exception
  interrupted, and where.  Nothing reads it except the properties and, in `Kernel`,
  the choice of the code that runs.
* A device is its interrupt line.  The instruction `device` stands for the access by
  which a program lowers the line.
* An exception on an odd A7 recurses in the C code without end (the address error
  pushes at the same odd A7).  The model records it as `crashed` and stops there.

Abstractions of the device modules:

* The bus knows memory; what a device's registers answer is in the device's module, and
  their addresses read as the open bus.  A byte is a number below `Base`, a word two of
  them: `Base = 4` in the run, 256 in the machine.
* A sector is `SectorSize` bytes.  An image is a sequence of bytes.  `storage.c` tests the
  range of a command with a 32-bit product and sum; `Top` is where that arithmetic
  wraps.  When a wrapped range passes the test, a write lands outside the image: undefined
  behaviour, whose damage is not modelled; a read returns arbitrary bytes.
* Nobody in the repository calls `uartPushInput`, `parallelSetInputA/B`, `networkInjectFrame`,
  `networkPullFrame` or `audioDrainSamples`: they are the library's interface to a host,
  and a host may call them between any two steps of the program.
* `Keys` bounds the keys that arrive while the keyboard's handler holds the head by the room
  in the ring, as the overrun of `uart.c` is a subject of `Uart`.  The uart's handler is one
  step: it exchanges D0 and A0 of what it interrupts, the keyboard's handler or `key_poll`, and the
  keyboard's handler does so to `key_poll`.  A0 before LEA is any byte of the program's.  Once an
  exchange has sent a key to another address or made `key_poll` take a key from an empty ring, the
  program is `astray` and only the host goes on.  What `key_poll` gives back to its caller, in registers
  that handlers exchange, is not modelled.
* In `Boot` the program never reads STATUS, as `rom.s` does not.  A reset may come at any
  step.

Abstractions of the instruction set and the tools:

* A byte has `ByteBits` bits and a decimal digit `Radix` values, a word is two bytes and a
  long four; operands are the edges of each width.  Opcodes are records, not words: that
  a word means its record is what `Decoder` and the toolchain's run are about; in the frame of
  an address error 0 stands for the opcode's word.
* Odd addresses are as in `Cpu`, at the precision of bytes and for every handler and mode: one
  address error for each word touched, a frame of 14 bytes each, and then the rest of the handler
  (`Touched`, `exceptionAddressErrors`; MOVEM takes one or two for each register).  A fetch at an
  odd PC is `OddFetch`.  An odd supervisor stack ends the emulator.  The long at vector 3 is even
  (`InstructionsAssumption`); with an odd one two errors in a row would differ in their frames alone.
* A line of assembly is a sequence of tokens.  The lexer, number formats and the texts of
  errors are left out.  The assembler's addresses are naturals (`u32` in the code, which would
  wrap at 2^32), and a DC may have more than the 256 values that the code keeps.
* What the disassembler prints is a record of mnemonic, size and operands.

Abstractions of the compiler:

* A program is a sequence of tokens.  Types are `void`, `char`, `short`, `int`, `long` and
  pointers and arrays of them.
* A byte has 3 bits, an `int` 6, a `long` or a register 12, and a number that is folded
  24 (`FoldBits`; 64 in the code): wide enough for a number that fits none of the widths
  before it.
* A line of assembly is an operation and two operands; section headers, labels of data and
  layout are left out.  So is the choice between quick and immediate forms.
* A stage keeps a stack of results in its record where the C code has them in local
  variables, so that evaluation order is that of the code.
* Whether `realloc` moves the blocks of a function is a choice of the step that lowers it.
* Functions called are external: `g` records its argument, and gives back another number at
  each call.  Programs are run for at most `Fuel` steps, 120.

## The runs

| run | question | bounds | result |
|---|---|---|---|
| `any_program` | Do exceptions enter correctly, is user code confined and does STOP hold, whatever program runs? | 1 device, 16 instructions of all kinds, the handlers that go on after an address error among them, 16 bytes of stack, 13 values of A7 (three of them odd), 2 open exceptions, one instruction per frame | holds (1 602 678 states) |
| `kernel_run` | Do nested handlers keep each other's frames and masks, does RTE restore, is the idle loop woken? | lines of levels 1, 4 and 5 with periods 3 and 7, host input between frames, 66 bytes of stack: three nested interrupts over a mistake or a system call | holds (280 331 states) |
| `devices` | Does each device keep its promise under every order of accesses? | eleven devices, one at a time: rings of 3, bursts of 2, a frame of 5 cycles, 12 bytes of RAM, sectors of 2 bytes and 2 commands, frames up to 2 bytes, 4 positions of 2 samples, 4 instants, 3 key slots | holds (522 450 states) |
| `instruction_set` | Do programs leave what the definitions of their operations say, can what an instruction saves be restored at every step, and does a user keep to his privileges? | bytes of 6 bits, decimal digits below 5, programs on edge operands, in both modes and at odd addresses and stacks; every handler of the table fires | holds (96 533 states) |
| `toolchain` | Do parser, encoder, CPU and disassembler mean the same? | lines of every mnemonic, all texts of three template lines, all 65536 words | holds |
| `compiler` | Does the assembly do what the C program says, and if not, in which stage is it lost? | 2970 programs: some 40 expressions, of every operator and form, each within some 60 others, pairs of precedence levels as statements, every statement, nesting of loops with break and continue, 13 programs that break a rule, members of what is no structure, and one complete program with each of its tokens missing; three levels of optimisation, blocks moved or not, six inputs | holds (43 956 states) |
| `callee_saves` | Does a function give back the registers it saved, as `codegen.c` says? | as `instruction_set` | violated |
| `user_stack` | Does A7 follow the mode, as `cpu.h` says? | as `any_program` | violated |
| `stale_interrupt` | Is what the CPU accepts asserted by a device? | levels 4, 5 and storage at 6 | violated |
| `frame_ends` | Does a frame end? | as `stale_interrupt`, fair | violated |
| `idle_loop` | Does the main loop run once interrupts are enabled? | as `stale_interrupt`, fair | violated |
| `uart_ready` | Is TXRDY a promise? | ring of 4 | violated |

Why the bounds are enough.  In `any_program` two open exceptions are what the
properties relate at most (one step takes at most two, and RTE returns from one), and
the stack is long enough for the long frame and for an odd stack pointer.  Host-driven
and ticking lines differ only in who raises them.  `Stacks` and `Routines` bound the A7s and the
places that a program may get to: even stacks a frame of either length apart, odd ones a step of a
MOVEM apart, the value that a read at an odd address loads into A7, and the PCs that RTS and RTR
take from there.  In `kernel_run` three levels are
nested over each other in all the orders that the masks permit: the states with a
level 1, a level 4 and a level 5 handler open at once are reached.  Rings of three wrap
several times, and are filled by a burst and one character more; the periods of the timer
need two digits to have halves; a frame of five cycles is divided by none of the steps 2,
3 and 4.  RAM ends at an odd number of words behind the overlay, so that DMA runs over its
end and through the overlay; two commands suffice to see the second start from what the
first left, and `Top = 32` lets sector sums wrap.  `MaxFrames`, `Stacks` and `Routines`
(`Fits`) cut off programs that leave them; `ran` is cut off at 30 cycles, six
frames.  `any_program` switches deadlock off because `Fits` and `crashed` end
behaviours; `kernel_run` checks it: the kernel never reaches a state where the loop
cannot go on.

`kernel_run` has no storage controller.  With it, as `machineCreate` attaches it, the
line at level 6 is up from reset and nothing of main ever runs again after interrupts
are enabled (run `idle_loop`), so that little of what the other properties are about
would happen.  The instance shows the kernel as it behaves once a command has failed,
or with a controller that reports completion only.

`MiniMint`'s idle loop polls; `Sleeps` lets the instance of `kernel_run` wait in STOP as
well, the instruction for it, which is what `WakesUp` is about.

## Properties

* `ExceptionEntry`, `UserConfined`, `StopHolds` (`Machine`): action properties about any
  program.  `ExceptionEntry` promises the stacked words where the frame lies in RAM (`InMemory`): pushes
  past its end are lost, and without that proviso a run finds the property false.  `UserConfined` is the one to argue about: every
  privileged instruction has its own test.  Both name, by instruction and by the oddness of its
  address, the handlers that go on after an address error, and say of those what does hold: for
  `ExceptionEntry` supervisor mode, no trace and the mask; of place and frame, whichever of the two the
  handler does not touch.  User code that calls or returns at an odd A7 goes on in supervisor mode
  where it meant to go, and `UserConfined` says that this is the only way.
* `FramesIntact`, `MasksRise`, `ContextRestored` (`Kernel`): memory holds each open frame,
  frames do not overlap, masks rise strictly with each nested interrupt, and RTE is the
  inverse of the exception it returns from.  `KernelIInv` is the inductive invariant
  behind them, checked here before it was proved.
* `WakesUp` (`Kernel`): liveness.  The only fairness is `WF_vars(KernelNext)`: a `while` loop
  of one thread takes its next step.  No particular instruction is assumed fair.
* `CharactersInOrder`, `RingsOnTime`: refinement of `Channel`, by both rings, and of `Alarm`.
  The ring of `uart.c` does not test whether it is full, and `Channel` says exactly what that costs:
  a full ring's worth of characters at once, never some of them, and order is kept.
* `InputSignalled`, `FramesOnTime`, `OutputCurrent`: status bits and caches
  that repeat what other state says.
* `WordsAreBytes` (`Bus`): a word access is two byte accesses wherever it lands: overlay,
  end of a region, latch.
* `CommandHonest` (`Storage`): a command tells the truth.  It is READY exactly when the image
  has all the sectors and can be written if it must be, and then exactly those bytes have
  moved, through ROM, latch and RAM as the bus decodes them; one that ends in ERROR has moved
  none.  It is stated for ranges whose last byte is below 2^32 and that are no longer than
  the address space; the other commands are in the model, and accepted when they should
  not be.
* `BootLoads` (`Boot`): whatever happened before the last reset, the jump into the kernel
  finds it, its vectors and no overlay; without a disk, or with one that is too short, the
  ROM jumps all the same, into cleared memory.
* `FrameAsSent` (`Network`): what the host pulls is what memory held when the frame was
  sent, however late it pulls and whatever is written since.  The length is the one at the
  time of the pull, as in the code.
* `DrainsNewest` (`Audio`): a drain delivers the newest samples that were mixed, in order, as
  many as the ring holds and the host has room for.  It moves no read position, so that
  the next drain delivers them again.
* `OneInstant` (`Rtc`): all that is read while the clock is latched tells of one instant.
  Without the latch a single word may mix two, and nothing is promised.
* `KeysAccounted` (`Keys`): with no handler running the ring holds the keys that handlers
  have read, in order, except those of the uart that came while the keyboard's handler held
  the head (one of them is kept); a ring that turns full looks empty; a poll that found a key
  goes to the oldest, and before it moves the tail there is one to take away.  This holds until
  the program is `astray` (above); an exchange before the handler's LEA changes which byte is
  stored, not where.  A key the host has set and no handler has read keeps the interrupt
  up, except one set between the handler's read of the port and its clearing of the status.
* Most properties of `instruction_set` compare what a program leaves with whole-number
  definitions: `ExactArithmetic` with sums of binary and of decimal limbs, powers of two and
  multiplication, `ConditionsDecide` with the relations of their names; `ControlComesBack`,
  `OperandsNamed` and `TrapsTransparent` are about loops and calls, bits and addressing modes, and
  handlers.  `InstructionBoundary` is about all of them: control only reaches first words of
  instructions.
* Three are about any code at all (`Instructions`) and are proved as well.  `PrivilegeKept` is
  `UserConfined` with every handler and at the precision of bytes: an instruction of a user
  changes no system byte and no other stack pointer, or is an exception whose frame has the user's
  system byte, or has met an odd word: then the CPU is in supervisor mode at a vector (or, after a
  MOVE, behind its destination's extension words there), or where BSR, JSR, RTS and RTR go; or the SSP
  was odd.  `SavedRestored` looks at each state and asks what the instruction at hand, or an
  exception at this point, would save, and whether its counterpart gives it back; of addresses
  it asks only that the frame lies in RAM where no code does.  `TypeOK` says that the registers
  are there and that the mask has three bits.
* The properties of `toolchain` are equivalences with exact exceptions: outside of the sets
  they name the tools agree, and in them they do not (`ReadAsWritten`, `ExecutedAsWritten`,
  `ListingAgrees`).  Only `Untranslated` lines are left aside.  `PassesAgree` says what two
  passes promise, under the condition that `Settled` names.
* The properties of `compiler` follow a program through the stages.  `ParsedAsWritten` and
  `ParserAdvances` are equivalences, with the exceptions that `MisreadNode` and a brace name.
  `AcceptedAsScoped` is one as well, but for labels.  `LoweredAsMeant` compares the
  intermediate code with an evaluation of the tree in C's own terms, `OptimizedAlike` the code
  before and after a pass, `GeneratedAlike` assembly with intermediate code; what these
  leave out is stated of the program (what it does in this run, `odd`) or of the code
  (`Joined`, `StoresThrough`, `OverCall`, `Spills`), not of the result.

`SavedRestored` keeps aside, and says so, what the code does not give back: to a user, A7 after an
exception (below, 1), the step of JSR's own operand in modes that step a register, which the
decoder admits, a frame on A7 itself, and MOVEM downwards, which `CalleeSaves` is about.

Each property is checked to be able to fail: PROJECT.json names, for each, a mutant of
a modelled operation (a definition with "mutant" in its comment) that violates it.

## What disagrees with the repository's own words

The six violated properties restate comments of the code; PROJECT.json quotes them.

1. Leaving supervisor mode does not switch stacks.  The new SR is stored first, and
   `cpuSetSupervisor` then sees nothing to do.  User code goes on with the supervisor
   stack pointer, and the next exception loads an old SSP.
2. Nothing calls `cpuLowerInterrupt`; a level once presented stays pending for ever, and
   after its device has been served it is accepted again as a spurious interrupt whenever
   the mask permits.
3. `machineRunFrame` does not end while the CPU is stopped with its levels masked.
4. READY of the storage controller, an interrupt of level 6 that is there from reset
   on, starves the kernel's main loop.
5. TXRDY is set when the transmit ring is full, and the write empties the ring.
6. A compiled function does not give back the registers it saved: MOVEM to -(A7) and MOVEM
   from (A7)+ go through the registers in the same order.

Stated by the exceptions of the `toolchain` properties:

* The parser's comment takes a label "at column 0"; `FOO EQU 5` without a colon is a NOP.
* Operands with an index register, a size of an address, a negative number or `n(PC)` lose
  the rest of their line without an error: `#-1` is 0, `-4(A6)` is not a displacement.  The
  kernel's `MOVE.B D0,0(A0,D1.W)` assembles as `0(A0)`, and its `MOVE.B 0(A0,D1.W),D0` to
  nothing.  `Keys` takes these two as they are written; MOVEM is the CPU's own.
* The CPU executes MOVEP, CMPM, EXG and ILLEGAL as something else, because a later
  registration covers their entries (`Shadowed`).
* A short branch to the next instruction is encoded with displacement 0, which means that a
  word follows; one that is out of reach is cut (`ShortZero`, `OutOfReach`).
* The disassembler shows SR as CCR, CMPA.L An as CMPM, EXG with its registers swapped and
  conditions under their other name (`Mislisted`).
* ADD, SUB, AND, OR and CMP to destinations other than a data register are not turned into
  the instruction that can do it (`Untranslated`).
* Undefined symbols are 0 and duplicates go undiagnosed; an EQU of a symbol defined further
  down is 0; DC with several symbols emits the first; ORG backwards and forwards again pads
  too much.

Stated by the exceptions of the `compiler` properties:

* The parser takes `-(int)a` for something else, moves the parts of a `for` that lacks one,
  reads `a + b * c;` from left to right when it is a statement by itself, and drops the second
  of two globals that share a type.  A declaration without a type that has got to a
  brace keeps it there for ever.
* A label that `goto` names need not exist.
* `&&` and `||` evaluate both operands; a `switch` runs through all its cases; a variable
  that hides another one is the same variable; narrowing to `char` or `int` is not done; what a
  pointer is moved by is not scaled; elements are loaded and stored as longs; `++` and compound
  assignment on anything but a variable are not stored; parameters are looked for under
  their name and not in the frame.
* Copy propagation takes the last definition of a temporary, in the order of the text, for
  all of its uses (`Joined`), so that from level 1 on `&&`, `||` and `?:` have the value of their
  last branch.  Folding shifts negative numbers in 64 bits.
* Generated code keeps values over calls in D0 and D1, has the first places in the frame
  overlay the saved registers, shares one buffer between the names of two places, and
  writes through data registers, which the MC68000 cannot.

Stated by the exceptions of the properties of `Machine`, `Instructions` and `Keys`:

* An instruction that meets an odd word does not end there.  A JSR, BSR, RTS or RTR of a user on
  an odd A7 runs its target in supervisor mode; UNLK, LINK, MOVEA, RTS and MOVEM leave the
  supervisor's A7 off the frame that has just been pushed on it.
* The kernel's handlers of keyboard and uart, which save D0-D1/A0 by the MOVEM of 6, exchange D0
  and A0 of what they interrupt: the uart's can make the keyboard's store another byte, or store it
  to an address that the key is part of; either can make `key_poll` see a key where there is none, or none
  where there is one.

Met while reading, not stated as properties: the frame of an address error ends with PC on top,
where the comment of `exceptions.c:53` has SR; RXRDY on an empty ring is never cleared by
a read; `RESET` does not reset devices; nothing in the repository calls `uartPushInput`,
`parallelSetInputA` or `picAssertLine`; `halted` is never set; the status of the audio
controller is never set.

## What is proved

All theorems hold for every value of the constants that satisfies the named
assumptions (`CpuAssumption`, `MachineAssumption`, `KernelAssumption`, `KeysAssumption`,
`TimerAssumption`, `VideoAssumption`, `UartAssumption`, `ConsoleAssumption`, `AudioAssumption`,
`BusAssumption`, `StorageAssumption`, `BootAssumption`, `NetworkAssumption`, `RtcAssumption`,
`AluAssumption`, `InstructionsAssumption`, `AssemblerAssumption`).
Each says of a constant what the source says of the number it stands for: that the console
of `main.c` takes as many characters as the uart's ring can hold (255 and 256 slots), that the
kernel fits into RAM above the two vectors that the boot program writes, that a word is two bytes, that a
text is made of the lexer's tokens.

* `MachineTypes`: `Spec => []TypeOK`.  One lemma per operator of `Cpu` (it keeps a CPU
  record a CPU record), one per action.  `TypeOK` is inductive.  What is not obvious in it:
  the word that `Encode` makes of SR fits, `Decode` of any word is a status register,
  address halves recombine to an address, and the pending level is -1 or 1 to 7.
* `MachineUserConfined`: `Spec => UserConfined`, for every program.  By `MachineTypes` and a
  case split over what an instruction does in user mode, followed by a possible trace; the frames that an
  instruction opens begin with the user's SR also where it opens two and then jumps.
* `MachineStopHolds`: `Spec => StopHolds`, for every program and any devices.  The invariant it
  rests on, besides types, is `NothingExecutes`: the loop never gets to the fetch while the CPU
  is stopped.  No exception changes the stopped state by itself (`ProcessKeepsStopped`), so
  that only the acceptance of an interrupt wakes (`AcceptWakes`).
* `MachineExceptionEntry`: `Spec => ExceptionEntry`, for every program, any devices and any
  stack pointer.  `ProcessEnters` and `AddressErrorEnters` say what an entry leaves, for the
  two lengths of frame, wherever A7 points; `DecodeServes` that no instruction adds a frame in
  another way, an address error in the midst of an exception's own pushes included, and what the
  handlers that go on after an address error make of PC and A7; `AcceptEnters`
  that the acceptance of an interrupt changes nothing but the mask afterwards.  The words are
  promised where the frame lies in memory: a push past the end of RAM is swallowed by the bus.
* `KernelInvariant`, `KernelFramesIntact`, `KernelMasksRise`, `KernelContextRestored`: the
  kernel's safety properties, for any devices below level 7, any vector table with even
  handlers, any even reset stack and any saved values.  `FramesIntact` alone is not
  inductive: that memory still holds a frame needs every write to be below it, that RTE
  reads the right words needs A7 to be at the last frame, and that an interrupt's mask is
  above those of the frames below it needs the mask that RTE goes back to.  `KernelIInv`
  says all of it; the proof adds to it the types and that level 7 is never pending.
  One lemma says what an exception does to the stack (`ProcessStacks`, and
  `AddressErrorStacks` for the longer frame), one that a frame pushed so keeps the
  invariant (`StackingKeeps`), one that a routine's own data does (`RoutineKeeps`), and one
  that RTE gives back what was interrupted (`ReturnKeeps`: the words of SR and PC are
  decoded to what they encode).  The assumption `KernelAssumption` is what a level-7
  device, an odd handler address or an odd initial stack would break.  Memory addresses
  are bounded by the reset stack above and by `Fits`, the RAM, below.
* `TimerRingsOnTime`: `TimerSpec => RingsOnTime`, a refinement.  The step maps each write of
  a half to `SetNext`, which needs that replacing a digit of a two-digit number gives a
  two-digit number, and a tick to `Pass` or `Ring`, with elapsed = loaded - counter.
* `VideoFramesOnTime`: `FramesOnTime` is not inductive: it does not mention the accumulator.
  `Accounted` adds `ran = frames * cyclesPerFrame + cycleAccum` with the accumulator below a
  frame, from which the quotient follows.

* `PicOutputCurrent`: the kept output is what the masks give.  Inductive with the types;
  each writer of a mask recalculates.
* `UartInputSignalled`: unread input keeps RXRDY up, for rings of every size and bursts of
  every length.  Inductive; the case that matters is a burst that wraps to an empty ring.
* `RtcOneInstant`: `OneInstant` is strengthened to: what was read since the latch is the
  instant the registers hold.
* `BusWordsAreBytes`: for all sizes, layouts and contents.  A word either lies within one
  region, where its bytes do too, or falls back to bytes; `BusAssumption` has ROM, latch and
  the end of the address space at even addresses, while RAM may have an odd end.
* `NetworkFrameAsSent`: the invariant says that the host's buffer begins with the frame that
  was sent; `FrontReplaced` is the lemma about copying a frame to the front of a sequence.

* `StorageHonest`: `StorageSpec => CommandHonest`.  A command is a fold of sectors, each a fold
  of bytes.  `ReadingLoop` and `WritingLoop` say what a fold does after any number of sectors,
  `ReadingLoads` and `WritingMoves` which bytes have then moved; the arithmetic (`Distances`,
  `OffsetsInReach`) is that an address that wraps at 2^32 meets no byte twice in a transfer that
  is no longer than the address space.
* `KernelBoots`: `BootSpec => []BootLoads`.  `BootLoads` speaks of the moment of the jump only;
  `Booting`, the inductive invariant, says for each step of the boot program what the
  controller's registers and the memory are by then.  `KernelRead` takes what `ReadingLoads` says of
  the disk command to the RAM under the overlay, where ROM still answers reads; the vectors that
  are written last lie below the kernel.
* `KeysAccountedFor`: `KeysSpec => []KeysAccounted`, for a ring of any size and every
  interleaving.  `Registers` says where D0 and A0 of the keyboard's handler may be exchanged, and that
  an A0 that is not the buffer is a key in the wrong place.  `PollOwed` says that a poll that goes to
  the ring finds a key there unless it is astray.  `RingInv` counts the keys that the uart's handler has stored between the
  keyboard handler's read of the head and its store of it (`raced`), and says where the head
  goes back to and which key survives; a poll, which runs between two handlers or under them,
  moves the tail alone.  `SignalInv` is about the status and the handler that is about to clear it.
* `UartInOrder`: `UartSpec => CharactersInOrder`, the refinement of `Channel` by both rings.
  `Contents` is the queue a ring stands for; `PutContents` and `DropContents` are one character
  more and one less, at the wrap too, and `PutAllContents` is a push of any length by induction:
  it leaves what a queue would, or, when it fills the ring, forgets a whole ring.
* `AudioDrains`: `AudioSpec => []DrainsNewest`.  The invariant `HoldsNewest` reads the ring
  backwards from the write position: slot after slot is the newest sample, the one before it.
  `SlotMoves` is why it survives the wrap of the position: it wraps at a multiple of the
  slots.  Ticks and drains are folds; `PassingHolds` and `DrainedIs` are by induction over them.

* `CompareDecides`, `LimbSummed`, `LimbSubtracted`, `NegIsSub`, `DecimalSummed`,
  `DecimalSubtracted`, `DivuInverts`, `DivsInverts`: the arithmetic of `alu.c` at the program's own widths
  (`ByteBits = 8`, `Radix = 10` are hypotheses), for all operands of 8, 16 and 32 bits, where the
  run `instruction_set` takes edges of narrower words.  A chain of ADDX is a number of limbs
  that is as long as the program likes: `Summed` says what holds of the limbs so far, `LimbSummed` that
  one more keeps it, at a weight that is any number; `AddBegins` (ADD, or ADDX with X clear and Z
  set) starts it.  `LongerSum` is the algebra that binary and decimal limbs share.
* `LeftMultiplies`, `RightDivides`, `RotatesLeft`, `RotatesBack`: the eight shifts and rotations of
  `alu.c`, for every operand and every count, 0 and counts beyond the width included.  The
  code moves one bit at a time.  `TurnsAre` unrolls its loop into the sequence of its states,
  `LeftTurn` and `RightTurn` say what a turn does to the number as arithmetic, and an
  induction over the turns relates the result to a product or a quotient
  (`Multiplied`, `Overflowed`, `DividedBy`, `Doubled`) or to the number that another
  loop takes back (`RotatedBack`).  The provers know nothing of 2^n for a variable n: a
  power of two is a function that is 1 at 0 and doubles (`Doubling`).
* `LogicBitwise`: AND, OR, EOR and NOT, bit by bit.  The result is a sum of weighted bits
  (`FromBits`).  An induction over its partial sums (`PartialSums`) shows that each is below the
  next weight and has the bits put into it; that a lower bit is that of the sum without its top
  is `HigherBits`.  Only here are powers of two themselves needed, up to 2^32: `Powers` has the
  provers compute each.

`InstructionProofs` is about `Instructions` at bytes of 8 bits, and about any code: `Spec` begins in any
state that `TypeOK` allows, with any instructions anywhere.  Operands may be anything.  The one
hypothesis on a behaviour is `CodesGiven`: the word behind an ORI or EORI to CCR is a number.  In
the machine every word is one; in the model an opcode is a record, so that an instruction that ended
in the middle of another would make a status register of no number.  `instruction_set` checks
`CodesGiven` with `InstructionBoundary`.

* `TypeCorrect`, `PrivilegeCorrect`.  `Kept(s, t)` says that t is a CPU state with the system byte, both
  saved stack pointers and the stop of s, or with what address errors make of them (`ModeKept`), and
  then at the handler (`Handled`); the handlers that assign the PC keep the former alone.  One lemma per operation of the ALU, per
  addressing mode and per family of handlers shows it (`SumsKept` to `BranchesKept`); what is left
  are the handlers that test the S bit, which is `PrivilegedLawful`, and those that trap.
  `UserTraps` adds what the frame holds: `DecodeEncode` is the round trip of the
  status register through its 16 bits, `FrameRead` that the word is there.
* `HandlerReturns`, `SubroutineReturns`, `FrameUnlinks`: what an exception, a call and LINK save,
  RTE, RTS and UNLK restore, whatever ran in between, if the bytes of the frame and the pointer at it
  are as they were.  Big-endian words are sums of their bytes (`ReadsLong`, `Writes`), and
  an address is a 32-bit number of which the bus takes 24 bits: the frame is at its address modulo
  `AddrSpace`, and the pushes below 0 that wrap the register land there too (`Congruent`,
  `LongCut`; `InstructionsAssumption` has the address space divide the registers' range).
* `RegistersReload`: MOVEM.L upwards, any routine, and MOVEM.L back.  The place of a register is its
  rank in the mask; that two of them do not overlap is `Apart`, from `Ranks`: the rank grows along the
  mask and stays below its size (facts about `Cardinality`, whence `FiniteSetTheorems`).
* `SavedCorrect`: `SavedRestored` in every reachable state, from the three above with nothing in between.
* `RegisterBits`, `MemoryBits`: BSET, BCLR and BCHG in both forms.  `BitAlone` is the arithmetic: a
  number with 2^n added or taken away differs in bit n only, by the lemmas under `LogicBitwise`.
  In memory the address is that of the mode (`MemoryAddressed`), and the pointer that the mode steps
  does not change which byte it is.

`AssemblerProofs` is about every text: any number of lines, each any sequence of tokens, at any origin.

* `LengthKept`: with any two tables of symbols a line's code is equally long, unless it is a DS or an
  ALIGN, whose count a symbol may give.  `LineRead` goes through the parser: whatever the tokens
  are, an operand has one of the forms of `parser.h`.  `EncodedAlike` goes through the encoder: it
  looks at the forms of the operands and never at a symbol's value to decide how many
  words there are.  `ResolvedAlike`: to put a value in changes no form.
* `PassesAgreed`: `Spec => []PassesAgree`.  The property compares the code with the symbols at the end,
  and is not inductive: that the second pass defines a label again with the value it has
  needs that it is at the same pc as the first pass was at this line, with other symbols.
  The invariant `AssemblerInv` keeps what the first pass has done as two functions, the
  pc and the symbols behind every line (`Goes`; `InFirst`), and says that the second is
  at the same pc with the symbols of the end (`InSecond`), in a text that is `Settled`.
  `GoesKeeps` is that a name defined once keeps the value of its line, `NeededKnown` that
  the count of a DS or ALIGN is known in both passes, `SecondLikeFirst` the step.  `Laid` and
  `ReachedStays` are about the output, in any text whose ORGs have gone forward.
* `ListedPassesAgree`: the same for `ToolSpec`, the specification of the run.

Folds are over data, and the library's induction theorems, which take an operator, cannot be
used.  `Basics` goes around them: induction as a theorem about a set of numbers (`Induct`,
from the well-foundedness of <), folds as the function that `FoldLeft` and `MapThenFoldSet` choose,
shown to exist (`FoldDefined`) and unfolded at its last turn (`LastTurn`), and the recursive
functions of the models likewise (`Recursion`).

Model-checked only: liveness (`WakesUp`), which is out of the prover's reach; the other properties
of `instruction_set`, which say what the programs of its library leave (the theorems of
`AluProofs` and `InstructionProofs` are about the operations they use, for all operands); the other
three properties of `toolchain`, which compare lines with what their author wrote and words with
tables, case by case over a finite library; and those of `compiler`, which run over a library
of programs, and whose modules use recursive operators and Bitwise.

## Hazards without a property

* `cpu.c:146`: a traced STOP.  The operators have it, the instances' programs do not; what should
  happen is not stated anywhere.
* `storage.c:11`: the byte range of a command wraps at 2^32.  The model has it (`Top`); `CommandHonest` leaves
  these ranges out, and nothing says what the controller should do.
* `network.c:116`: TXLEN written between a send and the host's pull.  The model has it; `FrameAsSent`
  is about the bytes and takes the length that the code takes.
* `compiler.c:449`: a block emitted through a pointer from before `realloc`.  The model moves blocks; no
  program of the run has just the eight blocks before such a jump that lose it.

Of these the properties that cover the hazard's lines set the very case aside in which the code goes
wrong: `&&`, `||` and `switch` (`LoweredAsMeant`), a temporary with two definitions under copy propagation
(`OptimizedAlike`), spilled operands and values kept over calls (`GeneratedAlike`).  And an odd
number of exchanges in the window of `kernel.s:845-852` is followed to the store that goes astray,
not beyond (`KeysAccounted`).  A second `audioDrainSamples` delivers the same samples again: in `Audio`,
accepted by `DrainsNewest`.

## Plan

1. Proofs: effective addresses (that each mode steps its register once), MOVEM of words,
   programs of `MCInstructions` for all operands, from the theorems about single handlers; that
   the disassembler gives back the line of a word for the encoder's own operands.
2. The compiler: structures and typedefs, and programs of several functions.

## Not modelled

Of the C compiler: its lexer, structures, unions, enumerations (a member of what is none is
modelled), typedefs, floating point, strings, variadic functions and loops nested more than 32 deep.  The lexer,
macros (nothing calls them) and output formats of the assembler; text formatting; the GUI and the command-line
tools, which are input and output; `mkdisk.c`; byte buffers and logging; cycle tables (any
step may take any number of cycles within a bound); VRAM, palette and rendering, which are
plain storage.
