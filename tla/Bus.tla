-------------------------------- MODULE Bus --------------------------------
(***************************************************************************)
(* The memory bus (src/src/bus/bus.c) as the devices that move data by     *)
(* themselves and the boot program use it: RAM from 0, the ROM, its        *)
(* overlay over low addresses until the latch is written, and nothing at   *)
(* any other address (what a device answers is its own module's matter).   *)
(* Each access decodes the address anew, bytes and words apart.            *)
(***************************************************************************)
EXTENDS Integers

CONSTANTS
  Base,       \* a byte is 0 .. Base - 1 (256), a word two bytes, a long four
  Top,        \* addresses are taken modulo Top (2^24)
  RamSize, RomBase, RomSize, Latch,
  Rom,        \* the contents of the ROM
  DmaWords,   \* bound: what programs write to the halves of a DMA address
  BusWords    \* bound: the words WordsAreBytes writes

Octet == 0 .. Base - 1
Pair == Base * Base
LongMod == Pair * Pair

ASSUME BusAssumption ==
  /\ Base \in Nat \ {0} /\ Top \in Nat \ {0} /\ LongMod % Top = 0
  /\ {RamSize, Latch, RomBase, RomSize} \subseteq Nat
  /\ RamSize <= Latch /\ Latch + 1 < RomBase /\ RomBase + RomSize <= Top
  /\ RomSize % 2 = 0 /\ RomBase % 2 = 0 /\ Latch % 2 = 0 /\ Top % 2 = 0
  /\ BusWords \cup DmaWords \subseteq 0 .. Pair - 1
  /\ Rom \in [0 .. RomSize - 1 -> Octet]

VARIABLES ram, romOverlay

busVars == <<ram, romOverlay>>
Mem == [ram |-> ram, overlay |-> romOverlay]
Becomes(mem) == ram' = mem.ram /\ romOverlay' = mem.overlay

InRom(x) == x \in RomBase .. RomBase + RomSize - 1
InRam(x) == x \in 0 .. RamSize - 1
Open == Base - 1        \* what an address with nothing at it reads as

----------------------------------------------------------------------------
(* Reading: overlay, then ROM, then RAM.  Words are read at even addresses *)
(* (at odd ones the processor takes an address error, as Cpu models).      *)

busReadByte(mem, address) ==
  LET x == address % Top IN
  IF mem.overlay /\ x < RomSize THEN Rom[x]
  ELSE IF InRom(x) THEN Rom[x - RomBase]
  ELSE IF InRam(x) THEN mem.ram[x]
  ELSE Open

\* A mutant of the next: words are not looked for in the overlay.
ReadWordBehindOverlay(mem, address) ==
  LET x == address % Top IN
  IF InRom(x) /\ InRom(x + 1) THEN Base * Rom[x - RomBase] + Rom[x + 1 - RomBase]
  ELSE IF InRam(x) /\ InRam(x + 1) THEN Base * mem.ram[x] + mem.ram[x + 1]
  ELSE Base * busReadByte(mem, x) + busReadByte(mem, x + 1)

busReadWord(mem, address) ==
  LET x == address % Top IN
  IF mem.overlay /\ x + 1 < RomSize THEN Base * Rom[x] + Rom[x + 1]
  ELSE IF InRom(x) /\ InRom(x + 1) THEN Base * Rom[x - RomBase] + Rom[x + 1 - RomBase]
  ELSE IF InRam(x) /\ InRam(x + 1) THEN Base * mem.ram[x] + mem.ram[x + 1]
  ELSE Base * busReadByte(mem, x) + busReadByte(mem, x + 1)

busReadLong(mem, address) ==
  Pair * busReadWord(mem, address) + busReadWord(mem, address + 2)

----------------------------------------------------------------------------
(* Writing: latch, then ROM, which keeps its contents, then RAM, also      *)
(* under the overlay.                                                      *)

\* A mutant of the next: under the overlay RAM cannot be written.
WriteByteThroughOverlay(mem, address, value) ==
  LET x == address % Top IN
  IF x = Latch THEN [mem EXCEPT !.overlay = FALSE]
  ELSE IF InRom(x) \/ (mem.overlay /\ x < RomSize) THEN mem
  ELSE IF InRam(x) THEN [mem EXCEPT !.ram[x] = value]
  ELSE mem

busWriteByte(mem, address, value) ==
  LET x == address % Top IN
  IF x = Latch THEN [mem EXCEPT !.overlay = FALSE]
  ELSE IF InRom(x) THEN mem
  ELSE IF InRam(x) THEN [mem EXCEPT !.ram[x] = value]
  ELSE mem

busWriteWord(mem, address, value) ==
  LET x == address % Top
      high == value \div Base
      low == value % Base
  IN IF x = Latch THEN [mem EXCEPT !.overlay = FALSE]
     ELSE IF InRom(x) THEN mem
     ELSE IF InRam(x) /\ InRam(x + 1) THEN [mem EXCEPT !.ram[x] = high, !.ram[x + 1] = low]
     ELSE busWriteByte(busWriteByte(mem, x, high), x + 1, low)

busWriteLong(mem, address, value) ==
  busWriteWord(busWriteWord(mem, address, value \div Pair), address + 2, value % Pair)

\* busReset: RAM is cleared and the overlay is on.
Cleared == [ram |-> [x \in 0 .. RamSize - 1 |-> 0], overlay |-> TRUE]
BusInit == ram = Cleared.ram /\ romOverlay = Cleared.overlay

----------------------------------------------------------------------------
(* Reading or writing a word is reading or writing its two bytes, the high    *)
(* one first, wherever it lies and whether or not the overlay is on: the      *)
(* four decoders of bus.c agree.  What a program writes as words, the disk    *)
(* and the network find as bytes.                                             *)
EvenAddresses == {x \in 0 .. Top - 1 : x % 2 = 0}
WordsAreBytes ==
  \A x \in EvenAddresses :
    /\ busReadWord(Mem, x) = Base * busReadByte(Mem, x) + busReadByte(Mem, x + 1)
    /\ \A w \in BusWords :
         busWriteWord(Mem, x, w)
           = busWriteByte(busWriteByte(Mem, x, w \div Base), x + 1, w % Base)
=============================================================================
