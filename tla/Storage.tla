------------------------------ MODULE Storage ------------------------------
(***************************************************************************)
(* The storage controller (src/src/devices/storage.c): a command moves     *)
(* sectors between the disk image and the bus, byte by byte, before the    *)
(* write of the command register returns.  Sector number and address are   *)
(* written in halves.                                                      *)
(***************************************************************************)
EXTENDS Bus, Sequences
LOCAL INSTANCE SequencesExt

CONSTANTS
  SectorSize,
  Disks,          \* the contents a disk image may have
  SectorWords,    \* bound: what programs write to the halves of the sector number
  Counts,         \* bound: what they write to the sector count
  MaxCommands     \* bound: commands in one behaviour

ASSUME StorageAssumption ==
  /\ MaxCommands \in Nat
  /\ SectorSize \in Nat \ {0} /\ LongMod % SectorSize = 0
  /\ Disks \subseteq Seq(Octet)
  /\ SectorWords \cup Counts \subseteq 0 .. Pair - 1

VARIABLES
  image,          \* the bytes of the image
  attached,       \* "none", "readonly" or "writable"
  sector, dmaAddress, sectorCount, status,
  commands        \* how many there have been, for the bound

registers == <<sector, dmaAddress, sectorCount>>
storageVars == <<image, attached, registers, status, commands>>
diskVars == <<busVars, storageVars>>

WithHigh(long, word) == Pair * word + (long % Pair)
WithLow(long, word) == Pair * (long \div Pair) + word

StorageInit ==
  /\ BusInit
  /\ image \in Disks /\ attached \in {"none", "readonly", "writable"}
  /\ sector = 0 /\ dmaAddress = 0 /\ sectorCount = 0 /\ status = "ready"
  /\ commands = 0

\* storageReset as busReset calls it; the image stays.
storageReset ==
  /\ Becomes(Cleared)
  /\ sector' = 0 /\ dmaAddress' = 0 /\ sectorCount' = 0 /\ status' = "ready"
  /\ UNCHANGED <<image, attached, commands>>

WriteSector(long) ==
  /\ sector' = long
  /\ UNCHANGED <<busVars, image, attached, dmaAddress, sectorCount, status, commands>>
WriteDma(long) ==
  /\ dmaAddress' = long
  /\ UNCHANGED <<busVars, image, attached, sector, sectorCount, status, commands>>
WriteCount(word) ==
  /\ sectorCount' = word
  /\ UNCHANGED <<busVars, image, attached, sector, dmaAddress, status, commands>>

----------------------------------------------------------------------------
(* Commands.  Offsets into the image are 32-bit and wrap.                  *)

StartByte == (sector * SectorSize) % LongMod
TotalBytes == sectorCount * SectorSize
Offset(i) == (StartByte + i) % LongMod
BeyondImage == Offset(TotalBytes) > Len(image)

\* A byte that lies outside the image, where the sum has wrapped, is undefined
\* behaviour in C: whatever memory holds there.
ImageByte(i, stray) == IF Offset(i) < Len(image) THEN image[Offset(i) + 1] ELSE stray
Indices == [i \in 1 .. TotalBytes |-> i - 1]
Counted == commands < MaxCommands /\ commands' = commands + 1

storageExecRead ==
  /\ Counted
  /\ IF attached = "none" \/ BeyondImage
       THEN status' = "error" /\ UNCHANGED busVars
       ELSE /\ status' = "ready"
            /\ \E stray \in Octet :
                 Becomes(FoldLeft(LAMBDA mem, i :
                   busWriteByte(mem, dmaAddress + i, ImageByte(i, stray)), Mem, Indices))
  /\ UNCHANGED <<image, attached, registers>>

\* A mutant of the next: the test of the range is off by one.
WriteToFullImage ==
  /\ Counted
  /\ IF attached # "writable" \/ Offset(TotalBytes) >= Len(image)
       THEN status' = "error" /\ UNCHANGED image
       ELSE /\ status' = "ready"
            /\ image' = FoldLeft(LAMBDA im, i :
                 IF Offset(i) < Len(im)
                   THEN [im EXCEPT ![Offset(i) + 1] = busReadByte(Mem, dmaAddress + i)]
                   ELSE im, image, Indices)
  /\ UNCHANGED <<busVars, attached, registers>>

\* What a write outside the image destroys is not modelled.
storageExecWrite ==
  /\ Counted
  /\ IF attached # "writable" \/ BeyondImage
       THEN status' = "error" /\ UNCHANGED image
       ELSE /\ status' = "ready"
            /\ image' = FoldLeft(LAMBDA im, i :
                 IF Offset(i) < Len(im)
                   THEN [im EXCEPT ![Offset(i) + 1] = busReadByte(Mem, dmaAddress + i)]
                   ELSE im, image, Indices)
  /\ UNCHANGED <<busVars, attached, registers>>

storageAttachImage ==
  /\ image' \in Disks /\ attached' \in {"readonly", "writable"}
  /\ UNCHANGED <<busVars, registers, status, commands>>
storageDetachImage ==
  attached' = "none" /\ UNCHANGED <<busVars, image, registers, status, commands>>

StorageNext ==
  \/ (\E w \in SectorWords : \/ WriteSector(WithHigh(sector, w))
                             \/ WriteSector(WithLow(sector, w)))
  \/ (\E w \in DmaWords : \/ WriteDma(WithHigh(dmaAddress, w))
                          \/ WriteDma(WithLow(dmaAddress, w)))
  \/ (\E n \in Counts : WriteCount(n))
  \/ storageExecRead \/ storageExecWrite
  \/ storageAttachImage \/ storageDetachImage \/ storageReset

StorageSpec == StorageInit /\ [][StorageNext]_diskVars

----------------------------------------------------------------------------
(* A command tells the truth, as long as its last byte lies below 2^32 (and it *)
(* moves no more than the bus can address): it is READY exactly when the image *)
(* has all the sectors (and can be written, for a write), and then exactly     *)
(* those bytes have moved, through ROM, latch and RAM as the bus decodes them; *)
(* a command that ends in ERROR has moved none.  When the sum wraps, a sector  *)
(* far beyond the image is accepted.                                           *)
InReach == sector * SectorSize + TotalBytes < LongMod /\ TotalBytes <= Top
Holds == attached # "none" /\ (sector + sectorCount) * SectorSize <= Len(image)
Distance(x) == (x - dmaAddress) % Top       \* which byte of the transfer x takes

ReadMoved ==
  /\ ram' = [x \in 0 .. RamSize - 1 |->
              IF Distance(x) < TotalBytes
                THEN image[sector * SectorSize + Distance(x) + 1] ELSE ram[x]]
  /\ romOverlay' = (romOverlay /\ Distance(Latch) >= TotalBytes)
WriteMoved ==
  image' = [b \in 1 .. Len(image) |->
              IF b - sector * SectorSize \in 1 .. TotalBytes
                THEN busReadByte(Mem, dmaAddress + b - 1 - sector * SectorSize) ELSE image[b]]

ReadHonest == IF Holds THEN status' = "ready" /\ ReadMoved
                       ELSE status' = "error" /\ UNCHANGED busVars
WriteHonest == IF Holds /\ attached = "writable" THEN status' = "ready" /\ WriteMoved
                                                 ELSE status' = "error" /\ UNCHANGED image
CommandHonest ==
  [][InReach => (storageExecRead => ReadHonest) /\ (storageExecWrite => WriteHonest)]_diskVars
=============================================================================
