-------------------------------- MODULE Boot --------------------------------
(***************************************************************************)
(* The boot program in ROM (src/os/rom.s): it has the controller read the  *)
(* kernel into RAM, which the overlay still hides, drops the overlay,      *)
(* writes the two reset vectors and jumps.  What it prints is left out.    *)
(* It never looks at the status of the command.                            *)
(***************************************************************************)
EXTENDS Storage

CONSTANTS KernelLoad, KernelSectors, StackTop

\* The kernel lies in RAM above the two vectors, and is reached with 32-bit offsets.
ASSUME BootAssumption ==
  /\ {KernelLoad, KernelSectors, StackTop} \subseteq Nat
  /\ KernelLoad >= 8 /\ KernelLoad + KernelSectors * SectorSize <= RamSize
  /\ (1 + KernelSectors) * SectorSize < LongMod

VARIABLE romPc      \* the store of the program that is next

bootVars == <<diskVars, romPc>>

\* machineReset, at the start and at any later time
BootInit == StorageInit /\ romPc = 1
machineReset == storageReset /\ romPc' = 1

Store(n) == romPc = n /\ romPc' = n + 1
BootNext ==
  \/ machineReset
  \/ Store(1) /\ WriteSector(WithHigh(sector, 0))
  \/ Store(2) /\ WriteSector(WithLow(sector, 1))
  \/ Store(3) /\ WriteDma(WithHigh(dmaAddress, KernelLoad \div Pair))
  \/ Store(4) /\ WriteDma(WithLow(dmaAddress, KernelLoad % Pair))
  \/ Store(5) /\ WriteCount(KernelSectors)
  \/ Store(6) /\ storageExecRead
  \/ Store(7) /\ Becomes(busWriteByte(Mem, Latch, 0)) /\ UNCHANGED storageVars
  \/ Store(8) /\ Becomes(busWriteLong(Mem, 0, StackTop)) /\ UNCHANGED storageVars
  \/ Store(9) /\ Becomes(busWriteLong(Mem, 4, KernelLoad)) /\ UNCHANGED storageVars
AtKernel == romPc = 10

BootSpec == BootInit /\ [][BootNext]_bootVars

----------------------------------------------------------------------------
(* When the ROM jumps to the kernel, the program finds there what the disk    *)
(* has from its second sector on, the vectors of the next reset are written   *)
(* and nothing hides them; and with no disk, or one that is too short, it     *)
(* jumps all the same, into cleared memory.                                   *)
KernelOnDisk == attached # "none" /\ Len(image) >= (1 + KernelSectors) * SectorSize
BootLoads ==
  AtKernel =>
    /\ ~romOverlay
    /\ busReadLong(Mem, 0) = StackTop /\ busReadLong(Mem, 4) = KernelLoad
    /\ \A i \in 0 .. KernelSectors * SectorSize - 1 :
         busReadByte(Mem, KernelLoad + i)
           = IF KernelOnDisk THEN image[SectorSize + i + 1] ELSE 0
=============================================================================
