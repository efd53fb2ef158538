SPECIFICATION KernelSpec
CONSTANTS
  VectorTable <- MCVectorTable
  MemLo = 60
  MemHi = 126
  OpcodeWord = 5
  Device <- StorageDevice
  Level <- StorageLevel
  Period <- StoragePeriod
  HostDriven <- MCHostDriven
  ReadyAtReset <- StorageReady
  Instr <- MCInstr
  Budget = 2
  ResetSsp = 126
  ResetPc = 2048
  Stacks <- MCStacks
  Routines <- Addresses
  MaxFrames = 12
  Saved = 7
  MainDevice <- StorageMainDevice
  Sleeps = TRUE
PROPERTY NoStaleInterrupt
