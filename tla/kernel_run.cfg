SPECIFICATION FairKernelSpec
CONSTANTS
  VectorTable <- MCVectorTable
  MemLo = 60
  MemHi = 126
  OpcodeWord = 5
  Device <- MCDevice
  Level <- MCLevel
  Period <- MCPeriod
  HostDriven <- MCHostDriven
  ReadyAtReset <- MCReadyAtReset
  Instr <- MCInstr
  Budget = 2
  ResetSsp = 126
  ResetPc = 2048
  Stacks <- MCStacks
  Routines <- Addresses
  MaxFrames = 12
  Saved = 7
  MainDevice <- MCMainDevice
  Sleeps = TRUE
INVARIANTS FramesIntact MasksRise KernelIInv
PROPERTIES ContextRestored WakesUp
