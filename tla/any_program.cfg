SPECIFICATION Spec
CONSTANTS
  VectorTable <- MCVectorTable
  MemLo = 112
  MemHi = 127
  OpcodeWord = 5
  Device <- MCDevice
  Level <- MCLevel
  Period <- MCPeriod
  HostDriven <- MCHostDriven
  ReadyAtReset <- MCReadyAtReset
  Instr <- MCInstr
  Budget = 1
  ResetSsp = 126
  ResetPc = 2048
  Stacks <- MCStacks
  Routines <- MCRoutines
  MaxFrames = 2
INVARIANT TypeOK
PROPERTIES ExceptionEntry UserConfined StopHolds
CHECK_DEADLOCK FALSE
