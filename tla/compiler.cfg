SPECIFICATION CompilerSpec
CONSTANTS
  Programs <- MCPrograms
  MaxErrors = 4
  BlockCapacity = 8
  FoldBits = 24
  MaxTemps = 256
  DataRegisters = 8
INVARIANTS ParsedAsWritten ParserAdvances AcceptedAsScoped LoweredAsMeant GeneratedAlike
PROPERTY OptimizedAlike
CHECK_DEADLOCK FALSE
