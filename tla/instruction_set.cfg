SPECIFICATION MCSpec
CONSTANTS
  ByteBits = 6
  Radix = 5
  RamTop = 47
  AddrSpace = 65536
  Vectors <- MCVectors
INVARIANTS TypeOK InstructionBoundary ExactArithmetic ConditionsDecide ControlComesBack OperandsNamed
  TrapsTransparent SavedRestored
PROPERTY PrivilegeKept
