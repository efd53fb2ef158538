SPECIFICATION PushPopSpec
CONSTANTS
  ByteBits = 6
  Radix = 5
  RamTop = 47
  AddrSpace = 65536
  Vectors <- MCVectors
INVARIANT CalleeSaves
