SPECIFICATION MCSpec
CONSTANTS
  Char = {1, 2}
  Slots = 3
  ConsoleMax = 2
  MaxPush = 2
  Half = 3
  MaxCycles = 3
  cyclesPerFrame = 5
  MaxStep = 4
  MaxRan = 30
  Line = {0, 1}
  NoLine = 8
  Base = 4
  Top = 32
  RamSize = 12
  RomBase = 14
  RomSize = 10
  Latch = 12
  Rom <- MCRom
  BusWords = {14}
  DmaWords = {10}
  SectorSize = 2
  Disks <- MCDisks
  SectorWords = {1, 15}
  Counts = {1, 2}
  MaxCommands = 2
  KernelLoad = 8
  KernelSectors = 2
  StackTop = 27
  MaxFrame = 2
  FrameByte = {1}
  Samples = 2
  Positions = 4
  Loud = 2
  Clip = 2
  Freqs = {0, 1}
  Volumes = {0, 5}
  MaxTick = 2
  LastInstant = 3
  PortBit = {bit}
  KeySlots = 3
  SYS_KEYBUF = {keybuf}
INVARIANTS InputSignalled FramesOnTime OutputCurrent
  WordsAreBytes BootLoads FrameAsSent DrainsNewest OneInstant KeysAccounted
PROPERTIES CharactersInOrder RingsOnTime CommandHonest
