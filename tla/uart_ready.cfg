SPECIFICATION UartSpec
CONSTANTS
  Char = {1, 2}
  Slots = 4
  ConsoleMax = 3
  MaxPush = 2
PROPERTY ReadyToTransmit
