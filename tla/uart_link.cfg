SPECIFICATION Spec
CONSTANTS
  Bodies <- SomeBodies
  HeaderSize = 1
  SendCapacity = 3
  FrameCapacity = 2
  Checksum <- SumChecksum
  NoiseBytes = {126, 125, 65}
  MaxFrames = 2
  MaxNoise = 2
CHECK_DEADLOCK FALSE
INVARIANTS
  UartTypeOK
  IntactFramesArrive
  QuietLineIsFifo
