SPECIFICATION Spec
CONSTANTS
  MaxData = 2
  ModeAttempts = 2
  BusFrames <- SomeBusFrames
  Commands <- SomeCommands
  MaxBusFrames = 4
  MaxCommands = 2
INVARIANTS CapturedOnceReportedOnce AcceptedIsSentWhole
PROPERTIES BuffersDrain
