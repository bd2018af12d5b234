SPECIFICATION Spec
CONSTANTS
  MaxData = 2
  ModeAttempts = 2
  BusFrames <- SomeBusFrames
  Commands <- SomeCommands
  MaxBusFrames = 2
  MaxCommands = 1
INVARIANT DataFramesOnly
