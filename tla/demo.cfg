SPECIFICATION Spec
CONSTANTS
  ClockModulus = 5
  period_ms = 3
  MaxStall = 2
  QueueCapacity = 2
  LastStep = 2
  MaxSends = 3
  MaxDisturbances = 1
INVARIANTS AcknowledgedIsShown LedFollowsBrightness HeartbeatsAreSpaced
