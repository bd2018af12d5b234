SPECIFICATION MachinesSpec
CONSTANTS
  kCompactWindowWidth = 3
  SequenceModulus = 6
  MaxRetries = 1
  LinkResults = {"Sent", "Full", "Partial", "Failed"}
  ReceiveWindowWidth = 3
  MaximumObjectSize = 9
  MaximumSegmentSize = 2
  Admissions = {"Accepted", "Busy", "TooLarge", "Rejected"}
  SinkResults = {TRUE, FALSE}
  Traffic <- OpenTraffic
  InactivityTimeout = TRUE
  MaximumPayload = 2
  MaximumSegments = 6
  Answers <- AnyAnswer
  Requests <- SameSession
INVARIANTS OpenGrantBacked OpenDeliveredOnce OpenEndsOnce OpenCompleteWhenWhole AckIsHonest
INVARIANTS SendsWithinGrant CompletionWasSent RetriesBounded TransmitterEndsOnce
PROPERTIES ActiveSessionFixed EndedStaysEnded ProgressIsKept
