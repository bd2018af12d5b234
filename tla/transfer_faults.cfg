SPECIFICATION Spec
CONSTANTS
  kCompactWindowWidth = 2
  SequenceModulus = 8
  MaxRetries = 0
  LinkResults = {"Sent", "Partial"}
  ReceiveWindowWidth = 2
  MaximumObjectSize = 10
  MaximumSegmentSize = 2
  Admissions = {"Accepted"}
  SinkResults = {TRUE}
  MaximumPayload = 2
  MaximumSegments = 6
  Requests <- TwoSessions
  InactivityTimeout = TRUE
  LocalAborts = TRUE
INVARIANT CompletionIsTrue
