SPECIFICATION FairEndpointSpec
CONSTANTS
  kCompactWindowWidth = 2
  SequenceModulus = 4
  MaxRetries = 3
  LinkResults = {"Sent"}
  ReceiveWindowWidth = 2
  MaximumObjectSize = 10
  MaximumSegmentSize = 2
  Admissions = {"Accepted"}
  SinkResults = {TRUE}
  MaximumPayload = 2
  MaximumSegments = 6
  Requests <- LongTransfer
  InactivityTimeout = TRUE
  LocalAborts = FALSE
  ChannelCapacity = 2
  Reordering = FALSE
  MaxDisturbances = 2
  PatientTimers = TRUE
INVARIANTS AckedWasDelivered
PROPERTIES TransferCompletes
