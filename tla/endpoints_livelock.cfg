SPECIFICATION FairEndpointSpec
CONSTANTS
  kCompactWindowWidth = 2
  SequenceModulus = 8
  MaxRetries = 1
  LinkResults = {"Sent"}
  ReceiveWindowWidth = 2
  MaximumObjectSize = 10
  MaximumSegmentSize = 2
  Admissions = {"Accepted"}
  SinkResults = {TRUE}
  MaximumPayload = 2
  MaximumSegments = 6
  Requests <- OneTransfer
  InactivityTimeout = FALSE
  LocalAborts = FALSE
  ChannelCapacity = 3
  Reordering = TRUE
  MaxDisturbances = 0
  PatientTimers = FALSE
PROPERTIES TransferEnds
