SPECIFICATION FairEndpointSpec
CONSTANTS
  kCompactWindowWidth = 2
  SequenceModulus = 8
  MaxRetries = 1
  LinkResults = {"Sent", "Failed"}
  ReceiveWindowWidth = 2
  MaximumObjectSize = 10
  MaximumSegmentSize = 2
  Admissions = {"Accepted"}
  SinkResults = {TRUE}
  MaximumPayload = 2
  MaximumSegments = 6
  Requests <- OneTransfer
  InactivityTimeout = TRUE
  LocalAborts = TRUE
  ChannelCapacity = 2
  Reordering = FALSE
  MaxDisturbances = 2
  PatientTimers = TRUE
PROPERTIES TransferEnds ReceiverReleases ImplementsTransfer
