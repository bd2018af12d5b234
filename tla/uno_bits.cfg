SPECIFICATION FairUnoSpec
CONSTANTS
  kCompactWindowWidth = 2
  SequenceModulus = 8
  MaxRetries = 2
  LinkResults = {"Sent"}
  HostRetries = 2
  HostMaximumObject = 4
  HostMaximumSegment = 2
  MaximumPayload = 2
  MaximumSegments = 2
  Images = {"Ram", "Boot"}
  RamWindow = 2
  EngineLimit = 1000
  StorageSize = 4
  SegmentPayload = 2
  EchoSequence = 7
  UploadSetup <- ScriptSetup
  MaxUploads = 2
  MaxDisturbances = 2
INVARIANTS UploadIsTrue EchoIsOneObject ReportIsTrue
PROPERTIES RoundTripPasses
