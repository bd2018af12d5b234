SPECIFICATION NetworkSpec
CONSTANTS
  Hosts = {"a", "b", "c"}
  Links = {1, 2, 3}
  PinnedBits <- Pins
  MaximumHops = 2
  kMaximumHostWires = 6
  Broadcast = "broadcast"
  DispatchTable <- PingTable
  PingMessageSize = 4
  SnapshotCapacity = 64
  ReceiveQueueCapacity = 1
  PhysicalGraphs <- ThreeGraphs
  Wires = {1}
  Publications <- TwoPublications
  LinkAnswers = {"Accepted", "Full", "TooLarge", "Rejected"}
  MaxLosses = 1
CHECK_DEADLOCK FALSE
INVARIANTS
  CarriedOnce
  DispatchedOnce
  DirectedReception
  ReachesEveryMember
  PingAnswered
  ForwardReportsItsLinks
  DispatchReportsItsReceivers
