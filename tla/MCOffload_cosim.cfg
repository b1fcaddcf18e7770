SPECIFICATION FairSpec
CONSTANTS
  HostNum = 1
  NmpNum = 2
  NlpNum = 1
  QueueMax = 1
  Overhead = 0
  Depth = 2
  IPC = 2
  InstFetching = FALSE
  McpTicks = 1
  Scenarios <- CoSim
INVARIANTS
  TypeOK
  RegionFlagAgrees
  PerformedOnce
  NothingLost
  HostWaitsForMcp
  McpRunsAfterDrain
  TagsNotPerformed
PROPERTIES
  SidesKeepTraceOrder
  EventuallyCompleted
