SPECIFICATION Spec
CONSTANTS
  HostNum = 1
  NmpNum = 2
  NlpNum = 1
  QueueMax = 1
  Overhead = 1
  Depth = 2
  IPC = 2
  InstFetching = FALSE
  McpTicks = 1
  Scenarios <- Retargeted
INVARIANTS
  HostWaitsForMcp
