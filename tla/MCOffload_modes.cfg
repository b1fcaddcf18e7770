SPECIFICATION Spec
CONSTANTS
  HostNum = 2
  NmpNum = 2
  NlpNum = 2
  QueueMax = 2
  Overhead = 1
  Depth = 2
  IPC = 1
  InstFetching = TRUE
  McpTicks = 1
  Scenarios <- AllModes
INVARIANTS
  OnceButLast
  KeptButFirst
  QueuesBounded
PROPERTIES
  CoresKeepTraceOrder
