SPECIFICATION FairSpec
CONSTANTS
  c1 = c1
  c2 = c2
  n1 = n1
  b1 = b1
  b2 = b2
  b3 = b3
  b4 = b4
  HostCores = {c1, c2}
  NlpCores = {}
  FirstCore = c1
  InOrder = {}
  Turns <- HostTurns
  Blocks = {b1, b2, b3}
  Uses <- Private
  Processes <- AllHosts
  Assoc <- Ways
  MshrNum <- Mshrs
  Latency <- Cycles
  InvalidateTime = 0
  Depth <- Windows
  MaxWait = 2
  AtMemoryMax = 1
INVARIANTS
  TypeOK
  NeverAborts
  MshrTracksLocks
  Inclusive
  DirtyIsKept
PROPERTIES
  EveryReadAnswered
