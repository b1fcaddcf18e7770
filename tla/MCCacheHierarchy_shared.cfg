SPECIFICATION FairSpec
CONSTANTS
  c1 = c1
  c2 = c2
  n1 = n1
  b1 = b1
  b2 = b2
  b3 = b3
  b4 = b4
  HostCores = {c1, c2}
  NlpCores = {n1}
  FirstCore = c1
  InOrder = {n1}
  Turns <- AllTurns
  Blocks = {b1}
  Uses <- Shared
  Processes <- AllHosts
  Assoc <- Ways
  MshrNum <- Mshrs
  Latency <- Cycles
  InvalidateTime = 0
  Depth <- OneRead
  MaxWait = 2
  AtMemoryMax = 1
PROPERTIES
  EveryReadAnswered
