SPECIFICATION Spec
CONSTANTS
  c1 = c1
  c2 = c2
  n1 = n1
  b1 = b1
  b2 = b2
  b3 = b3
  b4 = b4
  HostCores = {c1, c2}
  NlpCores = {}
  FirstCore = c1
  InOrder = {}
  Turns <- HostTurns
  Blocks = {b1, b2, b3, b4}
  Uses <- TwoEach
  Processes = {}
  Assoc <- OneWay
  MshrNum <- Mshrs
  Latency <- CodeCycles
  InvalidateTime = 0
  Depth <- OneRead
  MaxWait = 2
  AtMemoryMax = 1
INVARIANTS
  NeverAborts
