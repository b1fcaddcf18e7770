SPECIFICATION Spec
CONSTANTS
  Links = 1
  Vaults = 2
  MaxTags = 2
  BufferMax = 2
  QueueMax = 2
  PayloadFlits = 1
  BlockBytes = 2
  Traffic <- DrainTraffic
  Batches <- DrainBatches
  MaxRestores = 0
INVARIANTS
  HostNotStarved
