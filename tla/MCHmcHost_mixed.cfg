SPECIFICATION FairSpec
CONSTANTS
  Links = 1
  Vaults = 2
  MaxTags = 2
  BufferMax = 2
  QueueMax = 2
  PayloadFlits = 1
  BlockBytes = 2
  Traffic <- MixedTraffic
  Batches <- MixedBatches
  MaxRestores = 1
INVARIANTS
  TypeOK
  ResponseMatched
  AnsweredOnce
  SuppliedBeforeNearReads
  TagsDistinct
  BuffersBounded
  ReadsSeeWrites
PROPERTIES
  AllAnswered
  NearAnswered
