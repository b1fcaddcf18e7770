SPECIFICATION FairSpec
CONSTANTS
  Traffic <- MixedTraffic
  BankOf <- BankMap
  RowOf <- RowMap
  BurstCount = 2
  QueueMax = 3
  T <- Timing
INVARIANTS
  AssertionsHold
  BurstsComplete
  TimingKept
  RefreshKeepsUp
PROPERTIES
  EveryRequestServed
  ImplementsVault
