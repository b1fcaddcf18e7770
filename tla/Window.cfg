SPECIFICATION FairSpec
CONSTANTS
  Depth = 4
  Ipc = 2
  Blocks = {b1, b2}
  NoBlock = NoBlock
  MaxAnswers = 2
INVARIANTS
  TypeOK
  NoEntryForgotten
PROPERTIES
  ImplementsQueue
  FullWindowDrains
