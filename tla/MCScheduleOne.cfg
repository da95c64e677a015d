SPECIFICATION FairSpec
CONSTANTS
  N = 1
  MaxTasks = 3
  Initial = 2
  Channels <- Two
  Made <- One
  Selects <- SelectPair
  MaxReaders = 2
  MaxSends = 2
  Ops <- AllOps
CHECK_DEADLOCK FALSE
INVARIANTS
  NoFault
  NoLostWakeup
  PlacedOnce
PROPERTIES
  ReadyRuns
