SPECIFICATION Spec
CONSTANTS
  N = 2
  MaxTasks = 2
  Initial = 2
  Channels <- Two
  Made <- Two
  Selects <- SelectTwo
  MaxReaders = 2
  MaxSends = 2
  Ops <- BlockingOps
CHECK_DEADLOCK FALSE
INVARIANTS
  RefsExact
  Findable
  NoStrandedTask
