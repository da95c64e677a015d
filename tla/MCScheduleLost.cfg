SPECIFICATION Spec
CONSTANTS
  N = 2
  MaxTasks = 2
  Initial = 2
  Channels <- One
  Made <- One
  Selects <- SelectOne
  MaxReaders = 2
  MaxSends = 1
  Ops <- BlockingOps
CHECK_DEADLOCK FALSE
INVARIANTS
  NoLostWakeup
