SPECIFICATION Spec
CONSTANTS
  t1 = t1
  t2 = t2
  a = a
  b = b
  Threads <- MCThreads
  Values <- MCValues
  Junk = Junk
  DefaultLen = 2
  MaxItems = 3
INVARIANTS
  TypeOK
  ExactWhenQuiet
PROPERTIES
  Implements
