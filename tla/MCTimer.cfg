SPECIFICATION Spec
CONSTANTS
  e1 = e1
  e2 = e2
  e3 = e3
  e4 = e4
  e5 = e5
  e6 = e6
  Events <- MCEvents
  Period <- MCPeriod
  Times <- MCTimes
  TimeMod = 4
  Cap = 6
  PtrSize = 8
  Off = Off
INVARIANTS IndexExact HeapOrdered
PROPERTIES Implements UpdateEnds
