SPECIFICATION Spec
CONSTANTS
  NULL = NULL
  t1 = t1
  t2 = t2
  o1 = o1
  o2 = o2
  o3 = o3
  o4 = o4
  Threads <- MCThreads
  Objects <- MCObjects
  InitSlots = 2
  IdMod = 16
  LastIdLimit = 8
SYMMETRY Symmetry
INVARIANTS
  TypeOK
  NoUseAfterFree
  RefCount
  Reclaimed
  SlotAvailable
