SPECIFICATION Spec
CONSTANTS
  Wires <- MCWires
  MaxHeader = 54
  MaxVersion = 99
  ULLongMax = 35
INVARIANTS TypeOK AssertsHold Delivered Verdict EofExact TableExact
PROPERTIES RaisesAtPieces InOrder CallReturns
