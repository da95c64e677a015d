SPECIFICATION Spec
CONSTANTS
  BlockSize = 6
  Base = 4
  MaxCookie = 3
  MaxDepth = 2
  Values <- MCValues
  Inputs <- MCInputs
INVARIANTS TypeOK RoundTrip FreedOnce
