SPECIFICATION Spec
CONSTANTS
  Keys = {0, 1}
  ZeroKey = 0
  Vals = {0, 1}
  Lowest <- MCLowest
  Highest <- MCHighest
  Half = 3
  MaxRows = 4
  Inputs <- MCInputs
INVARIANTS AverageIsOverRealRows
