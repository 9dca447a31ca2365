SPECIFICATION Spec
CONSTANTS
  BlockBits = 6
  HalfBits = 3
  TagBits = 1
  FieldSize = 61
  Coefficients = {1, 5}
  Calls <- MCCalls
  MaxRows = 2
  EqualWidths = {12}
  SetWidths = {}
INVARIANTS EqualIsExact
