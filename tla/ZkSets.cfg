SPECIFICATION Spec
CONSTANTS
  BlockBits = 6
  HalfBits = 3
  TagBits = 1
  FieldSize = 61
  Coefficients = {1, 5}
  Calls <- MCCalls
  MaxRows = 3
  EqualWidths = {3, 6, 7, 11}
  SetWidths = {3, 6, 7}
INVARIANTS TypeOK AnswersAreExact SubsetsAndUnionsAreTrue
  IntersectionAcceptsCommonParts ProofsAreComplete
