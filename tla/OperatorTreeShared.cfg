SPECIFICATION Spec
CONSTANTS
  MaxOps = 4
INVARIANTS
  TypeOK
  NoReentry
  NeverReturnsFreed
  InputsHeld
  BytesAccounted
  EvaluatedOnceInTree
PROPERTIES
  RunReturns
