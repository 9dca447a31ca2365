SPECIFICATION Spec
CONSTANTS
  Keys = {0, 1}
  Pays = {0, 1}
  MaxForeign = 3
  MaxPrimary = 3
  Inputs <- ZeroedInputs
INVARIANTS TypeOK NeverRejected DeltaIsUnmatched OutputDummiesZeroed
PROPERTY IsEquiJoin
