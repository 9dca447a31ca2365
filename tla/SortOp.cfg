SPECIFICATION Spec
CONSTANTS
  Width = 2
  Values = {0, 1}
  MaxRows = 3
  MaxColumns = 3
  Inputs <- MCInputs
  Collations <- MCCollations
  Limits = {0, 1, 2}
INVARIANTS TypeOK NeverRejected OutputSorted LimitKeepsReal
