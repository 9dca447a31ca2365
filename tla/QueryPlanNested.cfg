SPECIFICATION Spec
CONSTANTS
  Values = {0, 1}
  InputWidth = 2
  MaxSteps = 3
  MaxRows = 3
  Plans <- MCPlans
  Inputs <- MCInputs
INVARIANTS GroupsHaveOneRow
