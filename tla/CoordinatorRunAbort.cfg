\* Abort mode, two delegates, an error that is no DogpileError.
CONSTANTS
  Workers = 1
  MaxDispatch = 2
  MaxWidth = 2
  MaxCost = 0
  CostCap = 1
  IterationCap = 9
  Floor = 9
SPECIFICATION Spec
INVARIANT
  AbortModeRejects
