CONSTANT MaxRuns = 3
SPECIFICATION Spec
INVARIANTS
  Inv
  CleanLeavesNothingOld
PROPERTY ImplementsPublication
CHECK_DEADLOCK FALSE
