CONSTANTS
  a = a
  b = b
  c = c
  d = d
  f = f
  Values <- MCValues
  Functions <- MCFunctions
  Flows <- MCFlows
  RootSets <- MCRootSets
SPECIFICATION Spec
INVARIANTS
  Inv
  SinksExact
  ComponentsAreCycles
PROPERTIES
  Termination
CHECK_DEADLOCK FALSE
