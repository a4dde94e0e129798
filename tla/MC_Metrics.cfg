CONSTANTS
  a = a
  b = b
  c = c
  e = e
  d = d
  VirtualRoot = VirtualRoot
  NoNode = NoNode
  Functions <- MCFunctions
  Defined <- MCDefined
  Inputs <- MCInputs
SPECIFICATION Spec
INVARIANTS
  Inv
  InterestingExact
  BottleneckExact
PROPERTIES
  IdomRises
  Termination
CHECK_DEADLOCK FALSE
