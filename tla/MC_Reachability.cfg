CONSTANTS
  f = f
  g = g
  h = h
  d = d
  nosym = nosym
  Functions <- MCFunctions
  Defined <- MCDefined
  Names <- MCNames
  CallGraphs <- MCCallGraphs
  EntryLists <- MCEntryLists
SPECIFICATION Spec
INVARIANTS
  NoUnderReporting
  ViaSummarisesEvidence
  DepthIsShortest
PROPERTIES
  NothingIsForgotten
  Termination
  ImplementsReachableSet
CHECK_DEADLOCK FALSE
