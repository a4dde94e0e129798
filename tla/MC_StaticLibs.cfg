CONSTANTS
  own = own
  x = x
  y = y
  z = z
  a1 = a1
  a2 = a2
  a3 = a3
  Objects <- MCObjects
  Name <- MCName
  Archives <- MCArchives
  LinkedSets <- MCLinkedSets
  Contents <- MCContents
SPECIFICATION Spec
SYMMETRY Symmetry
INVARIANTS
  Inv
  AutoIsExact
  FailureIsAtomic
  NestedLibrariesMerge
CHECK_DEADLOCK FALSE
