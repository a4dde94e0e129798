CONSTANTS
  v1 = v1
  v2 = v2
  script = script
  Units <- MCUnits
  Crate <- MCCrate
  HostOnly <- MCHostOnly
  MaxRuns = 2
SPECIFICATION NativeSpec
SYMMETRY Symmetry
INVARIANTS
  NativeInv
  CleanRunIsComplete
CHECK_DEADLOCK FALSE
