CONSTANTS
  lib1 = lib1
  lib2 = lib2
  bin1 = bin1
  bin2 = bin2
  tool = tool
  dep1 = dep1
  dep2 = dep2
  Units <- MCUnits
  Named <- MCNamed
  Crate <- MCCrate
  Needs <- MCNeeds
  Plans <- MCPlans
  Flag <- MCFlag
  EmitFlags <- MCEmitFlags
  None = None
  emit = emit
  cfg = cfg
  whole = whole
  Whole = whole
  Splits <- MCSplits
  Splittable = {lib1}
  Projects <- MCProjects
  MaxRuns = 3
SPECIFICATION Spec
INVARIANTS
  Inv
  RebuiltExact
CHECK_DEADLOCK FALSE
