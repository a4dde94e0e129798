CONSTANTS
  main = main
  w = w
  t = t
  ext = ext
  memcpy = memcpy
  ta = ta
  taa = taa
  g = g
  p = p
  s = s
  q = q
  r = r
  c = c
  x = x
  l = l
  M = M
  F = F
  NoValue = NoValue
  Entry = main
  MemCpy = memcpy
  Defined <- MCDefined
  Declared <- MCDeclared
  Aliases <- MCAliases
  Globals <- MCGlobals
  Params <- MCParams
  Registers <- MCRegisters
  Types <- MCTypes
  OwnerOf <- MCOwnerOf
  TypeOf <- MCTypeOf
  Skeletons <- MCSkeletons
  Pool <- MCPool
  MaxCode = 6
  CoveredOnly = TRUE
SPECIFICATION Spec
INVARIANTS
  Inv
  NoUnderReporting
  EvidenceUnlessMoved
CHECK_DEADLOCK FALSE
