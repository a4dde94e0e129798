CONSTANTS
  Symbols <- MCSymbols
  Bodies <- MCBodies
  Path <- MCPath
  HexLike <- MCHexLike
  Hashes <- MCHashes
  Aliases <- MCAliases
  Aliasee <- MCAliasee
  Expansion <- MCExpansion
  Requests <- MCRequests
  CallRelations <- MCCallRelations
  LookupNames <- MCLookupNames
SPECIFICATION RootsSpec
INVARIANTS
  RootsInv
  EveryRequestAnswered
  LookUpsReached
CHECK_DEADLOCK FALSE
