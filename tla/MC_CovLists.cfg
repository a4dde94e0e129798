CONSTANTS
  Hashes <- MCHashes
  Letters <- MCLetters
  Names <- MCNames
  Modules <- MCModules
SPECIFICATION ListsSpec
INVARIANTS
  ListsInv
  IgnoreIsMaximal
  AllowMatchesReached
CHECK_DEADLOCK FALSE
