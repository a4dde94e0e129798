CONSTANTS
  m = m
  u = u
  prog = prog
  lib = lib
  tool = tool
  NoMachine = NoMachine
  MIN_LLVM_MAJOR = 21
  Units <- MCUnits
  Products <- MCProducts
  Parts <- MCParts
  Library = lib
  Direct <- MCDirect
  Changes <- MCChanges
  Projects <- MCProjects
  Machines <- MCMachines
  MaxRuns = 3
  MaxTries = 2
SPECIFICATION BuildSpec
INVARIANTS
  BuildInv
  WholeUnlessTorn
  CleanNothingStale
  FreshNotPassedOver
  OwnBitcodeReadable
CHECK_DEADLOCK FALSE
