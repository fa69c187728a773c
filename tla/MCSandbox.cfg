SPECIFICATION Spec
CONSTANTS
  a = a
  b = b
  c = c
  d = d
  Configured = "auto"
  Binaries <- MCBinaries
  Commands <- MCCommands
  Argv <- MCArgv
  MaxContainers = 6
  MaxFaults = 2
CHECK_DEADLOCK FALSE
INVARIANTS
  CurrentRuns
  ContainersAccounted
  StraysAreDoomed
PROPERTIES
  EveryCommandReturns
