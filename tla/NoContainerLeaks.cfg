SPECIFICATION Spec
CONSTANTS
  a = a
  b = b
  c = c
  d = d
  Configured = "docker"
  Binaries <- MCBinaries
  Commands <- MCCommands
  Argv <- MCArgv
  MaxContainers = 6
  MaxFaults = 0
CHECK_DEADLOCK FALSE
INVARIANTS
  NoContainerLeaks
