SPECIFICATION Spec
CONSTANTS
  s1 = s1
  s2 = s2
  Sessions <- MCSessions
  MaxFixAttempts = 3
  MaxConcurrent = 1
  MaxFaults = 1
CHECK_DEADLOCK FALSE
INVARIANTS
  TypeOK
  PhaseMatchesStatus
  VerifiedBeforeSummarizing
  NothingHeld
  LogIsTrue
PROPERTIES
  NoPhaseAfterHalt
  ImplementsContract
  EveryRunEnds
