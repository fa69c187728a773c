SPECIFICATION Spec
CONSTANTS
  s1 = s1
  s2 = s2
  Sessions <- MCSessions
  MaxFixAttempts = 2
  MaxConcurrent = 1
  MaxFaults = 0
CHECK_DEADLOCK FALSE
PROPERTY HaltedIsFinal
