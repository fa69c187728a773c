SPECIFICATION Spec
CONSTANTS
  c1 = c1
  c2 = c2
  c3 = c3
  Calls <- MCCalls
  MaxSuffix = 3
  MaxFaults = 2
SYMMETRY Symmetry
CHECK_DEADLOCK FALSE
INVARIANTS
  RecordsAgree
  AtMostOnePullRequest
  RetryableIsClean
PROPERTIES
  RemoteNeedsLiveApproval
  DryRunDeliversNothing
  ImplementsContract
