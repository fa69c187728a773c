SPECIFICATION Spec
CONSTANTS
  run = run
  request = request
  feed = feed
  t1 = t1
  t2 = t2
  session = session
  Runs <- MCRuns
  Requests <- MCRequests
  Polls <- MCPolls
  Threads <- MCThreads
  SessionOf <- MCSessionOf
  MaxAttempts = 2
  MaxRounds = 2
CHECK_DEADLOCK FALSE
INVARIANTS
  NumbersAreSound
  FeedsHoldNothing
PROPERTIES
  NobodyIsStuck
