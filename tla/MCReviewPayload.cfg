SPECIFICATION Spec
CONSTANTS
  g1 = g1
  d1 = d1
  d2 = d2
  Files <- MCFiles
  Contents <- MCContents
  Base <- MCBase
  TestFiles <- MCTests
  Artefacts <- MCArtefacts
  GitFiles <- MCGitFiles
  Ignored = {3}
  MaxRuns = 2
  MaxShown = 1
  Gets <- MCGets
  Deliveries <- MCDeliveries
  MaxFaults = 1
SYMMETRY Symmetry
CHECK_DEADLOCK FALSE
INVARIANTS
  SignedIsDelivered
  BodyDescribesCommit
  EvidenceIsCurrent
