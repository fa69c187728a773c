SPECIFICATION Spec
CONSTANTS
  a = a
  b = b
  c = c
  d = d
  Binaries <- MCBinaries
  Sessions = {a, b, c, d}
  FromIssue = {a}
  Repos <- MCRepos
  Languages <- MCLanguages
  Slots = 2
  MaxBytes = 1
  Largest = 1
  MaxFaults = 1
SYMMETRY Symmetry
CHECK_DEADLOCK FALSE
INVARIANTS
  DiskBounded
  LogTellsHowFar
  SuiteIsFound
