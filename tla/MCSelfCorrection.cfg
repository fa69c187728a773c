SPECIFICATION Spec
CONSTANTS
  Tests <- MCTests
  Name <- MCName
  Title <- MCTitle
  Exceptions <- MCExceptions
  Untyped <- MCUntyped
  MaxLines = 8
  MaxItems = 1
  MaxAttempts = 3
CHECK_DEADLOCK FALSE
INVARIANTS
  GreenIsClean
  RedIsDeserved
  WithinBudget
