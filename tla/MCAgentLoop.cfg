SPECIFICATION Spec
CONSTANTS
  Files <- MCFiles
  Replies <- MCReplies
  Phases <- MCPhases
  StepBudget = 3
  CostCeiling = 167
  TriggerTokens = 4
  MinItems = 2
  MaxItems = 2
  Pricing <- MCPricing
  AgentModel = "opus"
CHECK_DEADLOCK FALSE
INVARIANTS
  PairedResults
  WithinLimits
  StaleReadsGo
PROPERTIES
  PhaseEnds
