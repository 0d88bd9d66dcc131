SPECIFICATION Spec
CONSTANTS
  short = short
  long = long
  Caller <- TwoTurns
  MaxRetries = 1
  CallTimeout = 1
  Duration = {1}
  Deadline = 4
  Cost <- CostOf
  MaxChunks = 1
  MaxSteps = 2
  TimeBudget = 2
  TokenBudget = 2
  NoTurn = none
INVARIANTS
  AgentTypeOK
  SoloInvestigationIsItsOwn
  TokensAccounted
  WorkIsBounded
  ToolFaultIsNotFatal
PROPERTIES
  KeepsContract
  InvestigationEnds
CHECK_DEADLOCK FALSE
