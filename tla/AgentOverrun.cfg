\* Ticks of ten seconds: 40 s a request, 55 s for the loop, 75 s for the turn.
SPECIFICATION Spec
CONSTANTS
  short = short
  long = long
  Caller <- TwoTurns
  MaxRetries = 1
  CallTimeout = 4
  Duration = {1, 4}
  Deadline = 7
  Cost <- CostOf
  MaxChunks = 1
  MaxSteps = 3
  TimeBudget = 5
  TokenBudget = 9
  NoTurn = none
INVARIANT GatheredIsAnswered
CHECK_DEADLOCK FALSE
