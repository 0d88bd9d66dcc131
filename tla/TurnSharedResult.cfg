\* A result remembered under another turn's question.
SPECIFICATION Spec
CONSTANTS
  t1 = t1
  t2 = t2
  Turn = {t1, t2}
  First = t1
  Second = t2
  s1 = s1
  s2 = s2
  Session = {s1, s2}
  FirstSession = s1
  NoTurn = NoTurn
  HistorySize = 3
  WorkingSetSize = 1
  AgentEnabled = TRUE
  AuditEnabled = TRUE
  VerificationStrict = FALSE
  MaxChunks = 1
INVARIANT
  LabelIsTheQuestion
