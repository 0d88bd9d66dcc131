\* Two turns, batch or streamed, of one session or of two (MCChatTurns).
SPECIFICATION MCSpec
CONSTANTS
  t1 = t1
  t2 = t2
  Turn = {t1, t2}
  First = t1
  Second = t2
  s1 = s1
  s2 = s2
  Session = {s1, s2}
  FirstSession = s1
  NoTurn = NoTurn
  HistorySize = 3
  WorkingSetSize = 1
  AgentEnabled = TRUE
  AuditEnabled = TRUE
  VerificationStrict = TRUE
  MaxChunks = 1
INVARIANTS
  TypeOK
  HistoryIsTheConversation
  RecordedOrNot
  SoloTurnIsItsOwn
  StreamSaysTheAnswer
PROPERTY
  TurnEnds
