\* One session id used at two companies, two requests per window of two ticks.
SPECIFICATION GateSpec
CONSTANTS
  Company = {beta, tire_guru}
  Session = {web}
  Key <- MCKey
  Max = 2
  Window = 2
  MaxTime = 5
INVARIANTS
  GateTypeOK
  NeverMoreThanMax
PROPERTIES
  DenialsAreEarned
  SlotsAreWellSpent
