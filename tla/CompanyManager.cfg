\* Startup, retries, refreshes and shutdown of two companies whose files are
\* good, broken or gone and change three times.
SPECIFICATION Spec
CONSTANTS
  Company = {beta, tire_guru}
  NoCompany = NoCompany
  MaxChanges = 3
INVARIANTS
  TypeOK
  OneWatcher
  ClosedAtEnd
  OthersStart
PROPERTIES
  LifespanMovesOn
CHECK_DEADLOCK FALSE
