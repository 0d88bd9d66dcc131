\* Two refreshes racing the queries of the event loop and of the watcher, with
\* the file replaced or taken away and the pool closed at any point.
SPECIFICATION FairSpec
CONSTANTS
  loop = loop
  watcher = watcher
  Thread = {loop, watcher}
  Refresher = {watcher}
  Closer = {loop}
  NoThread = NoThread
  PoolSize = 2
  MaxConns = 6
  MaxVersion = 3
  MaxOutages = 1
CHECK_DEADLOCK FALSE
INVARIANTS
  TypeOK
  NoLostConnection
  SurvivorsBounded
  NoJamWithoutSurvivor
PROPERTIES
  LeaseSpec
  ExecuteReturns
