\* Requests against up to two refreshes.
SPECIFICATION RuntimeSpec
CONSTANTS
  Loop = Loop
  Watcher = Watcher
  Thread = {Loop, Watcher}
  Refresher = {Watcher}
  Closer = {}
  NoThread = NoThread
  PoolSize = 1
  MaxConns = 3
  MaxVersion = 3
  MaxOutages = 1
  k1 = k1
  k2 = k2
  Key = {k1, k2}
  MetaQueries = 2
  DiscoveryMayFail = TRUE
SYMMETRY Keys
CHECK_DEADLOCK FALSE
INVARIANTS
  RuntimeTypeOK
  CleanRefreshIsComplete
  AtMostOneStaleEntry
  SwapIsOrdered
PROPERTY
  OnlyWholeBuilds
