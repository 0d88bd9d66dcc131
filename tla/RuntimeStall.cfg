\* One query of the loop against one refresh.
SPECIFICATION FairRuntimeSpec
CONSTANTS
  Loop = Loop
  Watcher = Watcher
  Thread = {Loop, Watcher}
  Refresher = {Watcher}
  Closer = {}
  NoThread = NoThread
  PoolSize = 2
  MaxConns = 4
  MaxVersion = 2
  MaxOutages = 0
  k1 = k1
  Key = {k1}
  MetaQueries = 2
  DiscoveryMayFail = FALSE
CHECK_DEADLOCK FALSE
PROPERTY
  LoopQueryEnds
