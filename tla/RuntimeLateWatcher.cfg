\* The index of a file that is replaced while the startup build reads it.
SPECIFICATION RuntimeSpec
CONSTANTS
  Loop = Loop
  Watcher = Watcher
  Thread = {Loop, Watcher}
  Refresher = {Watcher}
  Closer = {}
  NoThread = NoThread
  PoolSize = 2
  MaxConns = 6
  MaxVersion = 2
  MaxOutages = 0
  k1 = k1
  Key = {k1}
  MetaQueries = 2
  DiscoveryMayFail = FALSE
CHECK_DEADLOCK FALSE
INVARIANT
  IndexFollowsFile
