\* Refreshes, some of which raise, while no request arrives.
SPECIFICATION QuietSpec
CONSTANTS
  Loop = Loop
  Watcher = Watcher
  Thread = {Loop, Watcher}
  Refresher = {Watcher}
  Closer = {}
  NoThread = NoThread
  PoolSize = 2
  MaxConns = 14
  MaxVersion = 3
  MaxOutages = 2
  k1 = k1
  Key = {k1}
  MetaQueries = 2
  DiscoveryMayFail = TRUE
CHECK_DEADLOCK FALSE
PROPERTY
  RefreshConverges
