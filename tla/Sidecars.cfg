SPECIFICATION SidecarsSpec
CONSTANTS
  Tab = {t1}
  Client = {c1, c2}
  Height = 2
  Depth = 1
  MaxLines = 4
  Event = {e1, e2, e3}
  PoolSize = 2
INVARIANTS NoOrphanPump ReadInOrder HooksSeeCommits
PROPERTIES ClosedTabsGoQuiet PoolFrees
