SPECIFICATION FairSpec
CONSTANTS
  c1 = c1
  c2 = c2
  c3 = c3
  Controllers = {c1,c2,c3}
  NULL = NULL
  Stale = Stale
  MAX_NIC_INTERFACES = 5
  Paths = {"child"}
  InReverse = TRUE
  FailAt = {"OpenPci", "OpenPath"}
INVARIANT ChildrenExact
INVARIANT NiiReachesOwnAdapter
INVARIANT LookupExact
INVARIANT RingsOutliveDma
PROPERTY UnloadSucceeds
CHECK_DEADLOCK FALSE
