\* What the code does not satisfy (README, section 3): the property is violated.
\* Each of the commented ones, in its place, gives another counterexample.
SPECIFICATION Spec
CONSTANTS
  c1 = c1
  c2 = c2
  Controllers = {c1,c2}
  NULL = NULL
  Stale = Stale
  MAX_NIC_INTERFACES = 4
  Paths = {"child", "end"}
  InReverse = FALSE
  FailAt = {"FirstTimeInit", "ChildProtocols"}
CHECK_DEADLOCK FALSE
INVARIANT RingsHeld   \* FailAt = {} suffices
\* INVARIANT NiiReachesAdapter   FailAt = {} suffices
\* INVARIANT NoFreedLookup   FailAt = {"ChildProtocols"} and InReverse = TRUE suffice
\* INVARIANT ControllerFound   Paths = {"child"} and FailAt = {} suffice
\* INVARIANT IFcntIsCount   Paths = {"child"}, InReverse = TRUE and FailAt = {} suffice
\* INVARIANT ChildrenCounted   FailAt = {"FirstTimeInit"} suffices
