\* Two threads sharing one client and a one-thread pool.
CONSTANTS
  Callers = {c1, c2}
  Typo = Typo
  None = None
  MaxCalls = 2
  PoolSize = 1
  Contents = {"v1"}
  Methods <- FewMethods
  KwargSets <- FewKwargSets
SPECIFICATION Spec
PROPERTIES
  TimeoutBoundsWait
CHECK_DEADLOCK FALSE
