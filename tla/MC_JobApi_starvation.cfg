\* Two threads sharing one client and a one-thread pool: an asynchronous
\* call without a timeout can hold the pool thread while the server stays
\* silent.
CONSTANTS
  Callers = {c1, c2}
  Typo = Typo
  None = None
  MaxCalls = 2
  PoolSize = 1
  Contents = {"v1"}
  Methods <- FewMethods
  KwargSets <- FewKwargSets
SPECIFICATION Spec
PROPERTIES
  TimeoutBoundsHandleWait
CHECK_DEADLOCK FALSE
