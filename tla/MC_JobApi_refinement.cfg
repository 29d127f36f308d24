\* Two threads sharing one client and a one-thread pool, checked against
\* the abstract resource client.
CONSTANTS
  Callers = {c1, c2}
  Typo = Typo
  None = None
  MaxCalls = 2
  PoolSize = 1
  Contents = {"v1"}
  Methods <- FewMethods
  KwargSets <- FewKwargSets
SPECIFICATION Spec
PROPERTIES
  RefinesAbstract
CHECK_DEADLOCK FALSE
