\* One thread that may change its request model between calls, with
\* synchronous and asynchronous calls on a one-thread pool.
CONSTANTS
  Callers = {c1}
  Typo = Typo
  None = None
  MaxCalls = 1
  PoolSize = 1
  Contents = {"v1", "v2"}
  Methods <- FewMethods
  KwargSets <- FewKwargSets
SPECIFICATION Spec
INVARIANTS
  SentBodyIsCallTimeRequest
CHECK_DEADLOCK FALSE
