\* One call of any method, with every set of options: what a with_http_info
\* method returns.
CONSTANTS
  Callers = {c1}
  Typo = Typo
  None = None
  MaxCalls = 1
  PoolSize = 1
  Contents = {"v1"}
  Methods <- AllMethods
  KwargSets <- AllKwargSets
SPECIFICATION Spec
INVARIANTS
  WithHttpInfoReturnsModel
CHECK_DEADLOCK FALSE
