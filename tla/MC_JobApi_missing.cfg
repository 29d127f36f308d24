\* One call of any method, with client-side validation on or off.
CONSTANTS
  Callers = {c1}
  Typo = Typo
  None = None
  MaxCalls = 1
  PoolSize = 1
  Contents = {"v1"}
  Methods <- AllMethods
  KwargSets <- AllKwargSets
SPECIFICATION Spec
INVARIANTS
  MissingRequestNeverSent
CHECK_DEADLOCK FALSE
