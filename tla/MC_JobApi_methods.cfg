\* Every method with every option set, one call at a time.
CONSTANTS
  Callers = {c1}
  Typo = Typo
  None = None
  MaxCalls = 1
  PoolSize = 1
  Contents = {"v1", "v2"}
  Methods <- AllMethods
  KwargSets <- AllKwargSets
SPECIFICATION Spec
INVARIANTS
  TypeOK
  PreconditionGate
  ResultMatchesRequest
CHECK_DEADLOCK FALSE
