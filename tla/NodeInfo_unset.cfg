\* One instance, one token.
CONSTANTS
  Objs = {o1}
  Tokens = {"x"}
  None = None
SPECIFICATION Spec
INVARIANTS
  UnsetOmitted
