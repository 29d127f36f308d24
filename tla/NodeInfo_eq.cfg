\* Two instances, nested contents drawn from two tokens.
CONSTANTS
  Objs = {o1, o2}
  Tokens = {"x", "y"}
  None = None
SPECIFICATION Spec
INVARIANTS
  TypeOK
  EqIsStructural
  NeIsNotEq
