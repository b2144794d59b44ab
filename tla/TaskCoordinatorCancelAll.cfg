CONSTANTS
  Msgs = {m1, m2, m3}
  GivenIds = {"a"}
  Limit = 2
  Window = 2
  MaxTime = 3
  None = None
SPECIFICATION Spec
PROPERTIES CancelAllReaches
CHECK_DEADLOCK FALSE
