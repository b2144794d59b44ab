CONSTANTS
  Kinds = {"read", "ping"}
  Reconnectors = {r1, r2, r3}
  MaxAttempts = 2
  MaxDials = 2
SPECIFICATION Spec
INVARIANTS StaysDisconnected
CHECK_DEADLOCK FALSE
