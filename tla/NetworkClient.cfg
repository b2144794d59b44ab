CONSTANTS
  Kinds = {"read", "ping"}
  Reconnectors = {r1, r2, r3}
  MaxAttempts = 2
  MaxDials = 2
SPECIFICATION Spec
INVARIANTS TypeOK FlagHeld ReconnectionServes
PROPERTIES DeadLinkNoticed Settles
CHECK_DEADLOCK FALSE
