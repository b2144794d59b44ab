CONSTANTS
  Msgs = {m1, m2}
  None = None
  MaxRetries = 2
  MaxFailures = 1
  HalfOpenRequests = 1
  Capacity = 1
  MaxLosses = 1
SPECIFICATION Spec
INVARIANTS TypeOK AtMostOnce Conserved AttemptsExact MetricsAgree
PROPERTIES KeepsContract EverySendSettles
CHECK_DEADLOCK FALSE
