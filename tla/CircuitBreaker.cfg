CONSTANTS
  Callers = {c1, c2, c3}
  MaxFailures = 2
  HalfOpenRequests = 1
SPECIFICATION Spec
INVARIANTS TypeOK HalfOpenNotStuck
PROPERTIES HalfOpenResolves OpenRecovers
