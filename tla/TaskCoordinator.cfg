CONSTANTS
  Msgs = {m1, m2, m3}
  GivenIds = {"a"}
  Limit = 1
  Window = 2
  MaxTime = 4
  None = None
SPECIFICATION Spec
INVARIANTS TypeOK RateRespected ListedIsExecuting UniqueIsListed
PROPERTIES RejectsOnlyWhenFull
CHECK_DEADLOCK FALSE
