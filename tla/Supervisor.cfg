CONSTANTS
  Goroutines = {g1, g2}
  Heeding = {g1}
  MaxRestarts = 1
  MaxStarts = 2
SPECIFICATION Spec
INVARIANTS TypeOK OneInstance Reachable StatusTrue
PROPERTIES RerunsWithinLimit StopEnds
CHECK_DEADLOCK FALSE
