CONSTANTS
  p1 = p1
  p2 = p2
  Timers = {1, 2}
  Pollers = {p1, p2}
  Intervals = {0, 2}
  RolloverWindow = 1
  MaxTime = 3
  MaxClockSteps = 1
SYMMETRY PollerSymmetry
CHECK_DEADLOCK FALSE
SPECIFICATION Spec
INVARIANTS TypeOK CbIffQueued OneOutcome Covered
PROPERTY DeadStaysDead
