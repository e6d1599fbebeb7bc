CONSTANTS
  p1 = p1
  p2 = p2
  Timers = {1, 2}
  Pollers = {p1}
  Intervals = {1, 2}
  RolloverWindow = 1
  MaxTime = 4
  MaxClockSteps = 0
CHECK_DEADLOCK FALSE
SPECIFICATION Spec
INVARIANT NoSleepingTimers
