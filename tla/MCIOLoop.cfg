SPECIFICATION Spec
CONSTANTS
  t1 = t1
  t2 = t2
  Pools <- MCPools
  Jobs = {j1, j2}
  NoJob = NoJob
  MaxWaits = 1
INVARIANTS TypeOK SleepOnlyIfMissed 
PROPERTIES  StopReturns
CHECK_DEADLOCK FALSE
