SPECIFICATION Spec
CONSTANTS
  n1 = n1
  f1 = f1
  c1 = c1
  c2 = c2
  t1 = t1
  t2 = t2
  Names = {n1}
  Values = {0, 1, 2}
  Default = 0
  Comps = {c1, c2}
  Wants <- MCWants
  Refuses <- MCRefuses
  Threads = {t1, t2}
  Dir <- MCDir
  Contents <- MCContents
  Bad = Bad
  NoVar = 0
  MaxVars = 2
  MaxTime = 2
  MaxCalls = 2
  MaxLoads = 2
INVARIANTS TypeOK ChangeIsReal  
SYMMETRY MCSymmetry
CHECK_DEADLOCK FALSE
