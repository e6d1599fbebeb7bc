CONSTANTS
  w1 = w1
  w2 = w2
  main = main
  any = any
  f1 = f1
  f2 = f2
  NoFiber = NoFiber
  Workers = {w1, w2}
  Caller = main
  UseCaller = TRUE
  AnyThread = any
  Fibers = {f1, f2}
  Spawned = {f2}
  Pins <- HomedPins
  ExternalWakes = TRUE
  MaxYields = 2
  MaxStarts = 2
SPECIFICATION Spec
INVARIANTS TypeOK CountersExact NoExitWhileRunning HomedExclusive HomedAssertions NoLostTask
PROPERTY FinishedForever
