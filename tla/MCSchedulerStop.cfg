CONSTANTS
  w1 = w1
  w2 = w2
  main = main
  any = any
  f1 = f1
  f2 = f2
  NoFiber = NoFiber
  Workers = {w1, w2}
  Caller = main
  UseCaller = FALSE
  AnyThread = any
  Fibers = {f1, f2}
  Spawned = {f2}
  Pins <- AnyPins
  ExternalWakes = FALSE
  MaxYields = 0
  MaxStarts = 2
SPECIFICATION FairSpec
PROPERTIES StopReturns CallbackRuns
