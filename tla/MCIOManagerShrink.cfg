CONSTANTS
  f1 = f1
  f2 = f2
  p1 = p1
  p2 = p2
  NoCtx = NoCtx
  Callback = Callback
  Fibers = {f1, f2}
  Pollers = {p1}
  Fds = {1, 2}
  InitialSize = 1
  MaxGen = 2
  MaxReports = 1
CHECK_DEADLOCK FALSE
SPECIFICATION Spec
PROPERTY ChannelsNeverShrink
