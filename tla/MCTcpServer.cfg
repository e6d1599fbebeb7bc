SPECIFICATION Spec
CONSTANTS
  a1 = a1
  st = st
  u1 = u1
  u2 = u2
  l1 = l1
  x = x
  y = y
  Fibers = {a1, st, u1, u2}
  NoFiber = NoFiber
  Fds = {1, 2}
  NoFd = 0
  Socks = {l1, x, y}
  NoSock = NoSock
  Pools = {1, 2}
  Listeners = {l1}
  Acceptor <- MCAcceptor
  Stopper = st
  Own <- MCOwn
  MaxCalls <- MCMaxCalls
  May <- MCMay
INVARIANTS TypeOK NonblockBelow LostOnlyIfRaced SocketOwns
PROPERTIES  TimesOutOnlyIfTimed  
CHECK_DEADLOCK FALSE
