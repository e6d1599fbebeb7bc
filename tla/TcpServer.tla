----------------------------- MODULE TcpServer -----------------------------
(***************************************************************************)
(* TcpServer (net/TcpServer.cc) on Sockets and hooked calls: the owner     *)
(* binds, starts and stops it, one fiber per listening socket accepts, the *)
(* task of stop() closes the sockets, and each client is handled by a      *)
(* fiber of its own.  handleClient is virtual: a handler may receive,      *)
(* send, sleep and close, and its Socket is closed when it ends.           *)
(*                                                                         *)
(* Without a server (`serving` is FALSE) the user's fibers do what they    *)
(* like with the Sockets they share.                                       *)
(***************************************************************************)
EXTENDS Socket

CONSTANTS
  Listeners,   \* the Sockets of the addresses given to bind()
  Acceptor,    \* the fiber that runs startAccept for each of them
  Stopper,     \* the fiber of the task stop() schedules
  Own,         \* the user's fibers, and the client Socket each one handles
  MaxCalls,    \* bound: how many calls a user's fiber makes, with and without a server
  May          \* bound: what each one does without a server, to which Socket

Users == DOMAIN Own
Acceptors == {Acceptor[l] : l \in Listeners}

ASSUME ServerAssumption ==
  /\ Listeners \subseteq Socks /\ IsFiniteSet(Listeners)
  /\ Users \subseteq Fibers /\ IsFiniteSet(Users)
  /\ Users \cap Acceptors = {} /\ Stopper \notin Users \cup Acceptors
  /\ IsInjective(Own)
  /\ Acceptor \in [Listeners -> Fibers]
  /\ Own \in [Users -> Socks \ Listeners]
  /\ Stopper \in Fibers
  /\ MaxCalls \in [BOOLEAN -> Nat]
  /\ May \in [Users -> SUBSET ({"connect", "recv", "send", "close", "setFlags"}
                                \X Socks)]

VARIABLES
  serving,   \* is there a server?  fixed at the start
  running,   \* running_
  socks,     \* socks_
  fails,     \* the owner's list of addresses that failed
  todo,      \* the addresses bind() has not tried yet
  owner      \* where the owner is

serverVars == <<serving, running, socks, fails, todo, owner>>
vars == <<sockVars, serverVars>>

Unused == {u \in Users : fib[u].pc = "none"}

Init ==
  /\ SocketInit
  /\ serving \in BOOLEAN
  /\ running = FALSE
  /\ socks = {}
  /\ fails = {}
  /\ todo = {}
  /\ owner = "unbound"

-----------------------------------------------------------------------------
(* The owner *)

(* bind(addrs, fails, ssl) is called: the list of failures may be an old one *)
bind ==
  /\ serving /\ owner = "unbound"
  /\ owner' = "binding"
  /\ todo' = Listeners
  /\ fails' \in {fails, {}}
  /\ UNCHANGED <<sockVars, serving, running, socks>>

(* Socket::bind and listen on one address; the Socket of one that failed   *)
(* is destroyed, and with it the descriptor.                               *)
bindOne(l) ==
  /\ owner = "binding" /\ l \in todo
  /\ todo' = todo \ {l}
  /\ \/ /\ newSock(l, "listen")
        /\ socks' = socks \cup {l}
        /\ UNCHANGED fails
     \/ /\ fails' = fails \cup {l}
        /\ UNCHANGED <<kern, ctx, socks, sockfd>>
  /\ UNCHANGED <<nthreads, fib, chan, reg, timers, queue, cpu, history, conn,
                 serving, running, owner>>

(* The Sockets of socks_ are closed by their destructors; a thread outside *)
(* an IOManager, where the hooks are off, leaves their contexts behind.    *)
Clear(hooked) ==
  LET ds == {sockfd[l] : l \in socks} \cap Fds
  IN /\ kern' = [d \in Fds |-> IF d \in ds THEN ClosedFd ELSE kern[d]]
     /\ ctx' = [d \in Fds |-> IF d \in ds /\ hooked THEN NoCtx ELSE ctx[d]]
     /\ stale' = IF hooked THEN stale \ ds ELSE stale \cup ds
     /\ sockfd' = [s \in Socks |-> IF s \in socks THEN NoFd ELSE sockfd[s]]
     /\ socks' = {}
     /\ UNCHANGED <<nthreads, fib, chan, reg, timers, queue, cpu, raced, misled,
                    conn>>

(* One failure, an old one too, and no address is served. *)
bindEnd ==
  /\ owner = "binding" /\ todo = {}
  /\ IF fails # {}
     THEN owner' = "unbound" /\ Clear(TRUE)
     ELSE owner' = "bound" /\ UNCHANGED <<sockVars, socks>>
  /\ UNCHANGED <<serving, running, fails, todo>>

(* ~TcpServer of a server that was not started; another one is made. *)
destroy ==
  /\ owner = "bound"
  /\ owner' = "unbound"
  /\ \E hooked \in BOOLEAN : Clear(hooked)
  /\ UNCHANGED <<serving, running, fails, todo>>

start ==
  /\ owner = "bound"
  /\ owner' = "started"
  /\ running' = TRUE
  /\ queue' = queue \o SetToSeq({Task(Acceptor[l]) : l \in socks})
  /\ fib' = [f \in Fibers |-> IF f \in Acceptors THEN [fib[f] EXCEPT !.pc = "loop"]
                                                 ELSE fib[f]]
  /\ UNCHANGED <<nthreads, kern, ctx, chan, reg, timers, cpu, history, sockfd,
                 conn, serving, socks, fails, todo>>

(* Mutant: the sockets are left open. *)
stop_no_task ==
  /\ owner = "started"
  /\ owner' = "stopped"
  /\ running' = FALSE
  /\ UNCHANGED <<sockVars, serving, socks, fails, todo>>

stop ==
  /\ owner = "started"
  /\ owner' = "stopped"
  /\ running' = FALSE
  /\ fib' = [fib EXCEPT ![Stopper].pc = "loop"]
  /\ queue' = Append(queue, Task(Stopper))
  /\ UNCHANGED <<nthreads, kern, ctx, chan, reg, timers, cpu, history, sockfd,
                 conn, serving, socks, fails, todo>>

Owner == bind \/ (\E l \in Listeners : bindOne(l)) \/ bindEnd \/ destroy \/ start \/ stop

-----------------------------------------------------------------------------
(* startAccept *)

Terminate(f) == fib' = [fib EXCEPT ![f] = [Idle EXCEPT !.pc = "term"]] /\ cpu' = cpu \ {Task(f)}

AcceptLoop(l) ==
  LET a == Acceptor[l]
  IN /\ At(a, "loop")
     /\ IF running
        THEN Call(a, "accept", sockfd[l]) /\ UNCHANGED cpu
        ELSE Terminate(a)
     /\ UNCHANGED <<nthreads, kern, ctx, chan, reg, timers, queue, history, sockfd,
                    conn, serverVars>>

(* A client: setRecvTimeout, and handleClient is scheduled. *)
handleClient(l) ==
  LET a == Acceptor[l]
      d == fib[a].fd
      s == fib[a].sock
  IN /\ At(a, "init")
     /\ init(s, d)
     /\ setRecvTimeout(d)
     /\ \E u \in Unused :
          /\ Own[u] = s
          /\ fib' = [fib EXCEPT ![a] = Rest(a, "loop"), ![u].pc = "body"]
          /\ queue' = Append(queue, Task(u))
     /\ Fresh(a)
     /\ UNCHANGED <<nthreads, kern, chan, reg, timers, cpu, serverVars>>

(* accept() gave no client: the loop goes on. *)
AcceptFailed(l) ==
  LET a == Acceptor[l]
  IN /\ At(a, "done")
     /\ Between(a, "loop")
     /\ Fresh(a)
     /\ UNCHANGED <<nthreads, kern, ctx, chan, reg, timers, queue, cpu, sockfd, conn,
                    serverVars>>

AcceptStep(l) ==
  \/ AcceptLoop(l) \/ handleClient(l) \/ AcceptFailed(l)
  \/ /\ \/ \E u \in Unused : TryAccept(Acceptor[l], Own[u])
        \/ Accepted(Acceptor[l])
     /\ UNCHANGED serverVars

-----------------------------------------------------------------------------
(* The task of stop(): for each socket cancelAll and close *)

StopSocket(l) ==
  /\ At(Stopper, "loop")
  /\ l \in socks
  /\ cancelEvents(sockfd[l], Event)
  /\ fib' = [fib EXCEPT ![Stopper].pc = "body", ![Stopper].sock = l]
  /\ UNCHANGED <<nthreads, kern, ctx, timers, cpu, history, sockfd, conn, serverVars>>

StopClose(l) ==
  /\ fib[Stopper].sock = l
  /\ close(Stopper, l)
  /\ UNCHANGED serverVars

StopNext(l) ==
  /\ fib[Stopper].sock = l
  /\ finished(Stopper, "loop")
  /\ socks' = socks \ {l}
  /\ UNCHANGED <<serving, running, fails, todo, owner>>

StopEnd ==
  /\ At(Stopper, "loop")
  /\ socks = {}
  /\ Terminate(Stopper)
  /\ UNCHANGED <<nthreads, kern, ctx, chan, reg, timers, queue, history, sockfd,
                 conn, serverVars>>

StopStep ==
  StopEnd \/ \E l \in Listeners : StopSocket(l) \/ StopClose(l) \/ StopNext(l)

-----------------------------------------------------------------------------
(* The user's fibers *)

(* Without a server they are scheduled by somebody. *)
UserStart ==
  /\ ~serving
  /\ Unused = Users
  /\ fib' = [f \in Fibers |-> IF f \in Users THEN Rest(f, "body") ELSE fib[f]]
  /\ queue' = queue \o SetToSeq({Task(u) : u \in Users})
  /\ UNCHANGED <<nthreads, kern, ctx, chan, reg, timers, cpu, history, sockfd,
                 conn, serverVars>>

UserCall(u) ==
  /\ fib[u].no < MaxCalls[serving]
  /\ \/ serving /\ sleep(u)
     \/ serving /\ \E op \in {"recv", "send"} : transfer(u, Own[u], op)
     \/ /\ ~serving
        /\ \E s \in Socks \ Listeners :
             \/ <<"connect", s>> \in May[u] /\ connect(u, s)
             \/ \E op \in {"recv", "send"} : <<op, s>> \in May[u] /\ transfer(u, s, op)
             \/ <<"close", s>> \in May[u] /\ close(u, s)
             \/ <<"setFlags", s>> \in May[u] /\ setFlags(u, s)
  /\ UNCHANGED serverVars

(* The Socket of a handler is closed when nobody refers to it any more. *)
UserClose(u) == serving /\ close(u, Own[u]) /\ UNCHANGED serverVars

UserReturn(u) == finished(u, "body") /\ UNCHANGED serverVars

(* The handler returns; its Socket has been closed. *)
UserEnd(u) ==
  /\ At(u, "body")
  /\ serving => sockfd[Own[u]] = NoFd
  /\ Terminate(u)
  /\ UNCHANGED <<nthreads, kern, ctx, chan, reg, timers, queue, history, sockfd,
                 conn, serverVars>>

UserStep(u) == UserCall(u) \/ UserClose(u) \/ UserReturn(u) \/ UserEnd(u)

-----------------------------------------------------------------------------
Outer == UNCHANGED <<sockfd, conn, serverVars>>

(* Bound: a client arrives only if a handler and a descriptor are left for *)
(* it, so that accept() never runs out of them.                            *)
Environment ==
  /\ \E d \in Fds : \/ Resolve(d)
                    \/ Arrive(d) /\ (kern[d].kind = "listen" =>
                         /\ Unused # {} /\ Free # {}
                         /\ \A a \in Acceptors : fib[a].pc \notin {"accepted", "init"})
  /\ Outer

Threads ==
  \/ LoopStep /\ Outer
  \/ \E f \in Fibers : CallStep(f) /\ Outer
  \/ \E l \in Listeners : AcceptStep(l)
  \/ StopStep
  \/ \E u \in Users : UserStep(u)

Timing == Expire /\ Outer
Reporting == \E d \in Fds : Report(d) /\ Outer

Next ==
  \/ Owner
  \/ UserStart
  \/ Threads
  \/ Timing
  \/ Reporting
  \/ Environment

(* The threads run, events are reported and timers expire; neither the     *)
(* other end nor the owner has to do anything.                             *)
Fairness == WF_vars(Threads) /\ WF_vars(Timing) /\ WF_vars(Reporting)

Spec == Init /\ [][Next]_vars /\ Fairness

-----------------------------------------------------------------------------
(* Properties *)

(***************************************************************************)
(* Types; no more runs than there are threads, and a fiber is queued at    *)
(* most once, whoever reports, cancels, closes and times out: a second     *)
(* entry would resume a fiber that waits for something else by then.       *)
(***************************************************************************)
TypeOK ==
  /\ nthreads \in Pools
  /\ \A f \in Fibers : fib[f].fd \in Fds \cup {NoFd} /\ fib[f].sock \in Socks \cup {NoSock}
  /\ \A d \in Fds : /\ kern[d].ready \subseteq Event
                    /\ kern[d].sock \in Socks \cup {NoSock}
                    /\ ctx[d].timeout \subseteq Event
                    /\ reg[d] \subseteq Event
                    /\ chan[d] \in [Event -> Fibers \cup {NoFiber}]
  /\ Cardinality(cpu) <= nthreads
  /\ sockfd \in [Socks -> Fds \cup {NoFd}]
  /\ conn \in [Socks -> BOOLEAN]
  /\ socks \subseteq Listeners /\ fails \subseteq Listeners /\ todo \subseteq Listeners
  /\ stale \subseteq Fds
  /\ \A f \in Fibers : Cardinality({i \in DOMAIN queue : queue[i] = Task(f)}) <= 1

(***************************************************************************)
(* A socket whose calls are to wait in a fiber is non-blocking in the      *)
(* kernel: otherwise the call keeps the whole thread.  The exceptions are  *)
(* descriptors that were given FIONBIO 0, or whose number was last closed  *)
(* with its context kept: where the hooks are off, or by a second close of *)
(* an earlier user of the number, between its removeFdCtx and its close_f. *)
(***************************************************************************)
NonblockBelow ==
  \A d \in Fds :
    /\ kern[d].kind # "closed" /\ ctx[d].there /\ ~ctx[d].user
    /\ \A f \in Fibers : ~(fib[f].pc = "accepted" /\ fib[f].fd = d)
    => kern[d].nonblock \/ d \in stale

(***************************************************************************)
(* A suspended fiber is to be woken: it is queued, its alarm is set, or it *)
(* is the waiter of its channel and epoll watches its descriptor.  Only if *)
(* its addEvent came between another thread's cancelAll and close_f, in    *)
(* close(), can it sleep with nobody to wake it.                           *)
(***************************************************************************)
LostOnlyIfRaced ==
  \A f \in Fibers :
    fib[f].pc = "wait" /\ Task(f) \notin cpu =>
      LET d == fib[f].fd
          e == EventOf(fib[f].op)
      IN \/ \E i \in DOMAIN queue : queue[i] \in {Task(f), Alarm(f)}
         \/ Alarm(f) \in timers
         \/ d \in Fds /\ chan[d][e] = f /\ e \in reg[d] /\ Kind(d) # "closed"
         \/ f \in raced

(***************************************************************************)
(* A Socket's fd_ is a descriptor that was opened for it and is still its  *)
(* own, so that closing it or its destructor hits nobody else, although    *)
(* numbers are given again at once.  (Two threads that close one Socket    *)
(* can break this; a server and its handlers do not.)                      *)
(***************************************************************************)
SocketOwns ==
  serving \/ nthreads = 1 =>
    \A s \in Socks :
      \/ sockfd[s] = NoFd
      \/ Kind(sockfd[s]) # "closed" /\ kern[sockfd[s]].sock = s
      \/ \E f \in Fibers : fib[f].sock = s /\ fib[f].op = "close" /\ fib[f].pc = "done"

(***************************************************************************)
(* connect() gives 0 for a connection in progress only when it is made,    *)
(* unless another call interfered: its descriptor was closed under it, its *)
(* addEvent was refused, or the timeout of an earlier user of the number   *)
(* woke it.                                                                *)
(***************************************************************************)
ConnectedMeansConnected ==
  [][\A f \in Fibers :
       fib[f].pc = "soerror" /\ fib'[f].pc = "done" /\ fib'[f].ret = "ok" =>
         Kind(fib[f].fd) = "stream" \/ f \in misled]_vars

(***************************************************************************)
(* A call that times out had a timeout: the callback of an earlier call's  *)
(* timer, which may be queued when that call has long returned, does not   *)
(* call off a later one of the same fiber.                                 *)
(***************************************************************************)
TimesOutOnlyIfTimed ==
  [][\A f \in Fibers :
       fib[f].pc = "wait" /\ fib'[f].pc = "done" /\ fib'[f].ret = "timeout" =>
         fib[f].timed]_vars

Blocked(f) == At(f, "try") /\ Kind(fib[f].fd) # "closed" /\ ~kern[fib[f].fd].nonblock

(***************************************************************************)
(* With one thread a call with a timeout comes back, unless the thread is  *)
(* blocked by another call.  (With two the timer may expire before         *)
(* addEvent, and then calls off nothing.)                                  *)
(***************************************************************************)
TimeoutEnds ==
  \A f \in Fibers :
    (nthreads = 1 /\ fib[f].pc = "wait" /\ fib[f].timed)
      ~> (fib[f].pc # "wait" \/ \E g \in Fibers : Blocked(g))

(***************************************************************************)
(* stop() makes the accepting fibers end, with one thread: the task closes *)
(* the sockets they wait on, and none waits on one again.  (With two, one  *)
(* can enter its wait between cancelAll and close_f.)                      *)
(***************************************************************************)
AcceptEnds ==
  (owner = "stopped" /\ nthreads = 1)
    ~> (stale # {} \/ \A a \in Acceptors : fib[a].pc \in {"none", "term"})
=============================================================================
