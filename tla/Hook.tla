-------------------------------- MODULE Hook --------------------------------
(***************************************************************************)
(* The hooked system calls (base/hook.cc) with the FdCtx they look up in   *)
(* FdManager, the Channel they wait in and the timer that bounds the wait. *)
(* The calls are made by fibers of one IOManager of `nthreads` threads:    *)
(* `cpu` is what the threads execute, fibers and timer callbacks, and      *)
(* every statement another thread can come between is a step.  Modules     *)
(* Scheduler, IOManager and TimerManager have these parts in detail; here  *)
(* the wake-ups come by themselves.                                        *)
(*                                                                         *)
(* The kernel's side is external: a descriptor is a socket that is fresh,  *)
(* listening, connecting, connected (stream) or refused, has a set of      *)
(* directions it is ready in, and belongs to the Socket that opened it.    *)
(***************************************************************************)
EXTENDS Integers, Sequences, FiniteSets, SequencesExt

CONSTANTS
  Fibers,
  NoFiber,
  Fds,        \* descriptor numbers; the kernel gives the least free one
  NoFd,       \* -1
  Socks,      \* the Socket objects
  NoSock,
  Pools       \* the numbers of threads considered

Event == {"READ", "WRITE"}

ASSUME HookAssumption ==
  /\ Fds \subseteq Nat /\ IsFiniteSet(Fds) /\ NoFd \in Int \ Fds
  /\ NoFiber \notin Fibers
  /\ NoSock \notin Socks
  /\ Pools \subseteq Nat \ {0}

VARIABLES
  nthreads,   \* fixed at the start
  fib,        \* the fibers and the call each one is in
  kern,       \* the descriptors
  ctx,        \* FdManager::datas_
  chan,       \* who waits in which channel for what
  reg,        \* what epoll watches a descriptor for
  timers,     \* the timers of calls
  queue,      \* tasks_: fibers and the callbacks of expired timers
  cpu,        \* what the threads execute
  raced,      \* fibers whose addEvent came between cancelAll and close_f
  misled,     \* fibers called off, refused or closed under by another's call
  stale       \* numbers closed with their context kept, or given FIONBIO 0

history == <<raced, misled, stale>>
hookVars == <<nthreads, fib, kern, ctx, chan, reg, timers, queue, cpu, history>>

Idle == [pc |-> "none", op |-> "none", sock |-> NoSock, fd |-> NoFd, no |-> 0,
         loop |-> FALSE, timed |-> FALSE, cancelled |-> FALSE, ret |-> "none"]

ClosedFd == [kind |-> "closed", nonblock |-> FALSE, ready |-> {}, sock |-> NoSock]
NoCtx == [there |-> FALSE, sys |-> FALSE, user |-> FALSE, timeout |-> {}]
NoWaiter == [e \in Event |-> NoFiber]

HookInit ==
  /\ nthreads \in Pools
  /\ fib = [f \in Fibers |-> Idle]
  /\ kern = [d \in Fds |-> ClosedFd]
  /\ ctx = [d \in Fds |-> NoCtx]
  /\ chan = [d \in Fds |-> NoWaiter]
  /\ reg = [d \in Fds |-> {}]
  /\ timers = {}
  /\ queue = <<>>
  /\ cpu = {}
  /\ raced = {}
  /\ misled = {}
  /\ stale = {}

EventOf(op) == IF op \in {"recv", "accept"} THEN "READ" ELSE "WRITE"

Task(f) == [kind |-> "fiber", f |-> f, no |-> 0, fd |-> NoFd, ev |-> "none"]
Timeout(f) == [kind |-> "timeout", f |-> f, no |-> fib[f].no, fd |-> fib[f].fd,
               ev |-> EventOf(fib[f].op)]
Alarm(f) == [Task(f) EXCEPT !.kind = "sleep"]

(* f executes, at pc. *)
At(f, pc) == Task(f) \in cpu /\ fib[f].pc = pc
GoOn(f, pc) == fib' = [fib EXCEPT ![f].pc = pc]

(* f is between two calls: nothing of the last one is left. *)
Rest(f, pc) == [Idle EXCEPT !.pc = pc, !.no = fib[f].no]
Between(f, pc) == fib' = [fib EXCEPT ![f] = Rest(f, pc)]

(* f calls op on descriptor d; `done` and the result are for the caller. *)
Call(f, op, d) ==
  fib' = [fib EXCEPT ![f].pc = "enter", ![f].op = op, ![f].fd = d,
                     ![f].no = @ + 1, ![f].ret = "none"]
Return(f, r) ==
  fib' = [fib EXCEPT ![f] = [@ EXCEPT !.pc = "done", !.ret = r, !.loop = FALSE,
                                      !.timed = FALSE, !.cancelled = FALSE]]

(* The call's timer_info is alive. *)
InCall(f) == fib[f].pc \in {"try", "arm", "add", "wait", "soerror"}

-----------------------------------------------------------------------------
(* Descriptors and their contexts *)

Kind(d) == IF d \in Fds THEN kern[d].kind ELSE "closed"
Free == {d \in Fds : Kind(d) = "closed"}
NewFd == CHOOSE d \in Free : \A e \in Free : d <= e

(* FdCtx::FdCtx and init for a socket: no timeouts, userNonblock_ false,   *)
(* sysNonblock_ true (the kernel's flag is set in Open).                   *)
FdCtx == [NoCtx EXCEPT !.there = TRUE, !.sys = TRUE]

(* getFdCtx(d, true) *)
getFdCtx(d) == IF ctx[d].there THEN ctx[d] ELSE FdCtx

(* Mutant: an FdCtx is made without making the socket non-blocking. *)
Open_blocking(d, kind, s) ==
  /\ ctx' = [ctx EXCEPT ![d] = getFdCtx(d)]
  /\ kern' = [kern EXCEPT ![d] = [kind |-> kind, nonblock |-> FALSE,
                                  ready |-> kern[d].ready, sock |-> s]]

(***************************************************************************)
(* socket_f or accept_f gives a blocking socket; getFdCtx(fd, true) makes  *)
(* it non-blocking in FdCtx::init, unless a context is there already.      *)
(***************************************************************************)
Open(d, kind, s) ==
  /\ ctx' = [ctx EXCEPT ![d] = getFdCtx(d)]
  /\ kern' = [kern EXCEPT ![d] = [kind |-> kind, nonblock |-> ~ctx[d].there,
                                  ready |-> kern[d].ready, sock |-> s]]

(* setsockopt with SO_RCVTIMEO (READ) or SO_SNDTIMEO (WRITE) *)
setTimeout(d, e) ==
  ctx' = IF d \in Fds /\ ctx[d].there
         THEN [ctx EXCEPT ![d].timeout = @ \cup {e}] ELSE ctx

(* The kernel's flag, of a descriptor that is open. *)
SetNonblock(d, flag) ==
  kern' = IF Kind(d) = "closed" THEN kern ELSE [kern EXCEPT ![d].nonblock = flag]

(* fcntl F_SETFL: the user's flag is kept apart, the kernel's stays set.   *)
(* (F_GETFL gives the user's flag back; other commands are passed on.)     *)
fcntl(d, flag) ==
  /\ d \in Fds
  /\ ctx' = IF ctx[d].there THEN [ctx EXCEPT ![d].user = flag] ELSE ctx
  /\ SetNonblock(d, IF ctx[d].there THEN ctx[d].sys ELSE flag)
  /\ stale' = IF Kind(d) = "closed" THEN stale ELSE stale \ {d}

(* ioctl FIONBIO: the request goes to the kernel as it is. *)
ioctl(d, flag) ==
  /\ d \in Fds
  /\ ctx' = IF ctx[d].there THEN [ctx EXCEPT ![d].user = flag] ELSE ctx
  /\ SetNonblock(d, flag)
  /\ stale' = IF Kind(d) = "closed" THEN stale ELSE IF flag THEN stale \ {d} ELSE stale \cup {d}

-----------------------------------------------------------------------------
(* Channels *)

(* epoll_ctl finds the descriptor it is to change or to delete. *)
Watched(d) == Kind(d) # "closed" /\ reg[d] # {}
WaitedFor(d) == {e \in Event : chan[d][e] # NoFiber}
InOrder(es) == (IF "READ" \in es THEN <<"READ">> ELSE <<>>)
               \o (IF "WRITE" \in es THEN <<"WRITE">> ELSE <<>>)

(* Mutant: the waiter stays in its channel. *)
handleEvents_keeps_waiter(d, es) ==
  /\ UNCHANGED chan
  /\ reg' = [reg EXCEPT ![d] = WaitedFor(d) \ es]
  /\ queue' = queue \o [i \in DOMAIN InOrder(es) |-> Task(chan[d][InOrder(es)[i]])]

(* handleEvent for es: the waiters are scheduled and forgotten. *)
handleEvents(d, es) ==
  /\ chan' = [chan EXCEPT ![d] = [e \in Event |-> IF e \in es THEN NoFiber ELSE @[e]]]
  /\ reg' = [reg EXCEPT ![d] = WaitedFor(d) \ es]
  /\ queue' = queue \o [i \in DOMAIN InOrder(es) |-> Task(chan[d][InOrder(es)[i]])]

(* IOManager::cancelEvent and cancelAll *)
cancelEvents(d, es) ==
  IF d \in Fds /\ es \cap WaitedFor(d) # {} /\ Watched(d)
  THEN handleEvents(d, es \cap WaitedFor(d))
  ELSE UNCHANGED <<chan, reg, queue>>

Waiters(d) == IF d \in Fds THEN {chan[d][e] : e \in Event} \ {NoFiber} ELSE {}

(* IOManager::idle: a descriptor is reported in the directions it is ready *)
Report(d) ==
  LET es == reg[d] \cap kern[d].ready
  IN /\ Cardinality(cpu) < nthreads
     /\ es # {}
     /\ handleEvents(d, es)
     /\ UNCHANGED <<nthreads, fib, kern, ctx, timers, cpu, history>>

-----------------------------------------------------------------------------
(* Threads: the first task that does not execute is taken *)

Takeable == {i \in DOMAIN queue : queue[i].kind = "fiber" => queue[i] \notin cpu}
First == CHOOSE i \in Takeable : \A j \in Takeable : i <= j
Take(kind) ==
  /\ Cardinality(cpu) < nthreads
  /\ Takeable # {}
  /\ queue[First].kind = kind

RunFiber ==
  /\ Take("fiber")
  /\ cpu' = cpu \cup {queue[First]}
  /\ queue' = RemoveAt(queue, First)
  /\ UNCHANGED <<nthreads, fib, kern, ctx, chan, reg, timers, history>>

(* The callback of sleep() schedules the fiber. *)
RunSleep ==
  /\ Take("sleep")
  /\ queue' = Append(RemoveAt(queue, First), Task(queue[First].f))
  /\ UNCHANGED <<nthreads, fib, kern, ctx, chan, reg, timers, cpu, history>>

(* Mutant: the callback does not look whether its call is still there. *)
RunTimeout_unchecked ==
  /\ Take("timeout")
  /\ LET t == queue[First]
     IN /\ queue' = RemoveAt(queue, First)
        /\ cpu' = cpu \cup {t}
        /\ fib' = IF fib[t.f].no = t.no THEN [fib EXCEPT ![t.f].cancelled = TRUE] ELSE fib
  /\ UNCHANGED <<nthreads, kern, ctx, chan, reg, timers, history>>

(* The callback of a timeout: nothing if the call is over or was called    *)
(* off before; otherwise it is, ...                                        *)
RunTimeout ==
  /\ Take("timeout")
  /\ LET t == queue[First]
         live == InCall(t.f) /\ fib[t.f].no = t.no /\ ~fib[t.f].cancelled
     IN /\ queue' = RemoveAt(queue, First)
        /\ cpu' = IF live THEN cpu \cup {t} ELSE cpu
        /\ fib' = IF live THEN [fib EXCEPT ![t.f].cancelled = TRUE] ELSE fib
  /\ UNCHANGED <<nthreads, kern, ctx, chan, reg, timers, history>>

(* Mutant: the flag is set, and that is all. *)
CancelTimeout_flag_only ==
  \E t \in cpu :
    /\ t.kind = "timeout"
    /\ cpu' = cpu \ {t}
    /\ UNCHANGED <<nthreads, fib, kern, ctx, chan, reg, queue, timers, history>>

(* ... and whoever waits for that event of that descriptor is woken. *)
CancelTimeout ==
  \E t \in cpu :
    /\ t.kind = "timeout"
    /\ cpu' = cpu \ {t}
    /\ cancelEvents(t.fd, {t.ev})
    /\ misled' = misled \cup {f \in Fibers : /\ chan[t.fd][t.ev] = f
                                             /\ ~(f = t.f /\ InCall(f) /\ fib[f].no = t.no)}
    /\ UNCHANGED <<nthreads, fib, kern, ctx, timers, raced, stale>>

(* A timer expires: its callback is scheduled. *)
Expire ==
  \E t \in timers :
    /\ timers' = timers \ {t}
    /\ queue' = Append(queue, t)
    /\ UNCHANGED <<nthreads, fib, kern, ctx, chan, reg, cpu, history>>

-----------------------------------------------------------------------------
(* The calls that may wait: do_io, connect_with_timeout, sleep *)

IoOps == {"recv", "send", "accept"}

Enter(f) ==
  LET d == fib[f].fd
      known == d \in Fds /\ ctx[d].there
      loop == known /\ ~ctx[d].user
  IN /\ At(f, "enter")
     /\ \/ /\ fib[f].op \in IoOps
           /\ fib' = [fib EXCEPT ![f].pc = "try", ![f].loop = loop,
                        ![f].timed = loop /\ EventOf(fib[f].op) \in ctx[d].timeout]
        \/ /\ fib[f].op = "connect"
           /\ IF known
              THEN fib' = [fib EXCEPT ![f].pc = "try", ![f].loop = loop, ![f].timed = loop]
              ELSE Return(f, "error")
        \/ /\ fib[f].op = "sleep"
           /\ GoOn(f, "arm")
        \/ /\ fib[f].op = "close"
           /\ GoOn(f, IF known THEN "cancelAll" ELSE "close_f")
     /\ UNCHANGED <<nthreads, kern, ctx, chan, reg, timers, queue, cpu, history>>

(* EAGAIN, EINPROGRESS: the fiber waits if it goes through the loop. *)
WouldBlock(f) == IF fib[f].loop THEN GoOn(f, "arm") ELSE Return(f, "again")

(* accept_f, read_f, send_f ...; a blocking call that has to wait keeps    *)
(* its thread.  accept leaves its new descriptor to TryAccept.             *)
TryIo(f) ==
  LET d == fib[f].fd
      e == EventOf(fib[f].op)
      usable == Kind(d) = "stream" \/ (fib[f].op = "accept" /\ Kind(d) = "listen")
  IN /\ At(f, "try")
     /\ fib[f].op \in IoOps
     /\ \/ /\ ~usable
           /\ Return(f, "error")
           /\ UNCHANGED kern
        \/ /\ usable /\ e \in kern[d].ready /\ fib[f].op # "accept"
           /\ Return(f, "ok")
           /\ kern' = [kern EXCEPT ![d].ready = @ \ {e}]
        \/ /\ usable /\ e \notin kern[d].ready /\ kern[d].nonblock
           /\ WouldBlock(f)
           /\ UNCHANGED kern
     /\ UNCHANGED <<nthreads, ctx, chan, reg, timers, queue, cpu, history>>

(* connect_f: at once, in progress, or refused *)
TryConnect(f) ==
  LET d == fib[f].fd
  IN /\ At(f, "try")
     /\ fib[f].op = "connect"
     /\ \/ /\ Kind(d) \in {"closed", "stream", "refused", "listen"}
           /\ Return(f, "error")
           /\ UNCHANGED kern
        \/ /\ Kind(d) = "connecting" /\ kern[d].nonblock
           /\ Return(f, "error")
           /\ UNCHANGED kern
        \/ /\ Kind(d) = "fresh" /\ kern[d].nonblock
           /\ WouldBlock(f)
           /\ kern' = [kern EXCEPT ![d].kind = "connecting"]
        \/ /\ Kind(d) = "fresh"
           /\ \/ Return(f, "ok") /\ kern' = [kern EXCEPT ![d].kind = "stream"]
              \/ Return(f, "error") /\ UNCHANGED kern
     /\ UNCHANGED <<nthreads, ctx, chan, reg, timers, queue, cpu, history>>

(* YieldToHold.  (A fiber that is woken before it has left its thread is   *)
(* not taken before: the two are one step.)                                *)
Suspend(f) == GoOn(f, "wait") /\ cpu' = cpu \ {Task(f)}

(* addConditionTimer, or the timer of sleep() *)
Arm(f) ==
  /\ At(f, "arm")
  /\ IF fib[f].op = "sleep"
     THEN timers' = timers \cup {Alarm(f)} /\ Suspend(f)
     ELSE /\ timers' = IF fib[f].timed THEN timers \cup {Timeout(f)} ELSE timers
          /\ GoOn(f, "add")
          /\ UNCHANGED cpu
  /\ UNCHANGED <<nthreads, kern, ctx, chan, reg, queue, history>>

(* Closers of d that are past cancelAll. *)
Closing(d) == {g \in Fibers : /\ fib[g].op = "close" /\ fib[g].fd = d
                              /\ fib[g].pc \in {"remove", "close_f"}}

(* Mutant: the wait is entered although addEvent failed. *)
addEvent_ignored(f) ==
  LET d == fib[f].fd
      e == EventOf(fib[f].op)
      ok == /\ d \in Fds
            /\ chan[d][e] = NoFiber
            /\ Kind(d) # "closed"
            /\ (WaitedFor(d) = {}) = (reg[d] = {})
  IN /\ At(f, "add")
     /\ Suspend(f)
     /\ IF ok
        THEN /\ chan' = [chan EXCEPT ![d][e] = f]
             /\ reg' = [reg EXCEPT ![d] = @ \cup {e}]
             /\ raced' = IF Closing(d) = {} THEN raced ELSE raced \cup {f}
        ELSE UNCHANGED <<chan, reg, raced>>
     /\ UNCHANGED <<nthreads, kern, ctx, timers, queue, misled, stale>>

(* IOManager::addEvent; if it fails the timer is cancelled, a read or      *)
(* write gives up, and a connect goes on to ask for the outcome.           *)
addEvent(f) ==
  LET d == fib[f].fd
      e == EventOf(fib[f].op)
      ok == /\ d \in Fds
            /\ chan[d][e] = NoFiber
            /\ Kind(d) # "closed"
            /\ (WaitedFor(d) = {}) = (reg[d] = {})
  IN /\ At(f, "add")
     /\ IF ok
        THEN /\ chan' = [chan EXCEPT ![d][e] = f]
             /\ reg' = [reg EXCEPT ![d] = @ \cup {e}]
             /\ raced' = IF Closing(d) = {} THEN raced ELSE raced \cup {f}
             /\ Suspend(f)
             /\ UNCHANGED <<timers, misled>>
        ELSE /\ timers' = timers \ {Timeout(f)}
             /\ misled' = misled \cup {f}
             /\ IF fib[f].op = "connect" THEN GoOn(f, "soerror") ELSE Return(f, "error")
             /\ UNCHANGED <<chan, reg, raced, cpu>>
     /\ UNCHANGED <<nthreads, kern, ctx, queue, stale>>

(* Mutant: nobody looks at the flag. *)
Woken_flag_ignored(f) ==
  /\ At(f, "wait")
  /\ timers' = timers \ {Timeout(f)}
  /\ IF fib[f].op = "sleep" THEN Return(f, "ok")
     ELSE GoOn(f, IF fib[f].op = "connect" THEN "soerror" ELSE "try")
  /\ UNCHANGED <<nthreads, kern, ctx, chan, reg, queue, cpu, history>>

(* After YieldToHold: timer->cancel(), and the flag is looked at. *)
Woken(f) ==
  /\ At(f, "wait")
  /\ timers' = timers \ {Timeout(f)}
  /\ IF fib[f].cancelled THEN Return(f, "timeout")
     ELSE IF fib[f].op = "sleep" THEN Return(f, "ok")
     ELSE GoOn(f, IF fib[f].op = "connect" THEN "soerror" ELSE "try")
  /\ UNCHANGED <<nthreads, kern, ctx, chan, reg, queue, cpu, history>>

(* getsockopt SO_ERROR after a connect *)
SoError(f) ==
  /\ At(f, "soerror")
  /\ Return(f, IF Kind(fib[f].fd) \in {"closed", "refused"} THEN "error" ELSE "ok")
  /\ UNCHANGED <<nthreads, kern, ctx, chan, reg, timers, queue, cpu, history>>

-----------------------------------------------------------------------------
(* close *)

CloseCancel(f) ==
  /\ At(f, "cancelAll")
  /\ cancelEvents(fib[f].fd, Event)
  /\ GoOn(f, "remove")
  /\ misled' = misled \cup Waiters(fib[f].fd)
  /\ UNCHANGED <<nthreads, kern, ctx, timers, cpu, raced, stale>>

CloseRemove(f) ==
  /\ At(f, "remove")
  /\ ctx' = [ctx EXCEPT ![fib[f].fd] = NoCtx]
  /\ stale' = stale \ {fib[f].fd}
  /\ GoOn(f, "close_f")
  /\ UNCHANGED <<nthreads, kern, chan, reg, timers, queue, cpu, raced, misled>>

(* The kernel forgets the descriptor, and what epoll watched it for. *)
Forget(d) ==
  /\ kern' = IF d \in Fds THEN [kern EXCEPT ![d] = ClosedFd] ELSE kern
  /\ reg' = IF d \in Fds THEN [reg EXCEPT ![d] = {}] ELSE reg

(* A context that is there by now is of a number opened since CloseRemove, *)
(* which another close has set free, and it is left behind.                *)
CloseF(f) ==
  LET d == fib[f].fd
  IN /\ At(f, "close_f")
     /\ Forget(d)
     /\ Return(f, IF Kind(d) = "closed" THEN "error" ELSE "ok")
     /\ misled' = misled \cup {g \in Fibers : InCall(g) /\ fib[g].fd = d}
     /\ stale' = IF d \in Fds /\ ctx[d].there THEN stale \cup {d} ELSE stale
     /\ UNCHANGED <<nthreads, ctx, chan, timers, queue, cpu, raced>>

-----------------------------------------------------------------------------
(* The other end *)

(* Bytes or a client arrive, or there is room to send.  (Before a call has *)
(* entered for it nobody could tell, so that it comes after.)              *)
Arrive(d) ==
  \E f \in Fibers : LET e == EventOf(fib[f].op) IN
    /\ fib[f].fd = d /\ fib[f].op \in IoOps /\ fib[f].pc # "done"
    /\ kern[d].kind = IF fib[f].op = "accept" THEN "listen" ELSE "stream"
    /\ e \notin kern[d].ready
    /\ kern' = [kern EXCEPT ![d].ready = @ \cup {e}]
    /\ UNCHANGED <<nthreads, fib, ctx, chan, reg, timers, queue, cpu, history>>

(* A connection in progress is made or refused. *)
Resolve(d) ==
  /\ kern[d].kind = "connecting"
  /\ \/ kern' = [kern EXCEPT ![d].kind = "stream", ![d].ready = {"WRITE"}]
     \/ kern' = [kern EXCEPT ![d].kind = "refused", ![d].ready = Event]
  /\ UNCHANGED <<nthreads, fib, ctx, chan, reg, timers, queue, cpu, history>>

-----------------------------------------------------------------------------
CallStep(f) ==
  \/ Enter(f) \/ TryIo(f) \/ TryConnect(f) \/ Arm(f) \/ addEvent(f)
  \/ Woken(f) \/ SoError(f) \/ CloseCancel(f) \/ CloseRemove(f) \/ CloseF(f)

LoopStep == RunFiber \/ RunSleep \/ RunTimeout \/ CancelTimeout

Kernel == \E d \in Fds : Arrive(d) \/ Resolve(d)
=============================================================================
