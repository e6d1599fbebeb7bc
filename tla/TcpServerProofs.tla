--------------------------- MODULE TcpServerProofs ---------------------------
(***************************************************************************)
(* Proofs about the hooked calls, the Sockets and the TcpServer, for every *)
(* set of fibers, descriptors and Sockets, and any number of threads.      *)
(***************************************************************************)
EXTENDS TcpServer, SequenceFacts

-----------------------------------------------------------------------------
(* Types *)

PCs == {"none", "term", "loop", "body", "enter", "try", "arm", "add", "wait", "soerror",
        "accepted", "init", "cancelAll", "remove", "close_f", "done"}
Operations == {"none", "recv", "send", "accept", "connect", "close", "sleep"}
Results == {"none", "ok", "error", "again", "timeout"}
Kinds == {"closed", "fresh", "listen", "connecting", "stream", "refused"}

FibRec == [pc : PCs, op : Operations, sock : Socks \cup {NoSock}, fd : Fds \cup {NoFd},
           no : Nat, loop : BOOLEAN, timed : BOOLEAN, cancelled : BOOLEAN, ret : Results]
KernRec == [kind : Kinds, nonblock : BOOLEAN, ready : SUBSET Event, sock : Socks \cup {NoSock}]
CtxRec == [there : BOOLEAN, sys : BOOLEAN, user : BOOLEAN, timeout : SUBSET Event]

(* What is queued and executed. *)
Item(kind) == [kind : {kind}, f : Fibers, no : Nat, fd : Fds \cup {NoFd}, ev : Event \cup {"none"}]
Fiber == {Task(f) : f \in Fibers}
Sleep == {Alarm(f) : f \in Fibers}
Timer == [kind : {"timeout"}, f : Fibers, no : Nat, fd : Fds \cup {NoFd}, ev : Event]

FibOK == fib \in [Fibers -> FibRec]
KernOK == kern \in [Fds -> KernRec] /\ ctx \in [Fds -> CtxRec]
ChanOK ==
  /\ chan \in [Fds -> [Event -> Fibers \cup {NoFiber}]]
  /\ reg \in [Fds -> SUBSET Event]
  /\ \A d \in Fds : reg[d] \subseteq WaitedFor(d)
ItemsOK ==
  /\ timers \subseteq Sleep \cup Timer
  /\ queue \in Seq(Fiber \cup Sleep \cup Timer)
  /\ cpu \subseteq Fiber \cup Timer
CpuOK == nthreads \in Nat \ {0} /\ IsFiniteSet(cpu) /\ Cardinality(cpu) <= nthreads
SockOK == sockfd \in [Socks -> Fds \cup {NoFd}] /\ conn \in [Socks -> BOOLEAN]
HistOK == raced \subseteq Fibers /\ misled \subseteq Fibers /\ stale \subseteq Fds
OwnerOK ==
  /\ socks \subseteq Listeners /\ fails \subseteq Listeners /\ todo \subseteq Listeners
  /\ serving \in BOOLEAN /\ running \in BOOLEAN
  /\ owner \in {"unbound", "binding", "bound", "started", "stopped"}

Types == FibOK /\ KernOK /\ ChanOK /\ ItemsOK /\ CpuOK /\ SockOK /\ HistOK /\ OwnerOK

-----------------------------------------------------------------------------
(* What happens to a fiber: f alone changes, ... *)

Moves(f) == fib' \in [Fibers -> FibRec] /\ \A g \in Fibers : g # f => fib'[g] = fib[g]

(* ... and goes to pc, with the rest of its call; *)
Goes_on(f, pc) ==
  /\ Moves(f)
  /\ fib'[f].pc = pc
  /\ fib'[f].op = fib[f].op /\ fib'[f].sock = fib[f].sock /\ fib'[f].fd = fib[f].fd
  /\ fib'[f].no = fib[f].no /\ fib'[f].timed = fib[f].timed
  /\ fib'[f].cancelled = fib[f].cancelled /\ fib'[f].ret = fib[f].ret

LEMMA GoOnFacts ==
  ASSUME FibOK, NEW f \in Fibers, NEW pc \in PCs, GoOn(f, pc)
  PROVE  Goes_on(f, pc)
  BY DEF FibOK, FibRec, GoOn, Goes_on, Moves

LEMMA ReturnFacts ==
  ASSUME FibOK, NEW f \in Fibers, NEW r \in Results, Return(f, r)
  PROVE  /\ Moves(f)
         /\ fib'[f].pc = "done" /\ fib'[f].ret = r
         /\ ~fib'[f].timed /\ ~fib'[f].cancelled
         /\ fib'[f].op = fib[f].op /\ fib'[f].sock = fib[f].sock /\ fib'[f].fd = fib[f].fd
         /\ fib'[f].no = fib[f].no
<1> DEFINE q == [fib[f] EXCEPT !.pc = "done", !.ret = r, !.loop = FALSE,
                               !.timed = FALSE, !.cancelled = FALSE]
<1>1. fib[f] \in FibRec /\ fib' = [fib EXCEPT ![f] = q]
  BY DEF FibOK, Return
<1>2. /\ q \in FibRec
      /\ q.pc = "done" /\ q.ret = r /\ ~q.timed /\ ~q.cancelled
      /\ q.op = fib[f].op /\ q.sock = fib[f].sock /\ q.fd = fib[f].fd /\ q.no = fib[f].no
  BY <1>1 DEF FibRec, PCs
<1> HIDE DEF q
<1>3. fib' \in [Fibers -> FibRec] /\ fib'[f] = q /\ \A g \in Fibers : g # f => fib'[g] = fib[g]
  BY <1>1, <1>2 DEF FibOK
<1> QED
  BY <1>2, <1>3 DEF Moves

LEMMA CallFacts ==
  ASSUME FibOK, NEW f \in Fibers, NEW op \in Operations, NEW d \in Fds \cup {NoFd},
         Call(f, op, d)
  PROVE  /\ Moves(f)
         /\ fib'[f].pc = "enter" /\ fib'[f].op = op /\ fib'[f].fd = d /\ fib'[f].ret = "none"
         /\ fib'[f].no = fib[f].no + 1
         /\ fib'[f].sock = fib[f].sock
         /\ fib'[f].timed = fib[f].timed /\ fib'[f].cancelled = fib[f].cancelled
  BY DEF FibOK, FibRec, Call, Moves, PCs, Results

LEMMA MethodFacts ==
  ASSUME FibOK, NEW f \in Fibers, NEW op \in Operations, NEW s \in Socks \cup {NoSock},
         NEW d \in Fds \cup {NoFd}, Method(f, op, s, d)
  PROVE  /\ Moves(f)
         /\ fib'[f].pc = "enter" /\ fib'[f].op = op /\ fib'[f].fd = d /\ fib'[f].ret = "none"
         /\ fib'[f].no = fib[f].no + 1
         /\ fib'[f].sock = s
         /\ fib'[f].timed = fib[f].timed /\ fib'[f].cancelled = fib[f].cancelled
  BY DEF FibOK, FibRec, Method, Moves, PCs, Results

LEMMA RestFacts ==
  ASSUME FibOK, NEW f \in Fibers, NEW pc \in PCs
  PROVE  /\ Rest(f, pc) \in FibRec
         /\ Rest(f, pc).pc = pc /\ Rest(f, pc).op = "none" /\ Rest(f, pc).no = fib[f].no
         /\ Rest(f, pc).sock = NoSock /\ Rest(f, pc).fd = NoFd
         /\ ~Rest(f, pc).timed /\ ~Rest(f, pc).cancelled
  BY DEF FibOK, FibRec, Rest, Idle, PCs, Operations, Results

LEMMA BetweenFacts ==
  ASSUME FibOK, NEW f \in Fibers, NEW pc \in PCs, Between(f, pc)
  PROVE  Moves(f) /\ fib'[f] = Rest(f, pc)
  BY RestFacts DEF FibOK, Between, Moves

LEMMA TerminateFacts ==
  ASSUME FibOK, NEW f \in Fibers, Terminate(f)
  PROVE  /\ Moves(f)
         /\ fib'[f].pc = "term" /\ fib'[f].op = "none"
         /\ ~fib'[f].timed /\ ~fib'[f].cancelled
         /\ cpu' = cpu \ {Task(f)}
  BY DEF FibOK, FibRec, Terminate, Moves, Idle, PCs, Operations, Results
(* A fiber's next pc, and what becomes of its call: it sets out on a new   *)
(* one, is done with it, or goes on.                                       *)
Calling == {"try", "arm", "add", "wait", "soerror"}
OfSocket(c) == c.op \in {"connect", "close"} => c.sock \in Socks
Progress(f) ==
  /\ OfSocket(fib'[f])
  /\ \/ /\ fib'[f].pc = "enter" /\ fib'[f].no = fib[f].no + 1
        /\ ~fib'[f].timed /\ ~fib'[f].cancelled
     \/ /\ fib'[f].pc \in {"loop", "body", "done", "cancelAll", "remove", "close_f"}
        /\ fib'[f].no >= fib[f].no
        /\ ~fib'[f].timed /\ ~fib'[f].cancelled
     \/ /\ fib'[f].pc \in {"accepted", "init"}
        /\ fib'[f].no = fib[f].no
        /\ fib'[f].timed = fib[f].timed /\ fib'[f].cancelled = fib[f].cancelled
     \/ /\ fib'[f].pc \in Calling
        /\ fib'[f].no = fib[f].no /\ fib'[f].op = fib[f].op /\ fib'[f].fd = fib[f].fd
        /\ fib'[f].cancelled = fib[f].cancelled
        /\ \/ fib[f].pc \in Calling /\ fib'[f].timed = fib[f].timed
           \/ fib[f].pc = "enter"

(* The flags belong to a call, and a call of a Socket's method to a Socket. *)
FlagsInv ==
  \A f \in Fibers :
    /\ OfSocket(fib[f])
    /\ fib[f].cancelled => fib[f].timed
    /\ fib[f].pc \notin Calling \cup {"accepted", "init"} => ~fib[f].timed /\ ~fib[f].cancelled

Executes(f) == Task(f) \in cpu /\ fib[f].pc \notin {"none", "term"}

(* An executing fiber does something that wakes nobody; *)
ActStep(f) ==
  /\ Executes(f)
  /\ Moves(f) /\ Progress(f)
  /\ UNCHANGED <<chan, queue, cpu>>
  /\ \/ timers' = timers
     \/ timers' = timers \ {Timeout(f)}
     \/ fib[f].pc = "arm" /\ fib[f].timed /\ timers' = timers \cup {Timeout(f)}

(* it suspends itself, *)
SleepStep(f) ==
  /\ Executes(f)
  /\ fib[f].op = "sleep" /\ fib[f].pc = "arm" /\ Goes_on(f, "wait")
  /\ timers' = timers \cup {Alarm(f)}
  /\ cpu' = cpu \ {Task(f)}
  /\ UNCHANGED <<chan, queue>>

AddStep(f, d, e) ==
  /\ Executes(f)
  /\ d = fib[f].fd /\ e = EventOf(fib[f].op) /\ chan[d][e] = NoFiber
  /\ fib[f].pc = "add" /\ Goes_on(f, "wait")
  /\ chan' = [chan EXCEPT ![d][e] = f]
  /\ cpu' = cpu \ {Task(f)}
  /\ UNCHANGED <<timers, queue>>

(* or ends. *)
EndStep(f) ==
  /\ Executes(f)
  /\ Moves(f) /\ fib'[f].pc = "term" /\ fib'[f].op = "none" /\ ~fib'[f].timed /\ ~fib'[f].cancelled
  /\ cpu' = cpu \ {Task(f)}
  /\ UNCHANGED <<chan, timers, queue>>

(* Waiters are woken, by a report, a timeout or a fiber that closes. *)
Woke(d, es) ==
  /\ es \subseteq WaitedFor(d)
  /\ chan' = [chan EXCEPT ![d] = [e \in Event |-> IF e \in es THEN NoFiber ELSE @[e]]]
  /\ queue' = queue \o [i \in DOMAIN InOrder(es) |-> Task(chan[d][InOrder(es)[i]])]

DropStep == \E t \in cpu : t \in Timer /\ cpu' = cpu \ {t} /\ UNCHANGED <<fib, timers>>

WakeStep(d, es) ==
  /\ Woke(d, es)
  /\ UNCHANGED timers
  /\ \/ UNCHANGED <<fib, cpu>>
     \/ DropStep
     \/ \E f \in Fibers : Executes(f) /\ Moves(f) /\ Progress(f) /\ UNCHANGED cpu

(* Fibers are scheduled for the first time. *)
StartStep(S, s) ==
  /\ s \in Seq(Fiber) /\ IsInjective(s)
  /\ \A i \in DOMAIN s : \E f \in S : s[i] = Task(f)
  /\ queue' = queue \o s
  /\ fib' \in [Fibers -> FibRec]
  /\ \A f \in S : /\ fib[f].pc = "none" /\ fib'[f].pc \in {"loop", "body"}
                  /\ ~fib'[f].timed /\ ~fib'[f].cancelled /\ OfSocket(fib'[f])
  /\ \/ \A f \in Fibers \ S : fib'[f] = fib[f]
     \/ \E a \in Fibers \ S :
          /\ Executes(a) /\ Progress(a) /\ fib'[a].pc = "loop"
          /\ \A f \in Fibers \ (S \cup {a}) : fib'[f] = fib[f]
  /\ UNCHANGED <<chan, timers, cpu>>

(* A task is taken, or a timer expires. *)
TakeStep(i) ==
  /\ i \in DOMAIN queue
  /\ \/ /\ queue[i] \in Fiber /\ queue[i] \notin cpu
        /\ cpu' = cpu \cup {queue[i]} /\ queue' = RemoveAt(queue, i)
        /\ UNCHANGED fib
     \/ /\ queue[i] \in Sleep
        /\ queue' = Append(RemoveAt(queue, i), Task(queue[i].f))
        /\ UNCHANGED <<fib, cpu>>
     \/ /\ queue[i] \in Timer
        /\ queue' = RemoveAt(queue, i)
        /\ UNCHANGED <<fib, cpu>>
     \/ /\ queue[i] \in Timer
        /\ InCall(queue[i].f) /\ fib[queue[i].f].no = queue[i].no
        /\ queue' = RemoveAt(queue, i)
        /\ cpu' = cpu \cup {queue[i]}
        /\ fib' = [fib EXCEPT ![queue[i].f].cancelled = TRUE]
  /\ cpu' # cpu => Cardinality(cpu) < nthreads
  /\ UNCHANGED <<chan, timers>>

ExpireStep(t) ==
  /\ t \in timers
  /\ timers' = timers \ {t}
  /\ queue' = Append(queue, t)
  /\ UNCHANGED <<fib, chan, cpu>>

StandStill == UNCHANGED <<fib, chan, timers, queue, cpu>>

Going_on ==
  \/ StandStill
  \/ DropStep /\ UNCHANGED <<chan, queue>>
  \/ \E f \in Fibers : ActStep(f) \/ SleepStep(f) \/ EndStep(f)
  \/ \E f \in Fibers, d \in Fds, e \in Event : AddStep(f, d, e)
  \/ \E d \in Fds, es \in SUBSET Event : WakeStep(d, es)
  \/ \E i \in DOMAIN queue : TakeStep(i)
  \/ \E t \in timers : ExpireStep(t)

-----------------------------------------------------------------------------
(* Every step is one of these *)

LEMMA ItemFacts ==
  /\ \A f : Task(f).kind = "fiber" /\ Task(f).f = f
  /\ \A f : Alarm(f).kind = "sleep" /\ Alarm(f).f = f
  /\ \A x \in Timer : x.kind = "timeout" /\ x.f \in Fibers
  /\ \A x \in Fiber : x.f \in Fibers /\ x = Task(x.f)
  /\ \A x \in Sleep : x.f \in Fibers /\ x = Alarm(x.f)
<1>1. \A f : Task(f).kind = "fiber" /\ Task(f).f = f
  BY DEF Task
<1>2. \A f : Alarm(f).kind = "sleep" /\ Alarm(f).f = f
  BY DEF Alarm, Task
<1>3. \A x \in Timer : x.kind = "timeout" /\ x.f \in Fibers
  BY DEF Timer
<1> QED
  BY <1>1, <1>2, <1>3 DEF Fiber, Sleep

LEMMA TimeoutTimer ==
  ASSUME FibOK, NEW f \in Fibers
  PROVE  Timeout(f) \in Timer
  BY DEF FibOK, FibRec, Timeout, Timer, EventOf, Event

LEMMA AtExecutes ==
  ASSUME NEW f, NEW pc, At(f, pc), pc \notin {"none", "term"}
  PROVE  Executes(f)
  BY DEF At, Executes

LEMMA CancelKinds ==
  ASSUME NEW d, NEW es \in SUBSET Event, cancelEvents(d, es)
  PROVE  \/ UNCHANGED <<chan, queue>>
         \/ \E k \in Fds, ks \in SUBSET Event : Woke(k, ks)
  BY DEF cancelEvents, handleEvents, Woke

LEMMA FirstFacts ==
  ASSUME ItemsOK, Takeable # {}
  PROVE  First \in Takeable /\ First \in DOMAIN queue
<1>1. Takeable \in SUBSET Nat /\ Takeable \subseteq DOMAIN queue
  BY DEF Takeable, ItemsOK
<1>2. \E i \in Takeable : \A k \in Takeable : i <= k
  BY <1>1, LeastElement
<1> QED
  BY <1>1, <1>2 DEF First

(* What a fiber does when its call returns. *)
LEMMA ReturnActs ==
  ASSUME FibOK, FlagsInv, NEW f \in Fibers, NEW r \in Results, Return(f, r)
  PROVE  Moves(f) /\ Progress(f)
<1>1. fib[f].no \in Nat
  BY DEF FibOK, FibRec
<1> QED
  BY <1>1, ReturnFacts DEF Progress, FlagsInv, OfSocket

(* What a fiber does within its call. *)
LEMMA GoOnActs ==
  ASSUME FibOK, FlagsInv, NEW f \in Fibers, NEW pc \in PCs, GoOn(f, pc),
         \/ pc \in Calling /\ fib[f].pc \in Calling \cup {"enter"}
         \/ pc \in {"cancelAll", "remove", "close_f"} /\ fib[f].pc \in {"enter", "cancelAll", "remove"}
         \/ pc = "init"
  PROVE  Moves(f) /\ Progress(f)
<1>1. fib[f].no \in Nat /\ Goes_on(f, pc) /\ OfSocket(fib'[f])
  BY GoOnFacts DEF FibOK, FibRec, FlagsInv, OfSocket, Goes_on
<1>2. CASE pc \in Calling /\ fib[f].pc \in Calling \cup {"enter"}
  BY <1>1, <1>2 DEF Progress, Goes_on, Calling
<1>3. CASE pc \in {"cancelAll", "remove", "close_f"} /\ fib[f].pc \in {"enter", "cancelAll", "remove"}
  <2>1. ~fib[f].timed /\ ~fib[f].cancelled
    BY <1>3 DEF FlagsInv, Calling
  <2> QED
    BY <1>1, <1>3, <2>1 DEF Progress, Goes_on
<1>4. CASE pc = "init"
  BY <1>1, <1>4 DEF Progress, Goes_on
<1> QED
  BY <1>2, <1>3, <1>4

LEMMA CallActs ==
  ASSUME FibOK, FlagsInv, NEW f \in Fibers, fib[f].pc \in {"loop", "body", "done"},
         NEW op \in Operations, NEW s \in Socks \cup {NoSock}, NEW d \in Fds \cup {NoFd},
         \/ Call(f, op, d) /\ s = fib[f].sock
         \/ Method(f, op, s, d),
         op \in {"connect", "close"} => s \in Socks
  PROVE  Moves(f) /\ Progress(f)
<1>1. ~fib[f].timed /\ ~fib[f].cancelled
  BY DEF FlagsInv, Calling
<1>2. CASE Call(f, op, d) /\ s = fib[f].sock
  BY <1>1, <1>2, CallFacts DEF Progress, OfSocket
<1>3. CASE Method(f, op, s, d)
  BY <1>1, <1>3, MethodFacts DEF Progress, OfSocket
<1> QED
  BY <1>2, <1>3

LEMMA RestActs ==
  ASSUME FibOK, NEW f \in Fibers, NEW pc \in {"loop", "body"}, Between(f, pc)
  PROVE  Moves(f) /\ Progress(f)
<1>1. fib[f].no \in Nat /\ pc \in PCs
  BY DEF FibOK, FibRec, PCs
<1>2. Moves(f) /\ fib'[f] = Rest(f, pc)
  BY <1>1, BetweenFacts
<1> QED
  BY <1>1, <1>2, RestFacts DEF Progress, OfSocket

LEMMA TryFacts ==
  ASSUME FibOK, NEW f \in Fibers, NEW b \in BOOLEAN, NEW c \in BOOLEAN,
         fib' = [fib EXCEPT ![f].pc = "try", ![f].loop = b, ![f].timed = c]
  PROVE  /\ Moves(f) /\ fib'[f].pc = "try" /\ fib'[f].no = fib[f].no /\ fib'[f].op = fib[f].op
         /\ fib'[f].fd = fib[f].fd /\ fib'[f].sock = fib[f].sock
         /\ fib'[f].cancelled = fib[f].cancelled /\ fib'[f].timed = c
<1> DEFINE q == [fib[f] EXCEPT !.pc = "try", !.loop = b, !.timed = c]
<1>1. fib[f] \in FibRec /\ fib' = [fib EXCEPT ![f] = q]
  BY DEF FibOK
<1>2. /\ q \in FibRec
      /\ q.pc = "try" /\ q.no = fib[f].no /\ q.op = fib[f].op /\ q.fd = fib[f].fd
      /\ q.sock = fib[f].sock /\ q.cancelled = fib[f].cancelled /\ q.timed = c
  BY <1>1 DEF FibRec, PCs
<1> HIDE DEF q
<1>3. fib' \in [Fibers -> FibRec] /\ fib'[f] = q /\ \A g \in Fibers : g # f => fib'[g] = fib[g]
  BY ZenonT(60), <1>1, <1>2 DEF FibOK
<1> QED
  BY <1>2, <1>3 DEF Moves

(* The calls of Hook. *)
LEMMA CallStepKinds ==
  ASSUME Types, FlagsInv, NEW f \in Fibers, CallStep(f)
  PROVE  Going_on
<1> USE DEF Types
<1>0. /\ fib[f] \in FibRec /\ fib[f].fd \in Fds \cup {NoFd}
      /\ \A r \in {"ok", "error", "again", "timeout"} : r \in Results
      /\ Calling \cup {"init", "cancelAll", "remove", "close_f"} \subseteq PCs
  BY DEF FibOK, FibRec, Results, Calling, PCs
<1>1. SUFFICES \/ ActStep(f) \/ SleepStep(f)
               \/ \E d \in Fds, e \in Event : AddStep(f, d, e)
               \/ \E d \in Fds, es \in SUBSET Event : WakeStep(d, es)
  BY DEF Going_on
<1>2. CASE Enter(f)
  <2>1. At(f, "enter") /\ UNCHANGED <<chan, queue, cpu, timers>>
    BY <1>2 DEF Enter
  <2>2. Executes(f) /\ fib[f].pc = "enter" /\ ~fib[f].timed /\ ~fib[f].cancelled
    BY SMTT(60), <2>1, AtExecutes DEF At, FlagsInv, Calling
  <2> DEFINE d == fib[f].fd
             known == d \in Fds /\ ctx[d].there
             loop == known /\ ~ctx[d].user
             timed == loop /\ EventOf(fib[f].op) \in ctx[d].timeout
  <2>3. \/ fib' = [fib EXCEPT ![f].pc = "try", ![f].loop = loop, ![f].timed = timed]
        \/ fib' = [fib EXCEPT ![f].pc = "try", ![f].loop = loop, ![f].timed = loop]
        \/ Return(f, "error")
        \/ GoOn(f, "arm") \/ GoOn(f, "cancelAll") \/ GoOn(f, "close_f")
    BY <1>2 DEF Enter
  <2>4. loop \in BOOLEAN /\ timed \in BOOLEAN
    OBVIOUS
  <2> HIDE DEF loop, timed
  <2>5. ASSUME NEW b \in BOOLEAN, NEW c \in BOOLEAN,
               fib' = [fib EXCEPT ![f].pc = "try", ![f].loop = b, ![f].timed = c]
        PROVE  Moves(f) /\ Progress(f)
    <3>1. /\ Moves(f) /\ fib'[f].pc = "try" /\ fib'[f].no = fib[f].no /\ fib'[f].op = fib[f].op
          /\ fib'[f].fd = fib[f].fd /\ fib'[f].cancelled = fib[f].cancelled
      BY Zenon, <2>5, TryFacts
    <3> QED
      <4>1. OfSocket(fib'[f])
        BY Zenon, <2>5, TryFacts DEF FlagsInv, OfSocket
      <4> QED
        BY <2>2, <3>1, <4>1 DEF Progress, Calling
  <2>6. Moves(f) /\ Progress(f)
    <3>1. CASE GoOn(f, "arm")
      BY <1>0, <2>2, <3>1, GoOnActs DEF Calling
    <3>2. CASE GoOn(f, "cancelAll") \/ GoOn(f, "close_f")
      BY <1>0, <2>2, <3>2, GoOnActs
    <3> QED
      BY Zenon, <1>0, <2>3, <2>4, <2>5, <3>1, <3>2, ReturnActs
  <2> QED
    BY <2>1, <2>2, <2>6 DEF ActStep
<1>3. ASSUME WouldBlock(f), fib[f].pc = "try" PROVE Moves(f) /\ Progress(f)
  BY <1>0, <1>3, ReturnActs, GoOnActs DEF WouldBlock, Calling
<1>4. CASE TryIo(f) \/ TryConnect(f)
  <2>1. At(f, "try") /\ UNCHANGED <<chan, queue, cpu, timers>>
    BY <1>4 DEF TryIo, TryConnect
  <2>2. Return(f, "error") \/ Return(f, "ok") \/ WouldBlock(f)
    BY <1>4 DEF TryIo, TryConnect
  <2>3. Executes(f) /\ fib[f].pc = "try"
    BY <2>1, AtExecutes DEF At
  <2> QED
    BY <1>0, <1>3, <2>1, <2>2, <2>3, ReturnActs DEF ActStep
<1>5. CASE Arm(f)
  <2>1. At(f, "arm") /\ Executes(f) /\ fib[f].pc = "arm" /\ UNCHANGED <<chan, queue>>
    BY <1>5, AtExecutes DEF Arm, At
  <2>2. CASE fib[f].op = "sleep"
    <3>1. timers' = timers \cup {Alarm(f)} /\ GoOn(f, "wait") /\ cpu' = cpu \ {Task(f)}
      BY <1>5, <2>2 DEF Arm, Suspend
    <3>2. Goes_on(f, "wait")
      BY <1>0, <3>1, GoOnFacts DEF Calling
    <3> QED
      BY <2>1, <2>2, <3>1, <3>2 DEF SleepStep
  <2>3. CASE fib[f].op # "sleep"
    <3>1. /\ timers' = IF fib[f].timed THEN timers \cup {Timeout(f)} ELSE timers
          /\ GoOn(f, "add") /\ UNCHANGED cpu
      BY <1>5, <2>3 DEF Arm
    <3>2. Moves(f) /\ Progress(f)
      BY <1>0, <2>1, <3>1, GoOnActs DEF Calling
    <3> QED
      BY <2>1, <3>1, <3>2 DEF ActStep
  <2> QED
    BY <2>2, <2>3
<1>6. CASE addEvent(f)
  <2> DEFINE d == fib[f].fd
             e == EventOf(fib[f].op)
             ok == /\ d \in Fds
                   /\ chan[d][e] = NoFiber
                   /\ Kind(d) # "closed"
                   /\ (WaitedFor(d) = {}) = (reg[d] = {})
  <2>1. At(f, "add") /\ Executes(f) /\ fib[f].pc = "add" /\ UNCHANGED queue /\ e \in Event
    BY <1>6, AtExecutes DEF addEvent, At, EventOf, Event
  <2>2. CASE ok
    <3>1. /\ chan' = [chan EXCEPT ![d][e] = f] /\ GoOn(f, "wait") /\ cpu' = cpu \ {Task(f)}
          /\ UNCHANGED timers
      BY <1>6, <2>2 DEF addEvent, Suspend
    <3>2. Goes_on(f, "wait")
      BY <1>0, <3>1, GoOnFacts DEF Calling
    <3> QED
      BY <2>1, <2>2, <3>1, <3>2 DEF AddStep
  <2>3. CASE ~ok
    <3>1. /\ timers' = timers \ {Timeout(f)} /\ UNCHANGED <<chan, cpu>>
          /\ GoOn(f, "soerror") \/ Return(f, "error")
      BY <1>6, <2>3 DEF addEvent
    <3>2. Moves(f) /\ Progress(f)
      BY <1>0, <2>1, <3>1, GoOnActs, ReturnActs DEF Calling
    <3> QED
      BY <2>1, <3>1, <3>2 DEF ActStep
  <2> QED
    BY <2>2, <2>3
<1>7. CASE Woken(f)
  <2>1. /\ At(f, "wait") /\ Executes(f) /\ fib[f].pc = "wait"
        /\ timers' = timers \ {Timeout(f)} /\ UNCHANGED <<chan, queue, cpu>>
        /\ Return(f, "timeout") \/ Return(f, "ok") \/ GoOn(f, "soerror") \/ GoOn(f, "try")
    BY <1>7, AtExecutes DEF Woken, At
  <2>2. Moves(f) /\ Progress(f)
    BY <1>0, <2>1, GoOnActs, ReturnActs DEF Calling
  <2> QED
    BY <2>1, <2>2 DEF ActStep
<1>8. CASE SoError(f)
  <2>1. /\ At(f, "soerror") /\ Executes(f) /\ UNCHANGED <<timers, chan, queue, cpu>>
        /\ Return(f, "error") \/ Return(f, "ok")
    BY <1>8, AtExecutes DEF SoError
  <2> QED
    BY <1>0, <2>1, ReturnActs DEF ActStep
<1>9. CASE CloseRemove(f) \/ CloseF(f)
  <2>1. /\ Executes(f) /\ UNCHANGED <<timers, chan, queue, cpu>>
        /\ \/ fib[f].pc = "remove" /\ GoOn(f, "close_f")
           \/ Return(f, "error") \/ Return(f, "ok")
    BY <1>9, AtExecutes DEF CloseRemove, CloseF, At
  <2>2. Moves(f) /\ Progress(f)
    BY <1>0, <2>1, GoOnActs, ReturnActs
  <2> QED
    BY <2>1, <2>2 DEF ActStep
<1>10. CASE CloseCancel(f)
  <2>1. /\ Executes(f) /\ fib[f].pc = "cancelAll" /\ GoOn(f, "remove")
        /\ cancelEvents(fib[f].fd, Event) /\ UNCHANGED <<timers, cpu>>
    BY <1>10, AtExecutes DEF CloseCancel, At
  <2>2. Moves(f) /\ Progress(f)
    BY <1>0, <2>1, GoOnActs
  <2> QED
    BY <2>1, <2>2, CancelKinds DEF ActStep, WakeStep
<1> QED
  BY <1>2, <1>4, <1>5, <1>6, <1>7, <1>8, <1>9, <1>10 DEF CallStep

(* Threads without a fiber, the timers, epoll. *)
LEMMA LoopKinds ==
  ASSUME Types, LoopStep \/ Expire \/ \E d \in Fds : Report(d)
  PROVE  Going_on
<1> USE DEF Types
<1>1. \A i \in DOMAIN queue : queue[i] \in Fiber \cup Sleep \cup Timer
  BY DEF ItemsOK
<1>2. ASSUME NEW kind, Take(kind)
      PROVE  /\ First \in DOMAIN queue /\ queue[First].kind = kind
             /\ kind = "fiber" => queue[First] \in Fiber /\ queue[First] \notin cpu
             /\ kind = "sleep" => queue[First] \in Sleep
             /\ kind = "timeout" => queue[First] \in Timer
             /\ Cardinality(cpu) < nthreads
  <2>1. /\ Takeable # {} /\ queue[First].kind = kind
        /\ First \in Takeable /\ First \in DOMAIN queue
        /\ Cardinality(cpu) < nthreads
    BY <1>2, FirstFacts DEF Take
  <2>2. queue[First].kind = "fiber" => queue[First] \notin cpu
    BY <2>1 DEF Takeable
  <2> QED
    BY <1>1, <2>1, <2>2, ItemFacts
<1>3. SUFFICES \/ \E i \in DOMAIN queue : TakeStep(i)
               \/ DropStep /\ UNCHANGED <<chan, queue>>
               \/ \E d \in Fds, es \in SUBSET Event : WakeStep(d, es)
               \/ \E t \in timers : ExpireStep(t)
  BY DEF Going_on
<1>4. CASE RunFiber
  BY <1>2, <1>4 DEF RunFiber, TakeStep
<1>5. CASE RunSleep
  BY <1>2, <1>5 DEF RunSleep, TakeStep
<1>6. CASE RunTimeout
  <2> DEFINE t == queue[First]
             live == InCall(t.f) /\ fib[t.f].no = t.no /\ ~fib[t.f].cancelled
  <2>1. /\ Take("timeout")
        /\ queue' = RemoveAt(queue, First)
        /\ cpu' = IF live THEN cpu \cup {t} ELSE cpu
        /\ fib' = IF live THEN [fib EXCEPT ![t.f].cancelled = TRUE] ELSE fib
        /\ UNCHANGED <<chan, timers>>
    BY <1>6 DEF RunTimeout
  <2>2. First \in DOMAIN queue /\ t \in Timer /\ Cardinality(cpu) < nthreads
    BY <1>2, <2>1
  <2>3. CASE live
    BY <2>1, <2>2, <2>3 DEF TakeStep
  <2>4. CASE ~live
    BY <2>1, <2>2, <2>4 DEF TakeStep
  <2> QED
    BY <2>3, <2>4
<1>7. CASE CancelTimeout
  <2>1. PICK t \in cpu : /\ t.kind = "timeout" /\ cpu' = cpu \ {t} /\ UNCHANGED <<fib, timers>>
                         /\ cancelEvents(t.fd, {t.ev})
    BY <1>7 DEF CancelTimeout
  <2>2. t \in Timer
    BY <2>1, ItemFacts DEF ItemsOK
  <2>3. DropStep
    BY <2>1, <2>2 DEF DropStep
  <2>4. {t.ev} \in SUBSET Event
    BY <2>2 DEF Timer
  <2> QED
    BY <2>1, <2>3, <2>4, CancelKinds DEF WakeStep
<1>8. CASE Expire
  BY <1>8 DEF Expire, ExpireStep
<1>9. ASSUME NEW d \in Fds, Report(d) PROVE \E es \in SUBSET Event : WakeStep(d, es)
  <2> DEFINE es == reg[d] \cap kern[d].ready
  <2>1. handleEvents(d, es) /\ UNCHANGED <<fib, cpu, timers>>
    BY <1>9 DEF Report
  <2>2. es \in SUBSET Event /\ es \subseteq WaitedFor(d)
    BY SMTT(60) DEF ChanOK
  <2>3. Woke(d, es)
    BY <2>1, <2>2 DEF handleEvents, Woke
  <2> QED
    BY <2>1, <2>2, <2>3 DEF WakeStep
<1> QED
  BY <1>4, <1>5, <1>6, <1>7, <1>8, <1>9 DEF LoopStep

LEMMA FinishedKinds ==
  ASSUME Types, FlagsInv, NEW f \in Fibers, NEW pc \in {"loop", "body"}, finished(f, pc)
  PROVE  ActStep(f)
<1> USE DEF Types
<1>1. /\ At(f, "done") /\ Executes(f) /\ fib[f].pc = "done"
      /\ UNCHANGED <<chan, timers, queue, cpu>>
      /\ \/ Between(f, pc)
         \/ fib[f].op = "connect" /\ Call(f, "close", sockfd[fib[f].sock])
  BY AtExecutes DEF finished, At
<1>2. CASE Between(f, pc)
  BY <1>1, <1>2, RestActs DEF ActStep
<1>3. CASE fib[f].op = "connect" /\ Call(f, "close", sockfd[fib[f].sock])
  <2>1. fib[f].sock \in Socks
    BY <1>3 DEF FlagsInv, OfSocket
  <2>2. sockfd[fib[f].sock] \in Fds \cup {NoFd} /\ "close" \in Operations
    BY <2>1 DEF SockOK, Operations
  <2>3. Moves(f) /\ Progress(f)
    BY <1>1, <1>3, <2>1, <2>2, CallActs
  <2> QED
    BY <1>1, <2>3 DEF ActStep
<1> QED
  BY <1>1, <1>2, <1>3

LEMMA CloseKinds ==
  ASSUME Types, FlagsInv, NEW f \in Fibers, NEW s \in Socks, close(f, s)
  PROVE  ActStep(f) \/ StandStill
<1> USE DEF Types
<1>1. /\ At(f, "body") /\ Executes(f) /\ fib[f].pc = "body"
      /\ UNCHANGED <<chan, timers, queue, cpu>>
      /\ Method(f, "close", s, sockfd[s]) \/ UNCHANGED fib
  BY AtExecutes DEF close, At
<1>2. CASE Method(f, "close", s, sockfd[s])
  <2>1. sockfd[s] \in Fds \cup {NoFd} /\ "close" \in Operations
    BY DEF SockOK, Operations
  <2>2. Moves(f) /\ Progress(f)
    BY <1>1, <1>2, <2>1, CallActs
  <2> QED
    BY <1>1, <2>2 DEF ActStep
<1> QED
  BY <1>1, <1>2 DEF StandStill

LEMMA TerminateKinds ==
  ASSUME FibOK, NEW f \in Fibers, NEW pc \in {"loop", "body"}, At(f, pc), Terminate(f),
         UNCHANGED <<chan, timers, queue>>
  PROVE  EndStep(f)
  BY AtExecutes, TerminateFacts DEF EndStep

(* The Socket that a client gets. *)
LEMMA OwnType ==
  ASSUME NEW u \in Users
  PROVE  u \in Fibers /\ Own[u] \in Socks /\ Own[u] \notin Listeners
  BY ServerAssumption DEF Users

LEMMA NewFdFree ==
  ASSUME Free # {}
  PROVE  NewFd \in Free /\ NewFd \in Fds /\ kern[NewFd].kind = "closed"
<1>1. Free \in SUBSET Nat
  BY HookAssumption DEF Free
<1>2. \E d \in Free : \A e \in Free : d <= e
  BY <1>1, LeastElement
<1>3. NewFd \in Free
  BY <1>2 DEF NewFd
<1> QED
  BY <1>3 DEF Free, Kind

LEMMA TryAcceptFacts ==
  ASSUME FibOK, NEW f \in Fibers, NEW client \in Socks, TryAccept(f, client)
  PROVE  /\ Moves(f) /\ fib'[f].pc = "accepted" /\ fib'[f].op = "accept"
         /\ fib'[f].fd = NewFd /\ fib'[f].sock = client /\ fib'[f].no = fib[f].no
         /\ fib'[f].timed = fib[f].timed /\ fib'[f].cancelled = fib[f].cancelled
<1> DEFINE d == NewFd
           q == [fib[f] EXCEPT !.pc = "accepted", !.fd = d, !.sock = client, !.loop = FALSE]
<1>1. fib[f] \in FibRec /\ fib' = [fib EXCEPT ![f] = q] /\ d \in Fds /\ fib[f].op = "accept"
  BY NewFdFree DEF FibOK, TryAccept
<1> HIDE DEF d
<1>2. /\ q \in FibRec
      /\ q.pc = "accepted" /\ q.no = fib[f].no /\ q.op = fib[f].op /\ q.fd = d
      /\ q.sock = client /\ q.cancelled = fib[f].cancelled /\ q.timed = fib[f].timed
  BY <1>1 DEF FibRec, PCs
<1> HIDE DEF q
<1>3. fib' \in [Fibers -> FibRec] /\ fib'[f] = q /\ \A g \in Fibers : g # f => fib'[g] = fib[g]
  BY <1>1, <1>2 DEF FibOK
<1> QED
  BY <1>1, <1>2, <1>3 DEF Moves, d

LEMMA AcceptKinds ==
  ASSUME Types, FlagsInv, NEW l \in Listeners, AcceptStep(l), ~handleClient(l)
  PROVE  Going_on
<1> USE DEF Types
<1> DEFINE a == Acceptor[l]
<1>1. a \in Fibers /\ l \in Socks
  BY ServerAssumption
<1>2. SUFFICES ActStep(a) \/ EndStep(a)
  BY <1>1 DEF Going_on
<1>3. CASE AcceptLoop(l)
  <2>1. At(a, "loop") /\ Executes(a) /\ fib[a].pc = "loop" /\ UNCHANGED <<chan, timers, queue>>
    BY <1>3, AtExecutes DEF AcceptLoop, At
  <2>2. (Call(a, "accept", sockfd[l]) /\ UNCHANGED cpu) \/ Terminate(a)
    BY <1>3 DEF AcceptLoop
  <2>3. sockfd[l] \in Fds \cup {NoFd} /\ "accept" \in Operations
    BY <1>1 DEF SockOK, Operations
  <2>4. CASE Call(a, "accept", sockfd[l]) /\ UNCHANGED cpu
    <3> HIDE DEF a
    <3>0. fib[a].sock \in Socks \cup {NoSock}
      BY <1>1 DEF FibOK, FibRec
    <3>1. Moves(a) /\ Progress(a)
      BY <1>1, <2>1, <2>3, <2>4, <3>0, CallActs
    <3> QED
      BY <2>1, <2>4, <3>1 DEF ActStep
  <2> QED
    BY <1>1, <2>1, <2>2, <2>4, TerminateKinds
<1>4. CASE AcceptFailed(l)
  <2>1. At(a, "done") /\ Executes(a) /\ Between(a, "loop") /\ UNCHANGED <<chan, timers, queue, cpu>>
    BY <1>4, AtExecutes DEF AcceptFailed
  <2> HIDE DEF a
  <2> QED
    BY <1>1, <2>1, RestActs DEF ActStep
<1>5. ASSUME NEW u \in Unused, TryAccept(a, Own[u]) PROVE ActStep(a)
  <2> HIDE DEF a
  <2>1. At(a, "try") /\ Executes(a) /\ UNCHANGED <<chan, timers, queue, cpu>>
    BY <1>5, AtExecutes DEF TryAccept
  <2>2. Own[u] \in Socks
    BY OwnType DEF Unused
  <2>3. Moves(a) /\ Progress(a)
    BY <1>1, <1>5, <2>2, TryAcceptFacts DEF Progress, OfSocket
  <2> QED
    BY <2>1, <2>3 DEF ActStep
<1>6. CASE Accepted(a)
  <2> HIDE DEF a
  <2>1. /\ At(a, "accepted") /\ Executes(a) /\ GoOn(a, "init") /\ UNCHANGED <<chan, timers, queue, cpu>>
    BY <1>6, AtExecutes DEF Accepted
  <2>2. "init" \in PCs
    BY DEF PCs
  <2> QED
    BY <1>1, <2>1, <2>2, GoOnActs DEF ActStep
<1> QED
  BY <1>3, <1>4, <1>5, <1>6 DEF AcceptStep

LEMMA StopKinds ==
  ASSUME Types, FlagsInv, StopStep
  PROVE  Going_on
<1> USE DEF Types
<1> DEFINE f == Stopper
<1>1. f \in Fibers /\ Listeners \subseteq Socks
  BY ServerAssumption
<1>2. CASE StopEnd
  <2>1. At(f, "loop") /\ Terminate(f) /\ UNCHANGED <<chan, timers, queue>>
    BY <1>2 DEF StopEnd
  <2> QED
    BY <1>1, <2>1, TerminateKinds DEF Going_on
<1>3. ASSUME NEW l \in Listeners, StopSocket(l) PROVE Going_on
  <2> HIDE DEF f
  <2>1. /\ At(f, "loop") /\ Executes(f) /\ fib[f].pc = "loop" /\ UNCHANGED <<timers, cpu>>
        /\ cancelEvents(sockfd[l], Event)
        /\ fib' = [fib EXCEPT ![f].pc = "body", ![f].sock = l]
    BY <1>3, AtExecutes DEF StopSocket, At, f
  <2>2. ~fib[f].timed /\ ~fib[f].cancelled /\ l \in Socks
    BY <1>1, <2>1 DEF FlagsInv, Calling
  <2> DEFINE q == [fib[f] EXCEPT !.pc = "body", !.sock = l]
  <2>a. fib[f] \in FibRec /\ fib' = [fib EXCEPT ![f] = q] /\ "body" \in PCs
    BY <1>1, <2>1 DEF FibOK, PCs
  <2>b. /\ q \in FibRec /\ q.pc = "body" /\ q.no = fib[f].no /\ q.sock = l
        /\ q.timed = fib[f].timed /\ q.cancelled = fib[f].cancelled /\ fib[f].no \in Nat
    BY <2>a, <2>2 DEF FibRec
  <2> HIDE DEF q
  <2>3. /\ Moves(f) /\ fib'[f].pc = "body" /\ fib'[f].no = fib[f].no /\ fib'[f].sock = l
        /\ fib'[f].timed = fib[f].timed /\ fib'[f].cancelled = fib[f].cancelled
        /\ fib[f].no \in Nat
    <3>1. fib' \in [Fibers -> FibRec] /\ fib'[f] = q /\ \A g \in Fibers : g # f => fib'[g] = fib[g]
      BY <1>1, <2>a, <2>b DEF FibOK
    <3> QED
      BY <2>b, <3>1 DEF Moves
  <2>4. Progress(f)
    BY <2>2, <2>3 DEF Progress, OfSocket
  <2>5. ActStep(f) \/ \E d \in Fds, es \in SUBSET Event : WakeStep(d, es)
    BY <1>1, <2>1, <2>3, <2>4, CancelKinds DEF ActStep, WakeStep
  <2> QED
    BY <1>1, <2>5 DEF Going_on
<1>4. ASSUME NEW l \in Listeners, StopClose(l) \/ StopNext(l) PROVE Going_on
  <2>1. close(f, l) \/ finished(f, "loop")
    BY <1>4 DEF StopClose, StopNext
  <2>2. ActStep(f) \/ StandStill
    BY <1>1, <2>1, CloseKinds, FinishedKinds
  <2> QED
    BY <1>1, <2>2 DEF Going_on
<1> QED
  BY <1>2, <1>3, <1>4 DEF StopStep

LEMMA UserKinds ==
  ASSUME Types, FlagsInv, NEW u \in Users, UserStep(u)
  PROVE  Going_on
<1> USE DEF Types
<1>1. u \in Fibers /\ Own[u] \in Socks
  BY OwnType
<1>2. SUFFICES ActStep(u) \/ EndStep(u) \/ StandStill
  BY <1>1 DEF Going_on
<1>3. ASSUME NEW op \in Operations, NEW s \in Socks \cup {NoSock}, NEW d \in Fds \cup {NoFd},
             Method(u, op, s, d), At(u, "body"), UNCHANGED <<chan, timers, queue, cpu>>,
             op \in {"connect", "close"} => s \in Socks
      PROVE  ActStep(u)
  <2>1. Executes(u) /\ fib[u].pc = "body"
    BY <1>3, AtExecutes DEF At
  <2>2. Moves(u) /\ Progress(u)
    BY <1>1, <1>3, <2>1, CallActs
  <2> QED
    BY <1>3, <2>1, <2>2 DEF ActStep
<1>4. {"sleep", "recv", "send", "connect"} \subseteq Operations
  BY DEF Operations
<1>5. ASSUME sleep(u) PROVE ActStep(u)
  BY <1>3, <1>4, <1>5 DEF sleep
<1>6. ASSUME NEW s \in Socks, NEW op \in {"recv", "send"}, transfer(u, s, op) PROVE ActStep(u)
  <2>1. sockfd[s] \in Fds \cup {NoFd}
    BY DEF SockOK
  <2> QED
    BY <1>3, <1>4, <1>6, <2>1 DEF transfer
<1>7. ASSUME NEW s \in Socks, connect(u, s) PROVE ActStep(u)
  <2>1. /\ At(u, "body") /\ Method(u, "connect", s, sockfd'[s])
        /\ UNCHANGED <<chan, timers, queue, cpu>>
        /\ (newSock(s, "fresh") \/ UNCHANGED sockfd)
    BY <1>7 DEF connect
  <2>2. sockfd'[s] \in Fds \cup {NoFd}
    BY <2>1, NewFdFree DEF newSock, SockOK
  <2> QED
    BY <1>3, <1>4, <2>1, <2>2
<1>8. ASSUME NEW s \in Socks, setFlags(u, s) PROVE ActStep(u)
  <2>1. /\ At(u, "body") /\ Executes(u) /\ fib[u].pc = "body"
        /\ fib' = [fib EXCEPT ![u].no = @ + 1] /\ UNCHANGED <<chan, timers, queue, cpu>>
    BY <1>8, AtExecutes DEF setFlags, At
  <2>2. ~fib[u].timed /\ ~fib[u].cancelled /\ OfSocket(fib[u])
    BY <1>1, <2>1 DEF FlagsInv, Calling
  <2>3. /\ Moves(u) /\ fib'[u].pc = "body" /\ fib'[u].no = fib[u].no + 1
        /\ fib'[u].timed = fib[u].timed /\ fib'[u].cancelled = fib[u].cancelled
        /\ fib'[u].op = fib[u].op /\ fib'[u].sock = fib[u].sock /\ fib[u].no \in Nat
    BY <1>1, <2>1 DEF FibOK, FibRec, Moves
  <2> QED
    BY <2>1, <2>2, <2>3 DEF ActStep, Progress, OfSocket
<1>9. ASSUME NEW s \in Socks, close(u, s) PROVE ActStep(u) \/ StandStill
  BY <1>1, <1>9, CloseKinds
<1>10. CASE UserCall(u)
  BY <1>1, <1>10, <1>5, <1>6, <1>7, <1>8, <1>9 DEF UserCall
<1>11. CASE UserClose(u)
  BY <1>1, <1>9, <1>11 DEF UserClose
<1>12. CASE UserReturn(u)
  BY <1>1, <1>12, FinishedKinds DEF UserReturn
<1>13. CASE UserEnd(u)
  <2>1. At(u, "body") /\ Terminate(u) /\ UNCHANGED <<chan, timers, queue>>
    BY <1>13 DEF UserEnd
  <2> QED
    BY <1>1, <2>1, TerminateKinds
<1> QED
  BY <1>10, <1>11, <1>12, <1>13 DEF UserStep

(* Who may have started by when. *)
Early == owner \in {"unbound", "binding", "bound"}
RoleInv ==
  /\ Early => \A f \in Fibers \ Users : fib[f].pc = "none"
  /\ Early /\ serving => \A f \in Users : fib[f].pc = "none"
  /\ owner # "stopped" => fib[Stopper].pc = "none"
  /\ ~serving => owner = "unbound"

LEMMA Images ==
  ASSUME NEW S, IsFiniteSet(S), NEW g
  PROVE  IsFiniteSet({g[x] : x \in S})
<1> DEFINE T == {g[x] : x \in S}
           h == [x \in S |-> g[x]]
<1>1. h \in Surjection(S, T)
  BY DEF Surjection
<1> HIDE DEF T, h
<1>2. IsFiniteSet(T)
  BY <1>1, FS_Surjection
<1> QED
  BY <1>2 DEF T

Tasks(S) == {Task(f) : f \in S}
LEMMA TasksOf ==
  ASSUME NEW S, S \subseteq Fibers, IsFiniteSet(S)
  PROVE  /\ SetToSeq(Tasks(S)) \in Seq(Fiber) /\ IsInjective(SetToSeq(Tasks(S)))
         /\ \A i \in DOMAIN SetToSeq(Tasks(S)) : \E f \in S : SetToSeq(Tasks(S))[i] = Task(f)
<1> DEFINE g == [f \in S |-> Task(f)]
           T == Tasks(S)
<1>1. T = {g[f] : f \in S}
  BY DEF Tasks
<1>2. IsFiniteSet(T) /\ T \subseteq Fiber
  <2>1. IsFiniteSet({g[f] : f \in S})
    <3> HIDE DEF g
    <3> QED
      BY Images
  <2> QED
    BY <1>1, <2>1 DEF Fiber, Tasks
<1> DEFINE s == SetToSeq(T)
<1>3. s \in Seq(T) /\ IsInjective(s) /\ Range(s) = T
  <2> HIDE DEF T
  <2> QED
    BY <1>2, SetToSeqFacts
<1> HIDE DEF s
<1>4. s \in Seq(Fiber)
  BY <1>2, <1>3
<1>5. \A i \in DOMAIN s : s[i] \in T
  BY <1>3
<1> QED
  BY <1>3, <1>4, <1>5 DEF s, Tasks

LEMMA OwnerKinds ==
  ASSUME Types, FlagsInv, RoleInv, Owner
  PROVE  \/ StandStill
         \/ \E S \in SUBSET Fibers, s \in Seq(Fiber) : StartStep(S, s)
<1> USE DEF Types
<1>1. CASE bind \/ (\E l \in Listeners : bindOne(l)) \/ bindEnd \/ destroy
  <2>1. StandStill
    BY <1>1 DEF bind, bindOne, bindEnd, destroy, Clear, StandStill, sockVars, hookVars
  <2> QED
    BY <2>1
<1>2. CASE start
  <2> DEFINE S == {Acceptor[l] : l \in socks}
             T == {Task(Acceptor[l]) : l \in socks}
             s == SetToSeq(T)
  <2>1. socks \subseteq Listeners /\ IsFiniteSet(socks)
    <3>1. socks \in SUBSET Listeners
      BY DEF OwnerOK
    <3> QED
      BY <3>1, ServerAssumption, FS_Subset
  <2>2. S \subseteq Acceptors /\ Acceptors \subseteq Fibers /\ Acceptors \cap Users = {}
    BY <2>1, ServerAssumption DEF Acceptors
  <2>3. IsFiniteSet(S)
    BY <2>1, Images
  <2>4. T = Tasks(S)
    BY DEF Tasks
  <2>5. /\ s \in Seq(Fiber) /\ IsInjective(s)
        /\ \A i \in DOMAIN s : \E f \in S : s[i] = Task(f)
    <3>1. S \subseteq Fibers
      BY <2>2
    <3> HIDE DEF S, T
    <3> QED
      BY <2>3, <2>4, <3>1, TasksOf
  <2>6. /\ queue' = queue \o s /\ UNCHANGED <<chan, timers, cpu>>
        /\ fib' = [f \in Fibers |-> IF f \in Acceptors THEN [fib[f] EXCEPT !.pc = "loop"] ELSE fib[f]]
        /\ Early
    BY <1>2 DEF start, Early
  <2>7. /\ fib' \in [Fibers -> FibRec]
        /\ \A f \in Acceptors : /\ fib'[f].pc = "loop" /\ fib'[f].timed = fib[f].timed
                                /\ fib'[f].cancelled = fib[f].cancelled
                                /\ fib'[f].op = fib[f].op /\ fib'[f].sock = fib[f].sock
        /\ \A f \in Fibers \ Acceptors : fib'[f] = fib[f]
    <3>1. \A f \in Fibers : fib[f] \in FibRec /\ [fib[f] EXCEPT !.pc = "loop"] \in FibRec
      BY DEF FibOK, FibRec, PCs
    <3>2. /\ fib' \in [Fibers -> FibRec]
          /\ \A f \in Acceptors : fib'[f] = [fib[f] EXCEPT !.pc = "loop"]
          /\ \A f \in Fibers \ Acceptors : fib'[f] = fib[f]
      BY <2>2, <2>6, <3>1
    <3>3. \A f \in Fibers : LET q == [fib[f] EXCEPT !.pc = "loop"]
                              IN  /\ q.pc = "loop" /\ q.timed = fib[f].timed
                                  /\ q.cancelled = fib[f].cancelled
                                  /\ q.op = fib[f].op /\ q.sock = fib[f].sock
      BY <3>1 DEF FibRec
    <3>4. ASSUME NEW f \in Acceptors
          PROVE  /\ fib'[f].pc = "loop" /\ fib'[f].timed = fib[f].timed
                 /\ fib'[f].cancelled = fib[f].cancelled
                 /\ fib'[f].op = fib[f].op /\ fib'[f].sock = fib[f].sock
      <4>1. f \in Fibers /\ fib'[f] = [fib[f] EXCEPT !.pc = "loop"]
        BY <2>2, <3>2
      <4> QED
        BY <3>3, <4>1
    <3> QED
      BY <3>2, <3>4
  <2>8. \A f \in Acceptors : fib[f].pc = "none" /\ ~fib[f].timed /\ ~fib[f].cancelled /\ OfSocket(fib[f])
    BY <2>2, <2>6 DEF RoleInv, FlagsInv, Calling
  <2> HIDE DEF s, S
  <2>9. StartStep(Acceptors, s)
    <3>1. \A f \in Acceptors : /\ fib[f].pc = "none" /\ fib'[f].pc \in {"loop", "body"}
                  /\ ~fib'[f].timed /\ ~fib'[f].cancelled /\ OfSocket(fib'[f])
      BY <2>7, <2>8 DEF OfSocket
    <3>2. \A i \in DOMAIN s : \E f \in Acceptors : s[i] = Task(f)
      BY <2>2, <2>5
    <3> QED
      BY <2>5, <2>6, <2>7, <3>1, <3>2 DEF StartStep
  <2> QED
    BY <2>2, <2>5, <2>9
<1>3. CASE stop
  <2>1. /\ queue' = queue \o <<Task(Stopper)>> /\ UNCHANGED <<chan, timers, cpu>>
        /\ GoOn(Stopper, "loop")
        /\ fib[Stopper].pc = "none"
    BY <1>3 DEF stop, RoleInv, ItemsOK, GoOn
  <2>2. Stopper \in Fibers
    BY ServerAssumption
  <2>3. /\ fib' \in [Fibers -> FibRec]
        /\ fib'[Stopper].pc = "loop" /\ fib'[Stopper].timed = fib[Stopper].timed
        /\ fib'[Stopper].cancelled = fib[Stopper].cancelled
        /\ fib'[Stopper].op = fib[Stopper].op /\ fib'[Stopper].sock = fib[Stopper].sock
        /\ \A f \in Fibers \ {Stopper} : fib'[f] = fib[f]
    <3>1. "loop" \in PCs
      BY DEF PCs
    <3> QED
      BY <2>1, <2>2, <3>1, GoOnFacts DEF Goes_on, Moves
  <2>4. ~fib[Stopper].timed /\ ~fib[Stopper].cancelled /\ OfSocket(fib[Stopper])
    BY <2>1, <2>2 DEF FlagsInv, Calling
  <2>5. OfSocket(fib'[Stopper])
    BY <2>3, <2>4 DEF OfSocket
  <2> DEFINE s == <<Task(Stopper)>>
  <2>6. s \in Seq(Fiber) /\ IsInjective(s) /\ \A i \in DOMAIN s : \E f \in {Stopper} : s[i] = Task(f)
    BY <2>2 DEF Fiber, IsInjective
  <2> HIDE DEF s
  <2>7. queue' = queue \o s
    BY <2>1 DEF s
  <2>8. StartStep({Stopper}, s)
    BY <2>1, <2>3, <2>4, <2>5, <2>6, <2>7 DEF StartStep
  <2> QED
    BY <2>2, <2>6, <2>8
<1> QED
  BY <1>1, <1>2, <1>3 DEF Owner

LEMMA UserStartKinds ==
  ASSUME Types, FlagsInv, UserStart
  PROVE  \E S \in SUBSET Fibers, s \in Seq(Fiber) : StartStep(S, s)
<1> USE DEF Types
<1> DEFINE s == SetToSeq({Task(u) : u \in Users})
<1>1. Users \subseteq Fibers /\ IsFiniteSet(Users)
  BY ServerAssumption
<1>2. {Task(u) : u \in Users} = Tasks(Users)
  BY DEF Tasks
<1>3. /\ s \in Seq(Fiber) /\ IsInjective(s)
      /\ \A i \in DOMAIN s : \E f \in Users : s[i] = Task(f)
  BY <1>1, <1>2, TasksOf
<1> HIDE DEF s
<1>4. /\ queue' = queue \o s /\ UNCHANGED <<chan, timers, cpu>>
      /\ fib' = [f \in Fibers |-> IF f \in Users THEN Rest(f, "body") ELSE fib[f]]
      /\ \A f \in Users : fib[f].pc = "none"
  BY DEF UserStart, s, Unused
<1>5. "body" \in PCs
  BY DEF PCs
<1>6. \A f \in Users : /\ Rest(f, "body") \in FibRec
                       /\ Rest(f, "body").pc = "body" /\ Rest(f, "body").op = "none"
                       /\ ~Rest(f, "body").timed /\ ~Rest(f, "body").cancelled
  BY <1>1, <1>5, RestFacts
<1>7. /\ fib' \in [Fibers -> FibRec]
      /\ \A f \in Users : fib'[f] = Rest(f, "body")
      /\ \A f \in Fibers \ Users : fib'[f] = fib[f]
  BY <1>1, <1>4, <1>6 DEF FibOK
<1>8. StartStep(Users, s)
  <2>1. \A f \in Users : /\ fib[f].pc = "none" /\ fib'[f].pc \in {"loop", "body"}
                         /\ ~fib'[f].timed /\ ~fib'[f].cancelled /\ OfSocket(fib'[f])
    BY <1>4, <1>6, <1>7 DEF OfSocket
  <2> QED
    BY <1>3, <1>4, <1>7, <2>1 DEF StartStep
<1> QED
  BY <1>1, <1>3, <1>8

LEMMA HandleClientKinds ==
  ASSUME Types, FlagsInv, NEW l \in Listeners, handleClient(l)
  PROVE  \E u \in Users, s \in Seq(Fiber) :
           /\ StartStep({u}, s)
           /\ u # Acceptor[l] /\ u \in Fibers
           /\ \A f \in Fibers \ {u, Acceptor[l]} : fib'[f] = fib[f]
<1> USE DEF Types
<1> DEFINE a == Acceptor[l]
<1>1. PICK u \in Unused :
         /\ fib' = [fib EXCEPT ![a] = Rest(a, "loop"), ![u].pc = "body"]
         /\ queue' = Append(queue, Task(u))
  BY DEF handleClient
<1>2. /\ At(a, "init") /\ Executes(a) /\ UNCHANGED <<chan, timers, cpu>>
      /\ a \in Fibers /\ a \in Acceptors
  BY AtExecutes, ServerAssumption DEF handleClient, Acceptors
<1>3. u \in Users /\ u \in Fibers /\ u # a /\ fib[u].pc = "none"
  BY <1>2, ServerAssumption DEF Unused
<1>4. ~fib[u].timed /\ ~fib[u].cancelled /\ OfSocket(fib[u])
  BY <1>3 DEF FlagsInv, Calling
<1> DEFINE q == Rest(a, "loop")
           r == [fib[u] EXCEPT !.pc = "body"]
<1>5. /\ q \in FibRec
      /\ q.pc = "loop" /\ q.op = "none" /\ q.no = fib[a].no
      /\ ~q.timed /\ ~q.cancelled
  <2>1. "loop" \in PCs
    BY DEF PCs
  <2> HIDE DEF a
  <2> QED
    BY <1>2, <2>1, RestFacts
<1>6. /\ r \in FibRec /\ r.pc = "body" /\ ~r.timed /\ ~r.cancelled /\ OfSocket(r)
  <2>1. /\ r \in FibRec /\ r.pc = "body" /\ r.timed = fib[u].timed
        /\ r.cancelled = fib[u].cancelled /\ r.op = fib[u].op /\ r.sock = fib[u].sock
    BY <1>3 DEF FibOK, FibRec, PCs
  <2> QED
    BY <1>4, <2>1 DEF OfSocket
<1>7. fib' = [[fib EXCEPT ![a] = q] EXCEPT ![u] = r]
  BY <1>1, <1>2, <1>3 DEF FibOK
<1> HIDE DEF q, r
<1>8. /\ fib' \in [Fibers -> FibRec] /\ fib'[a] = q /\ fib'[u] = r
      /\ \A f \in Fibers \ {u, a} : fib'[f] = fib[f]
  BY <1>2, <1>3, <1>5, <1>6, <1>7 DEF FibOK
<1>9. Progress(a) /\ fib'[a].pc = "loop" /\ fib[a].no \in Nat
  BY <1>2, <1>5, <1>8 DEF Progress, OfSocket, FibOK, FibRec
<1> DEFINE s == <<Task(u)>>
<1>10. s \in Seq(Fiber) /\ IsInjective(s) /\ \A i \in DOMAIN s : \E f \in {u} : s[i] = Task(f)
  BY <1>3 DEF Fiber, IsInjective
<1> HIDE DEF s
<1>11. queue' = queue \o s
  BY <1>1 DEF s, ItemsOK
<1>12. StartStep({u}, s)
  <2>1. /\ fib[u].pc = "none" /\ fib'[u].pc \in {"loop", "body"}
        /\ ~fib'[u].timed /\ ~fib'[u].cancelled /\ OfSocket(fib'[u])
    BY <1>3, <1>6, <1>8
  <2>2. \A f \in Fibers \ ({u} \cup {a}) : fib'[f] = fib[f]
    BY <1>8
  <2>3. a \in Fibers \ {u}
    BY <1>2, <1>3
  <2> HIDE DEF a
  <2> QED
    BY <1>2, <1>8, <1>9, <1>10, <1>11, <2>1, <2>2, <2>3 DEF StartStep
<1> QED
  BY <1>3, <1>8, <1>10, <1>12

LEMMA Kinds_of_steps ==
  ASSUME Types, FlagsInv, RoleInv, Next
  PROVE  Going_on \/ \E S \in SUBSET Fibers, s \in Seq(Fiber) : StartStep(S, s)
<1>1. CASE Owner
  BY <1>1, OwnerKinds DEF Going_on
<1>2. CASE UserStart
  BY <1>2, UserStartKinds
<1>3. CASE Threads
  <2>1. CASE LoopStep
    BY <2>1, LoopKinds
  <2>2. ASSUME NEW f \in Fibers, CallStep(f) PROVE Going_on
    BY <2>2, CallStepKinds
  <2>3. ASSUME NEW l \in Listeners, AcceptStep(l), ~handleClient(l) PROVE Going_on
    BY <2>3, AcceptKinds
  <2>4. ASSUME NEW l \in Listeners, handleClient(l)
        PROVE  \E S \in SUBSET Fibers, s \in Seq(Fiber) : StartStep(S, s)
    <3>1. PICK u \in Users, s \in Seq(Fiber) : StartStep({u}, s) /\ u \in Fibers
      BY <2>4, HandleClientKinds
    <3> QED
      BY <3>1
  <2>5. CASE StopStep
    BY <2>5, StopKinds
  <2>6. ASSUME NEW u \in Users, UserStep(u) PROVE Going_on
    BY <2>6, UserKinds
  <2> QED
    BY <1>3, <2>1, <2>2, <2>3, <2>4, <2>5, <2>6 DEF Threads
<1>4. CASE Timing \/ Reporting
  BY <1>4, LoopKinds DEF Timing, Reporting
<1>5. CASE Environment
  <2>1. StandStill
    BY <1>5 DEF Environment, Resolve, Arrive, StandStill
  <2> QED
    BY <2>1 DEF Going_on
<1> QED
  BY <1>1, <1>2, <1>3, <1>4, <1>5 DEF Next

-----------------------------------------------------------------------------
(* What a step does to a fiber, and to what is pending *)

Ended(f) == fib'[f].pc = "term" /\ fib'[f].op = "none" /\ ~fib'[f].timed /\ ~fib'[f].cancelled
Started(f) ==
  /\ fib[f].pc = "none" /\ fib'[f].pc \in {"loop", "body"}
  /\ ~fib'[f].timed /\ ~fib'[f].cancelled /\ OfSocket(fib'[f])
CalledOff(f) ==
  \E i \in DOMAIN queue :
    /\ queue[i] \in Timer /\ queue[i].f = f
    /\ InCall(f) /\ fib[f].no = queue[i].no
    /\ fib'[f] = [fib[f] EXCEPT !.cancelled = TRUE]

Change(f) ==
  \/ fib'[f] = fib[f]
  \/ Executes(f) /\ (Progress(f) \/ Ended(f))
  \/ Started(f)
  \/ CalledOff(f)

LEMMA WaitProgress ==
  ASSUME FlagsInv, NEW f \in Fibers, fib[f].pc \in Calling, Goes_on(f, "wait")
  PROVE  Moves(f) /\ Progress(f)
  BY DEF Goes_on, Progress, FlagsInv, OfSocket, Calling

LEMMA Changes ==
  ASSUME Types, FlagsInv,
         Going_on \/ \E S \in SUBSET Fibers, s \in Seq(Fiber) : StartStep(S, s)
  PROVE  FibOK' /\ \A f \in Fibers : Change(f)
<1>0. FibOK /\ ItemsOK
  BY DEF Types
<1>1. ASSUME UNCHANGED fib PROVE FibOK' /\ \A f \in Fibers : Change(f)
  BY <1>0, <1>1 DEF FibOK, Change
<1>2. ASSUME NEW f \in Fibers, Executes(f), Moves(f), Progress(f) \/ Ended(f)
      PROVE  FibOK' /\ \A g \in Fibers : Change(g)
  <2>1. FibOK' /\ \A g \in Fibers : g # f => fib'[g] = fib[g]
    BY <1>2 DEF Moves, FibOK
  <2> QED
    BY <1>2, <2>1 DEF Change
<1>3. CASE StandStill \/ (DropStep /\ UNCHANGED <<chan, queue>>) \/ \E t \in timers : ExpireStep(t)
  BY <1>1, <1>3 DEF StandStill, DropStep, ExpireStep
<1>4. ASSUME NEW f \in Fibers, ActStep(f) \/ SleepStep(f) \/ EndStep(f)
      PROVE  FibOK' /\ \A g \in Fibers : Change(g)
  <2>1. CASE ActStep(f)
    BY <1>2, <2>1 DEF ActStep
  <2>2. CASE SleepStep(f)
    BY <1>2, <2>2, WaitProgress DEF SleepStep, Calling
  <2>3. CASE EndStep(f)
    BY <1>2, <2>3 DEF EndStep, Ended
  <2> QED
    BY <1>4, <2>1, <2>2, <2>3
<1>5. ASSUME NEW f \in Fibers, NEW d \in Fds, NEW e \in Event, AddStep(f, d, e)
      PROVE  FibOK' /\ \A g \in Fibers : Change(g)
  BY <1>2, <1>5, WaitProgress DEF AddStep, Calling
<1>6. ASSUME NEW d \in Fds, NEW es \in SUBSET Event, WakeStep(d, es)
      PROVE  FibOK' /\ \A g \in Fibers : Change(g)
  BY <1>1, <1>2, <1>6 DEF WakeStep, DropStep
<1>7. ASSUME NEW i \in DOMAIN queue, TakeStep(i)
      PROVE  FibOK' /\ \A g \in Fibers : Change(g)
  <2>1. CASE UNCHANGED fib
    BY <1>1, <2>1
  <2>2. CASE /\ queue[i] \in Timer
             /\ InCall(queue[i].f) /\ fib[queue[i].f].no = queue[i].no
             /\ fib' = [fib EXCEPT ![queue[i].f].cancelled = TRUE]
    <3> DEFINE f == queue[i].f
               q == [fib[f] EXCEPT !.cancelled = TRUE]
    <3>1. f \in Fibers
      BY <2>2, ItemFacts
    <3> HIDE DEF f
    <3>2. q \in FibRec
      BY <1>0, <3>1 DEF FibOK, FibRec
    <3>3. fib' = [fib EXCEPT ![f] = q]
      BY <2>2 DEF f
    <3> HIDE DEF q
    <3>4. fib' \in [Fibers -> FibRec] /\ fib'[f] = q /\ \A g \in Fibers : g # f => fib'[g] = fib[g]
      BY <1>0, <3>1, <3>2, <3>3 DEF FibOK
    <3>5. Change(f)
      <4>1. CalledOff(f)
        BY <2>2, <3>4 DEF CalledOff, q, f
      <4> QED
        BY <4>1 DEF Change
    <3>6. \A g \in Fibers : Change(g)
      BY <3>4, <3>5 DEF Change
    <3> QED
      BY <3>4, <3>6 DEF FibOK
  <2> QED
    BY <1>7, <2>1, <2>2 DEF TakeStep
<1>8. ASSUME NEW S \in SUBSET Fibers, NEW s \in Seq(Fiber), StartStep(S, s)
      PROVE  FibOK' /\ \A g \in Fibers : Change(g)
  <2>1. fib' \in [Fibers -> FibRec] /\ \A f \in S : Started(f)
    BY <1>8 DEF StartStep, Started
  <2>2. \A f \in Fibers \ S : fib'[f] = fib[f] \/ (Executes(f) /\ Progress(f))
    BY <1>8 DEF StartStep
  <2> QED
    BY <2>1, <2>2 DEF Change, FibOK
<1> QED
  BY <1>3, <1>4, <1>5, <1>6, <1>7, <1>8 DEF Going_on

Pending == timers \cup Range(queue) \cup cpu

LEMMA ItemSeqs ==
  ASSUME NEW S, NEW s \in Seq(S)
  PROVE  /\ \A i \in DOMAIN s : /\ RemoveAt(s, i) \in Seq(S) /\ Range(RemoveAt(s, i)) \subseteq Range(s)
                                /\ s[i] \in S /\ s[i] \in Range(s)
         /\ \A x \in S : Append(s, x) \in Seq(S) /\ Range(Append(s, x)) = Range(s) \cup {x}
         /\ \A u \in Seq(S) : s \o u \in Seq(S) /\ Range(s \o u) = Range(s) \cup Range(u)
<1>1. ASSUME NEW i \in DOMAIN s
      PROVE  RemoveAt(s, i) \in Seq(S) /\ Range(RemoveAt(s, i)) \subseteq Range(s)
  <2> DEFINE r == RemoveAt(s, i)
  <2>1. r \in Seq(S) /\ \A j \in DOMAIN r : \E k \in DOMAIN s : r[j] = s[k]
    BY EraseFacts
  <2> HIDE DEF r
  <2>2. Range(r) \subseteq Range(s)
    BY <2>1 DEF Range
  <2> QED
    BY <2>1, <2>2 DEF r
<1>2. \A i \in DOMAIN s : s[i] \in S /\ s[i] \in Range(s)
  BY DEF Range
<1>3. ASSUME NEW u \in Seq(S) PROVE s \o u \in Seq(S) /\ Range(s \o u) = Range(s) \cup Range(u)
  BY ConcatFacts
<1>4. ASSUME NEW x \in S PROVE Append(s, x) \in Seq(S) /\ Range(Append(s, x)) = Range(s) \cup {x}
  <2> DEFINE u == <<x>>
  <2>1. Append(s, x) = s \o u /\ u \in Seq(S) /\ Range(u) = {x}
    BY DEF Range
  <2> HIDE DEF u
  <2> QED
    BY <1>3, <2>1
<1> QED
  BY <1>1, <1>2, <1>3, <1>4

(* The waiters of a channel, in the order they are scheduled in. *)
Woken_tasks(d, es) == [i \in DOMAIN InOrder(es) |-> Task(chan[d][InOrder(es)[i]])]

LEMMA InOrderFacts ==
  ASSUME NEW es \in SUBSET Event
  PROVE  /\ InOrder(es) \in Seq(Event) /\ IsInjective(InOrder(es))
         /\ \A i \in DOMAIN InOrder(es) : InOrder(es)[i] \in es
         /\ \A e \in es : \E i \in DOMAIN InOrder(es) : InOrder(es)[i] = e
<1> DEFINE q == InOrder(es)
<1>0. es \subseteq {"READ", "WRITE"}
  BY DEF Event
<1>1. CASE "READ" \in es /\ "WRITE" \in es
  <2>1. q = <<"READ">> \o <<"WRITE">>
    BY <1>1 DEF InOrder
  <2> HIDE DEF q
  <2>2. q \in Seq(Event) /\ DOMAIN q = {1, 2} /\ q[1] = "READ" /\ q[2] = "WRITE"
    BY <2>1 DEF Event
  <2> QED
    BY <1>0, <1>1, <2>2 DEF IsInjective, q
<1>2. CASE "READ" \in es /\ "WRITE" \notin es
  <2>1. q = <<"READ">>
    BY <1>2 DEF InOrder
  <2> HIDE DEF q
  <2>2. q \in Seq(Event) /\ DOMAIN q = {1} /\ q[1] = "READ"
    BY <2>1 DEF Event
  <2> QED
    BY <1>0, <1>2, <2>2 DEF IsInjective, q
<1>3. CASE "READ" \notin es /\ "WRITE" \in es
  <2>1. q = <<"WRITE">>
    BY <1>3 DEF InOrder
  <2> HIDE DEF q
  <2>2. q \in Seq(Event) /\ DOMAIN q = {1} /\ q[1] = "WRITE"
    BY <2>1 DEF Event
  <2> QED
    BY <1>0, <1>3, <2>2 DEF IsInjective, q
<1>4. CASE "READ" \notin es /\ "WRITE" \notin es
  <2>1. q = <<>>
    BY <1>4 DEF InOrder
  <2> HIDE DEF q
  <2>2. q \in Seq(Event) /\ DOMAIN q = {}
    BY <2>1
  <2> QED
    BY <1>0, <1>4, <2>2 DEF IsInjective, q
<1> QED
  BY <1>1, <1>2, <1>3, <1>4

LEMMA WokenTasks ==
  ASSUME ChanOK, NEW d \in Fds, NEW es \in SUBSET Event, es \subseteq WaitedFor(d)
  PROVE  /\ Woken_tasks(d, es) \in Seq(Fiber)
         /\ \A i \in DOMAIN Woken_tasks(d, es) :
              \E e \in es : chan[d][e] \in Fibers /\ Woken_tasks(d, es)[i] = Task(chan[d][e])
         /\ \A e \in es : \E i \in DOMAIN Woken_tasks(d, es) : Woken_tasks(d, es)[i] = Task(chan[d][e])
         /\ (\A e1, e2 \in es : chan[d][e1] = chan[d][e2] => e1 = e2) => IsInjective(Woken_tasks(d, es))
<1> DEFINE q == InOrder(es)
           w == Woken_tasks(d, es)
<1>1. /\ q \in Seq(Event) /\ \A i \in DOMAIN q : q[i] \in es
      /\ IsInjective(q) /\ \A e \in es : \E i \in DOMAIN q : q[i] = e
  BY InOrderFacts
<1>2. \A e \in es : chan[d][e] \in Fibers
  BY DEF ChanOK, WaitedFor
<1> HIDE DEF q
<1>3. w = [i \in DOMAIN q |-> Task(chan[d][q[i]])]
  BY DEF Woken_tasks, q
<1> HIDE DEF w
<1>4. DOMAIN q = 1..Len(q) /\ Len(q) \in Nat
  BY <1>1
<1>5. \A i \in 1..Len(q) : w[i] = Task(chan[d][q[i]]) /\ w[i] \in Fiber /\ q[i] \in es
  BY <1>1, <1>2, <1>3, <1>4 DEF Fiber
<1>6. w \in Seq(Fiber) /\ DOMAIN w = 1..Len(q)
  BY <1>3, <1>4, <1>5
<1>7. \A i \in DOMAIN w : \E e \in es : chan[d][e] \in Fibers /\ w[i] = Task(chan[d][e])
  BY <1>2, <1>5, <1>6
<1>8. \A e \in es : \E i \in DOMAIN w : w[i] = Task(chan[d][e])
  BY <1>1, <1>4, <1>5, <1>6
<1>9. ASSUME \A e1, e2 \in es : chan[d][e1] = chan[d][e2] => e1 = e2 PROVE IsInjective(w)
  <2> SUFFICES ASSUME NEW i \in 1..Len(q), NEW j \in 1..Len(q), w[i] = w[j] PROVE i = j
    BY <1>6 DEF IsInjective
  <2>1. chan[d][q[i]] = chan[d][q[j]]
    BY <1>5, ItemFacts
  <2>2. q[i] = q[j]
    BY <1>5, <1>9, <2>1
  <2> QED
    BY <1>1, <1>4, <2>2 DEF IsInjective
<1> QED
  BY <1>6, <1>7, <1>8, <1>9 DEF w

LEMMA Pendings ==
  ASSUME Types,
         Going_on \/ \E S \in SUBSET Fibers, s \in Seq(Fiber) : StartStep(S, s)
  PROVE  /\ ItemsOK'
         /\ \A x \in Pending' : \/ x \in Pending \/ x \in Fiber \cup Sleep
                                \/ \E f \in Fibers : /\ Executes(f) /\ fib[f].pc = "arm"
                                                     /\ fib[f].timed /\ x = Timeout(f)
<1> DEFINE Ok == /\ ItemsOK'
                 /\ \A x \in Pending' : \/ x \in Pending \/ x \in Fiber \cup Sleep
                                \/ \E f \in Fibers : /\ Executes(f) /\ fib[f].pc = "arm"
                                                     /\ fib[f].timed /\ x = Timeout(f)
           All == Fiber \cup Sleep \cup Timer
<1>1. /\ timers \subseteq Sleep \cup Timer /\ cpu \subseteq Fiber \cup Timer /\ queue \in Seq(All)
      /\ FibOK /\ ChanOK
  BY DEF Types, ItemsOK
<1>2. /\ \A f \in Fibers : Alarm(f) \in Sleep /\ Timeout(f) \in Timer /\ Task(f) \in Fiber
      /\ \A x \in Sleep : x.f \in Fibers
  BY <1>1, TimeoutTimer, ItemFacts DEF Fiber, Sleep
<1>3. ASSUME NEW u \in Seq(Fiber), queue' = queue \o u, timers' = timers, cpu' \subseteq cpu
      PROVE  Ok
  <2>1. u \in Seq(All)
    BY <1>3
  <2>2. queue' \in Seq(All) /\ Range(queue') = Range(queue) \cup Range(u)
    BY <1>1, <1>3, <2>1, ItemSeqs
  <2>3. Range(u) \subseteq Fiber
    BY DEF Range
  <2> QED
    BY <1>1, <1>3, <2>2, <2>3 DEF ItemsOK, Pending
<1>4. ASSUME UNCHANGED queue, cpu' \subseteq cpu,
             \/ timers' \subseteq timers
             \/ \E f \in Fibers : timers' = timers \cup {Alarm(f)}
             \/ \E f \in Fibers : /\ Executes(f) /\ fib[f].pc = "arm" /\ fib[f].timed
                                  /\ timers' = timers \cup {Timeout(f)}
      PROVE  Ok
  <2>1. ItemsOK'
    BY <1>1, <1>2, <1>4 DEF ItemsOK
  <2>2. Range(queue') = Range(queue)
    BY <1>4
  <2> QED
    BY <1>2, <1>4, <2>1, <2>2 DEF Pending
<1>5. CASE StandStill \/ (DropStep /\ UNCHANGED <<chan, queue>>)
  BY <1>4, <1>5 DEF StandStill, DropStep
<1>6. ASSUME NEW f \in Fibers, ActStep(f) \/ SleepStep(f) \/ EndStep(f)
      PROVE  Ok
  <2>1. CASE ActStep(f)
    <3>1. UNCHANGED queue /\ cpu' = cpu
      BY <2>1 DEF ActStep
    <3>2. \/ timers' \subseteq timers
          \/ /\ Executes(f) /\ fib[f].pc = "arm" /\ fib[f].timed
             /\ timers' = timers \cup {Timeout(f)}
      BY <2>1 DEF ActStep
    <3> QED
      BY <1>4, <3>1, <3>2
  <2>2. CASE SleepStep(f)
    BY <1>4, <2>2 DEF SleepStep
  <2>3. CASE EndStep(f)
    BY <1>4, <2>3 DEF EndStep
  <2> QED
    BY <1>6, <2>1, <2>2, <2>3
<1>7. ASSUME NEW f \in Fibers, NEW d \in Fds, NEW e \in Event, AddStep(f, d, e)
      PROVE  Ok
  BY <1>4, <1>7 DEF AddStep
<1>8. ASSUME NEW d \in Fds, NEW es \in SUBSET Event, WakeStep(d, es)
      PROVE  Ok
  <2>1. /\ es \subseteq WaitedFor(d) /\ queue' = queue \o Woken_tasks(d, es)
        /\ timers' = timers /\ cpu' \subseteq cpu
    BY <1>8 DEF WakeStep, Woke, DropStep, Woken_tasks
  <2>2. Woken_tasks(d, es) \in Seq(Fiber)
    BY <1>1, <2>1, WokenTasks
  <2> QED
    BY <1>3, <2>1, <2>2
<1>9. ASSUME NEW i \in DOMAIN queue, TakeStep(i)
      PROVE  Ok
  <2> DEFINE r == RemoveAt(queue, i)
  <2>1. /\ r \in Seq(All) /\ Range(r) \subseteq Range(queue)
        /\ queue[i] \in All /\ queue[i] \in Range(queue)
    BY <1>1, <1>9, ItemSeqs
  <2> HIDE DEF r
  <2>2. \A x \in All : Append(r, x) \in Seq(All) /\ Range(Append(r, x)) = Range(r) \cup {x}
    BY <2>1, ItemSeqs
  <2>3. timers' = timers
    BY <1>9 DEF TakeStep
  <2>4. ASSUME queue' = r, cpu' \subseteq cpu \cup {queue[i]}, queue[i] \in Fiber \cup Timer PROVE Ok
    BY <1>1, <2>1, <2>3, <2>4 DEF ItemsOK, Pending
  <2>5. ASSUME queue' = Append(r, Task(queue[i].f)), cpu' = cpu, queue[i] \in Sleep PROVE Ok
    <3>1. Task(queue[i].f) \in Fiber
      BY <1>2, <2>5
    <3>2. queue' \in Seq(All) /\ Range(queue') = Range(r) \cup {Task(queue[i].f)}
      BY <2>2, <2>5, <3>1
    <3> QED
      BY <1>1, <2>1, <2>3, <2>5, <3>1, <3>2 DEF ItemsOK, Pending
  <2>6. \/ queue' = r /\ cpu' \subseteq cpu \cup {queue[i]} /\ queue[i] \in Fiber \cup Timer
        \/ queue' = Append(r, Task(queue[i].f)) /\ cpu' = cpu /\ queue[i] \in Sleep
    BY <1>9 DEF TakeStep, r
  <2> QED
    BY <2>4, <2>5, <2>6
<1>10. ASSUME NEW t \in timers, ExpireStep(t)
       PROVE  Ok
  <2>1. t \in All /\ timers' \subseteq timers /\ cpu' = cpu /\ queue' = Append(queue, t)
    BY <1>1, <1>10 DEF ExpireStep
  <2>2. queue' \in Seq(All) /\ Range(queue') = Range(queue) \cup {t}
    BY <1>1, <2>1, ItemSeqs
  <2> QED
    BY <1>1, <2>1, <2>2 DEF ItemsOK, Pending
<1>11. ASSUME NEW S \in SUBSET Fibers, NEW s \in Seq(Fiber), StartStep(S, s)
       PROVE  Ok
  BY <1>3, <1>11 DEF StartStep
<1> QED
  BY <1>5, <1>6, <1>7, <1>8, <1>9, <1>10, <1>11 DEF Going_on

-----------------------------------------------------------------------------
(* A call that times out had a timeout *)

(* The timer of a call that is over has the number of an earlier one. *)
ItemInv ==
  \A t \in Pending : t \in Timer =>
    LET c == fib[t.f]
    IN /\ c.pc # "none"
       /\ c.pc # "term" => t.no <= c.no
       /\ c.pc = "enter" => t.no < c.no
       /\ c.pc \in Calling /\ t.no = c.no => c.timed /\ t.fd = c.fd /\ t.ev = EventOf(c.op)

LEMMA ItemStep ==
  ASSUME Types, FlagsInv, ItemInv,
         Going_on \/ \E S \in SUBSET Fibers, s \in Seq(Fiber) : StartStep(S, s)
  PROVE  ItemInv' /\ FlagsInv'
<1>1. FibOK /\ FibOK' /\ \A f \in Fibers : Change(f)
  BY Changes DEF Types
<1>2. \A f \in Fibers : fib[f] \in FibRec /\ fib'[f] \in FibRec
  BY <1>1 DEF FibOK
<1>3. ASSUME NEW f \in Fibers, CalledOff(f)
      PROVE  /\ fib[f].pc \in Calling /\ fib[f].timed
             /\ fib'[f].pc = fib[f].pc /\ fib'[f].op = fib[f].op /\ fib'[f].no = fib[f].no
             /\ fib'[f].fd = fib[f].fd /\ fib'[f].timed = fib[f].timed /\ fib'[f].sock = fib[f].sock
  <2>1. PICK i \in DOMAIN queue :
          /\ queue[i] \in Timer /\ queue[i].f = f
          /\ InCall(f) /\ fib[f].no = queue[i].no
          /\ fib'[f] = [fib[f] EXCEPT !.cancelled = TRUE]
    BY <1>3 DEF CalledOff
  <2>2. queue[i] \in Pending
    BY DEF Pending, Range
  <2>3. fib[f].pc \in Calling /\ fib[f].timed
    BY <2>1, <2>2 DEF ItemInv, InCall, Calling
  <2>4. /\ fib'[f].pc = fib[f].pc /\ fib'[f].op = fib[f].op /\ fib'[f].no = fib[f].no
        /\ fib'[f].fd = fib[f].fd /\ fib'[f].timed = fib[f].timed /\ fib'[f].sock = fib[f].sock
    BY <1>2, <2>1 DEF FibRec
  <2> QED
    BY <2>3, <2>4
<1>4. FlagsInv'
  <2> SUFFICES ASSUME NEW f \in Fibers
               PROVE  /\ OfSocket(fib'[f])
                      /\ fib'[f].cancelled => fib'[f].timed
                      /\ fib'[f].pc \notin Calling \cup {"accepted", "init"}
                           => ~fib'[f].timed /\ ~fib'[f].cancelled
    BY DEF FlagsInv
  <2>1. CASE fib'[f] = fib[f]
    BY <2>1 DEF FlagsInv
  <2>2. CASE Progress(f)
    <3>1. OfSocket(fib'[f])
      BY <2>2 DEF Progress
    <3>2. fib[f].pc = "enter" => ~fib[f].timed /\ ~fib[f].cancelled
      BY DEF FlagsInv, Calling
    <3>3. fib[f].cancelled => fib[f].timed
      BY DEF FlagsInv
    <3> QED
      BY <2>2, <3>1, <3>2, <3>3 DEF Progress
  <2>3. CASE Ended(f) \/ Started(f)
    BY <2>3 DEF Ended, Started, OfSocket
  <2>4. CASE CalledOff(f)
    BY <1>3, <2>4 DEF FlagsInv, OfSocket
  <2> QED
    BY <1>1, <2>1, <2>2, <2>3, <2>4 DEF Change
<1>5. ItemInv'
  <2> DEFINE Good(t, c) == /\ c.pc # "none"
                           /\ c.pc # "term" => t.no <= c.no
                           /\ c.pc = "enter" => t.no < c.no
                           /\ c.pc \in Calling /\ t.no = c.no
                                => c.timed /\ t.fd = c.fd /\ t.ev = EventOf(c.op)
  <2> SUFFICES ASSUME NEW t \in Pending', t \in Timer
               PROVE  Good(t, fib'[t.f])
    BY DEF ItemInv
  <2> DEFINE f == t.f
  <2>0. SUFFICES Good(t, fib'[f])
    OBVIOUS
  <2>1. f \in Fibers /\ t.no \in Nat /\ t.kind = "timeout"
    BY DEF Timer
  <2>2. \/ t \in Pending
        \/ Executes(f) /\ fib[f].pc = "arm" /\ fib[f].timed /\ t = Timeout(f)
    <3>1. t \notin Fiber \cup Sleep
      BY <2>1, ItemFacts
    <3>2. \A g \in Fibers : Timeout(g).f = g
      BY DEF Timeout
    <3> QED
      BY <3>1, <3>2, Pendings
  <2>3. Good(t, fib[f])
    <3>1. CASE t \in Pending
      BY <3>1 DEF ItemInv
    <3>2. CASE fib[f].pc = "arm" /\ fib[f].timed /\ t = Timeout(f)
      <4>1. t.no = fib[f].no /\ t.fd = fib[f].fd /\ t.ev = EventOf(fib[f].op)
        BY <3>2 DEF Timeout
      <4> HIDE DEF f
      <4> QED
        BY <2>1, <3>2, <4>1
    <3> QED
      BY <2>2, <3>1, <3>2
  <2>4. fib[f].no \in Nat /\ fib'[f].no \in Nat
    BY <1>2, <2>1 DEF FibRec
  <2> HIDE DEF f
  <2>5. CASE fib'[f] = fib[f]
    BY <2>3, <2>5
  <2>6. CASE Executes(f) /\ Progress(f)
    <3>1. fib[f].pc \notin {"none", "term"}
      BY <2>6 DEF Executes
    <3>2. t.no <= fib[f].no
      BY <2>3, <3>1
    <3>3. CASE /\ fib'[f].pc = "enter" /\ fib'[f].no = fib[f].no + 1
      BY <2>1, <2>4, <3>2, <3>3 DEF Calling
    <3>4. CASE /\ fib'[f].pc \in {"loop", "body", "done", "cancelAll", "remove", "close_f"}
               /\ fib'[f].no >= fib[f].no
      BY <2>1, <2>4, <3>2, <3>4 DEF Calling
    <3>5. CASE /\ fib'[f].pc \in {"accepted", "init"}
               /\ fib'[f].no = fib[f].no
      BY <2>1, <2>4, <3>2, <3>5 DEF Calling
    <3>6. CASE /\ fib'[f].pc \in Calling
               /\ fib'[f].no = fib[f].no /\ fib'[f].op = fib[f].op /\ fib'[f].fd = fib[f].fd
               /\ \/ fib[f].pc \in Calling /\ fib'[f].timed = fib[f].timed
                  \/ fib[f].pc = "enter"
      <4>1. fib[f].pc = "enter" => t.no # fib'[f].no
        BY <2>1, <2>3, <2>4, <3>6
      <4>2. fib'[f].pc \notin {"none", "term", "enter"}
        BY <3>6 DEF Calling
      <4> QED
        BY <2>3, <3>2, <3>6, <4>1, <4>2
    <3> QED
      BY <2>6, <3>3, <3>4, <3>5, <3>6 DEF Progress
  <2>7. CASE Ended(f)
    BY <2>7 DEF Ended, Calling
  <2>8. CASE Started(f)
    BY <2>3, <2>8 DEF Started
  <2>9. CASE CalledOff(f)
    BY <1>3, <2>1, <2>3, <2>9
  <2> QED
    BY <1>1, <2>1, <2>5, <2>6, <2>7, <2>8, <2>9 DEF Change
<1> QED
  BY <1>4, <1>5

-----------------------------------------------------------------------------
(* The types of the rest of the state *)

ChanType == chan \in [Fds -> [Event -> Fibers \cup {NoFiber}]]
RegOK == reg \in [Fds -> SUBSET Event] /\ \A d \in Fds : reg[d] \subseteq WaitedFor(d)
HookOK == KernOK /\ RegOK /\ HistOK

LEMMA ChanAndCpu ==
  ASSUME Types,
         Going_on \/ \E S \in SUBSET Fibers, s \in Seq(Fiber) : StartStep(S, s)
  PROVE  ChanType' /\ IsFiniteSet(cpu') /\ Cardinality(cpu') <= nthreads
<1>1. ChanType /\ IsFiniteSet(cpu) /\ Cardinality(cpu) <= nthreads /\ nthreads \in Nat
  BY DEF Types, ChanOK, ChanType, CpuOK
<1>2. Cardinality(cpu) \in Nat
  BY <1>1, FS_CardinalityType
<1>3. ASSUME cpu' \subseteq cpu PROVE IsFiniteSet(cpu') /\ Cardinality(cpu') <= nthreads
  <2>1. cpu' \in SUBSET cpu
    BY <1>3
  <2>2. IsFiniteSet(cpu') /\ Cardinality(cpu') <= Cardinality(cpu)
    BY <1>1, <2>1, FS_Subset
  <2>3. Cardinality(cpu') \in Nat
    BY <2>2, FS_CardinalityType
  <2> QED
    BY <1>1, <1>2, <2>2, <2>3
<1>4. ASSUME NEW x, cpu' = cpu \cup {x}, Cardinality(cpu) < nthreads
      PROVE  IsFiniteSet(cpu') /\ Cardinality(cpu') <= nthreads
  <2>1. IsFiniteSet(cpu \cup {x})
        /\ Cardinality(cpu \cup {x}) = IF x \in cpu THEN Cardinality(cpu) ELSE Cardinality(cpu) + 1
    BY <1>1, FS_AddElement
  <2> QED
    BY <1>1, <1>2, <1>4, <2>1
<1>5. \/ cpu' \subseteq cpu
      \/ \E x : cpu' = cpu \cup {x} /\ Cardinality(cpu) < nthreads
  <2>1. ASSUME NEW i \in DOMAIN queue, TakeStep(i)
        PROVE  cpu' = cpu \/ \E x : cpu' = cpu \cup {x} /\ Cardinality(cpu) < nthreads
    BY <2>1 DEF TakeStep
  <2> QED
    BY <2>1 DEF Going_on, StandStill, DropStep, ActStep, SleepStep, EndStep, AddStep, WakeStep,
                ExpireStep, StartStep
<1>6. ChanType'
  <2>1. CASE UNCHANGED chan
    BY <1>1, <2>1 DEF ChanType
  <2>2. ASSUME NEW f \in Fibers, NEW d \in Fds, NEW e \in Event, AddStep(f, d, e) PROVE ChanType'
    BY <1>1, <2>2 DEF AddStep, ChanType
  <2>3. ASSUME NEW d \in Fds, NEW es \in SUBSET Event, WakeStep(d, es) PROVE ChanType'
    <3>1. chan' = [chan EXCEPT ![d] = [e \in Event |-> IF e \in es THEN NoFiber ELSE @[e]]]
      BY <2>3 DEF WakeStep, Woke
    <3>2. [e \in Event |-> IF e \in es THEN NoFiber ELSE chan[d][e]] \in [Event -> Fibers \cup {NoFiber}]
      BY <1>1 DEF ChanType
    <3> QED
      BY <1>1, <3>1, <3>2 DEF ChanType
  <2> QED
    BY <2>1, <2>2, <2>3 DEF Going_on, StandStill, DropStep, ActStep, SleepStep, EndStep, TakeStep,
                ExpireStep, StartStep
<1> QED
  BY <1>3, <1>4, <1>5, <1>6

LEMMA RegSame ==
  ASSUME RegOK, UNCHANGED <<chan, reg>>
  PROVE  RegOK'
  BY DEF RegOK, WaitedFor

LEMMA RegCancel ==
  ASSUME ChanType, ChanType', RegOK, NEW d, NEW es \in SUBSET Event, cancelEvents(d, es)
  PROVE  RegOK'
<1>1. CASE UNCHANGED <<chan, reg>>
  BY <1>1, RegSame
<1>2. ASSUME NEW k \in Fds, NEW ks \in SUBSET Event, handleEvents(k, ks) PROVE RegOK'
  <2>1. /\ chan' = [chan EXCEPT ![k] = [e \in Event |-> IF e \in ks THEN NoFiber ELSE @[e]]]
        /\ reg' = [reg EXCEPT ![k] = WaitedFor(k) \ ks]
    BY <1>2 DEF handleEvents
  <2>2. WaitedFor(k) \ ks \in SUBSET Event
    BY DEF WaitedFor
  <2>3. reg' \in [Fds -> SUBSET Event]
    BY <2>1, <2>2 DEF RegOK
  <2>4. ASSUME NEW j \in Fds PROVE reg'[j] \subseteq WaitedFor(j)'
    <3>1. CASE j = k
      BY <2>1, <3>1 DEF WaitedFor, ChanType, RegOK
    <3>2. CASE j # k
      BY <2>1, <3>2 DEF WaitedFor, ChanType, RegOK
    <3> QED
      BY <3>1, <3>2
  <2> QED
    BY <2>3, <2>4 DEF RegOK
<1> QED
  BY <1>1, <1>2 DEF cancelEvents

LEMMA OpenType ==
  ASSUME KernOK, NEW d \in Fds, NEW kind \in Kinds, NEW s \in Socks \cup {NoSock}, Open(d, kind, s)
  PROVE  KernOK'
<1>1. getFdCtx(d) \in CtxRec
  BY DEF getFdCtx, FdCtx, NoCtx, CtxRec, KernOK
<1>2. [kind |-> kind, nonblock |-> ~ctx[d].there, ready |-> kern[d].ready, sock |-> s] \in KernRec
  BY DEF KernOK, KernRec, CtxRec
<1> QED
  BY <1>1, <1>2 DEF Open, KernOK

LEMMA ClosedTypes ==
  ClosedFd \in KernRec /\ NoCtx \in CtxRec
  BY DEF ClosedFd, NoCtx, KernRec, CtxRec, Kinds

LEMMA CallState ==
  ASSUME Types, ChanType', NEW f \in Fibers, CallStep(f)
  PROVE  nthreads' = nthreads /\ HookOK'
<1>1. /\ KernOK /\ RegOK /\ HistOK /\ ChanType
      /\ fib[f] \in FibRec /\ fib[f].fd \in Fds \cup {NoFd} /\ fib[f].op \in Operations
  BY DEF Types, ChanOK, RegOK, ChanType, FibOK, FibRec
<1> DEFINE d == fib[f].fd
<1>2. CASE Enter(f) \/ Arm(f) \/ Woken(f) \/ SoError(f)
  <2>1. UNCHANGED <<nthreads, kern, ctx, chan, reg, history>>
    BY <1>2 DEF Enter, Arm, Woken, SoError
  <2> QED
    BY <1>1, <2>1, RegSame DEF HookOK, KernOK, HistOK, history
<1>3. CASE TryIo(f)
  <2>1. /\ UNCHANGED <<nthreads, ctx, chan, reg, history>>
        /\ \/ UNCHANGED kern
           \/ d \in Fds /\ kern' = [kern EXCEPT ![d].ready = @ \ {EventOf(fib[f].op)}]
    BY <1>3 DEF TryIo, Kind
  <2>2. kern' \in [Fds -> KernRec]
    BY <1>1, <2>1 DEF KernOK, KernRec
  <2> QED
    BY <1>1, <2>1, <2>2, RegSame DEF HookOK, KernOK, HistOK, history
<1>4. CASE TryConnect(f)
  <2>1. /\ UNCHANGED <<nthreads, ctx, chan, reg, history>>
        /\ \/ UNCHANGED kern
           \/ d \in Fds /\ kern' = [kern EXCEPT ![d].kind = "connecting"]
           \/ d \in Fds /\ kern' = [kern EXCEPT ![d].kind = "stream"]
    BY <1>4 DEF TryConnect, Kind
  <2>2. kern' \in [Fds -> KernRec]
    BY <1>1, <2>1 DEF KernOK, KernRec, Kinds
  <2> QED
    BY <1>1, <2>1, <2>2, RegSame DEF HookOK, KernOK, HistOK, history
<1>5. CASE addEvent(f)
  <2> DEFINE e == EventOf(fib[f].op)
  <2>1. /\ UNCHANGED <<nthreads, kern, ctx, stale>>
        /\ raced' \in {raced, raced \cup {f}} /\ misled' \in {misled, misled \cup {f}}
        /\ \/ UNCHANGED <<chan, reg>>
           \/ /\ d \in Fds /\ chan' = [chan EXCEPT ![d][e] = f]
              /\ reg' = [reg EXCEPT ![d] = @ \cup {e}]
    BY <1>5 DEF addEvent
  <2>2. e \in Event
    BY DEF EventOf, Event
  <2>3. RegOK'
    <3>1. CASE UNCHANGED <<chan, reg>>
      BY <1>1, <3>1, RegSame
    <3>2. CASE /\ d \in Fds /\ chan' = [chan EXCEPT ![d][e] = f]
               /\ reg' = [reg EXCEPT ![d] = @ \cup {e}]
      <4> HIDE DEF e, d
      <4>1. reg' \in [Fds -> SUBSET Event]
        BY <1>1, <2>2, <3>2 DEF RegOK
      <4>2. f # NoFiber
        BY HookAssumption
      <4>3. ASSUME NEW j \in Fds PROVE reg'[j] \subseteq WaitedFor(j)'
        <5>1. CASE j = d
          BY <1>1, <2>2, <3>2, <4>2, <5>1 DEF WaitedFor, ChanType, RegOK
        <5>2. CASE j # d
          BY <1>1, <2>2, <3>2, <5>2 DEF WaitedFor, ChanType, RegOK
        <5> QED
          BY <5>1, <5>2
      <4> QED
        BY <4>1, <4>3 DEF RegOK
    <3> QED
      BY <2>1, <3>1, <3>2
  <2> QED
    BY <1>1, <2>1, <2>3 DEF HookOK, KernOK, HistOK
<1>6. CASE CloseCancel(f)
  <2>1. /\ UNCHANGED <<nthreads, kern, ctx, raced, stale>>
        /\ cancelEvents(d, Event) /\ misled' = misled \cup Waiters(d)
    BY <1>6 DEF CloseCancel
  <2>2. Waiters(d) \subseteq Fibers
    BY <1>1 DEF Waiters, ChanType
  <2>3. RegOK'
    BY <1>1, <2>1, RegCancel
  <2> QED
    BY <1>1, <2>1, <2>2, <2>3 DEF HookOK, KernOK, HistOK
<1>7. CASE CloseRemove(f)
  <2>1. /\ ctx' = [ctx EXCEPT ![d] = NoCtx] /\ stale' = stale \ {d}
        /\ UNCHANGED <<nthreads, kern, chan, reg, raced, misled>>
    BY <1>7 DEF CloseRemove
  <2>2. ctx' \in [Fds -> CtxRec]
    BY <1>1, <2>1, ClosedTypes DEF KernOK
  <2> QED
    BY <1>1, <2>1, <2>2, RegSame DEF HookOK, KernOK, HistOK
<1>8. CASE CloseF(f)
  <2>1. /\ kern' = IF d \in Fds THEN [kern EXCEPT ![d] = ClosedFd] ELSE kern
        /\ reg' = IF d \in Fds THEN [reg EXCEPT ![d] = {}] ELSE reg
        /\ misled' \subseteq misled \cup Fibers
        /\ stale' = IF d \in Fds /\ ctx[d].there THEN stale \cup {d} ELSE stale
        /\ UNCHANGED <<nthreads, ctx, chan, raced>>
    BY <1>8 DEF CloseF, Forget
  <2>2. kern' \in [Fds -> KernRec]
    BY <1>1, <2>1, ClosedTypes DEF KernOK
  <2>3. RegOK'
    BY <1>1, <2>1 DEF RegOK, WaitedFor
  <2> QED
    BY <1>1, <2>1, <2>2, <2>3 DEF HookOK, KernOK, HistOK
<1> QED
  BY <1>2, <1>3, <1>4, <1>5, <1>6, <1>7, <1>8 DEF CallStep

LEMMA HookSame ==
  ASSUME Types, UNCHANGED <<kern, ctx, chan, reg, history>>
  PROVE  HookOK'
<1>1. KernOK /\ RegOK /\ HistOK
  BY DEF Types, ChanOK, RegOK
<1> QED
  BY <1>1, RegSame DEF HookOK, KernOK, HistOK, history

LEMMA LoopState ==
  ASSUME Types, ChanType', LoopStep \/ Expire \/ \E d \in Fds : Report(d)
  PROVE  nthreads' = nthreads /\ HookOK'
<1>1. /\ KernOK /\ RegOK /\ HistOK /\ ChanType /\ ItemsOK
  BY DEF Types, ChanOK, RegOK, ChanType
<1>2. CASE RunFiber \/ RunSleep \/ RunTimeout \/ Expire
  BY <1>2, HookSame DEF RunFiber, RunSleep, RunTimeout, Expire
<1>3. CASE CancelTimeout
  <2>1. PICK t \in cpu : /\ t.kind = "timeout" /\ cancelEvents(t.fd, {t.ev})
                         /\ misled' \subseteq misled \cup Fibers
                         /\ UNCHANGED <<nthreads, kern, ctx, raced, stale>>
    BY <1>3 DEF CancelTimeout
  <2>2. {t.ev} \in SUBSET Event
    BY <1>1, <2>1, ItemFacts DEF ItemsOK, Timer
  <2>3. RegOK'
    BY <1>1, <2>1, <2>2, RegCancel
  <2> QED
    BY <1>1, <2>1, <2>3 DEF HookOK, KernOK, HistOK
<1>4. ASSUME NEW d \in Fds, Report(d) PROVE nthreads' = nthreads /\ HookOK'
  <2> DEFINE es == reg[d] \cap kern[d].ready
  <2>1. handleEvents(d, es) /\ UNCHANGED <<nthreads, kern, ctx, history>>
    BY <1>4 DEF Report
  <2>2. es \in SUBSET Event /\ es \subseteq WaitedFor(d) /\ es # {}
    BY <1>1, <1>4 DEF RegOK, Report
  <2>3. reg' \in [Fds -> SUBSET Event] /\ \A j \in Fds : reg'[j] \subseteq WaitedFor(j)'
    <3>1. /\ chan' = [chan EXCEPT ![d] = [e \in Event |-> IF e \in es THEN NoFiber ELSE @[e]]]
          /\ reg' = [reg EXCEPT ![d] = WaitedFor(d) \ es]
      BY <2>1 DEF handleEvents
    <3> HIDE DEF es
    <3>2. reg' \in [Fds -> SUBSET Event]
      BY <1>1, <3>1 DEF RegOK, WaitedFor
    <3>3. ASSUME NEW j \in Fds PROVE reg'[j] \subseteq WaitedFor(j)'
      <4>1. CASE j = d
        BY <1>1, <3>1, <4>1 DEF WaitedFor, ChanType, RegOK
      <4>2. CASE j # d
        BY <1>1, <3>1, <4>2 DEF WaitedFor, ChanType, RegOK
      <4> QED
        BY <4>1, <4>2
    <3> QED
      BY SMTT(60), <3>2, <3>3
  <2> QED
    BY <1>1, <2>1, <2>3 DEF HookOK, RegOK, KernOK, HistOK, history
<1> QED
  BY <1>2, <1>3, <1>4 DEF LoopStep

LEMMA SockSame ==
  ASSUME Types, UNCHANGED <<sockfd, conn>>
  PROVE  SockOK'
  BY DEF Types, SockOK

LEMMA OwnerSame ==
  ASSUME Types, UNCHANGED serverVars
  PROVE  OwnerOK'
  BY DEF Types, OwnerOK, serverVars

AllOK == nthreads' = nthreads /\ HookOK' /\ SockOK' /\ OwnerOK'

LEMMA FinishedState ==
  ASSUME Types, FlagsInv, NEW f \in Fibers, NEW pc, finished(f, pc)
  PROVE  nthreads' = nthreads /\ HookOK' /\ SockOK'
<1>1. /\ UNCHANGED <<nthreads, kern, ctx, chan, reg>>
      /\ raced' = raced \ {f} /\ misled' = misled \ {f} /\ UNCHANGED stale
  BY DEF finished, Fresh
<1>2. HookOK'
  <2>1. KernOK /\ RegOK /\ HistOK
    BY DEF Types, ChanOK, RegOK
  <2> QED
    BY <1>1, <2>1, RegSame DEF HookOK, KernOK, HistOK
<1>3. SockOK'
  <2>1. /\ sockfd' = sockfd \/ sockfd' = [sockfd EXCEPT ![fib[f].sock] = NoFd]
        /\ conn' = conn \/ \E b \in BOOLEAN : conn' = [conn EXCEPT ![fib[f].sock] = b]
    BY DEF finished, Closed
  <2> QED
    BY <2>1 DEF Types, SockOK
<1> QED
  BY <1>1, <1>2, <1>3

LEMMA CloseState ==
  ASSUME Types, NEW f \in Fibers, NEW s \in Socks, close(f, s)
  PROVE  nthreads' = nthreads /\ HookOK' /\ SockOK'
<1>1. /\ UNCHANGED <<nthreads, kern, ctx, chan, reg, history, sockfd>>
      /\ conn' = [conn EXCEPT ![s] = FALSE]
  BY DEF close
<1> QED
  BY <1>1, HookSame DEF Types, SockOK

LEMMA NewSockState ==
  ASSUME Types, NEW s \in Socks, NEW kind \in Kinds, newSock(s, kind)
  PROVE  KernOK' /\ sockfd' \in [Socks -> Fds \cup {NoFd}]
<1>1. NewFd \in Fds /\ Open(NewFd, kind, s) /\ sockfd' = [sockfd EXCEPT ![s] = NewFd]
  BY NewFdFree DEF newSock
<1>2. KernOK /\ SockOK
  BY DEF Types
<1>3. KernOK'
  BY <1>1, <1>2, OpenType
<1> QED
  BY <1>1, <1>2, <1>3 DEF SockOK

LEMMA ClearState ==
  ASSUME Types, NEW hooked \in BOOLEAN, Clear(hooked)
  PROVE  nthreads' = nthreads /\ HookOK' /\ SockOK' /\ socks' = {}
<1> DEFINE ds == {sockfd[l] : l \in socks} \cap Fds
<1>1. /\ kern' = [d \in Fds |-> IF d \in ds THEN ClosedFd ELSE kern[d]]
      /\ ctx' = [d \in Fds |-> IF d \in ds /\ hooked THEN NoCtx ELSE ctx[d]]
      /\ stale' = IF hooked THEN stale \ ds ELSE stale \cup ds
      /\ sockfd' = [s \in Socks |-> IF s \in socks THEN NoFd ELSE sockfd[s]]
      /\ socks' = {}
      /\ UNCHANGED <<nthreads, chan, reg, raced, misled, conn>>
  BY DEF Clear
<1>2. ds \subseteq Fds
  OBVIOUS
<1> HIDE DEF ds
<1>3. KernOK /\ RegOK /\ HistOK /\ SockOK
  BY DEF Types, ChanOK, RegOK
<1>4. KernOK'
  BY <1>1, <1>3, ClosedTypes DEF KernOK
<1>5. RegOK'
  BY <1>1, <1>3, RegSame
<1>6. HistOK'
  BY <1>1, <1>2, <1>3 DEF HistOK
<1>7. SockOK'
  BY <1>1, <1>3 DEF SockOK
<1> QED
  BY <1>1, <1>4, <1>5, <1>6, <1>7 DEF HookOK

LEMMA OwnerState ==
  ASSUME Types, Owner \/ UserStart
  PROVE  AllOK
<1> USE DEF AllOK
<1>0. KernOK /\ RegOK /\ HistOK /\ SockOK /\ OwnerOK
  BY DEF Types, ChanOK, RegOK
<1>1. CASE bind
  <2>1. /\ UNCHANGED <<nthreads, kern, ctx, chan, reg, history, sockfd, conn>>
    BY <1>1 DEF bind, sockVars, hookVars
  <2>2. OwnerOK'
    BY <1>0, <1>1 DEF bind, OwnerOK
  <2> QED
    BY <2>1, <2>2, HookSame, SockSame
<1>2. ASSUME NEW l \in Listeners, bindOne(l) PROVE AllOK
  <2>1. l \in Socks /\ "listen" \in Kinds
    BY ServerAssumption DEF Kinds
  <2>2. /\ UNCHANGED <<nthreads, chan, reg, history, conn>>
        /\ newSock(l, "listen") \/ UNCHANGED <<kern, ctx, sockfd>>
    BY <1>2 DEF bindOne
  <2>3. KernOK' /\ sockfd' \in [Socks -> Fds \cup {NoFd}]
    <3>1. CASE newSock(l, "listen")
      BY <2>1, <3>1, NewSockState
    <3>2. CASE UNCHANGED <<kern, ctx, sockfd>>
      BY <1>0, <3>2 DEF KernOK, SockOK
    <3> QED
      BY <2>2, <3>1, <3>2
  <2>4. OwnerOK'
    BY <1>0, <1>2 DEF bindOne, OwnerOK
  <2>5. HookOK' /\ SockOK'
    BY <1>0, <2>2, <2>3, RegSame DEF HookOK, HistOK, SockOK, history
  <2> QED
    BY <2>2, <2>4, <2>5
<1>3. CASE bindEnd
  <2>1. CASE fails # {}
    <3>1. owner' = "unbound" /\ Clear(TRUE) /\ UNCHANGED <<serving, running, fails, todo>>
      BY <1>3, <2>1 DEF bindEnd
    <3> QED
      BY <1>0, <3>1, ClearState DEF OwnerOK
  <2>2. CASE fails = {}
    <3>1. /\ UNCHANGED <<nthreads, kern, ctx, chan, reg, history, sockfd, conn>>
          /\ owner' = "bound" /\ UNCHANGED <<serving, running, fails, todo, socks>>
      BY <1>3, <2>2 DEF bindEnd, sockVars, hookVars
    <3> QED
      BY <1>0, <3>1, HookSame, SockSame DEF OwnerOK
  <2> QED
    BY <2>1, <2>2
<1>4. CASE destroy
  <2>1. PICK hooked \in BOOLEAN : Clear(hooked)
    BY <1>4 DEF destroy
  <2>2. owner' = "unbound" /\ UNCHANGED <<serving, running, fails, todo>>
    BY <1>4 DEF destroy
  <2> QED
    BY <1>0, <2>1, <2>2, ClearState DEF OwnerOK
<1>5. CASE start \/ stop
  <2>1. /\ UNCHANGED <<nthreads, kern, ctx, chan, reg, history, sockfd, conn>>
        /\ UNCHANGED <<serving, socks, fails, todo>>
        /\ owner' \in {"started", "stopped"} /\ running' \in BOOLEAN
    BY <1>5 DEF start, stop
  <2> QED
    BY <1>0, <2>1, HookSame, SockSame DEF OwnerOK
<1>6. CASE UserStart
  <2>1. UNCHANGED <<nthreads, kern, ctx, chan, reg, history, sockfd, conn, serverVars>>
    BY <1>6 DEF UserStart
  <2> QED
    BY <2>1, HookSame, SockSame, OwnerSame
<1> QED
  BY <1>1, <1>2, <1>3, <1>4, <1>5, <1>6 DEF Owner

LEMMA AcceptState ==
  ASSUME Types, FlagsInv, NEW l \in Listeners, AcceptStep(l)
  PROVE  AllOK
<1> USE DEF AllOK
<1> DEFINE a == Acceptor[l]
<1>0. KernOK /\ RegOK /\ HistOK /\ SockOK /\ OwnerOK /\ FibOK
  BY DEF Types, ChanOK, RegOK
<1>1. a \in Fibers /\ fib[a] \in FibRec /\ fib[a].fd \in Fds \cup {NoFd} /\ "stream" \in Kinds
  BY <1>0, ServerAssumption DEF FibOK, FibRec, Kinds
<1> HIDE DEF a
<1>2. CASE AcceptLoop(l)
  <2>1. UNCHANGED <<nthreads, kern, ctx, chan, reg, history, sockfd, conn, serverVars>>
    BY <1>2 DEF AcceptLoop
  <2> QED
    BY <2>1, HookSame, SockSame, OwnerSame
<1>3. CASE AcceptFailed(l)
  <2>1. /\ UNCHANGED <<nthreads, kern, ctx, chan, reg, sockfd, conn, serverVars>>
        /\ raced' = raced \ {a} /\ misled' = misled \ {a} /\ UNCHANGED stale
    BY <1>3 DEF AcceptFailed, Fresh, a
  <2>2. HookOK'
    BY <1>0, <2>1, RegSame DEF HookOK, KernOK, HistOK
  <2> QED
    BY <2>1, <2>2, SockSame, OwnerSame
<1>4. CASE handleClient(l)
  <2> DEFINE d == fib[a].fd
             s == fib[a].sock
  <2>1. PICK u \in Unused : Own[u] = s
    BY <1>4 DEF handleClient, a
  <2>2. /\ init(s, d) /\ setTimeout(d, "READ") /\ Fresh(a)
        /\ UNCHANGED <<nthreads, kern, chan, reg, serverVars>>
    BY <1>4 DEF handleClient, setRecvTimeout, a
  <2>3. s \in Socks
    BY <2>1, OwnType DEF Unused
  <2>4. SockOK'
    BY <1>0, <1>1, <2>2, <2>3 DEF init, SockOK
  <2>5. ctx' \in [Fds -> CtxRec]
    <3>1. CASE UNCHANGED ctx
      BY <1>0, <3>1 DEF KernOK
    <3>2. CASE d \in Fds /\ ctx' = [ctx EXCEPT ![d].timeout = @ \cup {"READ"}]
      <4> DEFINE q == [ctx[d] EXCEPT !.timeout = @ \cup {"READ"}]
      <4>1. q \in CtxRec
        BY <1>0, <3>2 DEF KernOK, CtxRec, Event
      <4>2. ctx' = [ctx EXCEPT ![d] = q]
        BY <3>2
      <4> HIDE DEF q
      <4> QED
        BY <1>0, <3>2, <4>1, <4>2 DEF KernOK
    <3> QED
      BY <2>2, <3>1, <3>2 DEF setTimeout
  <2>6. HookOK'
    BY <1>0, <2>2, <2>5, RegSame DEF HookOK, KernOK, HistOK, Fresh
  <2> QED
    BY <2>2, <2>4, <2>6, OwnerSame
<1>5. ASSUME NEW u \in Unused, TryAccept(a, Own[u]), UNCHANGED serverVars PROVE AllOK
  <2> DEFINE d == fib[a].fd
             client == [kind |-> "stream", nonblock |-> FALSE, ready |-> {"WRITE"}, sock |-> Own[u]]
  <2>1. /\ kern' = [kern EXCEPT ![d].ready = {}, ![NewFd] = client]
        /\ UNCHANGED <<nthreads, ctx, chan, reg, history, sockfd, conn>>
        /\ Free # {}
    BY <1>5 DEF TryAccept
  <2>2. NewFd \in Fds /\ Own[u] \in Socks
    BY <2>1, NewFdFree, OwnType DEF Unused
  <2>3. client \in KernRec
    BY <2>2 DEF KernRec, Kinds, Event
  <2> DEFINE k == [kern EXCEPT ![d].ready = {}]
  <2>4. k \in [Fds -> KernRec]
    BY ZenonT(60), <1>0 DEF KernOK, KernRec
  <2>5. kern' = [k EXCEPT ![NewFd] = client]
    BY <2>1
  <2> HIDE DEF k, client
  <2>6. KernOK'
    BY <1>0, <2>1, <2>2, <2>3, <2>4, <2>5 DEF KernOK
  <2> QED
    BY <1>0, <1>5, <2>1, <2>6, RegSame, SockSame, OwnerSame DEF HookOK, HistOK, history
<1>6. CASE Accepted(a) /\ UNCHANGED serverVars
  <2>1. /\ Open(fib[a].fd, "stream", fib[a].sock) /\ fib[a].sock \in Socks \cup {NoSock}
        /\ UNCHANGED <<nthreads, chan, reg, history, sockfd, conn>>
    BY <1>1, <1>6 DEF Accepted, FibRec
  <2>2. KernOK'
    <3>1. CASE fib[a].fd \in Fds
      BY <1>0, <1>1, <2>1, <3>1, OpenType
    <3>2. CASE fib[a].fd \notin Fds
      BY <1>0, <2>1, <3>2 DEF Open, KernOK
    <3> QED
      BY <3>1, <3>2
  <2> QED
    BY <1>0, <1>6, <2>1, <2>2, RegSame, SockSame, OwnerSame DEF HookOK, HistOK, history
<1> QED
  BY <1>2, <1>3, <1>4, <1>5, <1>6 DEF AcceptStep, a

LEMMA StopState ==
  ASSUME Types, FlagsInv, ChanType', StopStep
  PROVE  AllOK
<1> USE DEF AllOK
<1>0. /\ KernOK /\ RegOK /\ HistOK /\ SockOK /\ OwnerOK /\ ChanType
      /\ Stopper \in Fibers /\ Listeners \subseteq Socks
  BY ServerAssumption DEF Types, ChanOK, RegOK, ChanType
<1>1. CASE StopEnd
  <2>1. UNCHANGED <<nthreads, kern, ctx, chan, reg, history, sockfd, conn, serverVars>>
    BY <1>1 DEF StopEnd
  <2> QED
    BY <2>1, HookSame, SockSame, OwnerSame
<1>2. ASSUME NEW l \in Listeners, StopSocket(l) PROVE AllOK
  <2>1. /\ UNCHANGED <<nthreads, kern, ctx, history, sockfd, conn, serverVars>>
        /\ cancelEvents(sockfd[l], Event)
    BY <1>2 DEF StopSocket
  <2>2. RegOK'
    BY <1>0, <2>1, RegCancel
  <2> QED
    BY <1>0, <2>1, <2>2, SockSame, OwnerSame DEF HookOK, KernOK, HistOK, history
<1>3. ASSUME NEW l \in Listeners, StopClose(l) PROVE AllOK
  BY <1>0, <1>3, CloseState, OwnerSame DEF StopClose
<1>4. ASSUME NEW l \in Listeners, StopNext(l) PROVE AllOK
  <2>1. nthreads' = nthreads /\ HookOK' /\ SockOK'
    BY <1>0, <1>4, FinishedState DEF StopNext
  <2>2. OwnerOK'
    BY <1>0, <1>4 DEF StopNext, OwnerOK
  <2> QED
    BY <2>1, <2>2
<1> QED
  BY <1>1, <1>2, <1>3, <1>4 DEF StopStep

LEMMA FlagState ==
  ASSUME KernOK, HistOK, NEW d, NEW flag \in BOOLEAN, fcntl(d, flag) \/ ioctl(d, flag)
  PROVE  KernOK' /\ stale' \subseteq Fds
<1>1. /\ d \in Fds /\ kern[d] \in KernRec /\ ctx[d] \in CtxRec
      /\ \E b \in BOOLEAN : SetNonblock(d, b)
      /\ ctx' = IF ctx[d].there THEN [ctx EXCEPT ![d].user = flag] ELSE ctx
  <2>1. d \in Fds
    BY DEF fcntl, ioctl
  <2>2. kern[d] \in KernRec /\ ctx[d] \in CtxRec
    BY <2>1 DEF KernOK
  <2>3. (IF ctx[d].there THEN ctx[d].sys ELSE flag) \in BOOLEAN
    BY <2>2 DEF CtxRec
  <2> QED
    BY <2>1, <2>2, <2>3 DEF fcntl, ioctl
<1>2. PICK b \in BOOLEAN : SetNonblock(d, b)
  BY <1>1
<1>3. kern' \in [Fds -> KernRec]
  <2> DEFINE q == [kern[d] EXCEPT !.nonblock = b]
  <2>1. q \in KernRec
    BY <1>1 DEF KernRec
  <2>2. kern' = kern \/ kern' = [kern EXCEPT ![d] = q]
    BY <1>2 DEF SetNonblock
  <2> HIDE DEF q
  <2> QED
    BY <1>1, <2>1, <2>2 DEF KernOK
<1>4. ctx' \in [Fds -> CtxRec]
  <2> DEFINE q == [ctx[d] EXCEPT !.user = flag]
  <2>1. q \in CtxRec
    BY <1>1 DEF CtxRec
  <2>2. ctx' = ctx \/ ctx' = [ctx EXCEPT ![d] = q]
    BY <1>1
  <2> HIDE DEF q
  <2> QED
    BY <1>1, <2>1, <2>2 DEF KernOK
<1>5. stale' \subseteq Fds
  BY <1>1 DEF fcntl, ioctl, HistOK
<1> QED
  BY <1>3, <1>4, <1>5 DEF KernOK

LEMMA UserState ==
  ASSUME Types, FlagsInv, NEW u \in Users, UserStep(u)
  PROVE  AllOK
<1> USE DEF AllOK
<1>0. KernOK /\ RegOK /\ HistOK /\ SockOK /\ u \in Fibers /\ Own[u] \in Socks /\ "fresh" \in Kinds
  BY OwnType DEF Types, ChanOK, RegOK, Kinds
<1>1. ASSUME sleep(u) \/ \E s \in Socks, op \in {"recv", "send"} : transfer(u, s, op)
      PROVE  nthreads' = nthreads /\ HookOK' /\ SockOK'
  <2>1. UNCHANGED <<nthreads, kern, ctx, chan, reg, history, sockfd, conn>>
    BY <1>1 DEF sleep, transfer
  <2> QED
    BY <2>1, HookSame, SockSame
<1>2. ASSUME NEW s \in Socks, connect(u, s) PROVE nthreads' = nthreads /\ HookOK' /\ SockOK'
  <2>1. /\ UNCHANGED <<nthreads, chan, reg, history, conn>>
        /\ newSock(s, "fresh") \/ UNCHANGED <<kern, ctx, sockfd>>
    BY <1>2 DEF connect
  <2>2. KernOK' /\ sockfd' \in [Socks -> Fds \cup {NoFd}]
    <3>1. CASE newSock(s, "fresh")
      BY <1>0, <3>1, NewSockState
    <3>2. CASE UNCHANGED <<kern, ctx, sockfd>>
      BY <1>0, <3>2 DEF KernOK, SockOK
    <3> QED
      BY <2>1, <3>1, <3>2
  <2> QED
    BY <1>0, <2>1, <2>2, RegSame DEF HookOK, HistOK, SockOK, history
<1>3. ASSUME NEW s \in Socks, close(u, s) PROVE nthreads' = nthreads /\ HookOK' /\ SockOK'
  BY <1>0, <1>3, CloseState
<1>4. ASSUME NEW s \in Socks, setFlags(u, s) PROVE nthreads' = nthreads /\ HookOK' /\ SockOK'
  <2>1. PICK flag \in BOOLEAN : fcntl(sockfd[s], flag) \/ ioctl(sockfd[s], flag)
    BY <1>4 DEF setFlags
  <2>2. UNCHANGED <<nthreads, chan, reg, raced, misled, sockfd, conn>>
    BY <1>4 DEF setFlags
  <2>3. KernOK' /\ stale' \subseteq Fds
    BY <1>0, <2>1, FlagState
  <2> QED
    BY <1>0, <2>2, <2>3, RegSame, SockSame DEF HookOK, HistOK
<1>5. CASE UserCall(u)
  <2>1. UNCHANGED serverVars
    BY <1>5 DEF UserCall
  <2>2. \/ sleep(u) \/ \E s \in Socks, op \in {"recv", "send"} : transfer(u, s, op)
        \/ \E s \in Socks : connect(u, s) \/ close(u, s) \/ setFlags(u, s)
    BY <1>0, <1>5 DEF UserCall
  <2> QED
    BY <1>1, <1>2, <1>3, <1>4, <2>1, <2>2, OwnerSame
<1>6. CASE UserClose(u)
  BY <1>0, <1>3, <1>6, OwnerSame DEF UserClose
<1>7. CASE UserReturn(u)
  BY <1>0, <1>7, FinishedState, OwnerSame DEF UserReturn
<1>8. CASE UserEnd(u)
  <2>1. UNCHANGED <<nthreads, kern, ctx, chan, reg, history, sockfd, conn, serverVars>>
    BY <1>8 DEF UserEnd
  <2> QED
    BY <2>1, HookSame, SockSame, OwnerSame
<1> QED
  BY <1>5, <1>6, <1>7, <1>8 DEF UserStep

LEMMA KernelState ==
  ASSUME Types, NEW d \in Fds, Arrive(d) \/ Resolve(d)
  PROVE  nthreads' = nthreads /\ HookOK'
<1>0. KernOK /\ RegOK /\ HistOK /\ kern[d] \in KernRec
  BY DEF Types, ChanOK, RegOK, KernOK
<1>1. UNCHANGED <<nthreads, ctx, chan, reg, history>>
  BY DEF Arrive, Resolve
<1>2. \E k \in Kinds, es \in SUBSET Event : kern' = [kern EXCEPT ![d] = [kern[d] EXCEPT !.kind = k, !.ready = es]]
  <2>1. CASE Arrive(d)
    <3>1. PICK f \in Fibers : kern' = [kern EXCEPT ![d].ready = @ \cup {EventOf(fib[f].op)}]
      BY <2>1 DEF Arrive
    <3> DEFINE es == kern[d].ready \cup {EventOf(fib[f].op)}
    <3>2. es \in SUBSET Event /\ kern[d].kind \in Kinds
      BY <1>0 DEF KernRec, EventOf, Event
    <3>3. [kern[d] EXCEPT !.ready = es] = [kern[d] EXCEPT !.kind = kern[d].kind, !.ready = es]
      BY <1>0 DEF KernRec
    <3>4. kern' = [kern EXCEPT ![d] = [kern[d] EXCEPT !.ready = es]]
      BY <3>1
    <3> HIDE DEF es
    <3>5. kern' = [kern EXCEPT ![d] = [kern[d] EXCEPT !.kind = kern[d].kind, !.ready = es]]
      BY <3>3, <3>4
    <3> QED
      BY Zenon, <3>2, <3>5
  <2>2. CASE Resolve(d)
    <3>1. \/ kern' = [kern EXCEPT ![d] = [kern[d] EXCEPT !.kind = "stream", !.ready = {"WRITE"}]]
          \/ kern' = [kern EXCEPT ![d] = [kern[d] EXCEPT !.kind = "refused", !.ready = Event]]
      BY <1>0, <2>2 DEF Resolve, KernOK
    <3>2. "stream" \in Kinds /\ "refused" \in Kinds /\ {"WRITE"} \in SUBSET Event
      BY DEF Kinds, Event
    <3> QED
      BY Zenon, <3>1, <3>2
  <2> QED
    BY Zenon, <2>1, <2>2
<1>3. PICK k \in Kinds, es \in SUBSET Event : kern' = [kern EXCEPT ![d] = [kern[d] EXCEPT !.kind = k, !.ready = es]]
  BY Zenon, <1>2
<1>4. [kern[d] EXCEPT !.kind = k, !.ready = es] \in KernRec
  BY <1>0 DEF KernRec
<1>5. kern' \in [Fds -> KernRec]
  BY <1>0, <1>3, <1>4 DEF KernOK
<1> QED
  BY <1>0, <1>1, <1>5, RegSame DEF HookOK, KernOK, HistOK, history

LEMMA NextState ==
  ASSUME Types, FlagsInv, ChanType', Next
  PROVE  AllOK
<1> USE DEF AllOK
<1>1. CASE Owner \/ UserStart
  BY <1>1, OwnerState
<1>2. CASE Threads
  <2>1. CASE LoopStep /\ Outer
    BY <2>1, LoopState, SockSame, OwnerSame DEF Outer
  <2>2. ASSUME NEW f \in Fibers, CallStep(f) /\ Outer PROVE AllOK
    BY <2>2, CallState, SockSame, OwnerSame DEF Outer
  <2> QED
    BY <1>2, <2>1, <2>2, AcceptState, StopState, UserState DEF Threads
<1>3. CASE Timing \/ Reporting
  <2>1. (Expire \/ \E d \in Fds : Report(d)) /\ Outer
    BY <1>3 DEF Timing, Reporting
  <2> QED
    BY <2>1, LoopState, SockSame, OwnerSame DEF Outer
<1>4. CASE Environment
  <2>1. Outer /\ \E d \in Fds : Arrive(d) \/ Resolve(d)
    BY <1>4 DEF Environment
  <2> QED
    BY <2>1, KernelState, SockSame, OwnerSame DEF Outer
<1> QED
  BY <1>1, <1>2, <1>3, <1>4 DEF Next

(* Nothing but StartStep starts a fiber. *)
LEMMA Quiet ==
  ASSUME Types, FlagsInv, Going_on, NEW f \in Fibers, fib[f].pc = "none"
  PROVE  fib'[f].pc = "none"
<1>1. CASE UNCHANGED fib
  BY <1>1
<1>2. ASSUME NEW g \in Fibers, Executes(g), Moves(g) PROVE fib'[f].pc = "none"
  BY <1>2 DEF Executes, Moves
<1>3. ASSUME NEW i \in DOMAIN queue, TakeStep(i) PROVE fib'[f].pc = "none"
  <2>1. CASE /\ InCall(queue[i].f)
             /\ fib' = [fib EXCEPT ![queue[i].f].cancelled = TRUE]
    <3>1. queue[i].f # f
      BY <2>1 DEF InCall
    <3> QED
      BY <2>1, <3>1 DEF Types, FibOK
  <2> QED
    BY <1>1, <1>3, <2>1 DEF TakeStep
<1> QED
  BY <1>1, <1>2, <1>3 DEF Going_on, StandStill, DropStep, ActStep, SleepStep, EndStep, AddStep,
              WakeStep, ExpireStep, Goes_on

LEMMA RoleSame ==
  ASSUME RoleInv, UNCHANGED <<owner, serving>>,
         \A f \in Fibers : fib[f].pc = "none" => fib'[f].pc = "none"
  PROVE  RoleInv'
<1>1. Stopper \in Fibers /\ Users \subseteq Fibers
  BY ServerAssumption
<1> QED
  BY <1>1 DEF RoleInv, Early

LEMMA RoleStep ==
  ASSUME Types, FlagsInv, RoleInv, Next
  PROVE  RoleInv'
<1>0. /\ Stopper \in Fibers /\ Stopper \notin Users /\ Stopper \notin Acceptors
      /\ Acceptors \cap Users = {} /\ Acceptors \subseteq Fibers /\ FibOK
  BY ServerAssumption DEF Types, Acceptors
<1>1. ASSUME Going_on, UNCHANGED <<owner, serving>> PROVE RoleInv'
  BY <1>1, Quiet, RoleSame
<1>2. CASE Owner
  <2>1. CASE bind \/ (\E l \in Listeners : bindOne(l)) \/ bindEnd \/ destroy
    <3>1. /\ UNCHANGED <<fib, serving>>
          /\ owner' \in {"unbound", "binding", "bound"}
          /\ serving \/ owner # "unbound"
          /\ owner \in {"unbound", "binding", "bound"}
      BY <2>1 DEF bind, bindOne, bindEnd, destroy, Clear, sockVars, hookVars
    <3> QED
      BY <3>1 DEF RoleInv, Early
  <2>2. CASE start
    <3>1. /\ owner = "bound" /\ owner' = "started" /\ UNCHANGED serving
          /\ fib'[Stopper] = fib[Stopper]
      BY <1>0, <2>2 DEF start
    <3> QED
      BY <3>1 DEF RoleInv, Early
  <2>3. CASE stop
    BY <2>3 DEF stop, RoleInv, Early
  <2> QED
    BY <1>2, <2>1, <2>2, <2>3 DEF Owner
<1>3. CASE UserStart
  <2>1. /\ ~serving /\ UNCHANGED <<owner, serving>>
        /\ \A f \in Fibers \ Users : fib'[f] = fib[f]
    BY <1>3 DEF UserStart, serverVars
  <2> QED
    BY <1>0, <2>1 DEF RoleInv, Early
<1>4. ASSUME NEW l \in Listeners, handleClient(l) PROVE RoleInv'
  <2> DEFINE a == Acceptor[l]
  <2>1. PICK u \in Users : u \in Fibers /\ \A f \in Fibers \ {u, a} : fib'[f] = fib[f]
    BY <1>4, HandleClientKinds
  <2>2. a \in Acceptors
    BY DEF Acceptors
  <2>3. fib[a].pc # "none" /\ UNCHANGED <<owner, serving>>
    BY <1>4 DEF handleClient, At, serverVars
  <2>4. fib'[Stopper] = fib[Stopper]
    BY <1>0, <2>1, <2>2
  <2>5. ~Early
    BY <1>0, <2>2, <2>3 DEF RoleInv
  <2> QED
    BY <2>3, <2>4, <2>5 DEF RoleInv, Early
<1>5. CASE Threads
  <2>1. CASE (LoopStep \/ \E f \in Fibers : CallStep(f)) /\ Outer
    BY <1>1, <2>1, LoopKinds, CallStepKinds DEF Outer, serverVars
  <2>2. ASSUME NEW l \in Listeners, AcceptStep(l), ~handleClient(l) PROVE RoleInv'
    <3>1. UNCHANGED <<owner, serving>>
      BY <2>2 DEF AcceptStep, AcceptLoop, AcceptFailed, serverVars
    <3> QED
      BY <1>1, <2>2, <3>1, AcceptKinds
  <2>3. CASE StopStep
    <3>1. UNCHANGED <<owner, serving>>
      BY <2>3 DEF StopStep, StopEnd, StopSocket, StopClose, StopNext, serverVars
    <3> QED
      BY <1>1, <2>3, <3>1, StopKinds
  <2>4. ASSUME NEW u \in Users, UserStep(u) PROVE RoleInv'
    <3>1. UNCHANGED <<owner, serving>>
      BY <2>4 DEF UserStep, UserCall, UserClose, UserReturn, UserEnd, serverVars
    <3> QED
      BY <1>1, <2>4, <3>1, UserKinds
  <2> QED
    BY <1>4, <1>5, <2>1, <2>2, <2>3, <2>4 DEF Threads
<1>6. CASE Timing \/ Reporting
  BY <1>1, <1>6, LoopKinds DEF Timing, Reporting, Outer, serverVars
<1>7. CASE Environment
  <2>1. UNCHANGED <<fib, owner, serving>>
    BY <1>7 DEF Environment, Resolve, Arrive, Outer, serverVars
  <2> QED
    BY <2>1, RoleSame
<1> QED
  BY <1>2, <1>3, <1>5, <1>6, <1>7 DEF Next

-----------------------------------------------------------------------------
(* What always holds *)

Basic == Types /\ FlagsInv /\ RoleInv /\ ItemInv

LEMMA InitTypes ==
  ASSUME Init
  PROVE  Types /\ FlagsInv /\ RoleInv /\ Pending = {} /\ \A f \in Fibers : fib[f].pc = "none"
<1>1. /\ nthreads \in Pools /\ fib = [f \in Fibers |-> Idle] /\ kern = [d \in Fds |-> ClosedFd]
      /\ ctx = [d \in Fds |-> NoCtx] /\ chan = [d \in Fds |-> NoWaiter] /\ reg = [d \in Fds |-> {}]
      /\ timers = {} /\ queue = <<>> /\ cpu = {} /\ raced = {} /\ misled = {} /\ stale = {}
      /\ sockfd = [s \in Socks |-> NoFd] /\ conn = [s \in Socks |-> FALSE]
      /\ serving \in BOOLEAN /\ running = FALSE /\ socks = {} /\ fails = {} /\ todo = {}
      /\ owner = "unbound"
  BY DEF Init, SocketInit, HookInit
<1>2. Idle \in FibRec /\ Idle.pc = "none" /\ ~Idle.timed /\ ~Idle.cancelled /\ OfSocket(Idle)
  BY DEF Idle, FibRec, PCs, Operations, Results, OfSocket
<1>3. FibOK
  BY <1>1, <1>2 DEF FibOK
<1>4. KernOK
  BY <1>1, ClosedTypes DEF KernOK
<1>5. ChanOK
  BY <1>1 DEF ChanOK, NoWaiter
<1>6. ItemsOK
  BY <1>1 DEF ItemsOK
<1>7. CpuOK
  <2>1. nthreads \in Nat \ {0}
    BY <1>1, HookAssumption
  <2>2. IsFiniteSet({}) /\ Cardinality({}) = 0
    BY FS_EmptySet
  <2> QED
    BY <1>1, <2>1, <2>2 DEF CpuOK
<1>8. SockOK /\ HistOK /\ OwnerOK
  BY <1>1 DEF SockOK, HistOK, OwnerOK
<1>9. \A f \in Fibers : fib[f] = Idle
  BY <1>1
<1>10. Types /\ FlagsInv
  BY <1>2, <1>3, <1>4, <1>5, <1>6, <1>7, <1>8, <1>9 DEF Types, FlagsInv
<1>11. RoleInv
  <2>1. Stopper \in Fibers /\ Users \subseteq Fibers
    BY ServerAssumption
  <2> QED
    BY <1>1, <1>2, <1>9, <2>1 DEF RoleInv, Early
<1>12. Pending = {}
  BY <1>1 DEF Pending, Range
<1> QED
  BY <1>2, <1>9, <1>10, <1>11, <1>12

LEMMA BasicStep ==
  ASSUME Basic, Next
  PROVE  Basic'
<1>1. /\ Types /\ FlagsInv /\ RoleInv /\ ItemInv
      /\ Going_on \/ \E S \in SUBSET Fibers, s \in Seq(Fiber) : StartStep(S, s)
  BY Kinds_of_steps DEF Basic
<1>2. FibOK' /\ ItemsOK' /\ ItemInv' /\ FlagsInv' /\ RoleInv'
  BY <1>1, Changes, Pendings, ItemStep, RoleStep
<1>3. ChanType' /\ IsFiniteSet(cpu') /\ Cardinality(cpu') <= nthreads
  BY <1>1, ChanAndCpu
<1>4. AllOK
  BY <1>1, <1>3, NextState
<1>5. CpuOK'
  BY <1>1, <1>3, <1>4 DEF Types, CpuOK, AllOK
<1>6. KernOK' /\ ChanOK' /\ SockOK' /\ HistOK' /\ OwnerOK'
  BY <1>3, <1>4 DEF AllOK, HookOK, RegOK, ChanType, ChanOK
<1> QED
  BY <1>2, <1>5, <1>6 DEF Basic, Types

LEMMA BasicAlways == Spec => []Basic
<1>1. Init => Basic
  BY InitTypes DEF Basic, ItemInv
<1>2. Basic /\ [Next]_vars => Basic'
  <2>1. CASE UNCHANGED vars
    BY <2>1 DEF vars, sockVars, hookVars, serverVars, history, Basic, Types, FibOK, KernOK, ChanOK,
                ItemsOK, CpuOK, SockOK, HistOK, OwnerOK, WaitedFor, FlagsInv, RoleInv, Early,
                ItemInv, Pending, OfSocket, Range, Task, Alarm
  <2> QED
    BY <2>1, BasicStep
<1> QED
  BY <1>1, <1>2, PTL DEF Spec

(* TimesOutOnlyIfTimed: do_io looks at the flag of its own timer_info, and  *)
(* the callback of a timer finds its own call by a weak_ptr.               *)

-----------------------------------------------------------------------------
(* Whose step changes a fiber *)

LEMMA OthersStand ==
  ASSUME FibOK, NEW g \in Fibers, NEW f \in Fibers, f # g
  PROVE  /\ \A pc : GoOn(g, pc) => fib'[f] = fib[f]
         /\ \A r : Return(g, r) => fib'[f] = fib[f]
         /\ \A pc : Between(g, pc) => fib'[f] = fib[f]
         /\ \A op, d : Call(g, op, d) => fib'[f] = fib[f]
         /\ \A op, s, d : Method(g, op, s, d) => fib'[f] = fib[f]
         /\ Terminate(g) => fib'[f] = fib[f]
  BY ZenonT(60) DEF FibOK, GoOn, Return, Between, Call, Method, Terminate

LEMMA CallOthers ==
  ASSUME FibOK, NEW g \in Fibers, NEW f \in Fibers, f # g, CallStep(g)
  PROVE  fib'[f] = fib[f]
<1>1. CASE Enter(g)
  <2>1. \/ \E b, c : fib' = [fib EXCEPT ![g].pc = "try", ![g].loop = b, ![g].timed = c]
        \/ \E r : Return(g, r)
        \/ \E pc : GoOn(g, pc)
    BY Zenon, <1>1 DEF Enter
  <2> QED
    BY Zenon, <2>1, OthersStand DEF FibOK
<1>2. CASE TryIo(g) \/ TryConnect(g) \/ SoError(g) \/ CloseF(g)
  BY <1>2, OthersStand DEF TryIo, TryConnect, SoError, CloseF, WouldBlock
<1>3. CASE Arm(g) \/ addEvent(g) \/ Woken(g) \/ CloseCancel(g) \/ CloseRemove(g)
  BY <1>3, OthersStand DEF Arm, addEvent, Suspend, Woken, CloseCancel, CloseRemove
<1> QED
  BY <1>1, <1>2, <1>3 DEF CallStep

LEMMA FinishedOthers ==
  ASSUME FibOK, NEW g \in Fibers, NEW f \in Fibers, f # g, NEW pc, finished(g, pc)
  PROVE  fib'[f] = fib[f]
  BY OthersStand DEF finished

LEMMA Movers ==
  ASSUME Basic, Next, NEW f \in Fibers, fib'[f] # fib[f]
  PROVE  \/ CallStep(f) /\ Outer
         \/ RunTimeout /\ Outer /\ fib'[f] = [fib[f] EXCEPT !.cancelled = TRUE]
         \/ fib[f].pc = "none" /\ (Owner \/ UserStart \/ \E l \in Listeners : handleClient(l))
         \/ \E l \in Listeners : f = Acceptor[l] /\ AcceptStep(l)
         \/ f = Stopper /\ StopStep
         \/ f \in Users /\ UserStep(f)
<1>0. FibOK /\ FlagsInv /\ RoleInv /\ Types
  BY DEF Basic, Types
<1>1. CASE Owner
  <2>1. fib[f].pc = "none"
    <3>1. CASE StandStill
      BY <3>1 DEF StandStill
    <3>2. ASSUME NEW S \in SUBSET Fibers, NEW s \in Seq(Fiber), StartStep(S, s), Owner
          PROVE  fib[f].pc = "none"
      <4>1. CASE start
        <5>1. f \in Acceptors /\ Early
          BY <1>0, <4>1 DEF start, Early
        <5> QED
          BY <1>0, <5>1, ServerAssumption DEF RoleInv
      <4>2. CASE stop
        <5>1. f = Stopper /\ owner # "stopped"
          BY <1>0, <4>2 DEF stop, FibOK
        <5> QED
          BY <1>0, <5>1 DEF RoleInv
      <4>3. CASE bind \/ (\E l \in Listeners : bindOne(l)) \/ bindEnd \/ destroy
        BY <4>3 DEF bind, bindOne, bindEnd, destroy, Clear, sockVars, hookVars
      <4> QED
        BY <3>2, <4>1, <4>2, <4>3 DEF Owner
    <3> QED
      BY <1>0, <1>1, <3>1, <3>2, OwnerKinds
  <2> QED
    BY <1>1, <2>1
<1>2. CASE UserStart
  <2>1. f \in Users /\ Unused = Users
    BY <1>0, <1>2 DEF UserStart
  <2> QED
    BY <1>2, <2>1 DEF Unused
<1>3. CASE Threads
  <2>1. CASE LoopStep /\ Outer
    <3>1. RunTimeout
      BY <2>1 DEF LoopStep, RunFiber, RunSleep, CancelTimeout
    <3>2. \E g : fib' = [fib EXCEPT ![g].cancelled = TRUE]
      BY <3>1 DEF RunTimeout
    <3>3. fib'[f] = [fib[f] EXCEPT !.cancelled = TRUE]
      BY <1>0, <3>2 DEF FibOK
    <3> QED
      BY <2>1, <3>1, <3>3
  <2>2. ASSUME NEW g \in Fibers, CallStep(g) /\ Outer PROVE CallStep(f) /\ Outer
    BY <1>0, <2>2, CallOthers
  <2>3. ASSUME NEW l \in Listeners, AcceptStep(l), f # Acceptor[l]
        PROVE  fib[f].pc = "none" /\ handleClient(l)
    <3>0. Acceptor[l] \in Fibers
      BY ServerAssumption
    <3>1. ASSUME handleClient(l) PROVE fib[f].pc = "none"
      <4>1. PICK u \in Unused : fib' = [fib EXCEPT ![Acceptor[l]] = Rest(Acceptor[l], "loop"), ![u].pc = "body"]
        BY <3>1 DEF handleClient
      <4>2. f = u
        BY <1>0, <2>3, <4>1 DEF FibOK
      <4> QED
        BY <4>2 DEF Unused
    <3>2. CASE AcceptLoop(l)
      BY <1>0, <2>3, <3>0, <3>2, OthersStand DEF AcceptLoop
    <3>3. CASE AcceptFailed(l)
      BY SMTT(60), <1>0, <2>3, <3>0, <3>3, OthersStand DEF AcceptFailed
    <3>4. CASE (\E u \in Unused : TryAccept(Acceptor[l], Own[u])) \/ Accepted(Acceptor[l])
      BY Zenon, <1>0, <2>3, <3>0, <3>4, OthersStand DEF TryAccept, Accepted, FibOK
    <3> QED
      BY <2>3, <3>1, <3>2, <3>3, <3>4 DEF AcceptStep
  <2>4. CASE StopStep
    <3>0. Stopper \in Fibers
      BY ServerAssumption
    <3>1. f # Stopper => fib'[f] = fib[f]
      <4>1. CASE StopEnd
        BY <1>0, <3>0, <4>1, OthersStand DEF StopEnd
      <4>2. ASSUME NEW l \in Listeners, StopSocket(l), f # Stopper PROVE fib'[f] = fib[f]
        BY <1>0, <3>0, <4>2 DEF StopSocket, FibOK
      <4>3. ASSUME NEW l \in Listeners, StopClose(l), f # Stopper PROVE fib'[f] = fib[f]
        BY <1>0, <3>0, <4>3, OthersStand DEF StopClose, close
      <4>4. ASSUME NEW l \in Listeners, StopNext(l), f # Stopper PROVE fib'[f] = fib[f]
        BY <1>0, <3>0, <4>4, FinishedOthers DEF StopNext
      <4> QED
        BY <2>4, <4>1, <4>2, <4>3, <4>4 DEF StopStep
    <3> QED
      BY <2>4, <3>1
  <2>5. ASSUME NEW u \in Users, UserStep(u) PROVE f = u
    <3>0. u \in Fibers
      BY ServerAssumption
    <3>1. ASSUME f # u PROVE fib'[f] = fib[f]
      <4>1. CASE sleep(u) \/ \E s, op : transfer(u, s, op) \/ connect(u, s) \/ close(u, s)
        BY <1>0, <3>0, <3>1, <4>1, OthersStand DEF sleep, transfer, connect, close
      <4>2. ASSUME NEW s, setFlags(u, s) PROVE fib'[f] = fib[f]
        BY <1>0, <3>0, <3>1, <4>2 DEF setFlags, FibOK
      <4>3. CASE UserReturn(u)
        BY <1>0, <3>0, <3>1, <4>3, FinishedOthers DEF UserReturn
      <4>4. CASE UserEnd(u)
        BY <1>0, <3>0, <3>1, <4>4, OthersStand DEF UserEnd
      <4>5. CASE UserClose(u)
        BY <4>1, <4>5 DEF UserClose
      <4>6. CASE UserCall(u)
        BY <4>1, <4>2, <4>6 DEF UserCall
      <4> QED
        BY <2>5, <4>3, <4>4, <4>5, <4>6 DEF UserStep
    <3> QED
      BY <3>1
  <2> QED
    BY <1>3, <2>1, <2>2, <2>3, <2>4, <2>5 DEF Threads
<1>4. CASE Timing \/ Reporting \/ Environment
  <2>1. UNCHANGED fib
    BY ZenonT(60), <1>4 DEF Timing, Expire, Reporting, Report, Environment, Resolve, Arrive
  <2> QED
    BY <2>1
<1> QED
  BY <1>1, <1>2, <1>3, <1>4 DEF Next

(* Only Woken ends a wait, and only SoError asks for the outcome of connect. *)
LEMMA Resumed ==
  ASSUME Basic, Next, NEW f \in Fibers, fib[f].pc \in {"wait", "soerror"}, fib'[f].pc # fib[f].pc
  PROVE  CallStep(f) /\ (fib[f].pc = "wait" => Woken(f)) /\ (fib[f].pc = "soerror" => SoError(f))
<1>0. FibOK /\ fib[f] \in FibRec
  BY DEF Basic, Types, FibOK
<1>1. ~(fib'[f] = [fib[f] EXCEPT !.cancelled = TRUE])
  BY <1>0 DEF FibRec
<1>2. ASSUME NEW l \in Listeners, f = Acceptor[l], AcceptStep(l) PROVE FALSE
  BY ZenonT(60), <1>2 DEF AcceptStep, AcceptLoop, handleClient, AcceptFailed, TryAccept, Accepted, At
<1>3. ASSUME f = Stopper, StopStep PROVE FALSE
  BY <1>3 DEF StopStep, StopEnd, StopSocket, StopClose, StopNext, close, finished, At
<1>4. ASSUME f \in Users, UserStep(f) PROVE FALSE
  BY ZenonT(60), <1>4 DEF UserStep, UserCall, UserClose, UserReturn, UserEnd, sleep, transfer, connect, close,
              setFlags, finished, At
<1>5. CallStep(f)
  BY <1>1, <1>2, <1>3, <1>4, Movers
<1>6. /\ fib[f].pc = "wait" => Woken(f)
      /\ fib[f].pc = "soerror" => SoError(f)
  BY ZenonT(60), <1>5 DEF CallStep, Enter, TryIo, TryConnect, Arm, addEvent, Woken, SoError, CloseCancel,
              CloseRemove, CloseF, At
<1> QED
  BY <1>5, <1>6

(***************************************************************************)
(* A call that times out had a timeout: do_io and connect_with_timeout     *)
(* look at the flag of their own timer_info, and the callback of a timer   *)
(* that is over finds its timer_info gone.                                 *)
(***************************************************************************)
THEOREM TimesOut == Spec => TimesOutOnlyIfTimed
<1> DEFINE A == \A f \in Fibers :
                  fib[f].pc = "wait" /\ fib'[f].pc = "done" /\ fib'[f].ret = "timeout" => fib[f].timed
<1>1. Basic /\ [Next]_vars => [A]_vars
  <2> SUFFICES ASSUME Basic, Next, NEW f \in Fibers,
                      fib[f].pc = "wait", fib'[f].pc = "done", fib'[f].ret = "timeout"
               PROVE  fib[f].timed
    OBVIOUS
  <2>1. Woken(f)
    BY Resumed
  <2>2. FibOK /\ FlagsInv
    BY DEF Basic, Types
  <2>3. fib[f].cancelled
    <3>1. SUFFICES ASSUME ~fib[f].cancelled PROVE FALSE
      OBVIOUS
    <3>2. Return(f, "ok") \/ GoOn(f, "soerror") \/ GoOn(f, "try")
      BY <2>1, <3>1 DEF Woken
    <3>3. "ok" \in Results /\ "soerror" \in PCs /\ "try" \in PCs
      BY DEF Results, PCs
    <3> QED
      BY <2>2, <3>2, <3>3, ReturnFacts, GoOnFacts DEF Goes_on
  <2> QED
    BY <2>2, <2>3 DEF FlagsInv
<1>2. Spec => [][A]_vars
  BY <1>1, BasicAlways, PTL DEF Spec
<1> QED
  BY <1>2 DEF TimesOutOnlyIfTimed
-----------------------------------------------------------------------------
(* Where a fiber is: at most one entry of it is pending *)

(* The fibers with an entry in a queue: a timeout's callback is not one. *)
Entries(q) == {i \in DOMAIN q : q[i].kind # "timeout"}
QueuedIn(q) == {q[i].f : i \in Entries(q)}
Once(q) == \A i, j \in Entries(q) : q[i].f = q[j].f => i = j

OnCpu == {f \in Fibers : Task(f) \in cpu}
Armed == {f \in Fibers : Alarm(f) \in timers}
Waiting == {f \in Fibers : \E d \in Fds, e \in Event : chan[d][e] = f}

Place(f) ==
  /\ f \in OnCpu => fib[f].pc \notin {"none", "term"} /\ f \notin QueuedIn(queue) \cup Armed \cup Waiting
  /\ f \in QueuedIn(queue) => fib[f].pc \in {"loop", "body", "wait"} /\ f \notin Armed \cup Waiting
  /\ f \in Armed => fib[f].pc = "wait" /\ f \notin Waiting
  /\ \A d \in Fds, e \in Event :
       chan[d][e] = f => fib[f].pc = "wait" /\ fib[f].fd = d /\ e = EventOf(fib[f].op)
  /\ fib[f].pc \notin {"none", "term", "loop", "body", "wait"} => f \in OnCpu
  /\ fib[f].pc = "wait" => f \in OnCpu \cup QueuedIn(queue) \cup Armed \cup Waiting

PlaceInv == Once(queue) /\ \A f \in Fibers : Place(f)

Items == Fiber \cup Sleep \cup Timer

LEMMA ItemTypes ==
  /\ \A x \in Items : x.f \in Fibers /\ x.kind \in {"fiber", "sleep", "timeout"}
  /\ \A x \in Items : x.kind = "timeout" <=> x \in Timer
  /\ \A x \in Fiber \cup Sleep : x.kind # "timeout"
  /\ \A f, g : /\ Task(f) = Task(g) => f = g
               /\ Alarm(f) = Alarm(g) => f = g
               /\ Task(f) # Alarm(g)
               /\ Task(f) \notin Timer /\ Alarm(f) \notin Timer
  /\ \A f \in Fibers : Task(f) \in Fiber /\ Alarm(f) \in Sleep
<1>1. \A x \in Fiber : x.f \in Fibers /\ x.kind = "fiber"
  BY ItemFacts
<1>2. \A x \in Sleep : x.f \in Fibers /\ x.kind = "sleep"
  BY ItemFacts
<1>3. \A x \in Timer : x.f \in Fibers /\ x.kind = "timeout"
  BY ItemFacts
<1>4. \A f, g : /\ Task(f) = Task(g) => f = g
                /\ Alarm(f) = Alarm(g) => f = g
                /\ Task(f) # Alarm(g)
                /\ Task(f) \notin Timer /\ Alarm(f) \notin Timer
  BY ItemFacts
<1>5. \A f \in Fibers : Task(f) \in Fiber /\ Alarm(f) \in Sleep
  BY DEF Fiber, Sleep
<1> QED
  BY <1>1, <1>2, <1>3, <1>4, <1>5 DEF Items

LEMMA QueueRemove ==
  ASSUME NEW q \in Seq(Items), Once(q), NEW i \in DOMAIN q
  PROVE  /\ Once(RemoveAt(q, i))
         /\ q[i] \in Timer => QueuedIn(RemoveAt(q, i)) = QueuedIn(q)
         /\ q[i] \in Fiber \cup Sleep => /\ q[i].f \in QueuedIn(q)
                                         /\ QueuedIn(RemoveAt(q, i)) = QueuedIn(q) \ {q[i].f}
<1> DEFINE r == RemoveAt(q, i)
           n == Len(q)
           m(j) == IF j < i THEN j ELSE j + 1
<1>1. n \in Nat /\ DOMAIN q = 1..n /\ i \in 1..n /\ \A j \in 1..n : q[j] \in Items
  OBVIOUS
<1>2. /\ r \in Seq(Items) /\ Len(r) = n - 1
      /\ \A j \in 1..(n - 1) : r[j] = IF j < i THEN q[j] ELSE q[j + 1]
  BY EraseAt
<1> HIDE DEF r
<1>3. DOMAIN r = 1..(n - 1)
  BY <1>1, <1>2
<1>4. \A j \in DOMAIN r : m(j) \in 1..n /\ m(j) # i /\ r[j] = q[m(j)]
  BY <1>1, <1>2, <1>3
<1>5. \A j, k \in DOMAIN r : m(j) = m(k) => j = k
  BY <1>1, <1>3
<1>6. \A k \in 1..n : k # i => \E j \in DOMAIN r : k = m(j)
  <2> TAKE k \in 1..n
  <2> HAVE k # i
  <2>1. CASE k < i
    BY <1>1, <1>3, <2>1
  <2>2. CASE k > i
    <3>1. k - 1 \in DOMAIN r /\ m(k - 1) = k
      BY <1>1, <1>3, <2>2
    <3> QED
      BY <3>1
  <2> QED
    BY <1>1, <2>1, <2>2
<1> HIDE DEF m
<1>7. Once(r)
  <2> SUFFICES ASSUME NEW j \in Entries(r), NEW k \in Entries(r), r[j].f = r[k].f PROVE j = k
    BY DEF Once
  <2>1. j \in DOMAIN r /\ k \in DOMAIN r /\ r[j].kind # "timeout" /\ r[k].kind # "timeout"
    BY DEF Entries
  <2>2. m(j) \in Entries(q) /\ m(k) \in Entries(q) /\ q[m(j)].f = q[m(k)].f
    BY <1>1, <1>4, <2>1 DEF Entries
  <2> QED
    BY <1>5, <2>1, <2>2 DEF Once
<1>8. QueuedIn(r) \subseteq QueuedIn(q)
  <2> SUFFICES ASSUME NEW j \in Entries(r) PROVE r[j].f \in QueuedIn(q)
    BY DEF QueuedIn
  <2>1. m(j) \in Entries(q) /\ r[j].f = q[m(j)].f
    BY <1>1, <1>4 DEF Entries
  <2> QED
    BY <2>1 DEF QueuedIn
<1>9. \A k \in Entries(q) : k # i => q[k].f \in QueuedIn(r)
  <2> TAKE k \in Entries(q)
  <2> HAVE k # i
  <2>1. PICK j \in DOMAIN r : k = m(j)
    BY <1>1, <1>6 DEF Entries
  <2>2. j \in Entries(r) /\ q[k].f = r[j].f
    BY <1>4, <2>1 DEF Entries
  <2> QED
    BY <2>2 DEF QueuedIn
<1>10. ASSUME q[i] \in Timer PROVE QueuedIn(r) = QueuedIn(q)
  <2>1. i \notin Entries(q)
    BY <1>10, ItemTypes DEF Entries
  <2> QED
    BY <1>8, <1>9, <2>1 DEF QueuedIn
<1>11. ASSUME q[i] \in Fiber \cup Sleep
       PROVE  q[i].f \in QueuedIn(q) /\ QueuedIn(r) = QueuedIn(q) \ {q[i].f}
  <2>1. i \in Entries(q)
    BY <1>1, <1>11, ItemTypes DEF Entries
  <2>2. ASSUME NEW j \in Entries(r) PROVE r[j].f # q[i].f
    <3>1. m(j) \in Entries(q) /\ r[j].f = q[m(j)].f /\ m(j) # i
      BY <1>1, <1>4 DEF Entries
    <3> QED
      BY <2>1, <3>1 DEF Once
  <2>3. q[i].f \notin QueuedIn(r)
    BY <2>2 DEF QueuedIn
  <2>4. q[i].f \in QueuedIn(q)
    BY <2>1 DEF QueuedIn
  <2>5. QueuedIn(q) \ {q[i].f} \subseteq QueuedIn(r)
    BY <1>9 DEF QueuedIn
  <2> QED
    BY <1>8, <2>3, <2>4, <2>5
<1> QED
  BY <1>7, <1>10, <1>11 DEF r

LEMMA QueueConcat ==
  ASSUME NEW q \in Seq(Items), Once(q), NEW s \in Seq(Items), Once(s),
         QueuedIn(q) \cap QueuedIn(s) = {}
  PROVE  Once(q \o s) /\ QueuedIn(q \o s) = QueuedIn(q) \cup QueuedIn(s)
<1> DEFINE r == q \o s
           n == Len(q)
           k == Len(s)
<1>1. /\ n \in Nat /\ k \in Nat /\ DOMAIN q = 1..n /\ DOMAIN s = 1..k
      /\ DOMAIN r = 1..(n + k)
      /\ \A j \in 1..n : r[j] = q[j]
      /\ \A j \in 1..k : r[n + j] = s[j]
  OBVIOUS
<1> HIDE DEF r, n, k
<1>2. ASSUME NEW j \in Entries(r)
      PROVE  \/ j \in Entries(q) /\ r[j] = q[j]
             \/ j - n \in Entries(s) /\ r[j] = s[j - n]
  <2>1. j \in 1..(n + k) /\ r[j].kind # "timeout"
    BY <1>1 DEF Entries
  <2>2. CASE j \in 1..n
    BY <1>1, <2>1, <2>2 DEF Entries
  <2>3. CASE j - n \in 1..k
    <3>1. r[j] = s[j - n]
      <4>1. n + (j - n) = j
        BY <1>1, <2>1
      <4> QED
        BY <1>1, <2>3, <4>1
    <3> QED
      BY <1>1, <2>1, <2>3, <3>1 DEF Entries
  <2> QED
    BY <1>1, <2>1, <2>2, <2>3
<1>3. Once(r)
  <2> SUFFICES ASSUME NEW i \in Entries(r), NEW j \in Entries(r), r[i].f = r[j].f PROVE i = j
    BY DEF Once
  <2>0. i \in Int /\ j \in Int
    BY <1>1 DEF Entries
  <2>1. CASE i \in Entries(q) /\ r[i] = q[i] /\ j \in Entries(q) /\ r[j] = q[j]
    BY <2>1 DEF Once
  <2>2. CASE i - n \in Entries(s) /\ r[i] = s[i - n] /\ j - n \in Entries(s) /\ r[j] = s[j - n]
    <3>1. i - n = j - n
      BY <2>2 DEF Once
    <3> QED
      BY <1>1, <2>0, <3>1
  <2>3. ASSUME NEW x \in Entries(q), NEW y \in Entries(s), q[x].f = s[y].f PROVE FALSE
    BY <2>3 DEF QueuedIn
  <2> QED
    BY <1>2, <2>1, <2>2, <2>3
<1>4. QueuedIn(r) \subseteq QueuedIn(q) \cup QueuedIn(s)
  BY <1>2 DEF QueuedIn
<1>5. QueuedIn(q) \subseteq QueuedIn(r)
  <2> SUFFICES ASSUME NEW i \in Entries(q) PROVE q[i].f \in QueuedIn(r)
    BY DEF QueuedIn
  <2>1. i \in Entries(r) /\ r[i] = q[i]
    BY <1>1 DEF Entries
  <2> QED
    BY <2>1 DEF QueuedIn
<1>6. QueuedIn(s) \subseteq QueuedIn(r)
  <2> SUFFICES ASSUME NEW i \in Entries(s) PROVE s[i].f \in QueuedIn(r)
    BY DEF QueuedIn
  <2>1. n + i \in Entries(r) /\ r[n + i] = s[i]
    BY <1>1 DEF Entries
  <2> QED
    BY <2>1 DEF QueuedIn
<1> QED
  BY <1>3, <1>4, <1>5, <1>6 DEF r

LEMMA QueueAppend ==
  ASSUME NEW q \in Seq(Items), Once(q), NEW x \in Items,
         x \in Timer \/ x.f \notin QueuedIn(q)
  PROVE  /\ Once(Append(q, x))
         /\ x \in Timer => QueuedIn(Append(q, x)) = QueuedIn(q)
         /\ x \in Fiber \cup Sleep => QueuedIn(Append(q, x)) = QueuedIn(q) \cup {x.f}
<1> DEFINE s == <<x>>
<1>1. Append(q, x) = q \o s /\ s \in Seq(Items) /\ DOMAIN s = {1} /\ s[1] = x
  OBVIOUS
<1> HIDE DEF s
<1>2. Once(s)
  BY <1>1 DEF Once, Entries
<1>3. /\ x \in Timer => QueuedIn(s) = {}
      /\ x \in Fiber \cup Sleep => QueuedIn(s) = {x.f}
  BY <1>1, ItemTypes DEF QueuedIn, Entries
<1>4. x \in Timer \/ x \in Fiber \cup Sleep
  BY DEF Items
<1>5. QueuedIn(q) \cap QueuedIn(s) = {}
  BY <1>3, <1>4
<1>6. Once(Append(q, x)) /\ QueuedIn(Append(q, x)) = QueuedIn(q) \cup QueuedIn(s)
  <2>1. Once(q \o s) /\ QueuedIn(q \o s) = QueuedIn(q) \cup QueuedIn(s)
    BY <1>1, <1>2, <1>5, QueueConcat
  <2> QED
    BY <1>1, <2>1
<1> QED
  BY <1>3, <1>6

(* A sequence of different fibers. *)
LEMMA TaskSeq ==
  ASSUME NEW s \in Seq(Fiber), IsInjective(s)
  PROVE  /\ s \in Seq(Items) /\ Once(s)
         /\ \A f : f \in QueuedIn(s) <=> f \in Fibers /\ \E i \in DOMAIN s : s[i] = Task(f)
<1>1. \A i \in DOMAIN s : s[i].kind = "fiber" /\ s[i].f \in Fibers /\ s[i] = Task(s[i].f)
  BY ItemFacts
<1>2. s \in Seq(Items)
  BY DEF Items
<1>3. Entries(s) = DOMAIN s
  BY <1>1 DEF Entries
<1>4. Once(s)
  BY <1>1, <1>3 DEF Once, IsInjective
<1>5. \A f : f \in QueuedIn(s) <=> f \in Fibers /\ \E i \in DOMAIN s : s[i] = Task(f)
  BY <1>1, <1>3, ItemFacts DEF QueuedIn
<1> QED
  BY <1>2, <1>4, <1>5
(* What a step does to the places of the fibers. *)
LEMMA PlaceSame ==
  ASSUME FibOK, FlagsInv, PlaceInv, NEW f \in Fibers, Change(f),
         f \in OnCpu' <=> f \in OnCpu,
         f \in QueuedIn(queue) => f \in QueuedIn(queue'),
         f \in QueuedIn(queue') => f \in QueuedIn(queue) \/ Started(f),
         f \in Armed' <=> f \in Armed,
         \A d \in Fds, e \in Event : chan'[d][e] = f <=> chan[d][e] = f,
         f \in OnCpu => ~Ended(f)
  PROVE  Place(f)'
<1>0. Place(f) /\ fib[f] \in FibRec
  BY DEF PlaceInv, FibOK
<1>1. f \in Waiting' <=> f \in Waiting
  BY DEF Waiting
<1>2. CASE fib'[f] = fib[f]
  <2>1. ~Started(f)
    BY <1>2 DEF Started
  <2> QED
    BY <1>0, <1>1, <1>2, <2>1 DEF Place
<1>3. CASE Executes(f) /\ Progress(f) /\ fib'[f] # fib[f]
  <2>1. f \in OnCpu
    BY <1>3 DEF Executes, OnCpu
  <2>2. fib'[f].pc \notin {"none", "term"}
    BY <1>3 DEF Progress, Calling
  <2>3. ~Started(f)
    BY <1>3 DEF Started, Executes
  <2>4. f \notin QueuedIn(queue) /\ f \notin Armed /\ f \notin Waiting
    BY <1>0, <2>1 DEF Place
  <2>5. \A d \in Fds, e \in Event : chan[d][e] # f
    BY <2>4 DEF Waiting
  <2>6. f \in OnCpu' /\ f \notin QueuedIn(queue') /\ f \notin Armed' /\ f \notin Waiting'
    BY <1>1, <2>1, <2>3, <2>4
  <2> QED
    BY <2>1, <2>2, <2>5, <2>6 DEF Place
<1>4. CASE Started(f)
  <2>1. f \notin OnCpu /\ f \notin QueuedIn(queue) /\ f \notin Armed /\ f \notin Waiting
    BY <1>0, <1>4 DEF Place, Started, Waiting
  <2>2. \A d \in Fds, e \in Event : chan[d][e] # f
    BY <1>0, <1>4 DEF Place, Started
  <2>3. fib'[f].pc \in {"loop", "body"}
    BY <1>4 DEF Started
  <2> QED
    BY <1>1, <2>1, <2>2, <2>3 DEF Place
<1>5. CASE CalledOff(f)
  <2>1. InCall(f) /\ fib'[f].pc = fib[f].pc /\ fib'[f].fd = fib[f].fd /\ fib'[f].op = fib[f].op
    BY <1>0, <1>5 DEF CalledOff, FibRec
  <2>2. ~Started(f)
    BY <2>1 DEF Started, InCall
  <2> QED
    BY <1>0, <1>1, <2>1, <2>2 DEF Place
<1>6. CASE Executes(f) /\ Ended(f) /\ fib'[f] # fib[f]
  BY <1>6 DEF Executes, OnCpu
<1> QED
  BY <1>2, <1>3, <1>4, <1>5, <1>6 DEF Change

LEMMA PlaceStep ==
  ASSUME Types, FlagsInv, PlaceInv,
         Going_on \/ \E S \in SUBSET Fibers, s \in Seq(Fiber) : StartStep(S, s)
  PROVE  PlaceInv'
<1>0. /\ FibOK /\ ChanOK /\ queue \in Seq(Items) /\ Once(queue)
      /\ \A f \in Fibers : Place(f) /\ Change(f)
      /\ timers \subseteq Sleep \cup Timer /\ NoFiber \notin Fibers
  BY Changes, HookAssumption DEF Types, ItemsOK, PlaceInv, Items
<1>1. \A f \in Fibers : Going_on => ~Started(f)
  BY Quiet DEF Started
<1>2. ASSUME NEW f \in Fibers, f \in OnCpu, fib'[f] = fib[f] \/ Progress(f)
      PROVE  ~Ended(f)
  BY <1>0, <1>2 DEF Place, Ended, Progress, Calling
<1>3. ASSUME \A f \in Fibers : f \in OnCpu' <=> f \in OnCpu,
             \A f \in Fibers : f \in Armed' <=> f \in Armed,
             UNCHANGED chan, Going_on, Once(queue'), QueuedIn(queue') = QueuedIn(queue),
             \A f \in OnCpu : fib'[f] = fib[f] \/ Progress(f)
             \/ \E i \in DOMAIN queue : fib' = [fib EXCEPT ![queue[i].f].cancelled = TRUE]
      PROVE  PlaceInv'
  <2>1. ASSUME NEW f \in Fibers PROVE Place(f)'
    <3>1. f \in OnCpu => ~Ended(f)
      <4>1. CASE fib'[f] = fib[f] \/ Progress(f)
        BY <1>2, <4>1
      <4>2. ASSUME NEW g, fib' = [fib EXCEPT ![g].cancelled = TRUE], f \in OnCpu PROVE ~Ended(f)
        <5>1. fib[f] \in FibRec /\ (fib'[f] = fib[f] \/ fib'[f] = [fib[f] EXCEPT !.cancelled = TRUE])
          BY <1>0, <4>2 DEF FibOK
        <5>2. fib'[f].pc = fib[f].pc
          BY <5>1 DEF FibRec
        <5> QED
          BY <1>0, <4>2, <5>2 DEF Place, Ended
      <4> QED
        BY <1>3, <4>1, <4>2
    <3> QED
      BY <1>0, <1>1, <1>3, <3>1, PlaceSame
  <2> QED
    BY <1>3, <2>1 DEF PlaceInv
<1>4. CASE StandStill \/ (DropStep /\ UNCHANGED <<chan, queue>>) \/ \E f \in Fibers : ActStep(f)
  <2>1. Going_on /\ UNCHANGED <<chan, queue>>
    BY <1>4 DEF Going_on, StandStill, ActStep
  <2>2. \A f \in Fibers : f \in OnCpu' <=> f \in OnCpu
    BY <1>4, ItemTypes DEF OnCpu, StandStill, DropStep, ActStep, Task
  <2>3. timers' = timers \/ \E f \in Fibers : timers' \in {timers \ {Timeout(f)}, timers \cup {Timeout(f)}}
    BY <1>4 DEF StandStill, DropStep, ActStep
  <2>4. \A f, g \in Fibers : Alarm(f) # Timeout(g)
    BY <1>0, TimeoutTimer, ItemTypes
  <2>5. \A f \in Fibers : f \in Armed' <=> f \in Armed
    BY <2>3, <2>4 DEF Armed, Alarm, Task
  <2>6. \A f \in OnCpu : fib'[f] = fib[f] \/ Progress(f)
    BY <1>4 DEF OnCpu, StandStill, DropStep, ActStep, Moves
  <2> QED
    BY <1>0, <1>3, <2>1, <2>2, <2>5, <2>6
<1>5. ASSUME NEW f \in Fibers, SleepStep(f) PROVE PlaceInv'
  <2>1. Going_on /\ UNCHANGED <<chan, queue>>
    BY <1>5 DEF Going_on, SleepStep
  <2>2. /\ f \in OnCpu /\ \A g \in Fibers : g \in OnCpu' <=> g \in OnCpu /\ g # f
        /\ \A g \in Fibers : g \in Armed' <=> g \in Armed \/ g = f
    BY <1>5, ItemTypes DEF OnCpu, Armed, SleepStep, Executes, Task, Alarm
  <2>3. fib'[f].pc = "wait" /\ \A g \in Fibers : g # f => fib'[g] = fib[g]
    BY <1>5 DEF SleepStep, Goes_on, Moves
  <2>4. f \notin QueuedIn(queue) /\ f \notin Waiting
    BY <1>0, <2>2 DEF Place
  <2>5. Place(f)'
    <3>1. f \notin QueuedIn(queue') /\ f \notin Waiting' /\ \A d \in Fds, e \in Event : chan'[d][e] # f
      BY <2>1, <2>4 DEF Waiting
    <3> QED
      BY <2>2, <2>3, <3>1 DEF Place
  <2>6. ASSUME NEW g \in Fibers, g # f PROVE Place(g)'
    <3>1. g \in OnCpu => ~Ended(g)
      BY <1>2, <2>3, <2>6
    <3> QED
      BY <1>0, <1>1, <2>1, <2>2, <2>6, <3>1, PlaceSame
  <2> QED
    BY <1>0, <2>1, <2>5, <2>6 DEF PlaceInv
<1>6. ASSUME NEW f \in Fibers, NEW d \in Fds, NEW e \in Event, AddStep(f, d, e) PROVE PlaceInv'
  <2>1. Going_on /\ UNCHANGED <<timers, queue>>
    BY <1>6 DEF Going_on, AddStep
  <2>2. /\ f \in OnCpu /\ \A g \in Fibers : g \in OnCpu' <=> g \in OnCpu /\ g # f
        /\ \A g \in Fibers : g \in Armed' <=> g \in Armed
    BY <1>6, ItemTypes DEF OnCpu, Armed, AddStep, Executes, Task, Alarm
  <2>3. /\ fib'[f].pc = "wait" /\ fib'[f].fd = d /\ EventOf(fib'[f].op) = e
        /\ \A g \in Fibers : g # f => fib'[g] = fib[g]
    BY <1>6 DEF AddStep, Goes_on, Moves
  <2>4. f \notin QueuedIn(queue) /\ f \notin Armed /\ f \notin Waiting
    BY <1>0, <2>2 DEF Place
  <2>5. \A k \in Fds, ev \in Event :
          chan'[k][ev] = IF k = d /\ ev = e THEN f ELSE chan[k][ev]
    BY <1>0, <1>6 DEF AddStep, ChanOK
  <2>6. Place(f)'
    <3>1. \A k \in Fds, ev \in Event : chan'[k][ev] = f => k = d /\ ev = e
      BY <2>4, <2>5 DEF Waiting
    <3>2. f \in Waiting'
      BY <2>5 DEF Waiting
    <3> QED
      BY <2>1, <2>2, <2>3, <2>4, <3>1, <3>2 DEF Place
  <2>7. ASSUME NEW g \in Fibers, g # f PROVE Place(g)'
    <3>1. g \in OnCpu => ~Ended(g)
      BY <1>2, <2>3, <2>7
    <3>2. \A k \in Fds, ev \in Event : chan'[k][ev] = g <=> chan[k][ev] = g
      BY <1>0, <1>6, <2>5, <2>7 DEF AddStep
    <3> QED
      BY <1>0, <1>1, <2>1, <2>2, <2>7, <3>1, <3>2, PlaceSame
  <2> QED
    BY <1>0, <2>1, <2>6, <2>7 DEF PlaceInv
<1>7. ASSUME NEW f \in Fibers, EndStep(f) PROVE PlaceInv'
  <2>1. Going_on /\ UNCHANGED <<chan, timers, queue>>
    BY <1>7 DEF Going_on, EndStep
  <2>2. /\ f \in OnCpu /\ \A g \in Fibers : g \in OnCpu' <=> g \in OnCpu /\ g # f
        /\ \A g \in Fibers : g \in Armed' <=> g \in Armed
    BY <1>7, ItemTypes DEF OnCpu, Armed, EndStep, Executes, Task, Alarm
  <2>3. fib'[f].pc = "term" /\ \A g \in Fibers : g # f => fib'[g] = fib[g]
    BY <1>7 DEF EndStep, Moves
  <2>4. f \notin QueuedIn(queue) /\ f \notin Armed /\ f \notin Waiting
    BY <1>0, <2>2 DEF Place
  <2>5. Place(f)'
    <3>1. f \notin Waiting' /\ \A d \in Fds, e \in Event : chan'[d][e] # f
      BY <2>1, <2>4 DEF Waiting
    <3> QED
      BY <2>1, <2>2, <2>3, <2>4, <3>1 DEF Place
  <2>6. ASSUME NEW g \in Fibers, g # f PROVE Place(g)'
    <3>1. g \in OnCpu => ~Ended(g)
      BY <1>2, <2>3, <2>6
    <3> QED
      BY <1>0, <1>1, <2>1, <2>2, <2>6, <3>1, PlaceSame
  <2> QED
    BY <1>0, <2>1, <2>5, <2>6 DEF PlaceInv
<1>8. ASSUME NEW d \in Fds, NEW es \in SUBSET Event, WakeStep(d, es) PROVE PlaceInv'
  <2> DEFINE w == Woken_tasks(d, es)
  <2>1. /\ Going_on /\ es \subseteq WaitedFor(d) /\ queue' = queue \o w /\ UNCHANGED timers
        /\ chan' = [chan EXCEPT ![d] = [e \in Event |-> IF e \in es THEN NoFiber ELSE @[e]]]
    BY <1>8 DEF Going_on, WakeStep, Woke, Woken_tasks
  <2>2. \A k \in Fds, ev \in Event :
          chan'[k][ev] = IF k = d /\ ev \in es THEN NoFiber ELSE chan[k][ev]
    BY <1>0, <2>1 DEF ChanOK
  <2>3. \A e1, e2 \in es : chan[d][e1] = chan[d][e2] => e1 = e2
    <3> SUFFICES ASSUME NEW e1 \in es, NEW e2 \in es, chan[d][e1] = chan[d][e2] PROVE e1 = e2
      OBVIOUS
    <3>1. chan[d][e1] \in Fibers
      BY <1>0, <2>1 DEF WaitedFor, ChanOK
    <3>2. Place(chan[d][e1])
      BY <1>0, <3>1
    <3> QED
      BY <3>1, <3>2 DEF Place
  <2>4. /\ w \in Seq(Fiber) /\ IsInjective(w)
        /\ \A i \in DOMAIN w : \E e \in es : chan[d][e] \in Fibers /\ w[i] = Task(chan[d][e])
        /\ \A e \in es : \E i \in DOMAIN w : w[i] = Task(chan[d][e])
    BY <1>0, <2>1, <2>3, WokenTasks
  <2> HIDE DEF w
  <2>5. /\ w \in Seq(Items) /\ Once(w)
        /\ \A f \in Fibers : f \in QueuedIn(w) <=> \E e \in es : chan[d][e] = f
    <3>1. /\ w \in Seq(Items) /\ Once(w)
          /\ \A f : f \in QueuedIn(w) <=> f \in Fibers /\ \E i \in DOMAIN w : w[i] = Task(f)
      BY <2>4, TaskSeq
    <3>2. \A f \in Fibers : (\E i \in DOMAIN w : w[i] = Task(f)) <=> \E e \in es : chan[d][e] = f
      BY <2>4, ItemTypes
    <3> QED
      BY <3>1, <3>2
  <2>6. \A f \in Fibers : f \in QueuedIn(w) => f \in Waiting /\ f \notin QueuedIn(queue) /\ f \notin OnCpu /\ f \notin Armed
    BY <1>0, <2>5 DEF Waiting, Place
  <2>7. Once(queue') /\ QueuedIn(queue') = QueuedIn(queue) \cup QueuedIn(w)
    <3>1. QueuedIn(w) \subseteq Fibers
      BY <2>5, ItemTypes DEF QueuedIn, Entries
    <3>2. QueuedIn(queue) \cap QueuedIn(w) = {}
      BY <2>6, <3>1
    <3> QED
      BY <1>0, <2>1, <2>5, <3>2, QueueConcat
  <2>8. /\ \A f \in Fibers : f \in OnCpu' <=> f \in OnCpu
        /\ \A f \in Fibers : f \in Armed' <=> f \in Armed
    BY <1>8, ItemTypes DEF WakeStep, OnCpu, Armed, DropStep, Task, Alarm
  <2>9. \A f \in Fibers : fib'[f] = fib[f] \/ (f \in OnCpu /\ Progress(f))
    BY <1>8 DEF WakeStep, OnCpu, DropStep, Executes, Moves
  <2>10. ASSUME NEW f \in Fibers, f \notin QueuedIn(w) PROVE Place(f)'
    <3>1. f \in OnCpu => ~Ended(f)
      BY <1>2, <2>9
    <3>2. \A k \in Fds, ev \in Event : chan'[k][ev] = f <=> chan[k][ev] = f
      BY <1>0, <2>2, <2>5, <2>10
    <3> QED
      BY <1>0, <1>1, <2>1, <2>7, <2>8, <2>10, <3>1, <3>2, PlaceSame
  <2>11. ASSUME NEW f \in Fibers, f \in QueuedIn(w) PROVE Place(f)'
    <3>1. fib'[f] = fib[f] /\ f \notin OnCpu' /\ f \notin Armed' /\ f \in QueuedIn(queue')
      BY <2>6, <2>7, <2>8, <2>9, <2>11
    <3>2. PICK e \in es : chan[d][e] = f
      BY <2>5, <2>11
    <3>3. fib[f].pc = "wait" /\ fib[f].fd = d /\ e = EventOf(fib[f].op)
      BY <1>0, <3>2 DEF Place
    <3>4. \A k \in Fds, ev \in Event : chan'[k][ev] # f
      BY <1>0, <2>2, <3>2, <3>3 DEF Place
    <3>5. f \notin Waiting'
      BY <3>4 DEF Waiting
    <3> QED
      BY <3>1, <3>3, <3>4, <3>5 DEF Place
  <2> QED
    BY SMTT(60), <2>7, <2>10, <2>11 DEF PlaceInv
<1>9. ASSUME NEW i \in DOMAIN queue, TakeStep(i) PROVE PlaceInv'
  <2> DEFINE r == RemoveAt(queue, i)
             x == queue[i]
  <2>1. /\ Going_on /\ UNCHANGED <<chan, timers>>
        /\ \A f \in Fibers : f \in Armed' <=> f \in Armed
    BY <1>9 DEF Going_on, TakeStep, Armed, Task, Alarm
  <2>2. /\ r \in Seq(Items) /\ Once(r) /\ x \in Items
        /\ x \in Timer => QueuedIn(r) = QueuedIn(queue)
        /\ x \in Fiber \cup Sleep => x.f \in QueuedIn(queue) /\ QueuedIn(r) = QueuedIn(queue) \ {x.f}
    BY <1>0, <1>9, QueueRemove, ItemSeqs
  <2>3. /\ x \in Fiber \cup Sleep => x.f \in Fibers /\ x.kind # "timeout"
        /\ x \in Fiber => x = Task(x.f)
    BY ItemTypes, ItemFacts
  <2>4. \/ x \in Fiber /\ x \notin cpu /\ cpu' = cpu \cup {x} /\ queue' = r /\ UNCHANGED fib
        \/ x \in Sleep /\ queue' = Append(r, Task(x.f)) /\ UNCHANGED <<fib, cpu>>
        \/ x \in Timer /\ queue' = r /\ UNCHANGED <<fib, cpu>>
        \/ x \in Timer /\ queue' = r /\ cpu' = cpu \cup {x} /\ fib' = [fib EXCEPT ![x.f].cancelled = TRUE]
    BY <1>9 DEF TakeStep
  <2> HIDE DEF r
  <2>5. CASE x \in Fiber /\ x \notin cpu /\ cpu' = cpu \cup {x} /\ queue' = r /\ UNCHANGED fib
    <3>0. PICK f \in Fibers : f = x.f
      BY <2>3, <2>5
    <3>1. /\ f \in QueuedIn(queue) /\ f \notin QueuedIn(queue')
          /\ QueuedIn(queue') = QueuedIn(queue) \ {f} /\ x = Task(f)
      BY <2>2, <2>3, <2>5, <3>0
    <3>2. \A g \in Fibers : g \in OnCpu' <=> g \in OnCpu \/ g = f
      BY <2>5, <3>1, ItemTypes DEF OnCpu, Task
    <3>3. ASSUME NEW g \in Fibers, g # f PROVE Place(g)'
      <4>1. g \in OnCpu => ~Ended(g)
        BY <1>2, <2>5
      <4> QED
        BY <1>0, <1>1, <2>1, <3>1, <3>2, <3>3, <4>1, PlaceSame
    <3>4. Place(f)'
      <4>1. fib[f].pc \in {"loop", "body", "wait"} /\ f \notin Armed /\ f \notin Waiting
        BY <1>0, <3>1 DEF Place
      <4>2. f \notin Armed' /\ f \notin Waiting' /\ \A k \in Fds, ev \in Event : chan'[k][ev] # f
        BY <2>1, <3>1, <4>1 DEF Waiting
      <4> QED
        BY <2>5, <3>1, <3>2, <4>1, <4>2 DEF Place
    <3> QED
      BY <2>2, <2>5, <3>3, <3>4 DEF PlaceInv
  <2>6. CASE x \in Sleep /\ queue' = Append(r, Task(x.f)) /\ UNCHANGED <<fib, cpu>>
    <3> DEFINE y == Task(x.f)
    <3>1. x.f \in Fibers /\ y \in Fiber /\ y \in Items /\ y.f = x.f
      BY <2>3, <2>6, ItemTypes, ItemFacts DEF Items
    <3> HIDE DEF y
    <3>2. y.f \notin QueuedIn(r)
      BY <2>2, <2>6, <3>1
    <3>3. Once(Append(r, y)) /\ QueuedIn(Append(r, y)) = QueuedIn(r) \cup {y.f}
      BY <2>2, <3>1, <3>2, QueueAppend
    <3>4. Once(queue') /\ QueuedIn(queue') = QueuedIn(queue)
      BY <2>2, <2>6, <3>1, <3>3 DEF y
    <3> QED
      BY <1>3, <2>1, <2>6, <3>4 DEF OnCpu, Task
  <2>7. CASE x \in Timer /\ queue' = r /\ UNCHANGED <<fib, cpu>>
    BY <1>3, <2>1, <2>2, <2>7 DEF OnCpu, Task
  <2>8. CASE x \in Timer /\ queue' = r /\ cpu' = cpu \cup {x} /\ fib' = [fib EXCEPT ![x.f].cancelled = TRUE]
    <3>1. \A f \in Fibers : f \in OnCpu' <=> f \in OnCpu
      BY <2>8, ItemTypes DEF OnCpu, Task
    <3> QED
      BY <1>3, <2>1, <2>2, <2>8, <3>1
  <2> QED
    BY <2>4, <2>5, <2>6, <2>7, <2>8
<1>10. ASSUME NEW t \in timers, ExpireStep(t) PROVE PlaceInv'
  <2>1. /\ Going_on /\ UNCHANGED <<fib, chan, cpu>> /\ timers' = timers \ {t} /\ queue' = Append(queue, t)
        /\ t \in Items
    BY <1>0, <1>10 DEF Going_on, ExpireStep, Items
  <2>2. \A f \in Fibers : f \in OnCpu' <=> f \in OnCpu
    BY <2>1 DEF OnCpu, Task
  <2>3. CASE t \in Timer
    <3>1. Once(queue') /\ QueuedIn(queue') = QueuedIn(queue)
      BY <1>0, <2>1, <2>3, QueueAppend
    <3>2. \A f \in Fibers : f \in Armed' <=> f \in Armed
      BY <2>1, <2>3, ItemTypes DEF Armed, Alarm, Task
    <3> QED
      BY <1>3, <2>1, <2>2, <3>1, <3>2
  <2>4. CASE t \in Sleep
    <3> DEFINE f == t.f
    <3>1. f \in Fibers /\ t = Alarm(f) /\ f \in Armed
      BY <1>10, <2>4, ItemFacts DEF Armed
    <3>2. f \notin QueuedIn(queue) /\ f \notin OnCpu /\ f \notin Waiting /\ fib[f].pc = "wait"
      BY <1>0, <3>1 DEF Place
    <3>3. Once(queue') /\ QueuedIn(queue') = QueuedIn(queue) \cup {f}
      BY <1>0, <2>1, <2>4, <3>2, QueueAppend
    <3> HIDE DEF f
    <3>4. \A g \in Fibers : g \in Armed' <=> g \in Armed /\ g # f
      BY <2>1, <3>1, ItemTypes DEF Armed, Alarm, Task
    <3>5. ASSUME NEW g \in Fibers, g # f PROVE Place(g)'
      <4>1. g \in OnCpu => ~Ended(g)
        BY <1>2, <2>1
      <4> QED
        BY <1>0, <1>1, <2>1, <2>2, <3>3, <3>4, <3>5, <4>1, PlaceSame
    <3>6. Place(f)'
      <4>1. f \notin Waiting' /\ \A k \in Fds, ev \in Event : chan'[k][ev] # f
        BY <2>1, <3>1, <3>2 DEF Waiting
      <4> QED
        BY <2>1, <2>2, <3>1, <3>2, <3>3, <3>4, <4>1 DEF Place
    <3> QED
      BY <3>3, <3>5, <3>6 DEF PlaceInv
  <2> QED
    BY <1>0, <1>10, <2>3, <2>4
<1>11. ASSUME NEW S \in SUBSET Fibers, NEW s \in Seq(Fiber), StartStep(S, s) PROVE PlaceInv'
  <2>1. /\ IsInjective(s) /\ \A i \in DOMAIN s : \E f \in S : s[i] = Task(f)
        /\ queue' = queue \o s /\ UNCHANGED <<chan, timers, cpu>>
        /\ \A f \in S : Started(f)
        /\ \A f \in Fibers \ S : fib'[f] = fib[f] \/ Progress(f)
    BY <1>11 DEF StartStep, Started
  <2>2. /\ s \in Seq(Items) /\ Once(s)
        /\ \A f : f \in QueuedIn(s) <=> f \in Fibers /\ \E i \in DOMAIN s : s[i] = Task(f)
    BY <2>1, TaskSeq
  <2>3. QueuedIn(s) \subseteq S
    BY <2>1, <2>2, ItemTypes
  <2>4. \A f \in S : f \notin QueuedIn(queue) /\ f \notin OnCpu
    BY <1>0, <2>1 DEF Place, Started
  <2>5. Once(queue') /\ QueuedIn(queue') = QueuedIn(queue) \cup QueuedIn(s)
    <3>1. QueuedIn(queue) \cap QueuedIn(s) = {}
      BY <2>3, <2>4
    <3> QED
      BY <1>0, <2>1, <2>2, <3>1, QueueConcat
  <2>6. ASSUME NEW f \in Fibers PROVE Place(f)'
    <3>1. f \in OnCpu => ~Ended(f)
      BY <1>2, <2>1, <2>4
    <3>2. /\ f \in OnCpu' <=> f \in OnCpu
          /\ f \in Armed' <=> f \in Armed
      BY <2>1 DEF OnCpu, Armed, Task, Alarm
    <3>3. f \in QueuedIn(s) => Started(f)
      BY <2>1, <2>3
    <3> QED
      BY <1>0, <2>1, <2>5, <3>1, <3>2, <3>3, PlaceSame
  <2> QED
    BY <2>5, <2>6 DEF PlaceInv
<1> QED
  BY <1>4, <1>5, <1>6, <1>7, <1>8, <1>9, <1>10, <1>11 DEF Going_on

Placed == Basic /\ PlaceInv /\ nthreads \in Pools

LEMMA PlacedStep ==
  ASSUME Placed, Next
  PROVE  Placed'
<1>1. /\ Basic /\ Types /\ FlagsInv /\ RoleInv /\ PlaceInv
      /\ Going_on \/ \E S \in SUBSET Fibers, s \in Seq(Fiber) : StartStep(S, s)
  BY Kinds_of_steps DEF Placed, Basic
<1>2. Basic' /\ PlaceInv'
  BY <1>1, BasicStep, PlaceStep
<1>3. nthreads' = nthreads
  <2>1. ChanType' /\ IsFiniteSet(cpu') /\ Cardinality(cpu') <= nthreads
    BY <1>1, ChanAndCpu
  <2> QED
    BY <1>1, <2>1, NextState DEF AllOK
<1> QED
  BY <1>2, <1>3 DEF Placed

LEMMA PlacedAlways == Spec => []Placed
<1>1. Init => Placed
  <2> SUFFICES ASSUME Init PROVE Placed
    OBVIOUS
  <2>1. Basic
    BY InitTypes DEF Basic, ItemInv
  <2>2. /\ nthreads \in Pools /\ timers = {} /\ queue = <<>> /\ cpu = {}
        /\ chan = [d \in Fds |-> NoWaiter]
        /\ \A f \in Fibers : fib[f].pc = "none"
    BY InitTypes DEF Init, SocketInit, HookInit
  <2>3. Entries(queue) = {}
    BY <2>2 DEF Entries
  <2>4. \A f \in Fibers, d \in Fds, e \in Event : chan[d][e] # f
    BY <2>2, HookAssumption DEF NoWaiter
  <2>5. \A f \in Fibers : f \notin OnCpu /\ f \notin Armed /\ f \notin Waiting /\ f \notin QueuedIn(queue)
    BY <2>2, <2>3, <2>4 DEF OnCpu, Armed, Waiting, QueuedIn
  <2>6. \A f \in Fibers : Place(f)
    BY <2>2, <2>4, <2>5 DEF Place
  <2>7. Once(queue)
    BY <2>3 DEF Once
  <2> QED
    BY <2>1, <2>2, <2>6, <2>7 DEF Placed, PlaceInv
<1>2. Placed /\ [Next]_vars => Placed'
  <2> SUFFICES ASSUME Placed, [Next]_vars PROVE Placed'
    OBVIOUS
  <2>1. CASE UNCHANGED vars
    <3>1. /\ UNCHANGED <<nthreads, fib, kern, ctx, chan, reg, timers, queue, cpu, raced, misled, stale,
                         sockfd, conn, serving, running, socks, fails, todo, owner>>
      BY <2>1 DEF vars, sockVars, hookVars, serverVars, history
    <3>2. Basic'
      BY <3>1 DEF Placed, Basic, Types, FibOK, KernOK, ChanOK,
                ItemsOK, CpuOK, SockOK, HistOK, OwnerOK, WaitedFor, FlagsInv, RoleInv, Early,
                ItemInv, Pending, OfSocket, Range, Task, Alarm
    <3>3. PlaceInv'
      BY <3>1 DEF Placed, PlaceInv, Place, Once, Entries, QueuedIn, OnCpu, Armed, Waiting, Task, Alarm
    <3> QED
      BY <3>1, <3>2, <3>3 DEF Placed
  <2> QED
    BY <2>1, PlacedStep
<1> QED
  BY <1>1, <1>2, PTL DEF Spec

(***************************************************************************)
(* Types; the runs of tasks are at most the threads, and a fiber is in     *)
(* tasks_ at most once, whoever of handleEvent, cancelAll, cancelEvent and *)
(* the timers' callbacks schedules it: each takes the waiter out of its    *)
(* place before it schedules it.                                           *)
(***************************************************************************)
THEOREM TypesHold == Spec => []TypeOK
<1>1. Placed => TypeOK
  <2> SUFFICES ASSUME Placed PROVE TypeOK
    OBVIOUS
  <2>1. Types /\ PlaceInv /\ nthreads \in Pools
    BY DEF Placed, Basic
  <2>2. \A f \in Fibers : fib[f].fd \in Fds \cup {NoFd} /\ fib[f].sock \in Socks \cup {NoSock}
    BY <2>1 DEF Types, FibOK, FibRec
  <2>3. \A d \in Fds : /\ kern[d].ready \subseteq Event /\ kern[d].sock \in Socks \cup {NoSock}
                       /\ ctx[d].timeout \subseteq Event /\ reg[d] \subseteq Event
                       /\ chan[d] \in [Event -> Fibers \cup {NoFiber}]
    BY <2>1 DEF Types, KernOK, KernRec, CtxRec, ChanOK
  <2>4. ASSUME NEW f \in Fibers
        PROVE  Cardinality({i \in DOMAIN queue : queue[i] = Task(f)}) <= 1
    <3> DEFINE I == {i \in DOMAIN queue : queue[i] = Task(f)}
    <3>0. SUFFICES Cardinality(I) <= 1
      OBVIOUS
    <3>1. \A i, j \in I : i = j
      <4>1. \A i \in I : i \in Entries(queue) /\ queue[i].f = f
        BY ItemFacts DEF Entries
      <4> QED
        BY <2>1, <4>1 DEF PlaceInv, Once
    <3> HIDE DEF I
    <3>2. CASE I = {}
      BY <3>2, FS_EmptySet
    <3>3. CASE I # {}
      <4>1. PICK i \in I : TRUE
        BY <3>3
      <4>2. I = {i}
        BY <3>1, <4>1
      <4>3. Cardinality(I) = 1
        BY <4>2, FS_Singleton
      <4> QED
        BY <4>3
    <3> QED
      BY <3>2, <3>3
  <2> QED
    BY <2>1, <2>2, <2>3, <2>4 DEF TypeOK, Types, CpuOK, SockOK, HistOK, OwnerOK
<1> QED
  BY <1>1, PlacedAlways, PTL
-----------------------------------------------------------------------------
(* Which calls a fiber makes *)

ClosePCs == {"enter", "cancelAll", "remove", "close_f", "done"}
CallPCs == {"try", "arm", "add", "wait", "soerror", "cancelAll", "remove", "close_f", "done"}

Ops(f) ==
  /\ fib[f].pc \in {"none", "term", "loop", "body"} => fib[f].op = "none"
  /\ fib[f].op = "close" => fib[f].pc \in ClosePCs
  /\ fib[f].pc \in {"cancelAll", "remove", "close_f"} => fib[f].op = "close"
  /\ fib[f].pc \in {"accepted", "init"} => fib[f].op = "accept"
  /\ fib[f].op = "accept" => f \in Acceptors
  /\ f \in Acceptors => fib[f].op \in {"none", "accept"}
  /\ serving => fib[f].op # "connect"
  /\ f = Stopper => fib[f].op = "none" \/ (fib[f].op = "close" /\ fib[f].sock \in Listeners)
  /\ f \in Users /\ serving /\ fib[f].op = "close" => fib[f].sock = Own[f]
  /\ f \notin Users \cup Acceptors \cup {Stopper} => fib[f].pc = "none"

OpsInv == \A f \in Fibers : Ops(f)

LEMMA ServingSame ==
  ASSUME Next
  PROVE  serving' = serving
<1>1. CASE Owner
  BY <1>1 DEF Owner, bind, bindOne, bindEnd, destroy, start, stop
<1>2. CASE UserStart
  BY <1>2 DEF UserStart, serverVars
<1>3. CASE Threads
  <2>1. CASE (LoopStep \/ \E f \in Fibers : CallStep(f)) /\ Outer
    BY <2>1 DEF Outer, serverVars
  <2>2. CASE \E l \in Listeners : AcceptStep(l)
    BY <2>2 DEF AcceptStep, AcceptLoop, handleClient, AcceptFailed, serverVars
  <2>3. CASE StopStep
    BY <2>3 DEF StopStep, StopEnd, StopSocket, StopClose, StopNext, serverVars
  <2>4. CASE \E u \in Users : UserStep(u)
    BY <2>4 DEF UserStep, UserCall, UserClose, UserReturn, UserEnd, serverVars
  <2> QED
    BY <1>3, <2>1, <2>2, <2>3, <2>4 DEF Threads
<1>4. CASE Timing \/ Reporting \/ Environment
  BY <1>4 DEF Timing, Reporting, Environment, Outer, serverVars
<1> QED
  BY <1>1, <1>2, <1>3, <1>4 DEF Next

(* A step of a call leaves its subject alone. *)
LEMMA CallMoves ==
  ASSUME FibOK, NEW f \in Fibers, CallStep(f)
  PROVE  /\ Moves(f)
         /\ fib'[f].op = fib[f].op /\ fib'[f].sock = fib[f].sock /\ fib'[f].fd = fib[f].fd
         /\ fib'[f].no = fib[f].no
         /\ fib[f].pc \in CallPCs \cup {"enter"} /\ fib'[f].pc \in CallPCs
         /\ fib[f].op = "close" /\ fib[f].pc \in ClosePCs => fib'[f].pc \in ClosePCs
         /\ fib'[f].pc \in {"cancelAll", "remove", "close_f"} =>
              fib[f].op = "close" \/ fib[f].pc \in {"cancelAll", "remove"}
<1> DEFINE Good(pc) ==
      /\ Moves(f)
      /\ fib'[f].op = fib[f].op /\ fib'[f].sock = fib[f].sock /\ fib'[f].fd = fib[f].fd
      /\ fib'[f].no = fib[f].no
      /\ fib'[f].pc = pc
<1>1. \A pc \in CallPCs : GoOn(f, pc) => Good(pc)
  BY GoOnFacts DEF Goes_on, CallPCs, PCs
<1>2. \A r \in Results : Return(f, r) => Good("done")
  BY ReturnFacts
<1> HIDE DEF Good
<1>3. {"ok", "error", "again", "timeout"} \subseteq Results
  BY DEF Results
<1>4. CASE Enter(f)
  <2> DEFINE d == fib[f].fd
             known == d \in Fds /\ ctx[d].there
             loop == known /\ ~ctx[d].user
             timed == loop /\ EventOf(fib[f].op) \in ctx[d].timeout
  <2>1. At(f, "enter")
    BY SMTT(60), <1>4 DEF Enter
  <2>2. \/ fib' = [fib EXCEPT ![f].pc = "try", ![f].loop = loop, ![f].timed = timed] /\ fib[f].op # "close"
        \/ fib' = [fib EXCEPT ![f].pc = "try", ![f].loop = loop, ![f].timed = loop] /\ fib[f].op # "close"
        \/ Return(f, "error")
        \/ GoOn(f, "arm") /\ fib[f].op # "close"
        \/ (GoOn(f, "cancelAll") \/ GoOn(f, "close_f")) /\ fib[f].op = "close"
    BY <1>4 DEF Enter, IoOps
  <2>3. loop \in BOOLEAN /\ timed \in BOOLEAN
    OBVIOUS
  <2> HIDE DEF loop, timed
  <2>4. ASSUME NEW b \in BOOLEAN, NEW c \in BOOLEAN,
               fib' = [fib EXCEPT ![f].pc = "try", ![f].loop = b, ![f].timed = c]
        PROVE  Good("try")
    BY Zenon, <2>4, TryFacts DEF Good
  <2>5. \/ Good("try") /\ fib[f].op # "close"
        \/ Good("done")
        \/ Good("arm") /\ fib[f].op # "close"
        \/ (Good("cancelAll") \/ Good("close_f")) /\ fib[f].op = "close"
    BY Zenon, <1>1, <1>2, <1>3, <2>2, <2>3, <2>4 DEF CallPCs
  <2> QED
    BY <2>1, <2>5 DEF Good, At, CallPCs, ClosePCs
<1>5. CASE TryIo(f) \/ TryConnect(f)
  <2>1. At(f, "try") /\ \E r \in {"ok", "error", "again"} : Return(f, r) \/ GoOn(f, "arm")
    BY <1>5 DEF TryIo, TryConnect, WouldBlock
  <2>2. Good("done") \/ Good("arm")
    BY <1>1, <1>2, <1>3, <2>1 DEF CallPCs
  <2> QED
    BY <2>1, <2>2 DEF Good, At, CallPCs, ClosePCs
<1>6. CASE Arm(f) \/ addEvent(f) \/ Woken(f) \/ SoError(f)
  <2>1. /\ fib[f].pc \in {"arm", "add", "wait", "soerror"}
        /\ \/ \E r \in {"ok", "error", "timeout"} : Return(f, r)
           \/ \E pc \in {"add", "wait", "soerror", "try"} : GoOn(f, pc)
    BY <1>6 DEF Arm, addEvent, Woken, SoError, At, Suspend
  <2>2. \E pc \in {"add", "wait", "soerror", "try", "done"} : Good(pc)
    BY <1>1, <1>2, <1>3, <2>1 DEF CallPCs
  <2> QED
    BY <2>1, <2>2 DEF Good, CallPCs, ClosePCs
<1>7. CASE CloseCancel(f) \/ CloseRemove(f) \/ CloseF(f)
  <2>1. \/ fib[f].pc = "cancelAll" /\ GoOn(f, "remove")
        \/ fib[f].pc = "remove" /\ GoOn(f, "close_f")
        \/ fib[f].pc = "close_f" /\ \E r \in {"ok", "error"} : Return(f, r)
    BY <1>7 DEF CloseCancel, CloseRemove, CloseF, At
  <2>2. \/ fib[f].pc = "cancelAll" /\ Good("remove")
        \/ fib[f].pc = "remove" /\ Good("close_f")
        \/ fib[f].pc = "close_f" /\ Good("done")
    BY <1>1, <1>2, <1>3, <2>1 DEF CallPCs
  <2> QED
    BY <2>2 DEF Good, CallPCs, ClosePCs
<1> QED
  BY <1>4, <1>5, <1>6, <1>7 DEF CallStep

(* f sets out on closing a Socket with the descriptor it has. *)
Closes(f) ==
  /\ fib'[f].pc = "enter" /\ fib'[f].op = "close" /\ fib'[f].sock \in Socks
  /\ fib'[f].fd = sockfd[fib'[f].sock] /\ fib'[f].fd # NoFd

LEMMA FinishedMoves ==
  ASSUME Types, FlagsInv, NEW f \in Fibers, NEW pc \in {"loop", "body"}, finished(f, pc)
  PROVE  /\ fib[f].pc = "done"
         /\ \/ fib'[f] = Rest(f, pc)
            \/ /\ fib[f].op = "connect" /\ sockfd[fib[f].sock] # NoFd
               /\ Call(f, "close", sockfd[fib[f].sock])
               /\ Closes(f) /\ fib'[f].sock = fib[f].sock
<1>1. FibOK /\ pc \in PCs /\ SockOK
  BY DEF Types, PCs
<1>2. fib[f].pc = "done"
  BY DEF finished, At
<1>3. Between(f, pc) => fib'[f] = Rest(f, pc)
  BY <1>1, BetweenFacts
<1>4. CASE fib[f].op = "connect" /\ Call(f, "close", sockfd[fib[f].sock]) /\ sockfd[fib[f].sock] # NoFd
  <2> DEFINE d == sockfd[fib[f].sock]
  <2>1. d \in Fds \cup {NoFd}
    BY <1>1, <1>4 DEF SockOK, FlagsInv, OfSocket
  <2>2. "close" \in Operations
    BY DEF Operations
  <2> HIDE DEF d
  <2>3. Call(f, "close", d)
    BY <1>4 DEF d
  <2>4. fib'[f].pc = "enter" /\ fib'[f].op = "close" /\ fib'[f].sock = fib[f].sock /\ fib'[f].fd = d
    BY <1>1, <2>1, <2>2, <2>3, CallFacts
  <2>5. fib[f].sock \in Socks
    BY <1>4 DEF FlagsInv, OfSocket
  <2> QED
    BY <1>2, <1>4, <2>4, <2>5 DEF Closes, d
<1> QED
  BY <1>2, <1>3, <1>4 DEF finished

LEMMA MethodMoves ==
  ASSUME Types, NEW f \in Fibers, NEW op \in Operations, NEW s \in Socks, NEW d \in Fds \cup {NoFd},
         Method(f, op, s, d)
  PROVE  /\ fib'[f].pc = "enter" /\ fib'[f].op = op /\ fib'[f].sock = s /\ fib'[f].fd = d
         /\ \A g \in Fibers : g # f => fib'[g] = fib[g]
  BY MethodFacts DEF Types, Moves

(* How a user's fiber gets out of the body of its function, and into it. *)
LEMMA UserMoves ==
  ASSUME Types, FlagsInv, NEW u \in Users, UserStep(u)
  PROVE  /\ fib[u].pc \in {"body", "done"}
         /\ \/ /\ fib'[u].pc = fib[u].pc /\ fib'[u].op = fib[u].op /\ fib'[u].sock = fib[u].sock
               /\ fib'[u].fd = fib[u].fd
            \/ fib'[u].pc \in {"body", "term"} /\ fib'[u].op = "none"
            \/ fib'[u].pc = "enter" /\ fib'[u].op \in {"sleep", "recv", "send"}
            \/ fib'[u].pc = "enter" /\ fib'[u].op = "connect" /\ ~serving
            \/ /\ Closes(u)
               /\ serving => fib'[u].sock = Own[u] \/ fib[u].op = "connect"
<1>0. u \in Fibers /\ FibOK /\ fib[u] \in FibRec /\ SockOK /\ Own[u] \in Socks
  BY OwnType DEF Types, FibOK
<1>1. {"sleep", "recv", "send", "connect", "close"} \subseteq Operations
  BY DEF Operations
<1>2. ASSUME NEW op \in {"recv", "send", "connect", "close"}, NEW s \in Socks,
             NEW d \in Fds \cup {NoFd}, Method(u, op, s, d)
      PROVE  fib'[u].pc = "enter" /\ fib'[u].op = op /\ fib'[u].sock = s /\ fib'[u].fd = d
  BY <1>0, <1>1, <1>2, MethodMoves
<1>3. \A s \in Socks : sockfd[s] \in Fds \cup {NoFd}
  BY <1>0 DEF SockOK
<1>4. CASE sleep(u)
  <2>1. Method(u, "sleep", NoSock, NoFd) /\ fib[u].pc = "body"
    BY <1>4 DEF sleep, At
  <2>2. fib'[u].pc = "enter" /\ fib'[u].op = "sleep"
    BY <1>0, <1>1, <2>1, MethodFacts
  <2> QED
    BY <2>1, <2>2
<1>5. ASSUME NEW s \in Socks, NEW op \in {"recv", "send"}, transfer(u, s, op)
      PROVE  fib[u].pc = "body" /\ fib'[u].pc = "enter" /\ fib'[u].op \in {"recv", "send"}
  <2>1. Method(u, op, s, sockfd[s]) /\ fib[u].pc = "body"
    BY <1>5 DEF transfer, At
  <2> QED
    BY <1>2, <1>3, <2>1
<1>6. ASSUME NEW s \in Socks, connect(u, s)
      PROVE  fib[u].pc = "body" /\ fib'[u].pc = "enter" /\ fib'[u].op = "connect"
  <2>1. Method(u, "connect", s, sockfd'[s]) /\ fib[u].pc = "body"
    BY <1>6 DEF connect, At
  <2>2. sockfd'[s] \in Fds \cup {NoFd}
    BY <1>0, <1>3, <1>6, NewFdFree DEF connect, newSock, SockOK
  <2> QED
    BY <1>2, <2>1, <2>2
<1>7. ASSUME NEW s \in Socks, close(u, s)
      PROVE  /\ fib[u].pc = "body"
             /\ (Closes(u) /\ fib'[u].sock = s) \/ fib'[u] = fib[u]
  <2>1. /\ fib[u].pc = "body"
        /\ (Method(u, "close", s, sockfd[s]) /\ sockfd[s] # NoFd) \/ UNCHANGED fib
    BY <1>7 DEF close, At
  <2> QED
    BY <1>2, <1>3, <2>1 DEF Closes
<1>8. ASSUME NEW s \in Socks, setFlags(u, s)
      PROVE  /\ fib[u].pc = "body"
             /\ fib'[u].pc = fib[u].pc /\ fib'[u].op = fib[u].op /\ fib'[u].sock = fib[u].sock
             /\ fib'[u].fd = fib[u].fd
  BY <1>0, <1>8 DEF setFlags, At, FibOK, FibRec
<1>9. CASE UserCall(u)
  <2>1. CASE serving /\ sleep(u)
    BY <1>4, <2>1
  <2>2. CASE serving /\ \E op \in {"recv", "send"} : transfer(u, Own[u], op)
    BY <1>0, <1>5, <2>2
  <2>3. ASSUME ~serving, NEW s \in Socks,
               \/ connect(u, s) \/ (\E op \in {"recv", "send"} : transfer(u, s, op))
               \/ close(u, s) \/ setFlags(u, s)
        PROVE  /\ fib[u].pc = "body"
               /\ \/ /\ fib'[u].pc = fib[u].pc /\ fib'[u].op = fib[u].op /\ fib'[u].sock = fib[u].sock
                     /\ fib'[u].fd = fib[u].fd
                  \/ fib'[u].pc = "enter" /\ fib'[u].op \in {"recv", "send", "connect"}
                  \/ Closes(u)
    BY <1>5, <1>6, <1>7, <1>8, <2>3
  <2> QED
    BY <1>9, <2>1, <2>2, <2>3 DEF UserCall
<1>10. CASE UserClose(u)
  <2>1. serving /\ close(u, Own[u])
    BY <1>10 DEF UserClose
  <2> QED
    BY <1>0, <1>7, <2>1
<1>11. CASE UserReturn(u)
  <2>1. finished(u, "body")
    BY <1>11 DEF UserReturn
  <2>2. "body" \in PCs
    BY DEF PCs
  <2>3. Rest(u, "body").pc = "body" /\ Rest(u, "body").op = "none"
    BY <1>0, <2>2, RestFacts
  <2> QED
    BY <1>0, <2>1, <2>3, FinishedMoves
<1>12. CASE UserEnd(u)
  <2>1. fib[u].pc = "body" /\ Terminate(u)
    BY <1>12 DEF UserEnd, At
  <2> QED
    BY <1>0, <2>1, TerminateFacts
<1> QED
  BY <1>9, <1>10, <1>11, <1>12 DEF UserStep

LEMMA StopMoves ==
  ASSUME Types, FlagsInv, StopStep
  PROVE  /\ fib[Stopper].pc \in {"loop", "body", "done"}
         /\ \/ fib'[Stopper] = fib[Stopper]
            \/ fib'[Stopper].pc \in {"loop", "term"} /\ fib'[Stopper].op = "none"
            \/ /\ fib[Stopper].pc = "loop"
               /\ fib'[Stopper].pc = "body" /\ fib'[Stopper].op = fib[Stopper].op
            \/ /\ Closes(Stopper)
               /\ fib'[Stopper].sock \in Listeners \/ fib[Stopper].op = "connect"
<1> DEFINE f == Stopper
<1>0. f \in Fibers /\ Listeners \subseteq Socks
  BY ServerAssumption
<1> SUFFICES /\ fib[f].pc \in {"loop", "body", "done"}
             /\ \/ fib'[f] = fib[f]
                \/ fib'[f].pc \in {"loop", "term"} /\ fib'[f].op = "none"
                \/ fib[f].pc = "loop" /\ fib'[f].pc = "body" /\ fib'[f].op = fib[f].op
                \/ /\ Closes(f)
                   /\ fib'[f].sock \in Listeners \/ fib[f].op = "connect"
  OBVIOUS
<1>1. FibOK /\ fib[f] \in FibRec /\ SockOK /\ "close" \in Operations /\ "loop" \in PCs
  BY <1>0 DEF Types, FibOK, Operations, PCs
<1>2. CASE StopEnd
  <2>1. fib[f].pc = "loop" /\ Terminate(f)
    BY <1>2 DEF StopEnd, At
  <2> QED
    BY <1>0, <1>1, <2>1, TerminateFacts
<1>3. ASSUME NEW l \in Listeners, StopSocket(l)
      PROVE  fib[f].pc = "loop" /\ fib'[f].pc = "body" /\ fib'[f].op = fib[f].op
  BY <1>0, <1>1, <1>3 DEF StopSocket, At, FibOK, FibRec
<1>4. ASSUME NEW l \in Listeners, StopClose(l)
      PROVE  /\ fib[f].pc = "body"
             /\ (Closes(f) /\ fib'[f].sock = l) \/ fib'[f] = fib[f]
  <2>1. /\ fib[f].pc = "body"
        /\ (Method(f, "close", l, sockfd[l]) /\ sockfd[l] # NoFd) \/ UNCHANGED fib
    BY <1>4 DEF StopClose, close, At
  <2>2. sockfd[l] \in Fds \cup {NoFd} /\ l \in Socks
    BY <1>0, <1>1 DEF SockOK
  <2> QED
    BY <1>0, <1>1, <2>1, <2>2, MethodMoves DEF Closes
<1>5. ASSUME NEW l \in Listeners, StopNext(l)
      PROVE  /\ fib[f].pc = "done"
             /\ \/ fib'[f].pc = "loop" /\ fib'[f].op = "none"
                \/ Closes(f) /\ fib[f].op = "connect"
  <2>1. finished(f, "loop")
    BY <1>5 DEF StopNext
  <2>2. Rest(f, "loop").pc = "loop" /\ Rest(f, "loop").op = "none"
    BY <1>0, <1>1, RestFacts
  <2> QED
    BY <1>0, <2>1, <2>2, FinishedMoves
<1> QED
  BY <1>2, <1>3, <1>4, <1>5 DEF StopStep

LEMMA AcceptMoves ==
  ASSUME Types, FlagsInv, NEW l \in Listeners, AcceptStep(l), NEW a \in Fibers, a = Acceptor[l]
  PROVE  /\ fib[a].pc \in {"loop", "init", "done", "try", "accepted"}
         /\ \/ fib'[a].pc = "enter" /\ fib'[a].op = "accept"
            \/ fib'[a].pc \in {"loop", "term"} /\ fib'[a].op = "none"
            \/ /\ fib[a].pc = "try" /\ fib[a].op = "accept"
               /\ fib'[a].pc = "accepted" /\ fib'[a].op = "accept"
            \/ fib[a].pc = "accepted" /\ fib'[a].pc = "init" /\ fib'[a].op = fib[a].op
<1>1. FibOK /\ SockOK /\ "accept" \in Operations /\ "loop" \in PCs /\ "init" \in PCs /\ l \in Socks
  BY ServerAssumption DEF Types, Operations, PCs
<1>2. Rest(a, "loop").pc = "loop" /\ Rest(a, "loop").op = "none"
  BY <1>1, RestFacts
<1>3. CASE AcceptLoop(l)
  <2>1. fib[a].pc = "loop" /\ (Call(a, "accept", sockfd[l]) \/ Terminate(a))
    BY <1>3 DEF AcceptLoop, At
  <2>2. sockfd[l] \in Fds \cup {NoFd}
    BY <1>1 DEF SockOK
  <2> QED
    BY <1>1, <2>1, <2>2, CallFacts, TerminateFacts
<1>4. CASE handleClient(l)
  <2>1. PICK u \in Unused : fib' = [fib EXCEPT ![a] = Rest(a, "loop"), ![u].pc = "body"]
    BY <1>4 DEF handleClient
  <2>2. fib[a].pc = "init"
    BY <1>4 DEF handleClient, At
  <2>3. u # a
    BY <2>1, <2>2 DEF Unused
  <2>4. fib'[a] = Rest(a, "loop")
    BY <1>1, <2>1, <2>3 DEF FibOK
  <2> QED
    BY <1>2, <2>2, <2>4
<1>5. CASE AcceptFailed(l)
  <2>1. fib[a].pc = "done" /\ Between(a, "loop")
    BY SMTT(60), <1>5 DEF AcceptFailed, At
  <2> QED
    BY <1>1, <1>2, <2>1, BetweenFacts
<1>6. ASSUME NEW u \in Unused, TryAccept(a, Own[u])
      PROVE  fib[a].pc = "try" /\ fib[a].op = "accept" /\ fib'[a].pc = "accepted" /\ fib'[a].op = "accept"
  <2>1. Own[u] \in Socks
    BY OwnType DEF Unused
  <2> QED
    BY ZenonT(60), <1>1, <1>6, <2>1, TryAcceptFacts DEF TryAccept, At
<1>7. CASE Accepted(a)
  BY <1>1, <1>7, GoOnFacts DEF Accepted, At, Goes_on
<1> QED
  BY <1>3, <1>4, <1>5, <1>6, <1>7 DEF AcceptStep

(* A fiber that starts has made no call. *)
LEMMA StartMoves ==
  ASSUME Types, FlagsInv, RoleInv, NEW f \in Fibers, fib[f].pc = "none", fib'[f] # fib[f],
         Owner \/ UserStart \/ \E l \in Listeners : handleClient(l)
  PROVE  /\ f \in Acceptors \cup {Stopper} \cup Users
         /\ fib'[f].pc \in {"loop", "body"} /\ fib'[f].op \in {fib[f].op, "none"}
<1>0. FibOK /\ fib[f] \in FibRec
  BY DEF Types, FibOK
<1>1. CASE Owner
  <2>1. CASE bind \/ (\E l \in Listeners : bindOne(l)) \/ bindEnd \/ destroy
    BY <2>1 DEF bind, bindOne, bindEnd, destroy, Clear, sockVars, hookVars
  <2>2. CASE start
    <3>1. f \in Acceptors /\ fib'[f] = [fib[f] EXCEPT !.pc = "loop"]
      BY <1>0, <2>2 DEF start
    <3> QED
      BY <1>0, <3>1 DEF FibRec
  <2>3. CASE stop
    <3>1. f = Stopper /\ fib'[f] = [fib[f] EXCEPT !.pc = "loop"]
      BY <1>0, <2>3 DEF stop, FibOK
    <3> QED
      BY <1>0, <3>1 DEF FibRec
  <2> QED
    BY <1>1, <2>1, <2>2, <2>3 DEF Owner
<1>2. CASE UserStart
  <2>1. f \in Users /\ fib'[f] = Rest(f, "body")
    BY <1>0, <1>2 DEF UserStart
  <2>2. "body" \in PCs
    BY DEF PCs
  <2> QED
    BY <1>0, <2>1, <2>2, RestFacts
<1>3. ASSUME NEW l \in Listeners, handleClient(l)
      PROVE  f \in Users /\ fib'[f].pc = "body" /\ fib'[f].op = fib[f].op
  <2> DEFINE a == Acceptor[l]
  <2>1. PICK u \in Unused : fib' = [fib EXCEPT ![a] = Rest(a, "loop"), ![u].pc = "body"]
    BY <1>3 DEF handleClient
  <2>2. fib[a].pc = "init"
    BY <1>3 DEF handleClient, At
  <2>3. f # a /\ f = u
    BY <1>0, <2>1, <2>2 DEF FibOK
  <2>4. fib'[f] = [fib[f] EXCEPT !.pc = "body"]
    BY <1>0, <2>1, <2>3 DEF FibOK
  <2> QED
    BY <1>0, <2>3, <2>4 DEF FibRec, Unused
<1> QED
  BY <1>1, <1>2, <1>3

LEMMA OpsStep ==
  ASSUME Basic, OpsInv, Next
  PROVE  OpsInv'
<1>0. Types /\ FlagsInv /\ RoleInv /\ FibOK
  BY DEF Basic, Types
<1>1. serving' = serving
  BY ServingSame
<1>2. Stopper \notin Users \cup Acceptors /\ Users \cap Acceptors = {} /\ Stopper \in Fibers
  BY ServerAssumption
<1> SUFFICES ASSUME NEW f \in Fibers PROVE Ops(f)'
  BY DEF OpsInv
<1>3. Ops(f) /\ fib[f] \in FibRec
  BY <1>0 DEF OpsInv, FibOK
<1>4. CASE fib'[f] = fib[f]
  BY <1>1, <1>3, <1>4 DEF Ops
<1>5. CASE CallStep(f)
  <2>1. /\ fib'[f].op = fib[f].op /\ fib'[f].sock = fib[f].sock
        /\ fib[f].pc \in CallPCs \cup {"enter"} /\ fib'[f].pc \in CallPCs
        /\ fib[f].op = "close" /\ fib[f].pc \in ClosePCs => fib'[f].pc \in ClosePCs
        /\ fib'[f].pc \in {"cancelAll", "remove", "close_f"} =>
              fib[f].op = "close" \/ fib[f].pc \in {"cancelAll", "remove"}
    BY <1>0, <1>5, CallMoves
  <2> QED
    BY <1>1, <1>3, <2>1 DEF Ops, CallPCs
<1>6. CASE fib'[f] = [fib[f] EXCEPT !.cancelled = TRUE]
  <2>1. fib'[f].pc = fib[f].pc /\ fib'[f].op = fib[f].op /\ fib'[f].sock = fib[f].sock
    BY <1>3, <1>6 DEF FibRec
  <2> QED
    BY <1>1, <1>3, <2>1 DEF Ops
<1>7. CASE /\ fib[f].pc = "none" /\ fib'[f] # fib[f]
           /\ Owner \/ UserStart \/ \E l \in Listeners : handleClient(l)
  <2>1. fib[f].op = "none"
    BY <1>3, <1>7 DEF Ops
  <2>2. /\ f \in Acceptors \cup {Stopper} \cup Users
        /\ fib'[f].pc \in {"loop", "body"} /\ fib'[f].op = "none"
    BY <1>0, <1>7, <2>1, StartMoves
  <2> QED
    BY <2>2 DEF Ops
<1>8. ASSUME NEW l \in Listeners, f = Acceptor[l], AcceptStep(l) PROVE Ops(f)'
  <2>1. f \in Acceptors /\ f # Stopper /\ f \notin Users
    BY <1>2, <1>8 DEF Acceptors
  <2>2. /\ fib'[f].pc \in {"enter", "loop", "term", "accepted", "init"}
        /\ fib'[f].op \in {"accept", "none"}
        /\ fib'[f].pc \in {"accepted", "init"} => fib'[f].op = "accept"
        /\ fib'[f].pc \in {"loop", "term"} => fib'[f].op = "none"
    <3>1. fib[f].pc = "accepted" => fib[f].op = "accept"
      BY <1>3 DEF Ops
    <3> QED
      BY <1>0, <1>8, <3>1, AcceptMoves
  <2> QED
    BY <2>1, <2>2 DEF Ops, ClosePCs
<1>9. CASE f = Stopper /\ StopStep /\ fib'[f] # fib[f]
  <2>1. f \notin Acceptors /\ f \notin Users
    BY <1>2, <1>9
  <2>2. fib[f].op \in {"none", "close"}
    BY <1>3, <1>9 DEF Ops
  <2>3. \/ fib'[f].pc \in {"loop", "term"} /\ fib'[f].op = "none"
        \/ fib[f].pc = "loop" /\ fib'[f].pc = "body" /\ fib'[f].op = fib[f].op
        \/ /\ fib'[f].pc = "enter" /\ fib'[f].op = "close"
           /\ fib'[f].sock \in Listeners \/ fib[f].op = "connect"
    BY <1>0, <1>9, StopMoves DEF Closes
  <2>4. fib[f].pc = "loop" => fib[f].op = "none"
    BY <1>3 DEF Ops
  <2>5. \/ fib'[f].pc \in {"loop", "term", "body"} /\ fib'[f].op = "none"
        \/ fib'[f].pc = "enter" /\ fib'[f].op = "close" /\ fib'[f].sock \in Listeners
    BY <2>2, <2>3, <2>4
  <2> QED
    BY <1>9, <2>1, <2>5 DEF Ops, ClosePCs
<1>10. CASE f \in Users /\ UserStep(f)
  <2>1. f \notin Acceptors /\ f # Stopper
    BY <1>2, <1>10
  <2>2. serving => fib[f].op # "connect"
    BY <1>3 DEF Ops
  <2>3. /\ fib[f].pc \in {"body", "done"}
        /\ \/ fib'[f].pc = fib[f].pc /\ fib'[f].op = fib[f].op /\ fib'[f].sock = fib[f].sock
           \/ fib'[f].pc \in {"body", "term"} /\ fib'[f].op = "none"
           \/ fib'[f].pc = "enter" /\ fib'[f].op \in {"sleep", "recv", "send"}
           \/ fib'[f].pc = "enter" /\ fib'[f].op = "connect" /\ ~serving
           \/ /\ fib'[f].pc = "enter" /\ fib'[f].op = "close"
              /\ serving => fib'[f].sock = Own[f] \/ fib[f].op = "connect"
    BY <1>0, <1>10, UserMoves DEF Closes
  <2>4. CASE fib'[f].pc = fib[f].pc /\ fib'[f].op = fib[f].op /\ fib'[f].sock = fib[f].sock
    BY <1>1, <1>3, <2>4 DEF Ops
  <2>5. CASE fib'[f].pc \in {"body", "term"} /\ fib'[f].op = "none"
    BY <1>10, <2>1, <2>5 DEF Ops
  <2>6. CASE fib'[f].pc = "enter" /\ fib'[f].op \in {"sleep", "recv", "send"}
    BY <1>10, <2>1, <2>6 DEF Ops
  <2>7. CASE fib'[f].pc = "enter" /\ fib'[f].op = "connect" /\ ~serving
    BY <1>1, <1>10, <2>1, <2>7 DEF Ops
  <2>8. CASE /\ fib'[f].pc = "enter" /\ fib'[f].op = "close"
             /\ serving => fib'[f].sock = Own[f]
    BY <1>1, <1>10, <2>1, <2>8 DEF Ops, ClosePCs
  <2> QED
    BY <2>2, <2>3, <2>4, <2>5, <2>6, <2>7, <2>8
<1> QED
  BY <1>4, <1>5, <1>6, <1>7, <1>8, <1>9, <1>10, Movers

-----------------------------------------------------------------------------
(* Whose a descriptor is *)

Closer(f) == fib[f].op = "close"
Accepting(f) == fib[f].pc \in {"accepted", "init"}
Owned(s) == sockfd[s] \in Fds /\ kern[sockfd[s]].kind # "closed" /\ kern[sockfd[s]].sock = s
Closed_by_now(s) == \E f \in Fibers : Closer(f) /\ fib[f].sock = s /\ fib[f].pc = "done"
(* Socks are not shared by threads. *)
Orderly == serving \/ nthreads = 1

ClosersOwn ==
  \A f \in Fibers : Closer(f) => fib[f].fd # NoFd /\ sockfd[fib[f].sock] = fib[f].fd
SocketsOwn ==
  \A s \in Socks : sockfd[s] # NoFd /\ ~Closed_by_now(s) => Owned(s)
AcceptorsOwn ==
  \A f \in Fibers : Accepting(f) =>
    /\ fib[f].fd \in Fds /\ fib[f].sock \in Socks
    /\ kern[fib[f].fd].kind = "stream" /\ kern[fib[f].fd].sock = fib[f].sock
    /\ \A s \in Socks : sockfd[s] = fib[f].fd => Closed_by_now(s)
    /\ \A g \in Fibers : Accepting(g) /\ fib[g].fd = fib[f].fd => f = g
OwnInv == Orderly => ClosersOwn /\ SocketsOwn /\ AcceptorsOwn

(* With one thread one fiber executes. *)
LEMMA OneRuns ==
  ASSUME CpuOK, nthreads = 1, NEW x \in cpu, NEW y \in cpu
  PROVE  x = y
<1> SUFFICES ASSUME x # y PROVE FALSE
  OBVIOUS
<1>1. IsFiniteSet(cpu) /\ Cardinality(cpu) <= 1
  BY DEF CpuOK
<1>2. Cardinality({x}) = 1 /\ IsFiniteSet({x})
  BY FS_Singleton
<1>3. Cardinality({x} \cup {y}) = 2 /\ IsFiniteSet({x} \cup {y})
  BY <1>2, FS_AddElement
<1>4. Cardinality({x} \cup {y}) <= Cardinality(cpu) /\ Cardinality(cpu) \in Nat
  <2>1. {x} \cup {y} \subseteq cpu
    OBVIOUS
  <2> QED
    BY <1>1, <2>1, FS_Subset, FS_CardinalityType
<1> QED
  BY <1>1, <1>3, <1>4

(* One fiber closes a Socket at a time. *)
LEMMA OneCloser ==
  ASSUME Placed, OpsInv, Orderly, NEW f \in Fibers, NEW g \in Fibers,
         Closer(f), Closer(g), fib[f].sock = fib[g].sock
  PROVE  f = g
<1>1. Ops(f) /\ Ops(g) /\ Place(f) /\ Place(g) /\ CpuOK
  BY DEF OpsInv, Placed, PlaceInv, Basic, Types
<1>2. fib[f].pc \in ClosePCs /\ fib[g].pc \in ClosePCs
  BY <1>1 DEF Ops, Closer
<1>3. CASE serving
  <2>1. ASSUME NEW h \in Fibers, Ops(h), fib[h].op = "close", fib[h].pc \in ClosePCs
        PROVE  \/ h = Stopper /\ fib[h].sock \in Listeners
               \/ h \in Users /\ fib[h].sock = Own[h]
    BY <1>3, <2>1 DEF Ops, ClosePCs
  <2>2. \A u \in Users : Own[u] \notin Listeners
    BY OwnType
  <2>3. \A u, v \in Users : Own[u] = Own[v] => u = v
    BY ServerAssumption DEF IsInjective, Users
  <2>4. /\ \/ f = Stopper /\ fib[f].sock \in Listeners
           \/ f \in Users /\ fib[f].sock = Own[f]
        /\ \/ g = Stopper /\ fib[g].sock \in Listeners
           \/ g \in Users /\ fib[g].sock = Own[g]
    BY <1>1, <1>2, <2>1 DEF Closer
  <2> QED
    BY <2>2, <2>3, <2>4
<1>4. CASE nthreads = 1
  <2>1. f \in OnCpu /\ g \in OnCpu
    BY <1>1, <1>2 DEF Place, ClosePCs
  <2>2. Task(f) = Task(g)
    BY <1>1, <1>4, <2>1, OneRuns DEF OnCpu
  <2> QED
    BY <2>2, ItemTypes
<1> QED
  BY <1>3, <1>4 DEF Orderly

(* How a fiber comes to close, goes on with it, and is done with it. *)
LEMMA CloserMoves ==
  ASSUME Basic, OpsInv, Next, NEW f \in Fibers
  PROVE  \/ /\ Closer(f) /\ Closer(f)'
            /\ fib'[f].sock = fib[f].sock /\ fib'[f].fd = fib[f].fd
            /\ fib[f].pc = "done" => fib'[f].pc = "done"
            /\ fib'[f].pc = "done" => fib[f].pc = "done" \/ (CloseF(f) /\ Outer)
         \/ ~Closer(f) /\ Closes(f)
         \/ ~Closer(f) /\ ~Closer(f)'
         \/ Closer(f) /\ ~Closer(f)' /\ (UserReturn(f) \/ \E l \in Listeners : f = Stopper /\ StopNext(l))
<1>0. Types /\ FlagsInv /\ RoleInv /\ FibOK /\ Ops(f) /\ fib[f] \in FibRec
  BY DEF Basic, Types, OpsInv, FibOK
<1>1. Closer(f) => fib[f].pc \in ClosePCs
  BY <1>0 DEF Ops, Closer
<1>2. CASE fib'[f] = fib[f]
  BY <1>2 DEF Closer
<1>3. CASE CallStep(f) /\ Outer
  <2>1. /\ fib'[f].op = fib[f].op /\ fib'[f].sock = fib[f].sock /\ fib'[f].fd = fib[f].fd
        /\ fib[f].pc # "done"
    BY ZenonT(60), <1>0, <1>3, CallMoves DEF CallStep, Enter, TryIo, TryConnect, Arm, addEvent, Woken, SoError,
                                 CloseCancel, CloseRemove, CloseF, At
  <2>2. ASSUME Closer(f), fib'[f].pc = "done" PROVE CloseF(f)
    <3>1. CASE Enter(f)
      <4>1. GoOn(f, "cancelAll") \/ GoOn(f, "close_f")
        BY <2>2, <3>1 DEF Enter, Closer, IoOps
      <4>2. "cancelAll" \in PCs /\ "close_f" \in PCs
        BY DEF PCs
      <4> QED
        BY <1>0, <2>2, <4>1, <4>2, GoOnFacts DEF Goes_on
    <3>2. CASE CloseCancel(f) \/ CloseRemove(f)
      <4>1. GoOn(f, "remove") \/ GoOn(f, "close_f")
        BY <3>2 DEF CloseCancel, CloseRemove
      <4>2. "remove" \in PCs /\ "close_f" \in PCs
        BY DEF PCs
      <4> QED
        BY <1>0, <2>2, <4>1, <4>2, GoOnFacts DEF Goes_on
    <3> QED
      BY <1>1, <1>3, <2>2, <3>1, <3>2 DEF CallStep, TryIo, TryConnect, Arm, addEvent, Woken, SoError,
                                     ClosePCs, At
  <2> QED
    BY SMTT(60), <1>3, <2>1, <2>2 DEF Closer
<1>4. CASE fib'[f] = [fib[f] EXCEPT !.cancelled = TRUE]
  <2>1. /\ fib'[f].pc = fib[f].pc /\ fib'[f].op = fib[f].op /\ fib'[f].sock = fib[f].sock
        /\ fib'[f].fd = fib[f].fd
    BY <1>0, <1>4 DEF FibRec
  <2> QED
    BY <2>1 DEF Closer
<1>5. CASE /\ fib[f].pc = "none" /\ fib'[f] # fib[f]
           /\ Owner \/ UserStart \/ \E l \in Listeners : handleClient(l)
  <2>1. fib[f].op = "none"
    BY <1>0, <1>5 DEF Ops
  <2> QED
    BY <1>0, <1>5, <2>1, StartMoves DEF Closer
<1>6. ASSUME NEW l \in Listeners, f = Acceptor[l], AcceptStep(l) PROVE ~Closer(f) /\ ~Closer(f)'
  <2>1. f \in Acceptors
    BY <1>6 DEF Acceptors
  <2>2. fib[f].op \in {"none", "accept"}
    BY <1>0, <2>1 DEF Ops
  <2> QED
    BY <1>0, <1>6, <2>2, AcceptMoves DEF Closer
<1>7. CASE f = Stopper /\ StopStep /\ fib'[f] # fib[f]
  <2>1. /\ fib[f].pc \in {"loop", "body", "done"}
        /\ \/ fib'[f].pc \in {"loop", "term"} /\ fib'[f].op = "none"
           \/ fib[f].pc = "loop" /\ fib'[f].pc = "body" /\ fib'[f].op = fib[f].op
           \/ Closes(f) /\ (fib'[f].sock \in Listeners \/ fib[f].op = "connect")
    BY <1>0, <1>7, StopMoves
  <2>2. fib[f].pc = "done" => \E l \in Listeners : StopNext(l)
    BY <1>7 DEF StopStep, StopEnd, StopSocket, StopClose, close, At
  <2>3. fib[f].pc \in {"loop", "body"} => fib[f].op = "none"
    BY <1>0 DEF Ops
  <2>4. ASSUME NEW l \in Listeners, StopNext(l), Closes(f) PROVE ~Closer(f)
    <3>1. finished(f, "loop") /\ f \in Fibers
      BY <1>7, <2>4 DEF StopNext
    <3>2. Rest(f, "loop").op = "none"
      BY DEF Rest, Idle
    <3> QED
      BY <1>0, <2>4, <3>1, <3>2, FinishedMoves DEF Closes, Closer
  <2> QED
    BY <1>7, <2>1, <2>2, <2>3, <2>4 DEF Closer
<1>8. CASE f \in Users /\ UserStep(f)
  <2>1. fib[f].pc = "body" => fib[f].op = "none"
    BY <1>0 DEF Ops
  <2>2. fib[f].pc = "done" => UserReturn(f)
    BY <1>8 DEF UserStep, UserCall, UserClose, UserEnd, sleep, transfer, connect, close, setFlags, At
  <2>3. ASSUME UserReturn(f), Closes(f) PROVE ~Closer(f)
    <3>1. finished(f, "body")
      BY <2>3 DEF UserReturn
    <3>2. Rest(f, "body").op = "none"
      BY DEF Rest, Idle
    <3> QED
      BY <1>0, <2>3, <3>1, <3>2, FinishedMoves DEF Closes, Closer
  <2>4. /\ fib[f].pc \in {"body", "done"}
        /\ \/ /\ fib'[f].pc = fib[f].pc /\ fib'[f].op = fib[f].op /\ fib'[f].sock = fib[f].sock
              /\ fib'[f].fd = fib[f].fd
           \/ fib'[f].op \in {"none", "sleep", "recv", "send", "connect"}
           \/ Closes(f)
    BY <1>0, <1>8, UserMoves
  <2> QED
    BY <2>1, <2>2, <2>3, <2>4 DEF Closer
<1> QED
  BY <1>2, <1>3, <1>4, <1>5, <1>6, <1>7, <1>8, Movers

(* What a step does to the descriptors: nothing but to their readiness and *)
(* to how far a connection is, ...                                         *)
Keeps(d) ==
  /\ kern'[d].sock = kern[d].sock /\ kern'[d].nonblock = kern[d].nonblock
  /\ kern'[d].kind = "closed" <=> kern[d].kind = "closed"
  /\ kern[d].kind = "stream" => kern'[d].kind = "stream"
Calm == UNCHANGED <<ctx, stale, sockfd>> /\ \A d \in Fds : Keeps(d)

(* ... or what the owner of a server does before it has started anybody,   *)
Nobody == serving /\ \A f \in Fibers : fib[f].pc = "none" /\ fib[f].op = "none"
OwnersStep ==
  /\ Nobody /\ UNCHANGED fib
  /\ \/ UNCHANGED stale /\ \E l \in Listeners : newSock(l, "listen")
     \/ \E hooked \in BOOLEAN : Clear(hooked)

(* ... or a fiber that opens, closes, or gives up a descriptor.            *)
Closed_off(f) ==
  /\ f \in Fibers /\ Closer(f) /\ fib[f].pc = "done" /\ fib[f].sock \in Socks
  /\ sockfd' = [sockfd EXCEPT ![fib[f].sock] = NoFd]
  /\ UNCHANGED <<kern, ctx, stale>>
  /\ fib'[f].op = "none" /\ fib'[f].pc \in {"loop", "body"}
  /\ \A g \in Fibers : g # f => fib'[g] = fib[g]
Connects(u, s) ==
  /\ ~serving /\ u \in Users /\ s \in Socks
  /\ connect(u, s) /\ sockfd[s] = NoFd /\ newSock(s, "fresh") /\ UNCHANGED stale

LEMMA SameIsCalm ==
  ASSUME UNCHANGED <<kern, ctx, stale, sockfd>>
  PROVE  Calm
  BY DEF Calm, Keeps

LEMMA FinishedDescriptors ==
  ASSUME Types, FlagsInv, NEW f \in Fibers, NEW pc \in {"loop", "body"}, finished(f, pc)
  PROVE  IF Closer(f) THEN Closed_off(f) ELSE Calm
<1>0. FibOK /\ pc \in PCs
  BY DEF Types, PCs
<1>1. UNCHANGED <<kern, ctx, stale>> /\ fib[f].pc = "done"
  BY DEF finished, Fresh, At
<1>2. CASE Closer(f)
  <2>1. sockfd' = [sockfd EXCEPT ![fib[f].sock] = NoFd] /\ Between(f, pc)
    BY <1>2 DEF finished, Closer, Closed
  <2>2. fib'[f] = Rest(f, pc) /\ \A g \in Fibers : g # f => fib'[g] = fib[g]
    BY <1>0, <2>1, BetweenFacts DEF Moves
  <2>3. fib'[f].op = "none" /\ fib'[f].pc = pc
    BY <1>0, <2>2, RestFacts
  <2>4. fib[f].sock \in Socks
    BY <1>2 DEF FlagsInv, OfSocket, Closer
  <2> QED
    BY <1>1, <1>2, <2>1, <2>2, <2>3, <2>4 DEF Closed_off
<1>3. CASE ~Closer(f)
  <2>1. UNCHANGED sockfd
    BY <1>3 DEF finished, Closer
  <2> QED
    BY <1>1, <1>3, <2>1, SameIsCalm
<1> QED
  BY <1>2, <1>3

LEMMA CallDescriptors ==
  ASSUME Types, NEW f \in Fibers, CallStep(f), Outer
  PROVE  Calm \/ ((CloseRemove(f) \/ CloseF(f)) /\ UNCHANGED sockfd)
<1>0. KernOK /\ fib[f].fd \in Fds \cup {NoFd} /\ UNCHANGED sockfd
  BY DEF Types, FibOK, FibRec, Outer
<1> DEFINE d == fib[f].fd
<1>1. CASE Enter(f) \/ Arm(f) \/ addEvent(f) \/ Woken(f) \/ SoError(f) \/ CloseCancel(f)
  <2>1. UNCHANGED <<kern, ctx, stale>>
    BY <1>1 DEF Enter, Arm, addEvent, Woken, SoError, CloseCancel, history
  <2> QED
    BY SMTT(60), <1>0, <2>1, SameIsCalm
<1>2. CASE TryIo(f)
  <2>1. /\ UNCHANGED <<ctx, stale>>
        /\ \/ UNCHANGED kern
           \/ d \in Fds /\ kern' = [kern EXCEPT ![d].ready = @ \ {EventOf(fib[f].op)}]
    BY <1>2 DEF TryIo, Kind, history
  <2>2. CASE d \in Fds /\ kern' = [kern EXCEPT ![d].ready = @ \ {EventOf(fib[f].op)}]
    <3>1. \A x \in Fds : Keeps(x)
      BY <1>0, <2>2 DEF KernOK, KernRec, Keeps
    <3> QED
      BY <1>0, <2>1, <3>1 DEF Calm
  <2> QED
    BY <1>0, <2>1, <2>2, SameIsCalm
<1>3. CASE TryConnect(f)
  <2>1. /\ UNCHANGED <<ctx, stale>>
        /\ \/ UNCHANGED kern
           \/ \E k \in {"connecting", "stream"} :
                d \in Fds /\ kern[d].kind = "fresh" /\ kern' = [kern EXCEPT ![d].kind = k]
    BY <1>3 DEF TryConnect, Kind, history
  <2>2. ASSUME NEW k \in {"connecting", "stream"},
               d \in Fds /\ kern[d].kind = "fresh" /\ kern' = [kern EXCEPT ![d].kind = k]
        PROVE  \A x \in Fds : Keeps(x)
    BY <1>0, <2>2 DEF KernOK, KernRec, Keeps
  <2> QED
    BY <1>0, <2>1, <2>2, SameIsCalm DEF Calm
<1>4. CASE CloseRemove(f) \/ CloseF(f)
  BY <1>0, <1>4
<1> QED
  BY <1>1, <1>2, <1>3, <1>4 DEF CallStep

LEMMA OwnerDescriptors ==
  ASSUME Basic, OpsInv, Owner
  PROVE  Calm \/ OwnersStep
<1>0. Types /\ RoleInv
  BY DEF Basic
<1>1. CASE bind \/ start \/ stop
  <2>1. UNCHANGED <<kern, ctx, stale, sockfd>>
    BY <1>1 DEF bind, start, stop, sockVars, hookVars, history
  <2> QED
    BY <2>1, SameIsCalm
<1>2. CASE (\E l \in Listeners : bindOne(l)) \/ bindEnd \/ destroy
  <2>1. (Early /\ owner # "unbound") \/ Calm
    BY <1>2 DEF Early, bindOne, bindEnd, destroy
  <2>2. owner # "unbound" => serving
    BY <1>0 DEF RoleInv, Types, OwnerOK
  <2>3. Nobody \/ Calm
    <3>1. SUFFICES ASSUME Early, serving, NEW f \in Fibers PROVE fib[f].pc = "none" /\ fib[f].op = "none"
      BY <2>1, <2>2 DEF Nobody
    <3>2. fib[f].pc = "none"
      BY <1>0, <3>1 DEF RoleInv
    <3> QED
      BY <3>2 DEF OpsInv, Ops
  <2>4. UNCHANGED fib
    BY <1>2 DEF bindOne, bindEnd, destroy, Clear, sockVars, hookVars
  <2>5. \/ UNCHANGED stale /\ \E l \in Listeners : newSock(l, "listen")
        \/ \E hooked \in BOOLEAN : Clear(hooked)
        \/ UNCHANGED <<kern, ctx, stale, sockfd>>
    BY <1>2 DEF bindOne, bindEnd, destroy, sockVars, hookVars, history
  <2> QED
    BY <2>3, <2>4, <2>5, SameIsCalm DEF OwnersStep
<1> QED
  BY <1>1, <1>2 DEF Owner

LEMMA UserDescriptors ==
  ASSUME Types, FlagsInv, NEW u \in Users, UserStep(u)
  PROVE  \/ Calm \/ Closed_off(u)
         \/ \E s \in Socks : Connects(u, s) \/ (~serving /\ setFlags(u, s))
<1>0. u \in Fibers /\ Own[u] \in Socks
  BY OwnType
<1>1. ASSUME NEW s \in Socks, close(u, s) \/ sleep(u) \/ \E op \in {"recv", "send"} : transfer(u, s, op)
      PROVE  Calm
  <2>1. UNCHANGED <<kern, ctx, stale, sockfd>>
    BY <1>1 DEF close, sleep, transfer, history
  <2> QED
    BY <2>1, SameIsCalm
<1>2. ASSUME NEW s \in Socks, connect(u, s), ~serving PROVE Calm \/ Connects(u, s)
  <2>1. \/ sockfd[s] = NoFd /\ newSock(s, "fresh") /\ UNCHANGED stale
        \/ UNCHANGED <<kern, ctx, stale, sockfd>>
    BY <1>2 DEF connect, history
  <2> QED
    BY <1>2, <2>1, SameIsCalm DEF Connects
<1>3. CASE UserCall(u)
  <2>1. CASE serving
    BY <1>0, <1>1, <1>3, <2>1 DEF UserCall
  <2>2. CASE ~serving
    <3>1. PICK s \in Socks : \/ connect(u, s) \/ (\E op \in {"recv", "send"} : transfer(u, s, op))
                             \/ close(u, s) \/ setFlags(u, s)
      BY <1>3, <2>2 DEF UserCall
    <3> QED
      BY <1>1, <1>2, <2>2, <3>1
  <2> QED
    BY <2>1, <2>2
<1>4. CASE UserClose(u)
  BY <1>0, <1>1, <1>4 DEF UserClose
<1>5. CASE UserReturn(u)
  <2>1. finished(u, "body")
    BY <1>5 DEF UserReturn
  <2> QED
    BY <1>0, <2>1, FinishedDescriptors
<1>6. CASE UserEnd(u)
  <2>1. UNCHANGED <<kern, ctx, stale, sockfd>>
    BY <1>6 DEF UserEnd, history
  <2> QED
    BY <2>1, SameIsCalm
<1> QED
  BY <1>3, <1>4, <1>5, <1>6 DEF UserStep

LEMMA StopDescriptors ==
  ASSUME Types, FlagsInv, StopStep
  PROVE  Calm \/ Closed_off(Stopper)
<1>0. Stopper \in Fibers
  BY ServerAssumption
<1>1. ASSUME NEW l \in Listeners, StopNext(l) PROVE Calm \/ Closed_off(Stopper)
  <2>1. finished(Stopper, "loop")
    BY <1>1 DEF StopNext
  <2> QED
    BY <1>0, <2>1, FinishedDescriptors
<1>2. CASE StopEnd \/ \E l \in Listeners : StopSocket(l) \/ StopClose(l)
  <2>1. UNCHANGED <<kern, ctx, stale, sockfd>>
    BY <1>2 DEF StopEnd, StopSocket, StopClose, close, history
  <2> QED
    BY <2>1, SameIsCalm
<1> QED
  BY <1>1, <1>2 DEF StopStep

LEMMA EnvironmentCalm ==
  ASSUME Types, Environment
  PROVE  Calm
<1>0. KernOK /\ UNCHANGED <<ctx, stale, sockfd>>
  BY DEF Types, Environment, Outer, Arrive, Resolve, history
<1>1. PICK d \in Fds : Arrive(d) \/ Resolve(d)
  BY DEF Environment
<1>2. CASE Arrive(d)
  <2>1. PICK f \in Fibers : kern' = [kern EXCEPT ![d].ready = @ \cup {EventOf(fib[f].op)}]
    BY <1>2 DEF Arrive
  <2>2. \A x \in Fds : Keeps(x)
    BY <1>0, <2>1 DEF KernOK, KernRec, Keeps
  <2> QED
    BY <1>0, <2>2 DEF Calm
<1>3. CASE Resolve(d)
  <2>1. PICK k \in {"stream", "refused"}, r \in SUBSET Event :
          kern[d].kind = "connecting" /\ kern' = [kern EXCEPT ![d].kind = k, ![d].ready = r]
    BY <1>3 DEF Resolve, Event
  <2> DEFINE q == [kern[d] EXCEPT !.kind = k, !.ready = r]
  <2>2. q.kind = k /\ q.sock = kern[d].sock /\ q.nonblock = kern[d].nonblock
    BY <1>0 DEF KernOK, KernRec
  <2>3. kern' = [kern EXCEPT ![d] = q]
    BY <1>0, <2>1 DEF KernOK, KernRec
  <2> HIDE DEF q
  <2>4. \A x \in Fds : Keeps(x)
    BY <1>0, <2>1, <2>2, <2>3 DEF KernOK, Keeps
  <2> QED
    BY <1>0, <2>4 DEF Calm
<1> QED
  BY <1>1, <1>2, <1>3

LEMMA DescriptorSteps ==
  ASSUME Basic, OpsInv, Next
  PROVE  \/ Calm
         \/ OwnersStep
         \/ UNCHANGED sockfd /\ \E f \in Fibers : CloseRemove(f) \/ CloseF(f)
         \/ \E f \in Fibers : Closed_off(f)
         \/ \E u \in Users, s \in Socks : Connects(u, s) \/ (~serving /\ setFlags(u, s))
         \/ \E l \in Listeners : \/ handleClient(l) \/ Accepted(Acceptor[l])
                                 \/ \E u \in Unused : TryAccept(Acceptor[l], Own[u])
<1>0. Types /\ FlagsInv
  BY DEF Basic
<1>1. CASE Owner
  BY <1>1, OwnerDescriptors
<1>2. CASE UserStart
  <2>1. UNCHANGED <<kern, ctx, stale, sockfd>>
    BY <1>2 DEF UserStart, history
  <2> QED
    BY <2>1, SameIsCalm
<1>3. CASE Threads
  <2>1. CASE LoopStep /\ Outer
    <3>1. UNCHANGED <<kern, ctx, stale, sockfd>>
      BY <2>1 DEF LoopStep, RunFiber, RunSleep, RunTimeout, CancelTimeout, history, Outer
    <3> QED
      BY <3>1, SameIsCalm
  <2>2. ASSUME NEW f \in Fibers, CallStep(f) /\ Outer
        PROVE  Calm \/ (UNCHANGED sockfd /\ (CloseRemove(f) \/ CloseF(f)))
    BY <1>0, <2>2, CallDescriptors
  <2>3. ASSUME NEW l \in Listeners, AcceptLoop(l) \/ AcceptFailed(l) PROVE Calm
    <3>1. UNCHANGED <<kern, ctx, stale, sockfd>>
      BY <2>3 DEF AcceptLoop, AcceptFailed, Fresh, history
    <3> QED
      BY <3>1, SameIsCalm
  <2>4. CASE StopStep
    <3>1. Stopper \in Fibers
      BY ServerAssumption
    <3> QED
      BY <1>0, <2>4, <3>1, StopDescriptors
  <2>5. ASSUME NEW u \in Users, UserStep(u)
        PROVE  u \in Fibers /\ (\/ Calm \/ Closed_off(u)
                                \/ \E s \in Socks : Connects(u, s) \/ (~serving /\ setFlags(u, s)))
    BY <1>0, <2>5, UserDescriptors, OwnType
  <2> QED
    BY <1>3, <2>1, <2>2, <2>3, <2>4, <2>5 DEF Threads, AcceptStep
<1>4. CASE Timing \/ Reporting
  <2>1. UNCHANGED <<kern, ctx, stale, sockfd>>
    BY <1>4 DEF Timing, Reporting, Expire, Report, history, Outer
  <2> QED
    BY <2>1, SameIsCalm
<1>5. CASE Environment
  BY <1>0, <1>5, EnvironmentCalm
<1> QED
  BY <1>1, <1>2, <1>3, <1>4, <1>5 DEF Next

(* How an accepting fiber comes by a client, and passes it on. *)
LEMMA AcceptingMoves ==
  ASSUME Basic, OpsInv, Next, NEW f \in Fibers
  PROVE  \/ ~Accepting(f) /\ ~Accepting(f)'
         \/ /\ Accepting(f) /\ Accepting(f)'
            /\ fib'[f].fd = fib[f].fd /\ fib'[f].sock = fib[f].sock
            /\ fib'[f].pc = fib[f].pc \/ Accepted(f)
         \/ ~Accepting(f) /\ \E l \in Listeners, u \in Unused : f = Acceptor[l] /\ TryAccept(f, Own[u])
         \/ Accepting(f) /\ ~Accepting(f)' /\ \E l \in Listeners : f = Acceptor[l] /\ handleClient(l)
<1>0. Types /\ FlagsInv /\ RoleInv /\ FibOK /\ fib[f] \in FibRec
  BY DEF Basic, Types, FibOK
<1>1. CASE fib'[f] = fib[f]
  BY <1>1 DEF Accepting
<1>2. CASE CallStep(f)
  <2>1. fib[f].pc \in CallPCs \cup {"enter"} /\ fib'[f].pc \in CallPCs
    BY <1>0, <1>2, CallMoves
  <2> QED
    BY <2>1 DEF CallPCs, Accepting
<1>3. CASE fib'[f] = [fib[f] EXCEPT !.cancelled = TRUE]
  <2>1. fib'[f].pc = fib[f].pc /\ fib'[f].sock = fib[f].sock /\ fib'[f].fd = fib[f].fd
    BY <1>0, <1>3 DEF FibRec
  <2> QED
    BY <2>1 DEF Accepting
<1>4. CASE /\ fib[f].pc = "none" /\ fib'[f] # fib[f]
           /\ Owner \/ UserStart \/ \E l \in Listeners : handleClient(l)
  <2>1. fib'[f].pc \in {"loop", "body"}
    BY <1>0, <1>4, StartMoves
  <2> QED
    BY <1>4, <2>1 DEF Accepting
<1>5. ASSUME NEW l \in Listeners, f = Acceptor[l], AcceptStep(l)
      PROVE  \/ ~Accepting(f) /\ ~Accepting(f)'
             \/ /\ Accepting(f) /\ Accepting(f)'
                /\ fib'[f].fd = fib[f].fd /\ fib'[f].sock = fib[f].sock /\ Accepted(f)
             \/ ~Accepting(f) /\ \E u \in Unused : TryAccept(f, Own[u])
             \/ Accepting(f) /\ ~Accepting(f)' /\ handleClient(l)
  <2>1. /\ fib[f].pc \in {"loop", "init", "done", "try", "accepted"}
        /\ \/ fib'[f].pc = "enter" /\ fib'[f].op = "accept"
           \/ fib'[f].pc \in {"loop", "term"} /\ fib'[f].op = "none"
           \/ /\ fib[f].pc = "try" /\ fib[f].op = "accept"
              /\ fib'[f].pc = "accepted" /\ fib'[f].op = "accept"
           \/ fib[f].pc = "accepted" /\ fib'[f].pc = "init" /\ fib'[f].op = fib[f].op
    BY <1>0, <1>5, AcceptMoves
  <2>2. CASE AcceptLoop(l) \/ AcceptFailed(l)
    <3>1. fib[f].pc \in {"loop", "done"}
      BY <1>5, <2>2 DEF AcceptLoop, AcceptFailed, At
    <3> QED
      BY <2>1, <3>1 DEF Accepting
  <2>3. CASE handleClient(l)
    <3>1. fib[f].pc = "init"
      BY <1>5, <2>3 DEF handleClient, At
    <3> QED
      BY <2>1, <2>3, <3>1 DEF Accepting
  <2>4. ASSUME NEW u \in Unused, TryAccept(f, Own[u]) PROVE ~Accepting(f)
    BY <2>4 DEF TryAccept, At, Accepting
  <2>5. CASE Accepted(f)
    <3>1. fib[f].pc = "accepted" /\ GoOn(f, "init") /\ "init" \in PCs
      BY <2>5 DEF Accepted, At, PCs
    <3>2. fib'[f].fd = fib[f].fd /\ fib'[f].sock = fib[f].sock /\ fib'[f].pc = "init"
      BY <1>0, <3>1, GoOnFacts DEF Goes_on
    <3> QED
      BY <2>5, <3>1, <3>2 DEF Accepting
  <2> QED
    BY <1>5, <2>2, <2>3, <2>4, <2>5 DEF AcceptStep
<1>6. CASE f = Stopper /\ StopStep
  <2>1. /\ fib[f].pc \in {"loop", "body", "done"}
        /\ \/ fib'[f] = fib[f]
           \/ fib'[f].pc \in {"loop", "term", "body", "enter"}
    BY <1>0, <1>6, StopMoves DEF Closes
  <2> QED
    BY <2>1 DEF Accepting
<1>7. CASE f \in Users /\ UserStep(f)
  <2>1. /\ fib[f].pc \in {"body", "done"}
        /\ \/ fib'[f].pc = fib[f].pc
           \/ fib'[f].pc \in {"body", "term", "enter"}
    BY <1>0, <1>7, UserMoves DEF Closes
  <2> QED
    BY <2>1 DEF Accepting
<1> QED
  BY <1>1, <1>2, <1>3, <1>4, <1>5, <1>6, <1>7, Movers

(* A Socket whose descriptor is closed by now stays so until it has none. *)
LEMMA ClosedStays ==
  ASSUME Basic, OpsInv, Next, NEW s \in Socks, Closed_by_now(s)
  PROVE  Closed_by_now(s)' \/ sockfd'[s] = NoFd
<1>0. Types /\ FlagsInv /\ SockOK
  BY DEF Basic, Types
<1>1. PICK f \in Fibers : Closer(f) /\ fib[f].sock = s /\ fib[f].pc = "done"
  BY DEF Closed_by_now
<1>2. CASE Closer(f)' /\ fib'[f].sock = fib[f].sock /\ fib'[f].pc = "done"
  BY <1>1, <1>2 DEF Closed_by_now
<1>3. CASE UserReturn(f) \/ \E l \in Listeners : f = Stopper /\ StopNext(l)
  <2>1. finished(f, "body") \/ finished(f, "loop")
    BY <1>3 DEF UserReturn, StopNext
  <2>2. Closed_off(f)
    BY <1>0, <1>1, <2>1, FinishedDescriptors
  <2> QED
    BY <1>0, <1>1, <2>2 DEF Closed_off, SockOK
<1> QED
  BY <1>1, <1>2, <1>3, CloserMoves

LEMMA ClosersOwnStep ==
  ASSUME Placed, OpsInv, ClosersOwn, Orderly, Next
  PROVE  ClosersOwn'
<1>0. Basic /\ Types /\ FibOK /\ FlagsInv /\ SockOK /\ RoleInv
  BY DEF Placed, Basic, Types
<1> SUFFICES ASSUME NEW f \in Fibers, Closer(f)'
             PROVE  fib'[f].fd # NoFd /\ sockfd'[fib'[f].sock] = fib'[f].fd
  BY DEF ClosersOwn
<1> DEFINE s == fib'[f].sock
<1>1. /\ s \in Socks /\ fib'[f].fd # NoFd /\ sockfd[s] = fib'[f].fd
      /\ Closer(f) => fib[f].sock = s /\ fib'[f].fd = fib[f].fd
  <2>1. CASE Closer(f) /\ fib'[f].sock = fib[f].sock /\ fib'[f].fd = fib[f].fd
    BY <1>0, <2>1 DEF ClosersOwn, FlagsInv, OfSocket, Closer
  <2> QED
    BY <1>0, <2>1, CloserMoves DEF Closes
<1> SUFFICES sockfd'[s] = sockfd[s]
  BY <1>1
<1> HIDE DEF s
<1>2. CASE UNCHANGED sockfd
  BY <1>2
<1>3. CASE OwnersStep
  BY <1>1, <1>3 DEF OwnersStep, Nobody, Closer
<1>4. ASSUME NEW g \in Fibers, Closed_off(g) PROVE sockfd'[s] = sockfd[s]
  <2>1. g # f
    BY <1>4 DEF Closed_off, Closer
  <2>2. Closer(f) /\ Closer(g)
    BY <1>4, <2>1 DEF Closed_off, Closer
  <2>3. fib[g].sock # s
    BY <1>1, <2>1, <2>2, OneCloser
  <2> QED
    BY <1>0, <1>1, <1>4, <2>3 DEF Closed_off, SockOK
<1>5. ASSUME NEW u \in Users, NEW t \in Socks, Connects(u, t) PROVE sockfd'[s] = sockfd[s]
  <2>1. sockfd' = [sockfd EXCEPT ![t] = NewFd] /\ sockfd[t] = NoFd
    BY <1>5 DEF Connects, newSock
  <2>2. sockfd[s] # NoFd
    BY <1>1
  <2> QED
    BY <1>0, <1>1, <2>1, <2>2 DEF SockOK
<1>6. ASSUME NEW l \in Listeners, handleClient(l) PROVE sockfd'[s] = sockfd[s]
  <2> DEFINE a == Acceptor[l]
  <2>0. a \in Acceptors /\ a \in Fibers /\ Acceptors \cap Users = {}
    BY ServerAssumption DEF Acceptors
  <2>1. fib[a].pc = "init" /\ sockfd' = [sockfd EXCEPT ![fib[a].sock] = fib[a].fd]
    BY <1>6 DEF handleClient, init, At
  <2>2. PICK u \in Unused : Own[u] = fib[a].sock /\ fib' = [fib EXCEPT ![a] = Rest(a, "loop"), ![u].pc = "body"]
    BY <1>6 DEF handleClient
  <2>3. serving
    <3>1. ~Early
      BY <1>0, <2>0, <2>1 DEF RoleInv
    <3> QED
      BY <1>0, <3>1 DEF RoleInv, Early, Types, OwnerOK
  <2>4. u \in Users /\ u \in Fibers /\ fib[u].pc = "none" /\ fib[u].op = "none" /\ Own[u] \notin Listeners
    BY <2>2, OwnType DEF Unused, OpsInv, Ops
  <2>5. f # u /\ f # a /\ Closer(f)
    <3>1. fib'[a].op = "none"
      <4>1. u # a
        BY <2>1, <2>4
      <4> QED
        BY <1>0, <2>0, <2>2, <4>1 DEF FibOK, Rest, Idle
    <3>2. u # a => fib'[u].op = "none"
      <4>1. ASSUME u # a PROVE fib'[u] = [fib[u] EXCEPT !.pc = "body"]
        BY <1>0, <2>2, <2>4, <4>1 DEF FibOK
      <4> QED
        BY <1>0, <2>4, <4>1 DEF FibOK, FibRec
    <3>3. \A g \in Fibers : g # u /\ g # a => fib'[g] = fib[g]
      BY <1>0, <2>2 DEF FibOK
    <3> QED
      BY <2>1, <2>4, <3>1, <3>2, <3>3 DEF Closer
  <2>6. \/ f = Stopper /\ fib[f].sock \in Listeners
        \/ f \in Users /\ fib[f].sock = Own[f]
    <3>1. Ops(f) /\ fib[f].op = "close"
      BY <2>5 DEF OpsInv, Closer
    <3> QED
      BY <2>3, <3>1 DEF Ops, ClosePCs
  <2>7. fib[f].sock # Own[u]
    <3>1. \A v \in Users : Own[v] = Own[u] => v = u
      BY <2>4, ServerAssumption DEF IsInjective, Users
    <3> QED
      BY <2>4, <2>5, <2>6, <3>1
  <2> QED
    BY <1>0, <1>1, <2>1, <2>2, <2>5, <2>7 DEF SockOK
<1>7. ASSUME NEW u \in Users, NEW t \in Socks, setFlags(u, t) PROVE UNCHANGED sockfd
  BY SMTT(60), <1>7 DEF setFlags
<1>8. ASSUME NEW l \in Listeners, Accepted(Acceptor[l]) \/ \E u \in Unused : TryAccept(Acceptor[l], Own[u])
      PROVE  UNCHANGED sockfd
  BY Zenon, <1>8 DEF Accepted, TryAccept
<1> QED
  BY <1>0, <1>2, <1>3, <1>4, <1>5, <1>6, <1>7, <1>8, DescriptorSteps DEF Calm

(* A descriptor that is opened is not one that was open before. *)
LEMMA OpenFacts ==
  ASSUME KernOK, NEW d \in Fds, NEW kind, NEW s, Open(d, kind, s)
  PROVE  /\ kern'[d].kind = kind /\ kern'[d].sock = s
         /\ \A e \in Fds : e # d => kern'[e] = kern[e] /\ ctx'[e] = ctx[e]
  BY DEF KernOK, Open

LEMMA NewSockFacts ==
  ASSUME KernOK, SockOK, NEW s \in Socks, NEW kind, newSock(s, kind)
  PROVE  /\ NewFd \in Fds /\ kern[NewFd].kind = "closed"
         /\ sockfd'[s] = NewFd /\ kern'[NewFd].kind = kind /\ kern'[NewFd].sock = s
         /\ \A t \in Socks : t # s => sockfd'[t] = sockfd[t]
         /\ \A e \in Fds : e # NewFd => kern'[e] = kern[e]
<1>1. NewFd \in Fds /\ kern[NewFd].kind = "closed"
  BY NewFdFree DEF newSock
<1> DEFINE d == NewFd
<1>2. Open(d, kind, s) /\ sockfd' = [sockfd EXCEPT ![s] = d] /\ d \in Fds
  BY <1>1 DEF newSock
<1> HIDE DEF d
<1>3. kern'[d].kind = kind /\ kern'[d].sock = s /\ \A e \in Fds : e # d => kern'[e] = kern[e]
  BY <1>2, OpenFacts
<1>4. sockfd'[s] = d /\ \A t \in Socks : t # s => sockfd'[t] = sockfd[t]
  BY <1>2 DEF SockOK
<1> QED
  BY <1>1, <1>3, <1>4 DEF d

LEMMA ClientFacts ==
  ASSUME KernOK, NEW f \in Fibers, NEW client, TryAccept(f, client)
  PROVE  /\ NewFd \in Fds /\ kern[NewFd].kind = "closed" /\ UNCHANGED <<ctx, stale, sockfd>>
         /\ kern'[NewFd].kind = "stream" /\ kern'[NewFd].sock = client
         /\ \A e \in Fds : e # NewFd => /\ kern'[e].sock = kern[e].sock /\ kern'[e].kind = kern[e].kind
                                        /\ kern'[e].nonblock = kern[e].nonblock
<1> DEFINE d == NewFd
           c == fib[f].fd
           k == [kern EXCEPT ![c].ready = {}]
           r == [kind |-> "stream", nonblock |-> FALSE, ready |-> {"WRITE"}, sock |-> client]
<1>1. d \in Fds /\ kern[d].kind = "closed" /\ UNCHANGED <<ctx, stale, sockfd>>
  BY NewFdFree DEF TryAccept, history
<1>2. kern' = [k EXCEPT ![d] = r]
  BY DEF TryAccept
<1>3. /\ k \in [Fds -> KernRec]
      /\ \A e \in Fds : k[e].sock = kern[e].sock /\ k[e].kind = kern[e].kind
                        /\ k[e].nonblock = kern[e].nonblock
  BY ZenonT(60) DEF KernOK, KernRec
<1>4. r.kind = "stream" /\ r.sock = client
  OBVIOUS
<1> HIDE DEF d, k, r
<1> QED
  BY <1>1, <1>2, <1>3, <1>4 DEF d

(* Nobody runs in a server before it is started. *)
LEMMA AcceptorServes ==
  ASSUME RoleInv, OwnerOK, NEW a \in Acceptors, fib[a].pc # "none"
  PROVE  serving
<1>1. a \in Fibers \ Users
  BY ServerAssumption DEF Acceptors
<1> QED
  BY <1>1 DEF RoleInv, Early, OwnerOK

LEMMA SocketsOwnStep ==
  ASSUME Placed, OpsInv, ClosersOwn, SocketsOwn, AcceptorsOwn, Orderly, Next
  PROVE  SocketsOwn'
<1>0. Basic /\ Types /\ FibOK /\ FlagsInv /\ SockOK /\ RoleInv /\ KernOK
  BY DEF Placed, Basic, Types
<1> SUFFICES ASSUME NEW s \in Socks, sockfd'[s] # NoFd, ~(Closed_by_now(s)')
             PROVE  /\ sockfd'[s] \in Fds /\ kern'[sockfd'[s]].kind # "closed"
                    /\ kern'[sockfd'[s]].sock = s
  BY DEF SocketsOwn, Owned
<1> DEFINE Kept == /\ sockfd'[s] \in Fds /\ kern'[sockfd'[s]].kind # "closed"
                   /\ kern'[sockfd'[s]].sock = s
<1> SUFFICES Kept
  OBVIOUS
<1>1. ASSUME sockfd'[s] = sockfd[s] PROVE Owned(s) /\ sockfd[s] \in Fds
  <2>1. ~Closed_by_now(s)
    BY <1>0, ClosedStays
  <2> QED
    BY <1>1, <2>1 DEF SocketsOwn, Owned
<1>2. ASSUME sockfd'[s] = sockfd[s],
             kern'[sockfd[s]].kind = "closed" <=> kern[sockfd[s]].kind = "closed",
             kern'[sockfd[s]].sock = kern[sockfd[s]].sock
      PROVE  Kept
  BY <1>1, <1>2 DEF Owned
<1>3. CASE Calm
  <2>1. Owned(s) /\ sockfd[s] \in Fds /\ UNCHANGED sockfd
    BY <1>1, <1>3 DEF Calm
  <2> QED
    BY <1>2, <1>3, <2>1 DEF Calm, Keeps
<1>4. ASSUME NEW l \in Socks, NEW kind, newSock(l, kind), kind # "closed" PROVE Kept
  <2>1. CASE s = l
    BY <1>0, <1>4, <2>1, NewSockFacts
  <2>2. CASE s # l
    <3>1. sockfd'[s] = sockfd[s]
      BY <1>0, <1>4, <2>2, NewSockFacts
    <3>2. Owned(s) /\ sockfd[s] \in Fds
      BY <1>1, <3>1
    <3>3. NewFd # sockfd[s]
      BY <1>0, <1>4, <3>2, NewSockFacts DEF Owned
    <3>4. kern'[sockfd[s]] = kern[sockfd[s]]
      BY <1>0, <1>4, <3>2, <3>3, NewSockFacts
    <3> QED
      BY <1>2, <3>1, <3>4
  <2> QED
    BY <2>1, <2>2
<1>5. ASSUME OwnersStep, NEW hooked \in BOOLEAN, Clear(hooked) PROVE Kept
  <2> DEFINE ds == {sockfd[l] : l \in socks} \cap Fds
  <2>1. s \notin socks /\ sockfd'[s] = sockfd[s]
    BY <1>5 DEF Clear
  <2>2. Owned(s) /\ sockfd[s] \in Fds
    BY <1>1, <2>1
  <2>3. sockfd[s] \notin ds
    <3>1. SUFFICES ASSUME NEW l \in socks, sockfd[l] = sockfd[s] PROVE FALSE
      BY DEF ds
    <3>2. l \in Socks
      BY <1>0, ServerAssumption DEF Types, OwnerOK
    <3>3. ~Closed_by_now(l)
      BY <1>5 DEF OwnersStep, Nobody, Closed_by_now, Closer
    <3>4. sockfd[l] # NoFd
      BY <2>1, <3>1
    <3>5. kern[sockfd[l]].sock = l /\ kern[sockfd[s]].sock = s
      BY <2>2, <3>2, <3>3, <3>4 DEF SocketsOwn, Owned
    <3> QED
      BY <2>1, <3>1, <3>5
  <2>4. kern' = [d \in Fds |-> IF d \in ds THEN ClosedFd ELSE kern[d]]
    BY <1>5 DEF Clear
  <2> HIDE DEF ds
  <2>5. kern'[sockfd[s]] = kern[sockfd[s]]
    BY <2>2, <2>3, <2>4
  <2> QED
    BY <1>2, <2>1, <2>5
<1>6. ASSUME NEW g \in Fibers, CloseF(g), UNCHANGED sockfd PROVE Kept
  <2> DEFINE d == fib[g].fd
             t == fib[g].sock
  <2>1. /\ fib[g].pc = "close_f" /\ Closer(g) /\ t \in Socks
        /\ kern' = IF d \in Fds THEN [kern EXCEPT ![d] = ClosedFd] ELSE kern
    <3>1. fib[g].pc = "close_f"
      BY <1>6 DEF CloseF, At
    <3>2. Closer(g)
      BY <3>1 DEF OpsInv, Ops, Closer
    <3> QED
      BY <1>0, <1>6, <3>1, <3>2 DEF CloseF, Forget, FlagsInv, OfSocket, Closer
  <2>2. Owned(s) /\ sockfd[s] \in Fds
    BY <1>1, <1>6
  <2>3. CASE sockfd[s] = d
    <3>1. ~Closed_by_now(t)
      <4>1. SUFFICES ASSUME NEW h \in Fibers, Closer(h), fib[h].sock = t, fib[h].pc = "done" PROVE FALSE
        BY DEF Closed_by_now
      <4>2. h = g
        BY <2>1, <4>1, OneCloser
      <4> QED
        BY <2>1, <4>1, <4>2
    <3>2. sockfd[t] = d /\ d # NoFd
      BY <2>1 DEF ClosersOwn
    <3>3. kern[d].sock = t
      BY <2>1, <3>1, <3>2 DEF SocketsOwn, Owned
    <3>4. s = t
      BY <2>2, <2>3, <3>3 DEF Owned
    <3>5. \E r \in Results : Return(g, r)
      BY <1>6 DEF CloseF, Results
    <3>6. fib'[g].pc = "done" /\ fib'[g].op = fib[g].op /\ fib'[g].sock = fib[g].sock
      BY <1>0, <3>5, ReturnFacts
    <3>7. Closed_by_now(s)'
      BY <2>1, <3>4, <3>6 DEF Closed_by_now, Closer
    <3> QED
      BY <3>7
  <2>4. CASE sockfd[s] # d
    <3>1. kern'[sockfd[s]] = kern[sockfd[s]]
      BY <1>0, <2>1, <2>2, <2>4 DEF KernOK
    <3> QED
      BY <1>2, <1>6, <3>1
  <2> QED
    BY <2>3, <2>4
<1>7. ASSUME NEW g \in Fibers, CloseRemove(g), UNCHANGED sockfd PROVE Kept
  BY <1>2, <1>7 DEF CloseRemove
<1>8. ASSUME NEW g \in Fibers, Closed_off(g) PROVE Kept
  <2>1. UNCHANGED kern /\ sockfd' = [sockfd EXCEPT ![fib[g].sock] = NoFd]
    BY <1>8 DEF Closed_off
  <2>2. sockfd'[s] = sockfd[s]
    BY <1>0, <2>1 DEF SockOK
  <2> QED
    BY <1>2, <2>1, <2>2
<1>9. ASSUME NEW u \in Users, NEW t \in Socks, setFlags(u, t) PROVE Kept
  <2>1. /\ UNCHANGED sockfd
        /\ \E d \in Fds : \E b : SetNonblock(d, b)
    BY <1>9 DEF setFlags, fcntl, ioctl
  <2>2. Owned(s) /\ sockfd[s] \in Fds
    BY <1>1, <2>1
  <2>3. kern'[sockfd[s]].kind = kern[sockfd[s]].kind /\ kern'[sockfd[s]].sock = kern[sockfd[s]].sock
    BY <1>0, <2>1, <2>2 DEF SetNonblock, KernOK, KernRec
  <2> QED
    BY <1>2, <2>1, <2>3
<1>10. ASSUME NEW l \in Listeners, handleClient(l) PROVE Kept
  <2> DEFINE a == Acceptor[l]
  <2>1. /\ fib[a].pc = "init" /\ sockfd' = [sockfd EXCEPT ![fib[a].sock] = fib[a].fd] /\ UNCHANGED kern
    BY <1>10 DEF handleClient, init, At
  <2>2. a \in Fibers
    BY ServerAssumption
  <2> HIDE DEF a
  <2>3. /\ fib[a].fd \in Fds /\ kern[fib[a].fd].kind = "stream" /\ kern[fib[a].fd].sock = fib[a].sock
    BY <2>1, <2>2 DEF AcceptorsOwn, Accepting
  <2>4. CASE s = fib[a].sock
    <3>1. sockfd'[s] = fib[a].fd
      BY <1>0, <2>1, <2>4 DEF SockOK
    <3> QED
      BY <2>1, <2>3, <2>4, <3>1
  <2>5. CASE s # fib[a].sock
    <3>1. sockfd'[s] = sockfd[s]
      BY <1>0, <2>1, <2>5 DEF SockOK
    <3> QED
      BY <1>2, <2>1, <3>1
  <2> QED
    BY <2>4, <2>5
<1>11. ASSUME NEW f \in Fibers, NEW client, TryAccept(f, client) PROVE Kept
  <2>1. UNCHANGED sockfd
    BY <1>0, <1>11, ClientFacts
  <2>2. Owned(s) /\ sockfd[s] \in Fds
    BY <1>1, <2>1
  <2>3. sockfd[s] # NewFd
    BY <1>0, <1>11, <2>2, ClientFacts DEF Owned
  <2>4. kern'[sockfd[s]].kind = kern[sockfd[s]].kind /\ kern'[sockfd[s]].sock = kern[sockfd[s]].sock
    BY <1>0, <1>11, <2>2, <2>3, ClientFacts
  <2> QED
    BY <1>2, <2>1, <2>4
<1>12. ASSUME NEW f \in Fibers, Accepted(f) PROVE Kept
  <2>1. UNCHANGED sockfd /\ fib[f].pc = "accepted" /\ Open(fib[f].fd, "stream", fib[f].sock)
    BY <1>12 DEF Accepted, At
  <2>2. Owned(s) /\ sockfd[s] \in Fds
    BY <1>1, <2>1
  <2>3. fib[f].fd \in Fds /\ kern[fib[f].fd].kind = "stream" /\ kern[fib[f].fd].sock = fib[f].sock
    BY <2>1 DEF AcceptorsOwn, Accepting
  <2>4. /\ kern'[sockfd[s]].kind = "closed" <=> kern[sockfd[s]].kind = "closed"
        /\ kern'[sockfd[s]].sock = kern[sockfd[s]].sock
    <3>1. CASE sockfd[s] = fib[f].fd
      BY <1>0, <2>1, <2>3, <3>1, OpenFacts
    <3>2. CASE sockfd[s] # fib[f].fd
      <4>1. kern'[sockfd[s]] = kern[sockfd[s]]
        BY <1>0, <2>1, <2>2, <2>3, <3>2, OpenFacts
      <4> QED
        BY <4>1
    <3> QED
      BY <3>1, <3>2
  <2> QED
    BY <1>2, <2>1, <2>4
<1>13. Acceptors \subseteq Fibers /\ Listeners \subseteq Socks
  BY ServerAssumption DEF Acceptors
<1>14. \A l \in Listeners : Acceptor[l] \in Fibers
  BY ServerAssumption
<1>15. CASE OwnersStep
  BY <1>4, <1>5, <1>13, <1>15 DEF OwnersStep
<1>16. ASSUME NEW u \in Users, NEW t \in Socks, Connects(u, t) PROVE Kept
  BY <1>4, <1>16 DEF Connects
<1>17. CASE \E l \in Listeners : \/ handleClient(l) \/ Accepted(Acceptor[l])
                                 \/ \E u \in Unused : TryAccept(Acceptor[l], Own[u])
  BY <1>10, <1>11, <1>12, <1>14, <1>17
<1> HIDE DEF Kept
<1> QED
  BY <1>0, <1>3, <1>6, <1>7, <1>8, <1>9, <1>15, <1>16, <1>17, DescriptorSteps

LEMMA AcceptorsOwnStep ==
  ASSUME Placed, OpsInv, ClosersOwn, SocketsOwn, AcceptorsOwn, Orderly, Next
  PROVE  AcceptorsOwn'
<1>0. Basic /\ Types /\ FibOK /\ FlagsInv /\ SockOK /\ RoleInv /\ KernOK /\ OwnerOK
  BY DEF Placed, Basic, Types
<1>1. \A l \in Listeners : Acceptor[l] \in Fibers /\ Acceptor[l] \in Acceptors
  BY ServerAssumption DEF Acceptors
<1>2. NoFd \notin Fds
  BY HookAssumption
<1> DEFINE Mine(f) ==
      /\ fib'[f].fd \in Fds /\ fib'[f].sock \in Socks
      /\ kern'[fib'[f].fd].kind = "stream" /\ kern'[fib'[f].fd].sock = fib'[f].sock
      /\ \A s \in Socks : sockfd'[s] = fib'[f].fd => Closed_by_now(s)'
(* A fiber that was accepting before: *)
<1>3. ASSUME NEW f \in Fibers, Accepting(f), Accepting(f)'
      PROVE  /\ Mine(f)
             /\ fib'[f].fd = fib[f].fd
             /\ \A g \in Fibers : \A c : TryAccept(g, c) => NewFd # fib[f].fd
  <2> DEFINE d == fib[f].fd
  <2>1. fib'[f].fd = d /\ fib'[f].sock = fib[f].sock
    BY <1>0, <1>3, AcceptingMoves
  <2>2. /\ d \in Fds /\ fib[f].sock \in Socks
        /\ kern[d].kind = "stream" /\ kern[d].sock = fib[f].sock
        /\ \A s \in Socks : sockfd[s] = d => Closed_by_now(s)
        /\ \A g \in Fibers : Accepting(g) /\ fib[g].fd = d => f = g
    BY <1>3 DEF AcceptorsOwn
  <2> HIDE DEF d
  <2>3. \A s \in Socks : sockfd'[s] = d /\ sockfd'[s] = sockfd[s] => Closed_by_now(s)'
    <3> SUFFICES ASSUME NEW s \in Socks, sockfd'[s] = d, sockfd'[s] = sockfd[s] PROVE Closed_by_now(s)'
      OBVIOUS
    <3>1. Closed_by_now(s) /\ sockfd'[s] # NoFd
      BY <1>2, <2>2
    <3> QED
      BY <1>0, <3>1, ClosedStays
  <2>4. ASSUME NEW g \in Fibers, NEW c, TryAccept(g, c) PROVE NewFd # d
    BY <1>0, <2>2, <2>4, ClientFacts
  <2> DEFINE Same == /\ kern'[d].kind = "stream" /\ kern'[d].sock = kern[d].sock
                     /\ \A s \in Socks : sockfd'[s] = d => sockfd'[s] = sockfd[s]
  <2>5. Same
    <3>1. CASE Calm
      BY <2>2, <3>1 DEF Calm, Keeps
    <3>2. CASE OwnersStep
      BY <1>3, <3>2 DEF OwnersStep, Nobody, Accepting
    <3>3. ASSUME NEW g \in Fibers, CloseF(g), UNCHANGED sockfd PROVE Same
      <4>1. fib[g].pc = "close_f" /\ Closer(g) /\ fib[g].sock \in Socks
        <5>1. fib[g].pc = "close_f"
          BY <3>3 DEF CloseF, At
        <5>2. Closer(g)
          BY <5>1 DEF OpsInv, Ops, Closer
        <5> QED
          BY <1>0, <5>1, <5>2 DEF FlagsInv, OfSocket, Closer
      <4>2. fib[g].fd # d
        <5>1. SUFFICES ASSUME fib[g].fd = d PROVE FALSE
          OBVIOUS
        <5>2. sockfd[fib[g].sock] = d
          BY <4>1, <5>1 DEF ClosersOwn
        <5>3. PICK h \in Fibers : Closer(h) /\ fib[h].sock = fib[g].sock /\ fib[h].pc = "done"
          BY <2>2, <4>1, <5>2 DEF Closed_by_now
        <5>4. h = g
          BY <4>1, <5>3, OneCloser
        <5> QED
          BY <4>1, <5>3, <5>4
      <4>3. kern'[d] = kern[d]
        BY <1>0, <2>2, <3>3, <4>2 DEF CloseF, Forget, KernOK
      <4> QED
        BY <2>2, <3>3, <4>3
    <3>4. ASSUME NEW g \in Fibers, CloseRemove(g), UNCHANGED sockfd PROVE Same
      BY <2>2, <3>4 DEF CloseRemove
    <3>5. ASSUME NEW g \in Fibers, Closed_off(g) PROVE Same
      BY <1>0, <1>2, <2>2, <3>5 DEF Closed_off, SockOK
    <3>6. ASSUME NEW u \in Users, NEW t \in Socks, Connects(u, t) PROVE Same
      <4>1. newSock(t, "fresh")
        BY <3>6 DEF Connects
      <4>2. NewFd # d
        BY <1>0, <2>2, <4>1, NewSockFacts
      <4>3. kern'[d] = kern[d]
        BY <1>0, <2>2, <4>1, <4>2, NewSockFacts
      <4> QED
        BY <1>0, <2>2, <4>1, <4>2, <4>3, NewSockFacts
    <3>7. ASSUME NEW u \in Users, NEW t \in Socks, setFlags(u, t) PROVE Same
      <4>1. UNCHANGED sockfd /\ \E e \in Fds : \E b : SetNonblock(e, b)
        BY <3>7 DEF setFlags, fcntl, ioctl
      <4>2. kern'[d].kind = kern[d].kind /\ kern'[d].sock = kern[d].sock
        BY <1>0, <2>2, <4>1 DEF SetNonblock, KernOK, KernRec
      <4> QED
        BY <2>2, <4>1, <4>2
    <3>8. ASSUME NEW l \in Listeners, handleClient(l) PROVE Same
      <4>1. PICK a \in Fibers : a = Acceptor[l]
        BY <1>1
      <4>2. /\ fib[a].pc = "init" /\ sockfd' = [sockfd EXCEPT ![fib[a].sock] = fib[a].fd] /\ UNCHANGED kern
            /\ \E u \in Unused : fib' = [fib EXCEPT ![a] = Rest(a, "loop"), ![u].pc = "body"]
        BY <3>8, <4>1 DEF handleClient, init, At
      <4>3. f # a
        <5>1. PICK u \in Unused : fib' = [fib EXCEPT ![a] = Rest(a, "loop"), ![u].pc = "body"]
          BY <4>2
        <5>2. u # a
          BY <4>2, <5>1 DEF Unused
        <5>3. fib'[a] = Rest(a, "loop")
          BY <1>0, <5>1, <5>2 DEF FibOK
        <5> QED
          BY <1>3, <5>3 DEF Accepting, Rest, Idle
      <4>4. fib[a].fd # d
        BY <2>2, <4>2, <4>3 DEF Accepting
      <4> QED
        BY <1>0, <2>2, <4>2, <4>4 DEF SockOK
    <3>9. ASSUME NEW g \in Fibers, NEW c, TryAccept(g, c) PROVE Same
      <4>1. NewFd # d
        BY <2>4, <3>9
      <4>2. kern'[d].kind = kern[d].kind /\ kern'[d].sock = kern[d].sock /\ UNCHANGED sockfd
        BY <1>0, <2>2, <3>9, <4>1, ClientFacts
      <4> QED
        BY <2>2, <4>2
    <3>10. ASSUME NEW g \in Fibers, Accepted(g) PROVE Same
      <4>1. UNCHANGED sockfd /\ fib[g].pc = "accepted" /\ Open(fib[g].fd, "stream", fib[g].sock)
        BY <3>10 DEF Accepted, At
      <4>2. fib[g].fd \in Fds /\ kern[fib[g].fd].kind = "stream" /\ kern[fib[g].fd].sock = fib[g].sock
        BY <4>1 DEF AcceptorsOwn, Accepting
      <4>3. CASE d = fib[g].fd
        BY <1>0, <2>2, <4>1, <4>2, <4>3, OpenFacts
      <4>4. CASE d # fib[g].fd
        <5>1. kern'[d] = kern[d]
          BY <1>0, <2>2, <4>1, <4>2, <4>4, OpenFacts
        <5> QED
          BY <2>2, <4>1, <5>1
      <4> QED
        BY <4>3, <4>4
    <3> HIDE DEF Same
    <3> QED
      BY <1>0, <1>1, <3>1, <3>2, <3>3, <3>4, <3>5, <3>6, <3>7, <3>8, <3>9, <3>10, DescriptorSteps
  <2> QED
    BY <2>1, <2>2, <2>3, <2>4, <2>5 DEF d
(* One that is accepting now: *)
<1>4. ASSUME NEW f \in Fibers, NEW c \in Socks, TryAccept(f, c)
      PROVE  Mine(f) /\ fib'[f].fd = NewFd /\ \A g \in Fibers : g # f => fib'[g] = fib[g]
  <2> DEFINE d == NewFd
  <2>1. /\ d \in Fds /\ kern[d].kind = "closed" /\ kern'[d].kind = "stream" /\ kern'[d].sock = c
        /\ UNCHANGED sockfd
    BY <1>0, <1>4, ClientFacts
  <2>2. /\ fib'[f].fd = d /\ fib'[f].sock = c
        /\ \A g \in Fibers : g # f => fib'[g] = fib[g]
    BY <1>0, <1>4, TryAcceptFacts DEF Moves
  <2> HIDE DEF d
  <2>3. ASSUME NEW s \in Socks, sockfd'[s] = d PROVE Closed_by_now(s)'
    <3>1. sockfd[s] = d /\ sockfd[s] # NoFd
      BY <1>2, <2>1, <2>3
    <3>2. Closed_by_now(s)
      BY <2>1, <3>1 DEF SocketsOwn, Owned
    <3> QED
      BY <1>0, <2>1, <3>1, <3>2, ClosedStays
  <2> QED
    BY <2>1, <2>2, <2>3 DEF d
<1> HIDE DEF Mine
<1>5. ASSUME NEW f \in Fibers, Accepting(f)'
      PROVE  \/ Accepting(f)
             \/ \E c \in Socks : TryAccept(f, c)
  <2>1. \A u \in Unused : Own[u] \in Socks
    BY OwnType DEF Unused
  <2> QED
    BY <1>0, <1>5, <2>1, AcceptingMoves
<1>6. ASSUME NEW f \in Fibers, Accepting(f)' PROVE Mine(f)
  BY <1>3, <1>4, <1>5, <1>6
<1>7. ASSUME NEW f \in Fibers, NEW g \in Fibers, Accepting(f)', Accepting(g)', fib'[g].fd = fib'[f].fd
      PROVE  f = g
  <2>1. CASE Accepting(f) /\ Accepting(g)
    <3>1. fib[g].fd = fib[f].fd
      BY <1>3, <1>7, <2>1
    <3> QED
      BY <2>1, <3>1 DEF AcceptorsOwn
  <2>2. ASSUME NEW x \in Fibers, NEW y \in Fibers, NEW c \in Socks, TryAccept(x, c), Accepting(y),
               Accepting(y)', fib'[x].fd = fib'[y].fd
        PROVE  FALSE
    BY <1>3, <1>4, <2>2
  <2>3. ASSUME NEW b \in Socks, NEW c \in Socks, TryAccept(f, b), TryAccept(g, c) PROVE f = g
    <3>1. SUFFICES ASSUME f # g PROVE FALSE
      OBVIOUS
    <3>2. fib'[g] = fib[g]
      BY <1>4, <2>3, <3>1
    <3>3. fib[g].pc = "try"
      BY <2>3 DEF TryAccept, At
    <3> QED
      BY <1>7, <3>2, <3>3 DEF Accepting
  <2> QED
    BY <1>5, <1>7, <2>1, <2>2, <2>3
<1> QED
  BY <1>6, <1>7 DEF AcceptorsOwn, Mine

(***************************************************************************)
(* What always holds of the calls and of whose the descriptors are.        *)
(***************************************************************************)
Held == Placed /\ OpsInv /\ OwnInv

LEMMA HeldStep ==
  ASSUME Held, Next
  PROVE  Held'
<1>0. Placed /\ OpsInv /\ OwnInv /\ Basic
  BY DEF Held, Placed
<1>1. Placed' /\ OpsInv'
  BY <1>0, PlacedStep, OpsStep
<1>2. Orderly' <=> Orderly
  <2>1. nthreads' = nthreads
    <3>1. /\ Types /\ FlagsInv /\ RoleInv
          /\ Going_on \/ \E S \in SUBSET Fibers, s \in Seq(Fiber) : StartStep(S, s)
      BY <1>0, Kinds_of_steps DEF Basic
    <3>2. ChanType'
      BY <3>1, ChanAndCpu
    <3> QED
      BY <3>1, <3>2, NextState DEF AllOK
  <2> QED
    BY <2>1, ServingSame DEF Orderly
<1>3. OwnInv'
  <2> SUFFICES ASSUME Orderly PROVE ClosersOwn' /\ SocketsOwn' /\ AcceptorsOwn'
    BY <1>2 DEF OwnInv
  <2>1. ClosersOwn /\ SocketsOwn /\ AcceptorsOwn
    BY <1>0 DEF OwnInv
  <2> QED
    BY <1>0, <2>1, ClosersOwnStep, SocketsOwnStep, AcceptorsOwnStep
<1> QED
  BY <1>1, <1>3 DEF Held

LEMMA HeldAlways == Spec => []Held
<1>1. Init => OpsInv /\ OwnInv
  <2> SUFFICES ASSUME Init PROVE OpsInv /\ OwnInv
    OBVIOUS
  <2>1. \A f \in Fibers : fib[f].pc = "none" /\ fib[f].op = "none"
    BY DEF Init, SocketInit, HookInit, Idle
  <2>2. OpsInv
    BY <2>1 DEF OpsInv, Ops
  <2>3. \A s \in Socks : sockfd[s] = NoFd
    BY DEF Init, SocketInit
  <2>4. OwnInv
    BY <2>1, <2>3 DEF OwnInv, ClosersOwn, SocketsOwn, AcceptorsOwn, Closer, Accepting
  <2> QED
    BY <2>2, <2>4
<1>2. Placed /\ OpsInv /\ OwnInv /\ [Next]_vars => (OpsInv /\ OwnInv)'
  <2> SUFFICES ASSUME Placed, OpsInv, OwnInv, [Next]_vars PROVE OpsInv' /\ OwnInv'
    OBVIOUS
  <2>1. CASE UNCHANGED vars
    <3>1. UNCHANGED <<nthreads, fib, kern, sockfd, serving>>
      BY <2>1 DEF vars, sockVars, hookVars, serverVars
    <3> QED
      BY <3>1 DEF OpsInv, Ops, OwnInv, Orderly, ClosersOwn, SocketsOwn, AcceptorsOwn, Closed_by_now,
                  Closer, Accepting, Owned
  <2>2. CASE Next
    BY <2>2, HeldStep DEF Held
  <2> QED
    BY <2>1, <2>2
<1> QED
  BY <1>1, <1>2, PlacedAlways, PTL DEF Spec, Held

(***************************************************************************)
(* Socket::close and the destructor close the descriptor in fd_, and give  *)
(* up fd_ only after ::close has come back: in a server, and with one      *)
(* thread, the number is the Socket's own until then, and nobody else's    *)
(* descriptor is closed.                                                   *)
(***************************************************************************)
THEOREM SocketsOwnTheirs == Spec => []SocketOwns
<1>1. Held => SocketOwns
  <2> SUFFICES ASSUME Held, Orderly, NEW s \in Socks, sockfd[s] # NoFd, ~Closed_by_now(s)
               PROVE  Kind(sockfd[s]) # "closed" /\ kern[sockfd[s]].sock = s
    BY DEF SocketOwns, Orderly, Closed_by_now, Closer
  <2>1. Owned(s)
    BY DEF Held, OwnInv, SocketsOwn
  <2> QED
    BY <2>1 DEF Owned, Kind
<1> QED
  BY <1>1, HeldAlways, PTL

-----------------------------------------------------------------------------
(* Who is woken *)

(* A descriptor without a context is one that is about to be closed, or to *)
(* get its context: nobody else closes without cancelAll.                  *)
Handles(f, d) == fib[f].fd = d /\ fib[f].pc \in {"close_f", "accepted"}
KnownInv ==
  \A d \in Fds : kern[d].kind # "closed" /\ ~ctx[d].there => \E f \in Fibers : Handles(f, d)

LEMMA HandlesStays ==
  ASSUME Basic, OpsInv, Next, NEW f \in Fibers, NEW d, Handles(f, d)
  PROVE  Handles(f, d)' \/ CloseF(f) \/ Accepted(f)
<1>0. FibOK /\ fib[f] \in FibRec /\ Types /\ FlagsInv /\ RoleInv
  BY DEF Basic, Types, FibOK
<1>1. CASE fib'[f] = fib[f]
  BY <1>1 DEF Handles
<1>2. CASE fib'[f] = [fib[f] EXCEPT !.cancelled = TRUE]
  BY <1>0, <1>2 DEF Handles, FibRec
<1>3. CASE CallStep(f)
  BY SMTT(60), <1>3 DEF Handles, CallStep, Enter, TryIo, TryConnect, Arm, addEvent, Woken, SoError, CloseCancel,
              CloseRemove, At
<1>4. ASSUME NEW l \in Listeners, f = Acceptor[l], AcceptStep(l) PROVE Accepted(f)
  BY ZenonT(60), <1>4 DEF Handles, AcceptStep, AcceptLoop, handleClient, AcceptFailed, TryAccept, At
<1>5. ASSUME f = Stopper, StopStep PROVE FALSE
  BY <1>5 DEF Handles, StopStep, StopEnd, StopSocket, StopClose, StopNext, close, finished, At
<1>6. ASSUME f \in Users, UserStep(f) PROVE FALSE
  BY <1>6 DEF Handles, UserStep, UserCall, UserClose, UserReturn, UserEnd, sleep, transfer, connect, close,
              setFlags, finished, At
<1> QED
  BY <1>1, <1>2, <1>3, <1>4, <1>5, <1>6, Movers DEF Handles

(* What the descriptor steps do to a context. *)
LEMMA OpenThere ==
  ASSUME KernOK, NEW d, NEW kind, NEW s, Open(d, kind, s)
  PROVE  /\ d \in Fds => ctx'[d].there /\ ctx'[d].sys = (IF ctx[d].there THEN ctx[d].sys ELSE TRUE)
         /\ d \in Fds => kern'[d].nonblock = ~ctx[d].there
         /\ \A e \in Fds : e # d => kern'[e] = kern[e] /\ ctx'[e] = ctx[e]
  BY DEF KernOK, Open, getFdCtx, FdCtx, NoCtx

LEMMA ClearFacts ==
  ASSUME KernOK, NEW hooked \in BOOLEAN, Clear(hooked), NEW d \in Fds, kern'[d].kind # "closed"
  PROVE  kern'[d] = kern[d] /\ ctx'[d] = ctx[d] /\ (d \in stale' <=> d \in stale)
<1> DEFINE ds == {sockfd[l] : l \in socks} \cap Fds
<1>1. /\ kern' = [x \in Fds |-> IF x \in ds THEN ClosedFd ELSE kern[x]]
      /\ ctx' = [x \in Fds |-> IF x \in ds /\ hooked THEN NoCtx ELSE ctx[x]]
      /\ stale' = IF hooked THEN stale \ ds ELSE stale \cup ds
  BY DEF Clear
<1> HIDE DEF ds
<1>2. d \notin ds
  BY <1>1 DEF ClosedFd
<1> QED
  BY <1>1, <1>2

LEMMA HandledFacts ==
  ASSUME KernOK, FibOK, NEW l \in Listeners, handleClient(l)
  PROVE  /\ UNCHANGED <<kern, stale>>
         /\ \A d \in Fds : /\ ctx'[d].there = ctx[d].there /\ ctx'[d].sys = ctx[d].sys
                           /\ ctx'[d].user = ctx[d].user
<1> DEFINE c == fib[Acceptor[l]].fd
<1>1. UNCHANGED <<kern, stale>> /\ setTimeout(c, "READ")
  BY DEF handleClient, setRecvTimeout, Fresh
<1> HIDE DEF c
<1>2. ctx' = ctx \/ (c \in Fds /\ ctx' = [ctx EXCEPT ![c].timeout = @ \cup {"READ"}])
  BY <1>1 DEF setTimeout
<1> QED
  BY <1>1, <1>2 DEF KernOK, CtxRec

LEMMA FlagFacts ==
  ASSUME KernOK, NEW u, NEW s, setFlags(u, s), NEW d \in Fds
  PROVE  /\ kern'[d].kind = kern[d].kind /\ kern'[d].sock = kern[d].sock
         /\ ctx'[d].there = ctx[d].there /\ ctx'[d].sys = ctx[d].sys
<1>1. PICK c \in Fds, flag \in BOOLEAN :
        /\ ctx' = IF ctx[c].there THEN [ctx EXCEPT ![c].user = flag] ELSE ctx
        /\ \E b : SetNonblock(c, b)
  BY DEF setFlags, fcntl, ioctl
<1>2. kern'[d].kind = kern[d].kind /\ kern'[d].sock = kern[d].sock
  BY <1>1 DEF SetNonblock, KernOK, KernRec
<1>3. ctx'[d].there = ctx[d].there /\ ctx'[d].sys = ctx[d].sys
  BY <1>1 DEF KernOK, CtxRec
<1> QED
  BY <1>2, <1>3

LEMMA KnownStep ==
  ASSUME Held, KnownInv, Next
  PROVE  KnownInv'
<1>0. /\ Basic /\ OpsInv /\ Types /\ FibOK /\ FlagsInv /\ SockOK /\ RoleInv /\ KernOK
      /\ Listeners \subseteq Socks
  BY ServerAssumption DEF Held, Placed, Basic, Types
<1> SUFFICES ASSUME NEW d \in Fds, kern'[d].kind # "closed", ~ctx'[d].there
             PROVE  \E f \in Fibers : Handles(f, d)'
  BY DEF KnownInv
<1>1. CASE kern[d].kind # "closed" /\ ~ctx[d].there
  <2>1. PICK f \in Fibers : Handles(f, d)
    BY <1>1 DEF KnownInv
  <2>2. ~CloseF(f)
    BY <1>0, <2>1 DEF CloseF, Forget, Handles, KernOK, ClosedFd
  <2>3. ~Accepted(f)
    <3>1. ASSUME Accepted(f) PROVE Open(d, "stream", fib[f].sock)
      BY <2>1, <3>1 DEF Accepted, Handles
    <3> QED
      BY <1>0, <3>1, OpenThere
  <2> QED
    BY <1>0, <2>1, <2>2, <2>3, HandlesStays
<1>2. ASSUME kern[d].kind = "closed" \/ ctx[d].there PROVE \E f \in Fibers : Handles(f, d)'
  <2>1. ASSUME kern'[d].kind = kern[d].kind, ctx'[d].there = ctx[d].there PROVE FALSE
    BY <1>2, <2>1
  <2>2. ~Calm
    BY <1>2 DEF Calm, Keeps
  <2>3. ASSUME NEW s \in Socks, NEW kind, newSock(s, kind) PROVE FALSE
    <3>1. PICK c \in Fds : Open(c, kind, s)
      BY <2>3, NewFdFree DEF newSock
    <3> QED
      BY <1>0, <2>1, <3>1, OpenThere
  <2>4. ~OwnersStep
    BY <1>0, <2>1, <2>3, ClearFacts DEF OwnersStep
  <2>5. ASSUME NEW f \in Fibers, CloseRemove(f) PROVE \E g \in Fibers : Handles(g, d)'
    <3>1. GoOn(f, "close_f") /\ "close_f" \in PCs
      BY <2>5 DEF CloseRemove, PCs
    <3>2. fib'[f].pc = "close_f" /\ fib'[f].fd = fib[f].fd
      BY <1>0, <3>1, GoOnFacts DEF Goes_on
    <3>3. kern' = kern /\ ctx' = [ctx EXCEPT ![fib[f].fd] = NoCtx]
      BY <2>5 DEF CloseRemove
    <3>4. fib[f].fd = d
      BY <1>0, <2>1, <3>3 DEF KernOK
    <3> QED
      BY <3>2, <3>4 DEF Handles
  <2>6. ASSUME NEW f \in Fibers, CloseF(f) PROVE FALSE
    BY <1>0, <2>1, <2>6 DEF CloseF, Forget, KernOK, ClosedFd
  <2>7. ASSUME NEW f \in Fibers, Closed_off(f) PROVE FALSE
    BY <2>1, <2>7 DEF Closed_off
  <2>8. ASSUME NEW u \in Users, NEW s \in Socks, Connects(u, s) \/ setFlags(u, s) PROVE FALSE
    BY <1>0, <2>1, <2>3, <2>8, FlagFacts DEF Connects
  <2>9. ASSUME NEW l \in Listeners, handleClient(l) PROVE FALSE
    BY <1>0, <2>1, <2>9, HandledFacts
  <2>10. ASSUME NEW f \in Fibers, Accepted(f) PROVE FALSE
    <3>1. Open(fib[f].fd, "stream", fib[f].sock)
      BY <2>10 DEF Accepted
    <3> QED
      BY <1>0, <2>1, <3>1, OpenThere
  <2>11. ASSUME NEW f \in Fibers, NEW c \in Socks, TryAccept(f, c) PROVE \E g \in Fibers : Handles(g, d)'
    <3>1. d = NewFd
      BY <1>0, <2>1, <2>11, ClientFacts
    <3>2. fib'[f].pc = "accepted" /\ fib'[f].fd = NewFd
      BY <1>0, <2>11, TryAcceptFacts
    <3> QED
      BY <3>1, <3>2 DEF Handles
  <2>12. /\ \A l \in Listeners : Acceptor[l] \in Fibers
         /\ \A u \in Unused : Own[u] \in Socks
    BY ServerAssumption, OwnType DEF Unused
  <2> QED
    BY <1>0, <2>2, <2>4, <2>5, <2>6, <2>7, <2>8, <2>9, <2>10, <2>11, <2>12, DescriptorSteps
<1> QED
  BY <1>1, <1>2

(* A waiter that did not come between a cancelAll and a close_f is watched *)
(* for, and nobody closes its descriptor without having woken it.          *)
Watch ==
  \A d \in Fds, e \in Event : chan[d][e] # NoFiber =>
    \/ chan[d][e] \in raced
    \/ e \in reg[d] /\ kern[d].kind # "closed" /\ Closing(d) = {}

LEMMA ChanSteps ==
  ASSUME Types, Next
  PROVE  \/ UNCHANGED <<chan, reg>>
         \/ \E d \in Fds, es \in SUBSET Event : handleEvents(d, es)
         \/ \E f \in Fibers : addEvent(f) \/ CloseF(f)
<1>0. ASSUME NEW d, NEW es \in SUBSET Event, cancelEvents(d, es)
      PROVE  UNCHANGED <<chan, reg>> \/ \E c \in Fds, cs \in SUBSET Event : handleEvents(c, cs)
  BY <1>0 DEF cancelEvents
<1>1. CASE Owner \/ UserStart
  BY <1>1 DEF Owner, bind, bindOne, bindEnd, destroy, start, stop, Clear, sockVars, hookVars, UserStart
<1>2. CASE Threads
  <2>1. CASE LoopStep
    <3>1. CASE CancelTimeout
      <4>1. PICK t \in cpu : cancelEvents(t.fd, {t.ev})
        BY <3>1 DEF CancelTimeout
      <4>2. CASE t.ev \in Event
        <5>1. {t.ev} \in SUBSET Event
          BY <4>2
        <5> QED
          BY <1>0, <4>1, <5>1
      <4>3. CASE t.ev \notin Event
        <5>1. {t.ev} \cap WaitedFor(t.fd) = {}
          BY SMTT(60), <4>3 DEF WaitedFor
        <5> QED
          BY <4>1, <5>1 DEF cancelEvents
      <4> QED
        BY <4>2, <4>3
    <3> QED
      BY <2>1, <3>1 DEF LoopStep, RunFiber, RunSleep, RunTimeout
  <2>2. ASSUME NEW f \in Fibers, CallStep(f)
        PROVE  \/ UNCHANGED <<chan, reg>>
               \/ \E d \in Fds, es \in SUBSET Event : handleEvents(d, es)
               \/ addEvent(f) \/ CloseF(f)
    <3>1. CASE CloseCancel(f)
      BY SMTT(60), <1>0, <3>1 DEF CloseCancel
    <3> QED
      BY <2>2, <3>1 DEF CallStep, Enter, TryIo, TryConnect, Arm, Woken, SoError, CloseRemove
  <2>3. CASE \E l \in Listeners : AcceptStep(l)
    BY ZenonT(60), <2>3 DEF AcceptStep, AcceptLoop, handleClient, AcceptFailed, TryAccept, Accepted
  <2>4. CASE StopStep
    <3>1. ASSUME NEW l \in Listeners, StopSocket(l)
          PROVE  UNCHANGED <<chan, reg>> \/ \E d \in Fds, es \in SUBSET Event : handleEvents(d, es)
      BY <1>0, <3>1 DEF StopSocket
    <3> QED
      BY <2>4, <3>1 DEF StopStep, StopEnd, StopClose, StopNext, close, finished
  <2>5. CASE \E u \in Users : UserStep(u)
    BY ZenonT(60), <2>5 DEF UserStep, UserCall, UserClose, UserReturn, UserEnd, sleep, transfer, connect, close,
                setFlags, finished
  <2> QED
    BY <1>2, <2>1, <2>2, <2>3, <2>4, <2>5 DEF Threads
<1>3. CASE Timing
  BY <1>3 DEF Timing, Expire
<1>4. CASE Reporting
  <2>1. PICK d \in Fds : Report(d)
    BY <1>4 DEF Reporting
  <2> DEFINE es == reg[d] \cap kern[d].ready
  <2>2. handleEvents(d, es) /\ es \in SUBSET Event
    BY <2>1 DEF Report, Types, ChanOK
  <2> HIDE DEF es
  <2> QED
    BY <2>2
<1>5. CASE Environment
  BY <1>5 DEF Environment, Arrive, Resolve
<1> QED
  BY <1>1, <1>2, <1>3, <1>4, <1>5 DEF Next

(* Who is forgotten in `raced` does not wait. *)
LEMMA RacedStays ==
  ASSUME Next, NEW f \in Fibers, f \in raced, fib[f].pc = "wait"
  PROVE  f \in raced'
<1>1. ASSUME NEW g, Fresh(g), fib[g].pc # "wait" PROVE f \in raced'
  BY <1>1 DEF Fresh
<1>2. CASE Owner \/ UserStart
  BY <1>2 DEF Owner, bind, bindOne, bindEnd, destroy, start, stop, Clear, sockVars, hookVars, history,
              UserStart
<1>3. CASE Threads
  <2>1. CASE LoopStep
    BY <2>1 DEF LoopStep, RunFiber, RunSleep, RunTimeout, CancelTimeout, history
  <2>2. ASSUME NEW g \in Fibers, CallStep(g) PROVE f \in raced'
    BY ZenonT(60), <2>2 DEF CallStep, Enter, TryIo, TryConnect, Arm, addEvent, Woken, SoError, CloseCancel,
                CloseRemove, CloseF, history
  <2>3. ASSUME NEW l \in Listeners, AcceptStep(l) PROVE f \in raced'
    <3>1. CASE AcceptLoop(l) \/ (\E u \in Unused : TryAccept(Acceptor[l], Own[u])) \/ Accepted(Acceptor[l])
      BY Zenon, <3>1 DEF AcceptLoop, TryAccept, Accepted, history
    <3>2. CASE handleClient(l) \/ AcceptFailed(l)
      BY <1>1, <3>2 DEF handleClient, AcceptFailed, At
    <3> QED
      BY SMTT(60), <2>3, <3>1, <3>2 DEF AcceptStep
  <2>4. CASE StopStep
    <3>1. ASSUME NEW l \in Listeners, StopNext(l) PROVE f \in raced'
      BY <1>1, <3>1 DEF StopNext, finished, At
    <3> QED
      BY <2>4, <3>1 DEF StopStep, StopEnd, StopSocket, StopClose, close, history
  <2>5. ASSUME NEW u \in Users, UserStep(u) PROVE f \in raced'
    <3>1. CASE UserReturn(u)
      BY <1>1, <3>1 DEF UserReturn, finished, At
    <3> QED
      BY <2>5, <3>1 DEF UserStep, UserCall, UserClose, UserEnd, sleep, transfer, connect, close,
                        setFlags, history
  <2> QED
    BY <1>3, <2>1, <2>2, <2>3, <2>4, <2>5 DEF Threads
<1>4. CASE Timing \/ Reporting \/ Environment
  BY <1>4 DEF Timing, Expire, Reporting, Report, Environment, Arrive, Resolve, history
<1> QED
  BY <1>2, <1>3, <1>4 DEF Next

(* A fiber goes past cancelAll only when nobody waits: there is none of    *)
(* them when close does not know the descriptor, ...                       *)
LEMMA UnknownClose ==
  ASSUME Held, KnownInv, NEW d \in Fds, kern[d].kind # "closed", ~ctx[d].there,
         NEW g \in Fibers, fib[g].pc = "enter", Closer(g), fib[g].fd = d
  PROVE  Closing(d) # {}
<1>0. OpsInv /\ Placed /\ OwnInv /\ RoleInv /\ OwnerOK /\ FlagsInv
  BY DEF Held, Placed, Basic, Types
<1>1. PICK f \in Fibers : Handles(f, d)
  BY DEF KnownInv
<1>2. CASE fib[f].pc = "close_f"
  <2>1. fib[f].op = "close"
    BY <1>0, <1>2 DEF OpsInv, Ops
  <2> QED
    BY <1>1, <1>2, <2>1 DEF Closing, Handles
<1>3. CASE fib[f].pc = "accepted"
  <2>1. f \in Acceptors
    BY <1>0, <1>3 DEF OpsInv, Ops
  <2>2. serving
    BY <1>0, <1>3, <2>1, AcceptorServes
  <2>3. ClosersOwn /\ AcceptorsOwn /\ Orderly
    BY <1>0, <2>2 DEF OwnInv, Orderly
  <2>4. sockfd[fib[g].sock] = d /\ fib[g].sock \in Socks
    BY <1>0, <2>3 DEF ClosersOwn, FlagsInv, OfSocket, Closer
  <2>5. Closed_by_now(fib[g].sock)
    BY <1>1, <1>3, <2>3, <2>4 DEF AcceptorsOwn, Accepting, Handles
  <2>6. PICK h \in Fibers : Closer(h) /\ fib[h].sock = fib[g].sock /\ fib[h].pc = "done"
    BY <2>5 DEF Closed_by_now
  <2>7. h = g
    BY <1>0, <2>3, <2>6, OneCloser
  <2> QED
    BY <2>6, <2>7
<1> QED
  BY <1>1, <1>2, <1>3 DEF Handles

(* ... and none is left after cancelAll. *)
LEMMA NewClosing ==
  ASSUME Held, KnownInv, Next, NEW d \in Fds, NEW e \in Event,
         e \in reg[d], chan[d][e] # NoFiber, chan'[d][e] = chan[d][e], kern[d].kind # "closed",
         Closing(d) = {}
  PROVE  Closing(d)' = {}
<1>0. Basic /\ OpsInv /\ Types /\ FibOK /\ FlagsInv /\ RoleInv /\ ChanOK
  BY DEF Held, Placed, Basic, Types
<1> SUFFICES ASSUME NEW g \in Fibers, fib'[g].op = "close", fib'[g].fd = d,
                    fib'[g].pc \in {"remove", "close_f"}
             PROVE  FALSE
  BY DEF Closing
<1>1. ~(fib[g].op = "close" /\ fib[g].fd = d /\ fib[g].pc \in {"remove", "close_f"})
  BY DEF Closing
<1>2. Closer(g) /\ Closer(g)' /\ fib'[g].fd = fib[g].fd
  BY <1>0, CloserMoves DEF Closer, Closes
<1>3. fib[g].pc \notin {"remove", "close_f"} /\ fib[g].fd = d
  BY <1>1, <1>2 DEF Closer
<1>4. fib'[g] # fib[g] /\ ~(fib'[g] = [fib[g] EXCEPT !.cancelled = TRUE])
  BY <1>0, <1>3 DEF FibOK, FibRec
<1>5. fib[g].op = "close" /\ fib[g].pc \in ClosePCs /\ g \notin Acceptors
  BY <1>0, <1>2 DEF OpsInv, Ops, Closer
<1>6. CallStep(g)
  <2>1. ~(g = Stopper /\ StopStep)
    <3>1. ASSUME g = Stopper, StopStep PROVE FALSE
      <4>1. fib'[g] = fib[g] \/ fib'[g].pc \in {"loop", "term", "body", "enter"}
        BY <1>0, <3>1, StopMoves DEF Closes
      <4> QED
        BY <1>4, <4>1
    <3> QED
      BY <3>1
  <2>2. ~(g \in Users /\ UserStep(g))
    <3>1. ASSUME g \in Users, UserStep(g) PROVE FALSE
      <4>1. /\ fib[g].pc \in {"body", "done"}
            /\ fib'[g].pc = fib[g].pc \/ fib'[g].pc \in {"body", "term", "enter"}
        BY <1>0, <3>1, UserMoves DEF Closes
      <4> QED
        BY <4>1
    <3> QED
      BY <3>1
  <2>3. fib[g].pc # "none"
    BY <1>5 DEF ClosePCs
  <2> QED
    BY <1>0, <1>4, <1>5, <2>1, <2>2, <2>3, Movers DEF Acceptors
<1>7. CASE Enter(g)
  <2>1. At(g, "enter") /\ GoOn(g, IF d \in Fds /\ ctx[d].there THEN "cancelAll" ELSE "close_f")
    BY <1>3, <1>5, <1>7 DEF Enter, IoOps
  <2>2. ctx[d].there => fib'[g].pc = "cancelAll"
    BY <1>0, <2>1 DEF GoOn, FibOK, FibRec
  <2>3. ~ctx[d].there
    BY <2>2
  <2> QED
    BY <1>2, <1>3, <2>1, <2>3, UnknownClose DEF At
<1>8. CASE CloseCancel(g)
  <2>1. cancelEvents(d, Event)
    BY <1>3, <1>8 DEF CloseCancel
  <2>2. Watched(d) /\ e \in Event \cap WaitedFor(d)
    BY DEF Watched, Kind, WaitedFor
  <2>3. handleEvents(d, Event \cap WaitedFor(d))
    BY <2>1, <2>2 DEF cancelEvents
  <2>4. chan' = [chan EXCEPT ![d] = [x \in Event |-> IF x \in Event \cap WaitedFor(d) THEN NoFiber ELSE @[x]]]
    BY <2>3 DEF handleEvents
  <2>5. chan'[d][e] = NoFiber
    BY <1>0, <2>2, <2>4 DEF ChanOK
  <2> QED
    BY <2>5
<1>9. ~CloseRemove(g) /\ ~CloseF(g)
  BY <1>3 DEF CloseRemove, CloseF, At
<1>10. ~TryIo(g) /\ ~TryConnect(g) /\ ~Arm(g) /\ ~addEvent(g) /\ ~Woken(g) /\ ~SoError(g)
  BY <1>5 DEF ClosePCs, TryIo, TryConnect, Arm, addEvent, Woken, SoError, At
<1> QED
  BY <1>6, <1>7, <1>8, <1>9, <1>10 DEF CallStep

(* A descriptor that somebody waits for is closed by CloseF alone. *)
LEMMA StaysOpen ==
  ASSUME Held, Next, NEW d \in Fds, kern[d].kind # "closed",
         NEW f \in Fibers, fib[f].pc # "none", \A g \in Fibers : CloseF(g) => fib[g].fd # d
  PROVE  kern'[d].kind # "closed"
<1>0. /\ Basic /\ OpsInv /\ Types /\ FibOK /\ SockOK /\ KernOK
      /\ Listeners \subseteq Socks
  BY ServerAssumption DEF Held, Placed, Basic, Types
<1>1. CASE Calm
  BY <1>1 DEF Calm, Keeps
<1>2. ~OwnersStep
  BY DEF OwnersStep, Nobody
<1>3. ASSUME NEW g \in Fibers, CloseRemove(g) PROVE kern' = kern
  BY <1>3 DEF CloseRemove
<1>4. ASSUME NEW g \in Fibers, CloseF(g) PROVE kern'[d] = kern[d]
  BY <1>0, <1>4 DEF CloseF, Forget, KernOK
<1>5. ASSUME NEW g \in Fibers, Closed_off(g) PROVE kern' = kern
  BY <1>5 DEF Closed_off
<1>6. ASSUME NEW u \in Users, NEW s \in Socks, Connects(u, s) PROVE kern'[d] = kern[d]
  BY <1>0, <1>6, NewSockFacts DEF Connects
<1>7. ASSUME NEW u \in Users, NEW s \in Socks, setFlags(u, s) PROVE kern'[d].kind = kern[d].kind
  BY <1>0, <1>7, FlagFacts
<1>8. ASSUME NEW l \in Listeners, handleClient(l) PROVE kern' = kern
  BY <1>0, <1>8, HandledFacts
<1>9. ASSUME NEW g \in Fibers, Accepted(g) PROVE kern'[d].kind # "closed"
  <2>1. Open(fib[g].fd, "stream", fib[g].sock)
    BY <1>9 DEF Accepted
  <2>2. CASE fib[g].fd = d
    BY <1>0, <2>1, <2>2, OpenFacts
  <2>3. CASE fib[g].fd # d
    BY ZenonT(60), <1>0, <2>1, <2>3, OpenThere
  <2> QED
    BY <2>2, <2>3
<1>10. ASSUME NEW g \in Fibers, NEW c, TryAccept(g, c) PROVE kern'[d].kind # "closed"
  BY <1>0, <1>10, ClientFacts
<1>11. \A l \in Listeners : Acceptor[l] \in Fibers
  BY ServerAssumption
<1> QED
  BY <1>0, <1>1, <1>2, <1>3, <1>4, <1>5, <1>6, <1>7, <1>8, <1>9, <1>10, <1>11, DescriptorSteps

LEMMA WatchStep ==
  ASSUME Held, KnownInv, Watch, Next
  PROVE  Watch'
<1>0. /\ Basic /\ OpsInv /\ Types /\ FibOK /\ FlagsInv /\ ChanOK /\ RegOK /\ PlaceInv
      /\ ChanType /\ ChanType'
  <2>1. Placed /\ Placed'
    BY PlacedStep DEF Held
  <2> QED
    BY <2>1 DEF Held, Placed, Basic, Types, ChanOK, RegOK, ChanType
<1> SUFFICES ASSUME NEW d \in Fds, NEW e \in Event, chan'[d][e] # NoFiber
             PROVE  \/ chan'[d][e] \in raced'
                    \/ e \in reg'[d] /\ kern'[d].kind # "closed" /\ Closing(d)' = {}
  BY DEF Watch
<1>1. PICK f \in Fibers : chan'[d][e] = f
  BY <1>0 DEF ChanType
<1>2. CASE chan[d][e] = f
  <2>1. fib[f].pc = "wait"
    BY <1>0, <1>2 DEF PlaceInv, Place
  <2>2. CASE f \in raced
    BY <1>1, <2>1, <2>2, RacedStays
  <2>3. CASE f \notin raced
    <3>1. e \in reg[d] /\ kern[d].kind # "closed" /\ Closing(d) = {}
      BY <1>1, <1>2, <2>3 DEF Watch
    <3>2. Closing(d)' = {}
      BY <1>1, <1>2, <3>1, NewClosing
    <3>3. ASSUME NEW g \in Fibers, CloseF(g) PROVE fib[g].fd # d
      <4>1. fib[g].pc = "close_f"
        BY <3>3 DEF CloseF, At
      <4>2. fib[g].op = "close"
        BY <1>0, <4>1 DEF OpsInv, Ops
      <4> QED
        BY <3>1, <4>1, <4>2 DEF Closing
    <3>4. kern'[d].kind # "closed"
      BY <2>1, <3>1, <3>3, StaysOpen
    <3>5. e \in reg'[d]
      <4>1. CASE UNCHANGED <<chan, reg>>
        BY <3>1, <4>1
      <4>2. ASSUME NEW c \in Fds, NEW es \in SUBSET Event, handleEvents(c, es) PROVE e \in reg'[d]
        <5>1. /\ chan' = [chan EXCEPT ![c] = [x \in Event |-> IF x \in es THEN NoFiber ELSE @[x]]]
              /\ reg' = [reg EXCEPT ![c] = WaitedFor(c) \ es]
          BY <4>2 DEF handleEvents
        <5>2. CASE c = d
          <6>1. e \notin es
            BY <1>0, <5>1, <5>2 DEF ChanType
          <6>2. e \in WaitedFor(d)
            BY <1>1, <1>2 DEF WaitedFor
          <6> QED
            BY <1>0, <5>1, <5>2, <6>1, <6>2 DEF ChanOK
        <5>3. CASE c # d
          BY <1>0, <3>1, <5>1, <5>3 DEF ChanOK
        <5> QED
          BY <5>2, <5>3
      <4>3. ASSUME NEW g \in Fibers, addEvent(g) PROVE e \in reg'[d]
        <5>1. reg' = reg \/ \E x : reg' = [reg EXCEPT ![fib[g].fd] = @ \cup {x}]
          BY <4>3 DEF addEvent
        <5> QED
          BY <1>0, <3>1, <5>1 DEF ChanOK
      <4>4. ASSUME NEW g \in Fibers, CloseF(g) PROVE e \in reg'[d]
        <5>1. reg' = reg \/ reg' = [reg EXCEPT ![fib[g].fd] = {}]
          BY <4>4 DEF CloseF, Forget
        <5> QED
          BY <1>0, <3>1, <3>3, <4>4, <5>1 DEF ChanOK
      <4> QED
        BY <1>0, <4>1, <4>2, <4>3, <4>4, ChanSteps
    <3> QED
      BY <3>2, <3>4, <3>5
  <2> QED
    BY <2>2, <2>3
<1>3. CASE chan[d][e] # f
  <2>1. ~(\E c \in Fds, es \in SUBSET Event : handleEvents(c, es))
    <3>1. ASSUME NEW c \in Fds, NEW es \in SUBSET Event, handleEvents(c, es)
          PROVE  chan'[d][e] \in {chan[d][e], NoFiber}
      <4>1. chan' = [chan EXCEPT ![c] = [x \in Event |-> IF x \in es THEN NoFiber ELSE @[x]]]
        BY <3>1 DEF handleEvents
      <4> QED
        BY <1>0, <4>1 DEF ChanType
    <3> QED
      BY <1>1, <1>3, <3>1
  <2>2. PICK g \in Fibers : addEvent(g)
    <3>1. ASSUME NEW g \in Fibers, CloseF(g) PROVE FALSE
      BY <1>1, <1>3, <3>1 DEF CloseF
    <3> QED
      BY <1>0, <1>1, <1>3, <2>1, <3>1, ChanSteps
  <2> DEFINE c == fib[g].fd
             x == EventOf(fib[g].op)
  <2>3. /\ chan' = [chan EXCEPT ![c][x] = g] /\ reg' = [reg EXCEPT ![c] = @ \cup {x}]
        /\ c \in Fds /\ Kind(c) # "closed" /\ Suspend(g) /\ kern' = kern
        /\ raced' = IF Closing(c) = {} THEN raced ELSE raced \cup {g}
    BY <1>1, <1>3, <2>2 DEF addEvent
  <2> HIDE DEF c, x
  <2>4. c = d /\ x = e /\ f = g
    BY <1>0, <1>1, <1>3, <2>3 DEF ChanType
  <2>5. e \in reg'[d] /\ kern'[d].kind # "closed"
    BY <1>0, <2>3, <2>4 DEF ChanOK, Kind
  <2>6. CASE Closing(d) = {}
    <3>1. GoOn(g, "wait") /\ "wait" \in PCs
      BY <2>3 DEF Suspend, PCs
    <3>2. /\ fib'[g].pc = "wait" /\ \A h \in Fibers : h # g => fib'[h] = fib[h]
      BY <1>0, <3>1, GoOnFacts DEF Goes_on, Moves
    <3>3. Closing(d)' = {}
      BY <2>6, <3>2 DEF Closing
    <3> QED
      BY <2>5, <3>3
  <2>7. CASE Closing(d) # {}
    BY <1>1, <2>3, <2>4, <2>7
  <2> QED
    BY <2>6, <2>7
<1> QED
  BY <1>2, <1>3

Watched_for == Held /\ KnownInv /\ Watch

LEMMA WatchedAlways == Spec => []Watched_for
<1>1. Init => KnownInv /\ Watch
  <2> SUFFICES ASSUME Init PROVE KnownInv /\ Watch
    OBVIOUS
  <2>1. kern = [d \in Fds |-> ClosedFd] /\ chan = [d \in Fds |-> NoWaiter]
    BY DEF Init, SocketInit, HookInit
  <2> QED
    BY <2>1 DEF KnownInv, Watch, ClosedFd, NoWaiter
<1>2. Held /\ KnownInv /\ Watch /\ [Next]_vars => (KnownInv /\ Watch)'
  <2> SUFFICES ASSUME Held, KnownInv, Watch, [Next]_vars PROVE KnownInv' /\ Watch'
    OBVIOUS
  <2>1. CASE UNCHANGED vars
    <3>1. UNCHANGED <<fib, kern, ctx, chan, reg, raced>>
      BY <2>1 DEF vars, sockVars, hookVars, history
    <3> QED
      BY <3>1 DEF KnownInv, Watch, Handles, Closing
  <2>2. CASE Next
    BY <2>2, KnownStep, WatchStep
  <2> QED
    BY <2>1, <2>2
<1> QED
  BY <1>1, <1>2, HeldAlways, PTL DEF Spec, Watched_for

(***************************************************************************)
(* A suspended fiber is to be woken: close() wakes by cancelAll whoever    *)
(* waits, before removeFdCtx lets a second close go by it, and between     *)
(* cancelAll and close_f another thread's addEvent can come: the fibers    *)
(* that did are the only ones that may sleep with nobody to wake them.     *)
(***************************************************************************)
THEOREM OthersAreWoken == Spec => []LostOnlyIfRaced
<1>1. Watched_for => LostOnlyIfRaced
  <2> SUFFICES ASSUME Watched_for, NEW f \in Fibers, fib[f].pc = "wait", Task(f) \notin cpu
               PROVE  \/ \E i \in DOMAIN queue : queue[i] \in {Task(f), Alarm(f)}
                      \/ Alarm(f) \in timers
                      \/ /\ fib[f].fd \in Fds /\ chan[fib[f].fd][EventOf(fib[f].op)] = f
                         /\ EventOf(fib[f].op) \in reg[fib[f].fd] /\ Kind(fib[f].fd) # "closed"
                      \/ f \in raced
    BY DEF LostOnlyIfRaced
  <2>1. PlaceInv /\ Watch /\ Types
    BY DEF Watched_for, Held, Placed, Basic
  <2>2. f \in QueuedIn(queue) \/ f \in Armed \/ f \in Waiting
    BY <2>1 DEF PlaceInv, Place, OnCpu
  <2>3. CASE f \in QueuedIn(queue)
    <3>1. PICK i \in DOMAIN queue : queue[i].kind # "timeout" /\ queue[i].f = f
      BY <2>3 DEF QueuedIn, Entries
    <3>2. queue[i] \in Items
      BY <2>1, <3>1 DEF Types, ItemsOK, Items
    <3>3. queue[i] \in Fiber \cup Sleep
      BY <3>1, <3>2, ItemTypes DEF Items
    <3>4. queue[i] \in {Task(f), Alarm(f)}
      BY <3>1, <3>3, ItemFacts DEF Fiber, Sleep
    <3> QED
      BY <3>4
  <2>4. CASE f \in Armed
    BY <2>4 DEF Armed
  <2>5. CASE f \in Waiting
    <3>1. PICK d \in Fds, e \in Event : chan[d][e] = f
      BY <2>5 DEF Waiting
    <3>2. fib[f].fd = d /\ e = EventOf(fib[f].op)
      BY <2>1, <3>1 DEF PlaceInv, Place
    <3>3. f \in raced \/ (e \in reg[d] /\ kern[d].kind # "closed")
      BY <2>1, <3>1, HookAssumption DEF Watch
    <3> QED
      BY <3>1, <3>2, <3>3 DEF Kind
  <2> QED
    BY <2>2, <2>3, <2>4, <2>5
<1> QED
  BY <1>1, WatchedAlways, PTL

-----------------------------------------------------------------------------
(* What blocks a thread *)

Client_of(f, d) == fib[f].pc = "accepted" /\ fib[f].fd = d
Accepted_as(d) == \E f \in Fibers : Client_of(f, d)

(* A context that is there goes with FIONBIO set, unless it was left       *)
(* behind, or somebody gave the descriptor FIONBIO 0.                      *)
Nonblocking(d) ==
  ctx[d].there =>
    /\ ctx[d].sys
    /\ kern[d].kind = "closed" \/ Accepted_as(d) => d \in stale
    /\ d \in stale \/ kern[d].nonblock
NBInv == \A d \in Fds : Nonblocking(d)

LEMMA FlagNonblock ==
  ASSUME KernOK, NEW u, NEW s, setFlags(u, s), NEW d \in Fds, ctx[d].there, ctx[d].sys
  PROVE  \/ /\ kern[d].kind # "closed"
            /\ kern'[d].nonblock \/ d \in stale'
         \/ /\ kern'[d].nonblock = kern[d].nonblock
            /\ d \in stale' <=> d \in stale
<1>1. PICK c \in Fds : \E flag \in BOOLEAN : fcntl(c, flag) \/ ioctl(c, flag)
  BY DEF setFlags, fcntl, ioctl
<1>2. CASE c # d
  BY <1>1, <1>2 DEF fcntl, ioctl, SetNonblock, KernOK
<1>3. CASE c = d /\ Kind(d) = "closed"
  BY <1>1, <1>3 DEF fcntl, ioctl, SetNonblock
<1>4. CASE c = d /\ Kind(d) # "closed"
  <2>1. \A b : SetNonblock(d, b) => kern'[d].nonblock = b
    BY <1>4 DEF SetNonblock, KernOK, KernRec
  <2> QED
    BY <1>1, <1>4, <2>1, Zenon DEF fcntl, ioctl, Kind
<1> QED
  BY <1>2, <1>3, <1>4

LEMMA ClientsSame ==
  ASSUME Basic, OpsInv, Next, NEW d,
         \A f \in Fibers : ~Accepted(f) /\ \A c : ~TryAccept(f, c)
  PROVE  Accepted_as(d)' <=> Accepted_as(d)
<1> SUFFICES ASSUME NEW f \in Fibers PROVE Client_of(f, d)' <=> Client_of(f, d)
  BY DEF Accepted_as
<1>1. ASSUME NEW l \in Listeners, handleClient(l), f = Acceptor[l] PROVE fib[f].pc = "init"
  BY <1>1 DEF handleClient, At
<1> QED
  BY <1>1, AcceptingMoves DEF Client_of, Accepting

LEMMA NBStep ==
  ASSUME Held, NBInv, Next
  PROVE  NBInv'
<1>0. /\ Basic /\ OpsInv /\ Types /\ FibOK /\ FlagsInv /\ SockOK /\ RoleInv /\ KernOK /\ OwnerOK
      /\ Listeners \subseteq Socks
  BY ServerAssumption DEF Held, Placed, Basic, Types
<1> SUFFICES ASSUME NEW d \in Fds, ctx'[d].there
             PROVE  /\ ctx'[d].sys
                    /\ kern'[d].kind = "closed" \/ Accepted_as(d)' => d \in stale'
                    /\ d \in stale' \/ kern'[d].nonblock
  BY DEF NBInv, Nonblocking
<1> DEFINE Good == /\ ctx'[d].sys
                   /\ kern'[d].kind = "closed" \/ Accepted_as(d)' => d \in stale'
                   /\ d \in stale' \/ kern'[d].nonblock
<1> SUFFICES Good
  OBVIOUS
<1>1. Nonblocking(d)
  BY DEF NBInv
(* Nothing happens to d; *)
<1>2. ASSUME ctx'[d].there = ctx[d].there, ctx'[d].sys = ctx[d].sys,
             kern'[d].kind = "closed" => kern[d].kind = "closed",
             kern'[d].nonblock = kern[d].nonblock,
             d \in stale => d \in stale',
             Accepted_as(d)' => Accepted_as(d)
      PROVE  Good
  BY <1>1, <1>2 DEF Nonblocking
(* its number was stale, and still is; *)
<1>3. ASSUME ctx'[d].there, ctx'[d].sys, d \in stale' PROVE Good
  BY <1>3
(* or it is opened. *)
<1>4. ASSUME NEW kind, NEW s, Open(d, kind, s), kern[d].kind = "closed" \/ Accepted_as(d), UNCHANGED stale,
             kind # "closed", ~ctx[d].there => ~(Accepted_as(d)')
      PROVE  Good
  <2>1. CASE ctx[d].there
    <3>1. ctx'[d].sys /\ d \in stale'
      BY <1>0, <1>1, <1>4, <2>1, OpenThere DEF Nonblocking
    <3> QED
      BY <1>3, <3>1
  <2>2. CASE ~ctx[d].there
    <3>1. ctx'[d].sys /\ kern'[d].nonblock /\ kern'[d].kind = kind
      BY <1>0, <1>4, <2>2, OpenThere, OpenFacts
    <3> QED
      BY <1>4, <2>2, <3>1
  <2> QED
    BY <2>1, <2>2
<1>5. ASSUME Accepted_as(d) PROVE Orderly /\ serving
  <2>1. PICK f \in Fibers : fib[f].pc = "accepted"
    BY <1>5 DEF Accepted_as, Client_of
  <2>2. f \in Acceptors
    BY <1>0, <2>1 DEF OpsInv, Ops
  <2> QED
    BY <1>0, <2>1, <2>2, AcceptorServes DEF Orderly
<1>6. ASSUME NEW f \in Fibers, Accepted(f) PROVE Good
  <2> DEFINE c == fib[f].fd
  <2>1. /\ fib[f].pc = "accepted" /\ Open(c, "stream", fib[f].sock) /\ UNCHANGED stale
        /\ GoOn(f, "init") /\ "init" \in PCs
    BY <1>6 DEF Accepted, At, history, PCs
  <2>2. fib'[f].pc = "init" /\ \A g \in Fibers : g # f => fib'[g] = fib[g]
    BY <1>0, <2>1, GoOnFacts DEF Goes_on, Moves
  <2> HIDE DEF c
  <2>3. CASE c # d
    <3>1. kern'[d] = kern[d] /\ ctx'[d] = ctx[d]
      BY <1>0, <2>1, <2>3, OpenThere
    <3>2. Accepted_as(d)' => Accepted_as(d)
      BY <2>2 DEF Accepted_as, Client_of
    <3> QED
      BY <1>2, <2>1, <3>1, <3>2
  <2>4. CASE c = d
    <3>1. Accepted_as(d)
      BY <2>1, <2>4 DEF c, Accepted_as, Client_of
    <3>2. AcceptorsOwn
      BY <1>5, <3>1 DEF Held, OwnInv
    <3>3. \A g \in Fibers : g # f => ~Client_of(g, d)
      BY <2>1, <2>4, <3>2 DEF c, AcceptorsOwn, Accepting, Client_of
    <3>4. ~(Accepted_as(d)')
      BY <2>2, <3>3 DEF Accepted_as, Client_of
    <3> QED
      BY <1>4, <2>1, <2>4, <3>1, <3>4
  <2> QED
    BY <2>3, <2>4
<1>7. ASSUME NEW f \in Fibers, NEW s \in Socks, TryAccept(f, s) PROVE Good
  <2>1. fib'[f].fd = NewFd /\ \A g \in Fibers : g # f => fib'[g] = fib[g]
    BY <1>0, <1>7, TryAcceptFacts DEF Moves
  <2>2. UNCHANGED <<ctx, stale>>
    BY <1>0, <1>7, ClientFacts
  <2>3. CASE d = NewFd
    <3>1. kern[d].kind = "closed"
      BY <1>0, <1>7, <2>3, ClientFacts
    <3> QED
      BY <1>1, <2>2, <3>1 DEF Nonblocking
  <2>4. CASE d # NewFd
    <3>1. kern'[d].kind = kern[d].kind /\ kern'[d].nonblock = kern[d].nonblock
      BY <1>0, <1>7, <2>4, ClientFacts
    <3>2. Accepted_as(d)' => Accepted_as(d)
      BY <2>1, <2>4 DEF Accepted_as, Client_of
    <3> QED
      BY <1>2, <2>2, <3>1, <3>2
  <2> QED
    BY <2>3, <2>4
<1>8. ASSUME \A f \in Fibers : ~Accepted(f) /\ \A c : ~TryAccept(f, c) PROVE Good
  <2>0. Accepted_as(d)' <=> Accepted_as(d)
    BY <1>0, <1>8, ClientsSame
  <2>1. CASE Calm
    BY <1>2, <2>0, <2>1 DEF Calm, Keeps
  <2>2. ASSUME NEW s \in Socks, NEW kind, newSock(s, kind), kind # "closed", UNCHANGED stale, ~Accepted_as(d)
        PROVE  Good
    <3>1. PICK c \in Fds : Open(c, kind, s) /\ kern[c].kind = "closed"
      BY <2>2, NewFdFree DEF newSock
    <3>2. CASE c = d
      BY <1>4, <2>0, <2>2, <3>1, <3>2
    <3>3. CASE c # d
      <4>1. kern'[d] = kern[d] /\ ctx'[d] = ctx[d]
        BY <1>0, <3>1, <3>3, OpenThere
      <4> QED
        BY <1>2, <2>0, <2>2, <4>1
    <3> QED
      BY <3>2, <3>3
  <2>3. ASSUME Nobody, NEW hooked \in BOOLEAN, Clear(hooked) PROVE Good
    <3>1. CASE kern'[d].kind # "closed"
      BY <1>0, <1>2, <2>0, <2>3, <3>1, ClearFacts
    <3>2. CASE kern'[d].kind = "closed"
      <4> DEFINE ds == {sockfd[l] : l \in socks} \cap Fds
      <4>1. /\ kern' = [x \in Fds |-> IF x \in ds THEN ClosedFd ELSE kern[x]]
            /\ ctx' = [x \in Fds |-> IF x \in ds /\ hooked THEN NoCtx ELSE ctx[x]]
            /\ stale' = IF hooked THEN stale \ ds ELSE stale \cup ds
        BY <2>3 DEF Clear
      <4> HIDE DEF ds
      <4>2. ~(d \in ds /\ hooked)
        BY <4>1 DEF NoCtx
      <4>3. ctx'[d] = ctx[d]
        BY <4>1, <4>2
      <4>4. d \in stale'
        BY <1>1, <3>2, <4>1, <4>2, <4>3 DEF Nonblocking
      <4> QED
        BY <1>1, <1>3, <4>3, <4>4 DEF Nonblocking
    <3> QED
      BY <3>1, <3>2
  <2>4. CASE OwnersStep
    <3>1. ~Accepted_as(d) /\ Nobody
      BY <2>4 DEF OwnersStep, Nobody, Accepted_as, Client_of
    <3> QED
      BY <1>0, <2>2, <2>3, <2>4, <3>1 DEF OwnersStep
  <2>5. ASSUME NEW f \in Fibers, CloseRemove(f) PROVE Good
    <3>1. ctx' = [ctx EXCEPT ![fib[f].fd] = NoCtx] /\ stale' = stale \ {fib[f].fd} /\ UNCHANGED kern
      BY <2>5 DEF CloseRemove
    <3>2. fib[f].fd # d /\ ctx'[d] = ctx[d]
      BY <1>0, <3>1 DEF KernOK, NoCtx
    <3> QED
      BY <1>2, <2>0, <3>1, <3>2
  <2>6. ASSUME NEW f \in Fibers, CloseF(f) PROVE Good
    <3> DEFINE c == fib[f].fd
    <3>1. /\ kern' = IF c \in Fds THEN [kern EXCEPT ![c] = ClosedFd] ELSE kern
          /\ stale' = IF c \in Fds /\ ctx[c].there THEN stale \cup {c} ELSE stale
          /\ UNCHANGED ctx
      BY <2>6 DEF CloseF, Forget
    <3> HIDE DEF c
    <3>2. CASE c = d
      BY <1>1, <1>3, <3>1, <3>2 DEF Nonblocking
    <3>3. CASE c # d
      <4>1. kern'[d] = kern[d] /\ (d \in stale => d \in stale')
        BY <1>0, <3>1, <3>3 DEF KernOK
      <4> QED
        BY <1>2, <2>0, <3>1, <4>1
    <3> QED
      BY <3>2, <3>3
  <2>7. ASSUME NEW f \in Fibers, Closed_off(f) PROVE Good
    BY <1>2, <2>0, <2>7 DEF Closed_off
  <2>8. ASSUME NEW u \in Users, NEW s \in Socks, Connects(u, s) PROVE Good
    BY <1>5, <2>2, <2>8 DEF Connects
  <2>9. ASSUME NEW u \in Users, NEW s \in Socks, setFlags(u, s), ~serving PROVE Good
    <3>1. ~Accepted_as(d)
      BY <1>5, <2>9
    <3>2. kern'[d].kind = kern[d].kind /\ ctx'[d].there = ctx[d].there /\ ctx'[d].sys = ctx[d].sys
      BY <1>0, <2>9, FlagFacts
    <3>3. \/ kern[d].kind # "closed" /\ (kern'[d].nonblock \/ d \in stale')
          \/ kern'[d].nonblock = kern[d].nonblock /\ (d \in stale' <=> d \in stale)
      BY <1>0, <1>1, <2>9, <3>2, FlagNonblock DEF Nonblocking
    <3> QED
      BY <1>1, <1>2, <2>0, <3>1, <3>2, <3>3 DEF Nonblocking
  <2>10. ASSUME NEW l \in Listeners, handleClient(l) PROVE Good
    BY <1>0, <1>2, <2>0, <2>10, HandledFacts
  <2>11. \A l \in Listeners : Acceptor[l] \in Fibers
    BY ServerAssumption
  <2> HIDE DEF Good
  <2> QED
    BY <1>0, <1>8, <2>1, <2>4, <2>5, <2>6, <2>7, <2>8, <2>9, <2>10, <2>11, DescriptorSteps
<1>9. ASSUME NEW f \in Fibers, NEW c, TryAccept(f, c) PROVE \E s \in Socks : TryAccept(f, s)
  <2>1. fib[f].pc = "try" /\ fib'[f].pc = "accepted"
    BY <1>0, <1>9 DEF TryAccept, At, FibOK, FibRec
  <2>2. \E u \in Unused : TryAccept(f, Own[u])
    BY <1>0, <2>1, AcceptingMoves DEF Accepting
  <2> QED
    BY <2>2, OwnType DEF Unused
<1> QED
  BY <1>6, <1>7, <1>8, <1>9

LEMMA NBAlways == Spec => []NBInv
<1>1. Init => NBInv
  <2> SUFFICES ASSUME Init PROVE NBInv
    OBVIOUS
  <2>1. ctx = [d \in Fds |-> NoCtx]
    BY DEF Init, SocketInit, HookInit
  <2> QED
    BY <2>1 DEF NBInv, Nonblocking, NoCtx
<1>2. Held /\ NBInv /\ [Next]_vars => NBInv'
  <2> SUFFICES ASSUME Held, NBInv, [Next]_vars PROVE NBInv'
    OBVIOUS
  <2>1. CASE UNCHANGED vars
    <3>1. UNCHANGED <<fib, kern, ctx, stale>>
      BY <2>1 DEF vars, sockVars, hookVars, history
    <3> QED
      BY <3>1 DEF NBInv, Nonblocking, Accepted_as, Client_of
  <2>2. CASE Next
    BY <2>2, NBStep
  <2> QED
    BY <2>1, <2>2
<1> QED
  BY <1>1, <1>2, HeldAlways, PTL DEF Spec

(***************************************************************************)
(* FdCtx::init makes a socket non-blocking, and setUserNonblock, fcntl and *)
(* ioctl keep what the user asks for apart: a call that is to wait in its  *)
(* fiber does not block the thread below it, but for FIONBIO 0 and for a   *)
(* context that an earlier close of the number left behind.                *)
(***************************************************************************)
THEOREM NeverBlocks == Spec => []NonblockBelow
<1>1. NBInv => NonblockBelow
  BY DEF NBInv, Nonblocking, NonblockBelow
<1> QED
  BY <1>1, NBAlways, PTL

-----------------------------------------------------------------------------
(* What a step makes of a connection *)

(* Without a server the user's fibers are all there is. *)
LEMMA UsersOnly ==
  ASSUME RoleInv, ~serving
  PROVE  ~Owner /\ ~StopStep /\ \A l \in Listeners : ~AcceptStep(l)
<1>1. owner = "unbound" /\ \A f \in Fibers \ Users : fib[f].pc = "none"
  BY DEF RoleInv, Early
<1>2. ~Owner
  BY <1>1 DEF Owner, bind, bindOne, bindEnd, destroy, start, stop
<1>3. fib[Stopper].pc = "none" /\ \A l \in Listeners : fib[Acceptor[l]].pc = "none"
  BY <1>1, ServerAssumption DEF Acceptors
<1>4. ~StopStep
  BY <1>3 DEF StopStep, StopEnd, StopSocket, StopClose, StopNext, close, finished, At
<1>5. ASSUME NEW l \in Listeners PROVE ~AcceptStep(l)
  BY <1>3, Zenon DEF AcceptStep, AcceptLoop, handleClient, AcceptFailed, TryAccept, Accepted, At
<1> QED
  BY <1>2, <1>4, <1>5

Same_kind(d) ==
  /\ kern'[d].kind = kern[d].kind
  /\ kern'[d].ready = kern[d].ready \/ kern[d].kind \in {"stream", "listen"}
Opened(d) == kern[d].kind = "closed" /\ kern'[d].kind = "fresh" /\ kern'[d].ready = kern[d].ready
Begun(d) ==
  /\ kern[d].kind = "fresh" /\ kern'[d].kind \in {"connecting", "stream"}
  /\ kern'[d].ready = kern[d].ready
Settled(d) == kern[d].kind = "connecting" /\ kern'[d].kind \in {"stream", "refused"}
Closed_by(d, f) == CloseF(f) /\ fib[f].fd = d /\ kern'[d] = ClosedFd

LEMMA CallKern ==
  ASSUME Types, NEW f \in Fibers, CallStep(f), NEW d \in Fds
  PROVE  Same_kind(d) \/ Begun(d) \/ Closed_by(d, f)
<1>0. KernOK /\ kern[d] \in KernRec
  BY DEF Types, KernOK
<1> DEFINE c == fib[f].fd
<1>1. CASE \/ Enter(f) \/ Arm(f) \/ addEvent(f) \/ Woken(f) \/ SoError(f) \/ CloseCancel(f)
              \/ CloseRemove(f)
  BY <1>1, Zenon DEF Same_kind, Enter, Arm, addEvent, Woken, SoError, CloseCancel, CloseRemove
<1>2. CASE TryIo(f)
  <2>1. \/ UNCHANGED kern
        \/ /\ c \in Fds /\ kern[c].kind \in {"stream", "listen"}
           /\ kern' = [kern EXCEPT ![c].ready = @ \ {EventOf(fib[f].op)}]
    BY <1>2 DEF TryIo, Kind
  <2> QED
    BY <1>0, <2>1 DEF KernOK, KernRec, Same_kind
<1>3. CASE TryConnect(f)
  <2>1. \/ UNCHANGED kern
        \/ \E k \in {"connecting", "stream"} :
             c \in Fds /\ kern[c].kind = "fresh" /\ kern' = [kern EXCEPT ![c].kind = k]
    BY <1>3 DEF TryConnect, Kind
  <2>2. ASSUME NEW k \in {"connecting", "stream"}, c \in Fds, kern[c].kind = "fresh",
               kern' = [kern EXCEPT ![c].kind = k]
        PROVE  Same_kind(d) \/ Begun(d)
    BY <1>0, <2>2 DEF KernOK, KernRec, Same_kind, Begun
  <2> QED
    BY <2>1, <2>2 DEF Same_kind
<1>4. CASE CloseF(f)
  <2>1. kern' = IF c \in Fds THEN [kern EXCEPT ![c] = ClosedFd] ELSE kern
    BY <1>4 DEF CloseF, Forget
  <2> QED
    BY <1>0, <1>4, <2>1 DEF KernOK, Same_kind, Closed_by
<1> QED
  BY <1>1, <1>2, <1>3, <1>4 DEF CallStep

LEMMA UserKern ==
  ASSUME Types, NEW u \in Users, UserStep(u), ~serving, NEW d \in Fds
  PROVE  Same_kind(d) \/ Opened(d)
<1>0. KernOK /\ kern[d] \in KernRec /\ SockOK
  BY DEF Types, KernOK
<1>1. ASSUME NEW s \in Socks, connect(u, s) PROVE Same_kind(d) \/ Opened(d)
  <2>1. UNCHANGED kern \/ (Free # {} /\ Open(NewFd, "fresh", s))
    BY <1>1 DEF connect, newSock
  <2>2. ASSUME Free # {}, Open(NewFd, "fresh", s) PROVE Same_kind(d) \/ Opened(d)
    <3>1. PICK c \in Fds : kern[c].kind = "closed" /\ Open(c, "fresh", s)
      BY <2>2, NewFdFree
    <3>2. kern' = [kern EXCEPT ![c] = [kind |-> "fresh", nonblock |-> ~ctx[c].there,
                                       ready |-> kern[c].ready, sock |-> s]]
      BY <3>1 DEF Open
    <3> QED
      BY <1>0, <3>1, <3>2 DEF KernOK, Same_kind, Opened
  <2> QED
    BY <2>1, <2>2 DEF Same_kind
<1>2. ASSUME NEW s, setFlags(u, s) PROVE Same_kind(d)
  <2>1. \E c, b : SetNonblock(c, b)
    BY <1>2 DEF setFlags, fcntl, ioctl
  <2>2. PICK c, b : SetNonblock(c, b)
    BY <2>1
  <2>3. kern' = kern \/ kern' = [kern EXCEPT ![c].nonblock = b]
    BY <2>2 DEF SetNonblock
  <2> QED
    BY <1>0, <2>3 DEF KernOK, KernRec, Same_kind
<1>3. \/ UNCHANGED kern
      \/ \E s \in Socks : connect(u, s) \/ setFlags(u, s)
  <2>1. CASE UserCall(u)
    BY <2>1, Zenon DEF UserCall, transfer, close, sleep
  <2>2. CASE UserClose(u) \/ UserReturn(u) \/ UserEnd(u)
    BY <2>2, Zenon DEF UserClose, close, UserReturn, finished, UserEnd
  <2> QED
    BY <2>1, <2>2 DEF UserStep
<1> QED
  BY <1>1, <1>2, <1>3 DEF Same_kind

LEMMA KernSteps ==
  ASSUME Types, RoleInv, Next, ~serving, NEW d \in Fds
  PROVE  Same_kind(d) \/ Opened(d) \/ Begun(d) \/ Settled(d) \/ \E f \in Fibers : Closed_by(d, f)
<1>0. KernOK /\ kern[d] \in KernRec
  BY DEF Types, KernOK
<1>1. CASE UserStart \/ LoopStep \/ Timing \/ Reporting
  <2>1. UNCHANGED kern
    BY <1>1, Zenon DEF UserStart, LoopStep, RunFiber, RunSleep, RunTimeout, CancelTimeout, Timing, Expire,
                       Reporting, Report
  <2> QED
    BY <2>1 DEF Same_kind
<1>2. ASSUME NEW f \in Fibers, CallStep(f) PROVE Same_kind(d) \/ Begun(d) \/ Closed_by(d, f)
  BY <1>2, CallKern
<1>3. ASSUME NEW u \in Users, UserStep(u) PROVE Same_kind(d) \/ Opened(d)
  BY <1>3, UserKern
<1>4. ASSUME NEW c \in Fds, Arrive(c) PROVE Same_kind(d)
  <2>1. \E e : kern' = [kern EXCEPT ![c].ready = @ \cup {e}] /\ kern[c].kind \in {"listen", "stream"}
    BY <1>4 DEF Arrive
  <2> QED
    BY <1>0, <2>1 DEF KernOK, KernRec, Same_kind
<1>5. ASSUME NEW c \in Fds, Resolve(c) PROVE Same_kind(d) \/ Settled(d)
  <2>1. /\ kern[c].kind = "connecting"
        /\ \E k \in {"stream", "refused"} : \E es :
             kern' = [kern EXCEPT ![c] = [kern[c] EXCEPT !.kind = k, !.ready = es]]
    BY <1>5 DEF Resolve, KernOK, KernRec
  <2> QED
    BY <1>0, <2>1 DEF KernOK, KernRec, Same_kind, Settled
<1> QED
  BY <1>1, <1>2, <1>3, <1>4, <1>5, UsersOnly DEF Next, Threads, Environment

-----------------------------------------------------------------------------
(* Why a fiber that waits is woken *)

(* The callback of a timeout has called off its call. *)
CancelInv ==
  \A t \in cpu : t \in Timer /\ InCall(t.f) /\ fib[t.f].no = t.no => fib[t.f].cancelled

LEMMA NewOnCpu ==
  ASSUME Types, Going_on \/ \E S \in SUBSET Fibers, s \in Seq(Fiber) : StartStep(S, s),
         NEW t \in cpu', t \notin cpu, t \in Timer
  PROVE  InCall(t.f) /\ fib' = [fib EXCEPT ![t.f].cancelled = TRUE]
<1>1. ASSUME NEW i \in DOMAIN queue, TakeStep(i)
      PROVE  InCall(t.f) /\ fib' = [fib EXCEPT ![t.f].cancelled = TRUE]
  <2>1. t = queue[i]
    BY <1>1 DEF TakeStep
  <2>2. queue[i] \notin Fiber
    BY <2>1, ItemFacts DEF Fiber
  <2> QED
    BY <1>1, <2>1, <2>2 DEF TakeStep
<1>2. ~StandStill /\ ~DropStep
  BY DEF StandStill, DropStep
<1>3. ASSUME NEW f \in Fibers PROVE ~ActStep(f) /\ ~SleepStep(f) /\ ~EndStep(f)
  BY DEF ActStep, SleepStep, EndStep
<1>4. ASSUME NEW f \in Fibers, NEW d, NEW e PROVE ~AddStep(f, d, e)
  BY DEF AddStep
<1>5. ASSUME NEW d, NEW es PROVE ~WakeStep(d, es)
  BY <1>2 DEF WakeStep
<1>6. ASSUME NEW x PROVE ~ExpireStep(x)
  BY DEF ExpireStep
<1>7. ASSUME NEW S, NEW s PROVE ~StartStep(S, s)
  BY DEF StartStep
<1> QED
  BY <1>1, <1>2, <1>3, <1>4, <1>5, <1>6, <1>7 DEF Going_on

LEMMA CancelStep ==
  ASSUME Basic, CancelInv, Next
  PROVE  CancelInv'
<1>0. /\ Types /\ FlagsInv /\ RoleInv /\ ItemInv /\ FibOK
      /\ Going_on \/ \E S \in SUBSET Fibers, s \in Seq(Fiber) : StartStep(S, s)
  BY Kinds_of_steps DEF Basic, Types
<1> SUFFICES ASSUME NEW t \in cpu', t \in Timer, InCall(t.f)', fib'[t.f].no = t.no
             PROVE  fib'[t.f].cancelled
  BY DEF CancelInv
<1>1. PICK f \in Fibers : f = t.f
  BY ItemFacts
<1>2. fib'[f].pc \in Calling /\ fib'[f].no = t.no
  BY <1>1 DEF InCall, Calling
<1>3. CASE t \notin cpu
  <2>1. fib' = [fib EXCEPT ![f].cancelled = TRUE]
    BY <1>0, <1>1, <1>3, NewOnCpu
  <2> QED
    BY <1>0, <1>1, <2>1 DEF FibOK, FibRec
<1>4. CASE t \in cpu
  <2>1. t \in Pending
    BY <1>4 DEF Pending
  <2>2. fib[f].pc = "enter" => t.no < fib[f].no
    BY <1>0, <1>1, <2>1 DEF ItemInv
  <2>3. fib[f].no \in Nat /\ t.no \in Nat /\ fib[f] \in FibRec
    BY <1>0 DEF FibOK, FibRec, Timer
  <2>4. fib[f].pc \in Calling /\ fib[f].no = t.no => fib[f].cancelled
    BY <1>1, <1>4 DEF CancelInv, InCall, Calling
  <2>5. Change(f)
    BY <1>0, Changes
  <2>6. CASE fib'[f] = fib[f]
    BY <1>1, <1>2, <2>4, <2>6
  <2>7. CASE Progress(f)
    <3>1. fib'[f].no = fib[f].no /\ fib'[f].cancelled = fib[f].cancelled
          /\ fib[f].pc \in Calling \cup {"enter"}
      BY <1>2, <2>7 DEF Progress, Calling
    <3>2. fib[f].pc # "enter"
      BY <1>2, <2>2, <2>3, <3>1
    <3> QED
      BY <1>1, <1>2, <2>4, <3>1, <3>2
  <2>8. CASE CalledOff(f)
    BY <1>1, <2>3, <2>8 DEF CalledOff, FibRec
  <2>9. ~Ended(f) /\ ~Started(f)
    BY <1>2 DEF Ended, Started, Calling
  <2> QED
    BY <2>5, <2>6, <2>7, <2>8, <2>9 DEF Change
<1> QED
  BY <1>3, <1>4

(* Who is forgotten in `misled` is not in a call. *)
LEMMA MisledStays ==
  ASSUME Next, NEW f \in Fibers, f \in misled, InCall(f)
  PROVE  f \in misled'
<1>1. ASSUME NEW g, Fresh(g), fib[g].pc \in {"done", "init"} PROVE f \in misled'
  BY <1>1 DEF Fresh, InCall
<1>2. CASE Owner \/ UserStart
  BY <1>2 DEF Owner, bind, bindOne, bindEnd, destroy, start, stop, Clear, sockVars, hookVars, history,
              UserStart
<1>3. CASE Threads
  <2>1. CASE LoopStep
    BY ZenonT(60), <2>1 DEF LoopStep, RunFiber, RunSleep, RunTimeout, CancelTimeout, history
  <2>2. ASSUME NEW g \in Fibers, CallStep(g) PROVE f \in misled'
    BY ZenonT(60), <2>2 DEF CallStep, Enter, TryIo, TryConnect, Arm, addEvent, Woken, SoError, CloseCancel,
                CloseRemove, CloseF, history
  <2>3. ASSUME NEW l \in Listeners, AcceptStep(l) PROVE f \in misled'
    <3>1. CASE AcceptLoop(l) \/ (\E u \in Unused : TryAccept(Acceptor[l], Own[u])) \/ Accepted(Acceptor[l])
      BY <3>1, Zenon DEF AcceptLoop, TryAccept, Accepted, history
    <3>2. CASE handleClient(l) \/ AcceptFailed(l)
      BY <1>1, <3>2 DEF handleClient, AcceptFailed, At
    <3> QED
      BY <2>3, <3>1, <3>2 DEF AcceptStep
  <2>4. CASE StopStep
    <3>1. ASSUME NEW l \in Listeners, StopNext(l) PROVE f \in misled'
      BY <1>1, <3>1 DEF StopNext, finished, At
    <3> QED
      BY <2>4, <3>1 DEF StopStep, StopEnd, StopSocket, StopClose, close, history
  <2>5. ASSUME NEW u \in Users, UserStep(u) PROVE f \in misled'
    <3>1. CASE UserReturn(u)
      BY <1>1, <3>1 DEF UserReturn, finished, At
    <3> QED
      BY <2>5, <3>1 DEF UserStep, UserCall, UserClose, UserEnd, sleep, transfer, connect, close,
                        setFlags, history
  <2> QED
    BY <1>3, <2>1, <2>2, <2>3, <2>4, <2>5 DEF Threads
<1>4. CASE Timing \/ Reporting \/ Environment
  BY <1>4 DEF Timing, Expire, Reporting, Report, Environment, Arrive, Resolve, history
<1> QED
  BY <1>2, <1>3, <1>4 DEF Next

LEMMA CancelledOne ==
  ASSUME ChanType, NEW c, NEW es, cancelEvents(c, es), NEW d \in Fds, NEW e \in Event,
         chan'[d][e] # chan[d][e]
  PROVE  c = d /\ e \in es
<1>1. c \in Fds /\ handleEvents(c, es \cap WaitedFor(c))
  BY DEF cancelEvents
<1>2. chan' = [chan EXCEPT ![c] = [x \in Event |-> IF x \in es \cap WaitedFor(c) THEN NoFiber ELSE @[x]]]
  BY <1>1 DEF handleEvents
<1> QED
  BY <1>1, <1>2 DEF ChanType

(* Without a server a fiber is woken because its descriptor is ready, by   *)
(* its own timeout, or by somebody's interference.                         *)
LEMMA WokenBy ==
  ASSUME Types, RoleInv, PlaceInv, CancelInv, Next, ~serving,
         NEW f \in Fibers, f \in Waiting, ~(f \in Waiting)'
  PROVE  \/ f \in misled'
         \/ fib[f].cancelled
         \/ fib[f].fd \in Fds /\ kern[fib[f].fd].ready # {}
<1>0. ChanType /\ ChanOK /\ ItemsOK
  BY DEF Types, ChanOK, ChanType
<1>1. PICK d \in Fds, e \in Event : chan[d][e] = f
  BY DEF Waiting
<1>2. chan'[d][e] # chan[d][e] /\ fib[f].fd = d
  BY <1>1 DEF Waiting, PlaceInv, Place
<1> DEFINE Good == \/ f \in misled'
                   \/ fib[f].cancelled
                   \/ fib[f].fd \in Fds /\ kern[fib[f].fd].ready # {}
<1>3. ASSUME NEW c \in Fds, Report(c) PROVE Good
  <2> DEFINE es == reg[c] \cap kern[c].ready
  <2>1. chan' = [chan EXCEPT ![c] = [x \in Event |-> IF x \in es THEN NoFiber ELSE @[x]]] /\ es # {}
    BY <1>3 DEF Report, handleEvents
  <2>2. c = d
    BY <1>0, <1>2, <2>1 DEF ChanType
  <2> QED
    BY SMTT(60), <1>2, <2>1, <2>2
<1>4. ASSUME CancelTimeout PROVE Good
  <2>1. PICK t \in cpu :
          /\ t.kind = "timeout" /\ cancelEvents(t.fd, {t.ev})
          /\ misled' = misled \cup {g \in Fibers : /\ chan[t.fd][t.ev] = g
                                                   /\ ~(g = t.f /\ InCall(g) /\ fib[g].no = t.no)}
    BY <1>4 DEF CancelTimeout
  <2>2. t.fd = d /\ t.ev = e
    BY <1>0, <1>2, <2>1, CancelledOne
  <2>3. f \in misled' \/ (f = t.f /\ InCall(f) /\ fib[f].no = t.no)
    BY <1>1, <2>1, <2>2
  <2>4. t \in Timer
    <3>1. t \notin Fiber
      BY <2>1, ItemFacts DEF Fiber
    <3> QED
      BY <1>0, <3>1 DEF ItemsOK
  <2> QED
    BY <2>3, <2>4 DEF CancelInv
<1>5. ASSUME NEW g \in Fibers, CallStep(g) PROVE Good
  <2>1. CASE CloseCancel(g)
    <3>1. cancelEvents(fib[g].fd, Event) /\ misled' = misled \cup Waiters(fib[g].fd)
      BY <2>1 DEF CloseCancel
    <3>2. fib[g].fd = d
      BY <1>0, <1>2, <3>1, CancelledOne
    <3>3. f \in Waiters(d)
      BY <1>1, HookAssumption DEF Waiters
    <3> QED
      BY <3>1, <3>2, <3>3
  <2>2. CASE addEvent(g)
    <3>1. \/ chan' = chan
          \/ \E k, x : chan[k][x] = NoFiber /\ chan' = [chan EXCEPT ![k][x] = g]
      BY <2>2 DEF addEvent
    <3>2. f # NoFiber
      BY HookAssumption
    <3> QED
      BY <1>0, <1>1, <1>2, <3>1, <3>2 DEF ChanType
  <2>3. CASE chan' = chan
    BY <1>2, <2>3
  <2>4. CloseCancel(g) \/ addEvent(g) \/ chan' = chan
    BY <1>5, Zenon DEF CallStep, Enter, TryIo, TryConnect, Arm, Woken, SoError, CloseRemove, CloseF
  <2> QED
    BY <2>1, <2>2, <2>3, <2>4
<1>6. ASSUME chan' = chan PROVE Good
  BY <1>2, <1>6
<1>7. ASSUME UserStart \/ Timing \/ Environment \/ RunFiber \/ RunSleep \/ RunTimeout PROVE Good
  <2>1. chan' = chan
    BY <1>7, Zenon DEF UserStart, Timing, Expire, Environment, Arrive, Resolve, RunFiber, RunSleep, RunTimeout
  <2> QED
    BY <1>6, <2>1
<1>8. ASSUME NEW u \in Users, UserStep(u) PROVE chan' = chan
  BY <1>8, Zenon DEF UserStep, UserCall, UserClose, UserReturn, UserEnd, sleep, transfer, connect, close,
                     setFlags, finished
<1> HIDE DEF Good
<1>9. Good
  BY <1>3, <1>4, <1>5, <1>6, <1>7, <1>8, UsersOnly DEF Next, Threads, LoopStep, Reporting
<1> QED
  BY <1>9 DEF Good

-----------------------------------------------------------------------------
(* What connect() answers *)

(* Nothing has been reported of a connection in progress. *)
ReadyInv == \A d \in Fds : kern[d].kind \in {"closed", "fresh", "connecting"} => kern[d].ready = {}

(* A connect that nobody misled has a connection, which is made or refused *)
(* when the fiber has been woken and was not called off.                   *)
Trying(d) == Kind(d) \in {"connecting", "stream", "refused"}
Answered(d) == Kind(d) \in {"stream", "refused"}
Connecting(f) ==
  fib[f].op = "connect" /\ f \notin misled =>
    /\ fib[f].pc \in {"arm", "add", "wait", "soerror"} => Trying(fib[f].fd)
    /\ \/ fib[f].pc = "soerror"
       \/ fib[f].pc = "wait" /\ f \notin Waiting /\ ~fib[f].cancelled
       => Answered(fib[f].fd)
Connections == ~serving => ReadyInv /\ \A f \in Fibers : Connecting(f)

(* Only a connect asks for SO_ERROR. *)
Asking == \A f \in Fibers : fib[f].pc = "soerror" => fib[f].op = "connect"

LEMMA ReadyStep ==
  ASSUME Types, RoleInv, ReadyInv, Next, ~serving
  PROVE  ReadyInv'
<1> SUFFICES ASSUME NEW d \in Fds, kern'[d].kind \in {"closed", "fresh", "connecting"}
             PROVE  kern'[d].ready = {}
  BY DEF ReadyInv
<1>1. kern[d].kind \in {"closed", "fresh", "connecting"} => kern[d].ready = {}
  BY DEF ReadyInv
<1> QED
  BY <1>1, KernSteps DEF Same_kind, Opened, Begun, Settled, Closed_by, ClosedFd

(* Only a step of its own call takes a fiber on within the call. *)
LEMMA CallGoesOn ==
  ASSUME Held, Next, NEW f \in Fibers, fib'[f].pc \in {"arm", "add", "wait", "soerror"}
  PROVE  \/ fib'[f] = fib[f]
         \/ fib'[f] = [fib[f] EXCEPT !.cancelled = TRUE]
         \/ CallStep(f)
<1>0. Basic /\ Types /\ FlagsInv /\ RoleInv
  BY DEF Held, Placed, Basic
<1>1. ASSUME fib[f].pc = "none" PROVE fib'[f] = fib[f]
  <2>1. Change(f)
    BY <1>0, Changes, Kinds_of_steps
  <2> QED
    BY <1>1, <2>1 DEF Change, Executes, Started, CalledOff, InCall
<1>2. ASSUME f = Stopper, StopStep PROVE fib'[f] = fib[f]
  BY <1>0, <1>2, StopMoves DEF Closes
<1>3. ~(f \in Users /\ UserStep(f))
  <2>1. ASSUME f \in Users, UserStep(f) PROVE FALSE
    BY <1>0, <2>1, UserMoves DEF Closes
  <2> QED
    BY <2>1
<1>4. ASSUME NEW l \in Listeners, f = Acceptor[l], AcceptStep(l) PROVE FALSE
  BY <1>0, <1>4, AcceptMoves
<1> QED
  BY <1>0, <1>1, <1>2, <1>3, <1>4, Movers

LEMMA AskingStep ==
  ASSUME Held, Asking, Next
  PROVE  Asking'
<1>0. FibOK /\ OpsInv /\ Basic
  BY DEF Held, Placed, Basic, Types
<1> SUFFICES ASSUME NEW f \in Fibers, fib'[f].pc = "soerror" PROVE fib'[f].op = "connect"
  BY DEF Asking
<1>1. CASE fib'[f] = fib[f] \/ fib'[f] = [fib[f] EXCEPT !.cancelled = TRUE]
  BY <1>0, <1>1 DEF Asking, FibOK, FibRec
<1>2. CASE CallStep(f)
  <2>1. fib'[f].op = fib[f].op
    BY <1>0, <1>2, CallMoves
  <2>2. CASE fib[f].pc = "soerror"
    BY <2>1, <2>2 DEF Asking
  <2>3. CASE fib[f].pc # "soerror"
    <3>1. ASSUME NEW pc, GoOn(f, pc) PROVE pc = "soerror"
      BY <1>0, <3>1 DEF GoOn, FibOK, FibRec
    <3>2. ASSUME NEW r, Return(f, r) PROVE FALSE
      BY <1>0, <3>2 DEF Return, FibOK, FibRec
    <3>3. CASE Enter(f)
      <4>1. \/ \E b, c : fib' = [fib EXCEPT ![f].pc = "try", ![f].loop = b, ![f].timed = c]
            \/ \E r : Return(f, r)
            \/ GoOn(f, "arm") \/ GoOn(f, "cancelAll") \/ GoOn(f, "close_f")
        BY <3>3, Zenon DEF Enter
      <4>2. ASSUME NEW b, NEW c, fib' = [fib EXCEPT ![f].pc = "try", ![f].loop = b, ![f].timed = c]
            PROVE  FALSE
        BY <1>0, <4>2 DEF FibOK, FibRec
      <4> QED
        BY <3>1, <3>2, <4>1, <4>2
    <3>4. CASE TryIo(f) \/ TryConnect(f)
      <4>1. (\E r : Return(f, r)) \/ GoOn(f, "arm")
        BY <3>4, Zenon DEF TryIo, TryConnect, WouldBlock
      <4> QED
        BY <3>1, <3>2, <4>1
    <3>5. CASE Arm(f)
      <4>1. GoOn(f, "wait") \/ GoOn(f, "add")
        BY <3>5 DEF Arm, Suspend
      <4> QED
        BY <3>1, <4>1
    <3>6. CASE addEvent(f) \/ Woken(f)
      <4>1. \/ \E r : Return(f, r)
            \/ GoOn(f, "wait") \/ GoOn(f, "try")
            \/ fib[f].op = "connect" /\ GoOn(f, "soerror")
        BY <3>6 DEF addEvent, Woken, Suspend
      <4> QED
        BY <2>1, <3>1, <3>2, <4>1
    <3>7. CASE CloseCancel(f) \/ CloseRemove(f) \/ CloseF(f)
      <4>1. (\E r : Return(f, r)) \/ GoOn(f, "remove") \/ GoOn(f, "close_f")
        BY <3>7 DEF CloseCancel, CloseRemove, CloseF
      <4> QED
        BY <3>1, <3>2, <4>1
    <3>8. ~SoError(f)
      BY <2>3 DEF SoError, At
    <3> QED
      BY <1>2, <3>3, <3>4, <3>5, <3>6, <3>7, <3>8 DEF CallStep
  <2> QED
    BY <2>2, <2>3
<1> QED
  BY <1>1, <1>2, CallGoesOn

LEMMA AnswerStays ==
  ASSUME Types, RoleInv, Next, ~serving, NEW f \in Fibers, InCall(f), f \notin misled',
         NEW d, d = fib[f].fd, Trying(d)
  PROVE  Trying(d)' /\ (Answered(d) => Answered(d)')
<1>1. d \in Fds /\ kern[d].kind \in {"connecting", "stream", "refused"}
  BY DEF Trying, Kind
<1>2. ASSUME NEW g \in Fibers PROVE ~Closed_by(d, g)
  <2>1. SUFFICES ASSUME Closed_by(d, g) PROVE FALSE
    OBVIOUS
  <2>2. f \in misled'
    BY <2>1 DEF Closed_by, CloseF
  <2> QED
    BY <2>2
<1>3. Same_kind(d) \/ Settled(d)
  BY <1>1, <1>2, KernSteps DEF Opened, Begun
<1> QED
  BY <1>1, <1>3 DEF Same_kind, Settled, Trying, Answered, Kind

LEMMA ConnectingStep ==
  ASSUME Held, CancelInv, ReadyInv, \A f \in Fibers : Connecting(f), Next, ~serving,
         NEW f \in Fibers
  PROVE  Connecting(f)'
<1>0. /\ Basic /\ Types /\ FibOK /\ fib[f] \in FibRec /\ RoleInv /\ OpsInv /\ PlaceInv /\ KernOK
      /\ Connecting(f) /\ ChanOK
  BY DEF Held, Placed, Basic, Types, FibOK
<1>d. PICK d : d = fib[f].fd
  OBVIOUS
<1> SUFFICES ASSUME fib'[f].op = "connect", f \notin misled',
                    fib'[f].pc \in {"arm", "add", "wait", "soerror"}
             PROVE  /\ Trying(d)' /\ fib'[f].fd = d
                    /\ \/ fib'[f].pc = "soerror"
                       \/ fib'[f].pc = "wait" /\ ~(f \in Waiting)' /\ ~fib'[f].cancelled
                       => Answered(d)'
  BY DEF Connecting, Trying, Answered, Kind
<1>1. InCall(f) => f \notin misled
  BY MisledStays
<1>2. ASSUME fib'[f] = fib[f] \/ fib'[f] = [fib[f] EXCEPT !.cancelled = TRUE]
      PROVE  /\ Trying(d)' /\ fib'[f].fd = d
             /\ \/ fib'[f].pc = "soerror"
                \/ fib'[f].pc = "wait" /\ ~(f \in Waiting)' /\ ~fib'[f].cancelled
                => Answered(d)'
  <2>1. /\ fib'[f].pc = fib[f].pc /\ fib'[f].op = fib[f].op /\ fib'[f].fd = fib[f].fd
        /\ ~fib'[f].cancelled => ~fib[f].cancelled
    BY <1>0, <1>2 DEF FibRec
  <2>2. InCall(f) /\ f \notin misled /\ Trying(d)
    BY <1>d, <1>0, <1>1, <2>1 DEF InCall, Connecting
  <2>3. Trying(d)' /\ (Answered(d) => Answered(d)')
    BY <1>d, <1>0, <2>2, AnswerStays
  <2>4. CASE fib[f].pc = "soerror"
    <3>1. Answered(d)
      BY <1>d, <1>0, <2>1, <2>2, <2>4 DEF Connecting
    <3> QED
      BY <1>d, <2>1, <2>3, <3>1
  <2>5. ASSUME fib[f].pc = "wait", ~(f \in Waiting)', ~fib[f].cancelled PROVE Answered(d)
    <3>1. CASE f \notin Waiting
      BY <1>d, <1>0, <2>1, <2>2, <2>5, <3>1 DEF Connecting
    <3>2. CASE f \in Waiting
      <4>1. d \in Fds /\ kern[d].ready # {}
        BY <1>d, <1>0, <2>5, <3>2, WokenBy
      <4>2. kern[d].kind # "connecting"
        BY <4>1 DEF ReadyInv
      <4> QED
        BY <2>2, <4>1, <4>2 DEF Trying, Answered, Kind
    <3> QED
      BY <3>1, <3>2
  <2> QED
    BY <1>d, <2>1, <2>3, <2>4, <2>5
<1>3. ASSUME CallStep(f)
      PROVE  /\ Trying(d)' /\ fib'[f].fd = d
             /\ \/ fib'[f].pc = "soerror"
                \/ fib'[f].pc = "wait" /\ ~(f \in Waiting)' /\ ~fib'[f].cancelled
                => Answered(d)'
  <2>1. fib'[f].op = fib[f].op /\ fib'[f].fd = d /\ fib[f].op = "connect"
    BY <1>d, <1>0, <1>3, CallMoves
  <2>2. ASSUME NEW r, Return(f, r) PROVE FALSE
    BY <1>0, <2>2 DEF Return, FibOK, FibRec
  <2>3. ASSUME NEW pc, GoOn(f, pc) PROVE fib'[f].pc = pc
    BY <1>0, <2>3 DEF GoOn, FibOK, FibRec
  <2>4. ~Enter(f)
    <3>1. ASSUME NEW b, fib' = [fib EXCEPT ![f].pc = "try", ![f].loop = b, ![f].timed = b] PROVE FALSE
      BY <1>0, <3>1 DEF FibOK, FibRec
    <3>2. Enter(f) => \/ \E b : fib' = [fib EXCEPT ![f].pc = "try", ![f].loop = b, ![f].timed = b]
                      \/ Return(f, "error")
      BY <2>1, Zenon DEF Enter, IoOps
    <3> QED
      BY <2>2, <3>1, <3>2
  <2>5. ~TryIo(f) /\ ~CloseCancel(f) /\ ~CloseRemove(f) /\ ~CloseF(f)
    BY <1>0, <2>1 DEF TryIo, IoOps, CloseCancel, CloseRemove, CloseF, At, OpsInv, Ops
  <2>6. ~SoError(f)
    BY <2>2 DEF SoError
  <2>7. CASE TryConnect(f)
    <3>1. Kind(d) = "fresh" /\ GoOn(f, "arm") /\ kern' = [kern EXCEPT ![d].kind = "connecting"]
      BY <1>d, <2>2, <2>7 DEF TryConnect, WouldBlock
    <3>2. fib'[f].pc = "arm"
      BY <2>3, <3>1
    <3>3. kern'[d].kind = "connecting" /\ d \in Fds
      BY <1>0, <3>1 DEF Kind, KernOK, KernRec
    <3> QED
      BY <2>1, <3>2, <3>3 DEF Trying, Kind
  <2>8. ASSUME fib[f].pc \in {"arm", "add", "wait"}, UNCHANGED kern
        PROVE  Trying(d)' /\ (Answered(d) => Answered(d)')
    <3>1. f \notin misled
      BY <1>1, <2>8 DEF InCall
    <3>2. Trying(d)
      BY <1>d, <1>0, <2>1, <2>8, <3>1 DEF Connecting
    <3> QED
      BY <2>8, <3>2 DEF Trying, Answered, Kind
  <2>9. CASE Arm(f)
    <3>1. fib[f].pc = "arm" /\ UNCHANGED kern /\ GoOn(f, "add")
      BY <2>1, <2>9 DEF Arm, At
    <3> QED
      BY <2>1, <2>3, <2>8, <3>1
  <2>10. CASE addEvent(f)
    <3>1. fib[f].pc = "add" /\ UNCHANGED kern
      BY <2>10 DEF addEvent, At
    <3>2. GoOn(f, "wait") /\ d \in Fds /\ chan' = [chan EXCEPT ![d][EventOf(fib[f].op)] = f]
      BY <1>d, <2>10 DEF addEvent, Suspend
    <3>3. EventOf(fib[f].op) \in Event
      BY DEF EventOf, Event
    <3>4. chan'[d][EventOf(fib[f].op)] = f
      BY <1>0, <3>2, <3>3 DEF ChanOK
    <3>5. (f \in Waiting)'
      BY <3>2, <3>3, <3>4 DEF Waiting
    <3> QED
      BY <2>1, <2>3, <2>8, <3>1, <3>2, <3>5
  <2>11. CASE Woken(f)
    <3>1. fib[f].pc = "wait" /\ UNCHANGED kern /\ Task(f) \in cpu /\ ~fib[f].cancelled
      BY <2>2, <2>11 DEF Woken, At
    <3>2. f \notin Waiting
      BY <1>0, <3>1 DEF PlaceInv, Place, OnCpu
    <3>3. Answered(d)
      BY <1>d, <1>0, <1>1, <2>1, <3>1, <3>2 DEF Connecting, InCall
    <3> QED
      BY <2>1, <2>8, <3>1, <3>3
  <2> QED
    BY <1>3, <2>4, <2>5, <2>6, <2>7, <2>9, <2>10, <2>11 DEF CallStep
<1> QED
  BY <1>2, <1>3, CallGoesOn

Connected == Held /\ CancelInv /\ Asking /\ Connections

LEMMA ConnectedAlways == Spec => []Connected
<1>1. Init => CancelInv /\ Asking /\ Connections
  <2> SUFFICES ASSUME Init PROVE CancelInv /\ Asking /\ Connections
    OBVIOUS
  <2>1. /\ kern = [d \in Fds |-> ClosedFd] /\ cpu = {}
        /\ \A f \in Fibers : fib[f].pc = "none" /\ fib[f].op = "none"
    BY DEF Init, SocketInit, HookInit, Idle
  <2> QED
    BY <2>1 DEF CancelInv, Asking, Connections, ReadyInv, Connecting, ClosedFd
<1>2. Held /\ CancelInv /\ Asking /\ Connections /\ [Next]_vars => (CancelInv /\ Asking /\ Connections)'
  <2> SUFFICES ASSUME Held, CancelInv, Asking, Connections, [Next]_vars
               PROVE  CancelInv' /\ Asking' /\ Connections'
    OBVIOUS
  <2>1. CASE UNCHANGED vars
    <3>1. UNCHANGED <<fib, kern, chan, cpu, misled, serving>>
      BY <2>1 DEF vars, sockVars, hookVars, serverVars, history
    <3>2. UNCHANGED <<CancelInv, Asking>>
      BY <3>1 DEF CancelInv, Asking, InCall
    <3>3. UNCHANGED Connections
      BY <3>1 DEF Connections, ReadyInv, Connecting, Trying, Answered, Kind, Waiting
    <3> QED
      BY <3>2, <3>3
  <2>2. CASE Next
    <3>1. Basic /\ Types /\ RoleInv
      BY DEF Held, Placed, Basic
    <3>2. CancelInv' /\ Asking'
      BY <2>2, <3>1, CancelStep, AskingStep
    <3>3. serving' = serving
      BY <2>2, ServingSame
    <3>4. ASSUME ~serving PROVE ReadyInv' /\ \A f \in Fibers : Connecting(f)'
      BY <2>2, <3>1, <3>4, ReadyStep, ConnectingStep DEF Connections
    <3> QED
      BY <3>2, <3>3, <3>4 DEF Connections
  <2> QED
    BY <2>1, <2>2
<1> QED
  BY <1>1, <1>2, HeldAlways, PTL DEF Spec, Connected

(***************************************************************************)
(* connect() gives 0 for a connection in progress only when it is made: a  *)
(* report comes after the outcome, the wake-up by the connect's own        *)
(* timeout is told from it by the flag, and whatever else may wake the     *)
(* fiber or change its descriptor is somebody's interference.              *)
(***************************************************************************)
THEOREM ConnectAnswers == Spec => ConnectedMeansConnected
<1> DEFINE A == \A f \in Fibers :
                  fib[f].pc = "soerror" /\ fib'[f].pc = "done" /\ fib'[f].ret = "ok" =>
                    Kind(fib[f].fd) = "stream" \/ f \in misled
<1>1. Connected /\ [Next]_vars => [A]_vars
  <2> SUFFICES ASSUME Connected, Next, NEW f \in Fibers, f \notin misled,
                      fib[f].pc = "soerror", fib'[f].pc = "done", fib'[f].ret = "ok"
               PROVE  Kind(fib[f].fd) = "stream"
    OBVIOUS
  <2>1. Held /\ Basic /\ FibOK /\ OpsInv
    BY DEF Connected, Held, Placed, Basic, Types
  <2>2. Return(f, IF Kind(fib[f].fd) \in {"closed", "refused"} THEN "error" ELSE "ok")
    BY <2>1, Resumed DEF SoError
  <2>3. Kind(fib[f].fd) \notin {"closed", "refused"}
    BY <2>1, <2>2 DEF Return, FibOK, FibRec
  <2>4. fib[f].op = "connect" /\ ~serving
    BY <2>1 DEF Connected, Asking, OpsInv, Ops
  <2>5. Answered(fib[f].fd)
    BY <2>4 DEF Connected, Connections, Connecting
  <2> QED
    BY <2>3, <2>5 DEF Answered
<1>2. Spec => [][A]_vars
  BY <1>1, ConnectedAlways, PTL DEF Spec
<1> QED
  BY <1>2 DEF ConnectedMeansConnected
=============================================================================
