----------------------------- MODULE IOManager -----------------------------
(***************************************************************************)
(* easy/base/IOManager.cc and Channel.cc: fibers wait for READ and WRITE   *)
(* events of file descriptors, pollers (threads in IOManager::idle) take   *)
(* events from epoll and schedule whoever waits.                           *)
(*                                                                         *)
(* A Channel object is <<fd, generation>>: channels_ can lose a slot and   *)
(* get a new object for it, while the old one stays allocated and epoll    *)
(* still points to it.  Every operation looks the Channel up under lock_   *)
(* and works on it later under channel->lock_: two steps.                  *)
(*                                                                         *)
(* epoll is external: any registered descriptor may become ready at any    *)
(* time with any of the events asked for, or with an error.  The pollers   *)
(* pass epoll_wait the same buffer, *events_.begin(), without a lock: one  *)
(* slot they all share.  (More than one event per call overruns that       *)
(* buffer; this is left out.)                                              *)
(***************************************************************************)
EXTENDS Integers, FiniteSets

CONSTANTS
  Fibers,       \* the fibers that call the operations
  Pollers,      \* the threads in IOManager::idle
  Fds,          \* file descriptors
  NoCtx,        \* an EventCtx with no scheduler_, fiber_ or cb_
  Callback,     \* an EventCtx with a cb_
  InitialSize,  \* channels_.size() after the constructor (32 in the code)
  MaxGen,       \* bound: Channel objects per descriptor
  MaxReports    \* bound: how often epoll_wait returns a channel

ASSUME IOAssumption ==
  /\ Fds \subseteq Nat
  /\ NoCtx \notin Fibers \cup {Callback}
  /\ Callback \notin Fibers
  /\ InitialSize \in Nat \ {0}
  /\ MaxGen \in Nat \ {0}
  /\ MaxReports \in Nat

VARIABLES
  size,     \* channels_.size()
  gen,      \* the generation of channels_[fd]
  events,   \* Channel::events_
  ctx,      \* Channel::read_ and write_: who is to be scheduled
  mask,     \* epoll: the events asked for
  ptr,      \* epoll: the generation data.ptr names; 0: not registered
  pending,  \* pendingEventCount_
  slot,     \* the shared epoll_event buffer
  got,      \* the pollers that have returned from epoll_wait with an event
  pc,       \* where each fiber is
  call,     \* the operation a fiber is in, and the Channel it found
  reports   \* how often epoll_wait has returned a channel

channelVars == <<events, ctx>>
epollVars == <<mask, ptr>>
pollVars == <<slot, got, reports>>
vars == <<size, gen, channelVars, epollVars, pending, pollVars, pc, call>>

Event == {"READ", "WRITE"}
Chan == Fds \X (1..MaxGen)
Ops == {"add", "addCb", "remove", "cancel", "cancelAll"}
Adds == {"add", "addCb"}

NoCall == [op |-> "add", event |-> "READ", fd |-> 0, gen |-> 0]

Init ==
  /\ size = InitialSize
  /\ gen = [fd \in Fds |-> IF fd < InitialSize THEN 1 ELSE 0]
  /\ events = [c \in Chan |-> {}]
  /\ ctx = [c \in Chan |-> [e \in Event |-> NoCtx]]
  /\ mask = [fd \in Fds |-> {}]
  /\ ptr = [fd \in Fds |-> 0]
  /\ pending = 0
  /\ slot = [fd |-> 0, gen |-> 0, events |-> {}, err |-> FALSE]
  /\ got = {}
  /\ pc = [f \in Fibers |-> "run"]
  /\ call = [f \in Fibers |-> NoCall]
  /\ reports = 0

-----------------------------------------------------------------------------
(* epoll_ctl for the channel c, after which it asks for the events in S *)

(* ADD fails when the descriptor is registered, MOD and DEL when it is not. *)
epoll_ok(c) == (events[c] # {}) = (ptr[c[1]] # 0)

epoll_ctl(c, S) ==
  /\ mask' = [mask EXCEPT ![c[1]] = S]
  /\ ptr' = [ptr EXCEPT ![c[1]] = IF S = {} THEN 0 ELSE c[2]]

-----------------------------------------------------------------------------
(* Finding the Channel *)

(* Mutant: channels_[idx] without the test of channels_.size(). *)
Lookup_unchecked(f, op, fd, e) ==
  /\ pc[f] = "run"
  /\ pc' = [pc EXCEPT ![f] = "found"]
  /\ call' = [call EXCEPT ![f] = [op |-> op, event |-> e, fd |-> fd, gen |-> gen[fd]]]
  /\ UNCHANGED <<size, gen, channelVars, epollVars, pending, pollVars>>

(***************************************************************************)
(* Under the read lock.  A descriptor beyond channels_ makes addEvent go   *)
(* on to grow the vector; the other operations return false.               *)
(***************************************************************************)
Lookup(f, op, fd, e) ==
  /\ pc[f] = "run"
  /\ \/ fd < size /\ pc' = [pc EXCEPT ![f] = "found"]
     \/ fd >= size /\ op \in Adds /\ pc' = [pc EXCEPT ![f] = "grow"]
  /\ call' = [call EXCEPT ![f] = [op |-> op, event |-> e, fd |-> fd, gen |-> gen[fd]]]
  /\ UNCHANGED <<size, gen, channelVars, epollVars, pending, pollVars>>

(***************************************************************************)
(* resizeChannels(idx << 1) under the write lock, whatever has happened    *)
(* since the read lock was released.  Slots beyond the old size get a new  *)
(* Channel; slots beyond the new size are gone.                            *)
(***************************************************************************)
Grow(f) ==
  LET fd   == call[f].fd
      new  == 2 * fd
      born == {x \in Fds : size <= x /\ x < new}
  IN /\ pc[f] = "grow"
     /\ \A x \in born : gen[x] < MaxGen
     /\ size' = new
     /\ gen' = [x \in Fds |-> IF x \in born THEN gen[x] + 1 ELSE gen[x]]
     /\ pc' = [pc EXCEPT ![f] = "found"]
     /\ call' = [call EXCEPT ![f].gen = gen'[fd]]
     /\ UNCHANGED <<channelVars, epollVars, pending, pollVars>>

-----------------------------------------------------------------------------
(* Operations on the Channel found, under channel->lock_ *)

Found(f) == <<call[f].fd, call[f].gen>>

Doing(f, ops) == pc[f] = "found" /\ call[f].op \in ops

Return(f) == call' = [call EXCEPT ![f] = NoCall]

(***************************************************************************)
(* The early returns: the event is there already (addEvent) or not there   *)
(* (the others), or epoll_ctl fails.                                       *)
(***************************************************************************)
Refused(f) ==
  LET c == Found(f)
      e == call[f].event
  IN /\ pc[f] = "found"
     /\ \/ ~epoll_ok(c)
        \/ Doing(f, Adds) /\ e \in events[c]
        \/ Doing(f, {"remove", "cancel"}) /\ e \notin events[c]
        \/ Doing(f, {"cancelAll"}) /\ events[c] = {}
     /\ pc' = [pc EXCEPT ![f] = "run"]
     /\ Return(f)
     /\ UNCHANGED <<size, gen, channelVars, epollVars, pending, pollVars>>

(* Mutant: the test for an event that already exists is missing. *)
addEvent_again(f) ==
  LET c == Found(f)
      e == call[f].event
  IN /\ Doing(f, Adds)
     /\ epoll_ok(c)
     /\ epoll_ctl(c, events[c] \cup {e})
     /\ pending' = pending + 1
     /\ events' = [events EXCEPT ![c] = @ \cup {e}]
     /\ ctx' = [ctx EXCEPT ![c][e] = IF call[f].op = "add" THEN f ELSE Callback]
     /\ pc' = [pc EXCEPT ![f] = IF call[f].op = "add" THEN "waiting" ELSE "run"]
     /\ Return(f)
     /\ UNCHANGED <<size, gen, pollVars>>

(***************************************************************************)
(* addEvent.  Without a callback the calling fiber is the one to schedule, *)
(* and it yields next.  The assertion at line 149 (the EventCtx is empty)  *)
(* is part of CtxMatchesEvents.                                            *)
(***************************************************************************)
addEvent(f) ==
  LET c == Found(f)
      e == call[f].event
  IN /\ Doing(f, Adds)
     /\ e \notin events[c] /\ epoll_ok(c)
     /\ epoll_ctl(c, events[c] \cup {e})
     /\ pending' = pending + 1
     /\ events' = [events EXCEPT ![c] = @ \cup {e}]
     /\ ctx' = [ctx EXCEPT ![c][e] = IF call[f].op = "add" THEN f ELSE Callback]
     /\ pc' = [pc EXCEPT ![f] = IF call[f].op = "add" THEN "waiting" ELSE "run"]
     /\ Return(f)
     /\ UNCHANGED <<size, gen, pollVars>>

(***************************************************************************)
(* removeEvent: the EventCtx is cleaned up and nobody is scheduled; a      *)
(* fiber that was waiting there has no one to wake it.                     *)
(***************************************************************************)
removeEvent(f) ==
  LET c == Found(f)
      e == call[f].event
  IN /\ Doing(f, {"remove"})
     /\ e \in events[c] /\ epoll_ok(c)
     /\ epoll_ctl(c, events[c] \ {e})
     /\ pending' = pending - 1
     /\ events' = [events EXCEPT ![c] = @ \ {e}]
     /\ ctx' = [ctx EXCEPT ![c][e] = NoCtx]
     /\ pc' = [g \in Fibers |-> IF g = f THEN "run"
                                ELSE IF g = ctx[c][e] THEN "dropped" ELSE pc[g]]
     /\ Return(f)
     /\ UNCHANGED <<size, gen, pollVars>>

(* Mutant: the fiber in the EventCtx is not given up. *)
handleEvents_keeps_ctx(c, S, back) ==
  /\ events' = [events EXCEPT ![c] = @ \ S]
  /\ UNCHANGED ctx
  /\ pc' = [g \in Fibers |->
              IF g \in back \/ \E e \in S \cap events[c] : ctx[c][e] = g
              THEN "run" ELSE pc[g]]

(***************************************************************************)
(* Channel::handleEvent for each event in S: those registered are cleared  *)
(* and whoever waits is scheduled; for the others it returns at once.      *)
(* The fibers in back return from the operation that called it.            *)
(***************************************************************************)
handleEvents(c, S, back) ==
  /\ events' = [events EXCEPT ![c] = @ \ S]
  /\ ctx' = [ctx EXCEPT ![c] = [e \in Event |->
                                  IF e \in S \cap events[c] THEN NoCtx ELSE @[e]]]
  /\ pc' = [g \in Fibers |->
              IF g \in back \/ \E e \in S \cap events[c] : ctx[c][e] = g
              THEN "run" ELSE pc[g]]

(* cancelEvent, and cancelAll, which does the same for all events. *)
cancelEvent(f) ==
  LET c == Found(f)
      S == IF call[f].op = "cancelAll" THEN events[c] ELSE {call[f].event}
  IN /\ Doing(f, {"cancel", "cancelAll"})
     /\ S # {} /\ S \subseteq events[c] /\ epoll_ok(c)
     /\ epoll_ctl(c, events[c] \ S)
     /\ handleEvents(c, S, {f})
     /\ pending' = pending - Cardinality(S)
     /\ Return(f)
     /\ UNCHANGED <<size, gen, pollVars>>

-----------------------------------------------------------------------------
(* IOManager::idle *)

(***************************************************************************)
(* epoll_wait reports a registered descriptor with some of the events      *)
(* asked for, or with EPOLLERR or EPOLLHUP, into the shared buffer.        *)
(***************************************************************************)
epoll_wait(p) ==
  /\ p \notin got
  /\ reports < MaxReports
  /\ \E fd \in Fds : \E S \in SUBSET mask[fd], err \in BOOLEAN :
       /\ ptr[fd] # 0 /\ (S # {} \/ err)
       /\ slot' = [fd |-> fd, gen |-> ptr[fd], events |-> S, err |-> err]
  /\ got' = got \cup {p}
  /\ reports' = reports + 1
  /\ UNCHANGED <<size, gen, channelVars, epollVars, pending, pc, call>>

(* What the poller takes the report for; the buffer is updated with it. *)
Revents(c) == slot.events \cup (IF slot.err THEN events[c] ELSE {})

(* Nobody waits for what has happened any more. *)
idle_nothing(p) ==
  LET c == <<slot.fd, slot.gen>>
  IN /\ p \in got
     /\ events[c] \cap Revents(c) = {}
     /\ got' = got \ {p}
     /\ slot' = [slot EXCEPT !.events = Revents(c)]
     /\ UNCHANGED <<size, gen, channelVars, epollVars, pending, reports, pc, call>>

(* Mutant: the events left are those of the report, not the others. *)
Left_swapped(c) == events[c] \cap Revents(c)

(* levents: what is still to be waited for. *)
Left(c) == events[c] \ Revents(c)

(***************************************************************************)
(* Under channel->lock_: the events still wanted go to epoll through the   *)
(* shared buffer, and each event of the report is handled and subtracted   *)
(* from pendingEventCount_, also one that is no longer registered.         *)
(***************************************************************************)
idle_handle(p) ==
  LET c == <<slot.fd, slot.gen>>
  IN /\ p \in got
     /\ events[c] \cap Revents(c) # {} /\ epoll_ok(c)
     /\ got' = got \ {p}
     /\ slot' = [fd |-> c[1], gen |-> c[2], events |-> Left(c), err |-> FALSE]
     /\ epoll_ctl(c, Left(c))
     /\ handleEvents(c, Revents(c), {})
     /\ pending' = pending - Cardinality(Revents(c))
     /\ UNCHANGED <<size, gen, reports, call>>

-----------------------------------------------------------------------------
FiberStep(f) ==
  \/ \E op \in Ops \ {"cancelAll"}, fd \in Fds, e \in Event : Lookup(f, op, fd, e)
  \/ \E fd \in Fds : Lookup(f, "cancelAll", fd, NoCall.event)
  \/ Grow(f)
  \/ addEvent(f) \/ removeEvent(f) \/ cancelEvent(f) \/ Refused(f)

PollerStep(p) == epoll_wait(p) \/ idle_nothing(p) \/ idle_handle(p)

Next ==
  \/ \E f \in Fibers : FiberStep(f)
  \/ \E p \in Pollers : PollerStep(p)

Spec == Init /\ [][Next]_vars

-----------------------------------------------------------------------------
(* Properties *)

(***************************************************************************)
(* Every variable keeps to its domain; a fiber that has looked a Channel   *)
(* up has found one, and a poller has a Channel in its report.             *)
(***************************************************************************)
TypeOK ==
  /\ size \in Nat
  /\ gen \in [Fds -> 0..MaxGen]
  /\ events \in [Chan -> SUBSET Event]
  /\ ctx \in [Chan -> [Event -> Fibers \cup {NoCtx, Callback}]]
  /\ mask \in [Fds -> SUBSET Event]
  /\ ptr \in [Fds -> 0..MaxGen]
  /\ pending \in Int
  /\ slot \in [fd : Nat, gen : 0..MaxGen, events : SUBSET Event, err : BOOLEAN]
  /\ got \subseteq Pollers
  /\ pc \in [Fibers -> {"run", "grow", "found", "waiting", "dropped"}]
  /\ call \in [Fibers -> [op : Ops, event : Event, fd : Nat, gen : 0..MaxGen]]
  /\ reports \in 0..MaxReports
  /\ \A f \in Fibers : pc[f] = "found" => Found(f) \in Chan
  /\ got # {} => <<slot.fd, slot.gen>> \in Chan

(***************************************************************************)
(* The assertions on an EventCtx hold (IOManager.cc:149, Channel.cc:40):   *)
(* it is occupied exactly when its bit is set in events_, so addEvent      *)
(* finds it empty and handleEvent finds someone to schedule.               *)
(***************************************************************************)
CtxMatchesEvents ==
  \A c \in Chan, e \in Event : e \in events[c] <=> ctx[c][e] # NoCtx

(***************************************************************************)
(* epoll asks for exactly the events of the one Channel it points to, and  *)
(* a Channel it does not point to waits for nothing, also when channels_   *)
(* has a newer object for the descriptor.                                  *)
(***************************************************************************)
EpollInSync ==
  \A c \in Chan : IF ptr[c[1]] = c[2] THEN events[c] = mask[c[1]] /\ events[c] # {}
                  ELSE events[c] = {}

(***************************************************************************)
(* A fiber that yielded in addEvent is in one EventCtx, so it is scheduled *)
(* once by whatever comes first, the event, cancelEvent or cancelAll; and  *)
(* a fiber that is not waiting is in none.                                 *)
(***************************************************************************)
Holds(f) == {x \in Chan \X Event : ctx[x[1]][x[2]] = f}

WaiterRegisteredOnce ==
  \A f \in Fibers : IF pc[f] = "waiting" THEN \E x \in Holds(f) : Holds(f) = {x}
                    ELSE Holds(f) = {}

(***************************************************************************)
(* pendingEventCount_ never counts an event that is not registered, so     *)
(* such an event never keeps canStop() false.  (It may count too few: see  *)
(* idle_handle.)                                                           *)
(***************************************************************************)
Registered == {x \in Chan \X Event : x[2] \in events[x[1]]}

PendingNeverOver == pending <= Cardinality(Registered)

(***************************************************************************)
(* "size * 2" (IOManager.cc:120): addEvent makes channels_ larger.         *)
(***************************************************************************)
ChannelsNeverShrink == [][size' >= size]_vars
=============================================================================
