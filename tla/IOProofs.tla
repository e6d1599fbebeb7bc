------------------------------ MODULE IOProofs ------------------------------
(***************************************************************************)
(* Proofs about the events of the IOManager, for every set of fibers,      *)
(* pollers and descriptors, every initial size and every bound.            *)
(***************************************************************************)
EXTENDS IOManager, FiniteSetTheorems, TLAPS

-----------------------------------------------------------------------------
(* Types, and finding a Channel *)

(***************************************************************************)
(* channels_ has a Channel for every descriptor below its size, and who    *)
(* goes on to grow it was refused a descriptor above zero: so that a fiber *)
(* has found a Channel object however the vector changed in between.       *)
(***************************************************************************)
SlotsInv ==
  /\ size # 0
  /\ \A fd \in Fds : fd < size => gen[fd] # 0
  /\ \A f \in Fibers : pc[f] = "grow" => call[f].fd \in Fds /\ call[f].fd # 0

TypeInv == TypeOK /\ SlotsInv

LEMMA TypeInit == Init => TypeInv
<1> SUFFICES ASSUME Init PROVE TypeInv
  OBVIOUS
<1> USE IOAssumption DEF Init, Chan, Event, Ops, NoCall
<1>1. TypeOK
  BY DEF TypeOK, Found
<1>2. SlotsInv
  BY DEF SlotsInv
<1> QED
  BY <1>1, <1>2 DEF TypeInv

LEMMA LookupType ==
  ASSUME TypeInv, NEW f \in Fibers, NEW op \in Ops, NEW fd \in Fds, NEW e \in Event,
         Lookup(f, op, fd, e)
  PROVE  TypeInv'
<1> USE IOAssumption DEF TypeInv, Lookup, channelVars, epollVars, pollVars
<1>1. TypeOK'
  BY DEF TypeOK, SlotsInv, Found, Chan
<1>2. SlotsInv'
  BY DEF TypeOK, SlotsInv
<1> QED
  BY <1>1, <1>2

LEMMA GrowType ==
  ASSUME TypeInv, NEW f \in Fibers, Grow(f)
  PROVE  TypeInv'
<1> USE IOAssumption DEF TypeInv
<1> DEFINE fd   == call[f].fd
           born == {x \in Fds : size <= x /\ x < 2 * fd}
<1>1. /\ pc[f] = "grow" /\ fd \in Fds /\ fd \in Nat /\ fd # 0
      /\ size \in Nat
      /\ gen \in [Fds -> 0..MaxGen]
  BY DEF Grow, TypeOK, SlotsInv
<1>2. /\ size' = 2 * fd
      /\ \A x \in Fds : gen'[x] = IF x \in born THEN gen[x] + 1 ELSE gen[x]
      /\ gen' \in [Fds -> 0..MaxGen]
      /\ pc' = [pc EXCEPT ![f] = "found"]
      /\ call' = [call EXCEPT ![f].gen = gen'[fd]]
      /\ UNCHANGED <<channelVars, epollVars, pending, pollVars>>
  BY <1>1 DEF Grow
<1>3. \A x \in Fds : x < 2 * fd => gen'[x] # 0
  BY <1>1, <1>2 DEF SlotsInv
<1>4. gen'[fd] \in 1..MaxGen /\ size' \in Nat \ {0}
  BY <1>1, <1>2, <1>3
<1> HIDE DEF born
<1>5. TypeOK'
  <2>1. /\ call' \in [Fibers -> [op : Ops, event : Event, fd : Nat, gen : 0..MaxGen]]
        /\ Found(f)' = <<fd, gen'[fd]>>
        /\ \A g \in Fibers : g # f => call'[g] = call[g] /\ pc'[g] = pc[g]
    BY <1>1, <1>2, <1>4 DEF TypeOK, Found
  <2>2. pc' \in [Fibers -> {"run", "grow", "found", "waiting", "dropped"}]
    BY <1>2 DEF TypeOK
  <2>3. \A g \in Fibers : pc'[g] = "found" => Found(g)' \in Chan
    <3> SUFFICES ASSUME NEW g \in Fibers, pc'[g] = "found" PROVE Found(g)' \in Chan
      OBVIOUS
    <3>1. CASE g = f
      BY <3>1, <2>1, <1>1, <1>4 DEF Chan
    <3>2. CASE g # f
      BY <3>2, <2>1 DEF TypeOK, Found
    <3> QED
      BY <3>1, <3>2
  <2> QED
    BY <1>2, <1>4, <2>1, <2>2, <2>3 DEF TypeOK, channelVars, epollVars, pollVars
<1>6. SlotsInv'
  BY <1>1, <1>2, <1>3, <1>4 DEF TypeOK, SlotsInv
<1> QED
  BY <1>5, <1>6

(* The other actions leave channels_ alone, and do not make a fiber find   *)
(* or grow anything.                                                       *)
LEMMA SlotsKept ==
  ASSUME SlotsInv, UNCHANGED <<size, gen>>,
         \A g \in Fibers : pc'[g] = "grow" => pc[g] = "grow" /\ call'[g] = call[g]
  PROVE  SlotsInv'
  BY DEF SlotsInv

LEMMA EpollCtlType ==
  ASSUME TypeOK, NEW c \in Chan, NEW S \in SUBSET Event, epoll_ctl(c, S)
  PROVE  mask' \in [Fds -> SUBSET Event] /\ ptr' \in [Fds -> 0..MaxGen]
  BY IOAssumption DEF TypeOK, Chan, epoll_ctl

LEMMA FoundChan ==
  ASSUME TypeOK, NEW f \in Fibers, pc[f] = "found"
  PROVE  Found(f) \in Chan /\ call[f].event \in Event /\ call[f].op \in Ops
  BY DEF TypeOK

(* A fiber that returns from an operation has worked on a Channel and on   *)
(* epoll only, and leaves no other fiber with an operation to go on with.  *)
LEMMA ReturnType ==
  ASSUME TypeInv, NEW f \in Fibers, Return(f),
         events' \in [Chan -> SUBSET Event],
         ctx' \in [Chan -> [Event -> Fibers \cup {NoCtx, Callback}]],
         mask' \in [Fds -> SUBSET Event],
         ptr' \in [Fds -> 0..MaxGen],
         pending' \in Int,
         pc' \in [Fibers -> {"run", "grow", "found", "waiting", "dropped"}],
         \A g \in Fibers : pc'[g] \in {"grow", "found"} => g # f /\ pc'[g] = pc[g],
         UNCHANGED <<size, gen, pollVars>>
  PROVE  TypeInv'
<1>1. /\ call' \in [Fibers -> [op : Ops, event : Event, fd : Nat, gen : 0..MaxGen]]
      /\ \A g \in Fibers : g # f => call'[g] = call[g]
  <2>1. NoCall \in [op : Ops, event : Event, fd : Nat, gen : 0..MaxGen]
    BY IOAssumption DEF NoCall, Ops, Event
  <2> QED
    BY <2>1 DEF TypeInv, TypeOK, Return
<1>2. \A g \in Fibers : pc'[g] = "found" => Found(g)' \in Chan
  BY <1>1 DEF TypeInv, TypeOK, Found
<1>3. TypeOK'
  BY <1>1, <1>2 DEF TypeInv, TypeOK, pollVars
<1>4. SlotsInv'
  BY <1>1, SlotsKept DEF TypeInv
<1> QED
  BY <1>3, <1>4 DEF TypeInv

LEMMA AddType ==
  ASSUME TypeInv, NEW f \in Fibers, addEvent(f)
  PROVE  TypeInv'
<1> DEFINE c == Found(f)
           e == call[f].event
<1>1. pc[f] = "found" /\ c \in Chan /\ e \in Event
  BY FoundChan DEF TypeInv, addEvent, Doing
<1>2. /\ epoll_ctl(c, events[c] \cup {e})
      /\ pending' = pending + 1
      /\ events' = [events EXCEPT ![c] = @ \cup {e}]
      /\ ctx' = [ctx EXCEPT ![c][e] = IF call[f].op = "add" THEN f ELSE Callback]
      /\ pc' = [pc EXCEPT ![f] = IF call[f].op = "add" THEN "waiting" ELSE "run"]
      /\ Return(f)
      /\ UNCHANGED <<size, gen, pollVars>>
  BY DEF addEvent
<1>3. events[c] \cup {e} \in SUBSET Event
  BY <1>1 DEF TypeInv, TypeOK
<1> HIDE DEF c, e
<1>4. mask' \in [Fds -> SUBSET Event] /\ ptr' \in [Fds -> 0..MaxGen]
  BY <1>1, <1>2, <1>3, EpollCtlType DEF TypeInv
<1>5. /\ events' \in [Chan -> SUBSET Event]
      /\ ctx' \in [Chan -> [Event -> Fibers \cup {NoCtx, Callback}]]
      /\ pending' \in Int
  BY <1>1, <1>2, <1>3 DEF TypeInv, TypeOK
<1>6. /\ pc' \in [Fibers -> {"run", "grow", "found", "waiting", "dropped"}]
      /\ \A g \in Fibers : pc'[g] \in {"grow", "found"} => g # f /\ pc'[g] = pc[g]
  BY <1>2 DEF TypeInv, TypeOK
<1> QED
  BY <1>2, <1>4, <1>5, <1>6, ReturnType

LEMMA RemoveType ==
  ASSUME TypeInv, NEW f \in Fibers, removeEvent(f)
  PROVE  TypeInv'
<1> DEFINE c == Found(f)
           e == call[f].event
<1>1. pc[f] = "found" /\ c \in Chan /\ e \in Event
  BY FoundChan DEF TypeInv, removeEvent, Doing
<1>2. /\ epoll_ctl(c, events[c] \ {e})
      /\ pending' = pending - 1
      /\ events' = [events EXCEPT ![c] = @ \ {e}]
      /\ ctx' = [ctx EXCEPT ![c][e] = NoCtx]
      /\ pc' = [g \in Fibers |-> IF g = f THEN "run"
                                 ELSE IF g = ctx[c][e] THEN "dropped" ELSE pc[g]]
      /\ Return(f)
      /\ UNCHANGED <<size, gen, pollVars>>
  BY DEF removeEvent
<1>3. events[c] \ {e} \in SUBSET Event
  BY <1>1 DEF TypeInv, TypeOK
<1> HIDE DEF c, e
<1>4. mask' \in [Fds -> SUBSET Event] /\ ptr' \in [Fds -> 0..MaxGen]
  BY <1>1, <1>2, <1>3, EpollCtlType DEF TypeInv
<1>5. /\ events' \in [Chan -> SUBSET Event]
      /\ ctx' \in [Chan -> [Event -> Fibers \cup {NoCtx, Callback}]]
      /\ pending' \in Int
  BY <1>1, <1>2, <1>3 DEF TypeInv, TypeOK
<1>6. /\ pc' \in [Fibers -> {"run", "grow", "found", "waiting", "dropped"}]
      /\ \A g \in Fibers : pc'[g] \in {"grow", "found"} => g # f /\ pc'[g] = pc[g]
  BY <1>2 DEF TypeInv, TypeOK
<1> QED
  BY <1>2, <1>4, <1>5, <1>6, ReturnType

LEMMA RefusedType ==
  ASSUME TypeInv, NEW f \in Fibers, Refused(f)
  PROVE  TypeInv'
<1>1. pc' = [pc EXCEPT ![f] = "run"] /\ Return(f)
  BY DEF Refused
<1>2. UNCHANGED <<size, gen, channelVars, epollVars, pending, pollVars>>
  BY DEF Refused
<1>3. /\ pc' \in [Fibers -> {"run", "grow", "found", "waiting", "dropped"}]
      /\ \A g \in Fibers : pc'[g] \in {"grow", "found"} => g # f /\ pc'[g] = pc[g]
  BY <1>1 DEF TypeInv, TypeOK
<1>4. /\ events' \in [Chan -> SUBSET Event]
      /\ ctx' \in [Chan -> [Event -> Fibers \cup {NoCtx, Callback}]]
      /\ mask' \in [Fds -> SUBSET Event]
      /\ ptr' \in [Fds -> 0..MaxGen]
      /\ pending' \in Int
  BY <1>2 DEF TypeInv, TypeOK, channelVars, epollVars
<1> QED
  BY <1>1, <1>2, <1>3, <1>4, ReturnType

LEMMA HandleType ==
  ASSUME TypeOK, NEW c \in Chan, NEW S \in SUBSET Event, NEW back,
         handleEvents(c, S, back)
  PROVE  /\ events' \in [Chan -> SUBSET Event]
         /\ ctx' \in [Chan -> [Event -> Fibers \cup {NoCtx, Callback}]]
         /\ pc' \in [Fibers -> {"run", "grow", "found", "waiting", "dropped"}]
         /\ \A g \in Fibers : pc'[g] # "run" => pc'[g] = pc[g]
         /\ \A g \in Fibers : g \in back => pc'[g] = "run"
  BY DEF TypeOK, handleEvents

(* There are two events. *)
LEMMA EventsFinite ==
  ASSUME NEW S \in SUBSET Event
  PROVE  IsFiniteSet(S) /\ Cardinality(S) \in Nat
<1>1. IsFiniteSet({"READ"}) /\ Event = {"READ"} \cup {"WRITE"}
  BY FS_Singleton DEF Event
<1>2. IsFiniteSet(Event)
  BY <1>1, FS_AddElement
<1> QED
  BY <1>2, FS_Subset, FS_CardinalityType

LEMMA CancelType ==
  ASSUME TypeInv, NEW f \in Fibers, cancelEvent(f)
  PROVE  TypeInv'
<1> DEFINE c == Found(f)
           S == IF call[f].op = "cancelAll" THEN events[c] ELSE {call[f].event}
<1>1. pc[f] = "found" /\ c \in Chan /\ call[f].event \in Event
  BY FoundChan DEF TypeInv, cancelEvent, Doing
<1>2. /\ epoll_ctl(c, events[c] \ S)
      /\ handleEvents(c, S, {f})
      /\ pending' = pending - Cardinality(S)
      /\ Return(f)
      /\ UNCHANGED <<size, gen, pollVars>>
  BY DEF cancelEvent
<1>3. S \in SUBSET Event /\ events[c] \ S \in SUBSET Event
  BY <1>1 DEF TypeInv, TypeOK
<1> HIDE DEF c, S
<1>4. mask' \in [Fds -> SUBSET Event] /\ ptr' \in [Fds -> 0..MaxGen]
  BY <1>1, <1>2, <1>3, EpollCtlType DEF TypeInv
<1>5. /\ events' \in [Chan -> SUBSET Event]
      /\ ctx' \in [Chan -> [Event -> Fibers \cup {NoCtx, Callback}]]
      /\ pc' \in [Fibers -> {"run", "grow", "found", "waiting", "dropped"}]
      /\ \A g \in Fibers : pc'[g] # "run" => pc'[g] = pc[g]
      /\ pc'[f] = "run"
  BY <1>1, <1>2, <1>3, HandleType DEF TypeInv
<1>6. pending' \in Int
  BY <1>2, <1>3, EventsFinite DEF TypeInv, TypeOK
<1> QED
  BY <1>2, <1>4, <1>5, <1>6, ReturnType

-----------------------------------------------------------------------------
(* A poller: the Channel of a report is one epoll pointed to *)

LEMMA WaitType ==
  ASSUME TypeInv, NEW p \in Pollers, epoll_wait(p)
  PROVE  TypeInv'
<1>0. PICK fd \in Fds : \E S \in SUBSET mask[fd], err \in BOOLEAN :
        /\ ptr[fd] # 0
        /\ slot' = [fd |-> fd, gen |-> ptr[fd], events |-> S, err |-> err]
  BY DEF epoll_wait
<1>1. PICK S \in SUBSET mask[fd], err \in BOOLEAN :
        /\ ptr[fd] # 0
        /\ slot' = [fd |-> fd, gen |-> ptr[fd], events |-> S, err |-> err]
  BY <1>0
<1>2. <<fd, ptr[fd]>> \in Chan
  BY <1>1, IOAssumption DEF TypeInv, TypeOK, Chan
<1>3. /\ slot' \in [fd : Nat, gen : 0..MaxGen, events : SUBSET Event, err : BOOLEAN]
      /\ <<slot.fd, slot.gen>>' \in Chan
  BY <1>1, <1>2, IOAssumption DEF TypeInv, TypeOK
<1>4. got' \subseteq Pollers /\ reports' \in 0..MaxReports
  BY IOAssumption DEF TypeInv, TypeOK, epoll_wait
<1>5. UNCHANGED <<size, gen, channelVars, epollVars, pending, pc, call>>
  BY DEF epoll_wait
<1>6. TypeOK'
  BY <1>3, <1>4, <1>5 DEF TypeInv, TypeOK, channelVars, epollVars, Found
<1>7. SlotsInv'
  BY <1>5, SlotsKept DEF TypeInv
<1> QED
  BY <1>6, <1>7 DEF TypeInv

LEMMA ReportChan ==
  ASSUME TypeInv, NEW p \in Pollers, p \in got
  PROVE  /\ <<slot.fd, slot.gen>> \in Chan
         /\ Revents(<<slot.fd, slot.gen>>) \in SUBSET Event
         /\ Left(<<slot.fd, slot.gen>>) \in SUBSET Event
  BY DEF TypeInv, TypeOK, Revents, Left

LEMMA IdleNothingType ==
  ASSUME TypeInv, NEW p \in Pollers, idle_nothing(p)
  PROVE  TypeInv'
<1> DEFINE c == <<slot.fd, slot.gen>>
<1>1. c \in Chan /\ Revents(c) \in SUBSET Event
  BY ReportChan DEF idle_nothing
<1>2. /\ slot' = [slot EXCEPT !.events = Revents(c)]
      /\ got' \subseteq Pollers
      /\ UNCHANGED <<size, gen, channelVars, epollVars, pending, reports, pc, call>>
  BY DEF idle_nothing, TypeInv, TypeOK
<1>3. /\ slot' \in [fd : Nat, gen : 0..MaxGen, events : SUBSET Event, err : BOOLEAN]
      /\ <<slot.fd, slot.gen>>' \in Chan
  BY <1>1, <1>2 DEF TypeInv, TypeOK
<1>4. TypeOK'
  BY <1>2, <1>3 DEF TypeInv, TypeOK, channelVars, epollVars, Found
<1>5. SlotsInv'
  BY <1>2, SlotsKept DEF TypeInv
<1> QED
  BY <1>4, <1>5 DEF TypeInv

LEMMA IdleHandleType ==
  ASSUME TypeInv, NEW p \in Pollers, idle_handle(p)
  PROVE  TypeInv'
<1> DEFINE c == <<slot.fd, slot.gen>>
<1>1. c \in Chan /\ Revents(c) \in SUBSET Event /\ Left(c) \in SUBSET Event
  BY ReportChan DEF idle_handle
<1>2. /\ slot' = [fd |-> c[1], gen |-> c[2], events |-> Left(c), err |-> FALSE]
      /\ got' \subseteq Pollers
      /\ epoll_ctl(c, Left(c))
      /\ handleEvents(c, Revents(c), {})
      /\ pending' = pending - Cardinality(Revents(c))
      /\ UNCHANGED <<size, gen, reports, call>>
  BY DEF idle_handle, TypeInv, TypeOK
<1>3. /\ slot' \in [fd : Nat, gen : 0..MaxGen, events : SUBSET Event, err : BOOLEAN]
      /\ <<slot.fd, slot.gen>>' \in Chan
  BY <1>1, <1>2 DEF TypeInv, TypeOK
<1>4. mask' \in [Fds -> SUBSET Event] /\ ptr' \in [Fds -> 0..MaxGen]
  BY <1>1, <1>2, EpollCtlType DEF TypeInv
<1>5. /\ events' \in [Chan -> SUBSET Event]
      /\ ctx' \in [Chan -> [Event -> Fibers \cup {NoCtx, Callback}]]
      /\ pc' \in [Fibers -> {"run", "grow", "found", "waiting", "dropped"}]
      /\ \A g \in Fibers : pc'[g] # "run" => pc'[g] = pc[g]
  BY <1>1, <1>2, HandleType DEF TypeInv
<1>6. pending' \in Int
  BY <1>1, <1>2, EventsFinite DEF TypeInv, TypeOK
<1>7. \A g \in Fibers : pc'[g] = "found" => Found(g)' \in Chan
  BY <1>2, <1>5 DEF TypeInv, TypeOK, Found
<1>8. TypeOK'
  BY <1>2, <1>3, <1>4, <1>5, <1>6, <1>7 DEF TypeInv, TypeOK
<1>9. SlotsInv'
  BY <1>2, <1>5, SlotsKept DEF TypeInv
<1> QED
  BY <1>8, <1>9 DEF TypeInv

LEMMA TypeStep == TypeInv /\ [Next]_vars => TypeInv'
<1> SUFFICES ASSUME TypeInv, [Next]_vars PROVE TypeInv'
  OBVIOUS
<1>1. ASSUME NEW f \in Fibers, FiberStep(f) PROVE TypeInv'
  <2>1. ASSUME NEW op \in Ops, NEW fd \in Fds, NEW e \in Event, Lookup(f, op, fd, e)
        PROVE  TypeInv'
    BY <2>1, LookupType
  <2>2. "cancelAll" \in Ops /\ NoCall.event \in Event
    BY DEF Ops, NoCall, Event
  <2> QED
    BY <1>1, <2>1, <2>2, GrowType, AddType, RemoveType, CancelType, RefusedType
    DEF FiberStep
<1>2. ASSUME NEW p \in Pollers, PollerStep(p) PROVE TypeInv'
  BY <1>2, WaitType, IdleNothingType, IdleHandleType DEF PollerStep
<1>3. CASE UNCHANGED vars
  BY <1>3 DEF TypeInv, TypeOK, SlotsInv, vars, channelVars, epollVars, pollVars, Found
<1> QED
  BY <1>1, <1>2, <1>3 DEF Next

-----------------------------------------------------------------------------
(* What a step does to the events, to who waits for them, and to epoll *)

(* It handles the events S of the channel c, the fibers in back returning  *)
(* from the operation that does so (Channel::handleEvent).                 *)
Handling(c, S, back) ==
  /\ epoll_ok(c)
  /\ epoll_ctl(c, events[c] \ S)
  /\ handleEvents(c, S, back)
  /\ pending' = pending - Cardinality(S)

(* It has nothing to do with them. *)
Quiet ==
  /\ UNCHANGED <<channelVars, epollVars, pending>>
  /\ \A g \in Fibers : pc'[g] = "waiting" <=> pc[g] = "waiting"

(* cancelEvent, cancelAll and a poller's report do the same to a Channel;  *)
(* only addEvent and removeEvent do something else.                        *)
LEMMA StepKinds ==
  ASSUME TypeInv, [Next]_vars
  PROVE  \/ Quiet
         \/ \E f \in Fibers : addEvent(f) \/ removeEvent(f)
         \/ \E c \in Chan, S \in SUBSET Event, back \in SUBSET Fibers :
              Handling(c, S, back) /\ \A g \in back : pc[g] # "waiting"
<1> DEFINE Handles == \E c \in Chan, S \in SUBSET Event, back \in SUBSET Fibers :
                        Handling(c, S, back) /\ \A g \in back : pc[g] # "waiting"
<1>1. ASSUME NEW f \in Fibers, FiberStep(f)
      PROVE  Quiet \/ addEvent(f) \/ removeEvent(f) \/ Handles
  <2>1. ASSUME NEW op \in Ops, NEW fd \in Fds, NEW e \in Event, Lookup(f, op, fd, e)
        PROVE  Quiet
    BY <2>1 DEF Lookup, Quiet, TypeInv, TypeOK
  <2>2. "cancelAll" \in Ops /\ NoCall.event \in Event
    BY DEF Ops, NoCall, Event
  <2>3. CASE Grow(f)
    BY <2>3 DEF Grow, Quiet, TypeInv, TypeOK
  <2>4. CASE Refused(f)
    BY <2>4 DEF Refused, Quiet, TypeInv, TypeOK
  <2>5. CASE cancelEvent(f)
    <3> DEFINE c == Found(f)
               S == IF call[f].op = "cancelAll" THEN events[c] ELSE {call[f].event}
    <3>1. pc[f] = "found" /\ c \in Chan /\ call[f].event \in Event
      BY <2>5, FoundChan DEF TypeInv, cancelEvent, Doing
    <3>2. S \in SUBSET Event
      BY <3>1 DEF TypeInv, TypeOK
    <3>3. Handling(c, S, {f})
      BY <2>5 DEF cancelEvent, Handling
    <3> HIDE DEF c, S
    <3> QED
      BY <3>1, <3>2, <3>3
  <2> HIDE DEF Handles
  <2> QED
    BY <1>1, <2>1, <2>2, <2>3, <2>4, <2>5 DEF FiberStep
<1>2. ASSUME NEW p \in Pollers, PollerStep(p)
      PROVE  Quiet \/ Handles
  <2>1. CASE idle_handle(p)
    <3> DEFINE c == <<slot.fd, slot.gen>>
    <3>1. c \in Chan /\ Revents(c) \in SUBSET Event
      BY <2>1, ReportChan DEF idle_handle
    <3>2. Handling(c, Revents(c), {})
      BY <2>1 DEF idle_handle, Handling, Left
    <3> HIDE DEF c
    <3> QED
      BY <3>1, <3>2
  <2>2. CASE epoll_wait(p) \/ idle_nothing(p)
    BY <2>2 DEF epoll_wait, idle_nothing, Quiet
  <2> HIDE DEF Handles
  <2> QED
    BY <1>2, <2>1, <2>2 DEF PollerStep
<1>3. CASE UNCHANGED vars
  BY <1>3 DEF vars, Quiet
<1> QED
  BY <1>1, <1>2, <1>3 DEF Next

-----------------------------------------------------------------------------
(* The EventCtx of an event is occupied when its bit is set *)

LEMMA CtxInit == Init => CtxMatchesEvents
  BY DEF Init, CtxMatchesEvents

LEMMA CtxStep == TypeInv /\ CtxMatchesEvents /\ [Next]_vars => CtxMatchesEvents'
<1> SUFFICES ASSUME TypeInv, CtxMatchesEvents, [Next]_vars PROVE CtxMatchesEvents'
  OBVIOUS
<1>1. ASSUME NEW f \in Fibers, addEvent(f) PROVE CtxMatchesEvents'
  BY <1>1, FoundChan, IOAssumption
  DEF addEvent, Doing, TypeInv, TypeOK, CtxMatchesEvents
<1>2. ASSUME NEW f \in Fibers, removeEvent(f) PROVE CtxMatchesEvents'
  BY <1>2, FoundChan DEF removeEvent, Doing, TypeInv, TypeOK, CtxMatchesEvents
<1>3. ASSUME NEW c \in Chan, NEW S \in SUBSET Event, NEW back, Handling(c, S, back)
      PROVE  CtxMatchesEvents'
  BY <1>3 DEF Handling, handleEvents, TypeInv, TypeOK, CtxMatchesEvents
<1>4. CASE Quiet
  BY <1>4 DEF Quiet, channelVars, CtxMatchesEvents
<1> QED
  BY <1>1, <1>2, <1>3, <1>4, StepKinds

-----------------------------------------------------------------------------
(* epoll and the Channel it points to *)

LEMMA EpollInit == Init => EpollInSync
  BY IOAssumption DEF Init, EpollInSync, Chan

(* epoll_ctl after the test that ADD and MOD make of the registration:     *)
(* when the Channel is not the one epoll points to, none is.               *)
LEMMA EpollCtlSync ==
  ASSUME TypeInv, EpollInSync, NEW c \in Chan, NEW S \in SUBSET Event,
         epoll_ok(c), epoll_ctl(c, S), events' = [events EXCEPT ![c] = S]
  PROVE  EpollInSync'
<1> SUFFICES ASSUME NEW x \in Chan
             PROVE  IF ptr'[x[1]] = x[2] THEN events'[x] = mask'[x[1]] /\ events'[x] # {}
                    ELSE events'[x] = {}
  BY DEF EpollInSync
<1>1. /\ c[1] \in Fds /\ c[2] \in 1..MaxGen /\ x[1] \in Fds /\ x[2] \in 1..MaxGen
      /\ x # c /\ x[1] = c[1] => x[2] # c[2]
      /\ 0 \notin 1..MaxGen
  BY DEF Chan
<1>2. /\ ptr'[c[1]] = IF S = {} THEN 0 ELSE c[2]
      /\ mask'[c[1]] = S
      /\ events'[c] = S
      /\ \A y \in Chan : y # c => events'[y] = events[y]
      /\ \A y \in Fds : y # c[1] => ptr'[y] = ptr[y] /\ mask'[y] = mask[y]
  BY <1>1 DEF epoll_ctl, TypeInv, TypeOK
<1>3. CASE x = c
  BY <1>1, <1>2, <1>3
<1>4. CASE x[1] # c[1]
  BY <1>1, <1>2, <1>4 DEF EpollInSync
<1>5. CASE x # c /\ x[1] = c[1]
  <2>1. events[x] = {}
    <3>1. CASE ptr[c[1]] = 0
      BY <1>1, <1>5, <3>1 DEF EpollInSync
    <3>2. CASE ptr[c[1]] # 0
      BY <1>1, <1>5, <3>2 DEF EpollInSync, epoll_ok
    <3> QED
      BY <3>1, <3>2
  <2> QED
    BY <1>1, <1>2, <1>5, <2>1
<1> QED
  BY <1>3, <1>4, <1>5

LEMMA EpollStep == TypeInv /\ EpollInSync /\ [Next]_vars => EpollInSync'
<1> SUFFICES ASSUME TypeInv, EpollInSync, [Next]_vars PROVE EpollInSync'
  OBVIOUS
<1>1. ASSUME NEW f \in Fibers, addEvent(f) PROVE EpollInSync'
  <2> DEFINE c == Found(f)
             S == events[c] \cup {call[f].event}
  <2>1. c \in Chan /\ S \in SUBSET Event
    BY <1>1, FoundChan DEF addEvent, Doing, TypeInv, TypeOK
  <2>2. epoll_ok(c) /\ epoll_ctl(c, S) /\ events' = [events EXCEPT ![c] = S]
    BY <1>1 DEF addEvent
  <2> QED
    BY <2>1, <2>2, EpollCtlSync
<1>2. ASSUME NEW f \in Fibers, removeEvent(f) PROVE EpollInSync'
  <2> DEFINE c == Found(f)
             S == events[c] \ {call[f].event}
  <2>1. c \in Chan /\ S \in SUBSET Event
    BY <1>2, FoundChan DEF removeEvent, Doing, TypeInv, TypeOK
  <2>2. epoll_ok(c) /\ epoll_ctl(c, S) /\ events' = [events EXCEPT ![c] = S]
    BY <1>2 DEF removeEvent
  <2> QED
    BY <2>1, <2>2, EpollCtlSync
<1>3. ASSUME NEW c \in Chan, NEW S \in SUBSET Event, NEW back, Handling(c, S, back)
      PROVE  EpollInSync'
  <2>1. events[c] \ S \in SUBSET Event
    BY DEF TypeInv, TypeOK
  <2>2. /\ epoll_ok(c) /\ epoll_ctl(c, events[c] \ S)
        /\ events' = [events EXCEPT ![c] = events[c] \ S]
    BY <1>3 DEF Handling, handleEvents
  <2> QED
    BY <2>1, <2>2, EpollCtlSync
<1>4. CASE Quiet
  BY <1>4 DEF Quiet, channelVars, epollVars, EpollInSync
<1> QED
  BY <1>1, <1>2, <1>3, <1>4, StepKinds

-----------------------------------------------------------------------------
(* A fiber that waits is in one EventCtx *)

(* Who is in an EventCtx waits, ... *)
HolderWaits == \A c \in Chan, e \in Event, f \in Fibers : ctx[c][e] = f => pc[f] = "waiting"

(* ... in no other one, ... *)
OneHold ==
  \A c, d \in Chan, e, k \in Event, f \in Fibers :
    ctx[c][e] = f /\ ctx[d][k] = f => c = d /\ e = k

(* ... and who waits is in one. *)
WaiterHolds == \A f \in Fibers : pc[f] = "waiting" => \E c \in Chan, e \in Event : ctx[c][e] = f

WaitInv == HolderWaits /\ OneHold /\ WaiterHolds

LEMMA WaitInit == Init => WaitInv
  BY IOAssumption DEF Init, WaitInv, HolderWaits, OneHold, WaiterHolds

(* addEvent: the EventCtx it fills was empty, and the fiber was in none.   *)
LEMMA AddWait ==
  ASSUME TypeInv, CtxMatchesEvents, WaitInv, NEW f \in Fibers, addEvent(f)
  PROVE  WaitInv'
<1> DEFINE c == Found(f)
           e == call[f].event
           w == IF call[f].op = "add" THEN f ELSE Callback
<1>1. pc[f] = "found" /\ c \in Chan /\ e \in Event
  BY FoundChan DEF TypeInv, addEvent, Doing
<1>2. ctx[c][e] = NoCtx
  BY <1>1 DEF addEvent, CtxMatchesEvents
<1>3. /\ ctx' = [ctx EXCEPT ![c][e] = w]
      /\ pc' = [pc EXCEPT ![f] = IF call[f].op = "add" THEN "waiting" ELSE "run"]
  BY DEF addEvent
<1>4. \A d \in Chan, k \in Event : ctx[d][k] # f
  BY <1>1 DEF WaitInv, HolderWaits
<1> HIDE DEF c, e
<1>5. \A d \in Chan, k \in Event : ctx'[d][k] = IF d = c /\ k = e THEN w ELSE ctx[d][k]
  BY <1>1, <1>3 DEF TypeInv, TypeOK
<1>6. \A g \in Fibers : pc'[g] = IF g = f THEN IF call[f].op = "add" THEN "waiting" ELSE "run"
                                 ELSE pc[g]
  BY <1>3 DEF TypeInv, TypeOK
<1>7. HolderWaits'
  BY <1>1, <1>4, <1>5, <1>6, IOAssumption DEF WaitInv, HolderWaits
<1>8. OneHold'
  BY <1>1, <1>4, <1>5, IOAssumption DEF WaitInv, OneHold
<1>9. WaiterHolds'
  <2> SUFFICES ASSUME NEW g \in Fibers, pc'[g] = "waiting"
               PROVE  \E d \in Chan, k \in Event : ctx'[d][k] = g
    BY DEF WaiterHolds
  <2>1. CASE g = f
    BY <1>1, <1>5, <1>6, <2>1
  <2>2. CASE g # f
    <3>1. PICK d \in Chan, k \in Event : ctx[d][k] = g
      BY <1>6, <2>2 DEF WaitInv, WaiterHolds
    <3>2. ctx'[d][k] = g
      BY <1>2, <1>5, <3>1, IOAssumption
    <3> QED
      BY <3>2
  <2> QED
    BY <2>1, <2>2
<1> QED
  BY <1>7, <1>8, <1>9 DEF WaitInv

(* removeEvent: the fiber that waited there no longer does.                *)
LEMMA RemoveWait ==
  ASSUME TypeInv, CtxMatchesEvents, WaitInv, NEW f \in Fibers, removeEvent(f)
  PROVE  WaitInv'
<1> DEFINE c == Found(f)
           e == call[f].event
<1>1. pc[f] = "found" /\ c \in Chan /\ e \in Event
  BY FoundChan DEF TypeInv, removeEvent, Doing
<1>2. \A d \in Chan, k \in Event : ctx'[d][k] = IF d = c /\ k = e THEN NoCtx ELSE ctx[d][k]
  <2>1. ctx' = [ctx EXCEPT ![c][e] = NoCtx]
    BY DEF removeEvent
  <2> HIDE DEF c, e
  <2> QED
    BY <1>1, <2>1 DEF TypeInv, TypeOK
<1>3. \A g \in Fibers : pc'[g] = IF g = f THEN "run"
                                 ELSE IF g = ctx[c][e] THEN "dropped" ELSE pc[g]
  BY DEF removeEvent
<1>4. \A d \in Chan, k \in Event : ctx[d][k] # f
  BY <1>1 DEF WaitInv, HolderWaits
<1> HIDE DEF c, e
<1>5. HolderWaits'
  BY <1>1, <1>2, <1>3, <1>4, IOAssumption DEF WaitInv, HolderWaits, OneHold
<1>6. OneHold'
  BY <1>2, IOAssumption DEF WaitInv, OneHold
<1>7. WaiterHolds'
  BY <1>1, <1>2, <1>3 DEF WaitInv, WaiterHolds
<1> QED
  BY <1>5, <1>6, <1>7 DEF WaitInv

(* handleEvent: whoever is taken out of an EventCtx is scheduled.          *)
LEMMA HandlingWait ==
  ASSUME TypeInv, WaitInv, NEW c \in Chan, NEW S \in SUBSET Event,
         NEW back \in SUBSET Fibers, \A g \in back : pc[g] # "waiting",
         Handling(c, S, back)
  PROVE  WaitInv'
<1>1. \A d \in Chan, k \in Event :
        ctx'[d][k] = IF d = c /\ k \in S \cap events[c] THEN NoCtx ELSE ctx[d][k]
  BY DEF Handling, handleEvents, TypeInv, TypeOK
<1>2. \A g \in Fibers :
        pc'[g] = IF g \in back \/ \E k \in S \cap events[c] : ctx[c][k] = g
                 THEN "run" ELSE pc[g]
  BY DEF Handling, handleEvents
<1>3. HolderWaits'
  <2> SUFFICES ASSUME NEW d \in Chan, NEW k \in Event, NEW g \in Fibers, ctx'[d][k] = g
               PROVE  pc'[g] = "waiting"
    BY DEF HolderWaits
  <2>1. ctx[d][k] = g /\ ~(d = c /\ k \in S \cap events[c])
    BY <1>1, IOAssumption
  <2>2. pc[g] = "waiting"
    BY <2>1 DEF WaitInv, HolderWaits
  <2>3. ~ \E j \in S \cap events[c] : ctx[c][j] = g
    BY <2>1 DEF WaitInv, OneHold
  <2> QED
    BY <1>2, <2>2, <2>3
<1>4. OneHold'
  BY <1>1, IOAssumption DEF WaitInv, OneHold
<1>5. WaiterHolds'
  <2> SUFFICES ASSUME NEW g \in Fibers, pc'[g] = "waiting"
               PROVE  \E d \in Chan, k \in Event : ctx'[d][k] = g
    BY DEF WaiterHolds
  <2>1. pc[g] = "waiting" /\ ~ \E k \in S \cap events[c] : ctx[c][k] = g
    BY <1>2
  <2>2. PICK d \in Chan, k \in Event : ctx[d][k] = g
    BY <2>1 DEF WaitInv, WaiterHolds
  <2>3. ctx'[d][k] = g
    BY <1>1, <2>1, <2>2
  <2> QED
    BY <2>3
<1> QED
  BY <1>3, <1>4, <1>5 DEF WaitInv

LEMMA WaitStep ==
  TypeInv /\ CtxMatchesEvents /\ WaitInv /\ [Next]_vars => WaitInv'
<1> SUFFICES ASSUME TypeInv, CtxMatchesEvents, WaitInv, [Next]_vars PROVE WaitInv'
  OBVIOUS
<1>1. CASE Quiet
  BY <1>1 DEF Quiet, channelVars, WaitInv, HolderWaits, OneHold, WaiterHolds
<1> QED
  BY <1>1, StepKinds, AddWait, RemoveWait, HandlingWait

LEMMA WaitInvRegistered == WaitInv => WaiterRegisteredOnce
<1> SUFFICES ASSUME WaitInv, NEW f \in Fibers
             PROVE  IF pc[f] = "waiting" THEN \E x \in Holds(f) : Holds(f) = {x}
                    ELSE Holds(f) = {}
  BY DEF WaiterRegisteredOnce
<1>1. CASE pc[f] = "waiting"
  <2>1. PICK c \in Chan, e \in Event : ctx[c][e] = f
    BY <1>1 DEF WaitInv, WaiterHolds
  <2>2. <<c, e>> \in Holds(f)
    BY <2>1 DEF Holds
  <2>3. \A x \in Holds(f) : x = <<c, e>>
    <3> SUFFICES ASSUME NEW x \in Holds(f) PROVE x = <<c, e>>
      OBVIOUS
    <3>1. /\ x[1] \in Chan /\ x[2] \in Event /\ ctx[x[1]][x[2]] = f
          /\ x = <<x[1], x[2]>>
      BY DEF Holds
    <3>2. x[1] = c /\ x[2] = e
      BY <2>1, <3>1 DEF WaitInv, OneHold
    <3> QED
      BY <3>1, <3>2
  <2>4. Holds(f) = {<<c, e>>}
    BY <2>2, <2>3
  <2> QED
    BY <1>1, <2>2, <2>4
<1>2. CASE pc[f] # "waiting"
  BY <1>2 DEF Holds, WaitInv, HolderWaits
<1> QED
  BY <1>1, <1>2

-----------------------------------------------------------------------------
(* pendingEventCount_ *)

(* Only finitely many events are registered at a time, so that they can be *)
(* counted.                                                                *)
PendingInv == IsFiniteSet(Registered) /\ PendingNeverOver

LEMMA PendingInit == Init => PendingInv
<1> SUFFICES ASSUME Init PROVE PendingInv
  OBVIOUS
<1>1. Registered = {}
  BY DEF Init, Registered
<1>2. IsFiniteSet({}) /\ Cardinality({}) = 0
  BY FS_EmptySet
<1>3. pending = 0
  BY DEF Init
<1> QED
  BY <1>1, <1>2, <1>3 DEF PendingInv, PendingNeverOver

LEMMA AddPending ==
  ASSUME TypeInv, PendingInv, NEW f \in Fibers, addEvent(f)
  PROVE  PendingInv'
<1> DEFINE c == Found(f)
           e == call[f].event
<1>1. c \in Chan /\ e \in Event
  BY FoundChan DEF TypeInv, addEvent, Doing
<1>2. /\ events' = [events EXCEPT ![c] = @ \cup {e}]
      /\ e \notin events[c]
      /\ pending' = pending + 1
  BY DEF addEvent
<1> HIDE DEF c, e
<1>3. <<c, e>> \notin Registered
  BY <1>2 DEF Registered
<1>4. Registered' = Registered \cup {<<c, e>>}
  BY <1>1, <1>2 DEF Registered, TypeInv, TypeOK
<1>5. IsFiniteSet(Registered') /\ Cardinality(Registered') = Cardinality(Registered) + 1
  BY <1>3, <1>4, FS_AddElement DEF PendingInv
<1>6. Cardinality(Registered) \in Nat /\ pending \in Int
  BY FS_CardinalityType DEF PendingInv, TypeInv, TypeOK
<1> QED
  BY <1>2, <1>5, <1>6 DEF PendingInv, PendingNeverOver

(* Taking S from the events of a channel takes no more than that many.     *)
LEMMA EventsTaken ==
  ASSUME TypeInv, PendingInv, NEW c \in Chan, NEW S \in SUBSET Event,
         events' = [events EXCEPT ![c] = @ \ S],
         pending' = pending - Cardinality(S)
  PROVE  PendingInv'
<1> DEFINE T == {c} \X S
<1>1. Registered' = Registered \ T
  BY DEF Registered, TypeInv, TypeOK
<1>2. /\ IsFiniteSet(S) /\ Cardinality(S) \in Nat
      /\ IsFiniteSet({c}) /\ Cardinality({c}) = 1
  BY EventsFinite, FS_Singleton
<1>3. IsFiniteSet(T) /\ Cardinality(T) = Cardinality({c}) * Cardinality(S)
  BY <1>2, FS_Product
<1>4. Cardinality(T) = Cardinality(S)
  BY <1>2, <1>3
<1> HIDE DEF T
<1>5. /\ IsFiniteSet(Registered \ T)
      /\ Cardinality(Registered \ T) = Cardinality(Registered) - Cardinality(Registered \cap T)
  BY FS_Difference DEF PendingInv
<1>6. Cardinality(Registered \cap T) <= Cardinality(T)
  BY <1>3, FS_Intersection
<1>7. /\ Cardinality(Registered) \in Nat /\ pending \in Int
      /\ Cardinality(Registered \cap T) \in Nat
  <2>1. IsFiniteSet(Registered \cap T)
    BY <1>3, FS_Intersection
  <2> QED
    BY <2>1, FS_CardinalityType DEF PendingInv, TypeInv, TypeOK
<1>8. pending <= Cardinality(Registered)
  BY DEF PendingInv, PendingNeverOver
<1>9. pending' <= Cardinality(Registered')
  BY <1>1, <1>2, <1>4, <1>5, <1>6, <1>7, <1>8
<1> QED
  BY <1>1, <1>5, <1>9 DEF PendingInv, PendingNeverOver

LEMMA PendingStep == TypeInv /\ PendingInv /\ [Next]_vars => PendingInv'
<1> SUFFICES ASSUME TypeInv, PendingInv, [Next]_vars PROVE PendingInv'
  OBVIOUS
<1>1. ASSUME NEW f \in Fibers, removeEvent(f) PROVE PendingInv'
  <2> DEFINE c == Found(f)
             e == call[f].event
  <2>1. c \in Chan /\ e \in Event
    BY <1>1, FoundChan DEF removeEvent, Doing, TypeInv
  <2>2. Cardinality({e}) = 1
    BY FS_Singleton
  <2>3. /\ events' = [events EXCEPT ![c] = @ \ {e}]
        /\ pending' = pending - 1
    BY <1>1 DEF removeEvent
  <2>4. {e} \in SUBSET Event
    BY <2>1
  <2> HIDE DEF c, e
  <2> QED
    BY <2>1, <2>2, <2>3, <2>4, EventsTaken
<1>2. ASSUME NEW c \in Chan, NEW S \in SUBSET Event, NEW back, Handling(c, S, back)
      PROVE  PendingInv'
  BY <1>2, EventsTaken DEF Handling, handleEvents
<1>3. CASE Quiet
  BY <1>3 DEF Quiet, channelVars, PendingInv, PendingNeverOver, Registered
<1> QED
  BY <1>1, <1>2, <1>3, StepKinds, AddPending

-----------------------------------------------------------------------------
(* What holds in every state *)

IOInv == TypeInv /\ CtxMatchesEvents /\ EpollInSync /\ WaitInv /\ PendingInv

LEMMA IOInvariant == Spec => []IOInv
<1>1. Init => IOInv
  BY TypeInit, CtxInit, EpollInit, WaitInit, PendingInit DEF IOInv
<1>2. IOInv /\ [Next]_vars => IOInv'
  BY TypeStep, CtxStep, EpollStep, WaitStep, PendingStep DEF IOInv
<1> QED
  BY <1>1, <1>2, PTL DEF Spec

(***************************************************************************)
(* Every variable keeps to its domain; in particular the Channel a fiber   *)
(* works on exists, although channels_ may have been resized between the   *)
(* look-up under lock_ and the work under channel->lock_, and the one a    *)
(* poller reads from data.ptr exists (IOManager.cc:96 and 333).            *)
(***************************************************************************)
THEOREM TypeCorrect == Spec => []TypeOK
  BY IOInvariant, PTL DEF IOInv, TypeInv

(***************************************************************************)
(* The assertions of addEvent (IOManager.cc:149) and handleEvent           *)
(* (Channel.cc:40) on an EventCtx hold, whatever the operations and the    *)
(* pollers do to a channel between the steps of one another.               *)
(***************************************************************************)
THEOREM CtxCorrect == Spec => []CtxMatchesEvents
  BY IOInvariant, PTL DEF IOInv

(***************************************************************************)
(* epoll asks for the events of the one Channel it points to and no other  *)
(* Channel of the descriptor waits, although channels_ may name another    *)
(* object: the choice of ADD, MOD or DEL in each operation sees to it.     *)
(***************************************************************************)
THEOREM EpollCorrect == Spec => []EpollInSync
  BY IOInvariant, PTL DEF IOInv

(***************************************************************************)
(* A fiber that yielded in addEvent is in one EventCtx, so cancelEvent,    *)
(* cancelAll and the report of a poller cannot both schedule it; and no    *)
(* fiber that runs is left in one.                                         *)
(***************************************************************************)
THEOREM WaiterCorrect == Spec => []WaiterRegisteredOnce
  BY IOInvariant, WaitInvRegistered, PTL DEF IOInv

(***************************************************************************)
(* pendingEventCount_ is at most the number of registered events: an event *)
(* that is gone never keeps canStop() from being true.                     *)
(***************************************************************************)
THEOREM PendingCorrect == Spec => []PendingNeverOver
  BY IOInvariant, PTL DEF IOInv, PendingInv
=============================================================================
