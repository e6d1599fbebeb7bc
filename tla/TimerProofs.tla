----------------------------- MODULE TimerProofs -----------------------------
(***************************************************************************)
(* Proofs about TimerManager, for every finite set of timers, every set of *)
(* pollers and intervals, and every bound.                                 *)
(***************************************************************************)
EXTENDS TimerManager, TLAPS

(***************************************************************************)
(* Where a timer may be: a public addTimer holds it (made) or its handle   *)
(* is out (born), never both, and nothing happens to it before that.       *)
(***************************************************************************)
Lifecycle ==
  /\ made \cap born = {}
  /\ timers \subseteq born
  /\ fired \subseteq born
  /\ cancelled \subseteq born
  /\ cb \subseteq made \cup born
  /\ made \subseteq cb
  /\ repeat \subseteq made \cup born

(* The inductive invariant of everything but the alarm. *)
LifeInv == TypeOK /\ Lifecycle /\ CbIffQueued /\ OneOutcome

(* LifeInv holds before the first timer is added. *)
LEMMA LifeInit == Init => LifeInv
  <1> SUFFICES ASSUME Init PROVE LifeInv OBVIOUS
  <1>1. pending \in BOOLEAN /\ crashed \in BOOLEAN /\ stale \in BOOLEAN
    BY Zenon DEF Init
  <1>2. TypeOK BY <1>1 DEF Init, TypeOK, PollerPc
  <1>3. Lifecycle /\ CbIffQueued /\ OneOutcome
    BY DEF Init, Lifecycle, CbIffQueued, OneOutcome
  <1> QED BY <1>2, <1>3 DEF LifeInv

(* Arming the fd gives it a positive deadline. *)
LEMMA ResetType ==
  ASSUME wall \in Nat, mono \in Nat, NEW when \in Int, resetTimerfd(when)
  PROVE  fdAt' \in Nat /\ pending' \in BOOLEAN /\ stale' \in BOOLEAN
  <1>1. fdAt' \in Nat BY DEF resetTimerfd, howMuchTimeFromNow
  <1>2. pending' \in BOOLEAN /\ stale' \in BOOLEAN BY Zenon DEF resetTimerfd
  <1> QED BY <1>1, <1>2

(* The protected addTimer keeps the types of what it writes. *)
LEMMA InsertType ==
  ASSUME TypeOK, NEW t \in Timers, NEW S \in SUBSET Timers,
         NEW ex \in [Timers -> Int], NEW moved \in BOOLEAN,
         insert(t, S, ex, moved)
  PROVE  /\ timers' \subseteq Timers /\ expiration' \in [Timers -> Int]
         /\ fdAt' \in Nat /\ pending' \in BOOLEAN /\ stale' \in BOOLEAN
  <1>1. CASE First(t, S, ex)
    <2>1. resetTimerfd(ex[t]) BY <1>1 DEF insert
    <2>2. fdAt' \in Nat /\ pending' \in BOOLEAN /\ stale' \in BOOLEAN
      BY <2>1, ResetType DEF TypeOK
    <2> QED BY <2>2 DEF insert
  <1>2. CASE ~First(t, S, ex)
    BY <1>2 DEF insert, TypeOK
  <1> QED BY <1>1, <1>2

(* Every action on a timer preserves LifeInv. *)
LEMMA LifeTimerStep ==
  ASSUME LifeInv, NEW t \in Timers, TimerStep(t)
  PROVE  LifeInv'
  <1> USE DEF LifeInv
  <1>1. ASSUME NEW iv \in Intervals, NEW rep \in BOOLEAN, Construct(t, iv, rep)
        PROVE LifeInv'
    <2> USE <1>1 DEF Construct, fdVars, pollVars, clockVars, historyVars
    <2>1. TypeOK' BY TimersAssumption DEF TypeOK
    <2>2. Lifecycle' BY DEF Lifecycle
    <2>3. CbIffQueued' BY DEF CbIffQueued, Lifecycle
    <2>4. OneOutcome' BY DEF OneOutcome, Lifecycle
    <2> QED BY <2>1, <2>2, <2>3, <2>4
  <1>2. ASSUME addTimer(t) PROVE LifeInv'
    <2> USE <1>2 DEF addTimer, pollVars, clockVars, historyVars
    <2>0. timers' = timers \cup {t} BY DEF insert
    <2>1. TypeOK' BY InsertType DEF TypeOK
    <2>2. Lifecycle' BY <2>0 DEF Lifecycle
    <2>3. CbIffQueued' BY <2>0 DEF CbIffQueued, Lifecycle
    <2>4. OneOutcome' BY <2>0 DEF OneOutcome, Lifecycle
    <2> QED BY <2>1, <2>2, <2>3, <2>4
  <1>3. ASSUME cancel(t) PROVE LifeInv'
    <2> USE <1>3 DEF cancel, pollVars, clockVars
    <2>0. First(t, timers, expiration) \in BOOLEAN BY DEF First, Before
    <2>1. TypeOK' BY <2>0 DEF TypeOK
    <2>2. Lifecycle' BY DEF Lifecycle
    <2>3. CbIffQueued' BY DEF CbIffQueued
    <2>4. OneOutcome' BY DEF OneOutcome, CbIffQueued
    <2> QED BY <2>1, <2>2, <2>3, <2>4
  <1>4. ASSUME refresh(t) PROVE LifeInv'
    <2> USE <1>4 DEF refresh, pollVars, clockVars, historyVars
    <2>0. First(t, timers, expiration) \in BOOLEAN BY DEF First, Before
    <2>1. TypeOK' BY <2>0 DEF TypeOK
    <2>2. Lifecycle' BY DEF Lifecycle
    <2>3. CbIffQueued' BY DEF CbIffQueued
    <2>4. OneOutcome' BY DEF OneOutcome
    <2> QED BY <2>1, <2>2, <2>3, <2>4
  <1>5. ASSUME NEW iv \in Intervals, NEW fromNow \in BOOLEAN, reset(t, iv, fromNow)
        PROVE LifeInv'
    <2> DEFINE start == IF fromNow THEN wall ELSE expiration[t] - interval[t]
               ex == [expiration EXCEPT ![t] = start + iv]
               moved == First(t, timers, expiration)
    <2> USE <1>5 DEF pollVars, clockVars, historyVars
    <2>0. /\ insert(t, timers \ {t}, ex, moved)
          /\ interval' = [interval EXCEPT ![t] = iv]
          /\ UNCHANGED <<cb, repeat, made, born, pollVars, clockVars, historyVars, crashed>>
          /\ t \in timers
      BY DEF reset
    <2>a. moved \in BOOLEAN BY DEF First, Before
    <2>b. ex \in [Timers -> Int] /\ interval' \in [Timers -> Nat]
      BY <2>0, TimersAssumption DEF TypeOK
    <2>c. timers \ {t} \in SUBSET Timers BY DEF TypeOK
    <2>d. timers' = timers BY <2>0 DEF insert
    <2> HIDE DEF ex, moved
    <2>e. /\ timers' \subseteq Timers /\ expiration' \in [Timers -> Int]
          /\ fdAt' \in Nat /\ pending' \in BOOLEAN /\ stale' \in BOOLEAN
      BY <2>0, <2>a, <2>b, <2>c, InsertType
    <2>1. TypeOK' BY <2>0, <2>b, <2>e DEF TypeOK
    <2>2. Lifecycle' BY <2>0, <2>d DEF Lifecycle
    <2>3. CbIffQueued' BY <2>0, <2>d DEF CbIffQueued
    <2>4. OneOutcome' BY <2>0, <2>d DEF OneOutcome
    <2> QED BY <2>1, <2>2, <2>3, <2>4
  <1> QED BY <1>1, <1>2, <1>3, <1>4, <1>5 DEF TimerStep

(* Every step of a poller preserves LifeInv. *)
LEMMA LifePollerStep ==
  ASSUME LifeInv, NEW p \in Pollers, PollerStep(p)
  PROVE  LifeInv'
  <1> USE DEF LifeInv, Goto, PollerPc
  <1>1. ASSUME epoll_wait(p) \/ ReadTimerfd(p) \/ Now(p) \/ Check(p)
               \/ ExpireNothing(p) \/ ExpireEmpty(p)
        PROVE LifeInv'
    <2> USE <1>1 DEF epoll_wait, ReadTimerfd, Now, Check, ExpireNothing, ExpireEmpty,
                     timerVars, fdVars, clockVars, historyVars
    <2>0. pending' \in BOOLEAN /\ crashed' \in BOOLEAN /\ stale' \in BOOLEAN
      BY Zenon DEF TypeOK
    <2>a. \E s \in PollerPc : pollerPc' = [pollerPc EXCEPT ![p] = s]
      BY Zenon
    <2>b. pollerPc' \in [Pollers -> PollerPc] BY <2>a, SMT DEF TypeOK
    <2>c. now' = now \/ now' = [now EXCEPT ![p] = wall] BY Zenon
    <2>d. previous' = previous \/ previous' = now[p] BY Zenon
    <2>e. now' \in [Pollers -> Nat] /\ previous' \in Nat
      BY <2>c, <2>d, SMT DEF TypeOK
    <2>1. TypeOK' BY <2>0, <2>b, <2>e, Zenon DEF TypeOK
    <2>2. Lifecycle' BY DEF Lifecycle
    <2>3. CbIffQueued' BY DEF CbIffQueued
    <2>4. OneOutcome' BY DEF OneOutcome
    <2> QED BY <2>1, <2>2, <2>3, <2>4
  <1>2. ASSUME Expire(p) PROVE LifeInv'
    <2> DEFINE due == Due(p)
               again == due \cap repeat
               left == (timers \ due) \cup again
               ex == [t \in Timers |-> IF t \in again THEN now[p] + interval[t]
                                       ELSE expiration[t]]
    <2>0. /\ timers' = left /\ expiration' = ex
          /\ cb' = cb \ (due \ repeat) /\ fired' = fired \cup due
          /\ previous' = now[p] /\ pollerPc' = [pollerPc EXCEPT ![p] = "wait"]
          /\ UNCHANGED <<repeat, interval, made, born, now, clockVars, cancelled, crashed>>
          /\ rearm(left, ex)
      BY <1>2 DEF Expire, releaseCallbacks
    <2>a. due \subseteq timers BY DEF Due
    <2>b. ex \in [Timers -> Int] BY DEF TypeOK
    <2>c. left \subseteq timers BY <2>a
    <2> HIDE DEF ex
    <2>d. fdAt' \in Nat /\ pending' \in BOOLEAN /\ stale' \in BOOLEAN
      <3>1. CASE left = {} /\ UNCHANGED fdVars BY <3>1 DEF fdVars, TypeOK
      <3>2. ASSUME NEW t \in left, resetTimerfd(ex[t])
            PROVE fdAt' \in Nat /\ pending' \in BOOLEAN /\ stale' \in BOOLEAN
        <4>1. ex[t] \in Int BY <2>b, <2>c, <3>2 DEF TypeOK
        <4> QED BY <3>2, <4>1, ResetType DEF TypeOK
      <3> QED BY <2>0, <3>1, <3>2 DEF rearm
    <2> HIDE DEF due
    <2>1. TypeOK' BY <2>0, <2>a, <2>b, <2>d DEF TypeOK, clockVars
    <2>2. Lifecycle' BY <2>0, <2>a DEF Lifecycle
    <2>3. CbIffQueued' BY <2>0, <2>a DEF CbIffQueued
    <2>4. OneOutcome' BY <2>0, <2>a DEF OneOutcome, Lifecycle
    <2> QED BY <2>1, <2>2, <2>3, <2>4
  <1> QED BY <1>1, <1>2 DEF PollerStep

(* Time passing, a clock being set and stuttering preserve LifeInv. *)
LEMMA LifeClockStep ==
  ASSUME LifeInv, Tick \/ StepClock \/ UNCHANGED vars
  PROVE  LifeInv'
  <1> USE DEF LifeInv, Tick, StepClock, vars, timerVars, fdVars, pollVars, clockVars, historyVars
  <1>0. pending' \in BOOLEAN /\ crashed' \in BOOLEAN /\ stale' \in BOOLEAN
    BY Zenon DEF TypeOK
  <1>a. wall' \in Nat /\ mono' \in Nat /\ clockSteps' \in Nat /\ fdAt' \in Nat
    BY TimersAssumption DEF TypeOK
  <1>1. TypeOK' BY <1>0, <1>a, Zenon DEF TypeOK
  <1>2. Lifecycle' BY DEF Lifecycle
  <1>3. CbIffQueued' BY DEF CbIffQueued
  <1>4. OneOutcome' BY DEF OneOutcome
  <1> QED BY <1>1, <1>2, <1>3, <1>4

(* LifeInv is an invariant. *)
THEOREM LifeInvariant == Spec => []LifeInv
  <1>1. LifeInv /\ [Next]_vars => LifeInv'
    BY LifeTimerStep, LifePollerStep, LifeClockStep DEF Next
  <1> QED BY LifeInit, <1>1, PTL DEF Spec
(* Every variable of the timer manager keeps to its domain. *)
THEOREM TimerTypeCorrect == Spec => []TypeOK
  BY LifeInvariant, PTL DEF LifeInv

(* cancel() always finds the timer it erases: cb_ is set iff it is queued. *)
THEOREM CallbackIffQueued == Spec => []CbIffQueued
  BY LifeInvariant, PTL DEF LifeInv

(* A one-shot timer fires or is cancelled, and only one of the two. *)
THEOREM OutcomeDecidedOnce == Spec => []OneOutcome
  BY LifeInvariant, PTL DEF LifeInv

(***************************************************************************)
(* A cancelled timer, or a one-shot one that has fired, never comes back.  *)
(***************************************************************************)
THEOREM DeadTimersStayDead == Spec => DeadStaysDead
  <1> DEFINE Dead == \A t \in born : t \notin timers => t \notin timers' /\ t \notin cb'
  <1>1. LifeInv /\ [Next]_vars => [Dead]_vars
    <2> SUFFICES ASSUME LifeInv, Next, NEW u \in born, u \notin timers
                 PROVE  u \notin timers' /\ u \notin cb'
      BY DEF LifeInv
    <2>0. u \notin cb /\ u \notin made
      BY DEF LifeInv, Lifecycle, CbIffQueued
    <2>1. ASSUME NEW t \in Timers, TimerStep(t)
          PROVE timers' \subseteq timers \cup {t} /\ cb' \subseteq cb \cup {t} /\ t # u
      BY <2>0, <2>1 DEF TimerStep, Construct, addTimer, cancel, refresh, reset, insert
    <2>2. ASSUME NEW p \in Pollers, PollerStep(p)
          PROVE timers' \subseteq timers /\ cb' \subseteq cb
      BY <2>2 DEF PollerStep, epoll_wait, ReadTimerfd, Now, Check, ExpireNothing,
                  ExpireEmpty, Expire, releaseCallbacks, Due, timerVars
    <2>3. ASSUME Tick \/ StepClock PROVE timers' = timers /\ cb' = cb
      BY <2>3 DEF Tick, StepClock, timerVars
    <2> QED BY <2>0, <2>1, <2>2, <2>3 DEF Next
  <1> QED BY LifeInvariant, <1>1, PTL DEF Spec, DeadStaysDead

-----------------------------------------------------------------------------
(* Some mechanism will wake a thread for the timers in timers_. *)
Cover == \/ timers = {} \/ ArmedInTime \/ Alarmed
         \/ \E p \in Pollers : AttendedBy(p)

(* Arming the fd for the first timer covers them all. *)
LEMMA ArmCovers ==
  ASSUME TypeOK, TypeOK', NEW t \in timers', First(t, timers', expiration'),
         resetTimerfd(expiration'[t]), UNCHANGED <<wall, mono>>
  PROVE  ArmedInTime'
  <1> DEFINE d == howMuchTimeFromNow(expiration'[t])
  <1>0. \A u \in timers' : expiration'[u] \in Int BY DEF TypeOK
  <1>1. /\ d \in Nat /\ d >= 1 /\ expiration'[t] - wall <= d
        /\ d = expiration'[t] - wall \/ d = 1
    BY <1>0 DEF howMuchTimeFromNow, TypeOK
  <1>2. fdAt' = mono + d BY DEF resetTimerfd
  <1> HIDE DEF d
  <1>3. \A u \in timers' : expiration'[t] <= expiration'[u]
    BY <1>0 DEF First, Before
  <1>4. fdAt' - mono' = d /\ fdAt' > mono' BY <1>1, <1>2 DEF TypeOK
  <1>5. wall \in Int /\ wall' = wall BY DEF TypeOK
  <1>6. \A u \in timers' : d <= expiration'[u] - wall' \/ d = 1
    BY <1>0, <1>1, <1>3, <1>5
  <1> QED BY <1>1, <1>4, <1>5, <1>6 DEF ArmedInTime

(***************************************************************************)
(* A change of timers_ or of an expiration that leaves the fd, the pollers *)
(* and the clocks alone keeps the cover if the old and the new timers      *)
(* bound each other: for each old one there is a new one not later, and    *)
(* for each new one there was an old one not later.                        *)
(***************************************************************************)
LEMMA DominatedCovers ==
  ASSUME TypeOK, TypeOK', Cover,
         UNCHANGED <<fdAt, pending, wall, mono, pollerPc, now>>,
         \A u \in timers : \E v \in timers' : expiration'[v] <= expiration[u],
         \A v \in timers' : \E u \in timers : expiration[u] <= expiration'[v]
  PROVE  Cover'
  <1>0. /\ \A u \in timers : expiration[u] \in Int
        /\ \A u \in timers' : expiration'[u] \in Int
        /\ wall \in Int /\ mono \in Int /\ fdAt \in Int
        /\ \A p \in Pollers : now[p] \in Int
    BY DEF TypeOK
  <1>1. CASE timers = {} BY <1>1 DEF Cover
  <1>2. CASE ArmedInTime
    <2>1. \E v \in timers' : expiration'[v] - wall <= fdAt - mono
      BY <1>0, <1>2 DEF ArmedInTime
    <2>2. \A v \in timers' : fdAt - mono <= expiration'[v] - wall \/ fdAt - mono = 1
      BY <1>0, <1>2 DEF ArmedInTime
    <2> QED BY <2>1, <2>2, <1>2 DEF ArmedInTime, Cover
  <1>3. CASE Alarmed
    <2>1. \E v \in timers' : expiration'[v] <= wall BY <1>0, <1>3 DEF Alarmed
    <2> QED BY <2>1, <1>3 DEF Alarmed, Cover
  <1>4. ASSUME NEW p \in Pollers, AttendedBy(p) PROVE Cover'
    <2>1. \A c \in Int : (\E u \in timers : expiration[u] <= c)
                           => \E v \in timers' : expiration'[v] <= c
      BY <1>0
    <2>2. AttendedBy(p)' BY <1>0, <1>4, <2>1 DEF AttendedBy
    <2> QED BY <2>2 DEF Cover
  <1> QED BY <1>1, <1>2, <1>3, <1>4 DEF Cover

(* A timer that is not first has another one not later than it. *)
LEMMA NotFirst ==
  ASSUME NEW S \in SUBSET Timers, NEW ex \in [Timers -> Int],
         NEW t \in Timers, ~First(t, S, ex)
  PROVE  \E u \in S \ {t} : ex[u] <= ex[t]
  <1>1. PICK u \in S \ {t} : ~Before(t, u, ex) BY DEF First
  <1>2. ex[u] \in Int /\ ex[t] \in Int OBVIOUS
  <1> QED BY <1>1, <1>2 DEF Before

(* Covered survives every action on a timer. *)
LEMMA CoverTimerStep ==
  ASSUME LifeInv, LifeInv', Covered, NEW t \in Timers, TimerStep(t)
  PROVE  Covered'
  <1> SUFFICES ASSUME ~stale' PROVE Cover'
    BY DEF Covered, Cover
  <1>0. /\ TypeOK /\ TypeOK' /\ timers \subseteq born
        /\ \A u \in Timers : expiration[u] \in Int /\ expiration'[u] \in Int
        /\ ~stale => Cover
    BY DEF LifeInv, Lifecycle, TypeOK, Covered, Cover
  <1>1. ASSUME NEW iv \in Intervals, NEW rep \in BOOLEAN, Construct(t, iv, rep)
        PROVE Cover'
    <2>1. /\ UNCHANGED <<timers, fdAt, pending, wall, mono, pollerPc, now>>
          /\ ~stale
      BY <1>1 DEF Construct, fdVars, clockVars, pollVars
    <2>2. \A u \in timers : expiration'[u] = expiration[u]
      BY <1>0, <1>1 DEF Construct, TypeOK
    <2>3. \A u \in timers : expiration'[u] <= expiration[u] /\ expiration[u] <= expiration'[u]
      BY <1>0, <2>2 DEF TypeOK
    <2> QED BY <1>0, <2>1, <2>3, DominatedCovers
  <1>2. ASSUME addTimer(t) PROVE Cover'
    <2>0. /\ timers' = timers \cup {t} /\ expiration' = expiration
          /\ insert(t, timers, expiration, FALSE)
          /\ UNCHANGED <<wall, mono, pollerPc, now>>
      BY <1>2 DEF addTimer, insert, clockVars, pollVars
    <2>1. CASE First(t, timers, expiration)
      <3>1. resetTimerfd(expiration'[t]) BY <2>0, <2>1 DEF insert
      <3>2. First(t, timers', expiration') BY <2>0, <2>1 DEF First
      <3> QED BY <1>0, <2>0, <3>1, <3>2, ArmCovers DEF Cover
    <2>2. CASE ~First(t, timers, expiration)
      <3>1. UNCHANGED <<fdAt, pending>> /\ ~stale BY <2>0, <2>2 DEF insert
      <3>2. PICK u \in timers \ {t} : expiration[u] <= expiration[t]
        BY <1>0, <2>2, NotFirst DEF TypeOK
      <3>3. \A v \in timers : expiration'[v] <= expiration[v]
        BY <1>0, <2>0 DEF TypeOK
      <3>4. \A v \in timers' : \E w \in timers : expiration[w] <= expiration'[v]
        BY <1>0, <2>0, <3>2 DEF TypeOK
      <3> QED BY <1>0, <2>0, <3>1, <3>3, <3>4, DominatedCovers
    <2> QED BY <2>1, <2>2
  <1>3. ASSUME cancel(t) PROVE Cover'
    <2>1. /\ timers' = timers \ {t} /\ expiration' = expiration
          /\ UNCHANGED <<fdAt, pending, wall, mono, pollerPc, now>>
          /\ ~stale /\ ~First(t, timers, expiration)
      BY <1>3 DEF cancel, clockVars, pollVars
    <2>2. PICK u \in timers \ {t} : expiration[u] <= expiration[t]
      BY <1>0, <2>1, NotFirst DEF TypeOK
    <2>3. \A v \in timers : \E w \in timers' : expiration'[w] <= expiration[v]
      BY <1>0, <2>1, <2>2 DEF TypeOK
    <2>4. \A v \in timers' : \E w \in timers : expiration[w] <= expiration'[v]
      BY <1>0, <2>1 DEF TypeOK
    <2> QED BY <1>0, <2>1, <2>3, <2>4, DominatedCovers
  <1>4. ASSUME refresh(t) PROVE Cover'
    <2>1. /\ timers' = timers /\ t \in timers
          /\ expiration' = [expiration EXCEPT ![t] = wall + interval[t]]
          /\ ~(wall + interval[t] < expiration[t])
          /\ UNCHANGED <<fdAt, pending, wall, mono, pollerPc, now>>
          /\ ~stale /\ ~First(t, timers, expiration)
      BY <1>4 DEF refresh, clockVars, pollVars
    <2>2. PICK u \in timers \ {t} : expiration[u] <= expiration[t]
      BY <1>0, <2>1, NotFirst DEF TypeOK
    <2>3. /\ \A v \in timers \ {t} : expiration'[v] = expiration[v]
          /\ expiration[t] <= expiration'[t]
      BY <1>0, <2>1 DEF TypeOK
    <2>4. \A v \in timers : \E w \in timers' : expiration'[w] <= expiration[v]
      BY <1>0, <2>1, <2>2, <2>3 DEF TypeOK
    <2>5. \A v \in timers' : \E w \in timers : expiration[w] <= expiration'[v]
      BY <1>0, <2>1, <2>3 DEF TypeOK
    <2> QED BY <1>0, <2>1, <2>4, <2>5, DominatedCovers
  <1>5. ASSUME NEW iv \in Intervals, NEW fromNow \in BOOLEAN, reset(t, iv, fromNow)
        PROVE Cover'
    <2> DEFINE S == timers \ {t}
               moved == First(t, timers, expiration)
    <2>0. /\ insert(t, S, expiration', moved) /\ t \in timers /\ timers' = timers
          /\ \A v \in timers \ {t} : expiration'[v] = expiration[v]
          /\ UNCHANGED <<wall, mono, pollerPc, now>>
      BY <1>5, <1>0 DEF reset, insert, clockVars, pollVars, TypeOK
    <2>1. CASE First(t, S, expiration')
      <3>1. resetTimerfd(expiration'[t]) BY <2>0, <2>1 DEF insert
      <3>2. First(t, timers', expiration') BY <2>0, <2>1 DEF First
      <3> QED BY <1>0, <2>0, <3>1, <3>2, ArmCovers DEF Cover
    <2>2. CASE ~First(t, S, expiration')
      <3>1. UNCHANGED <<fdAt, pending>> /\ ~stale /\ ~moved BY <2>0, <2>2 DEF insert
      <3>2. PICK u \in timers \ {t} : expiration[u] <= expiration[t]
        BY <1>0, <3>1, NotFirst DEF TypeOK
      <3>3. PICK x \in S \ {t} : expiration'[x] <= expiration'[t]
        BY <1>0, <2>2, NotFirst DEF TypeOK
      <3>4. \A v \in timers : \E w \in timers' : expiration'[w] <= expiration[v]
        BY <1>0, <2>0, <3>2 DEF TypeOK
      <3>5. \A v \in timers' : \E w \in timers : expiration[w] <= expiration'[v]
        BY <1>0, <2>0, <3>3 DEF TypeOK
      <3> QED BY <1>0, <2>0, <3>1, <3>4, <3>5, DominatedCovers
    <2> QED BY <2>1, <2>2
  <1> QED BY <1>1, <1>2, <1>3, <1>4, <1>5 DEF TimerStep

(* Covered survives every step of a poller. *)
LEMMA CoverPollerStep ==
  ASSUME LifeInv, LifeInv', Covered, NEW p \in Pollers, PollerStep(p)
  PROVE  Covered'
  <1> SUFFICES ASSUME ~stale' PROVE Cover'
    BY DEF Covered, Cover
  <1>0. TypeOK /\ TypeOK' /\ (~stale => Cover)
    BY DEF LifeInv, Covered, Cover
  <1>1. ASSUME epoll_wait(p) \/ ReadTimerfd(p) \/ Now(p) \/ Check(p) \/ ExpireNothing(p)
        PROVE Cover'
    <2>0. /\ UNCHANGED <<timers, expiration, fdAt, wall, mono>> /\ ~stale
          /\ \A q \in Pollers \ {p} : pollerPc'[q] = pollerPc[q] /\ now'[q] = now[q]
      BY <1>0, <1>1 DEF epoll_wait, ReadTimerfd, Now, Check, ExpireNothing, Goto,
                        timerVars, fdVars, clockVars, TypeOK
    <2>1. CASE timers = {} \/ ArmedInTime
      BY <2>0, <2>1 DEF Cover, ArmedInTime
    <2>2. CASE Alarmed
      <3>1. pending' \/ pollerPc'[p] \in {"read", "now"}
        BY <1>0, <1>1, <2>2 DEF epoll_wait, ReadTimerfd, Now, Check, ExpireNothing, Goto,
                                fdVars, Alarmed, TypeOK
      <3>2. Alarmed' \/ AttendedBy(p)' BY <2>0, <2>2, <3>1 DEF Alarmed, AttendedBy
      <3> QED BY <3>2 DEF Cover
    <2>3. ASSUME NEW q \in Pollers \ {p}, AttendedBy(q) PROVE Cover'
      <3>1. AttendedBy(q)' BY <2>0, <2>3 DEF AttendedBy
      <3> QED BY <3>1 DEF Cover
    <2>4. CASE AttendedBy(p)
      <3>1. CASE epoll_wait(p)
        BY <2>4, <3>1 DEF AttendedBy, epoll_wait, Goto
      <3>2. CASE ReadTimerfd(p)
        <4>1. AttendedBy(p)'
          BY <1>0, <2>0, <2>4, <3>2 DEF AttendedBy, ReadTimerfd, Goto, TypeOK
        <4> QED BY <4>1 DEF Cover
      <3>3. CASE Now(p)
        <4>1. AttendedBy(p)'
          BY <1>0, <2>0, <2>4, <3>3 DEF AttendedBy, Now, Goto, TypeOK
        <4> QED BY <4>1 DEF Cover
      <3>4. CASE Check(p)
        <4>1. AttendedBy(p)'
          BY <1>0, <2>0, <2>4, <3>4 DEF AttendedBy, Check, Goto, TypeOK
        <4> QED BY <4>1 DEF Cover
      <3>5. CASE ExpireNothing(p)
        BY <2>4, <3>5 DEF AttendedBy, ExpireNothing, Goto, Due
      <3> QED BY <1>1, <3>1, <3>2, <3>3, <3>4, <3>5
    <2> QED BY <1>0, <2>0, <2>1, <2>2, <2>3, <2>4 DEF Cover
  <1>2. CASE ExpireEmpty(p)
    BY <1>2 DEF ExpireEmpty, timerVars, Cover
  <1>3. CASE Expire(p)
    <2>1. rearm(timers', expiration') /\ UNCHANGED <<wall, mono>>
      BY <1>3 DEF Expire, clockVars
    <2>2. CASE timers' = {} BY <2>2 DEF Cover
    <2>3. ASSUME NEW t \in timers', First(t, timers', expiration'),
                 resetTimerfd(expiration'[t])
          PROVE Cover'
      BY <1>0, <2>1, <2>3, ArmCovers DEF Cover
    <2> QED BY <2>1, <2>2, <2>3 DEF rearm
  <1> QED BY <1>1, <1>2, <1>3 DEF PollerStep

(* Covered survives the passing of time: when the fd expires, a timer is due. *)
LEMMA CoverTick ==
  ASSUME TypeOK, Covered, Tick
  PROVE  Covered'
  <1> SUFFICES ASSUME ~stale' PROVE Cover'
    BY DEF Covered, Cover
  <1>0. /\ UNCHANGED <<timers, expiration, pollerPc, now>> /\ Cover
        /\ wall' = wall + 1 /\ mono' = mono + 1
        /\ wall \in Nat /\ mono \in Nat /\ fdAt \in Nat
        /\ \A t \in timers : expiration[t] \in Int
    BY DEF Tick, timerVars, pollVars, Covered, Cover, TypeOK
  <1>1. CASE timers = {} BY <1>0, <1>1 DEF Cover
  <1>2. CASE ArmedInTime /\ fdAt = mono + 1
    <2>1. \E t \in timers : expiration[t] <= wall + 1 BY <1>0, <1>2 DEF ArmedInTime
    <2>2. pending' BY <1>2 DEF Tick
    <2> QED BY <1>0, <2>1, <2>2 DEF Cover, Alarmed
  <1>3. CASE ArmedInTime /\ fdAt # mono + 1
    <2>1. fdAt' = fdAt BY <1>3 DEF Tick
    <2>2. fdAt > mono + 1 BY <1>0, <1>3 DEF ArmedInTime
    <2>3. \E t \in timers : expiration[t] - (wall + 1) <= fdAt - (mono + 1)
      BY <1>0, <1>3 DEF ArmedInTime
    <2>4. \A t \in timers : fdAt - (mono + 1) <= expiration[t] - (wall + 1)
      BY <1>0, <2>2, <1>3 DEF ArmedInTime
    <2> QED BY <1>0, <2>1, <2>2, <2>3, <2>4 DEF Cover, ArmedInTime
  <1>4. CASE Alarmed
    <2>1. \E t \in timers : expiration[t] <= wall + 1 BY <1>0, <1>4 DEF Alarmed
    <2>2. pending' BY <1>4, Zenon DEF Tick, Alarmed
    <2> QED BY <1>0, <2>1, <2>2 DEF Cover, Alarmed
  <1>5. ASSUME NEW p \in Pollers, AttendedBy(p) PROVE Cover'
    <2>1. AttendedBy(p)' BY <1>0, <1>5 DEF AttendedBy
    <2> QED BY <2>1 DEF Cover
  <1> QED BY <1>0, <1>1, <1>2, <1>3, <1>4, <1>5 DEF Cover

(***************************************************************************)
(* Unless the front of timers_ was removed or moved back, or the clock was *)
(* set, since the timerfd was last armed, no timer is ever forgotten.      *)
(***************************************************************************)
THEOREM TimersCovered == Spec => []Covered
  <1>1. Init => Covered BY DEF Init, Covered
  <1>2. LifeInv /\ LifeInv' /\ Covered /\ [Next]_vars => Covered'
    <2> SUFFICES ASSUME LifeInv, LifeInv', Covered, [Next]_vars PROVE Covered'
      OBVIOUS
    <2>1. CASE StepClock BY <2>1 DEF StepClock, Covered
    <2>2. CASE UNCHANGED vars
      BY <2>2 DEF vars, timerVars, fdVars, pollVars, clockVars, Covered, ArmedInTime,
                  Alarmed, AttendedBy
    <2> QED
      BY <2>1, <2>2, CoverTimerStep, CoverPollerStep, CoverTick DEF Next, LifeInv
  <1> QED BY LifeInvariant, <1>1, <1>2, PTL DEF Spec
=============================================================================
