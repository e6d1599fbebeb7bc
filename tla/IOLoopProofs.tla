---------------------------- MODULE IOLoopProofs ----------------------------
(***************************************************************************)
(* Proofs about the loop of the IOManager, for every set of pool threads,  *)
(* every set of jobs and every number of waits.                            *)
(***************************************************************************)
EXTENDS IOLoop, SequenceFacts

-----------------------------------------------------------------------------
(* Where a thread is *)

InFiber(t) ==
  \/ pc[t] \in {"body", "armed", "leave"}
  \/ pc[t] = "weakup" /\ next[t] = "body"

InIdle(t) ==
  \/ pc[t] \in {"hasTimer", "pending", "canStop", "epoll_wait", "expired",
               "handled", "yield"}
  \/ pc[t] = "weakup" /\ next[t] # "body"

(***************************************************************************)
(* The control of run() and idle(): what is known from where a thread is.  *)
(* A thread whose idle fiber has finished only leaves, and it finished     *)
(* after running_ was reset, when the client schedules no more.            *)
(***************************************************************************)
PcInv ==
  /\ pc \in [pool -> {"take", "took", "exited", "body", "armed", "leave", "hasTimer",
                      "pending", "canStop", "epoll_wait", "expired", "handled",
                      "yield", "weakup"}]
  /\ next \in [pool -> {"take", "body", "yield", "handled"}]
  /\ missed \in BOOLEAN
  /\ \A t \in pool :
       /\ pc[t] = "weakup" => next[t] # "take"
       /\ due[t] # <<>> => pc[t] = "expired"
       /\ InFiber(t) => cur[t] # NoJob
       /\ pc[t] = "exited" => idleDone[t]
       /\ idleDone[t] => ~running /\ pc[t] \in {"yield", "take", "took", "exited"}
  /\ owner \in {"client", "weakup"} => running

(* TypeOK without its counters. *)
DataOK ==
  /\ pool \in Pools
  /\ running \in BOOLEAN
  /\ tasks \in Seq(Jobs)
  /\ state \in [Jobs -> {"UNUSED", "INIT", "EXEC", "HOLD", "TERM", "DROPPED"}]
  /\ armed \in [Jobs -> {"nothing", "event", "timer"}]
  /\ waits \in [Jobs -> 0..MaxWaits]
  /\ ready \subseteq {"pipe", "timerfd"} \cup Jobs
  /\ cur \in [pool -> Jobs \cup {NoJob}]
  /\ due \in [pool -> Seq(Jobs)]
  /\ idleDone \in [pool -> BOOLEAN]

DataInv == DataOK /\ PcInv

LEMMA DataInit == Init => DataInv
<1> SUFFICES ASSUME Init PROVE DataInv
  OBVIOUS
<1>1. DataOK
  BY IOLoopAssumption DEF Init, DataOK
<1>2. PcInv
  BY DEF Init, PcInv, InFiber
<1> QED
  BY <1>1, <1>2 DEF DataInv

(* The first task that may be taken is one of the tasks. *)
LEMMA FirstTakeable ==
  ASSUME tasks \in Seq(Jobs), Takeable # {}
  PROVE  First \in Takeable /\ First \in DOMAIN tasks
<1>1. Takeable \in SUBSET Nat /\ Takeable \subseteq DOMAIN tasks
  BY DEF Takeable
<1>2. \E i \in Takeable : \A k \in Takeable : i <= k
  BY <1>1, LeastElement
<1> QED
  BY <1>1, <1>2 DEF First
(* The callbacks that are due, in a sequence. *)
LEMMA TimersSeq ==
  ASSUME NEW js \in SUBSET Timers
  PROVE  /\ SetToSeq(js) \in Seq(Jobs)
         /\ IsInjective(SetToSeq(js)) /\ Range(SetToSeq(js)) = js
<1>1. js \subseteq Jobs /\ IsFiniteSet(js)
  BY IOLoopAssumption, FS_Subset DEF Timers
<1> QED
  BY <1>1, SetToSeqFacts

LEMMA RunData ==
  ASSUME DataInv, NEW t \in pool, run(t)
  PROVE  DataInv'
<1> USE DEF DataInv, DataOK, PcInv, InFiber, Goto
<1>1. CASE take(t)
  <2>1. CASE Takeable = {}
    BY ZenonT(60), <1>1, <2>1 DEF take
  <2>2. CASE Takeable # {}
    <3>1. First \in DOMAIN tasks /\ tasks[First] \in Jobs
      BY <2>2, FirstTakeable
    <3>2. RemoveAt(tasks, First) \in Seq(Jobs)
      BY <3>1, EraseFacts
    <3> QED
      BY ZenonT(60), <1>1, <2>2, <3>1, <3>2 DEF take
  <2> QED
    BY <2>1, <2>2
<1>2. CASE Break(t)
  BY <1>2 DEF Break
<1>3. CASE EnterIdle(t)
  BY <1>3 DEF EnterIdle
<1>4. CASE LeaveIdle(t)
  BY <1>4 DEF LeaveIdle
<1>5. CASE handleFiber(t)
  BY <1>5 DEF handleFiber
<1>6. CASE LeaveFiber(t)
  BY <1>6 DEF LeaveFiber
<1>7. CASE hasTimer(t)
  BY <1>7 DEF hasTimer
<1>8. CASE pendingEvents(t)
  BY <1>8 DEF pendingEvents
<1>9. CASE canStop(t)
  BY <1>9 DEF canStop
<1>10. CASE WaitPipe(t)
  BY <1>10 DEF WaitPipe
<1>11. CASE WaitTimer(t)
  <2>1. CASE Timers = {}
    BY <1>11, <2>1 DEF WaitTimer
  <2>2. CASE Timers # {}
    <3>1. PICK js \in SUBSET Timers \ {{}} :
            /\ armed' = [j \in Jobs |-> IF j \in js THEN "nothing" ELSE armed[j]]
            /\ due' = [due EXCEPT ![t] = SetToSeq(js)]
      BY <1>11, <2>2 DEF WaitTimer
    <3>2. SetToSeq(js) \in Seq(Jobs)
      BY TimersSeq
    <3>3. armed' \in [Jobs -> {"nothing", "event", "timer"}] /\ due' \in [pool -> Seq(Jobs)]
      BY <3>1, <3>2
    <3>4. \A u \in pool : u # t => due'[u] = due[u]
      BY <3>1
    <3>5. /\ ready' = ready \ {"timerfd"}
          /\ Goto(t, "epoll_wait", "expired")
          /\ UNCHANGED <<pool, running, tasks, state, waits, pending, idle, active,
                         cur, next, idleDone, owner, wakes, missed>>
      BY <1>11, <2>2 DEF WaitTimer
    <3>6. DataOK'
      BY <3>3, <3>5
    <3>7. PcInv'
      BY <3>4, <3>5
    <3> QED
      BY <3>6, <3>7
  <2> QED
    BY <2>1, <2>2
<1>12. CASE Expired(t)
  <2>1. tasks \o due[t] \in Seq(Jobs)
    BY ConcatFacts
  <2>2. <<>> \in Seq(Jobs)
    OBVIOUS
  <2> QED
    BY ZenonT(60), <1>12, <2>1, <2>2 DEF Expired, Push
<1>13. CASE WaitEvent(t)
  <2>1. PICK j \in Jobs \cap ready :
          /\ Goto(t, "epoll_wait", IF tasks = <<>> THEN "weakup" ELSE "handled")
          /\ ready' = ready \ {j}
          /\ armed' = [armed EXCEPT ![j] = "nothing"]
          /\ Push(<<j>>)
          /\ next' = [next EXCEPT ![t] = IF tasks = <<>> THEN "handled" ELSE "take"]
          /\ UNCHANGED <<pool, running, state, waits, pending, idle, active, cur,
                         due, idleDone, owner, wakes>>
    BY <1>13 DEF WaitEvent
  <2>2. tasks \o <<j>> \in Seq(Jobs)
    BY ConcatFacts
  <2> QED
    BY ZenonT(60), <2>1, <2>2 DEF Push
<1>14. CASE Handled(t)
  BY <1>14 DEF Handled
<1>15. CASE ThreadWeakup(t)
  BY <1>15 DEF ThreadWeakup, weakup
<1>16. CASE ArmEvent(t)
  <2>1. cur[t] \in Jobs
    BY <1>16 DEF ArmEvent
  <2>2. waits' \in [Jobs -> 0..MaxWaits]
    BY <1>16, <2>1, IOLoopAssumption DEF ArmEvent
  <2>3. armed' \in [Jobs -> {"nothing", "event", "timer"}]
    BY <1>16 DEF ArmEvent
  <2> QED
    BY <1>16, <2>2, <2>3 DEF ArmEvent
<1>17. CASE ArmTimer(t)
  <2>1. cur[t] \in Jobs
    BY <1>17 DEF ArmTimer
  <2>2. waits' \in [Jobs -> 0..MaxWaits]
    BY <1>17, <2>1, IOLoopAssumption DEF ArmTimer
  <2>3. armed' \in [Jobs -> {"nothing", "event", "timer"}]
    BY <1>17 DEF ArmTimer
  <2> QED
    BY <1>17, <2>2, <2>3 DEF ArmTimer
<1>18. CASE YieldToHold(t)
  BY <1>18 DEF YieldToHold
<1>19. CASE BodySchedule(t)
  <2>1. PICK j \in Jobs :
          /\ state' = [state EXCEPT ![j] = "INIT"]
          /\ Goto(t, "body", IF tasks = <<>> THEN "weakup" ELSE "body")
          /\ Push(<<j>>)
          /\ next' = [next EXCEPT ![t] = IF tasks = <<>> THEN "body" ELSE "take"]
          /\ UNCHANGED <<pool, running, armed, waits, pending, ready, idle, active,
                         cur, due, idleDone, owner, wakes>>
    BY <1>19 DEF BodySchedule
  <2>2. tasks \o <<j>> \in Seq(Jobs)
    BY ConcatFacts
  <2> QED
    BY ZenonT(60), <2>1, <2>2 DEF Push
<1>20. CASE MainFunc(t)
  BY <1>20 DEF MainFunc
<1> QED
  BY <1>1, <1>2, <1>3, <1>4, <1>5, <1>6, <1>7, <1>8, <1>9, <1>10, <1>11, <1>12, <1>13,
     <1>14, <1>15, <1>16, <1>17, <1>18, <1>19, <1>20 DEF run

LEMMA DataStep == DataInv /\ [Next]_vars => DataInv'
<1> SUFFICES ASSUME DataInv, [Next]_vars PROVE DataInv'
  OBVIOUS
<1>1. ASSUME NEW t \in pool, run(t) PROVE DataInv'
  BY <1>1, RunData
<1> USE DEF DataInv, DataOK, PcInv, InFiber
<1>2. ASSUME NEW j \in Jobs, Submit(j) PROVE DataInv'
  <2>1. tasks \o <<j>> \in Seq(Jobs)
    BY ConcatFacts
  <2>2. DataOK'
    BY <1>2, <2>1 DEF Submit, Push
  <2>3. PcInv'
    BY <1>2 DEF Submit, Push
  <2> QED
    BY <2>2, <2>3
<1>3. CASE stop
  BY <1>3 DEF stop
<1>4. CASE SubmitWeakup
  BY <1>4 DEF SubmitWeakup, weakup
<1>5. CASE StopWeakup
  BY <1>5 DEF StopWeakup, weakup
<1>6. CASE Join
  BY <1>6 DEF Join
<1>7. ASSUME NEW j \in Jobs, Happen(j) PROVE DataInv'
  BY <1>7 DEF Happen
<1>8. CASE Tick
  BY <1>8 DEF Tick
<1>9. CASE UNCHANGED vars
  BY <1>9 DEF vars
<1> QED
  BY <1>1, <1>2, <1>3, <1>4, <1>5, <1>6, <1>7, <1>8, <1>9 DEF Next, Stopping

-----------------------------------------------------------------------------
(* The counters *)

Active == {t \in pool : InFiber(t)}
Idling == {t \in pool : InIdle(t)}

(* activeThreadNums_ and idleThreadNums_. *)
CountInv == active = Cardinality(Active) /\ idle = Cardinality(Idling)

LEMMA PoolCount ==
  ASSUME DataInv, NEW S \in SUBSET pool, NEW t \in pool
  PROVE  /\ IsFiniteSet(S) /\ Cardinality(S) \in Nat
         /\ Cardinality(S) = 0 <=> S = {}
         /\ t \notin S => Cardinality(S \cup {t}) = Cardinality(S) + 1
         /\ t \in S => Cardinality(S \ {t}) = Cardinality(S) - 1
<1>1. IsFiniteSet(pool)
  BY IOLoopAssumption DEF DataInv, DataOK
<1>2. IsFiniteSet(S)
  BY <1>1, FS_Subset
<1> QED
  BY <1>2, FS_CardinalityType, FS_EmptySet, FS_AddElement, FS_RemoveElement

LEMMA CountInit == Init => CountInv
<1> SUFFICES ASSUME Init PROVE CountInv
  OBVIOUS
<1>1. Active = {} /\ Idling = {}
  BY DEF Init, Active, Idling, InFiber, InIdle
<1> QED
  BY <1>1, FS_EmptySet DEF Init, CountInv

(* The step is not one into run()'s two calls of handleFiber, or out of them. *)
CountKept ==
  /\ UNCHANGED <<pool, active, idle>>
  /\ \A u \in pool : (InFiber(u)' <=> InFiber(u)) /\ (InIdle(u)' <=> InIdle(u))

LEMMA KeptCount ==
  ASSUME CountInv, CountKept
  PROVE  CountInv'
<1>1. Active' = Active /\ Idling' = Idling
  BY DEF CountKept, Active, Idling
<1> QED
  BY <1>1 DEF CountInv, CountKept

LEMMA RunKeeps ==
  ASSUME DataInv, NEW t \in pool, run(t)
  PROVE  CountKept \/ EnterIdle(t) \/ LeaveIdle(t) \/ handleFiber(t) \/ LeaveFiber(t)
<1> USE DEF DataInv, DataOK, PcInv, InFiber, InIdle, Goto, CountKept
<1>1. CASE take(t)
  BY <1>1 DEF take
<1>2. CASE Break(t)
  BY <1>2 DEF Break
<1>3. CASE hasTimer(t)
  BY <1>3 DEF hasTimer
<1>4. CASE pendingEvents(t)
  BY <1>4 DEF pendingEvents
<1>5. CASE canStop(t)
  BY <1>5 DEF canStop
<1>6. CASE WaitPipe(t)
  BY <1>6 DEF WaitPipe
<1>7. CASE WaitTimer(t)
  BY <1>7 DEF WaitTimer
<1>8. CASE Expired(t)
  BY <1>8 DEF Expired
<1>9. CASE WaitEvent(t)
  BY <1>9 DEF WaitEvent
<1>10. CASE Handled(t)
  BY <1>10 DEF Handled
<1>11. CASE ThreadWeakup(t)
  BY <1>11 DEF ThreadWeakup
<1>12. CASE ArmEvent(t)
  BY <1>12 DEF ArmEvent
<1>13. CASE ArmTimer(t)
  BY <1>13 DEF ArmTimer
<1>14. CASE YieldToHold(t)
  BY <1>14 DEF YieldToHold
<1>15. CASE BodySchedule(t)
  BY <1>15 DEF BodySchedule
<1>16. CASE MainFunc(t)
  BY <1>16 DEF MainFunc
<1> QED
  BY <1>1, <1>2, <1>3, <1>4, <1>5, <1>6, <1>7, <1>8, <1>9, <1>10, <1>11, <1>12, <1>13,
     <1>14, <1>15, <1>16 DEF run

LEMMA CountStep == DataInv /\ CountInv /\ [Next]_vars => CountInv'
<1> SUFFICES ASSUME DataInv, CountInv, [Next]_vars PROVE CountInv'
  OBVIOUS
<1>1. ASSUME NEW t \in pool, run(t) PROVE CountInv'
  <2> USE DEF DataInv, DataOK, PcInv, InFiber, InIdle, Goto
  <2>1. Active \in SUBSET pool /\ Idling \in SUBSET pool
    BY DEF Active, Idling
  <2>2. CASE EnterIdle(t)
    <3>1. /\ Active' = Active /\ Idling' = Idling \cup {t} /\ t \notin Idling
          /\ active' = active /\ idle' = idle + 1
      BY <2>2 DEF EnterIdle, Active, Idling
    <3> QED
      BY <2>1, <3>1, PoolCount DEF CountInv
  <2>3. CASE LeaveIdle(t)
    <3>1. /\ Active' = Active /\ Idling' = Idling \ {t} /\ t \in Idling
          /\ active' = active /\ idle' = idle - 1
      BY <2>3 DEF LeaveIdle, Active, Idling
    <3> QED
      BY <2>1, <3>1, PoolCount DEF CountInv
  <2>4. CASE handleFiber(t)
    <3>1. /\ Active' = Active \cup {t} /\ Idling' = Idling /\ t \notin Active
          /\ active' = active + 1 /\ idle' = idle
      BY <2>4 DEF handleFiber, Active, Idling
    <3> QED
      BY <2>1, <3>1, PoolCount DEF CountInv
  <2>5. CASE LeaveFiber(t)
    <3>1. /\ Active' = Active \ {t} /\ Idling' = Idling /\ t \in Active
          /\ active' = active - 1 /\ idle' = idle
      BY <2>5 DEF LeaveFiber, Active, Idling
    <3> QED
      BY <2>1, <3>1, PoolCount DEF CountInv
  <2> QED
    BY <1>1, <2>2, <2>3, <2>4, <2>5, RunKeeps, KeptCount
<1>2. ASSUME NEW j \in Jobs, Submit(j) \/ Happen(j) PROVE CountInv'
  BY <1>2, KeptCount DEF Submit, Happen, CountKept, InFiber, InIdle
<1>3. CASE stop \/ Stopping \/ Tick \/ UNCHANGED vars
  BY <1>3, KeptCount
  DEF stop, Stopping, SubmitWeakup, StopWeakup, Join, Tick, vars, CountKept, InFiber, InIdle
<1> QED
  BY <1>1, <1>2, <1>3 DEF Next

-----------------------------------------------------------------------------
(* Where a job is *)

Queued(j) == j \in Range(tasks)
Due(t, j) == j \in Range(due[t])
Took(t, j) == pc[t] = "took" /\ cur[t] = j
Body(t, j) == cur[t] = j /\ (pc[t] = "body" \/ (pc[t] = "weakup" /\ next[t] = "body"))
HasArmed(t, j) == pc[t] = "armed" /\ cur[t] = j
Owns(t, j) == Took(t, j) \/ Body(t, j)
Execs(t, j) == Body(t, j) \/ HasArmed(t, j)

(* A job that was scheduled and has not ended is in one of the places from *)
(* which it will be run, and no other job is.                              *)
Present(j) ==
  \/ Queued(j)
  \/ armed[j] # "nothing"
  \/ \E t \in pool : Due(t, j) \/ Owns(t, j)

LiveInv == \A j \in Jobs : state[j] \in {"INIT", "EXEC", "HOLD"} <=> Present(j)

(* It is in one place at a time: no job is queued twice, run twice, or run *)
(* while something may still schedule it.                                  *)
QueuedOnce ==
  /\ IsInjective(tasks)
  /\ \A j \in Jobs : Queued(j) =>
       armed[j] = "nothing" /\ \A u \in pool : ~Due(u, j) /\ ~Owns(u, j)

DueOnce ==
  \A t \in pool :
    /\ IsInjective(due[t])
    /\ \A j \in Jobs : Due(t, j) =>
         armed[j] = "nothing" /\ \A u \in pool : ~Owns(u, j) /\ (Due(u, j) => u = t)

OwnedOnce ==
  \A t \in pool, j \in Jobs : Owns(t, j) =>
    armed[j] = "nothing" /\ \A u \in pool : Owns(u, j) => u = t

(* The threads that resume a job's fiber are the ones its state tells of;  *)
(* a job that has armed something may be scheduled while it still runs,    *)
(* and take() leaves it in the queue until it is suspended.                *)
ExecInv ==
  /\ \A t \in pool, j \in Jobs : Took(t, j) => state[j] # "EXEC"
  /\ \A t \in pool, j \in Jobs : Execs(t, j) =>
       state[j] = "EXEC" /\ \A u \in pool : Execs(u, j) => u = t
  /\ \A j \in Jobs : state[j] = "EXEC" => \E t \in pool : Execs(t, j)

(* What is reported is still waited for. *)
ReadyArmed == \A j \in Jobs : j \in ready => armed[j] = "event"

JobInv == LiveInv /\ QueuedOnce /\ DueOnce /\ OwnedOnce /\ ExecInv /\ ReadyArmed

LEMMA JobInit == Init => JobInv
<1> SUFFICES ASSUME Init PROVE JobInv
  OBVIOUS
<1>1. Range(<<>>) = {} /\ IsInjective(<<>>)
  BY DEF Range, IsInjective
<1>2. /\ \A j \in Jobs : ~Queued(j) /\ armed[j] = "nothing" /\ state[j] = "UNUSED"
      /\ \A t \in pool, j \in Jobs :
           ~Due(t, j) /\ ~Took(t, j) /\ ~Body(t, j) /\ ~HasArmed(t, j)
      /\ IsInjective(tasks) /\ \A t \in pool : IsInjective(due[t])
      /\ ready = {}
  BY <1>1 DEF Init, Queued, Due, Took, Body, HasArmed
<1> QED
  BY <1>2
  DEF JobInv, LiveInv, Present, QueuedOnce, DueOnce, OwnedOnce, Owns, ExecInv, Execs,
              ReadyArmed

(* The step concerns no job: *)
JobsKept ==
  /\ UNCHANGED <<pool, tasks, state, armed, due>>
  /\ \A u \in pool, j \in Jobs : /\ Took(u, j)' <=> Took(u, j)
                                 /\ Body(u, j)' <=> Body(u, j)
                                 /\ HasArmed(u, j)' <=> HasArmed(u, j)
  /\ \A j \in Jobs : j \in ready' => j \in ready \/ armed[j] = "event"

LEMMA KeptJobs ==
  ASSUME JobInv, JobsKept
  PROVE  JobInv'
<1>1. \A j \in Jobs : /\ Queued(j)' <=> Queued(j)
                      /\ \A u \in pool : Due(u, j)' <=> Due(u, j)
                      /\ \A u \in pool : Owns(u, j)' <=> Owns(u, j)
                      /\ \A u \in pool : Execs(u, j)' <=> Execs(u, j)
  BY DEF JobsKept, Queued, Due, Owns, Execs
<1> USE <1>1 DEF JobInv, JobsKept
<1>2. LiveInv'
  BY DEF LiveInv, Present
<1>3. QueuedOnce' /\ DueOnce' /\ OwnedOnce'
  BY DEF QueuedOnce, DueOnce, OwnedOnce
<1>4. ExecInv' /\ ReadyArmed'
  BY DEF ExecInv, ReadyArmed
<1> QED
  BY <1>2, <1>3, <1>4

(* take() moves a job from the queue to the thread. *)
LEMMA TakeJobs ==
  ASSUME DataInv, JobInv, NEW t \in pool, take(t)
  PROVE  JobInv'
<1>1. CASE Takeable = {}
  BY <1>1, IOLoopAssumption, KeptJobs
  DEF take, Goto, JobsKept, Took, Body, HasArmed, DataInv, DataOK, PcInv
<1>2. CASE Takeable # {}
  <2> DEFINE x == tasks[First]
  <2>1. First \in DOMAIN tasks /\ x \in Jobs /\ state[x] # "EXEC"
    BY <1>2, FirstTakeable DEF Takeable, DataInv, DataOK
  <2>2. IsInjective(tasks')
    BY <1>2, <2>1, EraseFacts DEF take, JobInv, QueuedOnce, DataInv, DataOK
  <2>3. \A j \in Jobs : Queued(j)' <=> Queued(j) /\ j # x
    <3>1. tasks' = RemoveAt(tasks, First) /\ IsInjective(tasks) /\ tasks \in Seq(Jobs)
      BY <1>2 DEF take, JobInv, QueuedOnce, DataInv, DataOK
    <3>2. tasks' \in Seq(Jobs) /\ DOMAIN tasks \subseteq Nat
      BY <2>1, <3>1, EraseFacts
    <3>3. \A i \in DOMAIN tasks' : \E k \in DOMAIN tasks : tasks'[i] = tasks[k]
      BY <2>1, <3>1, EraseFacts
    <3>4. \A i \in DOMAIN tasks' : tasks'[i] # x
      BY <2>1, <3>1, EraseFacts
    <3>5. \A k \in DOMAIN tasks : k # First => \E i \in DOMAIN tasks' : tasks'[i] = tasks[k]
      BY <2>1, <3>1, EraseFacts
    <3> HIDE DEF x
    <3>6. ASSUME NEW j \in Jobs, Queued(j)' PROVE Queued(j) /\ j # x
      BY <3>3, <3>4, <3>6 DEF Queued, Range
    <3>7. ASSUME NEW j \in Jobs, Queued(j), j # x PROVE Queued(j)'
      BY <3>5, <3>7 DEF Queued, Range, x
    <3> QED
      BY <3>6, <3>7
  <2>4. Queued(x)
    BY <2>1 DEF Queued, Range
  <2>5. \A u \in pool, j \in Jobs : /\ Took(u, j)' <=> Took(u, j) \/ (u = t /\ j = x)
                                    /\ ~Took(t, j)
                                    /\ Body(u, j)' <=> Body(u, j)
                                    /\ HasArmed(u, j)' <=> HasArmed(u, j)
                                    /\ Due(u, j)' <=> Due(u, j)
    BY <1>2 DEF take, Goto, Took, Body, HasArmed, Due, DataInv, DataOK, PcInv
  <2>6. UNCHANGED <<pool, state, armed, due, ready>>
    BY DEF take
  <2> HIDE DEF x
  <2>7. \A j \in Jobs : \A u \in pool : /\ Owns(u, j)' <=> Owns(u, j) \/ (u = t /\ j = x)
                                        /\ Execs(u, j)' <=> Execs(u, j)
    BY <2>5 DEF Owns, Execs
  <2> USE DEF JobInv
  <2>8. LiveInv'
    BY <2>1, <2>3, <2>4, <2>5, <2>6, <2>7 DEF LiveInv, Present
  <2>9. QueuedOnce' /\ DueOnce' /\ OwnedOnce'
    BY <2>1, <2>2, <2>3, <2>4, <2>5, <2>6, <2>7 DEF QueuedOnce, DueOnce, OwnedOnce
  <2>10. ExecInv' /\ ReadyArmed'
    BY <2>1, <2>5, <2>6, <2>7 DEF ExecInv, ReadyArmed
  <2> QED
    BY <2>8, <2>9, <2>10
<1> QED
  BY <1>1, <1>2

(* A thread that takes no more drops what it took. *)
LEMMA BreakJobs ==
  ASSUME DataInv, JobInv, NEW t \in pool, Break(t)
  PROVE  JobInv'
<1>1. /\ UNCHANGED <<pool, tasks, armed, due, ready>>
      /\ \A j \in Jobs : state'[j] = IF Took(t, j) THEN "DROPPED" ELSE state[j]
      /\ \A u \in pool, j \in Jobs : /\ Took(u, j)' <=> Took(u, j) /\ u # t
                                     /\ Body(u, j)' <=> Body(u, j)
                                     /\ HasArmed(u, j)' <=> HasArmed(u, j)
                                     /\ Due(u, j)' <=> Due(u, j)
      /\ \A j \in Jobs : Queued(j)' <=> Queued(j)
      /\ \A j \in Jobs : ~Body(t, j) /\ ~HasArmed(t, j)
  BY IOLoopAssumption
  DEF Break, Goto, Took, Body, HasArmed, Due, Queued, DataInv, DataOK, PcInv
<1>2. \A j \in Jobs : \A u \in pool : /\ Owns(u, j)' <=> Owns(u, j) /\ u # t
                                      /\ Execs(u, j)' <=> Execs(u, j)
  BY <1>1 DEF Owns, Execs
<1> USE DEF JobInv
<1>3. LiveInv'
  <2> SUFFICES ASSUME NEW j \in Jobs
               PROVE  state'[j] \in {"INIT", "EXEC", "HOLD"} <=> Present(j)'
    BY DEF LiveInv
  <2>1. CASE Took(t, j)
    BY <1>1, <1>2, <2>1 DEF Present, QueuedOnce, DueOnce, OwnedOnce, Owns
  <2>2. CASE ~Took(t, j)
    BY <1>1, <1>2, <2>2 DEF LiveInv, Present, Owns
  <2> QED
    BY <2>1, <2>2
<1>4. QueuedOnce' /\ DueOnce' /\ OwnedOnce'
  BY <1>1, <1>2 DEF QueuedOnce, DueOnce, OwnedOnce
<1>5. ExecInv' /\ ReadyArmed'
  BY <1>1, <1>2 DEF ExecInv, ReadyArmed
<1> QED
  BY <1>3, <1>4, <1>5

(* The fiber taken is resumed. *)
LEMMA HandleFiberJobs ==
  ASSUME DataInv, JobInv, NEW t \in pool, handleFiber(t)
  PROVE  JobInv'
<1> DEFINE x == cur[t]
<1>1. /\ UNCHANGED <<pool, tasks, armed, due, ready>>
      /\ x \in Jobs /\ Took(t, x)
      /\ \A j \in Jobs : state'[j] = IF j = x THEN "EXEC" ELSE state[j]
      /\ \A u \in pool, j \in Jobs : /\ Took(u, j)' <=> Took(u, j) /\ u # t
                                     /\ Body(u, j)' <=> Body(u, j) \/ (u = t /\ j = x)
                                     /\ HasArmed(u, j)' <=> HasArmed(u, j)
                                     /\ Due(u, j)' <=> Due(u, j)
      /\ \A j \in Jobs : Queued(j)' <=> Queued(j)
      /\ \A j \in Jobs : ~Body(t, j) /\ ~HasArmed(t, j) /\ (Took(t, j) => j = x)
  BY IOLoopAssumption
  DEF handleFiber, Goto, Took, Body, HasArmed, Due, Queued, DataInv, DataOK, PcInv
<1> HIDE DEF x
<1>2. \A j \in Jobs : \A u \in pool : /\ Owns(u, j)' <=> Owns(u, j)
                                      /\ Execs(u, j)' <=> Execs(u, j) \/ (u = t /\ j = x)
  BY <1>1 DEF Owns, Execs
<1> USE DEF JobInv
<1>3. LiveInv'
  BY <1>1, <1>2 DEF LiveInv, Present, Owns
<1>4. QueuedOnce' /\ DueOnce' /\ OwnedOnce'
  BY <1>1, <1>2 DEF QueuedOnce, DueOnce, OwnedOnce
<1>5. ReadyArmed'
  BY <1>1 DEF ReadyArmed
<1>6. \A u \in pool : ~Execs(u, x) /\ (Took(u, x) => u = t)
  BY <1>1 DEF ExecInv, OwnedOnce, Owns
<1>7. ExecInv'
  BY <1>1, <1>2, <1>6 DEF ExecInv
<1> QED
  BY <1>3, <1>4, <1>5, <1>7

LEMMA PushFacts ==
  ASSUME tasks \in Seq(Jobs), NEW js \in Seq(Jobs), Push(js)
  PROVE  /\ \A j \in Jobs : Queued(j)' <=> Queued(j) \/ j \in Range(js)
         /\ (/\ IsInjective(tasks) /\ IsInjective(js)
             /\ \A j \in Jobs : Queued(j) => j \notin Range(js))
              => IsInjective(tasks')
<1>1. Range(tasks) \subseteq Jobs
  BY DEF Range
<1>2. tasks' = tasks \o js
  BY DEF Push
<1>3. Range(tasks') = Range(tasks) \cup Range(js)
  BY <1>2, ConcatFacts
<1>4. ASSUME \A j \in Jobs : Queued(j) => j \notin Range(js)
      PROVE  Range(tasks) \cap Range(js) = {}
  BY <1>1, <1>4 DEF Queued
<1>5. ASSUME IsInjective(tasks), IsInjective(js),
             \A j \in Jobs : Queued(j) => j \notin Range(js)
      PROVE  IsInjective(tasks')
  BY <1>2, <1>4, <1>5, ConcatFacts
<1> QED
  BY <1>3, <1>5 DEF Queued

LEMMA SingleFacts ==
  ASSUME NEW j \in Jobs
  PROVE  <<j>> \in Seq(Jobs) /\ Range(<<j>>) = {j} /\ IsInjective(<<j>>)
  BY DEF Range, IsInjective

(* schedule() of a fiber that is new, by the client or by a fiber. *)
LEMMA NewJob ==
  ASSUME DataInv, JobInv, NEW j \in Jobs, state[j] = "UNUSED",
         state' = [state EXCEPT ![j] = "INIT"], Push(<<j>>),
         UNCHANGED <<pool, armed, due, ready>>,
         \A u \in pool, k \in Jobs : /\ Took(u, k)' <=> Took(u, k)
                                     /\ Body(u, k)' <=> Body(u, k)
                                     /\ HasArmed(u, k)' <=> HasArmed(u, k)
  PROVE  JobInv'
<1>1. ~Present(j) /\ \A u \in pool : ~Execs(u, j)
  BY DEF JobInv, LiveInv, ExecInv
<1>2. /\ tasks \in Seq(Jobs)
      /\ state \in [Jobs -> {"UNUSED", "INIT", "EXEC", "HOLD", "TERM", "DROPPED"}]
  BY DEF DataInv, DataOK
<1>3. \A k \in Jobs : Queued(k)' <=> Queued(k) \/ k = j
  BY <1>2, PushFacts, SingleFacts
<1>4. IsInjective(tasks')
  <2>1. IsInjective(tasks) /\ ~Queued(j)
    BY <1>1 DEF JobInv, QueuedOnce, Present
  <2>2. \A k \in Jobs : Queued(k) => k \notin Range(<<j>>)
    BY <2>1, SingleFacts
  <2> QED
    BY <1>2, <2>1, <2>2, PushFacts, SingleFacts
<1>5. \A u \in pool, k \in Jobs : /\ Owns(u, k)' <=> Owns(u, k)
                                  /\ Execs(u, k)' <=> Execs(u, k)
                                  /\ Due(u, k)' <=> Due(u, k)
  BY DEF Owns, Execs, Due
<1>6. \A k \in Jobs : state'[k] = IF k = j THEN "INIT" ELSE state[k]
  BY <1>2
<1> USE DEF JobInv
<1>7. LiveInv'
  BY <1>3, <1>5, <1>6 DEF LiveInv, Present
<1>8. QueuedOnce' /\ DueOnce' /\ OwnedOnce'
  BY <1>1, <1>3, <1>4, <1>5 DEF QueuedOnce, DueOnce, OwnedOnce, Present
<1>9. ExecInv' /\ ReadyArmed'
  BY <1>1, <1>5, <1>6 DEF ExecInv, ReadyArmed
<1> QED
  BY <1>7, <1>8, <1>9

(* listExpiredCallback moves the jobs of timers to the thread ... *)
LEMMA WaitTimerJobs ==
  ASSUME DataInv, JobInv, NEW t \in pool, WaitTimer(t)
  PROVE  JobInv'
<1>1. CASE Timers = {}
  BY <1>1, KeptJobs
  DEF WaitTimer, Goto, JobsKept, Took, Body, HasArmed, DataInv, DataOK, PcInv
<1>2. CASE Timers # {}
  <2>1. PICK js \in SUBSET Timers \ {{}} :
          /\ armed' = [j \in Jobs |-> IF j \in js THEN "nothing" ELSE armed[j]]
          /\ due' = [due EXCEPT ![t] = SetToSeq(js)]
    BY <1>2 DEF WaitTimer
  <2>2. Range(SetToSeq(js)) = js /\ IsInjective(SetToSeq(js))
    BY TimersSeq
  <2>3. \A j \in js : j \in Jobs /\ armed[j] = "timer"
    BY DEF Timers
  <2>4. /\ UNCHANGED <<pool, tasks, state>>
        /\ pc[t] = "epoll_wait" /\ pc' = [pc EXCEPT ![t] = "expired"]
        /\ ready' \subseteq ready
        /\ UNCHANGED <<cur, next>>
    BY <1>2 DEF WaitTimer, Goto
  <2>5. due[t] = <<>> /\ due \in [pool -> Seq(Jobs)]
    BY <2>4 DEF DataInv, DataOK, PcInv
  <2>6. \A j \in Jobs : ~Due(t, j)
    BY <2>5 DEF Due, Range
  <2>7. \A u \in pool, j \in Jobs : Due(u, j)' <=> Due(u, j) \/ (u = t /\ j \in js)
    BY <2>1, <2>2, <2>5, <2>6 DEF Due
  <2>8. \A u \in pool : IsInjective(due'[u])
    BY <2>1, <2>2, <2>5 DEF JobInv, DueOnce
  <2>9. \A u \in pool, j \in Jobs : /\ Took(u, j)' <=> Took(u, j)
                                    /\ Body(u, j)' <=> Body(u, j)
                                    /\ HasArmed(u, j)' <=> HasArmed(u, j)
    BY <2>4 DEF Took, Body, HasArmed, DataInv, PcInv
  <2>10. \A u \in pool, j \in Jobs : /\ Owns(u, j)' <=> Owns(u, j)
                                     /\ Execs(u, j)' <=> Execs(u, j)
    BY <2>9 DEF Owns, Execs
  <2>11. \A j \in Jobs : Queued(j)' <=> Queued(j)
    BY <2>4 DEF Queued
  <2>12. \A j \in Jobs : armed'[j] = IF j \in js THEN "nothing" ELSE armed[j]
    BY <2>1
  <2> USE DEF JobInv
  <2>13. LiveInv'
    BY <2>3, <2>4, <2>7, <2>10, <2>11, <2>12 DEF LiveInv, Present
  <2>14. QueuedOnce' /\ OwnedOnce'
    BY <2>3, <2>4, <2>7, <2>10, <2>11, <2>12 DEF QueuedOnce, OwnedOnce
  <2>15. DueOnce'
    BY <2>3, <2>4, <2>7, <2>8, <2>10, <2>12 DEF DueOnce, OwnedOnce
  <2>16. ExecInv' /\ ReadyArmed'
    BY <2>3, <2>4, <2>9, <2>10, <2>12 DEF ExecInv, ReadyArmed
  <2> QED
    BY <2>13, <2>14, <2>15, <2>16
<1> QED
  BY <1>1, <1>2

(* ... and schedule() from there to the queue. *)
LEMMA ExpiredJobs ==
  ASSUME DataInv, JobInv, NEW t \in pool, Expired(t)
  PROVE  JobInv'
<1>1. /\ tasks \in Seq(Jobs) /\ due \in [pool -> Seq(Jobs)] /\ due[t] \in Seq(Jobs)
      /\ Push(due[t]) /\ due' = [due EXCEPT ![t] = <<>>]
      /\ UNCHANGED <<pool, state, armed, ready>>
  BY DEF Expired, DataInv, DataOK
<1>2. \A j \in Jobs : Queued(j)' <=> Queued(j) \/ Due(t, j)
  BY <1>1, PushFacts DEF Due
<1>3. IsInjective(tasks')
  BY <1>1, PushFacts DEF JobInv, QueuedOnce, DueOnce, Due
<1>4. Range(<<>>) = {} /\ IsInjective(<<>>)
  BY DEF Range, IsInjective
<1>5. \A u \in pool : /\ IsInjective(due'[u])
                      /\ \A j \in Jobs : Due(u, j)' <=> Due(u, j) /\ u # t
  BY <1>1, <1>4 DEF JobInv, DueOnce, Due
<1>6. \A u \in pool, j \in Jobs : /\ Took(u, j)' <=> Took(u, j)
                                  /\ Body(u, j)' <=> Body(u, j)
                                  /\ HasArmed(u, j)' <=> HasArmed(u, j)
  BY DEF Expired, Goto, Took, Body, HasArmed, DataInv, PcInv
<1>7. \A u \in pool, j \in Jobs : /\ Owns(u, j)' <=> Owns(u, j)
                                  /\ Execs(u, j)' <=> Execs(u, j)
  BY <1>6 DEF Owns, Execs
<1> USE DEF JobInv
<1>8. LiveInv'
  BY <1>1, <1>2, <1>5, <1>7 DEF LiveInv, Present
<1>9. QueuedOnce' /\ DueOnce' /\ OwnedOnce'
  BY <1>1, <1>2, <1>3, <1>5, <1>7 DEF QueuedOnce, DueOnce, OwnedOnce
<1>10. ExecInv' /\ ReadyArmed'
  BY <1>1, <1>6, <1>7 DEF ExecInv, ReadyArmed
<1> QED
  BY <1>8, <1>9, <1>10

(* A report moves the job that waits for it to the queue. *)
LEMMA WaitEventJobs ==
  ASSUME DataInv, JobInv, NEW t \in pool, WaitEvent(t)
  PROVE  JobInv'
<1>1. PICK j \in Jobs \cap ready :
        /\ Goto(t, "epoll_wait", IF tasks = <<>> THEN "weakup" ELSE "handled")
        /\ ready' = ready \ {j}
        /\ armed' = [armed EXCEPT ![j] = "nothing"]
        /\ Push(<<j>>)
        /\ next' = [next EXCEPT ![t] = IF tasks = <<>> THEN "handled" ELSE "take"]
        /\ UNCHANGED <<pool, running, state, waits, pending, idle, active, cur,
                       due, idleDone, owner, wakes>>
  BY DEF WaitEvent
<1>2. armed[j] = "event"
  BY DEF JobInv, ReadyArmed
<1>3. tasks \in Seq(Jobs) /\ armed \in [Jobs -> {"nothing", "event", "timer"}]
  BY DEF DataInv, DataOK
<1>4. \A k \in Jobs : Queued(k)' <=> Queued(k) \/ k = j
  BY <1>1, <1>3, PushFacts, SingleFacts
<1>5. IsInjective(tasks')
  BY <1>1, <1>2, <1>3, PushFacts, SingleFacts DEF JobInv, QueuedOnce
<1>6. \A u \in pool, k \in Jobs : /\ Took(u, k)' <=> Took(u, k)
                                  /\ Body(u, k)' <=> Body(u, k)
                                  /\ HasArmed(u, k)' <=> HasArmed(u, k)
                                  /\ Due(u, k)' <=> Due(u, k)
  BY <1>1 DEF Goto, Took, Body, HasArmed, Due, DataInv, PcInv
<1>7. \A u \in pool, k \in Jobs : /\ Owns(u, k)' <=> Owns(u, k)
                                  /\ Execs(u, k)' <=> Execs(u, k)
  BY <1>6 DEF Owns, Execs
<1>8. \A k \in Jobs : armed'[k] = IF k = j THEN "nothing" ELSE armed[k]
  BY <1>1, <1>3
<1> USE DEF JobInv
<1>9. LiveInv'
  BY <1>1, <1>2, <1>4, <1>6, <1>7, <1>8 DEF LiveInv, Present
<1>10. QueuedOnce' /\ DueOnce' /\ OwnedOnce'
  BY <1>1, <1>2, <1>4, <1>5, <1>6, <1>7, <1>8 DEF QueuedOnce, DueOnce, OwnedOnce
<1>11. ExecInv' /\ ReadyArmed'
  BY <1>1, <1>6, <1>7, <1>8 DEF ExecInv, ReadyArmed
<1> QED
  BY <1>9, <1>10, <1>11

(* A fiber that asks to be woken hands itself to the event or the timer. *)
LEMMA ArmJobs ==
  ASSUME DataInv, JobInv, NEW t \in pool, ArmEvent(t) \/ ArmTimer(t)
  PROVE  JobInv'
<1> DEFINE x == cur[t]
<1>1. /\ UNCHANGED <<pool, tasks, state, due, ready>>
      /\ x \in Jobs /\ Body(t, x)
      /\ \A j \in Jobs : /\ j # x => armed'[j] = armed[j]
                         /\ armed'[x] # "nothing"
      /\ \A u \in pool, j \in Jobs : /\ Took(u, j)' <=> Took(u, j)
                                     /\ Body(u, j)' <=> Body(u, j) /\ u # t
                                     /\ HasArmed(u, j)' <=> HasArmed(u, j) \/ (u = t /\ j = x)
                                     /\ Due(u, j)' <=> Due(u, j)
      /\ \A j \in Jobs : Queued(j)' <=> Queued(j)
      /\ \A j \in Jobs : ~Took(t, j) /\ (Body(t, j) => j = x)
  BY DEF ArmEvent, ArmTimer, Goto, Took, Body, HasArmed, Due, Queued, InFiber,
         DataInv, DataOK, PcInv
<1> HIDE DEF x
<1>2. \A j \in Jobs : \A u \in pool : /\ Owns(u, j)' <=> Owns(u, j) /\ u # t
                                      /\ Execs(u, j)' <=> Execs(u, j)
  BY <1>1 DEF Owns, Execs
<1>3. Owns(t, x) /\ armed[x] = "nothing" /\ (\A u \in pool : Owns(u, x) => u = t)
  BY <1>1 DEF Owns, JobInv, OwnedOnce
<1>4. ~Queued(x) /\ \A u \in pool : ~Due(u, x)
  BY <1>1, <1>3 DEF JobInv, QueuedOnce, DueOnce
<1> USE DEF JobInv
<1>5. LiveInv'
  <2> SUFFICES ASSUME NEW j \in Jobs
               PROVE  state'[j] \in {"INIT", "EXEC", "HOLD"} <=> Present(j)'
    BY DEF LiveInv
  <2>1. CASE j = x
    BY <1>1, <1>3, <2>1 DEF LiveInv, Present
  <2>2. CASE j # x
    BY <1>1, <1>2, <2>2 DEF LiveInv, Present, Owns
  <2> QED
    BY <2>1, <2>2
<1>6. QueuedOnce' /\ DueOnce' /\ OwnedOnce'
  BY <1>1, <1>2, <1>3, <1>4 DEF QueuedOnce, DueOnce, OwnedOnce
<1>7. ExecInv' /\ ReadyArmed'
  BY <1>1, <1>2, <1>3 DEF ExecInv, ReadyArmed
<1> QED
  BY <1>5, <1>6, <1>7

(* It is suspended; what it armed, or already the queue, has it. *)
LEMMA YieldJobs ==
  ASSUME DataInv, JobInv, NEW t \in pool, YieldToHold(t)
  PROVE  JobInv'
<1> DEFINE x == cur[t]
<1>1. /\ UNCHANGED <<pool, tasks, armed, due, ready>>
      /\ x \in Jobs /\ HasArmed(t, x)
      /\ \A j \in Jobs : state'[j] = IF j = x THEN "HOLD" ELSE state[j]
      /\ \A u \in pool, j \in Jobs : /\ Took(u, j)' <=> Took(u, j)
                                     /\ Body(u, j)' <=> Body(u, j)
                                     /\ HasArmed(u, j)' <=> HasArmed(u, j) /\ u # t
                                     /\ Due(u, j)' <=> Due(u, j)
      /\ \A j \in Jobs : Queued(j)' <=> Queued(j)
      /\ \A j \in Jobs : ~Took(t, j) /\ ~Body(t, j) /\ (HasArmed(t, j) => j = x)
  BY DEF YieldToHold, Goto, Took, Body, HasArmed, Due, Queued, InFiber,
         DataInv, DataOK, PcInv
<1> HIDE DEF x
<1>2. \A j \in Jobs : \A u \in pool : /\ Owns(u, j)' <=> Owns(u, j)
                                      /\ Execs(u, j)' <=> Execs(u, j) /\ u # t
  BY <1>1 DEF Owns, Execs
<1>3. state[x] = "EXEC" /\ \A u \in pool : Execs(u, x) => u = t
  BY <1>1 DEF Execs, JobInv, ExecInv
<1> USE DEF JobInv
<1>4. LiveInv'
  BY <1>1, <1>2, <1>3 DEF LiveInv, Present
<1>5. QueuedOnce' /\ DueOnce' /\ OwnedOnce'
  BY <1>1, <1>2 DEF QueuedOnce, DueOnce, OwnedOnce
<1>6. ReadyArmed'
  BY <1>1 DEF ReadyArmed
<1>7. ExecInv'
  <2>1. \A j \in Jobs : j # x => ~Execs(t, j)
    BY <1>1 DEF Execs
  <2> QED
    BY <1>1, <1>2, <1>3, <2>1 DEF ExecInv
<1> QED
  BY <1>4, <1>5, <1>6, <1>7

(* It ends. *)
LEMMA MainFuncJobs ==
  ASSUME DataInv, JobInv, NEW t \in pool, MainFunc(t)
  PROVE  JobInv'
<1> DEFINE x == cur[t]
<1>1. /\ UNCHANGED <<pool, tasks, armed, due, ready>>
      /\ x \in Jobs /\ Body(t, x)
      /\ \A j \in Jobs : state'[j] = IF j = x THEN "TERM" ELSE state[j]
      /\ \A u \in pool, j \in Jobs : /\ Took(u, j)' <=> Took(u, j)
                                     /\ Body(u, j)' <=> Body(u, j) /\ u # t
                                     /\ HasArmed(u, j)' <=> HasArmed(u, j)
                                     /\ Due(u, j)' <=> Due(u, j)
      /\ \A j \in Jobs : Queued(j)' <=> Queued(j)
      /\ \A j \in Jobs : ~Took(t, j) /\ ~HasArmed(t, j) /\ (Body(t, j) => j = x)
  BY DEF MainFunc, Goto, Took, Body, HasArmed, Due, Queued, InFiber,
         DataInv, DataOK, PcInv
<1> HIDE DEF x
<1>2. \A j \in Jobs : \A u \in pool : /\ Owns(u, j)' <=> Owns(u, j) /\ u # t
                                      /\ Execs(u, j)' <=> Execs(u, j) /\ u # t
  BY <1>1 DEF Owns, Execs
<1>3. /\ Owns(t, x) /\ armed[x] = "nothing" /\ \A u \in pool : Owns(u, x) => u = t
      /\ Execs(t, x) /\ \A u \in pool : Execs(u, x) => u = t
  BY <1>1 DEF Owns, Execs, JobInv, OwnedOnce, ExecInv
<1>4. ~Queued(x) /\ \A u \in pool : ~Due(u, x)
  BY <1>1, <1>3 DEF JobInv, QueuedOnce, DueOnce
<1>5. \A j \in Jobs : j # x => ~Owns(t, j) /\ ~Execs(t, j)
  BY <1>1 DEF Owns, Execs
<1> USE DEF JobInv
<1>6. LiveInv'
  BY <1>1, <1>2, <1>3, <1>4, <1>5 DEF LiveInv, Present
<1>7. QueuedOnce' /\ DueOnce' /\ OwnedOnce'
  BY <1>1, <1>2 DEF QueuedOnce, DueOnce, OwnedOnce
<1>8. ReadyArmed'
  BY <1>1 DEF ReadyArmed
<1>9. ExecInv'
  BY <1>1, <1>2, <1>3, <1>5 DEF ExecInv
<1> QED
  BY <1>6, <1>7, <1>8, <1>9

LEMMA RunJobs ==
  ASSUME DataInv, JobInv, NEW t \in pool, run(t)
  PROVE  JobInv'
<1>1. ASSUME JobsKept PROVE JobInv'
  BY <1>1, KeptJobs
<1>2. CASE EnterIdle(t)
  BY <1>1, <1>2, IOLoopAssumption
  DEF EnterIdle, Goto, JobsKept, Took, Body, HasArmed, DataInv, DataOK, PcInv
<1>3. CASE LeaveIdle(t)
  BY <1>1, <1>3
  DEF LeaveIdle, Goto, JobsKept, Took, Body, HasArmed, DataInv, DataOK, PcInv
<1>4. CASE LeaveFiber(t)
  BY <1>1, <1>4
  DEF LeaveFiber, Goto, JobsKept, Took, Body, HasArmed, DataInv, DataOK, PcInv
<1>5. CASE hasTimer(t)
  BY <1>1, <1>5
  DEF hasTimer, Goto, JobsKept, Took, Body, HasArmed, DataInv, DataOK, PcInv
<1>6. CASE pendingEvents(t)
  BY <1>1, <1>6
  DEF pendingEvents, Goto, JobsKept, Took, Body, HasArmed, DataInv, DataOK, PcInv
<1>7. CASE canStop(t)
  BY <1>1, <1>7
  DEF canStop, Goto, JobsKept, Took, Body, HasArmed, DataInv, DataOK, PcInv
<1>8. CASE WaitPipe(t)
  BY <1>1, <1>8
  DEF WaitPipe, Goto, JobsKept, Took, Body, HasArmed, DataInv, DataOK, PcInv
<1>9. CASE Handled(t)
  BY <1>1, <1>9
  DEF Handled, Goto, JobsKept, Took, Body, HasArmed, DataInv, DataOK, PcInv
<1>10. CASE ThreadWeakup(t)
  BY <1>1, <1>10, IOLoopAssumption
  DEF ThreadWeakup, weakup, Goto, JobsKept, Took, Body, HasArmed, DataInv, DataOK, PcInv
<1>11. CASE BodySchedule(t)
  <2>1. PICK j \in Jobs :
          /\ state[j] = "UNUSED"
          /\ state' = [state EXCEPT ![j] = "INIT"]
          /\ Goto(t, "body", IF tasks = <<>> THEN "weakup" ELSE "body")
          /\ Push(<<j>>)
          /\ next' = [next EXCEPT ![t] = IF tasks = <<>> THEN "body" ELSE "take"]
          /\ UNCHANGED <<pool, running, armed, waits, pending, ready, idle, active,
                         cur, due, idleDone, owner, wakes>>
    BY <1>11 DEF BodySchedule
  <2>2. \A u \in pool, k \in Jobs : /\ Took(u, k)' <=> Took(u, k)
                                    /\ Body(u, k)' <=> Body(u, k)
                                    /\ HasArmed(u, k)' <=> HasArmed(u, k)
    BY <2>1 DEF Goto, Took, Body, HasArmed, DataInv, PcInv
  <2> QED
    BY <2>1, <2>2, NewJob
<1> QED
  BY <1>2, <1>3, <1>4, <1>5, <1>6, <1>7, <1>8, <1>9, <1>10, <1>11, TakeJobs,
     BreakJobs, HandleFiberJobs,
     WaitTimerJobs, ExpiredJobs, WaitEventJobs, ArmJobs, YieldJobs, MainFuncJobs DEF run

LEMMA JobStep == DataInv /\ JobInv /\ [Next]_vars => JobInv'
<1> SUFFICES ASSUME DataInv, JobInv, [Next]_vars PROVE JobInv'
  OBVIOUS
<1>1. ASSUME NEW j \in Jobs, Submit(j) PROVE JobInv'
  BY <1>1, NewJob DEF Submit, Took, Body, HasArmed
<1>2. ASSUME JobsKept PROVE JobInv'
  BY <1>2, KeptJobs
<1>3. ASSUME NEW j \in Jobs, Happen(j) PROVE JobInv'
  BY <1>2, <1>3 DEF Happen, JobsKept, Took, Body, HasArmed
<1>4. CASE SubmitWeakup \/ StopWeakup
  BY <1>2, <1>4, IOLoopAssumption
  DEF SubmitWeakup, StopWeakup, weakup, JobsKept, Took, Body, HasArmed
<1>5. CASE stop \/ Join \/ Tick \/ UNCHANGED vars
  BY <1>2, <1>5, IOLoopAssumption
  DEF stop, Join, Tick, vars, JobsKept, Took, Body, HasArmed
<1> QED
  BY <1>1, <1>3, <1>4, <1>5, RunJobs DEF Next, Stopping

-----------------------------------------------------------------------------
(* pendingEventCount_ *)

Events == {j \in Jobs : armed[j] = "event"}
Handlers == {t \in pool : pc[t] = "handled" \/ (pc[t] = "weakup" /\ next[t] = "handled")}

(* It counts the events that are awaited, and those that have been handled *)
(* by a thread that is yet to count them off.                              *)
PendingInv == pending = Cardinality(Events) + Cardinality(Handlers)

LEMMA PendingInit == Init => PendingInv
<1> SUFFICES ASSUME Init PROVE PendingInv
  OBVIOUS
<1>1. Events = {} /\ Handlers = {}
  BY DEF Init, Events, Handlers
<1> QED
  BY <1>1, FS_EmptySet DEF Init, PendingInv

LEMMA PendingFinite ==
  ASSUME DataInv
  PROVE  /\ IsFiniteSet(Events) /\ Cardinality(Events) \in Nat
         /\ IsFiniteSet(Handlers) /\ Cardinality(Handlers) \in Nat
<1>1. Events \subseteq Jobs /\ Handlers \subseteq pool
  BY DEF Events, Handlers
<1>2. IsFiniteSet(Jobs) /\ IsFiniteSet(pool)
  BY IOLoopAssumption DEF DataInv, DataOK
<1> QED
  BY <1>1, <1>2, FS_Subset, FS_CardinalityType

LEMMA PendingCount ==
  ASSUME DataInv, NEW j \in Jobs
  PROVE  /\ Cardinality(Handlers) \in Nat /\ Cardinality(Events) \in Nat
         /\ Events = {} <=> Cardinality(Events) = 0
         /\ j \notin Events => Cardinality(Events \cup {j}) = Cardinality(Events) + 1
         /\ j \in Events => Cardinality(Events \ {j}) = Cardinality(Events) - 1
  BY PendingFinite, FS_EmptySet, FS_AddElement, FS_RemoveElement

PendingKept == UNCHANGED pending /\ Events' = Events /\ Handlers' = Handlers

LEMMA RunPendingKept ==
  ASSUME DataInv, JobInv, NEW t \in pool, run(t)
  PROVE  PendingKept \/ ArmEvent(t) \/ WaitEvent(t) \/ Handled(t)
<1> USE DEF DataInv, DataOK, PcInv, InFiber, InIdle, Goto, PendingKept, Events, Handlers
<1>1. CASE take(t)
  BY <1>1 DEF take
<1>2. CASE Break(t)
  BY <1>2 DEF Break
<1>3. CASE EnterIdle(t)
  BY <1>3 DEF EnterIdle
<1>4. CASE LeaveIdle(t)
  BY <1>4 DEF LeaveIdle
<1>5. CASE handleFiber(t)
  BY <1>5 DEF handleFiber
<1>6. CASE LeaveFiber(t)
  BY <1>6 DEF LeaveFiber
<1>7. CASE hasTimer(t)
  BY <1>7 DEF hasTimer
<1>8. CASE pendingEvents(t)
  BY <1>8 DEF pendingEvents
<1>9. CASE canStop(t)
  BY <1>9 DEF canStop
<1>10. CASE WaitPipe(t)
  BY <1>10 DEF WaitPipe
<1>11. CASE WaitTimer(t)
  <2>1. /\ UNCHANGED <<pool, pending, next>> /\ pc[t] = "epoll_wait"
        /\ pc' \in {[pc EXCEPT ![t] = "yield"], [pc EXCEPT ![t] = "expired"]}
    BY <1>11 DEF WaitTimer
  <2>2. Handlers' = Handlers
    BY <2>1
  <2>3. \A j \in Jobs : armed'[j] = "event" <=> armed[j] = "event"
    BY <1>11 DEF WaitTimer, Timers
  <2> QED
    BY <2>1, <2>2, <2>3
<1>12. CASE Expired(t)
  BY <1>12 DEF Expired
<1>13. CASE ThreadWeakup(t)
  BY <1>13 DEF ThreadWeakup
<1>14. CASE ArmTimer(t)
  <2>1. cur[t] \in Jobs /\ Owns(t, cur[t])
    BY <1>14 DEF ArmTimer, Owns, Body
  <2>2. armed[cur[t]] = "nothing"
    BY <2>1 DEF JobInv, OwnedOnce
  <2> QED
    BY <1>14, <2>1, <2>2 DEF ArmTimer
<1>15. CASE YieldToHold(t)
  BY <1>15 DEF YieldToHold
<1>16. CASE BodySchedule(t)
  BY <1>16 DEF BodySchedule
<1>17. CASE MainFunc(t)
  BY <1>17 DEF MainFunc
<1> QED
  BY <1>1, <1>2, <1>3, <1>4, <1>5, <1>6, <1>7, <1>8, <1>9, <1>10, <1>11, <1>12, <1>13,
     <1>14, <1>15, <1>16, <1>17 DEF run

LEMMA PendingStep == DataInv /\ JobInv /\ PendingInv /\ [Next]_vars => PendingInv'
<1> SUFFICES ASSUME DataInv, JobInv, PendingInv, [Next]_vars PROVE PendingInv'
  OBVIOUS
<1>1. ASSUME PendingKept PROVE PendingInv'
  BY <1>1 DEF PendingKept, PendingInv
<1>2. ASSUME NEW t \in pool, ArmEvent(t) PROVE PendingInv'
  <2> DEFINE x == cur[t]
  <2>1. x \in Jobs /\ Owns(t, x)
    BY <1>2 DEF ArmEvent, Goto, Owns, Body, DataInv, DataOK, PcInv, InFiber
  <2>2. x \notin Events
    BY <2>1 DEF JobInv, OwnedOnce, Events
  <2>3. Events' = Events \cup {x} /\ Handlers' = Handlers /\ pending' = pending + 1
    BY <1>2, <2>1 DEF ArmEvent, Goto, Events, Handlers, DataInv, DataOK, PcInv
  <2> HIDE DEF x
  <2> QED
    BY <2>1, <2>2, <2>3, PendingCount DEF PendingInv
<1>3. ASSUME NEW t \in pool, WaitEvent(t) PROVE PendingInv'
  <2>1. PICK j \in Jobs \cap ready :
          /\ Goto(t, "epoll_wait", IF tasks = <<>> THEN "weakup" ELSE "handled")
          /\ armed' = [armed EXCEPT ![j] = "nothing"]
          /\ next' = [next EXCEPT ![t] = IF tasks = <<>> THEN "handled" ELSE "take"]
          /\ UNCHANGED <<pool, pending>>
    BY <1>3 DEF WaitEvent
  <2>2. j \in Events
    BY DEF JobInv, ReadyArmed, Events
  <2>3. Events' = Events \ {j} /\ Handlers' = Handlers \cup {t} /\ t \notin Handlers
    BY <2>1 DEF Goto, Events, Handlers, DataInv, DataOK, PcInv
  <2>4. Cardinality(Handlers \cup {t}) = Cardinality(Handlers) + 1
    BY <2>3, PoolCount DEF Handlers
  <2>5. j \in Jobs /\ pending' = pending
    BY <2>1
  <2> QED
    BY <2>2, <2>3, <2>4, <2>5, PendingCount DEF PendingInv
<1>4. ASSUME NEW t \in pool, Handled(t) PROVE PendingInv'
  <2>1. /\ Events' = Events /\ Handlers' = Handlers \ {t} /\ t \in Handlers
        /\ pending' = pending - 1
    BY <1>4 DEF Handled, Goto, Events, Handlers, DataInv, DataOK, PcInv
  <2>2. Cardinality(Handlers \ {t}) = Cardinality(Handlers) - 1
    BY <2>1, PoolCount DEF Handlers
  <2> QED
    BY <2>1, <2>2, PendingFinite DEF PendingInv
<1>5. ASSUME NEW j \in Jobs, Submit(j) \/ Happen(j) PROVE PendingInv'
  BY <1>1, <1>5 DEF Submit, Happen, PendingKept, Events, Handlers
<1>6. CASE stop \/ Stopping \/ Tick \/ UNCHANGED vars
  BY <1>1, <1>6
  DEF stop, Stopping, SubmitWeakup, StopWeakup, Join, Tick, vars, PendingKept, Events, Handlers
<1> QED
  BY <1>1, <1>2, <1>3, <1>4, <1>5, <1>6, RunPendingKept DEF Next

-----------------------------------------------------------------------------
(* A thread stays *)

(***************************************************************************)
(* canStop() looks at the timers, at the pending count and at the queue,   *)
(* in this order and at three times.  While there is a timer, some thread  *)
(* has not gone past the first look; while an event is pending, some       *)
(* thread has not gone past the second, and while a task is queued some    *)
(* thread has not gone past the third: the thread that armed it or         *)
(* scheduled it, at the latest.                                            *)
(***************************************************************************)
TimerStays ==
  Timers # {} => \E t \in pool : ~idleDone[t] /\ pc[t] \notin {"pending", "canStop"}
PendingStays ==
  pending # 0 => \E t \in pool : ~idleDone[t] /\ pc[t] # "canStop"
TaskStays ==
  tasks # <<>> => \E t \in pool : ~idleDone[t]

StayInv == TimerStays /\ PendingStays /\ TaskStays

LEMMA StayInit == Init => StayInv
  BY DEF Init, StayInv, TimerStays, PendingStays, TaskStays, Timers

(* What a step of a thread does to the threads and to what they look for. *)
ThreadMoves(t) ==
  /\ UNCHANGED <<pool, running>>
  /\ \A u \in pool : u # t => pc'[u] = pc[u] /\ cur'[u] = cur[u] /\ idleDone'[u] = idleDone[u]
  /\ idleDone'[t] = idleDone[t] \/ canStop(t)
  /\ pc'[t] \notin {"pending", "canStop"} \/ hasTimer(t) \/ pendingEvents(t) \/ canStop(t)
  /\ Timers' \subseteq Timers \/ ArmTimer(t)
  /\ pending' = pending \/ ArmEvent(t) \/ Handled(t)
  /\ tasks' # <<>> => tasks # <<>> \/ ~idleDone'[t]

LEMMA RunMoves ==
  ASSUME DataInv, NEW t \in pool, run(t)
  PROVE  ThreadMoves(t)
<1> USE DEF DataInv, DataOK, PcInv, InFiber, Goto, ThreadMoves
<1>0. ASSUME UNCHANGED armed PROVE Timers' = Timers
  BY <1>0 DEF Timers
<1>1. CASE take(t)
  <2>1. tasks' # <<>> => tasks # <<>>
    BY <1>1 DEF take, Takeable
  <2> QED
    BY <1>0, <1>1, <2>1 DEF take
<1>2. CASE Break(t)
  BY <1>0, <1>2 DEF Break
<1>3. CASE EnterIdle(t)
  BY <1>0, <1>3 DEF EnterIdle
<1>4. CASE LeaveIdle(t)
  BY <1>0, <1>4 DEF LeaveIdle
<1>5. CASE handleFiber(t)
  BY <1>0, <1>5 DEF handleFiber
<1>6. CASE LeaveFiber(t)
  BY <1>0, <1>6 DEF LeaveFiber
<1>7. CASE hasTimer(t)
  BY <1>0, <1>7 DEF hasTimer
<1>8. CASE pendingEvents(t)
  BY <1>0, <1>8 DEF pendingEvents
<1>9. CASE canStop(t)
  BY <1>0, <1>9 DEF canStop
<1>10. CASE WaitPipe(t)
  BY <1>0, <1>10 DEF WaitPipe
<1>11. CASE WaitTimer(t)
  <2>1. Timers' \subseteq Timers
    BY <1>11 DEF WaitTimer, Timers
  <2> QED
    BY <1>11, <2>1 DEF WaitTimer
<1>12. CASE Expired(t)
  BY <1>0, <1>12 DEF Expired
<1>13. CASE WaitEvent(t)
  <2>1. Timers' \subseteq Timers
    BY <1>13 DEF WaitEvent, Timers
  <2>2. /\ pc[t] = "epoll_wait"
        /\ pc' \in {[pc EXCEPT ![t] = "weakup"], [pc EXCEPT ![t] = "handled"]}
        /\ UNCHANGED <<pool, running, pending, cur, idleDone>>
    BY <1>13 DEF WaitEvent
  <2> QED
    BY ZenonT(60), <2>1, <2>2
<1>14. CASE Handled(t)
  BY <1>0, <1>14 DEF Handled
<1>15. CASE ThreadWeakup(t)
  BY <1>0, <1>15 DEF ThreadWeakup
<1>16. CASE ArmEvent(t)
  <2>1. Timers' \subseteq Timers
    BY <1>16 DEF ArmEvent, Timers
  <2> QED
    BY <1>16, <2>1 DEF ArmEvent
<1>17. CASE ArmTimer(t)
  BY <1>0, <1>17 DEF ArmTimer
<1>18. CASE YieldToHold(t)
  BY <1>0, <1>18 DEF YieldToHold
<1>19. CASE BodySchedule(t)
  <2>1. /\ pc[t] = "body" /\ pc' \in {[pc EXCEPT ![t] = "weakup"], [pc EXCEPT ![t] = "body"]}
        /\ UNCHANGED <<pool, running, armed, pending, cur, idleDone>>
    BY <1>19 DEF BodySchedule
  <2> QED
    BY ZenonT(60), <1>0, <2>1
<1>20. CASE MainFunc(t)
  BY <1>0, <1>20 DEF MainFunc
<1> QED
  BY <1>1, <1>2, <1>3, <1>4, <1>5, <1>6, <1>7, <1>8, <1>9, <1>10, <1>11, <1>12, <1>13,
     <1>14, <1>15, <1>16, <1>17, <1>18, <1>19, <1>20 DEF run

LEMMA RunStay ==
  ASSUME DataInv, PendingInv, StayInv, NEW t \in pool, run(t)
  PROVE  StayInv'
<1>1. ThreadMoves(t)
  BY RunMoves
<1> USE DEF DataInv, DataOK, PcInv, InFiber, Goto, ThreadMoves
<1>2. TimerStays'
  <2> SUFFICES ASSUME Timers' # {}
               PROVE  \E u \in pool : ~idleDone'[u] /\ pc'[u] \notin {"pending", "canStop"}
    BY <1>1 DEF TimerStays
  <2>1. CASE ArmTimer(t)
    BY ZenonT(60), <2>1 DEF ArmTimer
  <2>2. CASE ~ArmTimer(t)
    <3>1. PICK u \in pool : ~idleDone[u] /\ pc[u] \notin {"pending", "canStop"}
      BY <1>1, <2>2 DEF StayInv, TimerStays
    <3>2. Timers # {}
      BY <1>1, <2>2
    <3>3. CASE u # t
      BY <1>1, <3>1, <3>3
    <3>4. CASE u = t
      BY <1>1, <3>1, <3>2, <3>4 DEF hasTimer, pendingEvents, canStop
    <3> QED
      BY <3>3, <3>4
  <2> QED
    BY <2>1, <2>2
<1>3. PendingStays'
  <2> SUFFICES ASSUME pending' # 0
               PROVE  \E u \in pool : ~idleDone'[u] /\ pc'[u] # "canStop"
    BY <1>1 DEF PendingStays
  <2>1. CASE ArmEvent(t) \/ Handled(t)
    BY ZenonT(60), <2>1 DEF ArmEvent, Handled
  <2>2. CASE ~ArmEvent(t) /\ ~Handled(t)
    <3>1. pending # 0
      BY <1>1, <2>2
    <3>2. PICK u \in pool : ~idleDone[u] /\ pc[u] # "canStop"
      BY <3>1 DEF StayInv, PendingStays
    <3>3. CASE u # t
      BY <1>1, <3>2, <3>3
    <3>4. CASE u = t
      BY <1>1, <3>1, <3>2, <3>4 DEF hasTimer, pendingEvents, canStop
    <3> QED
      BY <3>3, <3>4
  <2> QED
    BY <2>1, <2>2
<1>4. TaskStays'
  <2> SUFFICES ASSUME tasks' # <<>>
               PROVE  \E u \in pool : ~idleDone'[u]
    BY <1>1 DEF TaskStays
  <2>1. CASE tasks = <<>>
    BY <1>1, <2>1
  <2>2. CASE tasks # <<>>
    <3>1. PICK u \in pool : ~idleDone[u]
      BY <2>2 DEF StayInv, TaskStays
    <3>2. CASE u # t
      BY <1>1, <3>1, <3>2
    <3>3. CASE u = t
      BY <1>1, <2>2, <3>1, <3>3 DEF canStop
    <3> QED
      BY <3>2, <3>3
  <2> QED
    BY <2>1, <2>2
<1> QED
  BY <1>2, <1>3, <1>4 DEF StayInv

LEMMA StayStep == DataInv /\ PendingInv /\ StayInv /\ [Next]_vars => StayInv'
<1> SUFFICES ASSUME DataInv, PendingInv, StayInv, [Next]_vars PROVE StayInv'
  OBVIOUS
<1> USE DEF StayInv, TimerStays, PendingStays, TaskStays, Timers
<1>1. ASSUME NEW j \in Jobs, Submit(j) PROVE StayInv'
  <2>1. PICK t \in pool : TRUE
    BY IOLoopAssumption DEF DataInv, DataOK
  <2>2. ~idleDone[t]
    BY <1>1 DEF Submit, DataInv, PcInv
  <2> QED
    BY <1>1, <2>2 DEF Submit
<1>2. ASSUME NEW j \in Jobs, Happen(j) PROVE StayInv'
  BY <1>2 DEF Happen
<1>3. CASE stop \/ Stopping \/ Tick \/ UNCHANGED vars
  BY <1>3 DEF stop, Stopping, SubmitWeakup, StopWeakup, Join, Tick, vars
<1> HIDE DEF StayInv, TimerStays, PendingStays, TaskStays, Timers
<1> QED
  BY <1>1, <1>2, <1>3, RunStay DEF Next

-----------------------------------------------------------------------------
(* A queued task is noticed *)

(***************************************************************************)
(* A thread that is to look into the queue, or to come back from where it  *)
(* is to run().  The others are in idle() on the way to epoll_wait, or     *)
(* have just found nothing.                                                *)
(***************************************************************************)
Looks(t) ==
  \/ pc[t] \in {"take", "body", "armed", "leave", "weakup", "expired", "handled",
               "yield", "exited"}
  \/ pc[t] = "took" /\ (cur[t] # NoJob \/ idleDone[t])

(***************************************************************************)
(* When a task is queued and no wake-up was missed, weakup() is still to   *)
(* be called, or the pipe is to be reported, or a thread is to look.       *)
(***************************************************************************)
WakeInv ==
  tasks # <<>> /\ ~missed =>
    owner = "weakup" \/ "pipe" \in ready \/ \E t \in pool : Looks(t)

LEMMA WakeInit == Init => WakeInv
  BY DEF Init, WakeInv

(* weakup() that misses nobody. *)
LEMMA WeakupWakes ==
  ASSUME DataInv, CountInv, weakup, ~missed'
  PROVE  "pipe" \in ready' \/ \E t \in pool : Looks(t)
<1>1. CASE idle > 0
  BY <1>1 DEF weakup
<1>2. CASE ~(idle > 0)
  <2>1. PICK t \in pool : TRUE
    BY IOLoopAssumption DEF DataInv, DataOK
  <2>2. Idling \in SUBSET pool
    BY DEF Idling
  <2>3. idle = 0
    <3>1. Cardinality(Idling) \in Nat
      BY <2>1, <2>2, PoolCount
    <3>2. idle = Cardinality(Idling)
      BY DEF CountInv
    <3> QED
      BY <1>2, <3>1, <3>2
  <2>4. Idling = {}
    BY <2>1, <2>2, <2>3, PoolCount DEF CountInv
  <2>5. ~InIdle(t)
    BY <2>4 DEF Idling
  <2>6. Unseen = {}
    BY <2>3 DEF weakup
  <2>7. ~(pc[t] = "took" /\ cur[t] = NoJob /\ ~idleDone[t])
    BY <2>6 DEF Unseen
  <2>8. Looks(t)
    BY <2>5, <2>7 DEF InIdle, Looks, DataInv, PcInv
  <2> QED
    BY <2>8
<1> QED
  BY <1>1, <1>2

(* Most steps of a thread leave it where it looks into the queue next.        *)
Passing(t) ==
  \/ take(t) /\ Takeable = {}
  \/ EnterIdle(t) \/ hasTimer(t) \/ pendingEvents(t) \/ canStop(t)

LEMMA RunLooks ==
  ASSUME DataInv, NEW t \in pool, run(t)
  PROVE  Looks(t)' \/ Passing(t)
<1> USE DEF DataInv, DataOK, PcInv, InFiber, Goto, Looks
<1>1. ASSUME take(t), Takeable # {} PROVE Looks(t)'
  <2>1. tasks[First] \in Jobs
    BY <1>1, FirstTakeable
  <2> QED
    BY <1>1, <2>1, IOLoopAssumption DEF take
<1>2. CASE Break(t)
  BY <1>2 DEF Break
<1>3. CASE LeaveIdle(t)
  BY <1>3 DEF LeaveIdle
<1>4. CASE handleFiber(t)
  BY <1>4 DEF handleFiber
<1>5. CASE LeaveFiber(t)
  BY <1>5 DEF LeaveFiber
<1>6. CASE WaitPipe(t)
  BY <1>6 DEF WaitPipe
<1>7. CASE WaitTimer(t)
  BY <1>7 DEF WaitTimer
<1>8. CASE Expired(t)
  BY <1>8 DEF Expired
<1>9. CASE WaitEvent(t)
  BY <1>9 DEF WaitEvent
<1>10. CASE Handled(t)
  BY <1>10 DEF Handled
<1>11. CASE ThreadWeakup(t)
  BY <1>11 DEF ThreadWeakup
<1>12. CASE ArmEvent(t)
  BY <1>12 DEF ArmEvent
<1>13. CASE ArmTimer(t)
  BY <1>13 DEF ArmTimer
<1>14. CASE YieldToHold(t)
  BY <1>14 DEF YieldToHold
<1>15. CASE BodySchedule(t)
  BY <1>15 DEF BodySchedule
<1>16. CASE MainFunc(t)
  BY <1>16 DEF MainFunc
<1> QED
  BY <1>1, <1>2, <1>3, <1>4, <1>5, <1>6, <1>7, <1>8, <1>9, <1>10, <1>11, <1>12, <1>13,
     <1>14, <1>15, <1>16 DEF run, Passing

LEMMA RunWake ==
  ASSUME DataInv, JobInv, WakeInv, NEW t \in pool, run(t)
  PROVE  WakeInv'
<1> SUFFICES ASSUME tasks' # <<>>, ~missed'
             PROVE  owner' = "weakup" \/ "pipe" \in ready' \/ \E u \in pool : Looks(u)'
  <2>1. pool' = pool
    BY RunMoves DEF ThreadMoves
  <2> QED
    BY <2>1 DEF WakeInv
<1>1. CASE take(t) /\ Takeable = {}
  <2>1. tasks' = tasks /\ tasks \in Seq(Jobs)
    BY <1>1 DEF take, DataInv, DataOK
  <2>2. 1 \in DOMAIN tasks /\ tasks[1] \in Jobs
    BY <2>1
  <2>3. state[tasks[1]] = "EXEC"
    BY <1>1, <2>2 DEF Takeable
  <2>4. PICK u \in pool : Execs(u, tasks[1])
    BY <2>2, <2>3 DEF JobInv, ExecInv
  <2>5. pc[u] \in {"body", "armed", "weakup"} /\ u # t
    BY <1>1, <2>4 DEF Execs, Body, HasArmed, take, Goto
  <2>6. Looks(u)'
    BY <1>1, <2>5 DEF take, Goto, Looks, DataInv, PcInv
  <2> QED
    BY <2>6
<1>2. CASE EnterIdle(t) \/ hasTimer(t) \/ pendingEvents(t) \/ canStop(t)
  <2>1. UNCHANGED <<tasks, missed, ready, owner>> /\ ~Looks(t)
    BY <1>2 DEF EnterIdle, hasTimer, pendingEvents, canStop, Goto, Looks
  <2>2. \A u \in pool : Looks(u) => Looks(u)'
    BY <2>1, RunMoves DEF ThreadMoves, Looks
  <2> QED
    BY <2>1, <2>2 DEF WakeInv
<1> QED
  BY <1>1, <1>2, RunLooks DEF Passing

LEMMA WakeStep ==
  DataInv /\ CountInv /\ JobInv /\ WakeInv /\ [Next]_vars => WakeInv'
<1> SUFFICES ASSUME DataInv, CountInv, JobInv, WakeInv, [Next]_vars PROVE WakeInv'
  OBVIOUS
<1>1. ASSUME NEW j \in Jobs, Submit(j) PROVE WakeInv'
  BY <1>1 DEF Submit, Push, WakeInv, Looks
<1>2. CASE SubmitWeakup
  <2>1. UNCHANGED <<pool, tasks, pc, cur, idleDone>> /\ weakup
    BY <1>2 DEF SubmitWeakup
  <2>2. \A t \in pool : Looks(t)' <=> Looks(t)
    BY <2>1 DEF Looks
  <2> QED
    BY <2>1, <2>2, WeakupWakes DEF WakeInv
<1>3. CASE StopWeakup
  BY <1>3 DEF StopWeakup, weakup, WakeInv, Looks
<1>4. ASSUME NEW j \in Jobs, Happen(j) PROVE WakeInv'
  BY <1>4 DEF Happen, WakeInv, Looks
<1>5. CASE stop \/ Join \/ Tick \/ UNCHANGED vars
  BY <1>5 DEF stop, Join, Tick, vars, WakeInv, Looks
<1> QED
  BY <1>1, <1>2, <1>3, <1>4, <1>5, RunWake DEF Next, Stopping

-----------------------------------------------------------------------------
(* What holds in every state *)

LoopInv ==
  DataInv /\ CountInv /\ JobInv /\ PendingInv /\ StayInv /\ WakeInv

LEMMA LoopInvariant == Spec => []LoopInv
<1>1. Init => LoopInv
  BY DataInit, CountInit, JobInit, PendingInit, StayInit, WakeInit DEF LoopInv
<1>2. LoopInv /\ [Next]_vars => LoopInv'
  BY DataStep, CountStep, JobStep, PendingStep, StayStep, WakeStep DEF LoopInv
<1> QED
  BY <1>1, <1>2, PTL DEF Spec

(***************************************************************************)
(* Every variable keeps to its domain, and the thread counters that        *)
(* canStop() and weakup() read from other threads (Scheduler.h:135) count  *)
(* exactly the threads that are in a task and in the idle fiber.           *)
(***************************************************************************)
THEOREM TypeCorrect == Spec => []TypeOK
<1>1. LoopInv => TypeOK
  <2> SUFFICES ASSUME LoopInv PROVE TypeOK
    OBVIOUS
  <2>1. pending \in Nat
    BY PendingFinite DEF LoopInv, PendingInv
  <2> QED
    BY <2>1
    DEF TypeOK, LoopInv, DataInv, DataOK, CountInv, Active, Idling, InFiber, InIdle
<1> QED
  BY <1>1, LoopInvariant, PTL

(***************************************************************************)
(* All threads asleep in epoll_wait over a queued task: only after a call  *)
(* of weakup() (IOManager.cc:281) that came before the increment of        *)
(* idleThreadNums_ by a thread that had already found the queue empty.     *)
(***************************************************************************)
THEOREM SleepCorrect == Spec => []SleepOnlyIfMissed
<1>1. LoopInv => SleepOnlyIfMissed
  <2> SUFFICES ASSUME LoopInv, \A t \in pool : Asleep(t), owner # "weakup",
                      tasks # <<>>, ~missed
               PROVE  FALSE
    BY DEF SleepOnlyIfMissed
  <2>1. PICK t \in pool : TRUE
    BY IOLoopAssumption DEF LoopInv, DataInv, DataOK
  <2>2. ready = {} /\ \A u \in pool : ~Looks(u)
    BY <2>1 DEF Asleep, Looks
  <2> QED
    BY <2>2 DEF LoopInv, WakeInv
<1> QED
  BY <1>1, LoopInvariant, PTL

(***************************************************************************)
(* When the last thread has left run() and stop() can return, no task is   *)
(* queued, no timer set, no event awaited and no job left alive, although  *)
(* canStop() reads them one after the other while other threads go on.     *)
(***************************************************************************)
THEOREM DrainedCorrect == Spec => []DrainedAtJoin
<1>1. LoopInv => DrainedAtJoin
  <2> SUFFICES ASSUME LoopInv, \A t \in pool : pc[t] = "exited"
               PROVE  /\ tasks = <<>> /\ Timers = {} /\ pending = 0
                      /\ \A j \in Jobs : Settled(j)
    BY DEF DrainedAtJoin
  <2> USE DEF LoopInv
  <2>1. \A t \in pool : idleDone[t]
    BY DEF DataInv, PcInv
  <2>2. tasks = <<>> /\ Timers = {} /\ pending = 0
    BY <2>1 DEF StayInv, TimerStays, PendingStays, TaskStays
  <2>3. ASSUME NEW j \in Jobs PROVE Settled(j)
    <3>1. ~Queued(j)
      BY <2>2 DEF Queued, Range
    <3>2. armed[j] # "timer"
      BY <2>2 DEF Timers
    <3>3. armed[j] # "event"
      <4>1. Events = {}
        <5>1. Cardinality(Events) = 0
          BY <2>2, PendingFinite DEF PendingInv
        <5> QED
          BY <5>1, PendingFinite, FS_EmptySet
      <4> QED
        BY <4>1 DEF Events
    <3>4. armed[j] = "nothing"
      BY <3>2, <3>3 DEF DataInv, DataOK
    <3>5. \A t \in pool : ~Owns(t, j) /\ ~Due(t, j)
      BY DEF Owns, Took, Body, Due, Range, DataInv, PcInv
    <3>6. ~Present(j)
      BY <3>1, <3>4, <3>5 DEF Present
    <3> QED
      BY <3>6 DEF JobInv, LiveInv, Settled, DataInv, DataOK
  <2> QED
    BY <2>2, <2>3
<1> QED
  BY <1>1, LoopInvariant, PTL

(***************************************************************************)
(* No fiber is run by two threads, and none that runs is queued before it  *)
(* has armed an event or a timer: what is armed may come before the fiber  *)
(* is suspended, and take() then leaves the task in the queue              *)
(* (Scheduler.cc:169) until it is.                                         *)
(***************************************************************************)
OneRunner ==
  \A j \in Jobs, t \in pool : Execs(t, j) =>
    /\ \A u \in pool : (Took(u, j) \/ Execs(u, j)) => u = t
    /\ Queued(j) => HasArmed(t, j)

THEOREM RunOnceCorrect == Spec => []OneRunner
<1>1. LoopInv => OneRunner
  <2> SUFFICES ASSUME LoopInv, NEW j \in Jobs, NEW t \in pool, Execs(t, j)
               PROVE  /\ \A u \in pool : (Took(u, j) \/ Execs(u, j)) => u = t
                      /\ Queued(j) => HasArmed(t, j)
    BY DEF OneRunner
  <2>1. \A u \in pool : ~Took(u, j) /\ (Execs(u, j) => u = t)
    BY DEF LoopInv, JobInv, ExecInv
  <2>2. Queued(j) => ~Body(t, j)
    BY DEF LoopInv, JobInv, QueuedOnce, Owns
  <2> QED
    BY <2>1, <2>2 DEF Execs
<1> QED
  BY <1>1, LoopInvariant, PTL
=============================================================================
