--------------------------- MODULE SchedulerProofs ---------------------------
(***************************************************************************)
(* Proofs about the scheduler, for every set of pool threads, every set of *)
(* fibers and every choice of thread designations.                         *)
(***************************************************************************)
EXTENDS Scheduler, SequenceFacts

USE DEF Threads

(***************************************************************************)
(* How the number of threads inside a region of run() changes.             *)
(***************************************************************************)
LEMMA FiniteThreads == IsFiniteSet(Threads)
  BY ThreadsAssumption, FS_AddElement

LEMMA CountFacts ==
  ASSUME NEW S \in SUBSET Threads, NEW t \in Threads
  PROVE  /\ t \notin S => Cardinality(S \cup {t}) = Cardinality(S) + 1
         /\ t \in S => Cardinality(S \ {t}) = Cardinality(S) - 1
<1>1. IsFiniteSet(S)
  BY FiniteThreads, FS_Subset
<1> QED
  BY <1>1, FS_AddElement, FS_RemoveElement

USE DEF State, Finished, Resumable, OnStack, Engaged, Idling, InLoop,
        WorkerPc, CallerPc

(***************************************************************************)
(* Where the threads can be together, and what a thread holds where.       *)
(***************************************************************************)
ControlInv ==
  /\ \A w \in Workers : pc[w] \in WorkerPc
  /\ pc[Caller] \in CallerPc
  /\ ~UseCaller => pc[Caller] \in {"client", "join"}
  /\ \A t \in Threads : pc[t] \in Engaged => cur[t] \in Fibers
  /\ pc[Caller] = "client" => ~idleDone[Caller]
  /\ \A w \in Workers : pc[w] = "none" => ~idleDone[w]
  /\ running => pc[Caller] = "client"
  /\ (pc[Caller] = "client" /\ ~running) => \A w \in Workers : pc[w] = "none"
  /\ NoExitWhileRunning

(* The invariant that is inductive for types, counters and control. *)
BaseInv == TypeOK /\ CountersExact /\ ControlInv

LEMMA BaseInit == Init => BaseInv
<1> SUFFICES ASSUME Init PROVE BaseInv
  OBVIOUS
<1>1. TypeOK
  <2>1. tasks \in Seq(Task)
    BY DEF Init
  <2>2. /\ fstate \in [Fibers -> State \cup {"UNUSED", "CB"}]
        /\ yields \in [Fibers -> 0..MaxYields]
        /\ pc \in [Threads -> WorkerPc \cup CallerPc]
        /\ cur \in [Threads -> Fibers \cup {NoFiber}]
        /\ idleDone \in [Threads -> BOOLEAN]
    BY FibersAssumption DEF Init
  <2>3. /\ waiting \subseteq Fibers /\ dropped \subseteq Fibers
        /\ active \in Nat /\ idle \in Nat /\ starts \in 0..MaxStarts
    BY FibersAssumption DEF Init
  <2>4. /\ running \in BOOLEAN /\ aborted \in BOOLEAN
        /\ callerFiber \in State
    BY DEF Init
  <2> QED
    BY <2>1, <2>2, <2>3, <2>4 DEF TypeOK
<1>2. ControlInv
  BY ThreadsAssumption DEF Init, ControlInv, NoExitWhileRunning
<1>3. CountersExact
  <2>1. /\ {t \in Threads : pc[t] \in Engaged} = {}
        /\ {t \in Threads : pc[t] \in Idling} = {}
    BY DEF Init
  <2> QED
    BY <2>1, FS_EmptySet DEF CountersExact, Init
<1> QED
  BY <1>1, <1>2, <1>3 DEF BaseInv

(***************************************************************************)
(* A thread counted in activeThreadNums_ or idleThreadNums_ makes the      *)
(* counter positive, so its decrement stays in Nat.                        *)
(***************************************************************************)
LEMMA CountPositive ==
  ASSUME CountersExact, NEW t \in Threads
  PROVE  /\ pc[t] \in Engaged => active \in Nat \ {0}
         /\ pc[t] \in Idling => idle \in Nat \ {0}
<1>1. ASSUME NEW E, pc[t] \in E
      PROVE  Cardinality({u \in Threads : pc[u] \in E}) \in Nat \ {0}
  <2> DEFINE C == {u \in Threads : pc[u] \in E}
  <2>1. IsFiniteSet(C) /\ t \in C
    BY <1>1, FiniteThreads, FS_Subset
  <2> QED
    BY <2>1, FS_CardinalityType, FS_EmptySet
<1> QED
  BY <1>1 DEF CountersExact

LEMMA TypeStep ==
  ASSUME BaseInv, [Next]_vars
  PROVE  TypeOK'
<1> USE FibersAssumption, ThreadsAssumption DEF BaseInv
<1>a. TypeOK /\ ControlInv /\ CountersExact
  OBVIOUS
<1>b. ASSUME NEW f \in Fibers, NEW tid \in Pins[f], schedule(f, tid)
      PROVE  tasks' \in Seq(Task)
  <2>1. [fiber |-> f, tid |-> tid] \in Task
    BY DEF Task
  <2> QED
    BY <1>a, <1>b, <2>1 DEF schedule, TypeOK
<1>c. ASSUME NEW f \in Fibers, scheduleNew(f), UNCHANGED pc
      PROVE  TypeOK'
  BY <1>a, <1>b, <1>c DEF scheduleNew, TypeOK
<1>d. ASSUME NEW f \in Fibers, scheduleAgain(f), UNCHANGED pc
      PROVE  TypeOK'
  BY <1>a, <1>b, <1>d DEF scheduleAgain, TypeOK
<1>1. ASSUME NEW t \in Threads, take(t)
      PROVE  TypeOK'
  <2>1. tasks' \in Seq(Task) /\ cur' \in [Threads -> Fibers \cup {NoFiber}]
    <3>1. CASE UNCHANGED tasks /\ cur' = [cur EXCEPT ![t] = NoFiber]
      BY <1>a, <3>1 DEF TypeOK
    <3>2. ASSUME NEW i \in DOMAIN tasks, tasks' = RemoveAt(tasks, i),
                 cur' = [cur EXCEPT ![t] = tasks[i].fiber]
          PROVE  tasks' \in Seq(Task) /\ cur' \in [Threads -> Fibers \cup {NoFiber}]
      <4>1. tasks \in Seq(Task)
        BY <1>a DEF TypeOK
      <4>2. tasks' \in Seq(Task)
        BY <4>1, <3>2, EraseFacts
      <4>3. tasks[i] \in Task
        BY <4>1
      <4>4. tasks[i].fiber \in Fibers
        BY <4>3 DEF Task
      <4> QED
        BY <1>a, <3>2, <4>2, <4>4 DEF TypeOK
    <3> QED
      BY <1>1, <3>1, <3>2 DEF take
  <2> QED
    BY <1>a, <1>1, <2>1 DEF TypeOK, take, Goto
<1>2. ASSUME NEW t \in Threads, CheckExit(t) \/ CheckIdle(t) \/ CheckTask(t)
      PROVE  TypeOK'
  <2>1. CASE CheckExit(t)
    BY <1>a, <2>1 DEF TypeOK, CheckExit, Goto
  <2>2. CASE CheckIdle(t)
    BY <1>a, <2>2 DEF TypeOK, CheckIdle, Goto
  <2>3. CASE CheckTask(t)
    <3>1. /\ fstate' \in [Fibers -> State \cup {"UNUSED", "CB"}]
          /\ active' \in Nat
          /\ cur' \in [Threads -> Fibers \cup {NoFiber}]
          /\ pc' \in [Threads -> WorkerPc \cup CallerPc]
      <4>1. CASE fstate[cur[t]] \in Finished
        BY ZenonT(60), <1>a, <2>3, <4>1 DEF TypeOK, CheckTask
      <4>2. CASE fstate[cur[t]] \notin Finished
        BY SMTT(60), <1>a, <2>3, <4>2 DEF TypeOK, CheckTask
      <4> QED
        BY <4>1, <4>2
    <3> QED
      BY <1>a, <2>3, <3>1 DEF TypeOK, CheckTask
  <2> QED
    BY <1>2, <2>1, <2>2, <2>3
<1>3. ASSUME NEW t \in Threads, Idle(t)
      PROVE  TypeOK'
  BY <1>a, <1>3 DEF TypeOK, Idle, Goto, canStop
<1>4. ASSUME NEW t \in Threads, IdleLeave(t) \/ Leave(t)
      PROVE  TypeOK'
  <2>1. /\ pc[t] = "leave" => active - 1 \in Nat
        /\ pc[t] = "idled" => idle - 1 \in Nat
    BY <1>a, CountPositive
  <2> QED
    BY ZenonT(60), <1>a, <1>4, <2>1 DEF TypeOK, IdleLeave, Leave, Goto
<1>5. ASSUME NEW t \in Threads, sched_resume(t) \/ sched_yield(t)
      PROVE  TypeOK'
  BY ZenonT(60), <1>a, <1>5 DEF TypeOK, sched_resume, sched_yield, Goto
<1>6. ASSUME NEW t \in Threads, handleFiber(t)
      PROVE  TypeOK'
  <2>1. cur[t] \in Fibers
    BY <1>a, <1>6 DEF ControlInv, handleFiber, Goto
  <2>2. tasks' \in Seq(Task)
    <3>1. [fiber |-> cur[t], tid |-> AnyThread] \in Task
      BY <2>1 DEF Task
    <3>2. CASE fstate[cur[t]] = "READY"
      <4>1. tasks \in Seq(Task) /\ tasks' = Append(tasks, [fiber |-> cur[t], tid |-> AnyThread])
        BY <1>a, <1>6, <3>2 DEF TypeOK, handleFiber, schedule
      <4> QED
        BY <3>1, <4>1
    <3>3. CASE fstate[cur[t]] # "READY"
      BY <1>a, <1>6, <3>3 DEF TypeOK, handleFiber
    <3> QED
      BY <3>2, <3>3
  <2> QED
    BY <1>a, <1>6, <2>2 DEF TypeOK, handleFiber, Goto
<1>7. ASSUME NEW t \in Threads, YieldToHold(t) \/ MainFunc(t)
      PROVE  TypeOK'
  <2>1. CASE YieldToHold(t)
    BY <1>a, <2>1 DEF TypeOK, YieldToHold, Goto
  <2>2. CASE MainFunc(t)
    <3>1. PICK s \in Finished : fstate' = [fstate EXCEPT ![cur[t]] = s]
      BY <2>2 DEF MainFunc
    <3>2. fstate' \in [Fibers -> State \cup {"UNUSED", "CB"}]
      BY <1>a, <3>1 DEF TypeOK
    <3> QED
      BY <1>a, <2>2, <3>2 DEF TypeOK, MainFunc, Goto
  <2> QED
    BY <1>7, <2>1, <2>2
<1>8. ASSUME NEW t \in Threads, Arm(t)
      PROVE  TypeOK'
  <2>1. cur[t] \in Fibers
    BY <1>a, <1>8 DEF ControlInv, Arm, Goto
  <2> QED
    BY <1>a, <1>8, <2>1 DEF TypeOK, Arm, Goto
<1>9. ASSUME NEW t \in Threads, BodySchedule(t) \/ BodyWake(t)
      PROVE  TypeOK'
  BY <1>a, <1>9, <1>c, <1>d DEF BodySchedule, BodyWake, TypeOK
<1>10. CASE ClientSchedule \/ ExternalWake
  BY <1>a, <1>10, <1>c, <1>d DEF ClientSchedule, ExternalWake, TypeOK
<1>11. CASE start \/ stop \/ StopResume \/ Join
  <2>1. CASE start
    BY <1>a, <2>1 DEF TypeOK, start
  <2>2. CASE stop
    BY <1>a, <2>2 DEF TypeOK, stop
  <2>3. CASE StopResume
    BY <1>a, <2>3 DEF TypeOK, StopResume
  <2>4. CASE Join
    BY <1>a, <2>4 DEF TypeOK, Join
  <2> QED
    BY <1>11, <2>1, <2>2, <2>3, <2>4
<1>12. CASE Aborted \/ UNCHANGED vars
  BY <1>a, <1>12 DEF TypeOK, Aborted, vars
<1> QED
  BY <1>1, <1>2, <1>3, <1>4, <1>5, <1>6, <1>7, <1>8, <1>9, <1>10, <1>11, <1>12
  DEF Next, LoopStep, FiberStep, OwnerStep

LEMMA CounterStep ==
  ASSUME BaseInv, [Next]_vars
  PROVE  CountersExact'
<1>a. TypeOK /\ ControlInv /\ CountersExact
  BY DEF BaseInv
<1>b. pc \in [Threads -> WorkerPc \cup CallerPc]
  BY <1>a DEF TypeOK
<1> DEFINE Count(p, E) == Cardinality({t \in Threads : p[t] \in E})
<1>c. active = Count(pc, Engaged) /\ idle = Count(pc, Idling)
  BY <1>a DEF CountersExact
<1>d. ASSUME active' = Count(pc', Engaged), idle' = Count(pc', Idling)
      PROVE  CountersExact'
  BY <1>d DEF CountersExact
<1>e. ASSUME NEW t \in Threads, NEW x, pc' = [pc EXCEPT ![t] = x], NEW E
      PROVE  /\ (pc[t] \in E <=> x \in E) => Count(pc', E) = Count(pc, E)
             /\ (pc[t] \notin E /\ x \in E) => Count(pc', E) = Count(pc, E) + 1
             /\ (pc[t] \in E /\ x \notin E) => Count(pc', E) = Count(pc, E) - 1
  <2> DEFINE S == {u \in Threads : pc[u] \in E}
             R == {u \in Threads : pc'[u] \in E}
  <2>1. pc'[t] = x /\ \A u \in Threads : u # t => pc'[u] = pc[u]
    BY <1>b, <1>e
  <2>2. /\ (pc[t] \in E <=> x \in E) => R = S
        /\ (pc[t] \notin E /\ x \in E) => R = S \cup {t} /\ t \notin S
        /\ (pc[t] \in E /\ x \notin E) => R = S \ {t} /\ t \in S
    BY <2>1
  <2>3. S \in SUBSET Threads /\ Count(pc, E) = Cardinality(S) /\ Count(pc', E) = Cardinality(R)
    OBVIOUS
  <2> HIDE DEF S, R, Count
  <2> QED
    BY <2>2, <2>3, CountFacts
<1>f. ASSUME UNCHANGED <<pc, active, idle>>
      PROVE  CountersExact'
  BY <1>a, <1>f DEF CountersExact
<1> HIDE DEF Count
(* A step of one thread inside a region, or outside both. *)
<1>g. ASSUME NEW t \in Threads, NEW x, pc' = [pc EXCEPT ![t] = x],
             pc[t] \in Engaged <=> x \in Engaged,
             pc[t] \in Idling <=> x \in Idling,
             UNCHANGED <<active, idle>>
      PROVE  CountersExact'
  BY ZenonT(60), <1>c, <1>d, <1>e, <1>g
<1>1. ASSUME NEW t \in Threads, take(t) \/ Idle(t) \/ YieldToHold(t) \/ sched_yield(t)
      PROVE  CountersExact'
  <2>1. /\ UNCHANGED <<active, idle>>
        /\ \E x : /\ pc' = [pc EXCEPT ![t] = x]
                  /\ pc[t] \in Engaged <=> x \in Engaged
                  /\ pc[t] \in Idling <=> x \in Idling
    BY <1>1 DEF take, Idle, YieldToHold, sched_yield, Goto
  <2> QED
    BY <2>1, <1>g
<1>2. ASSUME NEW t \in Threads, Arm(t) \/ MainFunc(t) \/ handleFiber(t)
      PROVE  CountersExact'
  <2>1. /\ UNCHANGED <<active, idle>>
        /\ \E x : /\ pc' = [pc EXCEPT ![t] = x]
                  /\ pc[t] \in Engaged <=> x \in Engaged
                  /\ pc[t] \in Idling <=> x \in Idling
    BY <1>2 DEF Arm, MainFunc, handleFiber, Goto
  <2> QED
    BY <2>1, <1>g
<1>3. ASSUME NEW t \in Threads, CheckExit(t)
      PROVE  CountersExact'
  <2> DEFINE x == IF t = Caller THEN "join" ELSE "done"
  <2>1. /\ UNCHANGED <<active, idle>>
        /\ pc' = [pc EXCEPT ![t] = x]
        /\ pc[t] \in Engaged <=> x \in Engaged
        /\ pc[t] \in Idling <=> x \in Idling
    BY <1>3 DEF CheckExit, Goto
  <2> QED
    BY <2>1, <1>g
<1>4. ASSUME NEW t \in Threads, CheckIdle(t)
      PROVE  CountersExact'
  <2>1. /\ pc' = [pc EXCEPT ![t] = "idle"] /\ pc[t] = "check"
        /\ active' = active /\ idle' = idle + 1
    BY <1>4 DEF CheckIdle, Goto
  <2>4. /\ pc[t] \notin Engaged /\ pc[t] \notin Idling
        /\ "idle" \in Idling /\ "idle" \notin Engaged
    BY <2>1
  <2> HIDE DEF Engaged, Idling
  <2>2. Count(pc', Engaged) = Count(pc, Engaged)
    BY <2>1, <2>4, <1>e
  <2>3. Count(pc', Idling) = Count(pc, Idling) + 1
    BY <2>1, <2>4, <1>e
  <2> QED
    BY <2>1, <2>2, <2>3, <1>c, <1>d
<1>5. ASSUME NEW t \in Threads, IdleLeave(t)
      PROVE  CountersExact'
  <2>1. /\ pc' = [pc EXCEPT ![t] = "take"] /\ pc[t] = "idled"
        /\ active' = active /\ idle' = idle - 1
    BY <1>5 DEF IdleLeave, Goto
  <2>4. /\ pc[t] \notin Engaged /\ pc[t] \in Idling
        /\ "take" \notin Idling /\ "take" \notin Engaged
    BY <2>1
  <2> HIDE DEF Engaged, Idling
  <2>2. Count(pc', Engaged) = Count(pc, Engaged)
    BY <2>1, <2>4, <1>e
  <2>3. Count(pc', Idling) = Count(pc, Idling) - 1
    BY <2>1, <2>4, <1>e
  <2> QED
    BY <2>1, <2>2, <2>3, <1>c, <1>d
<1>6. ASSUME NEW t \in Threads, CheckTask(t)
      PROVE  CountersExact'
  <2>1. CASE fstate[cur[t]] \in Finished
    <3>1. /\ pc' = [pc EXCEPT ![t] = "take"] /\ pc[t] = "check"
          /\ UNCHANGED <<active, idle>>
      BY <1>6, <2>1 DEF CheckTask
    <3> QED
      BY <3>1, <1>g
  <2>2. CASE fstate[cur[t]] \notin Finished
    <3>1. /\ pc' = [pc EXCEPT ![t] = "resume"] /\ pc[t] = "check"
          /\ active' = active + 1 /\ idle' = idle
      BY <1>6, <2>2 DEF CheckTask
    <3>4. /\ pc[t] \notin Engaged /\ pc[t] \notin Idling
          /\ "resume" \in Engaged /\ "resume" \notin Idling
      BY <3>1
    <3> HIDE DEF Engaged, Idling
    <3>2. Count(pc', Engaged) = Count(pc, Engaged) + 1
      BY <3>1, <3>4, <1>e
    <3>3. Count(pc', Idling) = Count(pc, Idling)
      BY <3>1, <3>4, <1>e
    <3> QED
      BY <3>1, <3>2, <3>3, <1>c, <1>d
  <2> QED
    BY <2>1, <2>2
<1>7. ASSUME NEW t \in Threads, Leave(t)
      PROVE  CountersExact'
  <2>1. /\ pc' = [pc EXCEPT ![t] = "take"] /\ pc[t] = "leave"
        /\ active' = active - 1 /\ idle' = idle
    BY <1>7 DEF Leave, Goto
  <2>4. /\ pc[t] \in Engaged /\ pc[t] \notin Idling
        /\ "take" \notin Idling /\ "take" \notin Engaged
    BY <2>1
  <2> HIDE DEF Engaged, Idling
  <2>2. Count(pc', Engaged) = Count(pc, Engaged) - 1
    BY <2>1, <2>4, <1>e
  <2>3. Count(pc', Idling) = Count(pc, Idling)
    BY <2>1, <2>4, <1>e
  <2> QED
    BY <2>1, <2>2, <2>3, <1>c, <1>d
<1>8. ASSUME NEW t \in Threads, sched_resume(t)
      PROVE  CountersExact'
  <2>1. CASE fstate[cur[t]] \in Resumable
    <3>1. /\ pc' = [pc EXCEPT ![t] = "body"] /\ pc[t] = "resume"
          /\ UNCHANGED <<active, idle>>
      BY <1>8, <2>1 DEF sched_resume
    <3> QED
      BY <3>1, <1>g
  <2>2. CASE fstate[cur[t]] \notin Resumable
    BY <1>8, <2>2, <1>f DEF sched_resume
  <2> QED
    BY <2>1, <2>2
<1>9. ASSUME NEW t \in Threads, BodySchedule(t) \/ BodyWake(t)
      PROVE  CountersExact'
  BY <1>9, <1>f DEF BodySchedule, BodyWake, scheduleNew, scheduleAgain
<1>10. CASE ClientSchedule \/ ExternalWake
  BY <1>10, <1>f DEF ClientSchedule, ExternalWake, scheduleNew, scheduleAgain
<1>11. CASE start
  <2>1. /\ \A t \in Threads : /\ pc'[t] \in Engaged <=> pc[t] \in Engaged
                              /\ pc'[t] \in Idling <=> pc[t] \in Idling
        /\ UNCHANGED <<active, idle>>
    BY <1>a, <1>11, ThreadsAssumption DEF start, ControlInv
  <2> QED
    BY <1>c, <1>d, <2>1 DEF Count
<1>12. CASE stop \/ StopResume
  <2>1. UNCHANGED <<active, idle>> /\ Caller \in Threads
    BY <1>12 DEF stop, StopResume
  <2>2. \/ UNCHANGED pc
        \/ \E x : /\ pc' = [pc EXCEPT ![Caller] = x]
                  /\ pc[Caller] \in Engaged <=> x \in Engaged
                  /\ pc[Caller] \in Idling <=> x \in Idling
    <3>1. CASE stop
      <4> DEFINE y == IF /\ UseCaller /\ Workers = {} /\ callerFiber \in Finished \cup {"INIT"}
                         /\ canStop'
                        THEN "client" ELSE IF UseCaller THEN "canStop" ELSE "join"
      <4>1. pc[Caller] = "client" /\ pc' = [pc EXCEPT ![Caller] = y]
        BY <3>1 DEF stop
      <4>2. y \in {"client", "canStop", "join"}
        OBVIOUS
      <4> HIDE DEF y
      <4> QED
        BY <4>1, <4>2
    <3>2. CASE StopResume
      BY <3>2 DEF StopResume
    <3> QED
      BY <1>12, <3>1, <3>2
  <2> QED
    BY <2>1, <2>2, <1>f, <1>g
<1>13. CASE Join
  <2>1. /\ \A t \in Threads : /\ pc'[t] \in Engaged <=> pc[t] \in Engaged
                              /\ pc'[t] \in Idling <=> pc[t] \in Idling
        /\ UNCHANGED <<active, idle>>
    BY <1>a, <1>13, ThreadsAssumption DEF Join, ControlInv
  <2> QED
    BY <1>c, <1>d, <2>1 DEF Count
<1>14. CASE Aborted \/ UNCHANGED vars
  BY SMTT(60), <1>14, <1>f DEF Aborted, vars
<1> QED
  BY <1>1, <1>2, <1>3, <1>4, <1>5, <1>6, <1>7, <1>8, <1>9, <1>10, <1>11, <1>12,
     <1>13, <1>14
  DEF Next, LoopStep, FiberStep, OwnerStep

LEMMA ControlStep ==
  ASSUME BaseInv, [Next]_vars
  PROVE  ControlInv'
<1>a. TypeOK /\ ControlInv
  BY DEF BaseInv
<1> USE <1>a, ThreadsAssumption DEF TypeOK, ControlInv, NoExitWhileRunning, Goto
<1>1. ASSUME NEW t \in Threads, take(t)
      PROVE  ControlInv'
  <2>1. /\ pc[t] = "take" /\ pc' = [pc EXCEPT ![t] = "check"]
        /\ \A u \in Threads : u # t => cur'[u] = cur[u]
        /\ UNCHANGED <<running, idleDone>>
    BY <1>1 DEF take
  <2> QED
    BY <2>1
<1>2. ASSUME NEW t \in Threads, CheckExit(t)
      PROVE  ControlInv'
  BY <1>2 DEF CheckExit
<1>3. ASSUME NEW t \in Threads, CheckIdle(t)
      PROVE  ControlInv'
  BY <1>3 DEF CheckIdle
<1>4. ASSUME NEW t \in Threads, CheckTask(t)
      PROVE  ControlInv'
  <2>1. CASE fstate[cur[t]] \in Finished
    <3>1. /\ pc[t] = "check" /\ pc' = [pc EXCEPT ![t] = "take"]
          /\ cur' = [cur EXCEPT ![t] = NoFiber] /\ UNCHANGED <<running, idleDone>>
      BY <1>4, <2>1 DEF CheckTask
    <3> QED
      BY <3>1
  <2>2. CASE fstate[cur[t]] \notin Finished
    <3>1. /\ pc[t] = "check" /\ pc' = [pc EXCEPT ![t] = "resume"]
          /\ cur[t] \in Fibers /\ UNCHANGED <<cur, running, idleDone>>
      BY <1>4, <2>2 DEF CheckTask
    <3> QED
      BY <3>1
  <2> QED
    BY <2>1, <2>2
<1>5. ASSUME NEW t \in Threads, Idle(t)
      PROVE  ControlInv'
  BY <1>5 DEF Idle, canStop
<1>6. ASSUME NEW t \in Threads, IdleLeave(t)
      PROVE  ControlInv'
  BY <1>6 DEF IdleLeave
<1>7. ASSUME NEW t \in Threads, sched_resume(t)
      PROVE  ControlInv'
  <2>1. CASE fstate[cur[t]] \in Resumable
    BY <1>7, <2>1 DEF sched_resume
  <2>2. CASE fstate[cur[t]] \notin Resumable
    BY <1>7, <2>2 DEF sched_resume
  <2> QED
    BY <2>1, <2>2
<1>8. ASSUME NEW t \in Threads, handleFiber(t)
      PROVE  ControlInv'
  BY <1>8 DEF handleFiber
<1>9. ASSUME NEW t \in Threads, Leave(t)
      PROVE  ControlInv'
  BY <1>9 DEF Leave
<1>10. ASSUME NEW t \in Threads, BodySchedule(t) \/ BodyWake(t)
       PROVE  ControlInv'
  BY <1>10 DEF BodySchedule, BodyWake, scheduleNew, scheduleAgain
<1>11. ASSUME NEW t \in Threads, Arm(t)
       PROVE  ControlInv'
  BY <1>11 DEF Arm
<1>12. ASSUME NEW t \in Threads, YieldToHold(t)
       PROVE  ControlInv'
  BY <1>12 DEF YieldToHold
<1>13. ASSUME NEW t \in Threads, sched_yield(t)
       PROVE  ControlInv'
  BY <1>13 DEF sched_yield
<1>14. ASSUME NEW t \in Threads, MainFunc(t)
       PROVE  ControlInv'
  BY <1>14 DEF MainFunc
<1>15. CASE ClientSchedule \/ ExternalWake
  BY <1>15 DEF ClientSchedule, ExternalWake, scheduleNew, scheduleAgain
<1>16. CASE start
  BY <1>16 DEF start
<1>17. CASE stop
  BY <1>17 DEF stop
<1>18. CASE StopResume
  BY <1>18 DEF StopResume
<1>19. CASE Join
  BY <1>19 DEF Join
<1>20. CASE Aborted \/ UNCHANGED vars
  BY <1>20 DEF Aborted, vars
<1> QED
  BY <1>1, <1>2, <1>3, <1>4, <1>5, <1>6, <1>7, <1>8, <1>9, <1>10, <1>11, <1>12,
     <1>13, <1>14, <1>15, <1>16, <1>17, <1>18, <1>19, <1>20
  DEF Next, LoopStep, FiberStep, OwnerStep


(***************************************************************************)
(* The first inductive invariant, and what it gives at once.               *)
(***************************************************************************)
THEOREM BaseInvariant == Spec => []BaseInv
<1>1. BaseInv /\ [Next]_vars => BaseInv'
  BY TypeStep, CounterStep, ControlStep DEF BaseInv
<1> QED
  BY BaseInit, <1>1, PTL DEF Spec

(***************************************************************************)
(* Type correctness of the scheduler: in particular activeThreadNums_ and  *)
(* idleThreadNums_ (Scheduler.cc:199-218) never become negative.           *)
(***************************************************************************)
THEOREM TypeCorrect == Spec => []TypeOK
<1>1. BaseInv => TypeOK
  BY DEF BaseInv
<1> QED
  BY BaseInvariant, <1>1, PTL

(***************************************************************************)
(* canStop() compares an exact count with 0: activeThreadNums_ is the      *)
(* number of threads between its increment and its decrement in run().     *)
(***************************************************************************)
THEOREM CountersCorrect == Spec => []CountersExact
<1>1. BaseInv => CountersExact
  BY DEF BaseInv
<1> QED
  BY BaseInvariant, <1>1, PTL

(***************************************************************************)
(* No thread gives up before stop(): run() is left (Scheduler.cc:195-198)  *)
(* only while running_ is false, restarts included.                        *)
(***************************************************************************)
THEOREM WorkersStay == Spec => []NoExitWhileRunning
<1>1. BaseInv => NoExitWhileRunning
  BY DEF BaseInv, ControlInv
<1> QED
  BY BaseInvariant, <1>1, PTL

-----------------------------------------------------------------------------
(***************************************************************************)
(* What a queued task and a thread holding a fiber imply.  A homed fiber   *)
(* is touched by one thread only, so its state follows that thread's pc.   *)
(***************************************************************************)
QueueInv ==
  /\ \A i \in DOMAIN tasks :
       /\ tasks[i].tid \in Pins[tasks[i].fiber]
       /\ fstate[tasks[i].fiber] # "UNUSED"
  /\ \A f \in waiting : fstate[f] # "UNUSED"
  /\ \A f \in Fibers : fstate[f] # "READY"

HandOK(t) ==
  /\ pc[t] \in {"take", "idle", "idled", "none", "client", "canStop"} => cur[t] = NoFiber
  /\ cur[t] # NoFiber => t \in Hosts(cur[t]) /\ fstate[cur[t]] # "UNUSED"

StateOK(t) ==
  (cur[t] # NoFiber /\ Homed(cur[t])) =>
    /\ pc[t] = "check" => fstate[cur[t]] # "EXEC"
    /\ pc[t] = "resume" => fstate[cur[t]] \in Resumable
    /\ pc[t] \in {"body", "armed"} => fstate[cur[t]] = "EXEC"
    /\ pc[t] = "held" => fstate[cur[t]] = "HOLD"
    /\ pc[t] \in {"tail", "leave"} => fstate[cur[t]] \in Finished \cup {"HOLD"}

HomedInv ==
  /\ QueueInv
  /\ \A t \in Threads : HandOK(t) /\ StateOK(t)

LEMMA HomedInit == Init => HomedInv
  BY DEF Init, HomedInv, QueueInv, HandOK, StateOK

(* A homed fiber is in the hand of at most one thread. *)
LEMMA HomedOwner ==
  ASSUME HomedInv, NEW t \in Threads, NEW u \in Threads,
         cur[t] = cur[u], cur[t] # NoFiber, Homed(cur[t])
  PROVE  t = u
  BY DEF HomedInv, HandOK, Homed

(***************************************************************************)
(* A step of thread t that leaves the other threads alone and writes no    *)
(* state_ but that of its own fiber.                                       *)
(***************************************************************************)
LEMMA OthersUntouched ==
  ASSUME BaseInv, HomedInv, NEW t \in Threads,
         \A u \in Threads : u # t => pc'[u] = pc[u] /\ cur'[u] = cur[u],
         \A f \in Fibers : f # cur[t] => fstate'[f] = fstate[f],
         \A f \in Fibers : fstate[f] # "UNUSED" => fstate'[f] # "UNUSED",
         NEW u \in Threads, u # t
  PROVE  HandOK(u)' /\ StateOK(u)'
<1>1. HandOK(u) /\ StateOK(u) /\ cur[u] \in Fibers \cup {NoFiber}
  BY DEF HomedInv, BaseInv, TypeOK
<1>2. pc'[u] = pc[u] /\ cur'[u] = cur[u]
  OBVIOUS
<1>3. CASE cur[u] = NoFiber
  BY <1>1, <1>2, <1>3 DEF HandOK, StateOK
<1>4. CASE cur[u] # NoFiber /\ cur[u] # cur[t]
  <2>1. fstate'[cur[u]] = fstate[cur[u]]
    BY <1>1, <1>4
  <2> QED
    BY <1>1, <1>2, <1>4, <2>1 DEF HandOK, StateOK
<1>5. CASE cur[u] # NoFiber /\ cur[u] = cur[t]
  <2>1. ~Homed(cur[u])
    BY <1>5, HomedOwner
  <2> QED
    BY <1>1, <1>2, <1>5, <2>1 DEF HandOK, StateOK, Homed
<1> QED
  BY <1>3, <1>4, <1>5

LEMMA HomedStep ==
  ASSUME BaseInv, HomedInv, [Next]_vars
  PROVE  HomedInv'
<1>a. TypeOK /\ ControlInv /\ QueueInv /\ \A t \in Threads : HandOK(t) /\ StateOK(t)
  BY DEF BaseInv, HomedInv
<1>b. /\ fstate \in [Fibers -> State \cup {"UNUSED", "CB"}]
      /\ pc \in [Threads -> WorkerPc \cup CallerPc]
      /\ cur \in [Threads -> Fibers \cup {NoFiber}]
      /\ tasks \in Seq(Task)
      /\ NoFiber \notin Fibers
  BY <1>a, FibersAssumption DEF TypeOK
<1>t. \A i \in DOMAIN tasks : tasks[i] \in Task /\ tasks[i].fiber \in Fibers
  <2>1. \A i \in DOMAIN tasks : tasks[i] \in Task
    BY <1>b
  <2> QED
    BY <2>1 DEF Task
<1>w. \A f \in waiting : f \in Fibers /\ fstate[f] # "UNUSED"
  BY <1>a DEF QueueInv, TypeOK
(* What is left to show for a step of one thread. *)
<1>c. ASSUME NEW t \in Threads,
             \A u \in Threads : u # t => pc'[u] = pc[u] /\ cur'[u] = cur[u],
             \A f \in Fibers : f # cur[t] => fstate'[f] = fstate[f],
             \A f \in Fibers : fstate[f] # "UNUSED" => fstate'[f] # "UNUSED",
             QueueInv', HandOK(t)', StateOK(t)'
      PROVE  HomedInv'
  <2>1. \A u \in Threads : u # t => HandOK(u)' /\ StateOK(u)'
    BY <1>c, OthersUntouched
  <2> QED
    BY <1>c, <2>1 DEF HomedInv
<1>d. ASSUME UNCHANGED tasks,
             \A f \in waiting' : f \in waiting \/ (f \in Fibers /\ fstate[f] # "UNUSED"),
             \A f \in Fibers : fstate[f] # "UNUSED" => fstate'[f] # "UNUSED",
             \A f \in Fibers : fstate'[f] # "READY"
      PROVE  QueueInv'
  BY <1>a, <1>t, <1>w, <1>d DEF QueueInv
<1>e. ASSUME UNCHANGED <<pc, cur, fstate>>, QueueInv'
      PROVE  HomedInv'
  BY <1>a, <1>e DEF HomedInv, HandOK, StateOK
<1>f. ASSUME NEW f \in Fibers, NEW tid \in Pins[f],
             tasks' = Append(tasks, [fiber |-> f, tid |-> tid]),
             fstate'[f] # "UNUSED", waiting' \subseteq waiting,
             \A g \in Fibers : fstate[g] # "UNUSED" => fstate'[g] # "UNUSED",
             \A g \in Fibers : fstate'[g] # "READY"
      PROVE  QueueInv'
  <2>1. ASSUME NEW i \in DOMAIN tasks'
        PROVE  /\ tasks'[i].tid \in Pins[tasks'[i].fiber]
               /\ fstate'[tasks'[i].fiber] # "UNUSED"
    <3>1. \/ i \in DOMAIN tasks /\ tasks'[i] = tasks[i]
          \/ tasks'[i] = [fiber |-> f, tid |-> tid]
      BY <1>b, <1>f
    <3> QED
      BY <1>a, <1>t, <1>f, <3>1 DEF QueueInv
  <2> QED
    BY <1>f, <1>w, <2>1 DEF QueueInv
<1>g. ASSUME NEW f \in Fibers, scheduleNew(f), UNCHANGED pc
      PROVE  HomedInv'
  <2>1. PICK tid \in Pins[f] : tasks' = Append(tasks, [fiber |-> f, tid |-> tid])
    BY <1>g DEF scheduleNew, schedule
  <2>2. /\ fstate[f] = "UNUSED" /\ fstate'[f] # "UNUSED"
        /\ \A g \in Fibers : g # f => fstate'[g] = fstate[g]
        /\ fstate'[f] # "READY"
        /\ UNCHANGED <<pc, cur, waiting>>
    BY <1>b, <1>g DEF scheduleNew
  <2>3. QueueInv'
    <3>1. \A g \in Fibers : fstate'[g] # "READY"
      BY <1>a, <2>2 DEF QueueInv
    <3> QED
      BY <2>1, <2>2, <3>1, <1>f
  <2>4. ASSUME NEW t \in Threads
        PROVE  HandOK(t)' /\ StateOK(t)'
    <3>1. HandOK(t) /\ StateOK(t) /\ cur[t] \in Fibers \cup {NoFiber}
      BY <1>a, <1>b
    <3>2. CASE cur[t] = NoFiber
      BY <2>2, <3>1, <3>2 DEF HandOK, StateOK
    <3>3. CASE cur[t] # NoFiber
      <4>1. cur[t] # f
        BY <2>2, <3>1, <3>3 DEF HandOK
      <4>2. fstate'[cur[t]] = fstate[cur[t]]
        BY <2>2, <3>1, <3>3, <4>1
      <4> QED
        BY <2>2, <3>1, <3>3, <4>2 DEF HandOK, StateOK
    <3> QED
      BY <3>2, <3>3
  <2> QED
    BY <2>3, <2>4 DEF HomedInv
<1>h. ASSUME NEW f \in Fibers, scheduleAgain(f), fstate[f] # "UNUSED", UNCHANGED pc
      PROVE  HomedInv'
  <2>1. PICK tid \in Pins[f] : tasks' = Append(tasks, [fiber |-> f, tid |-> tid])
    BY <1>h DEF scheduleAgain, schedule
  <2>2. UNCHANGED <<pc, cur, fstate>> /\ waiting' \subseteq waiting
    BY <1>h DEF scheduleAgain
  <2>3. \A g \in Fibers : fstate[g] # "READY"
    BY <1>a DEF QueueInv
  <2>4. QueueInv'
    BY <1>h, <2>1, <2>2, <2>3, <1>f
  <2> QED
    BY <2>2, <2>4, <1>e
<1>1. ASSUME NEW t \in Threads, take(t)
      PROVE  HomedInv'
  <2>0. /\ pc[t] = "take" /\ pc' = [pc EXCEPT ![t] = "check"]
        /\ UNCHANGED <<fstate, waiting>>
    BY <1>1 DEF take, Goto
  <2>1. CASE UNCHANGED tasks /\ cur' = [cur EXCEPT ![t] = NoFiber]
    <3>1. cur'[t] = NoFiber /\ pc'[t] = "check"
      BY <1>b, <2>0, <2>1
    <3>2. HandOK(t)' /\ StateOK(t)'
      BY <3>1 DEF HandOK, StateOK
    <3> QED
      <4>1. QueueInv'
        BY <1>a, <2>0, <2>1 DEF QueueInv
      <4> QED
        BY <1>b, <1>c, <2>0, <2>1, <3>2, <4>1
  <2>2. ASSUME NEW i \in DOMAIN tasks, Eligible(t, tasks[i]),
               cur' = [cur EXCEPT ![t] = tasks[i].fiber],
               tasks' = RemoveAt(tasks, i)
        PROVE  HomedInv'
    <3>1. QueueInv'
      <4>1. \A j \in DOMAIN tasks' : \E k \in DOMAIN tasks : tasks'[j] = tasks[k]
        BY <1>b, <2>2, EraseFacts
      <4> QED
        BY <1>a, <2>0, <4>1 DEF QueueInv
    <3>2. cur'[t] = tasks[i].fiber /\ pc'[t] = "check"
      BY <1>b, <2>0, <2>2
    <3>3. t \in Runners
      BY <1>a, <2>0, ThreadsAssumption DEF Runners, ControlInv
    <3>4. t \in Hosts(tasks[i].fiber)
      BY <1>a, <2>2, <3>3 DEF Hosts, Eligible, QueueInv
    <3>5. fstate[tasks[i].fiber] # "UNUSED" /\ fstate[tasks[i].fiber] # "EXEC"
      BY <1>a, <2>2 DEF Eligible, QueueInv
    <3>6. HandOK(t)' /\ StateOK(t)'
      BY <2>0, <3>2, <3>4, <3>5 DEF HandOK, StateOK
    <3> QED
      BY <1>b, <1>c, <2>0, <2>2, <3>1, <3>6
  <2> QED
    BY <1>1, <2>1, <2>2 DEF take
(* The thread's fiber, and a step that does not change whose it is. *)
<1>k. ASSUME NEW t \in Threads, NEW x, pc' = [pc EXCEPT ![t] = x], UNCHANGED <<cur, tasks>>,
             waiting' \subseteq waiting \cup {cur[t]},
             \/ UNCHANGED fstate
             \/ /\ cur[t] \in Fibers
                /\ \E s \in State \cup {"CB"} : s # "READY" /\ fstate' = [fstate EXCEPT ![cur[t]] = s],
             x \in {"take", "idle", "idled", "none", "client", "canStop"} => cur[t] = NoFiber,
             cur[t] = NoFiber => waiting' \subseteq waiting,
             StateOK(t)'
      PROVE  HomedInv'
  <2>1. \A u \in Threads : u # t => pc'[u] = pc[u] /\ cur'[u] = cur[u]
    BY <1>b, <1>k
  <2>2. \A f \in Fibers : f # cur[t] => fstate'[f] = fstate[f]
    BY <1>b, <1>k
  <2>3. \A f \in Fibers : fstate[f] # "UNUSED" => fstate'[f] # "UNUSED"
    BY <1>b, <1>k
  <2>4. HandOK(t)'
    <3>1. cur[t] # NoFiber => t \in Hosts(cur[t]) /\ fstate[cur[t]] # "UNUSED"
      BY <1>a DEF HandOK
    <3>2. cur[t] \in Fibers \cup {NoFiber} /\ cur'[t] = cur[t] /\ pc'[t] = x
      BY <1>b, <1>k
    <3> QED
      BY <1>k, <2>3, <3>1, <3>2 DEF HandOK
  <2>5. QueueInv'
    <3>1. cur[t] \in Fibers => fstate[cur[t]] # "UNUSED"
      BY <1>a, <1>b DEF HandOK
    <3>2. \A f \in Fibers : fstate'[f] # "READY"
      BY <1>a, <1>b, <1>k DEF QueueInv
    <3>3. \A f \in waiting' : f \in waiting \/ (f \in Fibers /\ fstate[f] # "UNUSED")
      BY <1>b, <1>k, <3>1
    <3> QED
      BY <1>k, <1>d, <2>3, <3>2, <3>3
  <2> QED
    BY <1>c, <1>k, <2>1, <2>2, <2>3, <2>4, <2>5
<1>2. ASSUME NEW t \in Threads, CheckExit(t)
      PROVE  HomedInv'
  <2> DEFINE x == IF t = Caller THEN "join" ELSE "done"
  <2>1. /\ pc' = [pc EXCEPT ![t] = x] /\ UNCHANGED <<cur, tasks, waiting, fstate>>
    BY <1>2 DEF CheckExit, Goto
  <2>2. x \in {"join", "done"} /\ pc'[t] = x
    BY <1>b, <2>1
  <2>3. StateOK(t)'
    BY <2>2 DEF StateOK
  <2> QED
    BY <1>k, <2>1, <2>2, <2>3
<1>3. ASSUME NEW t \in Threads, CheckIdle(t) \/ Idle(t) \/ IdleLeave(t)
      PROVE  HomedInv'
  <2>1. /\ UNCHANGED <<cur, tasks, waiting, fstate>> /\ cur[t] = NoFiber
        /\ \E x : pc' = [pc EXCEPT ![t] = x]
    BY <1>a, <1>3 DEF CheckIdle, Idle, IdleLeave, Goto, HandOK
  <2>2. StateOK(t)'
    BY <2>1 DEF StateOK
  <2> QED
    BY <1>k, <2>1, <2>2
<1>4. ASSUME NEW t \in Threads, CheckTask(t)
      PROVE  HomedInv'
  <2>0. pc[t] = "check" /\ cur[t] \in Fibers /\ UNCHANGED <<tasks, waiting>>
    BY <1>b, <1>4 DEF CheckTask
  <2>1. CASE fstate[cur[t]] \in Finished
    <3>1. /\ pc' = [pc EXCEPT ![t] = "take"] /\ cur' = [cur EXCEPT ![t] = NoFiber]
          /\ UNCHANGED fstate
      BY <1>4, <2>1 DEF CheckTask
    <3>2. HandOK(t)' /\ StateOK(t)'
      BY <1>b, <3>1 DEF HandOK, StateOK
    <3> QED
      <4>1. QueueInv'
        BY <1>a, <2>0, <3>1 DEF QueueInv
      <4> QED
        BY <1>b, <1>c, <2>0, <3>1, <3>2, <4>1
  <2>2. CASE fstate[cur[t]] \notin Finished
    <3> DEFINE s == IF fstate[cur[t]] = "CB" THEN "INIT" ELSE fstate[cur[t]]
    <3>1. /\ pc' = [pc EXCEPT ![t] = "resume"] /\ UNCHANGED cur
          /\ fstate' = [fstate EXCEPT ![cur[t]] = s]
      BY <1>4, <2>2 DEF CheckTask
    <3>2. fstate[cur[t]] \in {"INIT", "HOLD", "EXEC", "CB"}
      BY <1>a, <1>b, <2>0, <2>2 DEF HandOK, QueueInv
    <3>3. s \in State /\ s # "READY" /\ (fstate[cur[t]] # "EXEC" => s \in Resumable)
      BY <3>2
    <3>4. fstate'[cur[t]] = s /\ cur'[t] = cur[t] /\ pc'[t] = "resume"
      BY <1>b, <2>0, <3>1
    <3> HIDE DEF s
    <3>5. StateOK(t)'
      BY <1>a, <2>0, <3>3, <3>4 DEF StateOK
    <3> QED
      BY <1>k, <2>0, <3>1, <3>3, <3>5
  <2> QED
    BY <2>1, <2>2
<1>5. ASSUME NEW t \in Threads, sched_resume(t)
      PROVE  HomedInv'
  <2>0. pc[t] = "resume" /\ cur[t] \in Fibers /\ UNCHANGED <<tasks, waiting, cur>>
    BY <1>a, <1>5 DEF sched_resume, ControlInv
  <2>1. CASE fstate[cur[t]] \in Resumable
    <3>1. /\ pc' = [pc EXCEPT ![t] = "body"]
          /\ fstate' = [fstate EXCEPT ![cur[t]] = "EXEC"]
      BY <1>5, <2>1 DEF sched_resume
    <3>2. StateOK(t)'
      BY <1>b, <2>0, <3>1 DEF StateOK
    <3> QED
      BY <1>k, <2>0, <3>1, <3>2
  <2>2. CASE fstate[cur[t]] \notin Resumable
    <3>1. UNCHANGED <<pc, fstate>>
      BY <1>5, <2>2 DEF sched_resume
    <3> QED
      <4>1. QueueInv'
        BY <1>a, <2>0, <3>1 DEF QueueInv
      <4> QED
        BY <1>e, <2>0, <3>1, <4>1
  <2> QED
    BY <2>1, <2>2
<1>6. ASSUME NEW t \in Threads, handleFiber(t)
      PROVE  HomedInv'
  <2> DEFINE s == IF fstate[cur[t]] \in {"INIT", "EXEC", "HOLD"} THEN "HOLD" ELSE fstate[cur[t]]
  <2>1. /\ pc[t] = "tail" /\ pc' = [pc EXCEPT ![t] = "leave"]
        /\ fstate' = [fstate EXCEPT ![cur[t]] = s]
        /\ cur[t] \in Fibers /\ UNCHANGED <<waiting, cur>>
    BY <1>a, <1>6 DEF handleFiber, Goto, ControlInv
  <2>2. fstate[cur[t]] # "READY" /\ fstate[cur[t]] # "UNUSED"
    BY <1>a, <1>b, <2>1 DEF HandOK, QueueInv
  <2>3. UNCHANGED tasks
    BY <1>6, <2>2 DEF handleFiber
  <2>4. s \in State \cup {"CB"} /\ s # "READY"
    BY <1>b, <2>1, <2>2
  <2>5. StateOK(t)'
    <3>1. fstate[cur[t]] \in Finished \cup {"HOLD"} => s \in Finished \cup {"HOLD"}
      OBVIOUS
    <3>2. fstate'[cur[t]] = s /\ cur'[t] = cur[t] /\ pc'[t] = "leave"
      BY <1>b, <2>1
    <3> HIDE DEF s
    <3> QED
      BY <1>a, <2>1, <3>1, <3>2 DEF StateOK
  <2> HIDE DEF s
  <2> QED
    BY <1>k, <2>1, <2>3, <2>4, <2>5
<1>7. ASSUME NEW t \in Threads, Leave(t)
      PROVE  HomedInv'
  <2>1. /\ pc' = [pc EXCEPT ![t] = "take"] /\ cur' = [cur EXCEPT ![t] = NoFiber]
        /\ UNCHANGED <<fstate, tasks, waiting>>
    BY <1>7 DEF Leave, Goto
  <2>2. HandOK(t)' /\ StateOK(t)'
    BY <1>b, <2>1 DEF HandOK, StateOK
  <2>3. QueueInv'
    BY <1>a, <2>1 DEF QueueInv
  <2> QED
    BY <1>b, <1>c, <2>1, <2>2, <2>3
<1>8. ASSUME NEW t \in Threads, Arm(t)
      PROVE  HomedInv'
  <2>1. /\ pc[t] = "body" /\ pc' = [pc EXCEPT ![t] = "armed"] /\ cur[t] \in Fibers
        /\ UNCHANGED <<fstate, tasks, cur>> /\ waiting' = waiting \cup {cur[t]}
    BY <1>a, <1>8 DEF Arm, Goto, ControlInv
  <2>2. StateOK(t)'
    BY <1>a, <1>b, <2>1 DEF StateOK
  <2> QED
    BY <1>b, <1>k, <2>1, <2>2
<1>9. ASSUME NEW t \in Threads, YieldToHold(t)
      PROVE  HomedInv'
  <2>1. /\ pc[t] = "armed" /\ pc' = [pc EXCEPT ![t] = "held"] /\ cur[t] \in Fibers
        /\ fstate' = [fstate EXCEPT ![cur[t]] = "HOLD"]
        /\ UNCHANGED <<tasks, cur, waiting>>
    BY <1>a, <1>9 DEF YieldToHold, Goto, ControlInv
  <2>2. StateOK(t)'
    BY <1>a, <1>b, <2>1 DEF StateOK
  <2> QED
    BY <1>k, <2>1, <2>2
<1>10. ASSUME NEW t \in Threads, sched_yield(t)
       PROVE  HomedInv'
  <2>1. /\ pc[t] = "held" /\ pc' = [pc EXCEPT ![t] = "tail"]
        /\ UNCHANGED <<tasks, cur, waiting, fstate>>
    BY <1>10 DEF sched_yield, Goto
  <2>2. StateOK(t)'
    BY <1>a, <1>b, <2>1 DEF StateOK
  <2> QED
    BY <1>k, <2>1, <2>2
<1>11. ASSUME NEW t \in Threads, MainFunc(t)
       PROVE  HomedInv'
  <2>1. /\ pc[t] = "body" /\ pc' = [pc EXCEPT ![t] = "tail"] /\ cur[t] \in Fibers
        /\ UNCHANGED <<tasks, cur, waiting>>
    BY <1>a, <1>11 DEF MainFunc, Goto, ControlInv
  <2>2. PICK s \in Finished : fstate' = [fstate EXCEPT ![cur[t]] = s]
    BY <1>11 DEF MainFunc
  <2>3. StateOK(t)'
    BY <1>b, <2>1, <2>2 DEF StateOK
  <2>4. s \in State \cup {"CB"} /\ s # "READY"
    BY <2>2
  <2> QED
    BY <1>k, <2>1, <2>2, <2>3, <2>4
<1>12. ASSUME NEW t \in Threads, BodySchedule(t) \/ BodyWake(t)
       PROVE  HomedInv'
  BY <1>12, <1>g, <1>h, <1>w, FibersAssumption DEF BodySchedule, BodyWake
<1>13. CASE ClientSchedule \/ ExternalWake
  BY <1>13, <1>g, <1>h, <1>w DEF ClientSchedule, ExternalWake
<1>14. CASE start \/ Join
  <2>1. UNCHANGED <<fstate, tasks, waiting>>
    BY <1>14 DEF start, Join
  <2>2. QueueInv'
    BY <1>a, <2>1 DEF QueueInv
  <2>3. ASSUME NEW t \in Threads
        PROVE  HandOK(t)' /\ StateOK(t)'
    <3>1. CASE Join
      BY <3>1 DEF Join, HandOK, StateOK
    <3>2. CASE start
      <4>1. (t \in Workers /\ pc[t] = "none" /\ pc'[t] = "take") \/ pc'[t] = pc[t]
        BY <1>a, <3>2, ThreadsAssumption DEF start, ControlInv
      <4>2. UNCHANGED cur
        BY <3>2 DEF start
      <4> QED
        BY <1>a, <2>1, <4>1, <4>2 DEF HandOK, StateOK
    <3> QED
      BY <1>14, <3>1, <3>2
  <2> QED
    BY <2>2, <2>3 DEF HomedInv
<1>15. CASE stop
  <2> DEFINE x == IF /\ UseCaller /\ Workers = {} /\ callerFiber \in Finished \cup {"INIT"}
                     /\ canStop'
                    THEN "client" ELSE IF UseCaller THEN "canStop" ELSE "join"
  <2>1. /\ pc[Caller] = "client" /\ pc' = [pc EXCEPT ![Caller] = x]
        /\ UNCHANGED <<tasks, fstate, waiting, cur>> /\ Caller \in Threads
    BY <1>15 DEF stop
  <2>2. cur[Caller] = NoFiber
    BY <1>a, <2>1 DEF HandOK
  <2>3. StateOK(Caller)'
    BY <2>1, <2>2 DEF StateOK
  <2> HIDE DEF x
  <2> QED
    BY <1>k, <2>1, <2>2, <2>3
<1>16. CASE StopResume
  <2>1. /\ pc[Caller] = "canStop" /\ Caller \in Threads
        /\ UNCHANGED <<tasks, fstate, waiting, cur>>
        /\ \/ UNCHANGED pc
           \/ \E x : pc' = [pc EXCEPT ![Caller] = x]
    BY <1>16 DEF StopResume
  <2>2. cur[Caller] = NoFiber
    BY <1>a, <2>1 DEF HandOK
  <2>3. StateOK(Caller)'
    BY <2>1, <2>2 DEF StateOK
  <2>4. QueueInv'
    BY <1>a, <2>1 DEF QueueInv
  <2> QED
    BY <1>e, <1>k, <2>1, <2>2, <2>3, <2>4
<1>17. CASE Aborted \/ UNCHANGED vars
  <2>1. UNCHANGED <<tasks, fstate, waiting, cur, pc>>
    BY <1>17 DEF Aborted, vars
  <2>2. QueueInv'
    BY <1>a, <2>1 DEF QueueInv
  <2> QED
    BY <1>e, <2>1, <2>2
<1> QED
  BY <1>1, <1>2, <1>3, <1>4, <1>5, <1>6, <1>7, <1>8, <1>9, <1>10, <1>11, <1>12,
     <1>13, <1>14, <1>15, <1>16, <1>17
  DEF Next, LoopStep, FiberStep, OwnerStep

(***************************************************************************)
(* The second inductive invariant.                                         *)
(***************************************************************************)
THEOREM HomedInvariant == Spec => [](BaseInv /\ HomedInv)
<1>1. Init => BaseInv /\ HomedInv
  BY BaseInit, HomedInit
<1>2. BaseInv /\ HomedInv /\ [Next]_vars => (BaseInv /\ HomedInv)'
  BY TypeStep, CounterStep, ControlStep, HomedStep DEF BaseInv
<1> QED
  BY <1>1, <1>2, PTL DEF Spec

(***************************************************************************)
(* A fiber that only one thread may take is never executed by two threads  *)
(* at once, although YieldToHold (Fiber.cc:179) publishes HOLD before the  *)
(* context is saved.                                                       *)
(***************************************************************************)
THEOREM HomedFibersExclusive == Spec => []HomedExclusive
<1>1. BaseInv /\ HomedInv => HomedExclusive
  <2> SUFFICES ASSUME BaseInv, HomedInv, NEW t \in Threads, NEW u \in Threads,
                      pc[t] \in OnStack, cur[t] = cur[u], Homed(cur[t])
               PROVE  t = u
    BY DEF HomedExclusive
  <2>1. cur[t] # NoFiber
    BY FibersAssumption DEF BaseInv, ControlInv
  <2> QED
    BY <2>1, HomedOwner
<1> QED
  BY HomedInvariant, <1>1, PTL

(***************************************************************************)
(* For such a fiber neither the assertion of sched_resume (Fiber.cc:114)   *)
(* nor that of addEvent (IOManager.cc:159) can fail.                       *)
(***************************************************************************)
THEOREM HomedFibersAssert == Spec => []HomedAssertions
<1>1. BaseInv /\ HomedInv => HomedAssertions
  <2> SUFFICES ASSUME BaseInv, HomedInv, NEW t \in Threads,
                      pc[t] \in {"resume", "body", "armed"}, Homed(cur[t])
               PROVE  fstate[cur[t]] \in IF pc[t] = "resume" THEN Resumable ELSE {"EXEC"}
    BY DEF HomedAssertions
  <2>1. cur[t] # NoFiber
    BY FibersAssumption DEF BaseInv, ControlInv
  <2>2. StateOK(t)
    BY DEF HomedInv
  <2> QED
    BY <2>1, <2>2 DEF StateOK
<1> QED
  BY HomedInvariant, <1>1, PTL

(***************************************************************************)
(* Such a fiber stays TERM or EXCEPT for good: the switch of handleFiber   *)
(* (Scheduler.cc:146-154) leaves it alone.                                *)
(***************************************************************************)
THEOREM HomedFibersStayFinished == Spec => FinishedForever
<1> DEFINE Keeps == \A f \in Fibers : (Homed(f) /\ fstate[f] \in Finished)
                                        => fstate'[f] = fstate[f]
<1>1. BaseInv /\ HomedInv /\ [Next]_vars => [Keeps]_vars
  <2> SUFFICES ASSUME BaseInv, HomedInv, [Next]_vars, NEW f \in Fibers,
                      Homed(f), fstate[f] \in Finished
               PROVE  fstate'[f] = fstate[f]
    OBVIOUS
  <2>a. fstate \in [Fibers -> State \cup {"UNUSED", "CB"}] /\ NoFiber \notin Fibers
    BY FibersAssumption DEF BaseInv, TypeOK
  <2>b. ASSUME NEW t \in Threads, cur[t] = f
        PROVE  pc[t] \notin {"resume", "body", "armed"}
    BY <2>a, <2>b DEF HomedInv, StateOK
  <2>c. \A g \in Fibers : scheduleNew(g) => fstate'[f] = fstate[f]
    BY <2>a DEF scheduleNew
  <2>d. \A g \in Fibers : scheduleAgain(g) => fstate'[f] = fstate[f]
    BY DEF scheduleAgain
  <2>1. ASSUME NEW t \in Threads, YieldToHold(t) \/ MainFunc(t)
        PROVE  fstate'[f] = fstate[f]
    BY <2>1, <2>a, <2>b DEF YieldToHold, MainFunc, Goto
  <2>2. ASSUME NEW t \in Threads, sched_resume(t) \/ handleFiber(t)
        PROVE  fstate'[f] = fstate[f]
    BY <2>2, <2>a, <2>b DEF sched_resume, handleFiber, Goto
  <2>3. ASSUME NEW t \in Threads, CheckTask(t)
        PROVE  fstate'[f] = fstate[f]
    BY <2>3, <2>a DEF CheckTask
  <2>4. ASSUME NEW t \in Threads, BodySchedule(t) \/ BodyWake(t)
        PROVE  fstate'[f] = fstate[f]
    <3>1. waiting \subseteq Fibers
      BY DEF BaseInv, TypeOK
    <3> QED
      BY <2>4, <2>c, <2>d, <3>1, FibersAssumption DEF BodySchedule, BodyWake
  <2>5. CASE ClientSchedule \/ ExternalWake
    <3>1. waiting \subseteq Fibers
      BY DEF BaseInv, TypeOK
    <3> QED
      BY <2>5, <2>c, <2>d, <3>1 DEF ClientSchedule, ExternalWake
  <2>6. ASSUME NEW t \in Threads,
               \/ take(t) \/ CheckExit(t) \/ CheckIdle(t) \/ Idle(t) \/ IdleLeave(t)
               \/ Leave(t) \/ Arm(t) \/ sched_yield(t)
        PROVE  fstate'[f] = fstate[f]
    BY <2>6 DEF take, CheckExit, CheckIdle, Idle, IdleLeave, Leave, Arm, sched_yield
  <2>7. CASE start \/ stop \/ StopResume \/ Join \/ Aborted \/ UNCHANGED vars
    BY <2>7 DEF start, stop, StopResume, Join, Aborted, vars
  <2> QED
    BY <2>1, <2>2, <2>3, <2>4, <2>5, <2>6, <2>7 DEF Next, LoopStep, FiberStep, OwnerStep
<1>2. Spec => [][Keeps]_vars
  BY HomedInvariant, <1>1, PTL DEF Spec
<1> QED
  BY <1>2 DEF FinishedForever

-----------------------------------------------------------------------------
(***************************************************************************)
(* For NoLostTask: a homed fiber that has arranged its wake-up and not yet *)
(* left its thread is still going to be woken, or is queued again already. *)
(***************************************************************************)
ArmedInv ==
  \A t \in Threads :
    (cur[t] # NoFiber /\ Homed(cur[t]) /\ pc[t] \in {"armed", "held"})
      => cur[t] \in waiting \/ Queued(cur[t])

KeptInv == NoLostTask /\ ArmedInv

LEMMA KeptInit == Init => KeptInv
  BY DEF Init, KeptInv, NoLostTask, Owed, ArmedInv

LEMMA KeptStep ==
  ASSUME BaseInv, HomedInv, KeptInv, [Next]_vars
  PROVE  KeptInv'
<1>a. /\ TypeOK /\ ControlInv /\ QueueInv /\ NoLostTask /\ ArmedInv
      /\ \A t \in Threads : HandOK(t) /\ StateOK(t)
  BY DEF BaseInv, HomedInv, KeptInv
<1>b. /\ fstate \in [Fibers -> State \cup {"UNUSED", "CB"}]
      /\ pc \in [Threads -> WorkerPc \cup CallerPc]
      /\ cur \in [Threads -> Fibers \cup {NoFiber}]
      /\ tasks \in Seq(Task) /\ waiting \subseteq Fibers
      /\ NoFiber \notin Fibers
  BY <1>a, FibersAssumption DEF TypeOK
(* An appended task leaves every queued fiber queued. *)
<1>q. ASSUME NEW f \in Fibers, NEW tid \in Pins[f], schedule(f, tid)
      PROVE  Queued(f)' /\ \A g \in Fibers : Queued(g) => Queued(g)'
  <2>1. tasks' = Append(tasks, [fiber |-> f, tid |-> tid])
    BY <1>q DEF schedule
  <2>2. /\ \A i \in DOMAIN tasks : i \in DOMAIN tasks' /\ tasks'[i] = tasks[i]
        /\ Len(tasks) + 1 \in DOMAIN tasks'
        /\ tasks'[Len(tasks) + 1] = [fiber |-> f, tid |-> tid]
    BY <1>b, <2>1
  <2> QED
    BY <2>2 DEF Queued
<1>c. ASSUME NEW f \in Fibers, scheduleNew(f), UNCHANGED pc
      PROVE  KeptInv'
  <2>1. Queued(f)' /\ \A g \in Fibers : Queued(g) => Queued(g)'
    BY <1>c, <1>q DEF scheduleNew
  <2>2. /\ \A g \in Fibers : g # f => fstate'[g] = fstate[g]
        /\ UNCHANGED <<pc, cur, waiting, dropped>>
    BY <1>b, <1>c DEF scheduleNew
  <2>3. NoLostTask'
    BY <1>a, <2>1, <2>2 DEF NoLostTask, Owed, InHand
  <2>4. ArmedInv'
    BY <1>a, <1>b, <2>1, <2>2 DEF ArmedInv
  <2> QED
    BY <2>3, <2>4 DEF KeptInv
<1>d. ASSUME NEW f \in Fibers, scheduleAgain(f), UNCHANGED pc
      PROVE  KeptInv'
  <2>1. Queued(f)' /\ \A g \in Fibers : Queued(g) => Queued(g)'
    BY <1>d, <1>q DEF scheduleAgain
  <2>2. waiting' = waiting \ {f} /\ UNCHANGED <<pc, cur, fstate, dropped>>
    BY <1>d DEF scheduleAgain
  <2>3. NoLostTask'
    BY <1>a, <2>1, <2>2 DEF NoLostTask, Owed, InHand
  <2>4. ArmedInv'
    BY <1>a, <1>b, <2>1, <2>2 DEF ArmedInv
  <2> QED
    BY <2>3, <2>4 DEF KeptInv
<1>1. ASSUME NEW t \in Threads, take(t)
      PROVE  KeptInv'
  <2>0. /\ pc[t] = "take" /\ pc'[t] = "check"
        /\ \A u \in Threads : u # t => pc'[u] = pc[u] /\ cur'[u] = cur[u]
        /\ UNCHANGED <<fstate, waiting, dropped>>
    BY <1>b, <1>1 DEF take, Goto
  <2>1. \A f \in Fibers : InHand(f) => InHand(f)'
    BY <2>0 DEF InHand
  <2>2. CASE UNCHANGED tasks
    <3>1. NoLostTask'
      BY <1>a, <2>0, <2>1, <2>2 DEF NoLostTask, Owed, Queued
    <3>2. ArmedInv'
      BY <1>a, <2>0, <2>2 DEF ArmedInv, Queued
    <3> QED
      BY <3>1, <3>2 DEF KeptInv
  <2>3. ASSUME NEW i \in DOMAIN tasks, NEW f \in Fibers, f = tasks[i].fiber,
               Eligible(t, tasks[i]), cur' = [cur EXCEPT ![t] = f],
               tasks' = RemoveAt(tasks, i)
        PROVE  KeptInv'
    <3>1. \A g : (Queued(g) /\ g # f) => Queued(g)'
      <4>1. \A k \in DOMAIN tasks : k # i => \E j \in DOMAIN tasks' : tasks'[j] = tasks[k]
        BY <1>b, <2>3, EraseFacts
      <4> QED
        BY <4>1, <2>3 DEF Queued
    <3>2. InHand(f)'
      <4>1. cur'[t] = f
        BY <1>b, <2>3
      <4> QED
        BY <2>0, <4>1 DEF InHand
    <3>3. t \in Hosts(f)
      <4>1. t \in Runners
        BY <1>a, <2>0, ThreadsAssumption DEF Runners, ControlInv
      <4> QED
        BY <1>a, <2>3, <4>1 DEF Hosts, Eligible, QueueInv
    <3>4. NoLostTask'
      <4>1. \A g \in Fibers : Owed(g)' => Owed(g)
        BY <2>0 DEF Owed
      <4>2. \A g \in Fibers : Queued(g) => Queued(g)' \/ InHand(g)'
        BY <3>1, <3>2
      <4> QED
        BY <1>a, <2>0, <2>1, <4>1, <4>2 DEF NoLostTask
    <3>5. ArmedInv'
      <4> SUFFICES ASSUME NEW u \in Threads, NEW g, g = cur'[u], g # NoFiber, Homed(g),
                          pc'[u] \in {"armed", "held"}
                   PROVE  g \in waiting' \/ Queued(g)'
        BY DEF ArmedInv
      <4>1. u # t /\ pc'[u] = pc[u] /\ g = cur[u]
        BY <2>0
      <4>2. u \in Hosts(g)
        BY <1>a, <4>1 DEF HandOK
      <4>3. g # f
        BY <3>3, <4>1, <4>2 DEF Homed
      <4>4. g \in waiting \/ Queued(g)
        BY <1>a, <4>1 DEF ArmedInv
      <4> QED
        BY <2>0, <3>1, <4>3, <4>4
    <3> QED
      BY <3>4, <3>5 DEF KeptInv
  <2>4. \A i \in DOMAIN tasks : tasks[i].fiber \in Fibers
    <3>1. \A i \in DOMAIN tasks : tasks[i] \in Task
      BY <1>b
    <3> QED
      BY <3>1 DEF Task
  <2> QED
    BY <1>1, <2>2, <2>3, <2>4 DEF take
<1>2. ASSUME NEW t \in Threads, CheckExit(t)
      PROVE  KeptInv'
  <2>1. /\ pc[t] = "check" /\ pc'[t] \in {"join", "done"}
        /\ \A u \in Threads : u # t => pc'[u] = pc[u]
        /\ UNCHANGED <<cur, tasks, fstate, waiting>>
        /\ dropped' = dropped \cup ({cur[t]} \ {NoFiber})
    BY <1>b, <1>2 DEF CheckExit, Goto
  <2>2. \A f \in Fibers : InHand(f) => InHand(f)' \/ f \in dropped'
    BY <1>b, <2>1 DEF InHand
  <2>3. NoLostTask'
    BY <1>a, <2>1, <2>2 DEF NoLostTask, Owed, Queued
  <2>4. ArmedInv'
    BY <1>a, <2>1 DEF ArmedInv, Queued
  <2> QED
    BY <2>3, <2>4 DEF KeptInv
<1>3. ASSUME NEW t \in Threads, CheckIdle(t) \/ Idle(t) \/ IdleLeave(t)
      PROVE  KeptInv'
  <2>1. /\ cur[t] = NoFiber
        /\ \A u \in Threads : u # t => pc'[u] = pc[u]
        /\ UNCHANGED <<cur, tasks, fstate, waiting, dropped>>
    BY <1>a, <1>b, <1>3 DEF CheckIdle, Idle, IdleLeave, Goto, HandOK
  <2>2. \A f \in Fibers : InHand(f) => InHand(f)'
    BY <1>b, <2>1 DEF InHand
  <2>3. NoLostTask'
    BY <1>a, <2>1, <2>2 DEF NoLostTask, Owed, Queued
  <2>4. ArmedInv'
    BY <1>a, <2>1 DEF ArmedInv, Queued
  <2> QED
    BY <2>3, <2>4 DEF KeptInv
(* A step of a thread that has its fiber in hand and keeps it there. *)
<1>k. ASSUME NEW t \in Threads, cur[t] \in Fibers,
             pc'[t] \in {"check", "resume", "body", "armed"},
             \A u \in Threads : u # t => pc'[u] = pc[u],
             \A f \in Fibers : f # cur[t] => fstate'[f] = fstate[f],
             UNCHANGED <<cur, tasks, dropped>>,
             waiting \subseteq waiting',
             pc'[t] = "armed" => cur[t] \in waiting'
      PROVE  KeptInv'
  <2>1. \A f \in Fibers : f = cur[t] => InHand(f)'
    BY <1>k DEF InHand
  <2>2. \A f \in Fibers : InHand(f) => InHand(f)'
    BY <1>k, <2>1 DEF InHand
  <2>3. NoLostTask'
    BY <1>a, <1>k, <2>1, <2>2 DEF NoLostTask, Owed, Queued
  <2>4. ArmedInv'
    BY <1>a, <1>k DEF ArmedInv, Queued
  <2> QED
    BY <2>3, <2>4 DEF KeptInv
<1>4. ASSUME NEW t \in Threads, CheckTask(t)
      PROVE  KeptInv'
  <2>0. pc[t] = "check" /\ cur[t] \in Fibers /\ UNCHANGED <<tasks, waiting, dropped>>
    BY <1>b, <1>4 DEF CheckTask
  <2>1. CASE fstate[cur[t]] \in Finished
    <3>1. /\ pc'[t] = "take" /\ cur'[t] = NoFiber /\ UNCHANGED fstate
          /\ \A u \in Threads : u # t => pc'[u] = pc[u] /\ cur'[u] = cur[u]
      BY <1>b, <1>4, <2>1 DEF CheckTask
    <3>2. \A f \in Fibers : InHand(f) => InHand(f)' \/ f = cur[t]
      BY <3>1 DEF InHand
    <3>3. NoLostTask'
      BY <1>a, <2>0, <2>1, <3>1, <3>2 DEF NoLostTask, Owed, Queued
    <3>4. ArmedInv'
      BY <1>a, <2>0, <3>1 DEF ArmedInv, Queued
    <3> QED
      BY <3>3, <3>4 DEF KeptInv
  <2>2. CASE fstate[cur[t]] \notin Finished
    <3>1. /\ pc'[t] = "resume" /\ UNCHANGED cur
          /\ \A u \in Threads : u # t => pc'[u] = pc[u]
          /\ \A f \in Fibers : f # cur[t] => fstate'[f] = fstate[f]
      BY <1>b, <1>4, <2>2 DEF CheckTask
    <3> QED
      BY <1>k, <2>0, <3>1
  <2> QED
    BY <2>1, <2>2
<1>5. ASSUME NEW t \in Threads, sched_resume(t)
      PROVE  KeptInv'
  <2>0. pc[t] = "resume" /\ cur[t] \in Fibers /\ UNCHANGED <<tasks, waiting, dropped, cur>>
    BY <1>a, <1>5 DEF sched_resume, ControlInv
  <2>1. /\ pc'[t] \in {"resume", "body"}
        /\ \A u \in Threads : u # t => pc'[u] = pc[u]
        /\ \A f \in Fibers : f # cur[t] => fstate'[f] = fstate[f]
    <3>1. CASE fstate[cur[t]] \in Resumable
      BY <1>b, <1>5, <3>1 DEF sched_resume
    <3>2. CASE fstate[cur[t]] \notin Resumable
      BY <1>b, <1>5, <3>2 DEF sched_resume
    <3> QED
      BY <3>1, <3>2
  <2> QED
    BY <1>k, <2>0, <2>1
<1>6. ASSUME NEW t \in Threads, Arm(t)
      PROVE  KeptInv'
  <2>1. /\ cur[t] \in Fibers /\ pc'[t] = "armed"
        /\ \A u \in Threads : u # t => pc'[u] = pc[u]
        /\ UNCHANGED <<tasks, dropped, cur, fstate>>
        /\ waiting' = waiting \cup {cur[t]}
    BY <1>a, <1>b, <1>6 DEF Arm, Goto, ControlInv
  <2> QED
    BY <1>k, <2>1
<1>7. ASSUME NEW t \in Threads, YieldToHold(t)
      PROVE  KeptInv'
  <2>1. /\ pc[t] = "armed" /\ pc'[t] = "held" /\ cur[t] \in Fibers
        /\ \A u \in Threads : u # t => pc'[u] = pc[u]
        /\ \A f \in Fibers : f # cur[t] => fstate'[f] = fstate[f]
        /\ fstate'[cur[t]] = "HOLD"
        /\ UNCHANGED <<tasks, cur, waiting, dropped>>
    BY <1>a, <1>b, <1>7 DEF YieldToHold, Goto, ControlInv
  <2>2. \A f \in Fibers : InHand(f) => InHand(f)' \/ f = cur[t]
    BY <2>1 DEF InHand
  <2>3. Homed(cur[t]) => cur[t] \in waiting \/ Queued(cur[t])
    BY <1>a, <1>b, <2>1 DEF ArmedInv
  <2>4. NoLostTask'
    BY <1>a, <2>1, <2>2, <2>3 DEF NoLostTask, Owed, Queued
  <2>5. ArmedInv'
    BY <1>a, <2>1, <2>3 DEF ArmedInv, Queued
  <2> QED
    BY <2>4, <2>5 DEF KeptInv
<1>8. ASSUME NEW t \in Threads, sched_yield(t)
      PROVE  KeptInv'
  <2>1. /\ pc[t] = "held" /\ pc'[t] = "tail"
        /\ \A u \in Threads : u # t => pc'[u] = pc[u]
        /\ UNCHANGED <<tasks, cur, waiting, dropped, fstate>>
    BY <1>b, <1>8 DEF sched_yield, Goto
  <2>2. \A f \in Fibers : InHand(f) => InHand(f)'
    BY <2>1 DEF InHand
  <2>3. NoLostTask'
    BY <1>a, <2>1, <2>2 DEF NoLostTask, Owed, Queued
  <2>4. ArmedInv'
    BY <1>a, <2>1 DEF ArmedInv, Queued
  <2> QED
    BY <2>3, <2>4 DEF KeptInv
<1>9. ASSUME NEW t \in Threads, MainFunc(t)
      PROVE  KeptInv'
  <2>1. /\ pc[t] = "body" /\ pc'[t] = "tail" /\ cur[t] \in Fibers
        /\ \A u \in Threads : u # t => pc'[u] = pc[u]
        /\ UNCHANGED <<tasks, cur, waiting, dropped>>
    BY <1>a, <1>b, <1>9 DEF MainFunc, Goto, ControlInv
  <2>2. /\ fstate'[cur[t]] \in Finished
        /\ \A f \in Fibers : f # cur[t] => fstate'[f] = fstate[f]
    BY <1>b, <1>9, <2>1 DEF MainFunc
  <2>3. \A f \in Fibers : InHand(f) => InHand(f)' \/ f = cur[t]
    BY <2>1 DEF InHand
  <2>4. NoLostTask'
    BY <1>a, <2>1, <2>2, <2>3 DEF NoLostTask, Owed, Queued
  <2>5. ArmedInv'
    BY <1>a, <2>1 DEF ArmedInv, Queued
  <2> QED
    BY <2>4, <2>5 DEF KeptInv
<1>10. ASSUME NEW t \in Threads, handleFiber(t)
       PROVE  KeptInv'
  <2>1. /\ pc[t] = "tail" /\ pc'[t] = "leave" /\ cur[t] \in Fibers
        /\ \A u \in Threads : u # t => pc'[u] = pc[u]
        /\ \A f \in Fibers : f # cur[t] => fstate'[f] = fstate[f]
        /\ UNCHANGED <<cur, waiting, dropped>>
    BY <1>a, <1>b, <1>10 DEF handleFiber, Goto, ControlInv
  <2>2. fstate[cur[t]] # "READY"
    BY <1>a, <2>1 DEF QueueInv
  <2>3. UNCHANGED tasks
    BY <1>10, <2>2 DEF handleFiber
  <2>4. fstate'[cur[t]] = IF fstate[cur[t]] \in {"INIT", "EXEC", "HOLD"}
                            THEN "HOLD" ELSE fstate[cur[t]]
    BY <1>b, <1>10, <2>1 DEF handleFiber
  <2>5. Homed(cur[t]) => fstate[cur[t]] \in Finished \cup {"HOLD"}
    BY <1>a, <1>b, <2>1 DEF StateOK
  <2>6. \A f \in Fibers : InHand(f) => InHand(f)'
    BY <2>1 DEF InHand
  <2>7. Owed(cur[t])' => Owed(cur[t])
    BY <2>1, <2>4, <2>5 DEF Owed
  <2>8. NoLostTask'
    BY <1>a, <2>1, <2>3, <2>6, <2>7 DEF NoLostTask, Owed, Queued
  <2>9. ArmedInv'
    BY <1>a, <2>1, <2>3 DEF ArmedInv, Queued
  <2> QED
    BY <2>8, <2>9 DEF KeptInv
<1>11. ASSUME NEW t \in Threads, Leave(t)
       PROVE  KeptInv'
  <2>1. /\ pc[t] = "leave" /\ pc'[t] = "take" /\ cur'[t] = NoFiber
        /\ \A u \in Threads : u # t => pc'[u] = pc[u] /\ cur'[u] = cur[u]
        /\ UNCHANGED <<tasks, waiting, dropped, fstate>>
    BY <1>b, <1>11 DEF Leave, Goto
  <2>2. \A f \in Fibers : InHand(f) => InHand(f)'
    BY <2>1 DEF InHand
  <2>3. NoLostTask'
    BY <1>a, <2>1, <2>2 DEF NoLostTask, Owed, Queued
  <2>4. ArmedInv'
    BY <1>a, <2>1 DEF ArmedInv, Queued
  <2> QED
    BY <2>3, <2>4 DEF KeptInv
<1>12. ASSUME NEW t \in Threads, BodySchedule(t) \/ BodyWake(t)
       PROVE  KeptInv'
  BY <1>12, <1>b, <1>c, <1>d, FibersAssumption DEF BodySchedule, BodyWake
<1>13. CASE ClientSchedule \/ ExternalWake
  BY <1>13, <1>b, <1>c, <1>d DEF ClientSchedule, ExternalWake
<1>14. CASE start \/ stop \/ StopResume \/ Join
  <2>1. UNCHANGED <<tasks, fstate, waiting, dropped>>
    BY <1>14 DEF start, stop, StopResume, Join
  <2>2. ASSUME NEW t \in Threads
        PROVE  /\ pc[t] \in {"check", "resume", "body", "armed"} => UNCHANGED <<pc[t], cur[t]>>
               /\ pc'[t] \in {"armed", "held"} => UNCHANGED <<pc[t], cur[t]>>
    <3>1. CASE start
      BY <1>a, <3>1, ThreadsAssumption DEF start, ControlInv
    <3>2. CASE stop
      BY <1>b, <3>2 DEF stop
    <3>3. CASE StopResume
      BY <1>b, <3>3 DEF StopResume
    <3>4. CASE Join
      BY <1>a, <3>4, ThreadsAssumption DEF Join
    <3> QED
      BY <1>14, <3>1, <3>2, <3>3, <3>4
  <2>3. \A f \in Fibers : InHand(f) => InHand(f)'
    BY <2>2 DEF InHand
  <2>4. NoLostTask'
    BY <1>a, <2>1, <2>3 DEF NoLostTask, Owed, Queued
  <2>5. ArmedInv'
    BY <1>a, <2>1, <2>2 DEF ArmedInv, Queued
  <2> QED
    BY <2>4, <2>5 DEF KeptInv
<1>15. CASE Aborted \/ UNCHANGED vars
  <2>1. UNCHANGED vars
    BY <1>15 DEF Aborted
  <2> QED
    BY <1>a, <2>1 DEF vars, KeptInv, NoLostTask, Owed, Queued, InHand, ArmedInv
<1> QED
  BY <1>1, <1>2, <1>3, <1>4, <1>5, <1>6, <1>7, <1>8, <1>9, <1>10, <1>11, <1>12,
     <1>13, <1>14, <1>15
  DEF Next, LoopStep, FiberStep, OwnerStep

(***************************************************************************)
(* No scheduled work disappears between schedule() and sched_resume(): not *)
(* in take()'s erase, not in a yield racing its own wake-up, not over a    *)
(* restart; only a thread leaving run() (Scheduler.cc:194-198) drops one.  *)
(***************************************************************************)
THEOREM TasksKept == Spec => []NoLostTask
<1>1. Init => BaseInv /\ HomedInv /\ KeptInv
  BY BaseInit, HomedInit, KeptInit
<1>2. BaseInv /\ HomedInv /\ KeptInv /\ [Next]_vars => (BaseInv /\ HomedInv /\ KeptInv)'
  BY TypeStep, CounterStep, ControlStep, HomedStep, KeptStep DEF BaseInv
<1>3. KeptInv => NoLostTask
  BY DEF KeptInv
<1> QED
  BY <1>1, <1>2, <1>3, PTL DEF Spec

=============================================================================
