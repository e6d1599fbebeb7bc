------------------------------- MODULE IOLoop -------------------------------
(***************************************************************************)
(* The loop of an IOManager without use_caller: Scheduler::run with        *)
(* IOManager::idle, weakup and canStop, and Scheduler::schedule and stop   *)
(* which try to wake it.  Module Scheduler has the fibers in more detail,  *)
(* IOManager the channels and TimerManager the timers; here a job is a     *)
(* fiber that waits for an event or a timer, schedules another job or      *)
(* returns, and what counts is who sleeps in epoll_wait and who is told.   *)
(*                                                                         *)
(* epoll_wait reports one thing at a time (the loop hands it an array of   *)
(* one element).  With EPOLLET a report wakes one thread and is not        *)
(* repeated, so the pipe is either to be reported or not, and the bytes in *)
(* it do not matter.                                                       *)
(***************************************************************************)
EXTENDS Integers, Sequences, FiniteSets, SequencesExt

CONSTANTS
  Pools,     \* the pools considered: sets of threads made by start()
  Jobs,      \* the fibers that may be scheduled
  NoJob,
  MaxWaits   \* bound: how often a job waits for an event or a timer

ASSUME IOLoopAssumption ==
  /\ \A p \in Pools : IsFiniteSet(p) /\ p # {}
  /\ IsFiniteSet(Jobs) /\ Jobs \cap {NoJob, "pipe", "timerfd"} = {}
  /\ MaxWaits \in Nat

VARIABLES
  pool,      \* threads_, fixed at the start
  running,   \* running_
  tasks,     \* tasks_
  state,     \* of each job: UNUSED, then the fiber's state_; DROPPED is lost
  armed,     \* what will wake a job: "event", "timer" or "nothing"
  waits,     \* how often a job has waited
  pending,   \* pendingEventCount_
  ready,     \* what epoll_wait has to report: "pipe", "timerfd", channels
  idle,      \* idleThreadNums_
  active,    \* activeThreadNums_
  pc,        \* where a thread is
  cur,       \* its task
  due,       \* the callbacks listExpiredCallback gave it
  next,      \* where it goes on after a call of weakup()
  idleDone,  \* idle->finish()
  owner,     \* where the thread is that schedules and calls stop()
  wakes,     \* stop(): calls of weakup() to be made
  missed     \* weakup() found no thread idle while one was about to be

vars == <<pool, running, tasks, state, armed, waits, pending, ready, idle,
          active, pc, cur, due, next, idleDone, owner, wakes, missed>>

Init ==
  /\ pool \in Pools
  /\ running = TRUE
  /\ tasks = <<>>
  /\ state = [j \in Jobs |-> "UNUSED"]
  /\ armed = [j \in Jobs |-> "nothing"]
  /\ waits = [j \in Jobs |-> 0]
  /\ pending = 0
  /\ ready = {}
  /\ idle = 0
  /\ active = 0
  /\ pc = [t \in pool |-> "take"]
  /\ cur = [t \in pool |-> NoJob]
  /\ due = [t \in pool |-> <<>>]
  /\ next = [t \in pool |-> "take"]
  /\ idleDone = [t \in pool |-> FALSE]
  /\ owner = "client"
  /\ wakes = 0
  /\ missed = FALSE

Timers == {j \in Jobs : armed[j] = "timer"}

Goto(t, from, to) == pc[t] = from /\ pc' = [pc EXCEPT ![t] = to]

(* A thread that found no task and is not yet counted idle. *)
Unseen == {t \in pool : pc[t] = "took" /\ cur[t] = NoJob /\ ~idleDone[t]}

(* Mutant: one idle thread is not enough. *)
weakup_two_idle ==
  /\ ready' = IF idle > 1 THEN ready \cup {"pipe"} ELSE ready
  /\ missed' = (missed \/ (idle = 0 /\ Unseen # {}))

(* IOManager::weakup: nothing is written when no thread is counted idle. *)
weakup ==
  /\ ready' = IF idle > 0 THEN ready \cup {"pipe"} ELSE ready
  /\ missed' = (missed \/ (idle = 0 /\ Unseen # {}))

(* schedule: under the lock; weakup() follows outside it if the queue was  *)
(* empty.                                                                  *)
Push(js) ==
  /\ tasks' = tasks \o js
  /\ missed' = IF tasks = <<>> THEN FALSE ELSE missed

-----------------------------------------------------------------------------
(* The client *)

Submit(j) ==
  /\ owner = "client"
  /\ state[j] = "UNUSED"
  /\ state' = [state EXCEPT ![j] = "INIT"]
  /\ Push(<<j>>)
  /\ owner' = IF tasks = <<>> THEN "weakup" ELSE "client"
  /\ UNCHANGED <<pool, running, armed, waits, pending, ready, idle, active,
                 pc, cur, due, next, idleDone, wakes>>

SubmitWeakup ==
  /\ owner = "weakup"
  /\ owner' = "client"
  /\ weakup
  /\ UNCHANGED <<pool, running, tasks, state, armed, waits, pending, idle,
                 active, pc, cur, due, next, idleDone, wakes>>

(* Mutant: the threads are woken before running_ is reset. *)
stop_resets_last ==
  /\ owner = "client"
  /\ owner' = "stopping"
  /\ wakes' = Cardinality(pool)
  /\ UNCHANGED <<pool, running, tasks, state, armed, waits, pending, ready,
                 idle, active, pc, cur, due, next, idleDone, missed>>

(* Scheduler::stop: running_ = false, *)
stop ==
  /\ owner = "client"
  /\ owner' = "stopping"
  /\ running' = FALSE
  /\ wakes' = Cardinality(pool)
  /\ UNCHANGED <<pool, tasks, state, armed, waits, pending, ready, idle,
                 active, pc, cur, due, next, idleDone, missed>>

(* weakup() for every thread, *)
StopWeakup ==
  /\ owner = "stopping"
  /\ wakes > 0
  /\ wakes' = wakes - 1
  /\ weakup
  /\ UNCHANGED <<pool, running, tasks, state, armed, waits, pending, idle,
                 active, pc, cur, due, next, idleDone, owner>>

(* and join them. *)
Join ==
  /\ owner = "stopping"
  /\ wakes = 0
  /\ \A t \in pool : pc[t] = "exited"
  /\ owner' = "stopped"
  /\ UNCHANGED <<pool, running, tasks, state, armed, waits, pending, ready,
                 idle, active, pc, cur, due, next, idleDone, wakes, missed>>

-----------------------------------------------------------------------------
(* Scheduler::run *)

(* The first task whose fiber does not execute. *)
Takeable == {i \in DOMAIN tasks : state[tasks[i]] # "EXEC"}
First == CHOOSE i \in Takeable : \A k \in Takeable : i <= k

take(t) ==
  /\ Goto(t, "take", "took")
  /\ IF Takeable = {}
     THEN cur' = [cur EXCEPT ![t] = NoJob] /\ UNCHANGED tasks
     ELSE cur' = [cur EXCEPT ![t] = tasks[First]] /\ tasks' = RemoveAt(tasks, First)
  /\ UNCHANGED <<pool, running, state, armed, waits, pending, ready, idle,
                 active, due, next, idleDone, owner, wakes, missed>>

(* idle->finish(): the thread leaves with the task it took. *)
Break(t) ==
  /\ idleDone[t]
  /\ Goto(t, "took", "exited")
  /\ state' = IF cur[t] = NoJob THEN state ELSE [state EXCEPT ![cur[t]] = "DROPPED"]
  /\ cur' = [cur EXCEPT ![t] = NoJob]
  /\ UNCHANGED <<pool, running, tasks, armed, waits, pending, ready, idle,
                 active, due, next, idleDone, owner, wakes, missed>>

(* No task: the thread is counted idle and enters the idle fiber. *)
EnterIdle(t) ==
  /\ ~idleDone[t]
  /\ cur[t] = NoJob
  /\ Goto(t, "took", "hasTimer")
  /\ idle' = idle + 1
  /\ UNCHANGED <<pool, running, tasks, state, armed, waits, pending, ready,
                 active, cur, due, next, idleDone, owner, wakes, missed>>

LeaveIdle(t) ==
  /\ Goto(t, "yield", "take")
  /\ idle' = idle - 1
  /\ UNCHANGED <<pool, running, tasks, state, armed, waits, pending, ready,
                 active, cur, due, next, idleDone, owner, wakes, missed>>

(* A task: handleFiber resumes its fiber. *)
handleFiber(t) ==
  /\ ~idleDone[t]
  /\ cur[t] # NoJob
  /\ Goto(t, "took", "body")
  /\ active' = active + 1
  /\ state' = [state EXCEPT ![cur[t]] = "EXEC"]
  /\ UNCHANGED <<pool, running, tasks, armed, waits, pending, ready, idle,
                 cur, due, next, idleDone, owner, wakes, missed>>

(* Mutant: activeThreadNums_ is not decremented. *)
LeaveFiber_counted(t) ==
  /\ Goto(t, "leave", "take")
  /\ cur' = [cur EXCEPT ![t] = NoJob]
  /\ UNCHANGED <<pool, running, tasks, state, armed, waits, pending, ready,
                 idle, active, due, next, idleDone, owner, wakes, missed>>

LeaveFiber(t) ==
  /\ Goto(t, "leave", "take")
  /\ active' = active - 1
  /\ cur' = [cur EXCEPT ![t] = NoJob]
  /\ UNCHANGED <<pool, running, tasks, state, armed, waits, pending, ready,
                 idle, due, next, idleDone, owner, wakes, missed>>

-----------------------------------------------------------------------------
(* IOManager::canStop and idle *)

(* Mutant: the timers do not keep the loop from stopping. *)
hasTimer_ignored(t) ==
  /\ Goto(t, "hasTimer", "pending")
  /\ UNCHANGED <<pool, running, tasks, state, armed, waits, pending, ready,
                 idle, active, cur, due, next, idleDone, owner, wakes, missed>>

(* The three parts of canStop() are read one after the other. *)
hasTimer(t) ==
  /\ Goto(t, "hasTimer", IF Timers = {} THEN "pending" ELSE "epoll_wait")
  /\ UNCHANGED <<pool, running, tasks, state, armed, waits, pending, ready,
                 idle, active, cur, due, next, idleDone, owner, wakes, missed>>

(* Mutant: nor do the events somebody waits for. *)
pendingEvents_ignored(t) ==
  /\ Goto(t, "pending", "canStop")
  /\ UNCHANGED <<pool, running, tasks, state, armed, waits, pending, ready,
                 idle, active, cur, due, next, idleDone, owner, wakes, missed>>

pendingEvents(t) ==
  /\ Goto(t, "pending", IF pending = 0 THEN "canStop" ELSE "epoll_wait")
  /\ UNCHANGED <<pool, running, tasks, state, armed, waits, pending, ready,
                 idle, active, cur, due, next, idleDone, owner, wakes, missed>>

canStop(t) ==
  LET stop_ == ~running /\ tasks = <<>> /\ active = 0
  IN /\ Goto(t, "canStop", IF stop_ THEN "yield" ELSE "epoll_wait")
     /\ idleDone' = [idleDone EXCEPT ![t] = stop_]
     /\ UNCHANGED <<pool, running, tasks, state, armed, waits, pending, ready,
                    idle, active, cur, due, next, owner, wakes, missed>>

(* The pipe is emptied and the idle fiber yields. *)
WaitPipe(t) ==
  /\ "pipe" \in ready
  /\ Goto(t, "epoll_wait", "yield")
  /\ ready' = ready \ {"pipe"}
  /\ UNCHANGED <<pool, running, tasks, state, armed, waits, pending, idle,
                 active, cur, due, next, idleDone, owner, wakes, missed>>

(* The timerfd: callbacks that are due are taken off timers_ ... *)
WaitTimer(t) ==
  /\ "timerfd" \in ready
  /\ ready' = ready \ {"timerfd"}
  /\ IF Timers = {}
     THEN Goto(t, "epoll_wait", "yield") /\ UNCHANGED <<armed, due>>
     ELSE /\ Goto(t, "epoll_wait", "expired")
          /\ \E js \in SUBSET Timers \ {{}} :
               /\ armed' = [j \in Jobs |-> IF j \in js THEN "nothing" ELSE armed[j]]
               /\ due' = [due EXCEPT ![t] = SetToSeq(js)]
  /\ UNCHANGED <<pool, running, tasks, state, waits, pending, idle, active,
                 cur, next, idleDone, owner, wakes, missed>>

(* ... and then scheduled. *)
Expired(t) ==
  /\ Goto(t, "expired", IF tasks = <<>> THEN "weakup" ELSE "yield")
  /\ Push(due[t])
  /\ due' = [due EXCEPT ![t] = <<>>]
  /\ next' = [next EXCEPT ![t] = IF tasks = <<>> THEN "yield" ELSE "take"]
  /\ UNCHANGED <<pool, running, state, armed, waits, pending, ready, idle,
                 active, cur, idleDone, owner, wakes>>

(* A channel: handleEvent schedules the waiter, and only then the pending  *)
(* count goes down.                                                        *)
WaitEvent(t) ==
  \E j \in Jobs \cap ready :
    /\ Goto(t, "epoll_wait", IF tasks = <<>> THEN "weakup" ELSE "handled")
    /\ ready' = ready \ {j}
    /\ armed' = [armed EXCEPT ![j] = "nothing"]
    /\ Push(<<j>>)
    /\ next' = [next EXCEPT ![t] = IF tasks = <<>> THEN "handled" ELSE "take"]
    /\ UNCHANGED <<pool, running, state, waits, pending, idle, active, cur,
                   due, idleDone, owner, wakes>>

Handled(t) ==
  /\ Goto(t, "handled", "yield")
  /\ pending' = pending - 1
  /\ UNCHANGED <<pool, running, tasks, state, armed, waits, ready, idle,
                 active, cur, due, next, idleDone, owner, wakes, missed>>

ThreadWeakup(t) ==
  /\ Goto(t, "weakup", next[t])
  /\ next' = [next EXCEPT ![t] = "take"]
  /\ weakup
  /\ UNCHANGED <<pool, running, tasks, state, armed, waits, pending, idle,
                 active, cur, due, idleDone, owner, wakes>>

-----------------------------------------------------------------------------
(* What a fiber does *)

(* It asks to be woken by an event (IOManager::addEvent) ... *)
ArmEvent(t) ==
  LET j == cur[t]
  IN /\ Goto(t, "body", "armed")
     /\ waits[j] < MaxWaits
     /\ armed' = [armed EXCEPT ![j] = "event"]
     /\ waits' = [waits EXCEPT ![j] = @ + 1]
     /\ pending' = pending + 1
     /\ UNCHANGED <<pool, running, tasks, state, ready, idle, active, cur, due,
                    next, idleDone, owner, wakes, missed>>

(* ... or by a timer (addTimer with Scheduler::schedule), *)
ArmTimer(t) ==
  LET j == cur[t]
  IN /\ Goto(t, "body", "armed")
     /\ waits[j] < MaxWaits
     /\ armed' = [armed EXCEPT ![j] = "timer"]
     /\ waits' = [waits EXCEPT ![j] = @ + 1]
     /\ UNCHANGED <<pool, running, tasks, state, pending, ready, idle, active,
                    cur, due, next, idleDone, owner, wakes, missed>>

(* and is suspended afterwards. *)
YieldToHold(t) ==
  /\ Goto(t, "armed", "leave")
  /\ state' = [state EXCEPT ![cur[t]] = "HOLD"]
  /\ UNCHANGED <<pool, running, tasks, armed, waits, pending, ready, idle,
                 active, cur, due, next, idleDone, owner, wakes, missed>>

BodySchedule(t) ==
  \E j \in Jobs :
    /\ state[j] = "UNUSED"
    /\ state' = [state EXCEPT ![j] = "INIT"]
    /\ Goto(t, "body", IF tasks = <<>> THEN "weakup" ELSE "body")
    /\ Push(<<j>>)
    /\ next' = [next EXCEPT ![t] = IF tasks = <<>> THEN "body" ELSE "take"]
    /\ UNCHANGED <<pool, running, armed, waits, pending, ready, idle, active,
                   cur, due, idleDone, owner, wakes>>

MainFunc(t) ==
  /\ Goto(t, "body", "leave")
  /\ state' = [state EXCEPT ![cur[t]] = "TERM"]
  /\ UNCHANGED <<pool, running, tasks, armed, waits, pending, ready, idle,
                 active, cur, due, next, idleDone, owner, wakes, missed>>

-----------------------------------------------------------------------------
(* The kernel *)

(* What a job waits for happens; its channel is to be reported. *)
Happen(j) ==
  /\ armed[j] = "event"
  /\ j \notin ready
  /\ ready' = ready \cup {j}
  /\ UNCHANGED <<pool, running, tasks, state, armed, waits, pending, idle,
                 active, pc, cur, due, next, idleDone, owner, wakes, missed>>

(* The timerfd, armed for the first timer, goes off. *)
Tick ==
  /\ Timers # {}
  /\ "timerfd" \notin ready
  /\ ready' = ready \cup {"timerfd"}
  /\ UNCHANGED <<pool, running, tasks, state, armed, waits, pending, idle,
                 active, pc, cur, due, next, idleDone, owner, wakes, missed>>

-----------------------------------------------------------------------------
run(t) ==
  \/ take(t) \/ Break(t) \/ EnterIdle(t) \/ LeaveIdle(t)
  \/ handleFiber(t) \/ LeaveFiber(t)
  \/ hasTimer(t) \/ pendingEvents(t) \/ canStop(t)
  \/ WaitPipe(t) \/ WaitTimer(t) \/ Expired(t) \/ WaitEvent(t) \/ Handled(t)
  \/ ThreadWeakup(t)
  \/ ArmEvent(t) \/ ArmTimer(t) \/ YieldToHold(t) \/ BodySchedule(t) \/ MainFunc(t)

Stopping == SubmitWeakup \/ StopWeakup \/ Join

Next ==
  \/ \E j \in Jobs : Submit(j)
  \/ stop
  \/ Stopping
  \/ \E t \in pool : run(t)
  \/ \E j \in Jobs : Happen(j)
  \/ Tick
  \/ owner = "stopped" /\ UNCHANGED vars

(***************************************************************************)
(* The operating system runs every thread that can run; timers expire, and *)
(* what a fiber waits for happens.  The client need not do anything.       *)
(***************************************************************************)
Fairness ==
  /\ WF_vars(Stopping)
  /\ \A p \in UNION Pools : WF_vars(p \in pool /\ run(p))
  /\ \A j \in Jobs : WF_vars(Happen(j))
  /\ WF_vars(Tick)

Spec == Init /\ [][Next]_vars /\ Fairness

-----------------------------------------------------------------------------
(* Properties *)

(***************************************************************************)
(* Types; and the two thread counters, which canStop() and weakup() read   *)
(* from other threads, count exactly the threads they claim to.            *)
(***************************************************************************)
TypeOK ==
  /\ pool \in Pools
  /\ running \in BOOLEAN
  /\ tasks \in Seq(Jobs)
  /\ state \in [Jobs -> {"UNUSED", "INIT", "EXEC", "HOLD", "TERM", "DROPPED"}]
  /\ armed \in [Jobs -> {"nothing", "event", "timer"}]
  /\ waits \in [Jobs -> 0..MaxWaits]
  /\ pending \in Nat
  /\ ready \subseteq {"pipe", "timerfd"} \cup Jobs
  /\ cur \in [pool -> Jobs \cup {NoJob}]
  /\ due \in [pool -> Seq(Jobs)]
  /\ idleDone \in [pool -> BOOLEAN]
  /\ active = Cardinality({t \in pool :
                 \/ pc[t] \in {"body", "armed", "leave"}
                 \/ pc[t] = "weakup" /\ next[t] = "body"})
  /\ idle = Cardinality({t \in pool :
                 \/ pc[t] \in {"hasTimer", "pending", "canStop", "epoll_wait",
                              "expired", "handled", "yield"}
                 \/ pc[t] = "weakup" /\ next[t] # "body"})

Asleep(t) == pc[t] = "epoll_wait" /\ ready = {}

(***************************************************************************)
(* The threads sleep over a queued task only if weakup() came between a    *)
(* take() that found nothing and idleThreadNums_.increment(), with nobody  *)
(* else counted idle.  Every other schedule is noticed, whatever reports   *)
(* are consumed by whom.                                                   *)
(***************************************************************************)
SleepOnlyIfMissed ==
  /\ \A t \in pool : Asleep(t)
  /\ owner # "weakup"
  /\ tasks # <<>>
  => missed

(***************************************************************************)
(* canStop() is three reads at three times, made by every thread for       *)
(* itself while the others run fibers: all the same, when the last thread  *)
(* has left run() and stop() can return, no task is queued, no timer is    *)
(* set and no event is awaited.                                            *)
(***************************************************************************)
Settled(j) == state[j] \in {"UNUSED", "TERM", "DROPPED"}

DrainedAtJoin ==
  (\A t \in pool : pc[t] = "exited") =>
     /\ tasks = <<>> /\ Timers = {} /\ pending = 0
     /\ \A j \in Jobs : Settled(j)

(***************************************************************************)
(* Unless a wake-up was missed, stop() lets every job that was scheduled   *)
(* come to its end, those that still wait included (or a thread on its way *)
(* out takes it and drops it), whichever threads the reports wake.  After  *)
(* a missed one stop() itself may find no idle thread to wake, and the     *)
(* thread then sleeps for good because of the task it has not seen.        *)
(***************************************************************************)
StopDrains ==
  (owner = "stopping" /\ ~missed) ~> \A j \in Jobs : Settled(j)

(***************************************************************************)
(* With one thread stop() then returns, and no job is dropped.  (With two  *)
(* it need not: both calls of weakup() may wake the same thread.)          *)
(***************************************************************************)
StopReturns ==
  (owner = "stopping" /\ ~missed /\ Cardinality(pool) = 1)
    ~> (owner = "stopped" /\ \A j \in Jobs : state[j] # "DROPPED")
=============================================================================
