----------------------------- MODULE Scheduler -----------------------------
(***************************************************************************)
(* The fiber scheduler of easy: easy/base/Scheduler.{h,cc} together with   *)
(* the part of easy/base/Fiber.cc it drives.                               *)
(*                                                                         *)
(* Pool threads (Workers) execute Scheduler::run; the thread that owns the *)
(* scheduler (Caller) calls schedule, start and stop and, with use_caller, *)
(* executes run itself inside stop().  A fiber is an identity whose state_ *)
(* is tracked; what its callback computes is left out, and only the calls  *)
(* it can make into the scheduler remain: schedule something, arrange to   *)
(* be woken, YieldToHold, return or throw.                                 *)
(*                                                                         *)
(* lock_ protects tasks_, so take() and schedule() are single steps.       *)
(* Everything the code reads or writes without lock_ (state_, the two      *)
(* thread counters, running_) is a step of its own wherever another thread *)
(* can observe the difference.                                             *)
(***************************************************************************)
EXTENDS Integers, Sequences, FiniteSets, SequencesExt

CONSTANTS
  Workers,        \* the pool threads made by start()
  Caller,         \* the thread that owns the scheduler object
  UseCaller,      \* the constructor's use_caller
  AnyThread,      \* threadId_ == -1
  NoFiber,        \* a null Fiber::ptr
  Fibers,         \* identities of callbacks and the fibers made from them
  Spawned,        \* the fibers scheduled by fiber code, not by the owner
  Pins,           \* Pins[f]: the thread ids f is ever scheduled with
  ExternalWakes,  \* may a thread outside the pool schedule a waiting fiber?
  MaxYields,      \* bound: how often one fiber calls YieldToHold
  MaxStarts       \* bound: how often the owner calls start()

Threads == Workers \cup {Caller}

ASSUME ThreadsAssumption ==
  /\ IsFiniteSet(Workers)
  /\ Caller \notin Workers
  /\ AnyThread \notin Threads
  /\ UseCaller \in BOOLEAN
  /\ UseCaller \/ Workers # {}      \* EASY_ASSERT(threadNums > 0)

ASSUME FibersAssumption ==
  /\ NoFiber \notin Fibers
  /\ Spawned \subseteq Fibers
  /\ Pins \in [Fibers -> SUBSET (Threads \cup {AnyThread})]
  /\ ExternalWakes \in BOOLEAN
  /\ MaxYields \in Nat
  /\ MaxStarts \in Nat

VARIABLES
  tasks,        \* tasks_: a sequence of [fiber, tid]
  fstate,       \* Fiber::state_; UNUSED and CB precede the Fiber object
  waiting,      \* fibers somebody (a timer, an event, a fiber) will schedule
  yields,       \* how often each fiber has called YieldToHold
  running,      \* running_
  active,       \* activeThreadNums_
  idle,         \* idleThreadNums_
  pc,           \* where each thread is
  cur,          \* the fiber of the Task a thread holds
  idleDone,     \* idle->finish() of the thread's idle fiber
  callerFiber,  \* callerFiber_->state()
  starts,       \* calls of start() so far
  dropped,      \* history: fibers whose task a thread took along as it left run()
  aborted       \* an EASY_ASSERT has failed: the process is gone

vars == <<tasks, fstate, waiting, yields, running, active, idle, pc, cur,
          idleDone, callerFiber, starts, dropped, aborted>>

(***************************************************************************)
(* Fiber::State, with two states for a work item that is not a Fiber yet:  *)
(* UNUSED (nobody has scheduled it) and CB (a Task with a cb_).  No line   *)
(* of the repository ever assigns READY.                                   *)
(***************************************************************************)
State == {"INIT", "READY", "HOLD", "EXEC", "TERM", "EXCEPT"}
Finished == {"TERM", "EXCEPT"}
Resumable == {"INIT", "READY", "HOLD"}

Task == [fiber : Fibers, tid : Threads \cup {AnyThread}]

(***************************************************************************)
(* Program counters.  Loop: inside run().  Engaged: between the increment  *)
(* and the decrement of activeThreadNums_.  OnStack: executing on the      *)
(* fiber's stack.  The owner is otherwise in "client", or inside stop() in *)
(* "canStop" or "join"; a pool thread is "none" before start() creates it  *)
(* and after stop() joined it, and "done" once run() has returned.         *)
(***************************************************************************)
OnStack == {"body", "armed", "held"}
Engaged == OnStack \cup {"resume", "tail", "leave"}
Idling  == {"idle", "idled"}
InLoop  == Engaged \cup Idling \cup {"take", "check"}

WorkerPc == InLoop \cup {"none", "done"}
CallerPc == InLoop \cup {"client", "canStop", "join"}

Init ==
  /\ tasks = << >>
  /\ fstate = [f \in Fibers |-> "UNUSED"]
  /\ waiting = {}
  /\ yields = [f \in Fibers |-> 0]
  /\ running = FALSE
  /\ active = 0
  /\ idle = 0
  /\ pc = [t \in Threads |-> IF t = Caller THEN "client" ELSE "none"]
  /\ cur = [t \in Threads |-> NoFiber]
  /\ idleDone = [t \in Threads |-> FALSE]
  /\ callerFiber = "INIT"
  /\ starts = 0
  /\ dropped = {}
  /\ aborted = FALSE

Goto(t, from, to) ==
  /\ pc[t] = from
  /\ pc' = [pc EXCEPT ![t] = to]

(* Mutant: running_ is not looked at. *)
canStop_ignores_running == tasks = << >> /\ active = 0

(* Scheduler::canStop *)
canStop == ~running /\ tasks = << >> /\ active = 0

-----------------------------------------------------------------------------
(* Scheduling work *)

(* Mutant: the emptiness test for weakup also guards the push. *)
schedule_if_empty(f, tid) ==
  tasks' = IF tasks = << >> THEN <<[fiber |-> f, tid |-> tid]>> ELSE tasks

(* schedule(co, threadId) with scheduleNonBlock; the base weakup is empty. *)
schedule(f, tid) == tasks' = Append(tasks, [fiber |-> f, tid |-> tid])

(***************************************************************************)
(* A fresh work item enters the queue, as a callback (CB) or as a Fiber    *)
(* that has never run (INIT).                                              *)
(***************************************************************************)
scheduleNew(f) ==
  /\ fstate[f] = "UNUSED"
  /\ \E tid \in Pins[f] : schedule(f, tid)
  /\ \E k \in {"CB", "INIT"} : fstate' = [fstate EXCEPT ![f] = k]
  /\ UNCHANGED <<waiting, yields, running, active, idle, cur, idleDone,
                 callerFiber, starts, dropped, aborted>>

(* Someone who was asked to wake f schedules it again, once. *)
scheduleAgain(f) ==
  /\ f \in waiting
  /\ waiting' = waiting \ {f}
  /\ \E tid \in Pins[f] : schedule(f, tid)
  /\ UNCHANGED <<fstate, yields, running, active, idle, cur, idleDone,
                 callerFiber, starts, dropped, aborted>>

ClientSchedule ==
  /\ pc[Caller] = "client"
  /\ \E f \in Fibers \ Spawned : scheduleNew(f)
  /\ UNCHANGED pc

BodySchedule(t) ==
  /\ pc[t] = "body"
  /\ \E f \in Spawned : scheduleNew(f)
  /\ UNCHANGED pc

(* A fiber wakes a waiting fiber, possibly itself before it has yielded. *)
BodyWake(t) ==
  /\ pc[t] \in {"body", "armed"}
  /\ \E f \in waiting : scheduleAgain(f)
  /\ UNCHANGED pc

ExternalWake ==
  /\ ExternalWakes
  /\ \E f \in waiting : scheduleAgain(f)
  /\ UNCHANGED pc

-----------------------------------------------------------------------------
(* Scheduler::run *)

(* Mutants: the thread designation, or the meaning of -1, is forgotten. *)
Eligible_undesignated(t, task) == fstate[task.fiber] # "EXEC"
Eligible_designated(t, task) == task.tid = t /\ fstate[task.fiber] # "EXEC"

(***************************************************************************)
(* take() skips a task designated to another thread and a task whose fiber *)
(* is EXEC, and erases and returns the first of the others.                *)
(***************************************************************************)
Eligible(t, task) ==
  /\ task.tid \in {AnyThread, t}
  /\ fstate[task.fiber] # "EXEC"

take(t) ==
  /\ Goto(t, "take", "check")
  /\ \/ /\ \A i \in DOMAIN tasks : ~Eligible(t, tasks[i])
        /\ cur' = [cur EXCEPT ![t] = NoFiber]
        /\ UNCHANGED tasks
     \/ \E i \in DOMAIN tasks :
          /\ Eligible(t, tasks[i])
          /\ \A j \in 1..(i - 1) : ~Eligible(t, tasks[j])
          /\ cur' = [cur EXCEPT ![t] = tasks[i].fiber]
          /\ tasks' = RemoveAt(tasks, i)
  /\ UNCHANGED <<fstate, waiting, yields, running, active, idle, idleDone,
                 callerFiber, starts, dropped, aborted>>

(***************************************************************************)
(* The thread looks at idle->finish() only after it has taken a task, and  *)
(* leaves run() with the task in hand.  For a pool thread run() is the     *)
(* thread's body; for the owner it is callerFiber_'s, so leaving it ends   *)
(* that fiber and control is back in stop().                               *)
(***************************************************************************)
CheckExit(t) ==
  /\ Goto(t, "check", IF t = Caller THEN "join" ELSE "done")
  /\ idleDone[t]
  /\ callerFiber' = IF t = Caller THEN "TERM" ELSE callerFiber
  /\ dropped' = dropped \cup ({cur[t]} \ {NoFiber})
  /\ UNCHANGED <<tasks, fstate, waiting, yields, running, active, idle, cur,
                 idleDone, starts, aborted>>

(* Mutant: idleThreadNums_.increment() is missing. *)
CheckIdle_uncounted(t) ==
  /\ Goto(t, "check", "idle")
  /\ ~idleDone[t]
  /\ cur[t] = NoFiber
  /\ UNCHANGED <<tasks, fstate, waiting, yields, running, active, idle, cur,
                 idleDone, callerFiber, starts, dropped, aborted>>

(* No task: idleThreadNums_ is incremented and the idle fiber is next. *)
CheckIdle(t) ==
  /\ Goto(t, "check", "idle")
  /\ ~idleDone[t]
  /\ cur[t] = NoFiber
  /\ idle' = idle + 1
  /\ UNCHANGED <<tasks, fstate, waiting, yields, running, active, cur,
                 idleDone, callerFiber, starts, dropped, aborted>>

(* A callback gets its fiber here; a fiber that has finished is skipped. *)
CheckTask(t) ==
  LET f == cur[t]
  IN /\ pc[t] = "check"
     /\ ~idleDone[t]
     /\ f # NoFiber
     /\ IF fstate[f] \in Finished
          THEN /\ pc' = [pc EXCEPT ![t] = "take"]
               /\ cur' = [cur EXCEPT ![t] = NoFiber]
               /\ UNCHANGED <<fstate, active>>
          ELSE /\ pc' = [pc EXCEPT ![t] = "resume"]
               /\ fstate' = [fstate EXCEPT ![f] = IF @ = "CB" THEN "INIT" ELSE @]
               /\ active' = active + 1
               /\ UNCHANGED cur
     /\ UNCHANGED <<tasks, waiting, yields, running, idle, idleDone,
                    callerFiber, starts, dropped, aborted>>

(***************************************************************************)
(* Scheduler::idle under handleFiber(idle).  The idle fiber belongs to the *)
(* thread: it evaluates canStop() once per resume and either ends or holds.*)
(***************************************************************************)
Idle(t) ==
  /\ Goto(t, "idle", "idled")
  /\ idleDone' = [idleDone EXCEPT ![t] = canStop]
  /\ UNCHANGED <<tasks, fstate, waiting, yields, running, active, idle, cur,
                 callerFiber, starts, dropped, aborted>>

IdleLeave(t) ==
  /\ Goto(t, "idled", "take")
  /\ idle' = idle - 1
  /\ UNCHANGED <<tasks, fstate, waiting, yields, running, active, cur,
                 idleDone, callerFiber, starts, dropped, aborted>>

-----------------------------------------------------------------------------
(* handleFiber(task->fiber_) and the fiber it runs *)

(* Mutant: state_ = EXEC is missing. *)
sched_resume_unmarked(t) ==
  /\ Goto(t, "resume", "body")
  /\ fstate[cur[t]] \in Resumable
  /\ UNCHANGED <<tasks, fstate, waiting, yields, running, active, idle, cur,
                 idleDone, callerFiber, starts, dropped, aborted>>

(***************************************************************************)
(* Fiber::sched_resume: the assertion on state_, then EXEC and the context *)
(* switch.  When the fiber's previous thread has not yet saved its context *)
(* (pc "held") the switch loads a stale context: both threads then execute *)
(* the fiber's code, which is what the model lets them do.                 *)
(***************************************************************************)
sched_resume(t) ==
  LET f == cur[t]
  IN /\ pc[t] = "resume"
     /\ IF fstate[f] \in Resumable
          THEN /\ pc' = [pc EXCEPT ![t] = "body"]
               /\ fstate' = [fstate EXCEPT ![f] = "EXEC"]
               /\ UNCHANGED aborted
          ELSE /\ aborted' = TRUE
               /\ UNCHANGED <<pc, fstate>>
     /\ UNCHANGED <<tasks, waiting, yields, running, active, idle, cur,
                    idleDone, callerFiber, starts, dropped>>

(***************************************************************************)
(* The fiber arranges to be scheduled again (a timer, IOManager::addEvent, *)
(* or another fiber) and is from then on a target of scheduleAgain.        *)
(***************************************************************************)
Arm(t) ==
  LET f == cur[t]
  IN /\ Goto(t, "body", "armed")
     /\ f \notin waiting
     /\ yields[f] < MaxYields
     /\ waiting' = waiting \cup {f}
     /\ yields' = [yields EXCEPT ![f] = @ + 1]
     /\ UNCHANGED <<tasks, fstate, running, active, idle, cur, idleDone,
                    callerFiber, starts, dropped, aborted>>

(* Fiber::YieldToHold writes state_ = HOLD first ... *)
YieldToHold(t) ==
  /\ Goto(t, "armed", "held")
  /\ fstate' = [fstate EXCEPT ![cur[t]] = "HOLD"]
  /\ UNCHANGED <<tasks, waiting, yields, running, active, idle, cur,
                 idleDone, callerFiber, starts, dropped, aborted>>

(* ... and sched_yield saves the context and switches away afterwards. *)
sched_yield(t) ==
  /\ Goto(t, "held", "tail")
  /\ UNCHANGED <<tasks, fstate, waiting, yields, running, active, idle, cur,
                 idleDone, callerFiber, starts, dropped, aborted>>

(* Fiber::MainFunc: the callback returned, or threw; then sched_yield. *)
MainFunc(t) ==
  /\ Goto(t, "body", "tail")
  /\ \E s \in Finished : fstate' = [fstate EXCEPT ![cur[t]] = s]
  /\ UNCHANGED <<tasks, waiting, yields, running, active, idle, cur,
                 idleDone, callerFiber, starts, dropped, aborted>>

(* Mutant: the TERM and EXCEPT cases are missing. *)
handleFiber_always_hold(t) ==
  /\ Goto(t, "tail", "leave")
  /\ fstate' = [fstate EXCEPT ![cur[t]] = "HOLD"]
  /\ UNCHANGED <<tasks, waiting, yields, running, active, idle, cur,
                 idleDone, callerFiber, starts, dropped, aborted>>

(* The switch in handleFiber after sched_resume() came back. *)
handleFiber(t) ==
  LET f == cur[t]
  IN /\ Goto(t, "tail", "leave")
     /\ fstate' = [fstate EXCEPT ![f] =
                     IF @ \in {"INIT", "EXEC", "HOLD"} THEN "HOLD" ELSE @]
     /\ IF fstate[f] = "READY" THEN schedule(f, AnyThread) ELSE UNCHANGED tasks
     /\ UNCHANGED <<waiting, yields, running, active, idle, cur, idleDone,
                    callerFiber, starts, dropped, aborted>>

(* Mutant: activeThreadNums_.decrement() is missing. *)
Leave_uncounted(t) ==
  /\ Goto(t, "leave", "take")
  /\ cur' = [cur EXCEPT ![t] = NoFiber]
  /\ UNCHANGED <<tasks, fstate, waiting, yields, running, active, idle,
                 idleDone, callerFiber, starts, dropped, aborted>>

(* Back in run(): activeThreadNums_ is decremented, the task released. *)
Leave(t) ==
  /\ Goto(t, "leave", "take")
  /\ active' = active - 1
  /\ cur' = [cur EXCEPT ![t] = NoFiber]
  /\ UNCHANGED <<tasks, fstate, waiting, yields, running, idle, idleDone,
                 callerFiber, starts, dropped, aborted>>

-----------------------------------------------------------------------------
(* The owner: start() and stop() *)

start ==
  /\ pc[Caller] = "client"
  /\ ~running
  /\ starts < MaxStarts
  /\ starts' = starts + 1
  /\ running' = TRUE
  /\ pc' = [t \in Threads |-> IF t \in Workers THEN "take" ELSE pc[t]]
  /\ UNCHANGED <<tasks, fstate, waiting, yields, active, idle, cur, idleDone,
                 callerFiber, dropped, aborted>>

(***************************************************************************)
(* stop() up to its canStop() at line 113; the weakup calls are empty in   *)
(* the base class.  A scheduler whose only thread is the caller returns at *)
(* once when there is nothing to do.                                       *)
(***************************************************************************)
stop ==
  LET callerOnly == UseCaller /\ Workers = {}
                      /\ callerFiber \in Finished \cup {"INIT"}
  IN /\ pc[Caller] = "client"
     /\ running' = FALSE
     /\ UNCHANGED <<tasks, fstate, waiting, yields, active, idle, cur,
                    idleDone, callerFiber, starts, dropped, aborted>>
     /\ pc' = [pc EXCEPT ![Caller] =
                 IF callerOnly /\ canStop' THEN "client"
                 ELSE IF UseCaller THEN "canStop" ELSE "join"]

(* Lines 113-116: the owner enters run() through callerFiber_->resume(). *)
StopResume ==
  /\ pc[Caller] = "canStop"
  /\ \/ /\ canStop
        /\ pc' = [pc EXCEPT ![Caller] = "join"]
        /\ UNCHANGED <<callerFiber, aborted>>
     \/ /\ ~canStop
        /\ callerFiber \in Resumable
        /\ callerFiber' = "EXEC"
        /\ pc' = [pc EXCEPT ![Caller] = "take"]
        /\ UNCHANGED aborted
     \/ /\ ~canStop
        /\ callerFiber \notin Resumable
        /\ aborted' = TRUE
        /\ UNCHANGED <<pc, callerFiber>>
  /\ UNCHANGED <<tasks, fstate, waiting, yields, running, active, idle, cur,
                 idleDone, starts, dropped>>

(* Joining every pool thread, and threads_.clear(). *)
Join ==
  /\ pc[Caller] = "join"
  /\ \A w \in Workers : pc[w] \in {"done", "none"}
  /\ pc' = [t \in Threads |-> IF t = Caller THEN "client" ELSE "none"]
  /\ cur' = [t \in Threads |-> NoFiber]
  /\ idleDone' = [t \in Threads |-> FALSE]
  /\ UNCHANGED <<tasks, fstate, waiting, yields, running, active, idle,
                 callerFiber, starts, dropped, aborted>>

-----------------------------------------------------------------------------
LoopStep(t) ==
  \/ take(t) \/ CheckExit(t) \/ CheckIdle(t) \/ CheckTask(t)
  \/ Idle(t) \/ IdleLeave(t)
  \/ sched_resume(t) \/ handleFiber(t) \/ Leave(t)

FiberStep(t) ==
  \/ BodySchedule(t) \/ BodyWake(t) \/ Arm(t)
  \/ YieldToHold(t) \/ sched_yield(t) \/ MainFunc(t)

OwnerStep == ClientSchedule \/ start \/ stop \/ StopResume \/ Join

(* A failed EASY_ASSERT ends the process. *)
Aborted == aborted /\ UNCHANGED vars

Next ==
  \/ /\ ~aborted
     /\ \/ \E t \in Threads : LoopStep(t) \/ FiberStep(t)
        \/ OwnerStep
        \/ ExternalWake
  \/ Aborted

(***************************************************************************)
(* Fairness: the operating system runs every thread, fiber code does not   *)
(* compute forever between two calls into the scheduler, and a stop() that *)
(* was called goes on.  Nobody is obliged to call schedule, start or stop  *)
(* or to wake a fiber from outside.                                        *)
(***************************************************************************)
Fairness ==
  /\ \A t \in Threads : WF_vars(~aborted /\ (LoopStep(t) \/ FiberStep(t)))
  /\ WF_vars(~aborted /\ (StopResume \/ Join))

Spec == Init /\ [][Next]_vars
FairSpec == Spec /\ Fairness

-----------------------------------------------------------------------------
(* Properties *)

(***************************************************************************)
(* Every variable keeps to its domain.  In particular neither thread       *)
(* counter is ever negative, so canStop()'s comparison with 0 is never     *)
(* defeated by an unmatched decrement.                                     *)
(***************************************************************************)
TypeOK ==
  /\ tasks \in Seq(Task)
  /\ fstate \in [Fibers -> State \cup {"UNUSED", "CB"}]
  /\ waiting \subseteq Fibers
  /\ yields \in [Fibers -> 0..MaxYields]
  /\ running \in BOOLEAN
  /\ active \in Nat
  /\ idle \in Nat
  /\ pc \in [Threads -> WorkerPc \cup CallerPc]
  /\ cur \in [Threads -> Fibers \cup {NoFiber}]
  /\ idleDone \in [Threads -> BOOLEAN]
  /\ callerFiber \in State
  /\ starts \in 0..MaxStarts
  /\ dropped \subseteq Fibers
  /\ aborted \in BOOLEAN

(***************************************************************************)
(* activeThreadNums_ and idleThreadNums_ are exactly the numbers of        *)
(* threads inside handleFiber for a task and for the idle fiber, whatever  *)
(* way the fiber came back (yield, return, exception).                     *)
(***************************************************************************)
CountersExact ==
  /\ active = Cardinality({t \in Threads : pc[t] \in Engaged})
  /\ idle = Cardinality({t \in Threads : pc[t] \in Idling})

(***************************************************************************)
(* While running_ is set no thread has given up: no idle fiber has ended   *)
(* and no pool thread has left run(), across stop() and a new start().     *)
(***************************************************************************)
NoExitWhileRunning ==
  running => \A t \in Threads : ~idleDone[t] /\ pc[t] \notin {"done", "join"}

(***************************************************************************)
(* The threads that execute run(), those that may take a task of fiber f,  *)
(* and the fibers that have only one such thread: every fiber of a         *)
(* one-thread scheduler, and every fiber always scheduled with the same    *)
(* thread id.                                                              *)
(***************************************************************************)
Runners == Workers \cup (IF UseCaller THEN {Caller} ELSE {})
Hosts(f) == {t \in Runners : t \in Pins[f] \/ AnyThread \in Pins[f]}
Homed(f) == \A t, u \in Hosts(f) : t = u

(***************************************************************************)
(* A fiber with one possible thread is executed by one thread at a time.   *)
(* (For the others see HeldFiberIsExec: YieldToHold publishes HOLD before  *)
(* the context is saved.)                                                  *)
(***************************************************************************)
HomedExclusive ==
  \A t, u \in Threads :
    (/\ pc[t] \in OnStack /\ pc[u] \in OnStack
     /\ cur[t] = cur[u] /\ Homed(cur[t])) => t = u

(***************************************************************************)
(* For such a fiber the assertions hold: sched_resume() finds it INIT,     *)
(* READY or HOLD (Fiber.cc:114), and code it executes finds itself EXEC    *)
(* (IOManager.cc:159).                                                     *)
(***************************************************************************)
HomedAssertions ==
  \A t \in Threads :
    (pc[t] \in {"resume", "body", "armed"} /\ Homed(cur[t])) =>
      fstate[cur[t]] \in IF pc[t] = "resume" THEN Resumable ELSE {"EXEC"}

(***************************************************************************)
(* Such a fiber, once it has returned or thrown, is never resumed and its  *)
(* state never leaves TERM or EXCEPT: handleFiber must not turn it into    *)
(* HOLD after the switch back.                                             *)
(***************************************************************************)
FinishedForever ==
  [][\A f \in Fibers : (Homed(f) /\ fstate[f] \in Finished)
                          => fstate'[f] = fstate[f]]_vars

(***************************************************************************)
(* No scheduled work disappears: a callback or fiber that has not started, *)
(* and a homed fiber that holds and has been woken, is in tasks_ or in the *)
(* hand of a thread that is about to execute it.  The one exception is a   *)
(* task dropped by a thread leaving run().                                 *)
(***************************************************************************)
Queued(f) == \E i \in DOMAIN tasks : tasks[i].fiber = f
InHand(f) == \E t \in Threads : cur[t] = f /\ pc[t] \in {"check", "resume", "body", "armed"}

Owed(f) ==
  \/ fstate[f] \in {"CB", "INIT"}
  \/ fstate[f] = "HOLD" /\ f \notin waiting /\ Homed(f)

NoLostTask ==
  \A f \in Fibers : Owed(f) => Queued(f) \/ InHand(f) \/ f \in dropped

(***************************************************************************)
(* take() hands a task designated to "any thread" (Scheduler.h:123) to     *)
(* some thread, which executes it: no thread leaves run() with a task in   *)
(* its hand.                                                               *)
(***************************************************************************)
NoTaskDropped == dropped = {}

(***************************************************************************)
(* IOManager.cc:159: the fiber that arranges to be woken is EXEC.          *)
(***************************************************************************)
HeldFiberIsExec ==
  \A t \in Threads : pc[t] = "body" => fstate[cur[t]] = "EXEC"

(***************************************************************************)
(* stop() returns: every thread leaves run() and is joined.                *)
(***************************************************************************)
StopReturns ==
  (pc[Caller] # "client") ~> (pc[Caller] = "client")

(***************************************************************************)
(* A callback in tasks_ is executed if the scheduler is not stopped first. *)
(***************************************************************************)
CallbackRuns ==
  \A f \in Fibers :
    (Queued(f) /\ fstate[f] = "CB" /\ running) ~> (fstate[f] # "CB" \/ ~running)

=============================================================================
