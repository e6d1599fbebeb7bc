---------------------------- MODULE TimerManager ----------------------------
(***************************************************************************)
(* easy/base/Timer.cc: a set of timers ordered by expiration, a one-shot   *)
(* timerfd that wakes a thread for the earliest one, and the threads       *)
(* (Pollers) that collect what has expired in IOManager::idle.             *)
(*                                                                         *)
(* Expirations are wall-clock times (gettimeofday), the timerfd counts on  *)
(* CLOCK_MONOTONIC.  The unit of time is the shortest delay the code ever  *)
(* arms (100 microseconds).  A timer is the natural number its address is: *)
(* the Comparator breaks ties by address.                                  *)
(*                                                                         *)
(* lock_ makes cancel, refresh, reset and the insertion single steps.      *)
(* listExpiredCallback takes it twice and reads the clock before, so it is *)
(* several steps, and so is a public addTimer, which reads the clock       *)
(* before it locks.                                                        *)
(***************************************************************************)
EXTENDS Integers, FiniteSets

CONSTANTS
  Timers,          \* the Timer objects, as addresses
  Pollers,         \* the threads that may be in IOManager::idle
  Intervals,       \* the intervals callers pass
  RolloverWindow,  \* kSecondsPerHour, passed as milliseconds
  MaxTime,         \* bound: the clocks stop here
  MaxClockSteps    \* bound: how often the wall clock is set

ASSUME TimersAssumption ==
  /\ Timers \subseteq Nat
  /\ IsFiniteSet(Timers)
  /\ Intervals \subseteq Nat
  /\ RolloverWindow \in Nat
  /\ MaxTime \in Nat \ {0}
  /\ MaxClockSteps \in Nat

VARIABLES
  timers,      \* timers_
  cb,          \* the timers whose cb_ is set
  repeat,      \* the timers whose repeat_ is set
  interval,    \* interval_
  expiration,  \* expiration_
  previous,    \* previous_
  fdAt,        \* when timerfd_ expires; 0: disarmed
  pending,     \* timerfd_ has expired and epoll has not reported it yet
  made,        \* timers constructed by a public addTimer that waits for lock_
  born,        \* timers whose public addTimer has inserted them
  pollerPc,    \* where each poller is
  now,         \* a poller's local `now`
  wall,        \* gettimeofday
  mono,        \* CLOCK_MONOTONIC
  clockSteps,  \* how often the wall clock was set
  crashed,     \* *timers_.begin() was evaluated on an empty set and trapped
  fired,       \* history: timers whose callback was collected
  cancelled,   \* history: timers whose cancel() returned true
  stale        \* history: since the last timerfd_settime the earliest timer
               \* was removed or moved back, or the wall clock was set

timerVars  == <<timers, cb, repeat, interval, expiration, made, born>>
fdVars     == <<fdAt, pending, stale>>
pollVars   == <<pollerPc, now, previous>>
clockVars  == <<wall, mono, clockSteps>>
historyVars == <<fired, cancelled>>
vars == <<timerVars, fdVars, pollVars, clockVars, historyVars, crashed>>

PollerPc == {"wait", "read", "now", "check", "expire"}

(* Timer::Comparator, for the expirations in ex. *)
Before(t, u, ex) == ex[t] < ex[u] \/ (ex[t] = ex[u] /\ t < u)

(* t is *timers_.begin() when timers_ is S. *)
First(t, S, ex) == \A u \in S \ {t} : Before(t, u, ex)

Init ==
  /\ timers = {}
  /\ cb = {}
  /\ repeat = {}
  /\ interval = [t \in Timers |-> 0]
  /\ expiration = [t \in Timers |-> 0]
  /\ previous = 1
  /\ fdAt = 0
  /\ pending = FALSE
  /\ made = {}
  /\ born = {}
  /\ pollerPc = [p \in Pollers |-> "wait"]
  /\ now = [p \in Pollers |-> 0]
  /\ wall = 1
  /\ mono = 1
  /\ clockSteps = 0
  /\ crashed = FALSE
  /\ fired = {}
  /\ cancelled = {}
  /\ stale = FALSE

-----------------------------------------------------------------------------
(* timerfd_ *)

(* Mutant: no least delay. *)
howMuchTimeFromNow_unclamped(when) == when - wall

(* howMuchTimeFromNow: at least the shortest delay. *)
howMuchTimeFromNow(when) == IF when - wall < 1 THEN 1 ELSE when - wall

(***************************************************************************)
(* timerfd_settime with a relative, one-shot value.  It also clears an     *)
(* expiration nobody has read, so epoll no longer reports it.              *)
(***************************************************************************)
resetTimerfd(when) ==
  /\ fdAt' = mono + howMuchTimeFromNow(when)
  /\ pending' = FALSE
  /\ stale' = FALSE

(***************************************************************************)
(* The protected addTimer: t goes into S, and if it is first there, the fd *)
(* is armed for it.  moved: t has just been taken from the front.          *)
(***************************************************************************)
insert(t, S, ex, moved) ==
  /\ timers' = S \cup {t}
  /\ expiration' = ex
  /\ IF First(t, S, ex)
       THEN resetTimerfd(ex[t])
       ELSE UNCHANGED <<fdAt, pending>> /\ stale' = (stale \/ moved)

-----------------------------------------------------------------------------
(* Timers, used by any thread *)

(* Timer::Timer, called by the public addTimer before it takes lock_. *)
Construct(t, iv, rep) ==
  /\ t \notin made \cup born
  /\ made' = made \cup {t}
  /\ cb' = cb \cup {t}
  /\ repeat' = IF rep THEN repeat \cup {t} ELSE repeat
  /\ interval' = [interval EXCEPT ![t] = iv]
  /\ expiration' = [expiration EXCEPT ![t] = wall + iv]
  /\ UNCHANGED <<timers, born, fdVars, pollVars, clockVars, historyVars, crashed>>

(* The public addTimer once it holds lock_; its caller now has the handle. *)
addTimer(t) ==
  /\ t \in made
  /\ made' = made \ {t}
  /\ born' = born \cup {t}
  /\ insert(t, timers, expiration, FALSE)
  /\ UNCHANGED <<cb, repeat, interval, pollVars, clockVars, historyVars, crashed>>

(* Mutant: cb_ = nullptr is missing. *)
cancel_keeps_cb(t) ==
  /\ t \in born /\ t \in cb
  /\ timers' = timers \ {t}
  /\ cancelled' = cancelled \cup {t}
  /\ stale' = (stale \/ First(t, timers, expiration))
  /\ UNCHANGED <<cb, repeat, interval, expiration, made, born, fdAt, pending,
                 pollVars, clockVars, fired, crashed>>

(* Timer::cancel when it returns true; otherwise it changes nothing. *)
cancel(t) ==
  /\ t \in born /\ t \in cb
  /\ cb' = cb \ {t}
  /\ timers' = timers \ {t}
  /\ cancelled' = cancelled \cup {t}
  /\ stale' = (stale \/ First(t, timers, expiration))
  /\ UNCHANGED <<repeat, interval, expiration, made, born, fdAt, pending,
                 pollVars, clockVars, fired, crashed>>

(* Mutant: refresh() looks neither at cb_ nor at the result of find(). *)
refresh_unchecked(t) ==
  /\ t \in born
  /\ timers' = timers \cup {t}
  /\ expiration' = [expiration EXCEPT ![t] = wall + interval[t]]
  /\ stale' = TRUE
  /\ UNCHANGED <<cb, repeat, interval, made, born, fdAt, pending, pollVars,
                 clockVars, historyVars, crashed>>

(***************************************************************************)
(* Timer::refresh inserts into timers_ directly: timerfd_ keeps its value. *)
(***************************************************************************)
refresh(t) ==
  LET later == wall + interval[t]
  IN /\ t \in born /\ t \in cb /\ t \in timers
     /\ expiration' = [expiration EXCEPT ![t] = later]
     /\ stale' = (stale \/ First(t, timers, expiration) \/ later < expiration[t])
     /\ UNCHANGED <<timers, cb, repeat, interval, made, born, fdAt, pending,
                    pollVars, clockVars, historyVars, crashed>>

(***************************************************************************)
(* Timer::reset.  It compares interval with interval_ before it takes      *)
(* lock_, so a concurrent reset may have made them equal by now.           *)
(***************************************************************************)
reset(t, iv, fromNow) ==
  LET begin == IF fromNow THEN wall ELSE expiration[t] - interval[t]
  IN /\ t \in born /\ t \in cb /\ t \in timers
     /\ interval' = [interval EXCEPT ![t] = iv]
     /\ insert(t, timers \ {t}, [expiration EXCEPT ![t] = begin + iv],
               First(t, timers, expiration))
     /\ UNCHANGED <<cb, repeat, made, born, pollVars, clockVars, historyVars, crashed>>

-----------------------------------------------------------------------------
(* Time *)

(* Both clocks advance; timerfd_ expires when its time has come. *)
Tick ==
  /\ mono < MaxTime /\ wall < MaxTime
  /\ mono' = mono + 1
  /\ wall' = wall + 1
  /\ fdAt' = IF fdAt = mono + 1 THEN 0 ELSE fdAt
  /\ pending' = (pending \/ fdAt = mono + 1)
  /\ UNCHANGED <<timerVars, stale, pollVars, clockSteps, historyVars, crashed>>

(* Somebody sets the wall clock; the monotonic clock does not notice. *)
StepClock ==
  /\ clockSteps < MaxClockSteps
  /\ clockSteps' = clockSteps + 1
  /\ wall' \in (1..MaxTime) \ {wall}
  /\ stale' = TRUE
  /\ UNCHANGED <<timerVars, fdAt, pending, pollVars, mono, historyVars, crashed>>

-----------------------------------------------------------------------------
(* IOManager::idle for an event on timerfd_, and listExpiredCallback *)

Goto(p, from, to) ==
  /\ pollerPc[p] = from
  /\ pollerPc' = [pollerPc EXCEPT ![p] = to]

(* epoll_wait reports timerfd_, edge triggered: to one poller, once. *)
epoll_wait(p) ==
  /\ Goto(p, "wait", "read")
  /\ pending
  /\ pending' = FALSE
  /\ UNCHANGED <<timerVars, fdAt, stale, now, previous, clockVars, historyVars, crashed>>

(* Reading timerfd_ until it is empty, which clears a newer expiration too. *)
ReadTimerfd(p) ==
  /\ Goto(p, "read", "now")
  /\ pending' = FALSE
  /\ UNCHANGED <<timerVars, fdAt, stale, now, previous, clockVars, historyVars, crashed>>

(* now = Timestamp::now(), before any lock. *)
Now(p) ==
  /\ Goto(p, "now", "check")
  /\ now' = [now EXCEPT ![p] = wall]
  /\ UNCHANGED <<timerVars, fdVars, previous, clockVars, historyVars, crashed>>

(* The emptiness test under the read lock, which is then released. *)
Check(p) ==
  /\ Goto(p, "check", IF timers = {} THEN "wait" ELSE "expire")
  /\ UNCHANGED <<timerVars, fdVars, now, previous, clockVars, historyVars, crashed>>

detectClockRollover(p) == now[p] < previous /\ now[p] < previous - RolloverWindow

(* What [timers_.begin(), end) holds for poller p. *)
Due(p) == IF detectClockRollover(p) THEN timers
          ELSE {t \in timers : expiration[t] <= now[p]}

(***************************************************************************)
(* Under the write lock, nothing to collect: previous_ is updated and the  *)
(* timerfd keeps whatever value it has.                                    *)
(***************************************************************************)
ExpireNothing(p) ==
  /\ Goto(p, "expire", "wait")
  /\ previous' = now[p]
  /\ timers # {} /\ Due(p) = {}
  /\ UNCHANGED <<timerVars, fdVars, now, clockVars, historyVars, crashed>>

(***************************************************************************)
(* Another thread has emptied timers_ since Check: *timers_.begin() is     *)
(* undefined unless a rollover keeps it from being evaluated.  Either the  *)
(* process traps or the comparison yields something and nothing is found.  *)
(***************************************************************************)
ExpireEmpty(p) ==
  /\ Goto(p, "expire", "wait")
  /\ previous' = now[p]
  /\ timers = {}
  /\ crashed' \in IF detectClockRollover(p) THEN {FALSE} ELSE BOOLEAN
  /\ UNCHANGED <<timerVars, fdVars, now, clockVars, historyVars>>

(* Mutant: timer->cb_ = nullptr is missing. *)
releaseCallbacks_none(due) == UNCHANGED cb

(* The one-shot timers among the due ones lose cb_. *)
releaseCallbacks(due) == cb' = cb \ (due \ repeat)

(* Mutant: the final resetTimerfd is missing. *)
rearm_never(S, ex) == UNCHANGED fdVars

(* The fd is armed for the first of the timers left, if any. *)
rearm(S, ex) ==
  \/ S = {} /\ UNCHANGED fdVars
  \/ \E t \in S : First(t, S, ex) /\ resetTimerfd(ex[t])

(***************************************************************************)
(* Under the write lock: the due timers are taken out and their callbacks  *)
(* collected; the repeating ones go back, now + interval_, the others lose *)
(* cb_; the fd is armed for the first of those left.                       *)
(***************************************************************************)
Expire(p) ==
  LET due   == Due(p)
      again == due \cap repeat
      left  == (timers \ due) \cup again
      ex    == [t \in Timers |-> IF t \in again THEN now[p] + interval[t]
                                 ELSE expiration[t]]
  IN /\ Goto(p, "expire", "wait")
     /\ previous' = now[p]
     /\ due # {}
     /\ timers' = left
     /\ expiration' = ex
     /\ releaseCallbacks(due)
     /\ fired' = fired \cup due
     /\ rearm(left, ex)
     /\ UNCHANGED <<repeat, interval, made, born, now, clockVars, cancelled, crashed>>

-----------------------------------------------------------------------------
TimerStep(t) ==
  \/ \E iv \in Intervals, rep \in BOOLEAN : Construct(t, iv, rep)
  \/ addTimer(t)
  \/ cancel(t)
  \/ refresh(t)
  \/ \E iv \in Intervals, fromNow \in BOOLEAN : reset(t, iv, fromNow)

PollerStep(p) ==
  \/ epoll_wait(p) \/ ReadTimerfd(p) \/ Now(p) \/ Check(p)
  \/ ExpireNothing(p) \/ ExpireEmpty(p) \/ Expire(p)

Next ==
  /\ ~crashed
  /\ \/ \E t \in Timers : TimerStep(t)
     \/ \E p \in Pollers : PollerStep(p)
     \/ Tick
     \/ StepClock

Spec == Init /\ [][Next]_vars

-----------------------------------------------------------------------------
(* Properties *)

(* Every variable keeps to its domain. *)
TypeOK ==
  /\ timers \subseteq Timers
  /\ cb \subseteq Timers
  /\ repeat \subseteq Timers
  /\ interval \in [Timers -> Nat]
  /\ expiration \in [Timers -> Int]
  /\ previous \in Nat
  /\ fdAt \in Nat
  /\ pending \in BOOLEAN
  /\ made \subseteq Timers
  /\ born \subseteq Timers
  /\ pollerPc \in [Pollers -> PollerPc]
  /\ now \in [Pollers -> Nat]
  /\ wall \in Nat
  /\ mono \in Nat
  /\ clockSteps \in Nat
  /\ crashed \in BOOLEAN
  /\ fired \subseteq Timers
  /\ cancelled \subseteq Timers
  /\ stale \in BOOLEAN

(***************************************************************************)
(* cancel() erases timers_.find(this) without looking at the result, and   *)
(* refresh() and reset() treat cb_ and membership as separate conditions:  *)
(* they agree, because a timer whose handle is out has a callback exactly  *)
(* when it is in timers_.                                                  *)
(***************************************************************************)
CbIffQueued == \A t \in born : t \in cb <=> t \in timers

(***************************************************************************)
(* The outcome of a one-shot timer is decided once: it is in timers_, or   *)
(* its callback was collected, or cancel() returned true, never two of     *)
(* these and never none.  do_io relies on it to tell a timeout from an     *)
(* answer that came in time.                                               *)
(***************************************************************************)
OneOutcome ==
  \A t \in born \ repeat :
    /\ t \in timers \/ t \in fired \/ t \in cancelled
    /\ t \in timers => t \notin fired /\ t \notin cancelled
    /\ ~(t \in fired /\ t \in cancelled)

(***************************************************************************)
(* A timer that was cancelled, or that was one-shot and has fired, never   *)
(* comes back, whatever refresh(), reset() or a poller in flight do.       *)
(***************************************************************************)
DeadStaysDead ==
  [][\A t \in born : t \notin timers => t \notin timers' /\ t \notin cb']_vars

(***************************************************************************)
(* What wakes a thread for the timers in timers_.                          *)
(* ArmedInTime: the fd will expire, not later than any timer (or at the    *)
(* next tick), and by then a timer is due.  Alarmed: it has expired, a     *)
(* timer is due and a poller will be told.  Attended: a poller is on its   *)
(* way to the write lock with a `now` at which a timer is due.             *)
(***************************************************************************)
ArmedInTime ==
  /\ fdAt > mono
  /\ \E t \in timers : expiration[t] - wall <= fdAt - mono
  /\ \A t \in timers : \/ fdAt - mono <= expiration[t] - wall
                       \/ fdAt - mono = 1

Alarmed == pending /\ \E t \in timers : expiration[t] <= wall

AttendedBy(p) ==
  \/ pollerPc[p] \in {"read", "now"} /\ \E t \in timers : expiration[t] <= wall
  \/ pollerPc[p] \in {"check", "expire"} /\ \E t \in timers : expiration[t] <= now[p]

(***************************************************************************)
(* As long as the fd was last set for the present front of timers_ (not    *)
(* stale), no timer is forgotten: one of the three mechanisms is under way.*)
(***************************************************************************)
Covered ==
  ~stale => \/ timers = {}
            \/ ArmedInTime
            \/ Alarmed
            \/ \E p \in Pollers : AttendedBy(p)

(***************************************************************************)
(* "wake up by timerfd_settime()" (Timer.cc:244): a thread is woken for    *)
(* the timers in timers_ because the fd is armed or has expired, or one is *)
(* awake already.                                                          *)
(***************************************************************************)
NoSleepingTimers ==
  timers # {} => \/ fdAt # 0 \/ pending
                 \/ \E p \in Pollers : pollerPc[p] # "wait"
=============================================================================
