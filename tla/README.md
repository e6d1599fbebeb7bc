# A TLA+ model of easy

`easy` is a C++ fiber library: an N:M scheduler of stackful fibers, an epoll
reactor with timers built on it, hooks that turn blocking system calls into
fiber switches, and a small network layer. This directory models its concurrent
core, the network layer on top of it, its configuration and its byte buffers,
checks them with TLC on small instances and proves the main invariants of most
of them, and that the byte buffer implements its specification, with TLAPS for
every instance.

## 1. Inventory

| part | state | operations | how it interacts |
|---|---|---|---|
| **Scheduler** (`base/Scheduler.*`) | `tasks_`, `running_`, `activeThreadNums_`, `idleThreadNums_`, `threads_`, `callerFiber_` | `schedule`, `start`, `stop`, `run`, `take`, `handleFiber`, `idle`, `canStop` | pool threads execute `run`; fibers and other threads call `schedule`; the owner calls `start`/`stop` |
| **Fiber** (`base/Fiber.*`) | `state_`, `ctx_`, stack | `sched_resume`, `sched_yield`, `YieldToHold`, `resume`, `yield`, `reset`, `MainFunc` | driven by `handleFiber`; `take` reads `state_` without owning the fiber |
| **TimerManager, Timer** (`base/Timer.*`) | `timers_`, `timerfd_`, `previous_`; per timer `cb_`, `expiration_`, `interval_`, `repeat_` | `addTimer`, `cancel`, `refresh`, `reset`, `listExpiredCallback`, `hasTimer` | any thread adds and cancels; threads in `IOManager::idle` collect |
| **IOManager, Channel** (`base/IOManager.*`, `Channel.*`) | `channels_`, `events_`, `pendingEventCount_`, the wake-up pipe; per channel `events_`, `read_`, `write_` | `addEvent`, `removeEvent`, `cancelEvent`, `cancelAll`, `weakup`, `idle` | derives from Scheduler and TimerManager; epoll reports events, `handleEvent` schedules the waiter |
| **hook, FdManager** (`base/hook.*`, `FdManager.*`) | per descriptor: socket?, non-blocking flags, timeouts | `do_io`, `connect_with_timeout`, `sleep`, `close`, `fcntl`, `ioctl`, `setsockopt` | a timer, an event and a yield per blocked call |
| **Config** (`base/Config.*`) | the registry of names; variables with listeners; the modification times of the files read | `Lookup`, `setValue`, `addListener`, `delListener`, `LoadFromConfDir` | `hook.cc` listens for its connect timeout; any thread sets or loads |
| **Logger** (`base/Logger.*`, `Log*`) | loggers and appenders, each under its lock | `log`, `getLogger` | used by everybody; reads no configuration (`LogIniter` has no instance) |
| **Buffer** (`net/Buffer.*`) | list of blocks, position, size, capacity | `read`, `write`, `setPosition`, varint and zigzag coding | sequential |
| **TcpServer, Socket, Address** (`net/*`) | `socks_`, `running_`; per Socket `fd_` and `isConnected_` | `bind`, `start`, `stop`, `startAccept`; `connect`, `accept`, `send`, `recv`, `close` | one accept fiber per socket, one handler per client, all through the hooked calls |
| Thread, Mutex, Atomic, Env, FileUtil, ... | | | wrappers |

What is hard here:

* a fiber's `state_` is written by the fiber and by `handleFiber` and read by
  other threads without a lock, and a wake-up may come before the yield it
  answers;
* `canStop()` combines a flag, a queue and a counter that change separately,
  and every thread decides on it alone;
* one one-shot timerfd serves an ordered set that changes under it, on another
  clock;
* an epoll report is used after the registration it is about may have changed;
* pollers share a buffer, and `channels_` is resized under a lock that was
  released in between;
* a thread sleeps in `epoll_wait` until something is written to the pipe, and
  `weakup()` writes only if it sees an idle thread;
* a timeout, an event and a close race for the same waiting fiber, and the
  number of a closed descriptor is given to the next one at once;
* `setValue` tells the listeners under one lock and stores under the next.

`PROJECT.json` lists these as hazards, each with its line and the properties
that address it.

What makes each part correct: the scheduler loses no work, never executes a
fiber twice at once, and stops; the timer manager wakes somebody for every
timer and decides each one-shot timer once; the IOManager schedules every
waiter once and keeps `events_`, the contexts, epoll and the counter together;
a hooked call returns the result, a timeout, or an error of the descriptor; a
buffer returns what was written; a configuration variable's listeners see the
values it takes, in order.

## 2. Plan

Modelled, in this order: `Scheduler`, `TimerManager`, `IOManager`, `IOLoop`,
`Buffer` with its abstraction `FlatBuffer`, `Hook` and `Socket` composed in
`TcpServer`, and `Config`. Proved: all safety properties of the runs of
`Scheduler`, `TimerManager`, `IOManager`, `IOLoop`, `Config`, `Buffer` (with its
refinement of `FlatBuffer`) and `TcpServer`.

Next comes an abstract work queue, which `Scheduler` implements for homed fibers.

## 3. Modules

| module | models | constants |
|---|---|---|
| `Scheduler` | Scheduler and the fiber states it drives | threads, `use_caller`, fibers and the thread ids they are scheduled with, bounds |
| `TimerManager` | Timer, TimerManager, the timerfd, the clocks, the pollers | timers, pollers, intervals, rollover window, bounds |
| `IOManager` | IOManager's events, Channel, epoll as it is used | fibers, pollers, descriptors, initial size, bounds |
| `IOLoop` | `run` with IOManager's `idle`, `canStop`, `weakup`, and `stop` | pools, jobs, bound on waits |
| `Hook` | the hooked calls, FdManager, and what they need of channels, timers and threads | fibers, descriptors, Socket objects, pools |
| `Socket` | Socket; extends `Hook` | |
| `TcpServer` | TcpServer and the fibers around it; extends `Socket`, is the specification of all three | listeners and accept fibers, handlers, what users may do |
| `FlatBuffer` | what a Buffer promises | the bytes |
| `Buffer` | the block list; implements `FlatBuffer` | block size, widths, data, bound on blocks |
| `Config` | variables, listeners, the directory | names, values, components, threads, files, bounds |
| `SequenceFacts` | lemmas about queues (erasing, appending, least elements) and about loops, for all proofs | |
| `SchedulerProofs`, `TimerProofs`, `IOProofs`, `IOLoopProofs`, `ConfigProofs`, `BufferProofs`, `TcpServerProofs` | the theorems about the module they are named after | |
| `MC...` | instances for TLC | |

Operators whose name continues that of a definition after an underscore
(`Leave_uncounted`, `rearm_never`) and whose comment begins with "Mutant" are
deliberately wrong variants of it. They are used nowhere in a specification;
`PROJECT.json` says which property notices each of them.

### Scheduler

`tasks`, `running`, `active`, `idle`, `callerFiber` are the members of the same
meaning. `fstate[f]` is `Fiber::state_`, with `UNUSED` and `CB` for work that
has no Fiber object yet. A pool thread's `pc` walks through `run()`:
`take` → `check` → (`idle` → `idled` →) `take`, or `check` → `resume` → `body`
→ ... → `tail` → `leave` → `take`. `take()` and `schedule()` hold `lock_` and
are one step; the test of `idle->finish()`, the increments, the write of `EXEC`,
the write of `HOLD`, the context switch and the switch in `handleFiber` are
separate steps because other threads see `state_` and the counters in between.

The body of a fiber is reduced to what it does to the scheduler: schedule
something, arrange to be woken (`Arm`: what `sleep` and `addEvent` do), yield,
return or throw. `waiting` holds the fibers somebody has promised to schedule;
`ExternalWake` is a wake-up from a thread outside the pool.

If a second thread resumes a fiber whose context is not saved yet, the switch
loads a stale context. The model then lets both threads execute the fiber's
code. A failed `EASY_ASSERT` sets `aborted`, after which nothing happens.

`dropped` is a history variable: the fibers whose task was in the hand of a
thread that left `run()`.

### TimerManager

Time is counted in units of the shortest delay the code arms. `wall` is
`gettimeofday`, `mono` the clock of the timerfd; `Tick` advances both,
`StepClock` sets the first. `fdAt` is the deadline of the timerfd (0: disarmed)
and `pending` says that it has expired and epoll has not reported it.
`timerfd_settime` clears `pending`, and so does a read. A public `addTimer`
reads the clock (`Construct`) before it has the lock (`addTimer`).
A poller goes `wait` → `read` → `now` → `check` → `expire` → `wait`:
`epoll_wait`, the read of the fd, `Timestamp::now()`, the emptiness test under
the read lock, the rest under the write lock. The rest is one of
`ExpireNothing` (the early return), `ExpireEmpty` (the set was emptied since the
test, the evaluation of `*begin()` is undefined: trap or nothing found) and
`Expire`.

`stale` is a history variable: since the last `timerfd_settime` the first timer
was removed or moved back, or the wall clock was set. `fired` and `cancelled`
record outcomes.

### IOManager

A Channel object is a pair of descriptor and generation, because `channels_`
can lose a slot and later hold another object for it. `Lookup` and `Grow` are
the two ways `addEvent` gets its Channel, under `lock_`; the operation itself
is a second step, under `channel->lock_`. `mask` and `ptr` are epoll's side of
the registration; `epoll_ok` says whether `epoll_ctl` succeeds. `slot` is the
buffer all pollers pass to `epoll_wait`; `idle_nothing` and `idle_handle` work
on what it holds when they run, and write it, as the code does. Fibers that call
`addEvent` without a callback are `waiting` until `handleEvent` schedules them.

### IOLoop

The loop of `Scheduler::run` once more, now with the idle fiber of an IOManager
and without the details of fibers. A thread goes `take` → `took`, and from there
to `body` (a job), to `exited` (`idle->finish()`), or into the idle fiber:
`hasTimer` → `pending` → `canStop`, the three reads of `canStop()`, and then
`epoll_wait` or out. A report of the pipe, the timerfd or a channel leads to
`yield` and back to `take`; the two calls in which the pending count and the
queue are touched (`expired`, `handled`) are steps of their own, and so is every
`weakup()`, which follows a `schedule` outside its lock.

The loop hands `epoll_wait` one slot and registers with EPOLLET, so a report is
an element of `ready` that one thread takes away. Bytes in the pipe are not
counted: it either is to be reported or is not. `missed` is a history variable:
a `weakup()` found no idle thread while one was between its empty `take()` and
its increment; the next task that finds the queue empty clears it, since its own
`weakup()` decides then. A second submission to a queue that is not empty wakes
nobody.

### Hook, Socket, TcpServer

`fib[f]` is the call a fiber is in, with the local variables of `do_io` that
matter (`cancelled`, and whether the call goes through the loop and has a
timeout). A call of `recv` goes `enter` → `try` → `arm` → `add` → `wait` → `try`
...: the lookup in FdManager, the system call, `addConditionTimer`, `addEvent`
with `YieldToHold`, and what follows when somebody has scheduled the fiber.
`connect` ends with `soerror` in place of the second `try`; `close` is
`cancelAll` → `remove` → `close_f`, three steps. The timeout's callback is two
steps as well (`RunTimeout` sets `cancelled`, `CancelTimeout` calls
`cancelEvent`), because the fiber can go on in between. `no` tells calls of one
fiber apart: it plays the part of the `weak_ptr` to `timer_info`.

The threads of the IOManager are `cpu`, the set of what is executed: a fiber or
a callback. A task whose fiber is executed is not taken (as in `take()`), which
is why `YieldToHold` can be one step with `addEvent`. Channels, epoll and timers
are what the modules `IOManager` and `TimerManager` say of them, without the
hazards found there; a one-shot timer either fires or is cancelled (`OneOutcome`).
`kern` is the kernel's side. It gives the least free descriptor number, as Linux
does, so a closed number comes back at once.

`Socket` adds `fd_` and `isConnected_`: a method starts a call and
`finished` does what the method does after it. `TcpServer` adds the owner
(`bind`, `start`, `stop`, destruction), the accept fibers, the task of `stop()`,
which calls `cancelAll` and `close` for each socket, and the handlers. The owner
binds in a hooked fiber, as `EchoServer` does. Without a server (`serving`
false) the users' fibers share Sockets and also change flags.

Three history variables name the interference a property allows: `raced` (an
`addEvent` between another thread's `cancelAll` and `close_f`), `misled` (the
call's descriptor was closed under it, its `addEvent` refused, or it was woken
by the timeout of another call) and `stale` (a number whose context does not
tell what the kernel does: it was made blocking by `ioctl`, closed where the
hooks are off, or closed by the second of two closes, which leaves the context
of a number opened in between).

### Buffer and FlatBuffer

A call is a step; a buffer is used by one fiber at a time. `buf` is the list of
blocks with `cur`, `pos`, `size`, `cap` and the byte order; `cur` 0 is a null
pointer, and a call that follows it sets `trapped`, after which nothing happens.
`write` is what the code does and not what it was meant to: the loop over the
blocks is inside a comment (Buffer.cc:399), so that a write stores what fits
into the current block. The varint code is an operator over the group size and
the width, so that TLC can check it on numbers of 3 bits. Loops (over the blocks
of a file, over the groups of a number) are recursive functions of the round.

`FlatBuffer` says what a user can rely on: a sequence of bytes and an offset. It
knows no blocks. A write stores some non-empty beginning of each part; reads
give the bytes at the offset or throw; the few calls that can end the program
are listed in `Trap`. `Buffer!Refines` states that `Buffer` implements it with
`bytes` the bytes below `size` gathered from the blocks.

### Config

`val` and `cbs` are indexed by variable, in the order they are made, because a
name can get a second variable while components hold the first. `setValue` is
`BeginSet` (compare, take the read lock), one `Notify` per listener, and
`Assign`, which waits for the readers; that listeners are called one at a time
matters because two setters hold the read lock together. A component stands for
what a listener is for: a copy of the value, as `hook.cc` has of its timeout.
`LoadFromConfDir` goes through the files: `Skip`, or `Record` (the time is noted
first) → `Read` → one `LoadEntry` for each entry, each a `setValue` → `LoadEnd`.

Where a thread is, what it sets (`var`, `arg`, `todo`) and what it loads
(`files`, `rest`) are functions of the thread; `alone` and `clean` are the
setters and the loaders that nothing has come between.
`confused` holds the variables whose last setters came together or whose last
round was ended by an exception, `drifted` the names whose variable was made or
set after the last load, or whose file changed within one second.

## 4. Runs

| run | shows | bounds |
|---|---|---|
| `scheduler` | types, exact counters, no exit while running, exclusive execution and assertions for homed fibers, no lost task, finished is final | 2 pool threads and the owner with `use_caller`, one fiber for any thread and one pinned to `w1` and scheduled by fiber code, 2 yields per fiber, 2 starts |
| `scheduler_stop` | `stop()` returns; a queued callback is executed | 2 pool threads, callbacks for any thread, 2 starts |
| `scheduler_drop` | violated: a leaving thread drops a task | 2 pool threads, 2 callbacks |
| `scheduler_exec` | violated: a fiber is executed while it is not `EXEC` | 2 pool threads, 1 fiber, 2 yields |
| `timer` | types, `cb_` iff queued, one outcome, dead stays dead, covered | 2 timers, 2 pollers, intervals 0 and 2, time to 3, 1 clock step, window 1 |
| `timer_sleep` | violated: timers left with a disarmed timerfd | 2 timers, 1 poller, no clock step |
| `iomanager` | contexts match `events_`, epoll in sync, one registration per waiter, count never too high | 2 fibers, 2 pollers, 2 descriptors beyond the initial size, 2 objects per descriptor, 2 reports |
| `iomanager_shrink` | violated: `channels_` shrinks | 2 fibers, 2 descriptors |
| `ioloop` | types and counters; threads sleep over a task only after a missed wake-up; nothing is left when all threads have exited; `stop()` lets every job end, and with one thread returns | 1 or 2 threads, 2 jobs, each waits once for an event or a timer |
| `server` | types, one queue entry per fiber; hooked sockets are non-blocking; a suspended fiber is to be woken; `fd_` is its Socket's own; `connect` answers 0 when connected; only timed calls time out; timed calls and, after `stop()`, accept fibers come to their end | 1 or 2 threads, 2 descriptors; one listener and 2 clients with a handler of 1 call, or 2 fibers of 2 calls each on shared Sockets |
| `buffer` | types; the cursor is in its block; what was written is read back; the block list implements the flat sequence | blocks of 2 bytes, at most 3, bytes of 2 bits, numbers of 3 bits, data of up to 4 bytes |
| `config` | types, a listener is told by its own variable once; changes are real; copies follow; variables follow the file | 1 name, 3 values, 2 components of which one refuses a value, 2 threads, 2 variables, 1 file with 3 contents, 2 seconds, 2 calls, 2 loads |

Why these are enough to be interesting: two pool threads and an owner are what
every race of the scheduler needs (one that leaves, one that works, one that
stops); two yields let a fiber be woken before and after its switch; two rounds
of start and stop cover the restart. Two timers give an order, a tie and a
front that can be taken away; an interval of 0 is due at once, one of 2 leaves a
tick before it; two pollers are needed for the set to be emptied between the
two locks; a window of 1 makes a rollover reachable. Two reports let one poller
overwrite the other's, and two generations let a slot be lost and made again.

In `ioloop` one job can be waiting, for either thing, while the other is
scheduled, runs or is dropped, which gives every combination `canStop()` reads;
one wait each is enough because a job that waits again is like another job. In
`server` two descriptors make the numbers scarce, so that each close is followed
by a reuse; two calls by two fibers give a close racing a wait, and a timer that
outlives its call; with one thread the answers differ (no two steps between the
halves of a close), which is why some properties are stated for it alone. Three
blocks of two bytes give a first, a middle and a last block, and data of four
bytes a write over two boundaries. Numbers of three bits with groups of one take
one to three bytes and include the least one, for which the zigzag code
overflows. In `config` two calls and two loads let two setters, or a setter and
a load, overlap on one variable.

Permuting pollers (and fibers in `IOManager`) is sound: no constant tells them
apart. So is permuting the threads of `config`. Timers are ordered, so they are
not permuted. `MCIOManager!View` leaves out what the shared buffer holds while no
poller is going to read it; `MCBuffer!MCView` leaves out the last call and its
result, which no action reads.

Deadlock is checked for the scheduler and the buffer. It is not for the others:
the clock or the number of reports, calls or loads ends at its bound, every
fiber waits for an event, or (in `ioloop`) the program really hangs, as described
below.

### Fairness

`scheduler_stop` assumes weak fairness of every thread's steps and of the
continuation of `stop()`: the operating system runs every thread, and the
fibers of this run neither wait nor compute for ever. Nothing obliges anyone to
call `schedule`, `start` or `stop`, or to wake a fiber.

Tasks designated to one thread are left out of this run on purpose: a task
designated to a thread that has already left `run()` is never taken, and
`stop()` then waits for ever in the threads that remain. The same happens to a
scheduler whose fibers wait for a wake-up that never comes; both follow from
the code as written and no comment denies them.

`ioloop` assumes the same of each thread and of `stop()`, and that what a job
waits for happens (`Happen`, `Tick`): without that no `stop()` returns, since
`canStop()` waits for events and timers. `server` assumes that some thread of
the IOManager goes on whenever one can, that timers expire and that what epoll
has to report is reported. It assumes nothing of the other end, which may never
send, nor of the owner.

### Disagreements found

* `scheduler_drop`: `run()` takes a task before it tests `idle->finish()`.
* `scheduler_exec`: `YieldToHold` publishes `HOLD` before the context is saved.
* `timer_sleep`: an early alarm is not followed by a new one.
* `iomanager_shrink`: `resizeChannels(idx << 1)` without a second look at the size.

Not stated as findings, because nothing in the repository says otherwise: a
second `stop()` of a `use_caller` scheduler resumes a terminated fiber
(`aborted` in `StopResume`); `pendingEventCount_` can be too low after a stale
report (`idle_handle`); `*timers_.begin()` may be evaluated on an empty set.

The other modules have behaviours of the same kind, which their properties
name as exceptions:

* `IOLoop`: after a missed wake-up a task stays queued although its thread
  sleeps, and `stop()` may find nobody to wake and hang, with one thread too.
  With two, both calls of `weakup()` may wake the same thread, since the report
  of the pipe is edge-triggered, and the other one then sleeps for good.
* `Hook`: with two threads a timeout can fire before `addEvent` and calls off
  nothing; a callback that has seen its call alive may wake whoever waits for
  that event of that number by then, and a `connect` woken so answers 0 before
  it is connected; an `addEvent` between `cancelAll` and `close_f` is lost.
  `ioctl` with `FIONBIO` 0, and a close where the hooks are off, leave a socket
  blocking behind its context's back. So do two closes of one number: the second
  has looked up the context before the first removed it, the number is given
  out again with a new context, and the second closes it in the kernel without
  removing that one (this came out of the proof of `NeverBlocks`; the instance
  of section 4 does not show it).
* `Socket`: two fibers on two threads that close one Socket can close a number
  that was given to somebody else.
* `TcpServer`: `bind` fails as long as the caller's list holds an old failure.
* `Buffer`: a write that does not fit into the current block is stored in part.
  Reading nothing at the end of a full buffer follows a null pointer; reading at
  another place than the cursor starts in the cursor's block; `getReadBuffers`
  with a position counts what is left from the cursor; `writeToFile` ends early
  when it starts inside a block and less than a block is left; a length field
  of two bytes keeps the length modulo 2^16; a number or string that cannot be
  read completely leaves the cursor behind what was read.
* `Config`: two setters may tell the listeners in one order and store in the
  other; a listener added between the round and the store is not told; those
  told before one that throws keep a value that is never stored. A file that is
  written twice in a second, or read by two loads at once, may be left unread.

## 5. Proofs

All theorems hold for every value of the constants that satisfies the named
assumptions of the modules, which say no more than what kind of value a constant
is: any finite set of threads, any fibers and pins, any finite set of timers,
any descriptors and initial size of `channels_`, any finite set of jobs, any
directory with a file in it, any size of a block and width of a byte or number,
any bounds. `IOLoopAssumption` keeps jobs apart from the names of the pipe and
the timerfd, which share `ready` with them. `BufferAssumption` says that the
length of what is written fits the length parameter (`Len(d) \in Word`).

Each component has one inductive invariant, a conjunction of named parts, which
is proved action by action; the theorems are its consequences. TLC checked each
part on the instances of section 4 before it was proved.

**SchedulerProofs.** `CountersExact` is not inductive by itself: the types, the
set of program counters each kind of thread may have, and the fact that a
thread between `resume` and `leave` holds a fiber are needed as well, and so is
`NoExitWhileRunning` to know that `start()` finds no thread in `run()`. This
conjunction is `BaseInvariant`, from which `TypeCorrect`, `CountersCorrect` and
`WorkersStay` follow. The proofs about cardinalities rest on `CountFacts`
(adding and removing one thread from a set selected by `pc`).

For fibers only one thread may take (`Homed`), `HomedInvariant` adds: the fiber
in a thread's hand is one it was allowed to take, no two threads hold the same
homed fiber, and its `state_` is what the thread's program counter says. It
gives `HomedFibersExclusive`, `HomedFibersAssert` and
`HomedFibersStayFinished`. The hypothesis is needed: `scheduler_exec` shows the
conclusion false for fibers any thread may take.

`TasksKept` proves `NoLostTask` from both: every action either leaves owed work
where it is, moves it from the queue to a hand, starts it, or records it in
`dropped`. `EraseFacts` says what erasing one element does to the queue.

**TimerProofs.** `LifeInv` (types, where a timer may be, `CbIffQueued`,
`OneOutcome`) is inductive and gives four of the five theorems. `TimersCovered`
rests on two lemmas: `ArmCovers` (arming the fd for the first timer covers them
all) and `DominatedCovers` (a change that keeps, for every old timer, a new one
not later, and the other way round, keeps the cover), so that each action has
only to say how the old and the new timers bound each other. `CoverTick` shows
that the alarm comes with a timer that is due.

**IOProofs.** `IOInv` has five parts. Types need `SlotsInv` as well: a
descriptor below the size of `channels_` has a Channel object, and who goes on
to grow the vector was refused a descriptor above 0, so that `2 * fd` makes room
for it. `StepKinds` sorts the steps: an `addEvent`, a `removeEvent`, the handling
of a set of events of one Channel (what `cancelEvent`, `cancelAll` and a report
have in common), or nothing of the kind. Each of the other parts is then proved
for three kinds of step. `WaiterRegisteredOnce` is not inductive: that a fiber in
an `EventCtx` waits, is in no other one, and that who waits is in one go together
(`WaitInv`). `PendingNeverOver` needs that the registered events are finitely
many. No Channel but the one epoll points to waits, which is what keeps these
true while `channels_` is being resized.

**IOLoopProofs.** `DataInv` says what is known from where a thread is; the
counters of `TypeOK` are numbers of threads at certain places (`CountInv`), as
in `SchedulerProofs`. `JobInv` is where a job is: queued, armed, due or in a
thread's hand, in one of these at a time and executed by the threads its state
tells of. It gives `RunOnceCorrect`, for which no run has a property of its own.
`pending` counts the armed events and the threads between the two halves of a
report (`PendingInv`).
`DrainedAtJoin` is about three reads at three times. `StayInv` is why they are
enough: while a timer is set some thread has not gone past the first read, while
an event is pending some thread has not gone past the second, while a task is
queued some thread has not finished. The order of the reads matters: a callback
of a timer may make an event pending or queue a task, and the thread that
executes it is one that stays. `SleepOnlyIfMissed` comes from `WakeInv`: over
a queue that is not empty either `weakup()` is still to be called, or the pipe is
to be reported, or a thread is to look, unless a wake-up was missed.

**ConfigProofs.** `DataInv`: types, a component is among the listeners of the
variable it holds and of no other, and whoever a round has still to tell holds
the variable. `CopyInv` adds `AloneInv`: while a setter is alone, every component
that holds the variable has the new value or is still to be told; this makes
`ChangeIsReal` and `CopyFollows` inductive together. `ConfigFollowsFile` needs
`NamesInv` (no two names share a variable) and `FileInv`, which follows a load
from the note of the modification time to its last entry: what is left is the
end of the file (`RestInv`), what was applied is in the variables or about to be
stored (`DoneInv`), and all of it is when no load is in progress (`RestedInv`).
As the property itself, the theorem speaks of a directory of one file; with more
of them the last one read wins.

**BufferProofs.** `BufferInv` says that the buffer is well-formed: blocks of
`BaseSize` bytes, `pos <= size <= cap`, the capacity of the blocks, and `cur`
the block of `pos`. Each operation has a lemma that says what it does to a
well-formed buffer, in terms of the byte at an offset (`ByteAt`): `WriteFacts`,
`AdvanceFacts`, `AddCapacityFacts`, `SetPositionFacts`, `LoadedFacts` and so on.
Blocks appear in these lemmas alone. The invariant follows from them, and so does
the refinement: one lemma per call (`WriteRefines` ... `OrderRefines`) says that
it is the call of `FlatBuffer` with the same name, `InitRefines` and
`NextRefines` put them together, and `Implements` is `Spec => Refines`.
`SavedFacts` has the argument a reader may doubt: `writeToFile` starts inside a
block, its cursor falls behind the offset, and yet what it writes is right until
it ends early.
`ReadBackCorrect` says for every base and width that numbers are read back as
written. A number is the sum of its digits times their weights (`HostLoop`,
`VarintLoop`); `HostRoundTrip` and `VarintRoundTrip` say that the sum of what
the encoder cut off after any number of rounds is the number modulo the next
weight; `GroupsBound` says when the encoder stops, and `ZigzagRoundTrip`
does the sign. `BackFacts` puts the bytes through the buffer.

**TcpServerProofs.** The invariant is built in layers, each resting on the ones
below it, because `Next` has some forty actions and most of them matter to few
of the parts.

* `Kinds_of_steps` sorts the steps by what they do to fibers, queue, channels,
  timers and threads (`ActStep`, `SleepStep`, `AddStep`, `EndStep`, `WakeStep`,
  `TakeStep`, `ExpireStep`, `StartStep`). `Basic` is proved over these: the
  types, the flags of a call (`FlagsInv`), who has been started (`RoleInv`) and
  `ItemInv`, that a pending timeout carries the number of its own call or of an
  earlier one. `TimesOut` follows from `Basic` with `Resumed`: only `Woken` ends
  a wait.
* `Placed` adds `PlaceInv`, where a fiber is: executed, queued, on a timer or in
  a channel, in one place at a time, and if it waits in one of them. This is the
  half of `TypeOK` about queue entries (`TypesHold`), and the half of
  `LostOnlyIfRaced` that does not depend on the kernel.
* `Held` adds `OpsInv` (which fiber makes which calls) and `OwnInv`: the Socket a
  fiber closes has its descriptor, a Socket's descriptor is its own unless a
  close has got back and `fd_` is not yet reset, and a client that is being
  accepted belongs to nobody else. `OwnInv` assumes a server, or one thread; with
  two threads that share a Socket it is false, as section 4 says. It gives
  `SocketsOwnTheirs`. `DescriptorSteps` sorts `Next` by what it does to the
  descriptors and is what the further layers use.
* `Watched_for` adds `KnownInv` (an open number without a context is on its way
  in or out) and `Watch`: whoever is in a channel and did not come between a
  `cancelAll` and a `close_f` is watched for, on an open descriptor that nobody
  is past `cancelAll` of. `OthersAreWoken` is this with `PlaceInv`. `KnownInv` is
  needed because `close` goes by `cancelAll` when it finds no context.
* `NBInv`: a context that is there goes with the kernel's flag set, unless the
  number is `stale` (`NeverBlocks`).
* `Connected` adds what `ConnectAnswers` needs. `CancelInv`: a timeout's callback
  that a thread executes has called off its own call, so a fiber that is woken by
  one finds the flag. `Connecting`: while a fiber is in `connect`, its number is
  the connection it began, and from its wake-up on, unless called off, the kernel
  has the outcome (`Answered`). `ReadyInv`: the kernel reports a connecting
  socket only when it has the outcome. `KernSteps` sorts the steps by what they
  make of a descriptor's kind, and `WokenBy` gives the ways a fiber leaves its
  channel: a report, a timeout, a close. Who serves does not connect, so these
  parts are stated for an instance without a server.

The library's induction theorems take a predicate as parameter, which the provers
cannot instantiate. Where a loop has to be followed, the proofs take the set of
the indices that have the wanted property as a set and cite `CountingUp` (a set
with 0 that goes from `i - 1` to `i` has all of `0..n`) or `LeastElement`; `Loop`
gives the function that a recursive definition stands for.

Only model-checked: the liveness properties (`stop()` returns, timed calls and
accept fibers end, jobs end), because fairness and `ENABLED` are outside the
prover, and the four runs that show a violation.

## 6. Not modelled

* Stacks and `ucontext` (a switch is a step), the lifetimes of shared pointers,
  and the memory `epoll_wait` corrupts when it returns more than one event.
* `use_caller` together with `epoll`, and a second `start` of a TcpServer.
* SSLSocket: what OpenSSL reads and writes during a handshake is not in this
  repository.
* The text layers: log formats, YAML conversions, addresses, `toHexString`.
* Logger and appenders: output is I/O, their state changes under one lock per
  object, and `LogIniter`, which would connect them to the configuration, has
  no instance.
* A listener that sets its own variable, or adds a listener to it, waits for a
  lock its own thread holds; `Config` has no such listener.
* Calls that fail in `accept` at once and for ever (no descriptors left) keep
  their accept fiber in its loop; a client arrives in `TcpServer` only when a
  handler and a descriptor are left for it.
* Thread, Mutex, Atomic, Env, FileUtil and the like: wrappers and sequential
  I/O, taken as what the other modules assume of them.

`PROJECT.json` gives the reason for every component.
