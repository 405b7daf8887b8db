# Verification of linux_threadpool

TLA+ modules, TLC configurations and TLAPS proofs about the thread pool in
`src/threadpool`, the event library it is built on, and the logger in `src/rslogger`. Line numbers are those of
the files named; "threadpool.cpp" is `src/threadpool/threadpool.cpp`, and so on.

## 1. Inventory

### Components

| Component | State | Operations | What makes it correct |
|---|---|---|---|
| `TPThreadPool` (threadpool.cpp) | waiting set, map of running jobs, thread lists and map, two thread counters, limits, four events, four semaphores, shrink queue | `start`, `stop`, `wait`, `stopAndWait`, `clearUndoWork`, `submitJob`, destructor; job threads, dispatcher W, shrinker S | every job runs once and in order, or is cancelled; counters count threads; nobody waits for ever; nothing is left behind by the destructor |
| `pevents` (pevents.cpp) | event state, registered waits, one reference-counted object per wait | `WaitForMultipleEvents`, `WaitForEvent`, `SetEvent`, `ResetEvent`, `CreateEvent`, `DestroyEvent` | no lost wakeup, one wait per auto-reset signal, no use after delete, no lock cycle |
| `TPBaseJob` (basejob.cpp), `AJob`, `BJob`, `CJob` | priority, id, `stop_job_event_` | `operator<`, `requestCancel`, `_initialize`, `_run`, `_finalize`, `_onCancelJob` | the order is total on different ids; the stop event is alive whenever it is used |
| `TPThreadPoolCallBack` | none | hooks around a job, for the application to fill | each submission is begun and ended, or cancelled |
| `RsLog` (rslog.cpp) | path, file name, title, level, one mutex, the files themselves | `output`, `rollFile`, `reset`, `setLogPath`, `setBaseLogName`, expiry | no line is lost by rolling or renaming |
| `RsLogger`, `RsLogStream` | one line being built | `<<`, destructor writes the line | what was put in is written |
| `RsFloatingBuffer` | buffer, fill, size | `append`, `reset` | never writes past its end, keeps what was appended |
| `RsStringPiece`, `RsTimestamp`, `Fmt`, `CurrentThread` | values | - | formatting |
| `main.cpp` | - | start(4,10), 20 submissions, three minutes, `delete` | - |

### How they interact

* `submitJob` (any thread) puts a job in `set_waiting_jobs_`, posts
  `sem_job_needed_to_do_` and may create a thread.
* W takes a unit of the semaphore, sets the auto-reset `job_needed_to_do_event_` and
  waits on `sem_notify_got_waitting_job_`. A job thread that gets the event takes the
  first job of the set and posts that semaphore: one dispatch at a time.
* A job thread that ends a job and sees no job and more threads than the minimum
  pushes a request to `queue_substract_thread_` and posts `sem_subtract_thread_`. S pops it,
  sets the auto-reset `subtract_thread_event_`, waits on
  `sem_notify_complete_substract_thread_` for the thread that got it to leave, and joins it.
* `stop` sets the manual-reset `stop_event_`; the last thread to leave sets
  `all_thread_complete_event_`, which `wait` waits for. The destructor is
  `stopAndWait`, `clearUndoWork`, then the end of W and of S.
* Around each job the pool creates and destroys its `stop_job_event_`, which `requestCancel` sets, and calls
  `onJobBegin` and `onJobEnd`, or `onJobCancel` from `clearUndoWork` with `waiting_jobs_lock_` held.
* Locks: `waiting_jobs_lock_`, `running_threads_lock_`, `subtract_thread_lock_` (taken in
  this order by job threads), `mutex_doing_jobs_`; each event and each wait has its own mutex.

### What is hard

Signals pass through semaphores, auto-reset events and counters in turn, and each is a
token that must not be doubled or lost; tests on counters are made apart from what follows
from them; S blocks under a lock; a map and a list are shared without a common lock;
stopping, clearing, shrinking and restarting meet dispatches under way; a wait for several events is an object
that the waiter, its time-out and several setters share; a job object is reached from the thread that runs it, from
`submitJob`, `clearUndoWork` and `requestCancel`, and may be deleted. PROJECT.json
lists these places line by line under "hazards" with the properties that cover them.

## 2. The modules

| Module | Models |
|---|---|
| `ThreadPool` | the pool: job threads, W, S, clients, owner |
| `JobPool` | the abstract promise: jobs pending, running, ended, cancelled; no threads |
| `PEvents` | all of pevents.cpp that is compiled: both kinds of waits, setting, resetting, destroying, with wait objects and their references |
| `EventPromise` | the abstract auto-reset event: signals handed over, kept or taken; no locks, no objects |
| `JobLife` | a job object and its stop event, from `submitJob` to its deletion |
| `FloatingBuffer` | the buffer of a log line: how it fills and grows |
| `RsLog` | the log files: writing, rolling, renaming, reopening |
| `RsLogger` | threads that build lines, write them and change the log's settings; extends the two above |
| `MCThreadPool`, `MCPEvents`, `MCJobLife`, `MCRsLogger` | instances for TLC |
| `ThreadPoolProofs` | theorems about `ThreadPool`: types, counts, dispatch, refinement of `JobPool`, shrinking |
| `ThreadPoolStop` | whom stop reaches, no job forgotten, the map of running jobs, what the destructor leaves; extends `ThreadPoolProofs` |
| `JobLifeProofs` | theorems about `JobLife` |
| `RsLoggerProofs` | theorems about `FloatingBuffer` and `RsLogger` |
| `PEventsProofs` | theorems about `PEvents`: types, where everyone is, no lost wakeup |
| `PEventsCounts` | reference counts, the countdown of a wait for all events, results; extends `PEventsProofs` |
| `PEventsPromise` | refinement of `EventPromise`, who sleeps in `WaitForEvent`; extends `PEventsCounts` |

### ThreadPool

A step is a stretch of code with one visible effect. Each job thread has a program counter
`wpc`: `spawned` (created, before line 149), `getJob` / `parked` / `firedJob` / `firedSub` (in
`WaitForMultipleEvents`), `gotJob` / `gotSub` / `gotStop` (it returned), `running`, `ended`,
`shrink` (before 604), `pushSub` (holds two locks, wants a third at 614), `postComplete`,
`count` (before 153), `lastOne` (before 155), `done`. W, S, the owner and the clients
have counters of their own. Actions follow the code's order: `Begin`, `Poll`, `Wake`,
`TakeJob`, `EndJob`, `EraseDoing`, `CheckShrink`, `PushSub`, `Leave`, `PostComplete`, `Count`,
`LastOne`; `WWait` .. `WGot`; `SWait` .. `SJoin`; `SubmitIndex`, `SubmitInsert`, `SubmitGrow`;
`Start`, `Call`, `SetStop`, `NotifyStop`, ... `JoinS`.

* **Locks** are not variables. The only step in a critical section that can
  block is the acquisition of `subtract_thread_lock_` at 614, and S's waits under that
  lock. `PoolLocksFree` and `SubtractLockFree` say so, as guards of every step that
  needs the locks.
* **Data races.** Line 149 inserts in `map_thread_ids_` under no lock; line 463 appends to a list
  that S walks under another lock. Their behaviour is undefined; `Dropped` lets
  every combination of entries touched at once be lost (`lost`). A crash is
  not modelled: it satisfies every safety property vacuously.
* **pevents** appears as one boolean per event, `SetAutoReset` (one parked thread is fired, or
  the state is set) and, for the stop event, a set of registered waits that `SetEvent`
  visits one by one (`NotifyStop`), in which a wait that another event has fired may be
  overwritten. `Poll` is one step because a wait that is registering holds the mutex of
  its wait object, so nobody can fire it in between; `PEvents` has the detail.
* **A failed assertion** (535) stops the thread that meets it: `TakeJob` is not enabled.
* **Preconditions.** No client is inside `submitJob` when the destructor is called, and the owner calls
  nothing after it. The owner calls `wait` only after a `stop`, or nothing would make it return. For `wait` and the destructor to return the pool must have a
  thread: the event they wait for is set by a leaving thread and by nobody else (155-157); see section 5.
* **Start comes first.** With the constant `StartsFirst` nobody submits to the pool or calls another operation than `start` before
  `start` was called (`Open`), as in main. It is a precondition of `DeleteReturns` (a pool that is never started and not submitted to has no thread)
  and of what is said of pools whose two limits are equal: the constructor sets a maximum of 1 (168), so a `submitJob` before
  `start` adds a thread to a pool of limits 0 and 1, and `start` then returns false (258-263). `elastic_pool` runs with it FALSE: submissions, clearing and the destructor
  may come before `start`, or without it.
* `Settled` (constant `SettledOwner`) is what main does: half a millisecond after `start`
  and minutes before the destructor no thread is being born or dying.
  Runs that set it FALSE let the owner in at any moment.

### PEvents and EventPromise

Each call of `WaitForMultipleEvents` is an object `<<waiter, n>>` with its mode (`waitAll` or not, a time-out or not),
`Status` (`FiredEvent`, or `EventsLeft` with `waitAll`), `StillWaiting` and `RefCount`. A waiter keeps the object's mutex from
`StartWait` until it parks, and takes it again to read `Status` (`finish`). `Scan` is one turn of the loop over the events, `EndScan`
what comes between the loop and the wait, `Wake` and `TimeOut` the two ways out of it.

A setter holds its event's mutex from `BeginSet` until it is done or only has to signal; it tests `StillWaiting` unlocked (`Look`), takes the
object's mutex (`Deliver`, which waits for it), and gives its reference back (`GiveBack`). These are the places where
the code can block or be overtaken, so the missing second test of the manual-reset branch and the lock order are in the model. `Signal`
comes after the mutex is released, as in the code.

`Loners` are threads in `WaitForEvent`: `Enter`, then `Resume` whenever `pthread_cond_wait` returns, with a signal or without. `DestroyEvent`
needs what its caller must see to: nobody is inside a function of the event.

Left out: the order of `RegisteredWaits` (a setter comes to the registrations in any order, which allows more); more than one thread
at a time inside `SetEvent` of the same event, which its mutex excludes but for the last signal; `ResetEvent` of auto-reset
events, which nobody calls. A zero time-out is a time-out that is over at once.

`EventPromise` says what the pool relies on: a `SetEvent` is handed to one registered wait that wants it, or kept when there
is none; a wait for any event gets one. `ThreadPool!SetAutoReset`, `Poll` and `Wake` use the job event and
the subtract event in this form. `PEvents!KeepsPromise` is the refinement, with the setter's critical section as the pending signal (`Asked`), and as
waits (`Waits`) the registered calls that still want the event; registrations of calls that are over are not among them.

### JobLife

Which thread gets which job is `ThreadPool`'s matter; here any idle thread takes any waiting job, and what is followed is the object: its
stop event (created 575, destroyed 581, the pointer left; `held` says the pointer is not NULL), the callbacks made for it, and who has it in hand: the
thread that runs it, a `submitJob` that will read its id at 392, `clearUndoWork` with `waiting_jobs_lock_`, a `requestCancel` between reading the pointer and setting the event.

The application is a set of constants. `BaseInit`: the classes that keep `TPBaseJob::_initialize`. `Deletes`: whether jobs delete themselves in
`_finalize` or `_onCancelJob`. `QuietClear`: whether `clearUndoWork` waits for submissions under way. `Guarded`: whether `requestCancel` is called between `onJobBegin` and
`onJobEnd` only, with the job kept from ending meanwhile. A callback may submit a job (`Insert` by a job thread in `callback`). The passing run states the discipline under which the
objects are safe:

* Jobs are deleted in `_onCancelJob` only. A job that has run keeps a pointer to a destroyed event and cannot be deleted at all (finding 5); main never deletes its jobs, its loop for it is commented out.
* `clearUndoWork` runs when nobody is inside `submitJob`, or line 392 reads a deleted job, as it may when a job deletes itself in `_finalize`.
* Cancelling is guarded. `requestCancel` of a job that does not run calls `SetEvent` with NULL or with a destroyed event.

A second submission of a job whose class overrides `_initialize` fails the assertion at 574 (`Create` is not enabled), so `MaxSubmits` is 1 in the runs. A subclass
cannot see `stop_job_event_`, which is private, and `GetJobWaitType`, of which basejob.h speaks, does not exist: `requestCancel` sets an event nobody waits for.
A callback `onJobCancel` that submits a job takes `waiting_jobs_lock_` twice; the model has no such callback.

### FloatingBuffer, RsLog, RsLogger

A **buffer** is its size, its fill and how far the bytes behind the text are known to be
zero; a text is its length. `AppendText` has the branches of `append` (room; grow once and
copy what fits; the last size), `AppendNumber` is `formatInteger`, which drops a number that
`kMaxNumericSize` bytes might not hold. `Small`, `Large` and `Numeric` stand for 1024, 1 MB
and 32. Several `<<` of text in a row that belong to one part of a line are one append of their total
length.

A **file** is named by directory, base name, second and suffix and holds a set of lines; its size is
their number, without the header that `reset` writes. `exists` and `content` change together.
`mutex_` is held throughout `output` and `sprintf` (with the `rollFile` they end in) and the assigning part
of the setters, so each is one step: `Write`, `ChangeLogPath`, `ChangeBaseLogName`. The loop in `rollFile`
renames `lastID` where its index `t` is meant; `Rolled` and `Renamed` are what it does: only the last file
moves up, and `name.1` is removed before the log becomes it. `Writable` is the set of
directories in which `fopen` succeeds; a log in another one writes nothing and goes on. The clock
does not go back.

A **line** begins with time, level and thread (`Headed`); `RSLOG_SYSERR` and `RSLOG_SYSFATAL` add errno when it is set, its text
and its number (`WithErrno`), so `Begun` has two forms of a line from level ERROR on.

**Threads** read two things without the mutex: the level, in the macros (`BeginLine`), and the path, in the
comparison at the top of `setLogPath` (`AskLogPath`, which may go either way while another thread is about to
assign). `setLogPath` splits its path with `strtok` before it takes the mutex; `strtok` keeps its place in a static variable, so calls that overlap may
come out with any paths (`Tokenized`). The path is stored without a slash at its end and compared as it was given (`Paths`), so
that the same directory given with a slash is opened anew, which empties the log.
`PutText`, `PutNumber`, `Finish` and `Output` are a statement with a macro; `LogNow` is one of the
functions `trace` to `fatal`, which test the level under the mutex.

## 3. The runs

| Run | Configuration | Shows |
|---|---|---|
| `fixed_pool` | 2 threads, 2 jobs, the second more urgent, 1 client, start(2,2), destructor; fair; deadlock checked | types, a job for every dispatch, complete event, destructor, refinement of `JobPool`, every job completes, the destructor returns |
| `elastic_pool` | up to 3 threads, 2 jobs, 2 clients, start(1,2), `clearUndoWork`, destructor, any moment, before `start` too | counters, shrink queue and token, map of running jobs, stop reaches all, no waiting job forgotten before it, refinement of `JobPool` |
| `restart` | 3 lives of start(1,1), 2 jobs, `stop`, `wait`, any moment; fair | one dispatch at a time, every `wait` ends |
| `events` | 2 waiters with 2 waits each, one manual-reset event set once and reset, one auto-reset event set twice; fair | no lost wakeup, refinement of `EventPromise`, `SetEvent` returns |
| `events_all` | a wait for any or all of three events with a time-out, two threads in `WaitForEvent`, the job event set twice | types, no lost wakeup, the refinement, and: reference counts, events left exact, results honest, nobody sleeps beside a set event, no leak |
| `logging` | 2 threads with 3 lines each, 2 calls of setters, one writable and one locked directory, 2 base names, 2 seconds, rolls after 2 lines, suffixes up to 3, buffers of 4 to 9 bytes, lines with and without errno | types, buffers printable, text kept, log below its size, which lines may be lost, rolls open new files |
| `job_life` | 3 jobs, one with `TPBaseJob::_initialize`, 2 threads whose callbacks may submit, 1 client, 2 cancelling threads; fair | types, events freed once, cancelling finds its event, nobody holds a deleted job, one fate for each submission and it comes, `clearUndoWork` returns |
| `shrink_stuck`, `job_missing`, `early_complete`, `lost_signal`, `freed_twice` | the smallest instance that shows it | five disagreements of the code with its comments or assertions, see section 5 |

**Bounds.** Every violation found needs two threads of one kind and at most one of a third, two jobs
and two lives; the passing instances have those. `EnoughWorkers` in
`MCThreadPool` is checked by TLC: the set of threads is never what keeps the code from creating one.
`MaxStarts`, `MaxCalls` and `MaxSets` bound counters and are guards of the actions that move them. `stopAndWait` is
`stop` and `wait` in a row: the runs with a free owner call the two, the destructor calls it itself.
Deadlock checking is off where the pool may rightly be idle for ever: no client has to submit and no owner has to call.

In `restart` one thread lives three times, so a second restart meets threads of the first life; `elastic_pool` has the several parked threads that `StopReachesAll` is
about. In `events` two calls of each waiter let registrations of calls that are over meet new ones. In
`events_all` one call has a time-out in either mode: it can do all that one without can, and two threads in `WaitForEvent` are the fewest of which a signal can wake the wrong one.
`NoSleeper` leaves out an auto-reset event waited for with a time-out: there a thread that times out may use up the signal. Three jobs in `job_life` let one be run, one cancelled and one submitted from a callback at a time.

In `logging`, six lines make three rolls in one second, and the third is the first at which the renaming loop loses
a file. Two calls of setters are enough to leave a directory or a name and to come back. A buffer that
grows from 4 to 9 bytes meets every branch of `append`: room, growth by `Small` (behind the errno text), growth by the text, which is cut off
at `Large`, and full; numbers find room and do not. `MaxId`, `MaxNow`, `LinesEach`, `MaxPieces` and `MaxSettings` are bounds and guards; a roll
that would need a suffix above `MaxId` does not happen in the model. Deadlock checking is off because the lines run out.

**Fairness.** `FairSpec` asks weak fairness of each thread of the pool, each client inside
`submitJob` and the owner inside an operation: the scheduler runs every thread that can run, and
jobs return. Nothing is asked of submissions or of calls. Locks and semaphores need no more than
weak fairness here: each waiter's guard, once true, stays true until it is taken or the resource passes to
another thread that itself makes progress. In `PEvents` the
functions are fair, `StartWait`, `BeginSet`, `ResetEvent` and the end of a time-out are not. In `JobLife` the threads inside a function are, and
idle job threads, which is what `ThreadPool` shows in `JobCompletes`; `clearUndoWork` and `requestCancel` need not be called. `ClearReturns` needs that a callback that submits returns.

**Mutants.** Each property of a passing run has in PROJECT.json a plausible mistake that breaks it; the mutated operators stand
next to the true ones and are marked `mutant:`.

## 4. What is proved

`ThreadPoolProofs` proves for every number of threads, jobs, clients and starts:

* `TypesHold`. `TypeOK` is inductive with one addition: a client inside `submitJob` has a job.
* `AccountingHolds`. `AccountInv` = types and `ThreadAccounting`. The two counters are the sizes
  of two sets of program counters; each action moves one thread across one of their borders and changes the
  counter by one. `Leave` counts down whatever the races have dropped.
* `DispatchHolds`, `JobFound`. `DispatchInv` adds: the job event, the thread it was given to and
  `sem_notify_got_waitting_job_` are one token, held while W is at `waitGot` (`Token`); the
  waiting set is the jobs in state waiting and clients hold different jobs (`JobsInHand`); running jobs
  and running threads match (`JobsAtWork`); units of `sem_job_needed_to_do_` plus the one
  in W's hands are covered by waiting jobs until `clearUndoWork` (`EnoughJobs`); W is told to exit
  only after clearing (`ExitAfterClear`). The last two are what makes the assertion at 535 inductive.
* `PromiseKept`: `Spec => KeepsPromise`, the refinement of `JobPool` under the mapping written in
  `ThreadPool`. Each action is shown to be a step of `JobPool` or a stutter; the limit on
  running jobs comes from `AccountInv` and `JobsAtWork`.
* `SubtractQueueHolds`, `ShrinkHolds`. `ShrinkInv` = the shrink token, agreement of queue and semaphore,
  and that the 0 is pushed only when the owner is closing (`Closing`). That no request is 0 uses
  `ThreadAccounting`: the requester itself is counted.

`ThreadPoolStop` goes on from there:

* `StopReaches`. `StopInv`: while the stop event is set, the parked threads are among the registered waits `SetEvent` has still to visit. It is
  inductive because a thread parks only when it has seen the event not set, and only the visits take waits away.
* `NoneForgotten`. A waiting job has a unit of `sem_job_needed_to_do_` or the dispatch under way. W must not take a unit while a dispatch is
  under way, which is `Token`, so `DispatchInv` is needed beside it. `EnoughJobs` is the other half of the equation and holds until `clearUndoWork`; this one holds until the pool is
  stopped, whoever clears. The hypothesis `OnlyDestructorStops` is what the code needs: a `stop` that overwrites the job event of a fired thread (finding 4) leaves a job
  without unit, and TLC shows it after a restart. It is the safety half of `JobCompletes`.
* `DoingHolds`, over `DoingInv`: a job has an id from the moment it waits (`IdsInv`), threads at work have different jobs (`OwnJob`), the map never has an entry too many and, while ids are
  unique, none too few (`MapInv`). `DoingInsert` is where two submissions may get one id: an id is given to a job that had none, so ids that are unique
  afterwards were so before.
* `NeverStuck`, for pools that nobody uses before `start` and whose two limits are equal (`FixedLimits`). `FullPool` and `ThreadAccounting` say that there is no surplus; then nobody makes a request, S pops nothing but the
  destructor's 0 (`NoRequest`), and the circle of locks of finding 1 cannot close. Nothing else is asked of the owner or the clients.
* `WaitCovers`, `NothingLeft`, for settled pools: `SettledPool` is `FixedLimits`, `SettledOwner`, and `OnlyDestructorStops`. `SettledInv` adds to `FixedInv` that the stop event and the threads on their way out belong to the
  destructor (`OneStop`), that nobody is born or submits during it (`Deserted`), that the complete event finds no thread counted and the destructor passes only
  with it (`AllLeft`), and that a thread that has left can be joined before S ends (`Joined`). With `DoingInv` an empty set of threads at work means an empty map.

The hypotheses of the last are needed, each of them. A thread being born is finding 3. An elastic pool that has shrunk to no thread (section 5) has its
complete event set while the next `submitJob` adds a thread; main's pool, start(4,10), is elastic, so the two theorems say nothing of it. And a client that submits to a stopped pool adds
threads while the owner waits.

`JobLifeProofs` proves every safety property of the run `job_life`, for every number of jobs, threads, clients, cancelling threads and submissions:

* `TypesHold`, over `TypeInv`: two threads never have one job (`OneThreadEach`), `clearUndoWork` is in a callback for a job still in the set (`Clearing`), and submitters and cancellers
  have the job they were called with (`InHand`).
* `OneFateHolds`, under every discipline of the application. `FateInv` ties the callbacks made for a job that was submitted once to the place of the thread that has it (`ToldByThread`) and to its phase (`ToldByPhase`).
* `NobodyLeft` under `SafeDelete`: no deletion in `_finalize`, and deletion in `_onCancelJob` only if `clearUndoWork` waits for submissions. That the thread and `clearUndoWork` never meet a deleted job needs neither
  (`InUseHolds`); line 392 needs both.
* `FreedOnce` under `SafeReuse` and no deletion in `_finalize`, over `EventInv`: a job that is between 575 and 581 has its one event alive (`LiveInUse`), every other job has as many destroyed as created (`Balanced`), and a job not
  run yet holds no pointer (`FirstUse`). `SafeReuse`: no object is submitted twice, or events are destroyed in `doJobs` only, that is, no class keeps `TPBaseJob::_initialize`
  and no job deletes itself when it is cancelled; otherwise the pointer that is left is destroyed again.
* `CancelSafe` under `SafeReuse` and `Guarded`, over `KnownInv`: a job known to be cancellable is in the hands of a thread between the two callbacks.

The run has the strongest application these hypotheses allow: one class with `_initialize`, deletion in `_onCancelJob`. `freed_twice` shows what happens without `FreedOnce`'s.

`RsLoggerProofs` proves for every number of threads and lines, all buffer sizes and all sizes of the log every
property of the run `logging`:

* `LinesPrintableHold`, `TextKeptHolds`. `AppendOK` is the lemma about `append`: a buffer within its bounds stays
  so, and bytes are dropped only when it ends full, because growing by the larger of the text and `Small` makes room
  for the text and the zero behind it. `LinesInv` says it of each thread's line.
* `TypesHold`, over `TypeInv`. `WriteTypes` and `RenamedOK` show that the renaming moves lines together with names, so
  that no line is in a file that does not exist.
* `LogBelowLimitHolds`, `RollOpensNewFileHolds`, over `LogInv` = `TypeInv`, `NamesInv` (no file has a second that
  has not come yet, and once there is one of the present second the log is named by it) and `SizeInv` (the size bound for the log). The second theorem is where it matters
  that the clock does not go back.
* `KeepsLinesHolds`. `RolledKeeps` follows one line through the renaming, `WriteKeeps` through a write; only a
  setter that opens the line's file, or a roll that finds `name.1` and `name.2`, loses it.

The proofs about `PEvents` hold for every number of waiters, calls, sets, threads in `WaitForEvent` and events, in both modes and with time-outs or
without, and cover every safety property of the runs `events` and `events_all`:

* `TypesHold`, over `TypeInv` = `TypeOK`, a waiter inside a call has made one (`CallsMade`), and a setter with a call in hand finds it registered (`InHand`),
  without which the setter's next access could be to a deleted object.
* `ControlHolds`. `ControlInv` says where everyone is: a waiter has come past all events when it has left the loop (`PastLoop`) and is registered with none of those
  ahead of it (`Ahead`); only a call under way is still waiting (`StillInCall`); what a setter skips has been fired (`SkipOver`), what it
  has fired was given its event (`FiredGiven`); an event that is set, and is auto-reset or has no setter inside, has no registrations (`KeptAlone`); and a call that still wants has each event behind it or
  is registered with it (`Covered`). `NothingLost` follows from the last two.
* `CountsExact`. The sum is proved call by call: `SetSize` says what adding or removing a registration does to their number, and
  `Ahead` that a waiter registers with an event only once. `NoObjectLeft` adds `Closing`: after the first `DestroyEvent` nobody is in a function.
* `CountdownExact`, `ResultHonest`, over `GivenInv` (an event is given to a call at most once: not while it is ahead, and a call that is registered and has it is in the hands of the setter that gave it) and
  `Ended` (a call that is past the wait and was not timed out had enough).
* `PromiseKept`: `Spec => KeepsPromise`. Each action is a step of `EventPromise` or a stutter. It needs `FreshInv`: a call for one event that is still
  waiting has none, so a second setter cannot take it for a call that wants.
* `NobodySleeps`, over `SleepInv`: an event that is set and has no setter inside wakes, or has woken, somebody of those who sleep on it.

The assumptions are the named `ASSUME`s of `ThreadPool`: finite sets of threads and jobs, integer priorities, limits with
`min <= max`. TLC evaluates them in every run of `MCThreadPool`. Those of `FloatingBuffer` (`Small <= Large`), `RsLog` (finite lines, a
size of at least one) and `RsLogger` (lines are pairs of a thread and a number, lengths are naturals, the line
number is shorter than `Numeric`) are evaluated in the runs of `MCRsLogger`, and those of `PEvents` (the events are a non-empty list without repetition, calls
and threads in `WaitForEvent` are different things, bounds are naturals) in the runs of `MCPEvents`. Those of `JobLife` (no job is NULL, job threads are not clients, the
discipline is one of those described) are evaluated in the runs of `MCJobLife`. What a theorem asks beyond them stands in its statement.

Only model-checked: liveness (`JobCompletes`, `DeleteReturns`, `WaitEnds`, `SetReturns`, `ClearReturns`, `JobSettles`), which is out of the
prover's reach. Every invariant and every action property of the passing runs is stated by a theorem.

## 5. Findings

1. `shrink_stuck`: S waits under `subtract_thread_lock_` (105); a second requester waits for that lock
   with the pool's locks in hand (604-614); the leaver needs `running_threads_lock_` (451). Three threads
   wait in a circle, and so does the next `submitJob`.
2. `job_missing`: `clearUndoWork` cannot take back the unit of a dispatch under way: when W has set the job event and the set is cleared, the
   thread that takes the event meets the assertion at 535.
3. `early_complete`: threads count themselves after they were created (150), so the complete event may come before a thread has begun.
4. `lost_signal`: the manual-reset branch of `SetEvent` overwrites an auto-reset event that has fired the wait (pevents.cpp:490).
5. `freed_twice`: `doJobs` destroys the stop event and leaves the pointer (581); a job that deletes itself in `_finalize`, as the header advises, destroys it again.

Met while modelling and not a run (where it says so, TLC finds it once the configuration is changed as described):

* The destructor of a pool without a thread, never started, or started with a minimum of 0 and given no job, waits for ever at 296: only a leaving thread
  sets the event (155-157). `FixedPool.cfg` without clients, with start(0,2) and `StartsFirst = FALSE`, ends in that deadlock,
  and with `CHECK_DEADLOCK FALSE` violates `DeleteReturns`.
  The header says that `wait` waits until all threads have ended (threadpool.h:61).
* `job_index_` is incremented at 360 and read again at 364, so two submissions may get one index, although by it "a particular job can be
  found" (threadpool.h:67-68). With two clients in `FixedPool.cfg` TLC finds `UniqueIds` violated; `DoingTracksThreads` speaks of the pool
  while that has not happened.
* `submitJob` reads the job's id at 392, when the job may have been run and have deleted itself in `_finalize`. `JobLife.cfg` with `Deletes <- OnFinalize` violates `JobsInHandAlive`.
* A job whose class overrides `_initialize`, as the samples' do, keeps the destroyed event of finding 5, and a second submission meets the assertion at 574.
* At the last size `append` fills the buffer to its last byte (floatingbuffer.cpp:102; growth to that size may do so too, 89-98). No zero follows, and `output` prints the buffer
  with `%s` (rslog.cpp:397), which reads on behind it. `LinesPrintable` waives the zero there and nowhere else.
* `setLogPath` uses `strtok` outside the mutex (rslog.cpp:256-264): two calls at a time may mix their paths.
* A thread whose entry in `map_thread_ids_` the race at 149 dropped is never joined (455), nor one that the race on `list_removing_threads_` dropped
  (463); `DestructorLeavesNothing` names them (`lost`).
* Each finishing thread may request the same surplus thread to leave (608-616), which takes the pool below its minimum, down to no
  thread at all, although the header promises a number between the two limits (threadpool.h:48-50). Start(1,2) and two jobs are enough.
* A call of `WaitForMultipleEvents` that times out after an auto-reset event has fired it uses up that signal and reports a time-out.
* `formatInteger` leaves a number out when fewer than 32 bytes are left, although the buffer could grow (logstream.cpp:68).
* A `wait` that times out fails an assertion (304).

Met while modelling and part of a property: a setter opens a file that is there with `"w+"` and empties it (rslog.cpp:305), and
the third roll in one second removes `name.1` although `name.2` is there (rslog.cpp:503-508). `KeepsLines` names
both; that it holds, and is proved, says that there is no third way to lose a line.

An elastic pool's destructor may hang for reason 1.

## 6. Not modelled

`wait` with a time-out, whose expiry ends in an assertion; `PulseEvent` and the Windows half of pevents.cpp (not compiled); `onJobProgress`, `onJobError` and
`_notifyCancel` (nobody calls them); what a job does while it runs; allocation failure and thread creation
failure; the memory order of relaxed loads beyond the tests that are made twice.

In the logger: `clearExpiredLogs`, `reset` and `resetBuffer` called from outside, `bzero` and `debugString` (nobody calls them);
`Instance()` and what happens to it at exit; two processes with one log name; time stamps and the
wording of a line; `RsStringPiece`, `RsTimestamp` and `Fmt`, which are values without a protocol.

## 7. Plan

Done: the modules of section 2, their runs, and the proofs of section 4, which state every safety property of the passing runs. Left:

1. An elastic pool's bounds from below: how far it can shrink, as a function of the jobs that have ended.
2. The safety halves of `DeleteReturns` and `WaitEnds`: while threads of the pool are left, one of them or the owner can go on.
