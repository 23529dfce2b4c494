# A verification of Personal-Code's components

TLA+ models of the four concurrent components of this repository and of the
logging macros it is compiled with, the TLC configurations that check them on
small instances, and TLAPS proofs, for every instance, of every safety property
the runs check and of the five refinements. `PROJECT.json` lists the runs, the
mutants each property is tried against, the source lines of every definition,
the hazards, the findings and the theorems.

## 1. The system

| part | source | state | operations | what it touches |
|---|---|---|---|---|
| ThreadPool | `src/thread/thread_pool.h`, same text in `src/event/thread_pool.h` (1-265; 266-435 is under `#if 0`) | `_task_queue`, `_jobs_left`, `_bailout`, `_finished`, two mutexes, two condition variables | `add_normal_task`, `add_critical_task`, `wait_all`, `join_all_thread`; workers in `execute_task`/`next_task` | runs callables of its users |
| TimerQueue | `src/timer/timer_queue.h` | `_event_vector`, `_is_sort`, `_timer_id`, `_stop_thread`, `_execute_event_list` | `create_timer`, `cancel_timer`, `timer_queue_exit`; a loop thread and two executors | runs handlers of its users |
| mem_pool | `src/memory/mem_pool.h` | an arena `_memory`, the free list at `_head`, `_numFreeBlocks` | `create`, `destroy`, `allocate_memory`, `free_memory` | nothing |
| event bus | `src/event/event_manager.*`, `event.h`, `builder.*` | the multimap `_event_map`, `Builder::_vct_events` | `register_event`, `unregister_event`, `push_notify`, `construct_event`, `destruct_event` | `push_notify` calls `ThreadPool::add_normal_task` with `Event::on_notify` |
| examples | `src/example/**` | – | drivers; `event-bus/builder.cpp` and `test.h` hold the business classes | all of the above |
| Log | `src/log/glog/*.h` | three statics per call site (`LOG_OCCURRENCES`, `LOG_OCCURRENCES_MOD_N`, `vlocal__`) | the logging macros | libglog.dll, which is not source here |
| Log object | `src/log/log.h` | none of its own | `Log::Log`, `~Log`, which set glog's options and file names | libglog.dll |

The first four are singletons, function-local statics. The only composition is the
event bus on the pool: a push becomes one pool task per listener, and the order
in which the singletons were first used decides the order in which they die.

What makes each part correct, and what is hard about it:

* **ThreadPool.** A task runs exactly once, critical ones first and in order of
  submission; a join that waits has run what was accepted. Hard: the queue is
  under a mutex but the counter, the bailout flag and the notifications are not.
* **TimerQueue.** A timer expires neither early nor twice, a cancelled one not
  at all, and no timer is slept past. Hard: the sorted-flag, a nap that must be
  interrupted, a handler shared by all its expiries, a stop flag without a lock.
* **mem_pool.** Blocks in use do not overlap and lie in the arena; the free list
  is a chain of free words. Hard: lazy creation without the lock, several sizes
  on one list, the counter at zero.
* **Event bus.** A notification reaches the listeners registered when it was
  pushed, once per registration, and never a deleted one. Hard: raw pointers in
  the pool's queue, re-entrant pushes, the exit.
* **Log.** A statement logs when, and only when, its severity, condition, count,
  verbosity and the build say so; a FATAL ends the process in every build. Hard:
  some hundred macros that must agree with each other in every build mode, and
  statics that threads share without a lock.

## 2. Modules

```
PriorityService  <=  ThreadPool  <-  MCThreadPool,  ThreadPoolProofs
TaskPool         <=  ThreadPool
TimerService     <=  TimerQueue  <-  MCTimerQueue,  TimerQueueProofs
Allocator        <=  MemPool     <-  MCMemPool,     MemPoolProofs
BusService       <=  EventBus    <-  MCEventBus,    EventBusProofs
TaskPool         <-  EventBus
                     Logging     <-  MCLogging,     LoggingProofs <- CountingProofs

QueueLemmas      <-  ThreadPoolProofs, TimerQueueProofs, EventBusProofs
DataInduction    <-  EventBusProofs, MemPoolProofs, LoggingProofs
```

`A <= B`: A is the abstract promise, B the model of the code; B instantiates A
under a refinement mapping and a run checks `A!Spec` as a property. `A <- B`: B
extends A, or (EventBus) is composed with A through INSTANCE. QueueLemmas says what
the operators on queues return, DataInduction is induction over the natural
numbers.

Each model lists its state, then one action per step of the code, then the
next-state relation, fairness and properties. An operator whose comment says
*mutant* is not part of a specification: it is a wrong version of the definition
after it.

### ThreadPool
A client's `add_*_task` is three steps: the insertion under `_queue_mutex`
(`AddTask`, `UpperBound`), `++_jobs_left` (`CountTask`), `notify_one` and the
return (`SignalTask`). A worker tests `_bailout` (`TestBailout`), takes the mutex
and evaluates the predicate (`AwaitTask`), and either blocks – a step of its own,
`BlockWorker`, because `_bailout` and the notifications do not need the mutex – or
takes a task (`TakeTask`, which reads `_bailout` again), runs it (`RunTask`),
decrements (`UncountTask`) and notifies (`NotifyJoiner`). Main's join is
`JoinAllThread`, `WaitAll`, `TestDrained`, `BlockJoiner`, `SetBailout`, `WakeAll`,
`JoinThreads`. Spurious wakeups are actions. `ticket`, `issued`, `ran` and `owed`
are history variables. Other clients may go on submitting during the join; Main
does not submit after it, as the comment at line 101 demands.

A worker that is also in `Clients` stands for functions that submit: such a
function makes its calls while the worker is at `run` and returns from them first
(`MayAdd`, `Returned`). A client in `Getters` may wait for the future it was
given, as thread-pool-example.cpp does (`KeepFuture`, `GetResult`); it waits for
the task it has just submitted and not for older futures. `Starved` names the
state in which every worker waits like that and nobody is left to run anything.

### TaskPool
The pool as its users meet it, and what a composition with it may rely on: the
queue, the counter, the flags, who has queued a task and not counted it yet
(`counting`), what each worker is running and which ones have `left` their loop,
and how far `join_all_thread` is (`join`). It has no mutexes, no condition
variables and no program counters, hence no wakeups, lost or not. ThreadPool is
checked and proved to implement it (`ReducedSpec`): `Holding`, `Leaving` and
`Joining` say what of its state is running, left and join. A worker that the stop
finds idle returns from `next_task` with nothing and decrements all the same
(`CountOffNothing`), so the counter ends below zero.

### TimerQueue
Time is a counter, `Tick`. `create_timer` is `NewEvent` (number and deadline),
`InsertEvent`, `NotifyCreated`, `ReturnId` (the second read of `_timer_id`).
`cancel_timer` is one critical section. The loop is `TestStop`, `AwaitEvent`,
`BlockLoop`, `LookAtEarliest` (sort if marked, read the clock, then the three
branches; `NapTime` is the difference of line 182), `StartNap` (wait_for reads the
clock again and adds the difference), `NapOver`, `Recheck`, `FireEvent` (hand to
the executors, then `Reschedule` or pop). `Tick` may come between the two readings
of the clock, so that a nap ends after the deadline it was meant for; `lag`, a
history variable, is how much time that was. An executor is `AwaitHandler`, `BlockExecutor`, `StartHandler`,
`EndHandler`. `terminated` records the exception of a second invocation of a
packaged_task, after which the program has ended. `_stop_thread` is a plain
`bool` read without a lock: the data race is modelled as reading the old or the
new value, each access being a step. An executor that is also a user stands for a
handler that calls `create_timer` or `cancel_timer`: it does so between
`StartHandler` and `EndHandler` (`MayCall`).

### MemPool
An address is an arena and an offset; arenas are numbered so that the results of
two `malloc`s can be told apart. `next[a]` is the word at `a` as a list pointer,
`Junk` where a user's object was written. The four assignments of `create_pool`
that others can see are steps; `allocate_block` and `free_block` are one step
each, as they hold `_mtx`. `broken` records the dereference of a pointer that is
none; the behaviour stops there, since nothing is defined after it. The assert
of `free_memory` is that of a debug build: an assertion that would fail disables
the call and is the subject of `BlocksBelongToPool`.

### EventBus
A singleton comes to life when it is first used (`Used`, `Touch`).
`event_map` is a sequence of listeners per index, from which `unregister_event`
takes every entry of a listener (`Erased`). `push_notify` takes the range
(`PushNotify`) and then, per listener, inserts a task (`Enqueue`) and counts it
and advances (`CountAndAdvance`). The pool is TaskPool, with the users as its
clients, the notifications as its tasks and none of them critical: every step of
the bus that touches the pool is one of `Pool`'s actions and what the bus does
beside it (`Enqueue`, `TakeNote`, `ReturnNote`, `EndIdle`). That a queued task
finds a worker is `NoIdleWorker` of ThreadPool and not modelled again. The
business classes are those of the example: `construct_event` creates them,
performs the registrations of `init_event` and leaves the pushes of `dispatch`
in `script`, which Main makes before anything else. When main returns the
singletons die, the last constructed first (`NextDestroyed`, `DestroyBusPart`);
the pool's destructor is `join_all_thread(true)` (`DestroyPool`, `JoinThreads`). A worker may push from inside `on_notify`;
`late` is a history variable, whether one did so after main had returned.

### Logging
A behaviour is one build (`program`: the macro, its arguments, GOOGLE_STRIP_LOG,
STRIP_LOG, NDEBUG, `__GNUC__`) of a program in which several threads execute one
logging statement again and again. `Expansion` is what the preprocessor makes of
the statement: the steps before the stream, the class that is streamed to
(`Compact`, `RawCompact`) and the severity, looked up in one table per group of
macros, with an entry for each macro. Where NDEBUG makes the D macros vanish
(`Vanishing`) the tables are `DLogMacros`, `DCheckMacros` and `RawDMacros`: the
expansions are there in full, behind the `Guards` the code puts before them
(`true ? (void) 0 :`, `true ||`, `while (false)`), which a thread meets as a step
that ends the statement (`Skip`); DCHECK_NOTNULL(val) is its `val` (`EvaluateVal`).
The steps are interpreted one by one, a load or a store of a static each:
`LoadOccurrences` .. `TestFirst` for the counting macros (`Reread`: where the code
names a static it has just written, the build may load it again or keep the
register; `Wrapped`: the statics are ints), `TestFlag` .. `InitVLOG3__` for
VLOG_IS_ON. `SendMessage` is the life of a LogMessage with the 100-element limit of
`PrintSequence` and the bytes of `LogStreamBuf` (`Buffered`; `Bytes` says how many an
element's text takes, and a text that the end of the buffer cuts is not among what
the message says); `KeepMessage` is a message that goes to a vector or to a sink
instead of the log, and `DiscardMessage` is NullStream and NullStreamFatal. glog's
own part – whether `InitVLOG3__` sets the site, `SetVLOGLevel`, what Fail does – is
external and nondeterministic where the headers leave it open.

## 3. Runs

"pass" runs:

| run | instance | shows |
|---|---|---|
| Pool_shared | 2 workers, 2 clients, 2 normal + 1 critical task, both joins | `TypeOK`, `CounterAccounting`, `NoPopFromEmptyQueue`, `TaskConservation`, `NoIdleWorker`, refinement of PriorityService and of TaskPool |
| Pool_nested | 2 workers, Main and both workers submit and may wait for futures, the same tasks, a waiting join, fairness | `AcceptedRunByJoin`, `WaitsForEmptyQueue`, `EveryTaskRuns`, `JoinReturnsUnlessStuck` |
| Timer_shared | 2 users and one executor's handlers, 2 executors, one-shot + repeating timer, time to 2 | `TypeOK`, `SortedUnlessMarked`, `NoOversleep`, `NoIdleExecutor`, `CancelsOnlyRequested`, refinement of TimerService |
| Timer_live | 1 user and one executor's handlers, 2 executors, a repeating timer, stop, fairness | `EveryTimerExpires`, `EveryExpiryStarts`, `ExitReturnsUnlessSignalLost` |
| Mem_shared | 2 threads, 3 pointers, one size of two words, Main the sole creator, 2 arenas | `TypeOK`, `FreeListSound`, `CounterTracksBlocks`, `NoWildPointer`, `BlocksBelongToPool`, refinement of Allocator |
| Bus_shared | Main, 2 workers that push too, 2 listeners, 2 pushes, 3 entries, fairness | `TypeOK`, `NothingLeftBehind`, `ListenersOutliveCalls`, `EveryNotificationArrives`, refinement of BusService |
| Log_shared | 2 threads, up to 5 executions, every macro but CHECK_ERR and the like in the strip levels and build modes that change it, one change of verbosity, containers of 0 to 4 elements or pairs | `TypeOK`, `OccasionalLogsAlone`, `StrippedStaysHidden`, `DebugLeavesNoTrace`, `TextReadable`, `VerboseFollowsFlag`, `FatalNeverReturns` |

Each "violation" run checks one sentence of a comment or the README against the
code, and TLC shows a behaviour that breaks it:

| run | the sentence | what happens |
|---|---|---|
| Pool_find_bailout | thread_pool.h:112, wake up any thread | bailout and its notification fall between a worker's predicate and its wait; the join hangs |
| Pool_find_accepted | thread_pool.h:97, will wait for the queue to empty | two submitters: counter 0 with an accepted task queued, which is dropped |
| Timer_find_id | timer_queue.h:17, unique id | a caller gets another event's number |
| Timer_find_overlap | timer_queue.h:19, repeat indefinitely | two executors in one packaged_task; the program terminates |
| Mem_find_null | README.md:8, thread-safe memory pool | null `_head` dereferenced during creation |

### Where the passing runs stop
Several properties hold under a condition that the instance, or the property
itself, states. What the code does outside the condition:

* **ThreadPool.** The join's promise holds as long as only Main and functions
  that run in the pool submit (`Pool_nested`); with a second independent client
  it does not (`Pool_find_accepted`). With nested submissions the counter can be
  0 while the submitting function is between its insertion and `++_jobs_left`, so
  `wait_all` may end while it still runs: `AcceptedRunByJoin` is therefore about
  the end of the join and not of the wait, and a function may put a task into the
  queue after the wait has ended, which is dropped (`QueueEmptyAfterJoin`, which
  the proofs show for a sole client, fails in `Pool_nested`).
  `join_all_thread(false)` may leave tasks in the queue whatever line 100 says.
  `EveryTaskRuns` and `JoinReturnsUnlessStuck` except `Starved`, all workers in
  `get()`; the latter also `BailoutSignalLost` (the subject of a finding) and
  `DrainSignalLost`, where the decrement and the `notify_one` of line 216 fall
  between `wait_all`'s predicate and its wait.
  Critical tasks go before the normal ones, although the comment at line 157,
  repeated from the normal case, speaks of the end of the queue.
* **TimerQueue.** `NoIdleExecutor` ends with the stop, after which an executor
  may leave with handlers queued. `CancelsOnlyRequested` is about callers who
  were given their own number, which `Timer_find_id` shows not to be everybody.
  `NoOversleep` grants a nap the time between the readings of the clock at lines
  173 and 183: with `lag` left out of it TLC finds the loop asleep past a deadline.
  `ExitReturnsUnlessSignalLost` excepts `StopSignalLost`, the stop and its
  notifications between a test of `_stop_thread` and the wait; it and
  `EveryTimerExpires` except `NapPastBound`, a nap that ends beyond the modelled
  time. An expiry that is already queued when its timer is cancelled still runs;
  TimerService allows it. Nor does it order timers: after a nap the back of the
  vector is looked at unsorted (188), and of two timers that are due the later
  one may be handed over first. The exit drops what is still queued.
* **MemPool.** One creator, one size, which is a multiple of a word, and never
  so many blocks in use or on their way that nothing is free: this is `SafeUse`
  of MemPoolProofs, which `Mem_shared` satisfies.
  With two sizes on the free list `AllocatorSpec` fails:
  a small free block serves a large request and the blocks overlap. At counter 0
  the head stays, and two requests get the same block. If the size does not
  divide the capacity either, the counter wraps there and the head leaves the
  arena. With a
  size that is no multiple of a word `CounterTracksBlocks` fails, as only one
  side rounds. Two creators make two arenas, which breaks `BlocksBelongToPool`;
  and see `Mem_find_null`. Any of these can be seen by changing `Sizes`,
  `Capacity` or `SoleCreator` in `Mem_shared.cfg`.
* **EventBus.** A listener that still pushes while the pool's destructor waits
  can have its notification counted too late: the counter is 0 and the task is
  dropped, as in `Pool_find_accepted`. `late` records that this may happen, and
  `NothingLeftBehind` and `EveryNotificationArrives` are about the other
  behaviours. `destruct_event` (builder.cpp:30) sets a copy of each pointer to
  null; since `~Builder` calls it again, an explicit call deletes every listener
  twice, whatever the schedule. The model lets main call it at most once, and the
  second deletion changes nothing there, although nothing is defined after it.
* **Log.** `OccasionalLogsAlone` and `VerboseFollowsFlag` are about statements
  that no two threads have been in at once: beside each other two threads lose
  updates of LOG_OCCURRENCES_MOD_N, and may read `vlocal__` once before and once
  after another thread sets it. Dropping `~overlapped` in either shows it.
  With n = INT_MAX line 892 counts past the int: the count is then negative, and
  LOG_EVERY_N logs nothing more until it has come round to 1 again; LOG_FIRST_N
  overflows in the same way and never stops. `OccasionalLogsAlone` is about the
  others (`Countable`); `Log_shared` has such an n too, and without `Countable` it
  fails. `StrippedStaysHidden` names the macros that are stripped; `*_EVERY_N`,
  `LOG_FIRST_N`, `PLOG`, `SYSLOG`, `LOG_TO_SINK`, PCHECK and CHECK_NOTNULL keep
  their messages at every GOOGLE_STRIP_LOG, although logging.h:391 speaks of all
  log messages. `FatalNeverReturns` excepts two FATAL forms that do return, whatever
  logging.h:270 says: LOG_STRING where a vector takes the message, and
  LOG_TO_SINK_BUT_NOT_TO_LOGFILE (`Returns`). In LOG_IF_EVERY_N, COUNTER counts all
  executions, not those whose condition held. NullStream gives its streambuf a
  length of 1 where logging.h:1110 requires at least 2. `TextReadable` is about
  containers whose elements do not themselves print as punctuation (`TellApart`);
  of a text that fills the buffer it says only that what can be read is right:
  such a text may end inside an element, or in the dots, or without them.

### Bounds
* ThreadPool: three tasks let two workers race for the queue while a third task
  is being submitted, with both priorities present; the only unbounded thing,
  the spurious wakeup, adds no state.
* TimerQueue: `MaxTime` stops the clock and so bounds expiries. Delays are 1, or
  2 for timer `a`: timers tie, overtake each other and repeat within 2 ticks.
  Each timer is created at most once.
* MemPool: `Pointers` bounds the blocks in use, `MaxArena` the calls of
  `malloc`. `Capacity` exceeds size × (pointers + threads) in `Mem_shared`, as
  blocks on their way back still count. `SizeMod` is 2^w of `size_t`, small, so
  that arithmetic modulo it can differ from that of the integers.
* EventBus: `MaxPush` bounds the notifications beyond those of dispatch and
  `MaxEntries` the registrations per index; three entries of two listeners force
  a duplicate registration, which unregistration must erase as a whole.
* Log: `IntMax` is 4, so that LOG_OCCURRENCES wraps within the 5 executions
  (`times`) of some programs; the periods 1 and 3 are the special case and one that
  does not divide the number of ints, and 4 is the largest int. `MaxElements` (100 in
  the code) is 2 and `MaxText` 12, so that containers of up to 4 elements meet both
  limits, and the buffer ends after a text, inside one and inside the dots. `Turn` is the value of an int after any number of increments. One
  change of verbosity and two levels are enough for a flag to change
  before, during and after the initialisation of a site. `Interchangeable` makes
  the threads symmetric: they do the same, nothing chooses between them, and the
  run checks no liveness.

TLC runs with deadlock checking off wherever the program may rest for ever: the
clock has stopped, nobody is obliged to call, the program has exited or been
ended by a FATAL, (in MemPool) a broken pointer has ended it, or (in Pool_nested)
Main and all workers wait for futures. It stays on for the other ThreadPool runs,
where Main may call the join again and a sleeper may wake spuriously; a hang
there is the subject of the liveness properties.

### Fairness
`FairSpec` in ThreadPool and TimerQueue says that the operating system runs every
thread, that callbacks return, and – strong fairness – that a thread that asks
for a mutex again and again gets it. Time passes. Nobody has to submit, create,
cancel, join or stop, and no spurious wakeup is relied on. In EventBus weak
fairness suffices: threads inside a push or a handler go on, and workers take
what is queued. `JoinReturnsUnlessStuck` and `ExitReturnsUnlessSignalLost`
name the states of lost wakeups and starvation, which are real.

## 4. Proofs

`ThreadPoolProofs` proves, for any finite sets of workers and clients and any
sets of tasks (`PoolAssumption`):

* `TypeCorrect`, `PopIsSafe`: by `SafeInv`, type correctness with *who owns the
  mutex* (a worker is in the critical section iff `queue_mutex` is its name) –
  without it another worker could empty the queue between predicate and pop.
* `CounterIsAccurate`: `CounterAccounting` is inductive relative to `SafeInv`;
  each step changes the cardinalities of `Busy` and `Uncounted` by one.
* `TasksAreConserved`: by `PlaceInv`, conservation with *idle workers hold no
  task*. Steps are sorted into those that move a task and those that do not.
* `ImplementsTaskPool`: step simulation under the mapping of `Reduced`. Each step
  of the code is one of TaskPool or changes nothing there: Main's in
  `MainReduces`, a worker's in `WorkerReduces`, a client's in `ClientReduces`. It
  needs `StopInv`, that a worker goes on with nothing, or out of the loop, only
  after the stop, and `ClientInv`, that Main's place is that of one who joins.
* `ImplementsPriorityService`: step simulation under the mapping of `Service`;
  it needs `OrderInv`, that the queue is sorted by priority and ticket, which
  `UpperBound` preserves.
* `WorkersAreWoken`: `NoIdleWorker` with `BlockInv`, that a worker about to block
  still sees an empty queue because it holds the mutex.
* `SoleClientDrains`, `SoleClientEmpties`: when Main is the only client (and, for
  the second, always waits) the counter cannot be zero with a task queued, as
  no submission is half-way while Main is in `wait_all`. `ClientInv` ties
  `bailout`, `finished` and Main's place together. `Pool_find_accepted` shows
  that the first hypothesis is needed; without the second, a join that does not
  wait leaves tasks behind.
* `NestedTasksRun`, `NestedQueueEmpties`: the same promise, in the form that
  survives functions that submit, for any pool in which only Main and the workers
  are clients. `NestInv` says that a worker that submits is running a counted
  task, so while Main is in `wait_all` the counter can be 0 only with an empty
  queue (`WaitAllEmpties`); `OwedInv` says that once the wait is over no task
  it owed is in the queue; with conservation, what is owed has then run when all
  workers have left.

`TimerQueueProofs`, for any finite sets of users, executors and timers, any
delays, with and without a stop (`TimerAssumption`):

* `TypeCorrect`: by `SafeInv`, types with `HoldInv`, which says for every program
  counter who owns which mutex and what is held, and that the loop fires only
  from a vector that is not empty.
* `CancelsOwn`: needs `IdInv` (identifiers are never given twice) and `VectorInv`
  (the vector holds no event twice, and none without its number). The hypothesis
  is in the property, since `Timer_find_id` refutes it of the code.
* `OrderKept`: `SortedUnlessMarked` is inductive with these: the flag stays clear
  only over the sort, over popping the earliest event, and over a new deadline,
  which by `VectorInv` is of an event that is not in the vector.
* `NeverOversleeps`: `NapInv`, that a loop about to nap has seen every event, as it
  holds the mutex from looking at the earliest to sleeping, and that its nap would
  end by then, or later by the time that has passed since it looked (`lag`);
  afterwards only a `create_timer` that will notify can add an earlier event.
* `ExecutorsAwake`: as `WorkersAreWoken`, with `EmptyInv`.
* `ImplementsService`: step simulation, in one lemma for each part of the service's
  state: `DueStep` counts the expiries that are in the handlers' queue or with an
  executor, `CreatedStep` the timers, and `DeadlineInv` says that what is fired is
  due and that a deadline is at most `nTimeout` ahead.

`EventBusProofs`, for any listeners, indices and workers and any order in which
the singletons come to life (`BusAssumption`):

* `TypeCorrect`: with `PhaseInv` (main has returned before anything is destroyed)
  and `UseInv` (whoever uses a singleton has brought it to life; without it
  something could be constructed during the exit).
* `ListenersStay`: `OrderInv` (what came to life later is destroyed earlier),
  `JoinedInv` (no worker is in a listener when the pool is gone) and `AliveInv`
  (until Builder is destroyed, what is registered, queued or called is alive).
* `NothingLeft`: `CountInv` says that until the stop `_jobs_left`, together with the
  pushes that have not counted their task yet, is the number of queued and running
  tasks (afterwards the counter also has the returns of `CountOffNothing`, and
  nothing depends on it). Once main has returned and nobody is late no push is
  left, and zero means that nothing is queued and nobody is in a listener: so it
  was when the stop was decided (`EndStep`), and so it stays.
* `ImplementsService`: what a notification still owes a listener (`Pending`) is what
  the queue holds for it and what its one walk of the range has yet to reach
  (`PendingIsOwed`, with `UniqueInv`: one walk for each notification); each step of
  the walk moves one entry from one to the other (`WalkAdvances`).

`LoggingProofs` and `CountingProofs`, for any set of builds, any threads, levels
and bounds and any width of an int (`LogAssumption`):

* All theorems rest on `SafeInv`: types with `StepInv`, the shape of what is left
  of a statement (`Shape`: it ends in the message, the site's pointer is tested
  right after its flag, ...). `ExpansionFacts` shows this and the severities for the
  expansion of every macro in every build (`Tables`, `VanishingTables`).
* `HiddenStay`, `FatalEnds`: an expansion that is stripped has a stream that says so,
  and a FATAL one a stream that ends the process, or keeps the message.
* `NoTrace`: `VanishingFacts` goes through the release forms one by one, each of which
  must have its guard (or `val`) as its first step; `GuardedStep`, that such a
  statement takes no other step, hence nothing of it is executed.
* `FlagFollowed`: `AloneInv`, that unless two threads were in the statement at once,
  at most one is, the current flags are among those it has `seen`, and at the second
  read of `vlocal__` a flag it saw was high enough.
* `OccasionsLogged`: `CountInv` says for each step of each counting macro what the
  statics and the thread's registers hold after k occasions (`Rest` between
  executions, `EveryPhase`, `FirstPhase`, `IfPhase` inside one), that is, `Cycle(k)`,
  `Few(k)` or k % n, and that what was logged is what was due up to k;
  `LinkInv` says which step follows which. It includes the wrap of
  LOG_OCCURRENCES (`TurnStep`) and the period 1. `Countable` keeps `Cycle(k)` and
  `Few(k)` ints.

* `TextIsReadable`: `TextInv` says that the text is the buffer's part of what
  PrintSequence writes. `PrintedShows` is about the whole of that, by induction over
  the rounds of the loop: each adds one element, which is the next (`PieceFacts`,
  `ShowsNext`), and dots follow iff elements are left. `Rank` numbers the elements
  of a text; since it only looks back, a text that is cut keeps it (`RankStays`).
  `BufferedPrefix` says that the whole texts in the buffer are the first ones of what
  was streamed, and all of them unless the buffer is full.
  The property is about containers in which an element can be told from the
  punctuation around it (`TellApart`).

`MemPoolProofs`, for any threads, pointers, block size and capacity under
`SafeUse`, which every theorem names as an assumption. It is the condition of
section 3; `Mem_shared` satisfies it, and without any of its parts the code breaks
some of the properties, as described there.

* The invariant is `SafeInv`: types; `PhaseInv`, who can be where (only Main
  creates; a pointer is in one call only); `HolderInv`, that a block has one
  holder; and `HeapInv`, that there is a sequence L of offsets which the free list
  runs through (`Chain`), whose blocks and those in use lie apart and below
  the rest of the arena (`Layout`), and that the counter is the capacity less the
  blocks out. The existence of L takes the place of the walk along the
  list, which is not inductive by itself. `TakeFree`, `TakeRest` and `PutBack` give
  the new L of each kind of step.
* `TypeCorrect`, `NothingWild` and `BlocksAreOwn` follow from it; `FreeListIsSound`
  because the walk is L (`WalkFollows`), `CounterIsExact` because a sum of equal
  sizes is a product (`SumOfEqual`), `ImplementsAllocator` by step simulation with
  `TakeFree` and `TakeRest`.

`QueueLemmas` is about the sequence operators, for any sequence: what insertion,
erasure, push and pop leave at each place, as a set, and how often an entry then
occurs. `DataInduction` is induction over Nat for a *set* of numbers: the library's
theorems take a predicate, which the provers here cannot instantiate, while
`{k \in Nat : ...}` they can. `WalkFollows`, `SumOfEqual`, `ErasedProperties` and
`PrintedShows` and `BufferedPrefix` use it for recursive functions.

Only model-checked are the liveness properties: `EveryTaskRuns`,
`JoinReturnsUnlessStuck`, `EveryTimerExpires`, `EveryExpiryStarts`,
`ExitReturnsUnlessSignalLost` and `EveryNotificationArrives`. The prover has neither
fairness nor ENABLED.

## 5. Not modelled

* libglog.dll: files, the log mutex, sinks, syslog, the parsing of flags and the
  signal handlers are not in this repository. VLOG_EVERY_N is instantiated
  without the GNU extensions only.
* The Log object (log.h): its constructor and destructor are a fixed sequence of
  calls into libglog.dll. Its comments do not always agree with it: in release builds
  line 14 sends WARNING and above to stderr, where its comment says FATAL.
* Macros that are built from others and add no decision: LOG_AT_LEVEL, PLOG_EVERY_N,
  CHECK_INDEX, CHECK_NEAR, CHECK_ERR and SYSLOG_ASSERT.
* What futures return, and the contents of notifications.
* Two threads changing or walking `_event_map` at once, and `destroy` beside
  other calls: undefined behaviour the code leaves to its user; both are
  preconditions in the models.
* `get_threads_total`, `get_jobs_remaining`: reads.

## 6. Plan

Done: the four concurrent components with their abstract specifications, the
pool's re-entrant clients and futures, timers created and cancelled by handlers,
the logging macros, the event bus over an abstract pool that ThreadPool
implements, the proofs of all five refinements and of every safety property.
Next:

1. MemPool with sizes that are no multiple of a word: how far the counter drifts
   as a function of the number of calls.
2. A TaskPool with liveness, so that `EveryNotificationArrives` could rest on the
   fairness that ThreadPool offers instead of the bus's own.
