----------------------------- MODULE ThreadPool -----------------------------
(***************************************************************************)
(* The singleton ThreadPool of src/thread/thread_pool.h (the copy under    *)
(* src/event/ is the same text): a priority queue guarded by _queue_mutex, *)
(* the atomics _jobs_left, _bailout and _finished, and two condition       *)
(* variables.  A step is the code between two points where another thread  *)
(* can act: a critical section that touches only the queue is one step,    *)
(* every access to an atomic is a step of its own, and so is the gap       *)
(* between a wait's predicate and the moment the thread really blocks.     *)
(***************************************************************************)
EXTENDS Integers, Sequences, FiniteSets, SequencesExt

CONSTANTS
  Workers,        \* the threads the constructor starts
  Clients,        \* the threads that submit tasks; a worker is one of them
                  \* while it is inside a task's function
  Getters,        \* the clients that may call get() on a future
  Main,           \* the client that also calls join_all_thread
  NormalTasks,    \* calls of add_normal_task, each made at most once
  CriticalTasks,  \* calls of add_critical_task, each made at most once
  JoinArgs,       \* the values of WaitForAll that Main passes
  NoTask,         \* an stThreadPoolInfo whose pFuncPtr is null
  NoThread        \* the owner of a free mutex

Tasks == NormalTasks \cup CriticalTasks

ASSUME PoolAssumption ==
  /\ IsFiniteSet(Workers) /\ IsFiniteSet(Clients)
  /\ Main \in Clients \ Workers
  /\ Getters \subseteq Clients
  /\ NormalTasks \cap CriticalTasks = {}
  /\ NoTask \notin Tasks
  /\ NoThread \notin Workers
  /\ JoinArgs \subseteq BOOLEAN

VARIABLES
  task_queue,     \* _task_queue
  jobs_left,      \* _jobs_left
  bailout,        \* _bailout
  finished,       \* _finished
  queue_mutex,    \* the worker inside next_task's critical section
  wpc,            \* where each worker is in execute_task / next_task
  task,           \* the worker's local stInfo
  cpc,            \* where each client is
  adding,         \* the task of the add_*_task call a client is inside, or
                  \* the one whose future it waits for
  ticket,         \* history: the position of a task in submission order
  issued,         \* history: how many tasks were ever queued
  ran,            \* history: the tasks whose function has returned
  owed            \* history: the tasks whose add_*_task had returned when
                  \* join_all_thread(true) was called

program == <<task_queue, jobs_left, bailout, finished, queue_mutex>>
threads == <<wpc, task, cpc, adding>>
history == <<ticket, issued, ran, owed>>
vars == <<program, threads, history>>

WorkerPC == {"loop", "lock", "block", "waiting", "take", "run", "dec",
             "notify", "exited"}
AddPC    == {"idle", "count", "signal", "get"}
JoinPC   == {"check", "pred", "block", "blocked", "bail", "wake", "join"}

Priority(t) == IF t \in CriticalTasks THEN 2 ELSE 1

Submitted == {t \in Tasks : ticket[t] > 0}
Queued    == ToSet(task_queue)
Running   == {task[w] : w \in {v \in Workers : wpc[v] = "run"}} \ {NoTask}

(* Tasks whose add_*_task call has returned a future to its caller.        *)
Accepted  == Submitted \ {adding[c] : c \in {d \in Clients : cpc[d] # "get"}}

Init ==
  /\ task_queue = <<>> /\ jobs_left = 0
  /\ bailout = FALSE /\ finished = FALSE
  /\ queue_mutex = NoThread
  /\ wpc = [w \in Workers |-> "loop"]
  /\ task = [w \in Workers |-> NoTask]
  /\ cpc = [c \in Clients |-> "idle"]
  /\ adding = [c \in Clients |-> NoTask]
  /\ ticket = [t \in Tasks |-> 0] /\ issued = 0
  /\ ran = {} /\ owed = {}

GoWorker(w, from, to) == wpc[w] = from /\ wpc' = [wpc EXCEPT ![w] = to]
GoClient(c, from, to) == cpc[c] = from /\ cpc' = [cpc EXCEPT ![c] = to]

-----------------------------------------------------------------------------
(* add_normal_task and add_critical_task.                                  *)

(* Mutant of UpperBound: std::lower_bound.                                 *)
LowerBound(q, t, i) ==
  /\ \A k \in 1 .. i-1 : Priority(q[k]) > Priority(t)
  /\ i <= Len(q) => Priority(t) >= Priority(q[i])

(* std::upper_bound under the comparison a.nPriority > b.nPriority.        *)
UpperBound(q, t, i) ==
  /\ \A k \in 1 .. i-1 : Priority(q[k]) >= Priority(t)
  /\ i <= Len(q) => Priority(t) > Priority(q[i])

(* Joining is the end of the pool's life for the thread that joins it:     *)
(* "the pool can no longer be used".  The other clients may not know.  A   *)
(* worker submits from inside the function it is running.                  *)
MayAdd(c) ==
  /\ c = Main => ~bailout
  /\ c \in Workers => wpc[c] = "run" /\ task[c] # NoTask

AddTask(c, t) ==
  /\ GoClient(c, "idle", "count")
  /\ MayAdd(c)
  /\ t \notin Submitted
  /\ queue_mutex = NoThread
  /\ \E i \in 1 .. Len(task_queue) + 1 :
       /\ UpperBound(task_queue, t, i)
       /\ task_queue' = InsertAt(task_queue, i, t)
  /\ adding' = [adding EXCEPT ![c] = t]
  /\ issued' = issued + 1
  /\ ticket' = [ticket EXCEPT ![t] = issued + 1]
  /\ UNCHANGED <<jobs_left, bailout, finished, queue_mutex, wpc, task, ran, owed>>

(* ++_jobs_left, after the lock_guard's scope has closed.                  *)
CountTask(c) ==
  /\ GoClient(c, "count", "signal")
  /\ jobs_left' = jobs_left + 1
  /\ UNCHANGED <<task_queue, bailout, finished, queue_mutex, wpc, task, adding, history>>

(* What the caller does with the future: drop it, or wait for its result,  *)
(* as "auto result = add_normal_task(...); result.get()" does.             *)
KeepFuture(c) ==
  \/ GoClient(c, "signal", "idle") /\ adding' = [adding EXCEPT ![c] = NoTask]
  \/ c \in Getters /\ GoClient(c, "signal", "get") /\ UNCHANGED adding

(* Mutant of SignalTask: the notification is forgotten.                    *)
ReturnSilently(c) ==
  /\ KeepFuture(c)
  /\ UNCHANGED <<program, wpc, task, history>>

(* _job_available_var.notify_one() and return of the future.               *)
SignalTask(c) ==
  /\ KeepFuture(c)
  /\ IF \E w \in Workers : wpc[w] = "waiting"
     THEN \E w \in Workers : GoWorker(w, "waiting", "lock")
     ELSE UNCHANGED wpc
  /\ UNCHANGED <<program, task, history>>

(* get() returns when the packaged_task has stored its result.             *)
GetResult(c) ==
  /\ GoClient(c, "get", "idle")
  /\ adding[c] \in ran
  /\ adding' = [adding EXCEPT ![c] = NoTask]
  /\ UNCHANGED <<program, wpc, task, history>>

-----------------------------------------------------------------------------
(* execute_task and next_task.                                             *)

(* while ( !_bailout ) { stThreadPoolInfo stInfo; ...                      *)
TestBailout(w) ==
  /\ GoWorker(w, "loop", IF bailout THEN "exited" ELSE "lock")
  /\ task' = [task EXCEPT ![w] = NoTask]
  /\ UNCHANGED <<program, cpc, adding, history>>

(* Take _queue_mutex and evaluate the wait's predicate.  The mutex stays   *)
(* with the worker on both outcomes.                                       *)
AwaitTask(w) ==
  /\ GoWorker(w, "lock", IF task_queue # <<>> \/ bailout THEN "take" ELSE "block")
  /\ queue_mutex = NoThread
  /\ queue_mutex' = w
  /\ UNCHANGED <<task_queue, jobs_left, bailout, finished, task, cpc, adding, history>>

(* The predicate was false: release the mutex and block, atomically.       *)
BlockWorker(w) ==
  /\ GoWorker(w, "block", "waiting")
  /\ queue_mutex' = NoThread
  /\ UNCHANGED <<task_queue, jobs_left, bailout, finished, task, cpc, adding, history>>

(* Mutant of SpuriousWakeWorker: a wait without a predicate.               *)
WakeWithoutRecheck(w) ==
  /\ GoWorker(w, "waiting", "take")
  /\ queue_mutex = NoThread /\ queue_mutex' = w
  /\ UNCHANGED <<task_queue, jobs_left, bailout, finished, task, cpc, adding, history>>

(* A wait may return without a notification.                               *)
SpuriousWakeWorker(w) ==
  /\ GoWorker(w, "waiting", "lock")
  /\ UNCHANGED <<program, task, cpc, adding, history>>

(* Mutant of TakeTask: pop_front() is forgotten.                           *)
PeekTask(w) ==
  /\ GoWorker(w, "take", "run")
  /\ queue_mutex' = NoThread
  /\ task' = [task EXCEPT ![w] = IF bailout THEN @ ELSE Head(task_queue)]
  /\ UNCHANGED <<task_queue, jobs_left, bailout, finished, cpc, adding, history>>

(* if ( !_bailout ) pop the front; the mutex is released on return.        *)
TakeTask(w) ==
  /\ GoWorker(w, "take", "run")
  /\ queue_mutex' = NoThread
  /\ IF bailout
     THEN UNCHANGED <<task_queue, task>>
     ELSE /\ task' = [task EXCEPT ![w] = Head(task_queue)]
          /\ task_queue' = Tail(task_queue)
  /\ UNCHANGED <<jobs_left, bailout, finished, cpc, adding, history>>

(* A function that submits tasks returns from those calls first.           *)
Returned(w) == w \in Clients => cpc[w] = "idle"

(* Mutant of RunTask: the null check is dropped.                           *)
RunUnchecked(w) ==
  /\ GoWorker(w, "run", "dec")
  /\ Returned(w)
  /\ ran' = ran \cup {task[w]}
  /\ UNCHANGED <<program, task, cpc, adding, ticket, issued, owed>>

(* if ( stInfo.pFuncPtr ) stInfo.pFuncPtr();  the call returns: the        *)
(* packaged_task has stored its result or exception in the future.         *)
RunTask(w) ==
  /\ GoWorker(w, "run", "dec")
  /\ Returned(w)
  /\ ran' = ran \cup ({task[w]} \ {NoTask})
  /\ UNCHANGED <<program, task, cpc, adding, ticket, issued, owed>>

(* Mutant of UncountTask: the decrement is forgotten.                      *)
KeepCount(w) ==
  /\ GoWorker(w, "dec", "notify")
  /\ UNCHANGED <<program, task, cpc, adding, history>>

(* --_jobs_left, with or without a task.                                   *)
UncountTask(w) ==
  /\ GoWorker(w, "dec", "notify")
  /\ jobs_left' = jobs_left - 1
  /\ UNCHANGED <<task_queue, bailout, finished, queue_mutex, task, cpc, adding, history>>

(* _wait_var.notify_one(), without _wait_mutex.  Main is the only thread   *)
(* that ever waits on _wait_var or takes _wait_mutex.                      *)
NotifyJoiner(w) ==
  /\ GoWorker(w, "notify", "loop")
  /\ IF cpc[Main] = "blocked"
     THEN cpc' = [cpc EXCEPT ![Main] = "pred"]
     ELSE UNCHANGED cpc
  /\ UNCHANGED <<program, task, adding, history>>

-----------------------------------------------------------------------------
(* join_all_thread and wait_all.  ~ThreadPool is join_all_thread(true).    *)

JoinAllThread(wait) ==
  /\ GoClient(Main, "idle", IF ~finished /\ wait THEN "check" ELSE "bail")
  /\ owed' = IF ~finished /\ wait THEN Accepted ELSE owed
  /\ UNCHANGED <<program, wpc, task, adding, ticket, issued, ran>>

(* Mutant of WaitAll: off by one.                                          *)
WaitUnlessOneLeft ==
  /\ GoClient(Main, "check", IF jobs_left > 1 THEN "pred" ELSE "bail")
  /\ UNCHANGED <<program, wpc, task, adding, history>>

(* wait_all: if ( _jobs_left > 0 ) lock _wait_mutex.                       *)
WaitAll ==
  /\ GoClient(Main, "check", IF jobs_left > 0 THEN "pred" ELSE "bail")
  /\ UNCHANGED <<program, wpc, task, adding, history>>

(* The predicate of _wait_var.wait: 0 == _jobs_left.                       *)
TestDrained ==
  /\ GoClient(Main, "pred", IF jobs_left = 0 THEN "bail" ELSE "block")
  /\ UNCHANGED <<program, wpc, task, adding, history>>

BlockJoiner ==
  /\ GoClient(Main, "block", "blocked")
  /\ UNCHANGED <<program, wpc, task, adding, history>>

SpuriousWakeJoiner ==
  /\ GoClient(Main, "blocked", "pred")
  /\ UNCHANGED <<program, wpc, task, adding, history>>

(* _bailout = true, without _queue_mutex.                                  *)
SetBailout ==
  /\ GoClient(Main, "bail", "wake")
  /\ bailout' = TRUE
  /\ UNCHANGED <<task_queue, jobs_left, finished, queue_mutex, wpc, task, adding, history>>

(* _job_available_var.notify_all().                                        *)
WakeAll ==
  /\ GoClient(Main, "wake", "join")
  /\ wpc' = [w \in Workers |-> IF wpc[w] = "waiting" THEN "lock" ELSE wpc[w]]
  /\ UNCHANGED <<program, task, adding, history>>

(* The loop of x.join(), then _finished = true.                            *)
JoinThreads ==
  /\ GoClient(Main, "join", "idle")
  /\ \A w \in Workers : wpc[w] = "exited"
  /\ finished' = TRUE
  /\ UNCHANGED <<task_queue, jobs_left, bailout, queue_mutex, wpc, task, adding, history>>

-----------------------------------------------------------------------------
WorkerStep(w) == \/ TestBailout(w) \/ BlockWorker(w) \/ TakeTask(w)
                 \/ RunTask(w) \/ UncountTask(w) \/ NotifyJoiner(w)

AddStep(c) == CountTask(c) \/ SignalTask(c) \/ GetResult(c)

JoinStep == \/ WaitAll \/ TestDrained \/ BlockJoiner
            \/ SetBailout \/ WakeAll \/ JoinThreads

Next ==
  \/ \E c \in Clients : AddStep(c) \/ \E t \in Tasks : AddTask(c, t)
  \/ \E w \in Workers : WorkerStep(w) \/ AwaitTask(w) \/ SpuriousWakeWorker(w)
  \/ \E wait \in JoinArgs : JoinAllThread(wait)
  \/ JoinStep \/ SpuriousWakeJoiner

Spec == Init /\ [][Next]_vars

(* The operating system runs every thread, a task's function returns, and  *)
(* a thread that keeps asking for the mutex gets it.  Nobody is obliged to *)
(* submit a task, to join the pool, or to wake up without a notification.  *)
Fairness ==
  /\ \A w \in Workers : WF_vars(WorkerStep(w)) /\ SF_vars(AwaitTask(w))
  /\ \A c \in Clients : WF_vars(AddStep(c))
  /\ WF_vars(JoinStep)

FairSpec == Spec /\ Fairness

-----------------------------------------------------------------------------
(* Types of the pool's state.                                              *)
TypeOK ==
  /\ task_queue \in Seq(Tasks) /\ jobs_left \in Int
  /\ bailout \in BOOLEAN /\ finished \in BOOLEAN
  /\ queue_mutex \in Workers \cup {NoThread}
  /\ wpc \in [Workers -> WorkerPC] /\ task \in [Workers -> Tasks \cup {NoTask}]
  /\ cpc \in [Clients -> AddPC \cup JoinPC]
  /\ \A c \in Clients \ {Main} : cpc[c] \in AddPC
  /\ adding \in [Clients -> Tasks \cup {NoTask}]
  /\ ticket \in [Tasks -> Nat] /\ issued \in Nat
  /\ ran \subseteq Tasks /\ owed \subseteq Tasks

Busy      == {w \in Workers : wpc[w] \in {"run", "dec"}}
Uncounted == {c \in Clients : cpc[c] = "count"}

(* Until the pool is told to stop, _jobs_left is the number of tasks that  *)
(* are queued or being run, less the submissions that have queued their    *)
(* task and not yet counted it: lines 142-149 and 216 update the queue and *)
(* the counter in separate steps of different threads.                     *)
CounterAccounting ==
  ~bailout => jobs_left = Len(task_queue) + Cardinality(Busy) - Cardinality(Uncounted)

(* next_task never calls front() on an empty list (lines 231-234), although *)
(* _bailout is set without the mutex and read twice.                       *)
NoPopFromEmptyQueue ==
  \A w \in Workers : wpc[w] = "take" /\ ~bailout => task_queue # <<>>

(* A submitted task is in exactly one place: once in the queue, with one   *)
(* worker, or finished; no interleaving of add_*_task, next_task and       *)
(* join_all_thread loses it or hands it out twice.                         *)
TaskConservation ==
  /\ \A i, j \in 1 .. Len(task_queue) : task_queue[i] = task_queue[j] => i = j
  /\ \A v, w \in Workers :
       wpc[v] = "run" /\ wpc[w] = "run" /\ task[v] = task[w] /\ task[v] # NoTask => v = w
  /\ Queued \cap Running = {} /\ Queued \cap ran = {} /\ Running \cap ran = {}
  /\ Submitted = Queued \cup Running \cup ran

(* No worker sleeps while there are more tasks queued than workers on      *)
(* their way to the queue and submitters about to notify: neither the      *)
(* notification after the unlock (line 150) nor a worker that finds the    *)
(* queue already emptied by another loses a wakeup (lines 226-230).        *)
Coming    == {w \in Workers : wpc[w] \in {"lock", "take"}}
Notifying == {c \in Clients : cpc[c] \in {"count", "signal"}}
NoIdleWorker ==
  ~bailout /\ (\E w \in Workers : wpc[w] = "waiting") =>
    Len(task_queue) <= Cardinality(Coming) + Cardinality(Notifying)

(* Every task whose submission had returned when join_all_thread(true) was *)
(* called has run by the time wait_all lets it go on (lines 107-114).      *)
AcceptedRunBeforeJoin ==
  cpc[Main] \in {"bail", "wake", "join"} \/ finished => owed \subseteq ran

(* "The queue will be empty after this call, and the threads will be done" *)
(* (lines 100-101).                                                        *)
QueueEmptyAfterJoin == finished => task_queue = <<>> /\ Running = {}

(* The pool starts and finishes tasks as PriorityService allows.           *)
Service == INSTANCE PriorityService
             WITH pending <- Queued, running <- Running, done <- ran
ServiceSpec == Service!Spec

(* Mutexes, wakeups and the two reads of _bailout do not show: to its      *)
(* users the pool is TaskPool.                                             *)
Holding == [w \in Workers |-> IF wpc[w] \in {"run", "dec"} THEN task[w] ELSE NoTask]
Leaving == IF bailout THEN {w \in Workers : wpc[w] \in {"notify", "loop", "exited"}} ELSE {}
Joining == CASE cpc[Main] \in AddPC                        -> "no"
             [] cpc[Main] = "check"                        -> "check"
             [] cpc[Main] \in {"pred", "block", "blocked"} -> "wait"
             [] cpc[Main] = "bail"                         -> "bail"
             [] cpc[Main] \in {"wake", "join"}             -> "join"
Reduced == INSTANCE TaskPool WITH
  counting <- Uncounted, running <- Holding, left <- Leaving, join <- Joining
ReducedSpec == Reduced!Spec

(* The same two promises where tasks submit tasks.  The counter then can   *)
(* reach 0 while a function is still in its add_*_task call; but the queue *)
(* is empty when wait_all returns, and what was accepted before the join   *)
(* has run when the workers have been joined.                              *)
AcceptedRunByJoin == finished => owed \subseteq ran

WaitsForEmptyQueue ==
  [][cpc[Main] \in {"check", "pred"} /\ cpc'[Main] = "bail" => task_queue = <<>>]_vars

(* Workers wait in get() for results that no worker is left to produce:    *)
(* each has exited or waits, in its turn, for a future of its own.         *)
InGet(w) == w \in Clients /\ cpc[w] = "get" /\ adding[w] \notin ran
Starved ==
  /\ \E w \in Workers : InGet(w)
  /\ \A w \in Workers : wpc[w] = "exited" \/ InGet(w)

(* No interleaving of notify_one with the workers' waits leaves a task     *)
(* behind (lines 142-150, 226-230): every submitted task runs, unless the  *)
(* workers starve or it was submitted after the join began and the pool    *)
(* is told to stop.                                                        *)
EveryTaskRuns ==
  \A t \in Tasks :
    t \in Submitted ~> t \in ran \/ Starved \/ (bailout /\ t \notin owed)

(* The two states in which the join is stuck with idle workers: Main went  *)
(* to sleep after the last decrement and its notification, or a worker did *)
(* after _bailout and notify_all.                                          *)
DrainSignalLost ==
  cpc[Main] = "blocked" /\ jobs_left = 0 /\ \A w \in Workers : wpc[w] # "notify"
BailoutSignalLost ==
  cpc[Main] = "join" /\ \E w \in Workers : wpc[w] = "waiting"

(* join_all_thread returns unless one of those two wakeups is lost or the  *)
(* workers starve.                                                         *)
JoinReturnsUnlessStuck ==
  cpc[Main] \in JoinPC ~> finished \/ DrainSignalLost \/ BailoutSignalLost \/ Starved

(* "wake up any thread that's waiting for a new job" (lines 112-113): past *)
(* notify_all, no worker stays asleep.                                     *)
BailoutWakesWorkers ==
  \A w \in Workers : (cpc[Main] = "join" /\ wpc[w] = "waiting") ~> wpc[w] # "waiting"
=============================================================================
