------------------------------ MODULE TaskPool ------------------------------
(***************************************************************************)
(* The thread pool as its users meet it: the queue, the counter, the flags *)
(* and who is inside which call, without the mutexes, the condition        *)
(* variables and the way of a thread through the code.  ThreadPool has     *)
(* those and implements this module; EventBus is built on this module.     *)
(***************************************************************************)
EXTENDS Integers, Sequences, SequencesExt

CONSTANTS Workers, Clients, Tasks, CriticalTasks, NoTask

VARIABLES
  task_queue,  \* _task_queue
  jobs_left,   \* _jobs_left
  bailout,     \* _bailout
  finished,    \* _finished
  counting,    \* the clients that have queued a task and not counted it yet
  running,     \* of each worker: the task it has taken and not counted off
  left,        \* the workers that go round their loop no more
  join         \* where the thread is that calls join_all_thread

vars == <<task_queue, jobs_left, bailout, finished, counting, running, left, join>>

Init ==
  /\ task_queue = <<>> /\ jobs_left = 0 /\ counting = {}
  /\ bailout = FALSE /\ finished = FALSE /\ join = "no"
  /\ running = [w \in Workers |-> NoTask] /\ left = {}

(* The comparison of add_*_task, by which upper_bound finds the place.     *)
Outranks(t, u) == t \in CriticalTasks /\ u \notin CriticalTasks

(* add_normal_task and add_critical_task: the insertion ...                *)
Insert(c, t) ==
  /\ c \notin counting /\ counting' = counting \cup {c}
  /\ \E i \in 1 .. Len(task_queue) + 1 :
       /\ \A k \in 1 .. i - 1 : ~Outranks(t, task_queue[k])
       /\ i <= Len(task_queue) => Outranks(t, task_queue[i])
       /\ task_queue' = InsertAt(task_queue, i, t)
  /\ UNCHANGED <<jobs_left, bailout, finished, running, left, join>>

(* ... and ++_jobs_left.                                                   *)
Count(c) ==
  /\ c \in counting /\ counting' = counting \ {c}
  /\ jobs_left' = jobs_left + 1
  /\ UNCHANGED <<task_queue, bailout, finished, running, left, join>>

(* next_task while the pool is not told to stop.                           *)
Take(w) ==
  /\ running[w] = NoTask /\ task_queue # <<>> /\ ~bailout
  /\ running' = [running EXCEPT ![w] = Head(task_queue)]
  /\ task_queue' = Tail(task_queue)
  /\ UNCHANGED <<jobs_left, bailout, finished, counting, left, join>>

(* The task's function has returned; --_jobs_left.  The next test of       *)
(* _bailout is the last if it is set.                                      *)
CountOff(w) ==
  /\ running[w] # NoTask /\ running' = [running EXCEPT ![w] = NoTask]
  /\ jobs_left' = jobs_left - 1
  /\ left' = IF bailout THEN left \cup {w} ELSE left
  /\ UNCHANGED <<task_queue, bailout, finished, counting, join>>

(* A worker that the stop finds in next_task returns from it with nothing, *)
(* and counts that off too.                                                *)
CountOffNothing(w) ==
  /\ bailout /\ running[w] = NoTask /\ w \notin left
  /\ jobs_left' = jobs_left - 1
  /\ left' = left \cup {w}
  /\ UNCHANGED <<task_queue, bailout, finished, counting, running, join>>

Jump(from, to) == join = from /\ join' = to

JoinAllThread(wait) ==
  /\ Jump("no", IF ~finished /\ wait THEN "check" ELSE "bail")
  /\ UNCHANGED <<task_queue, jobs_left, bailout, finished, counting, running, left>>

(* Mutant of WaitAll: off by one.                                          *)
WaitUnlessOneLeft ==
  /\ Jump("check", IF jobs_left > 1 THEN "wait" ELSE "bail")
  /\ UNCHANGED <<task_queue, jobs_left, bailout, finished, counting, running, left>>

(* wait_all: the test, and the end of the wait.                            *)
WaitAll ==
  /\ Jump("check", IF jobs_left > 0 THEN "wait" ELSE "bail")
  /\ UNCHANGED <<task_queue, jobs_left, bailout, finished, counting, running, left>>

Drained ==
  /\ Jump("wait", "bail") /\ jobs_left = 0
  /\ UNCHANGED <<task_queue, jobs_left, bailout, finished, counting, running, left>>

(* _bailout = true: an idle worker may be anywhere in its loop.            *)
SetBailout ==
  /\ Jump("bail", "join")
  /\ bailout' = TRUE
  /\ left' \in IF bailout THEN {left} ELSE SUBSET {w \in Workers : running[w] = NoTask}
  /\ UNCHANGED <<task_queue, jobs_left, finished, counting, running>>

JoinThreads ==
  /\ Jump("join", "no") /\ left = Workers
  /\ finished' = TRUE
  /\ UNCHANGED <<task_queue, jobs_left, bailout, counting, running, left>>

Next ==
  \/ \E c \in Clients : Count(c) \/ \E t \in Tasks : Insert(c, t)
  \/ \E w \in Workers : Take(w) \/ CountOff(w) \/ CountOffNothing(w)
  \/ \E wait \in BOOLEAN : JoinAllThread(wait)
  \/ WaitAll \/ Drained \/ SetBailout \/ JoinThreads

Spec == Init /\ [][Next]_vars
=============================================================================
