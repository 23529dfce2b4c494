-------------------------- MODULE ThreadPoolProofs --------------------------
(***************************************************************************)
(* Theorems about ThreadPool for any sets of workers, clients and tasks.   *)
(***************************************************************************)
EXTENDS ThreadPool, QueueLemmas

-----------------------------------------------------------------------------
(* Type correctness, with what it needs: who owns the mutex, and that the  *)
(* queue is not empty when a worker is about to pop it.                    *)

MutexInv == \A w \in Workers : wpc[w] \in {"take", "block"} <=> queue_mutex = w

SafeInv == TypeOK /\ MutexInv /\ NoPopFromEmptyQueue

LEMMA SafeInvInit == Init => SafeInv
<1> SUFFICES ASSUME Init PROVE SafeInv
  OBVIOUS
<1>1. TypeOK
  <2>0. task_queue \in Seq(Tasks)
    BY EmptySeq DEF Init
  <2>1. /\ jobs_left \in Int /\ issued \in Nat
        /\ queue_mutex \in Workers \cup {NoThread}
        /\ ran \subseteq Tasks /\ owed \subseteq Tasks
    BY SMT DEF Init
  <2>3. bailout \in BOOLEAN /\ finished \in BOOLEAN
    BY Zenon DEF Init
  <2>2. /\ wpc \in [Workers -> WorkerPC] /\ task \in [Workers -> Tasks \cup {NoTask}]
        /\ cpc \in [Clients -> AddPC \cup JoinPC] /\ \A c \in Clients : cpc[c] \in AddPC
        /\ adding \in [Clients -> Tasks \cup {NoTask}]
        /\ ticket \in [Tasks -> Nat]
    BY DEF Init, WorkerPC, AddPC
  <2> QED  BY <2>0, <2>1, <2>2, <2>3 DEF TypeOK
<1>2. MutexInv /\ NoPopFromEmptyQueue
  BY PoolAssumption DEF Init, MutexInv, NoPopFromEmptyQueue
<1> QED  BY <1>1, <1>2 DEF SafeInv

LEMMA SafeInvStep == SafeInv /\ [Next]_vars => SafeInv'
<1> SUFFICES ASSUME SafeInv, [Next]_vars PROVE SafeInv'
  OBVIOUS
<1> USE PoolAssumption DEF SafeInv, TypeOK, MutexInv, NoPopFromEmptyQueue,
        WorkerPC, AddPC, JoinPC, GoWorker, GoClient, program, threads, history
<1>1. ASSUME NEW c \in Clients, NEW t \in Tasks, AddTask(c, t)  PROVE SafeInv'
  <2>1. PICK i \in 1 .. Len(task_queue) + 1 : task_queue' = InsertAt(task_queue, i, t)
    BY <1>1 DEF AddTask
  <2>2. task_queue' \in Seq(Tasks) /\ task_queue' # <<>>
    <3>1. task_queue' \in Seq(Tasks) /\ Len(task_queue') = Len(task_queue) + 1
      BY <2>1, InsertAtProperties
    <3> QED  BY <3>1
  <2> QED  BY <1>1, <2>2 DEF AddTask
<1>2. ASSUME NEW c \in Clients, CountTask(c)  PROVE SafeInv'
  BY <1>2 DEF CountTask
<1>3. ASSUME NEW c \in Clients, SignalTask(c)  PROVE SafeInv'
  <2>1. /\ wpc' \in [Workers -> WorkerPC]
        /\ \A w \in Workers : wpc'[w] \in {"take", "block"} <=> wpc[w] \in {"take", "block"}
        /\ \A w \in Workers : wpc'[w] = "take" => wpc[w] = "take"
    BY <1>3, ZenonT(60) DEF SignalTask
  <2>2. /\ cpc' \in [Clients -> AddPC \cup JoinPC]
        /\ \A d \in Clients \ {Main} : cpc'[d] \in AddPC
        /\ adding' \in [Clients -> Tasks \cup {NoTask}]
    BY <1>3 DEF SignalTask, KeepFuture
  <2>3. UNCHANGED <<program, task, history>>
    BY <1>3 DEF SignalTask
  <2> QED  BY <2>1, <2>2, <2>3
<1>4. ASSUME NEW w \in Workers, TestBailout(w)  PROVE SafeInv'
  BY <1>4 DEF TestBailout
<1>5. ASSUME NEW w \in Workers, AwaitTask(w)  PROVE SafeInv'
  BY <1>5 DEF AwaitTask
<1>6. ASSUME NEW w \in Workers, BlockWorker(w)  PROVE SafeInv'
  BY <1>6 DEF BlockWorker
<1>7. ASSUME NEW w \in Workers, SpuriousWakeWorker(w)  PROVE SafeInv'
  BY <1>7 DEF SpuriousWakeWorker
<1>16. ASSUME NEW c \in Clients, GetResult(c)  PROVE SafeInv'
  BY <1>16 DEF GetResult
<1>8. ASSUME NEW w \in Workers, TakeTask(w)  PROVE SafeInv'
  <2>1. ~bailout => Head(task_queue) \in Tasks /\ Tail(task_queue) \in Seq(Tasks)
    BY <1>8 DEF TakeTask
  <2>2. \A v \in Workers \ {w} : wpc[v] \notin {"take", "block"}
    BY <1>8 DEF TakeTask
  <2>3. TypeOK'
    BY <1>8, <2>1, ZenonT(60) DEF TakeTask
  <2>4. MutexInv' /\ NoPopFromEmptyQueue'
    BY <1>8, <2>2 DEF TakeTask
  <2> QED  BY <2>3, <2>4
<1>9. ASSUME NEW w \in Workers, RunTask(w)  PROVE SafeInv'
  BY <1>9 DEF RunTask
<1>10. ASSUME NEW w \in Workers, UncountTask(w)  PROVE SafeInv'
  BY <1>10 DEF UncountTask
<1>11. ASSUME NEW w \in Workers, NotifyJoiner(w)  PROVE SafeInv'
  BY <1>11 DEF NotifyJoiner
<1>12. ASSUME NEW wait \in JoinArgs, JoinAllThread(wait)  PROVE SafeInv'
  BY <1>12 DEF JoinAllThread, Accepted, Submitted
<1>13. ASSUME WaitAll \/ TestDrained \/ BlockJoiner \/ SpuriousWakeJoiner  PROVE SafeInv'
  BY <1>13, ZenonT(60) DEF WaitAll, TestDrained, BlockJoiner, SpuriousWakeJoiner
<1>14. ASSUME SetBailout \/ WakeAll \/ JoinThreads  PROVE SafeInv'
  <2>1. CASE SetBailout  BY <2>1 DEF SetBailout
  <2>2. CASE WakeAll  BY <2>2 DEF WakeAll
  <2>3. CASE JoinThreads  BY <2>3 DEF JoinThreads
  <2> QED  BY <1>14, <2>1, <2>2, <2>3
<1>15. CASE UNCHANGED vars
  BY <1>15 DEF vars
<1> QED
  BY <1>1, <1>2, <1>3, <1>4, <1>5, <1>6, <1>7, <1>8, <1>9, <1>10, <1>11, <1>12,
     <1>13, <1>14, <1>15, <1>16 DEF Next, AddStep, WorkerStep, JoinStep

(* The state stays within its types: in particular what next_task hands    *)
(* out is always a submitted task or the null stThreadPoolInfo.            *)
THEOREM TypeCorrect == Spec => []TypeOK
<1>1. SafeInv => TypeOK
  BY DEF SafeInv
<1> QED  BY <1>1, SafeInvInit, SafeInvStep, PTL DEF Spec

(* No interleaving of the workers, the submitters and join_all_thread      *)
(* makes next_task pop an empty list.                                      *)
THEOREM PopIsSafe == Spec => []NoPopFromEmptyQueue
<1>1. SafeInv => NoPopFromEmptyQueue
  BY DEF SafeInv
<1> QED  BY <1>1, SafeInvInit, SafeInvStep, PTL DEF Spec

-----------------------------------------------------------------------------
(* The counter.                                                            *)

LEMMA FiniteCounts ==
  /\ IsFiniteSet(Busy) /\ Cardinality(Busy) \in Nat
  /\ IsFiniteSet(Uncounted) /\ Cardinality(Uncounted) \in Nat
<1>1. Busy \in SUBSET Workers /\ Uncounted \in SUBSET Clients
  BY DEF Busy, Uncounted
<1>2. IsFiniteSet(Busy) /\ IsFiniteSet(Uncounted)
  BY <1>1, PoolAssumption, FS_Subset
<1> QED  BY <1>2, FS_CardinalityType

LEMMA AccountingStep ==
  SafeInv /\ CounterAccounting /\ [Next]_vars => CounterAccounting'
<1> SUFFICES ASSUME SafeInv, CounterAccounting, [Next]_vars
             PROVE  CounterAccounting'
  OBVIOUS
<1> USE DEF GoWorker, GoClient, program, threads, history
<1>t. /\ task_queue \in Seq(Tasks) /\ jobs_left \in Int /\ Len(task_queue) \in Nat
      /\ wpc \in [Workers -> WorkerPC] /\ cpc \in [Clients -> AddPC \cup JoinPC]
      /\ Main \in Clients
  BY PoolAssumption DEF SafeInv, TypeOK
<1>f. /\ IsFiniteSet(Busy) /\ Cardinality(Busy) \in Nat
      /\ IsFiniteSet(Uncounted) /\ Cardinality(Uncounted) \in Nat
  BY FiniteCounts
<1>s. ASSUME Busy' = Busy, Uncounted' = Uncounted, jobs_left' = jobs_left,
             bailout' = bailout, task_queue' = task_queue
      PROVE  CounterAccounting'
  BY <1>s DEF CounterAccounting
<1>1. ASSUME NEW c \in Clients, NEW t \in Tasks, AddTask(c, t)  PROVE CounterAccounting'
  <2>1. PICK i \in 1 .. Len(task_queue) + 1 : task_queue' = InsertAt(task_queue, i, t)
    BY <1>1 DEF AddTask
  <2>2. Len(task_queue') = Len(task_queue) + 1
    BY <1>t, <2>1, InsertAtProperties
  <2>3. Busy' = Busy /\ Uncounted' = Uncounted \cup {c} /\ c \notin Uncounted
    BY <1>1, <1>t DEF AddTask, Busy, Uncounted
  <2>4. Cardinality(Uncounted') = Cardinality(Uncounted) + 1
    BY <2>3, <1>f, FS_AddElement
  <2>5. jobs_left' = jobs_left /\ bailout' = bailout
    BY <1>1 DEF AddTask
  <2> QED  BY <2>2, <2>3, <2>4, <2>5, <1>t, <1>f DEF CounterAccounting
<1>2. ASSUME NEW c \in Clients, CountTask(c)  PROVE CounterAccounting'
  <2>1. Busy' = Busy /\ Uncounted' = Uncounted \ {c} /\ c \in Uncounted
    BY <1>2, <1>t DEF CountTask, Busy, Uncounted
  <2>2. Cardinality(Uncounted') = Cardinality(Uncounted) - 1
    BY <2>1, <1>f, FS_RemoveElement
  <2>3. jobs_left' = jobs_left + 1 /\ bailout' = bailout /\ task_queue' = task_queue
    BY <1>2 DEF CountTask
  <2> QED  BY <2>1, <2>2, <2>3, <1>t, <1>f DEF CounterAccounting
<1>3. ASSUME NEW c \in Clients, SignalTask(c) \/ GetResult(c)  PROVE CounterAccounting'
  BY <1>3, <1>s, <1>t DEF SignalTask, KeepFuture, GetResult, Busy, Uncounted
<1>4. ASSUME NEW w \in Workers,
             TestBailout(w) \/ AwaitTask(w) \/ BlockWorker(w) \/ SpuriousWakeWorker(w)
      PROVE  CounterAccounting'
  BY <1>4, <1>s, <1>t DEF TestBailout, AwaitTask, BlockWorker, SpuriousWakeWorker,
                          Busy, Uncounted
<1>5. ASSUME NEW w \in Workers, TakeTask(w)  PROVE CounterAccounting'
  <2>1. CASE bailout
    BY <1>5, <2>1 DEF TakeTask, CounterAccounting
  <2>2. CASE ~bailout
    <3>1. Len(task_queue') = Len(task_queue) - 1
      BY <1>5, <2>2, <1>t DEF TakeTask, SafeInv, NoPopFromEmptyQueue
    <3>2. Busy' = Busy \cup {w} /\ w \notin Busy /\ Uncounted' = Uncounted
      BY <1>5, <1>t DEF TakeTask, Busy, Uncounted
    <3>3. Cardinality(Busy') = Cardinality(Busy) + 1
      BY <3>2, <1>f, FS_AddElement
    <3>4. jobs_left' = jobs_left /\ bailout' = bailout
      BY <1>5 DEF TakeTask
    <3> QED  BY <3>1, <3>2, <3>3, <3>4, <1>t, <1>f DEF CounterAccounting
  <2> QED  BY <2>1, <2>2
<1>6. ASSUME NEW w \in Workers, RunTask(w)  PROVE CounterAccounting'
  BY <1>6, <1>s, <1>t DEF RunTask, Busy, Uncounted
<1>7. ASSUME NEW w \in Workers, UncountTask(w)  PROVE CounterAccounting'
  <2>1. Busy' = Busy \ {w} /\ w \in Busy /\ Uncounted' = Uncounted
    BY <1>7, <1>t DEF UncountTask, Busy, Uncounted
  <2>2. Cardinality(Busy') = Cardinality(Busy) - 1
    BY <2>1, <1>f, FS_RemoveElement
  <2>3. jobs_left' = jobs_left - 1 /\ bailout' = bailout /\ task_queue' = task_queue
    BY <1>7 DEF UncountTask
  <2> QED  BY <2>1, <2>2, <2>3, <1>t, <1>f DEF CounterAccounting
<1>8. ASSUME NEW w \in Workers, NotifyJoiner(w)  PROVE CounterAccounting'
  BY <1>8, <1>s, <1>t DEF NotifyJoiner, Busy, Uncounted
<1>9. ASSUME NEW wait \in JoinArgs, JoinAllThread(wait)  PROVE CounterAccounting'
  BY <1>9, <1>s, <1>t DEF JoinAllThread, Busy, Uncounted
<1>10. ASSUME WaitAll \/ TestDrained \/ BlockJoiner \/ SpuriousWakeJoiner
       PROVE  CounterAccounting'
  BY <1>10, <1>s, <1>t DEF WaitAll, TestDrained, BlockJoiner, SpuriousWakeJoiner,
                           Busy, Uncounted
<1>11. CASE SetBailout
  BY <1>11 DEF SetBailout, CounterAccounting
<1>12. CASE WakeAll
  BY <1>12, <1>s, <1>t DEF WakeAll, Busy, Uncounted
<1>13. CASE JoinThreads
  BY <1>13, <1>s, <1>t DEF JoinThreads, Busy, Uncounted
<1>14. CASE UNCHANGED vars
  BY <1>14, <1>s DEF vars, Busy, Uncounted
<1> QED
  BY <1>1, <1>2, <1>3, <1>4, <1>5, <1>6, <1>7, <1>8, <1>9, <1>10, <1>11, <1>12,
     <1>13, <1>14 DEF Next, AddStep, WorkerStep, JoinStep

LEMMA AccountingInit == Init => CounterAccounting
<1> SUFFICES ASSUME Init PROVE CounterAccounting
  OBVIOUS
<1>1. Busy = {} /\ Uncounted = {}
  BY DEF Init, Busy, Uncounted
<1>2. Cardinality(Busy) = 0 /\ Cardinality(Uncounted) = 0
  BY <1>1, FS_EmptySet
<1>3. jobs_left = 0 /\ Len(task_queue) = 0
  BY DEF Init
<1> QED  BY <1>2, <1>3 DEF CounterAccounting

(* Until the pool is stopped, _jobs_left counts the queued and the running *)
(* tasks, short of the submissions still between lines 148 and 149.        *)
THEOREM CounterIsAccurate == Spec => []CounterAccounting
<1> QED
  BY SafeInvInit, SafeInvStep, AccountingInit, AccountingStep, PTL DEF Spec

-----------------------------------------------------------------------------
(* Where the tasks are.  Three kinds of step move a task; every other step *)
(* is quiet.                                                               *)

IdleInv == \A w \in Workers : wpc[w] \in {"lock", "block", "waiting", "take"} => task[w] = NoTask

PlaceInv == TaskConservation /\ IdleInv

Quiet ==
  /\ task_queue' = task_queue /\ ticket' = ticket /\ issued' = issued /\ ran' = ran
  /\ \A w \in Workers : wpc'[w] = "run" <=> wpc[w] = "run"
  /\ \A w \in Workers : wpc[w] = "run" => task'[w] = task[w]
  /\ IdleInv'

LEMMA StepKinds ==
  ASSUME SafeInv, IdleInv, [Next]_vars
  PROVE  \/ \E c \in Clients, t \in Tasks : AddTask(c, t)
         \/ \E w \in Workers : TakeTask(w) \/ RunTask(w)
         \/ Quiet
<1> USE DEF GoWorker, GoClient, program, threads, history
<1>t. /\ wpc \in [Workers -> WorkerPC] /\ task \in [Workers -> Tasks \cup {NoTask}]
      /\ cpc \in [Clients -> AddPC \cup JoinPC]
  BY DEF SafeInv, TypeOK
<1>1. ASSUME NEW c \in Clients, AddStep(c)  PROVE Quiet
  BY <1>1, <1>t DEF AddStep, CountTask, SignalTask, GetResult, Quiet, IdleInv
<1>2. ASSUME NEW w \in Workers,
             TestBailout(w) \/ AwaitTask(w) \/ BlockWorker(w) \/ SpuriousWakeWorker(w)
      PROVE  Quiet
  BY <1>2, <1>t DEF TestBailout, AwaitTask, BlockWorker, SpuriousWakeWorker, Quiet, IdleInv
<1>3. ASSUME NEW w \in Workers, UncountTask(w) \/ NotifyJoiner(w)  PROVE Quiet
  BY <1>3, <1>t DEF UncountTask, NotifyJoiner, Quiet, IdleInv
<1>4. ASSUME NEW wait \in JoinArgs, JoinAllThread(wait)  PROVE Quiet
  BY <1>4, <1>t DEF JoinAllThread, Quiet, IdleInv
<1>5. ASSUME WaitAll \/ TestDrained \/ BlockJoiner \/ SpuriousWakeJoiner \/ SetBailout
      PROVE  Quiet
  BY <1>5, <1>t DEF WaitAll, TestDrained, BlockJoiner, SpuriousWakeJoiner, SetBailout,
                    Quiet, IdleInv
<1>6. CASE WakeAll
  BY <1>6, <1>t DEF WakeAll, Quiet, IdleInv
<1>7. CASE JoinThreads
  BY <1>7, <1>t DEF JoinThreads, Quiet, IdleInv
<1>8. CASE UNCHANGED vars
  BY <1>8 DEF vars, Quiet, IdleInv
<1> QED
  BY <1>1, <1>2, <1>3, <1>4, <1>5, <1>6, <1>7, <1>8
     DEF Next, WorkerStep, JoinStep

LEMMA QuietEffect ==
  ASSUME Quiet
  PROVE  Queued' = Queued /\ Running' = Running /\ Submitted' = Submitted /\ ran' = ran
BY DEF Quiet, Queued, Running, Submitted

LEMMA AddTaskEffect ==
  ASSUME SafeInv, NEW c \in Clients, NEW t \in Tasks, AddTask(c, t)
  PROVE  /\ Queued' = Queued \cup {t} /\ t \notin Submitted
         /\ Submitted' = Submitted \cup {t}
         /\ Running' = Running /\ ran' = ran
<1>1. task_queue \in Seq(Tasks) /\ ticket \in [Tasks -> Nat] /\ issued \in Nat
  BY DEF SafeInv, TypeOK
<1>2. PICK i \in 1 .. Len(task_queue) + 1 : task_queue' = InsertAt(task_queue, i, t)
  BY DEF AddTask
<1>3. Queued' = Queued \cup {t}
  BY <1>1, <1>2, InsertAtToSet DEF Queued
<1>4. t \notin Submitted /\ Submitted' = Submitted \cup {t}
  BY <1>1 DEF AddTask, Submitted
<1>5. Running' = Running /\ ran' = ran
  BY DEF AddTask, Running
<1> QED  BY <1>3, <1>4, <1>5

LEMMA TakeTaskEffect ==
  ASSUME SafeInv, PlaceInv, NEW w \in Workers, TakeTask(w)
  PROVE  /\ Submitted' = Submitted /\ ran' = ran
         /\ bailout => Queued' = Queued /\ Running' = Running
         /\ ~bailout => /\ task_queue # <<>> /\ Head(task_queue) \in Queued
                        /\ Queued' = Queued \ {Head(task_queue)}
                        /\ Running' = Running \cup {Head(task_queue)}
<1> DEFINE h == Head(task_queue)
<1>1. /\ task_queue \in Seq(Tasks) /\ wpc \in [Workers -> WorkerPC]
      /\ task \in [Workers -> Tasks \cup {NoTask}]
      /\ wpc[w] = "take" /\ wpc' = [wpc EXCEPT ![w] = "run"]
  BY DEF SafeInv, TypeOK, TakeTask, GoWorker
<1>2. Submitted' = Submitted /\ ran' = ran
  BY DEF TakeTask, Submitted, history
<1>3. CASE bailout
  <2>1. task_queue' = task_queue /\ task' = task /\ task[w] = NoTask
    BY <1>1, <1>3 DEF TakeTask, PlaceInv, IdleInv
  <2> QED  BY <1>1, <1>2, <1>3, <2>1 DEF Queued, Running
<1>4. CASE ~bailout
  <2>1. task_queue # <<>> /\ task_queue' = Tail(task_queue) /\ task' = [task EXCEPT ![w] = h]
    BY <1>1, <1>4 DEF TakeTask, SafeInv, NoPopFromEmptyQueue
  <2>2. Queued = Queued' \cup {h} /\ h = task_queue[1]
    BY <1>1, <2>1, HeadTailToSet DEF Queued
  <2>3. h \notin Queued'
    <3>1. /\ Tail(task_queue) \in Seq(Tasks) /\ Len(Tail(task_queue)) = Len(task_queue) - 1
          /\ \A k \in 1 .. Len(task_queue) - 1 : Tail(task_queue)[k] = task_queue[k+1]
          /\ Len(task_queue) \in Nat \ {0}
      BY <1>1, <2>1, HeadTailProperties, EmptySeq
    <3>2. DOMAIN Tail(task_queue) = 1 .. Len(task_queue) - 1
      BY <3>1, LenProperties
    <3>3. SUFFICES ASSUME NEW k \in 1 .. Len(task_queue) - 1, Tail(task_queue)[k] = h
                   PROVE  FALSE
      BY <2>1, <3>2 DEF Queued, ToSet
    <3>4. task_queue[k+1] = task_queue[1] /\ k+1 \in 1 .. Len(task_queue)
          /\ 1 \in 1 .. Len(task_queue)
      BY <2>2, <3>1, <3>3
    <3> QED  BY <3>4 DEF PlaceInv, TaskConservation
  <2>4. h \in Tasks
    BY <1>1, <2>1, HeadTailProperties
  <2>5. Running' = Running \cup {h}
    <3>1. /\ \A v \in Workers : wpc'[v] = "run" <=> wpc[v] = "run" \/ v = w
          /\ \A v \in Workers \ {w} : task'[v] = task[v]
          /\ task'[w] = h /\ h # NoTask
      BY <1>1, <2>1, <2>4, PoolAssumption
    <3> QED  BY <1>1, <3>1 DEF Running
  <2> QED  BY <1>2, <1>4, <2>1, <2>2, <2>3, <2>5
<1> QED  BY <1>3, <1>4

LEMMA RunTaskEffect ==
  ASSUME SafeInv, PlaceInv, NEW w \in Workers, RunTask(w)
  PROVE  /\ Submitted' = Submitted /\ Queued' = Queued /\ task' = task
         /\ task[w] = NoTask => Running' = Running /\ ran' = ran
         /\ task[w] # NoTask => /\ task[w] \in Running
                                /\ Running' = Running \ {task[w]}
                                /\ ran' = ran \cup {task[w]}
<1>1. /\ wpc \in [Workers -> WorkerPC] /\ task \in [Workers -> Tasks \cup {NoTask}]
      /\ wpc[w] = "run" /\ wpc' = [wpc EXCEPT ![w] = "dec"]
      /\ task' = task /\ ran' = ran \cup ({task[w]} \ {NoTask})
      /\ Submitted' = Submitted /\ Queued' = Queued
  BY DEF SafeInv, TypeOK, RunTask, GoWorker, Submitted, Queued, program
<1>2. \A v \in Workers : wpc'[v] = "run" <=> wpc[v] = "run" /\ v # w
  BY <1>1
<1>3. \A v \in Workers :
        wpc[v] = "run" /\ task[v] = task[w] /\ task[v] # NoTask => v = w
  BY <1>1 DEF PlaceInv, TaskConservation
<1>4. task[w] = NoTask => Running' = Running
  BY <1>1, <1>2 DEF Running
<1>5. task[w] # NoTask => task[w] \in Running /\ Running' = Running \ {task[w]}
  BY <1>1, <1>2, <1>3 DEF Running
<1> QED  BY <1>1, <1>4, <1>5

LEMMA PlaceInvInit == Init => PlaceInv
<1> SUFFICES ASSUME Init PROVE PlaceInv
  OBVIOUS
<1>1. Queued = {} /\ Running = {} /\ ran = {} /\ Submitted = {} /\ Len(task_queue) = 0
  BY DEF Init, Queued, Running, Submitted, ToSet
<1>2. \A w \in Workers : wpc[w] # "run" /\ task[w] = NoTask
  BY DEF Init
<1> QED  BY <1>1, <1>2 DEF PlaceInv, TaskConservation, IdleInv

LEMMA PlaceInvStep == SafeInv /\ PlaceInv /\ [Next]_vars => PlaceInv'
<1> SUFFICES ASSUME SafeInv, PlaceInv, [Next]_vars PROVE PlaceInv'
  OBVIOUS
<1>t. /\ task_queue \in Seq(Tasks) /\ Len(task_queue) \in Nat
      /\ wpc \in [Workers -> WorkerPC] /\ task \in [Workers -> Tasks \cup {NoTask}]
      /\ DOMAIN task_queue = 1 .. Len(task_queue)
  BY LenProperties DEF SafeInv, TypeOK
<1>1. ASSUME NEW c \in Clients, NEW t \in Tasks, AddTask(c, t)  PROVE PlaceInv'
  <2>1. /\ Queued' = Queued \cup {t} /\ t \notin Submitted
        /\ Submitted' = Submitted \cup {t} /\ Running' = Running /\ ran' = ran
    BY <1>1, AddTaskEffect
  <2>2. PICK i \in 1 .. Len(task_queue) + 1 : task_queue' = InsertAt(task_queue, i, t)
    BY <1>1 DEF AddTask
  <2>3. /\ Len(task_queue') = Len(task_queue) + 1
        /\ \A k \in 1 .. Len(task_queue) + 1 :
             task_queue'[k] = IF k < i THEN task_queue[k]
                              ELSE IF k = i THEN t ELSE task_queue[k-1]
    <3> DEFINE r == InsertAt(task_queue, i, t)
    <3>1. /\ Len(r) = Len(task_queue) + 1
          /\ \A k \in 1 .. Len(task_queue) + 1 :
               r[k] = IF k < i THEN task_queue[k]
                      ELSE IF k = i THEN t ELSE task_queue[k-1]
      <4>1. task_queue \in Seq(Tasks) /\ t \in Tasks  BY <1>t
      <4> QED  BY ONLY <2>2, <4>1, InsertAtProperties, SMTT(60)
    <3> HIDE DEF r
    <3> QED  BY <2>2, <3>1 DEF r
  <2>4. \A k \in 1 .. Len(task_queue) : task_queue[k] # t
    BY <1>t, <2>1 DEF PlaceInv, TaskConservation, Queued, ToSet
  <2>5. \A j, k \in 1 .. Len(task_queue') : task_queue'[j] = task_queue'[k] => j = k
    <3> SUFFICES ASSUME NEW j \in 1 .. Len(task_queue) + 1, NEW k \in 1 .. Len(task_queue) + 1,
                        task_queue'[j] = task_queue'[k], j < k
                 PROVE  FALSE
      BY <1>t, <2>3
    <3>0. \A a, b \in 1 .. Len(task_queue) : task_queue[a] = task_queue[b] => a = b
      BY DEF PlaceInv, TaskConservation
    <3>1. CASE k < i  BY <1>t, <2>3, <3>0, <3>1
    <3>2. CASE k = i  BY <1>t, <2>3, <2>4, <3>2
    <3>3. CASE k > i /\ j < i
      <4>1. k-1 \in 1 .. Len(task_queue) /\ j \in 1 .. Len(task_queue) /\ k-1 # j
        BY <1>t, <3>3
      <4> QED  BY <1>t, <2>3, <3>0, <3>3, <4>1
    <3>4. CASE k > i /\ j = i
      <4>1. k-1 \in 1 .. Len(task_queue)  BY <1>t, <3>4
      <4> QED  BY <1>t, <2>3, <2>4, <3>4, <4>1
    <3>5. CASE k > i /\ j > i
      <4>1. k-1 \in 1 .. Len(task_queue) /\ j-1 \in 1 .. Len(task_queue)
        BY <1>t, <3>5
      <4> QED  BY <1>t, <2>3, <3>0, <3>5, <4>1
    <3> QED  BY <1>t, <3>1, <3>2, <3>3, <3>4, <3>5
  <2>6. wpc' = wpc /\ task' = task
    BY <1>1 DEF AddTask
  <2> QED  BY <2>1, <2>5, <2>6 DEF PlaceInv, TaskConservation, IdleInv
<1>2. ASSUME NEW w \in Workers, TakeTask(w)  PROVE PlaceInv'
  <2>1. /\ wpc[w] = "take" /\ wpc' = [wpc EXCEPT ![w] = "run"]
        /\ IF bailout THEN task_queue' = task_queue /\ task' = task
           ELSE task_queue' = Tail(task_queue) /\ task' = [task EXCEPT ![w] = Head(task_queue)]
    BY <1>2 DEF TakeTask, GoWorker
  <2>2. IdleInv'
    BY <1>t, <2>1 DEF PlaceInv, IdleInv
  <2>3. CASE bailout
    <3>1. /\ Submitted' = Submitted /\ ran' = ran /\ Queued' = Queued /\ Running' = Running
      BY <1>2, <2>3, TakeTaskEffect
    <3>2. task[w] = NoTask
      BY <2>1 DEF PlaceInv, IdleInv
    <3> QED  BY <1>t, <2>1, <2>2, <2>3, <3>1, <3>2 DEF PlaceInv, TaskConservation
  <2>4. CASE ~bailout
    <3> DEFINE h == Head(task_queue)
    <3>1. /\ Submitted' = Submitted /\ ran' = ran /\ task_queue # <<>> /\ h \in Queued
          /\ Queued' = Queued \ {h} /\ Running' = Running \cup {h}
      BY <1>2, <2>4, TakeTaskEffect
    <3>2. \A i, j \in 1 .. Len(task_queue') : task_queue'[i] = task_queue'[j] => i = j
      <4>1. /\ Len(task_queue') = Len(task_queue) - 1
            /\ \A k \in 1 .. Len(task_queue) - 1 : task_queue'[k] = task_queue[k+1]
        <5>1. task_queue' = Tail(task_queue) /\ task_queue \in Seq(Tasks)  BY <1>t, <2>1, <2>4
        <5> QED  BY ONLY <3>1, <5>1, TailEntries, SMTT(60)
      <4> SUFFICES ASSUME NEW i \in 1 .. Len(task_queue) - 1, NEW j \in 1 .. Len(task_queue) - 1,
                          task_queue[i+1] = task_queue[j+1]
                   PROVE  i = j
        BY <4>1
      <4>2. i+1 \in 1 .. Len(task_queue) /\ j+1 \in 1 .. Len(task_queue)
        BY <1>t
      <4>3. \A a, b \in 1 .. Len(task_queue) : task_queue[a] = task_queue[b] => a = b
        BY DEF PlaceInv, TaskConservation
      <4>4. i + 1 = j + 1  BY <4>2, <4>3, Zenon
      <4> QED  BY <4>4, <1>t
    <3>3. \A v \in Workers : wpc[v] = "run" => task[v] # h
      <4>1. h \notin Running  BY <3>1 DEF PlaceInv, TaskConservation
      <4>2. h \in Tasks
        <5>1. task_queue \in Seq(Tasks)  BY <1>t
        <5> QED  BY ONLY <3>1, <5>1, TailEntries, Zenon
      <4> QED  BY <4>1, <4>2, PoolAssumption DEF Running
    <3>4. \A v, u \in Workers :
            wpc'[v] = "run" /\ wpc'[u] = "run" /\ task'[v] = task'[u] /\ task'[v] # NoTask => v = u
      BY <1>t, <2>1, <2>4, <3>3 DEF PlaceInv, TaskConservation
    <3> QED  BY <2>2, <3>1, <3>2, <3>4 DEF PlaceInv, TaskConservation
  <2> QED  BY <2>3, <2>4
<1>3. ASSUME NEW w \in Workers, RunTask(w)  PROVE PlaceInv'
  <2>1. /\ Submitted' = Submitted /\ Queued' = Queued /\ task' = task
        /\ task[w] = NoTask => Running' = Running /\ ran' = ran
        /\ task[w] # NoTask => /\ task[w] \in Running
                               /\ Running' = Running \ {task[w]}
                               /\ ran' = ran \cup {task[w]}
    BY <1>3, RunTaskEffect
  <2>2. wpc' = [wpc EXCEPT ![w] = "dec"] /\ task_queue' = task_queue
    BY <1>3 DEF RunTask, GoWorker, program
  <2> QED  BY <1>t, <2>1, <2>2 DEF PlaceInv, TaskConservation, IdleInv
<1>4. CASE Quiet
  <2>1. Queued' = Queued /\ Running' = Running /\ Submitted' = Submitted /\ ran' = ran
    BY <1>4, QuietEffect
  <2> QED  BY <1>4, <2>1 DEF Quiet, PlaceInv, TaskConservation
<1> QED
  BY <1>1, <1>2, <1>3, <1>4, StepKinds DEF PlaceInv

(* No task is lost, duplicated or run twice, whatever the interleaving.    *)
THEOREM TasksAreConserved == Spec => []TaskConservation
<1>1. PlaceInv => TaskConservation
  BY DEF PlaceInv
<1> QED
  BY <1>1, SafeInvInit, SafeInvStep, PlaceInvInit, PlaceInvStep, PTL DEF Spec

-----------------------------------------------------------------------------
(* The pool implements PriorityService.                                    *)

(* Service!Before, with the tickets as a parameter.                        *)
Precedes(tk, t, u) ==
  \/ t \in CriticalTasks /\ u \notin CriticalTasks
  \/ (t \in CriticalTasks <=> u \in CriticalTasks) /\ tk[t] < tk[u]

(* A task in the queue precedes everything behind it.                      *)
OrderInv ==
  /\ \A t \in Tasks : ticket[t] <= issued
  /\ \A i, j \in 1 .. Len(task_queue) :
       i < j => Precedes(ticket, task_queue[i], task_queue[j])

LEMMA OrderInvInit == Init => OrderInv
BY DEF Init, OrderInv

LEMMA OrderInvStep == SafeInv /\ PlaceInv /\ OrderInv /\ [Next]_vars => OrderInv'
<1> SUFFICES ASSUME SafeInv, PlaceInv, OrderInv, [Next]_vars PROVE OrderInv'
  OBVIOUS
<1>t. /\ task_queue \in Seq(Tasks) /\ Len(task_queue) \in Nat
      /\ ticket \in [Tasks -> Nat] /\ issued \in Nat
      /\ \A k \in 1 .. Len(task_queue) : task_queue[k] \in Tasks
  BY LenProperties, ElementOfSeq DEF SafeInv, TypeOK
<1>o. /\ \A t \in Tasks : ticket[t] <= issued
      /\ \A i, j \in 1 .. Len(task_queue) :
           i < j => Precedes(ticket, task_queue[i], task_queue[j])
  BY DEF OrderInv
<1>1. ASSUME NEW c \in Clients, NEW t \in Tasks, AddTask(c, t)  PROVE OrderInv'
  <2>1. PICK i \in 1 .. Len(task_queue) + 1 :
          /\ UpperBound(task_queue, t, i)
          /\ task_queue' = InsertAt(task_queue, i, t)
    BY <1>1 DEF AddTask
  <2>2. /\ Len(task_queue') = Len(task_queue) + 1
        /\ \A k \in 1 .. Len(task_queue) + 1 :
             task_queue'[k] = IF k < i THEN task_queue[k]
                              ELSE IF k = i THEN t ELSE task_queue[k-1]
    <3> DEFINE r == InsertAt(task_queue, i, t)
    <3>1. /\ Len(r) = Len(task_queue) + 1
          /\ \A k \in 1 .. Len(task_queue) + 1 :
               r[k] = IF k < i THEN task_queue[k]
                      ELSE IF k = i THEN t ELSE task_queue[k-1]
      <4>1. task_queue \in Seq(Tasks) /\ t \in Tasks  BY <1>t
      <4> QED  BY ONLY <2>1, <4>1, InsertAtProperties, SMTT(60)
    <3> HIDE DEF r
    <3> QED  BY <2>1, <3>1 DEF r
  <2>3. /\ ticket' = [ticket EXCEPT ![t] = issued + 1] /\ issued' = issued + 1
    BY <1>1 DEF AddTask
  <2>4. \A k \in 1 .. Len(task_queue) :
          /\ task_queue[k] # t
          /\ ticket'[task_queue[k]] = ticket[task_queue[k]]
          /\ ticket[task_queue[k]] < ticket'[t]
    <3>1. t \notin Submitted
      BY <1>1, AddTaskEffect
    <3>2. \A k \in 1 .. Len(task_queue) : task_queue[k] \in Submitted
      BY <1>t, LenProperties DEF PlaceInv, TaskConservation, Queued, ToSet
    <3> QED  BY <1>t, <1>o, <2>3, <3>1, <3>2
  <2>5. \A x \in Tasks : Priority(x) = IF x \in CriticalTasks THEN 2 ELSE 1
    BY DEF Priority
  <2>6. \A k \in 1 .. i-1 : Precedes(ticket', task_queue[k], t)
    <3> SUFFICES ASSUME NEW k \in 1 .. i-1
                 PROVE  Precedes(ticket', task_queue[k], t)
      OBVIOUS
    <3>1. k \in 1 .. Len(task_queue) /\ Priority(task_queue[k]) >= Priority(t)
      BY <1>t, <2>1 DEF UpperBound
    <3>2. t \in CriticalTasks => task_queue[k] \in CriticalTasks
      BY <1>t, <2>5, <3>1
    <3> QED  BY <2>4, <3>1, <3>2 DEF Precedes
  <2>7. \A k \in i .. Len(task_queue) : t \in CriticalTasks /\ task_queue[k] \notin CriticalTasks
    <3> SUFFICES ASSUME NEW k \in i .. Len(task_queue)
                 PROVE  t \in CriticalTasks /\ task_queue[k] \notin CriticalTasks
      OBVIOUS
    <3>1. i \in 1 .. Len(task_queue) /\ k \in 1 .. Len(task_queue)
          /\ Priority(t) > Priority(task_queue[i])
      BY <1>t, <2>1 DEF UpperBound
    <3>2. t \in CriticalTasks /\ task_queue[i] \notin CriticalTasks
      BY <1>t, <2>5, <3>1
    <3>3. CASE k = i  BY <3>2, <3>3
    <3>4. CASE k # i
      BY <1>o, <3>1, <3>2, <3>4 DEF Precedes
    <3> QED  BY <3>3, <3>4
  <2>8. \A a, b \in 1 .. Len(task_queue) :
          a < b => Precedes(ticket', task_queue[a], task_queue[b])
    BY <1>o, <2>4 DEF Precedes
  <2>9. ASSUME NEW a \in 1 .. Len(task_queue) + 1, NEW b \in 1 .. Len(task_queue) + 1, a < b
        PROVE  Precedes(ticket', task_queue'[a], task_queue'[b])
    <3>1. CASE b < i
      <4>1. /\ task_queue'[a] = task_queue[a] /\ task_queue'[b] = task_queue[b]
            /\ a \in 1 .. Len(task_queue) /\ b \in 1 .. Len(task_queue)
        BY <1>t, <2>2, <2>9, <3>1
      <4> QED  BY <4>1, <2>8, <2>9 DEF Precedes
    <3>2. CASE b = i
      <4>1. /\ task_queue'[a] = task_queue[a] /\ task_queue'[b] = t /\ a \in 1 .. i-1
        BY <1>t, <2>2, <2>9, <3>2
      <4> QED  BY <4>1, <2>6 DEF Precedes
    <3>3. CASE b > i /\ a < i
      <4>1. /\ task_queue'[a] = task_queue[a] /\ task_queue'[b] = task_queue[b-1]
            /\ a \in 1 .. Len(task_queue) /\ b-1 \in 1 .. Len(task_queue) /\ a < b-1
        BY <1>t, <2>2, <2>9, <3>3
      <4> QED  BY <4>1, <2>8 DEF Precedes
    <3>4. CASE b > i /\ a = i
      <4>1. /\ task_queue'[a] = t /\ task_queue'[b] = task_queue[b-1]
            /\ b-1 \in i .. Len(task_queue)
        BY <1>t, <2>2, <2>9, <3>4
      <4> QED  BY <4>1, <2>7 DEF Precedes
    <3>5. CASE b > i /\ a > i
      <4>1. /\ task_queue'[a] = task_queue[a-1] /\ task_queue'[b] = task_queue[b-1]
            /\ a-1 \in 1 .. Len(task_queue) /\ b-1 \in 1 .. Len(task_queue) /\ a-1 < b-1
        BY <1>t, <2>2, <2>9, <3>5
      <4> QED  BY <4>1, <2>8 DEF Precedes
    <3> QED  BY <1>t, <3>1, <3>2, <3>3, <3>4, <3>5
  <2>10. \A x \in Tasks : ticket'[x] <= issued'
    BY <1>t, <1>o, <2>3
  <2> QED  BY <2>2, <2>9, <2>10 DEF OrderInv
<1>2. ASSUME NEW w \in Workers, TakeTask(w)  PROVE OrderInv'
  <2>1. ticket' = ticket /\ issued' = issued
    BY <1>2 DEF TakeTask, history
  <2>2. CASE bailout
    <3>1. task_queue' = task_queue
      BY <1>2, <2>2 DEF TakeTask
    <3> QED  BY <2>1, <3>1 DEF OrderInv, Precedes
  <2>3. CASE ~bailout
    <3>1. task_queue # <<>> /\ task_queue' = Tail(task_queue)
      BY <1>2, <2>3 DEF TakeTask, GoWorker, SafeInv, NoPopFromEmptyQueue
    <3>2. /\ Len(task_queue') = Len(task_queue) - 1
          /\ \A k \in 1 .. Len(task_queue) - 1 : task_queue'[k] = task_queue[k+1]
      <4>1. task_queue \in Seq(Tasks)  BY <1>t
      <4> QED  BY ONLY <3>1, <4>1, TailEntries, SMTT(60)
    <3>3. ASSUME NEW a \in 1 .. Len(task_queue) - 1, NEW b \in 1 .. Len(task_queue) - 1, a < b
          PROVE  Precedes(ticket', task_queue'[a], task_queue'[b])
      <4>1. /\ a+1 \in 1 .. Len(task_queue) /\ b+1 \in 1 .. Len(task_queue) /\ a+1 < b+1
            /\ task_queue'[a] = task_queue[a+1] /\ task_queue'[b] = task_queue[b+1]
        BY <1>t, <3>2, <3>3
      <4>2. Precedes(ticket, task_queue[a+1], task_queue[b+1])  BY <1>o, <4>1, Zenon
      <4> QED  BY <2>1, <4>1, <4>2 DEF Precedes
    <3> QED  BY <1>o, <2>1, <3>2, <3>3 DEF OrderInv
  <2> QED  BY <2>2, <2>3
<1>3. ASSUME NEW w \in Workers, RunTask(w)  PROVE OrderInv'
  BY <1>3 DEF RunTask, OrderInv, Precedes, program
<1>4. CASE Quiet
  BY <1>4 DEF Quiet, OrderInv, Precedes
<1> QED
  BY <1>1, <1>2, <1>3, <1>4, StepKinds DEF PlaceInv

LEMMA ServiceInit == Init => Service!Init
<1> SUFFICES ASSUME Init PROVE Service!Init
  OBVIOUS
<1>1. ticket = [t \in Tasks |-> 0] /\ issued = 0 /\ ran = {}
  BY DEF Init
<1>2. Queued = {} /\ Running = {}
  BY DEF Init, Queued, Running, ToSet
<1> QED  BY <1>1, <1>2 DEF Service!Init, Service!Tasks, Tasks

LEMMA ServiceStep ==
  SafeInv /\ PlaceInv /\ OrderInv /\ [Next]_vars => [Service!Next]_(Service!vars)
<1> SUFFICES ASSUME SafeInv, PlaceInv, OrderInv, [Next]_vars
             PROVE  [Service!Next]_(Service!vars)
  OBVIOUS
<1>t. /\ task_queue \in Seq(Tasks) /\ Len(task_queue) \in Nat
      /\ ticket \in [Tasks -> Nat] /\ task \in [Workers -> Tasks \cup {NoTask}]
      /\ DOMAIN task_queue = 1 .. Len(task_queue)
      /\ Tasks = Service!Tasks
  BY LenProperties DEF SafeInv, TypeOK, Tasks, Service!Tasks
<1>1. ASSUME NEW c \in Clients, NEW t \in Tasks, AddTask(c, t)  PROVE Service!Submit(t)
  <2>1. /\ Queued' = Queued \cup {t} /\ Running' = Running /\ ran' = ran /\ t \notin Submitted
    BY <1>1, AddTaskEffect
  <2>2. ticket[t] = 0
    BY <1>t, <2>1 DEF Submitted
  <2>3. issued' = issued + 1 /\ ticket' = [ticket EXCEPT ![t] = issued + 1]
    BY <1>1 DEF AddTask
  <2> QED  BY <2>1, <2>2, <2>3 DEF Service!Submit
<1>2. ASSUME NEW w \in Workers, TakeTask(w)
      PROVE  \/ UNCHANGED Service!vars
             \/ Service!Start(Head(task_queue)) /\ Head(task_queue) \in Tasks
  <2>1. ticket' = ticket /\ issued' = issued /\ ran' = ran
    BY <1>2 DEF TakeTask, history
  <2>2. CASE bailout
    <3>1. Queued' = Queued /\ Running' = Running
      BY <1>2, <2>2, TakeTaskEffect
    <3> QED  BY <2>1, <3>1 DEF Service!vars
  <2>3. CASE ~bailout
    <3> DEFINE h == Head(task_queue)
    <3>1. /\ task_queue # <<>> /\ h \in Queued
          /\ Queued' = Queued \ {h} /\ Running' = Running \cup {h}
      BY <1>2, <2>3, TakeTaskEffect
    <3>2. h \in Tasks /\ h = task_queue[1] /\ Len(task_queue) >= 1
      BY <1>t, <3>1, HeadTailProperties, EmptySeq
    <3>3. ASSUME NEW u \in Queued \ {h}  PROVE Service!Before(h, u)
      <4>1. PICK k \in 1 .. Len(task_queue) : u = task_queue[k]
        BY <1>t DEF Queued, ToSet
      <4>2. k # 1
        BY <3>2, <4>1
      <4>3. Precedes(ticket, task_queue[1], task_queue[k])
        BY <1>t, <3>2, <4>1, <4>2 DEF OrderInv
      <4> QED  BY <3>2, <4>1, <4>3 DEF Precedes, Service!Before
    <3> HIDE DEF h
    <3>4. Service!Start(h)
      BY <2>1, <3>1, <3>3 DEF Service!Start
    <3> QED  BY <3>2, <3>4 DEF h
  <2> QED  BY <2>2, <2>3
<1>3. ASSUME NEW w \in Workers, RunTask(w)
      PROVE  \/ UNCHANGED Service!vars
             \/ Service!Finish(task[w]) /\ task[w] \in Tasks
  <2>1. ticket' = ticket /\ issued' = issued
    BY <1>3 DEF RunTask
  <2>2. /\ Queued' = Queued
        /\ task[w] = NoTask => Running' = Running /\ ran' = ran
        /\ task[w] # NoTask => /\ task[w] \in Running
                               /\ Running' = Running \ {task[w]}
                               /\ ran' = ran \cup {task[w]}
    BY <1>3, RunTaskEffect
  <2>3. CASE task[w] = NoTask
    BY <2>1, <2>2, <2>3 DEF Service!vars
  <2>4. CASE task[w] # NoTask
    BY <1>t, <2>1, <2>2, <2>4 DEF Service!Finish
  <2> QED  BY <2>3, <2>4
<1>4. CASE Quiet
  <2>1. Queued' = Queued /\ Running' = Running /\ ran' = ran
    BY <1>4, QuietEffect
  <2> QED  BY <1>4, <2>1 DEF Quiet, Service!vars
<1> QED
  BY <1>t, <1>1, <1>2, <1>3, <1>4, StepKinds DEF PlaceInv, Service!Next

(* The pool is a PriorityService: every task it starts is the oldest of    *)
(* the highest priority pending, and it starts and finishes at most once.  *)
THEOREM ImplementsPriorityService == Spec => ServiceSpec
<1>1. SafeInv /\ PlaceInv /\ OrderInv /\ [Next]_vars
      => SafeInv' /\ PlaceInv' /\ OrderInv' /\ [Service!Next]_(Service!vars)
  BY SafeInvStep, PlaceInvStep, OrderInvStep, ServiceStep
<1>2. Init => SafeInv /\ PlaceInv /\ OrderInv /\ Service!Init
  BY SafeInvInit, PlaceInvInit, OrderInvInit, ServiceInit
<1> QED
  BY <1>1, <1>2, PTL DEF Spec, ServiceSpec, Service!Spec

-----------------------------------------------------------------------------
(* Where the thread is that joins, and what it is owed.                    *)

Past == cpc[Main] \in {"bail", "wake", "join"} \/ finished

ClientInv ==
  /\ bailout => finished \/ cpc[Main] \in {"wake", "join"}
  /\ finished \/ cpc[Main] \in {"wake", "join"} => bailout
  /\ finished => cpc[Main] \in {"idle", "bail", "wake", "join"}
  /\ owed \subseteq Submitted
  /\ ~finished /\ cpc[Main] \in AddPC => owed = {}

LEMMA ClientInvInit == Init => ClientInv
<1> SUFFICES ASSUME Init PROVE ClientInv
  OBVIOUS
<1>1. ~bailout /\ ~finished /\ owed = {} /\ cpc[Main] = "idle"
  BY PoolAssumption DEF Init
<1> QED  BY <1>1 DEF ClientInv

LEMMA SubmittedGrows ==
  SafeInv /\ PlaceInv /\ [Next]_vars => Submitted \subseteq Submitted' /\ ran \subseteq ran'
<1> SUFFICES ASSUME SafeInv, PlaceInv, [Next]_vars
             PROVE  Submitted \subseteq Submitted' /\ ran \subseteq ran'
  OBVIOUS
<1>1. ASSUME NEW c \in Clients, NEW t \in Tasks, AddTask(c, t)
      PROVE  Submitted' = Submitted \cup {t} /\ ran' = ran
  BY <1>1, AddTaskEffect
<1>2. ASSUME NEW w \in Workers, TakeTask(w)  PROVE Submitted' = Submitted /\ ran' = ran
  BY <1>2, TakeTaskEffect
<1>3. ASSUME NEW w \in Workers, RunTask(w)  PROVE Submitted' = Submitted /\ ran \subseteq ran'
  BY <1>3, RunTaskEffect DEF RunTask
<1>4. CASE Quiet
  BY <1>4, QuietEffect
<1> QED  BY <1>1, <1>2, <1>3, <1>4, StepKinds DEF PlaceInv

LEMMA ClientInvStep == SafeInv /\ PlaceInv /\ ClientInv /\ [Next]_vars => ClientInv'
<1> SUFFICES ASSUME SafeInv, PlaceInv, ClientInv, [Next]_vars PROVE ClientInv'
  OBVIOUS
<1> USE PoolAssumption DEF GoWorker, GoClient, program, threads, history
<1>t. /\ cpc \in [Clients -> AddPC \cup JoinPC] /\ Main \in Clients
      /\ bailout \in BOOLEAN /\ finished \in BOOLEAN
  BY DEF SafeInv, TypeOK
<1>g. Submitted \subseteq Submitted'
  BY SubmittedGrows
<1>s. ASSUME cpc'[Main] = cpc[Main], bailout' = bailout, finished' = finished, owed' = owed
      PROVE  ClientInv'
  BY <1>g, <1>s DEF ClientInv
<1> USE DEF ClientInv, AddPC, JoinPC
<1>1. ASSUME NEW c \in Clients, NEW t \in Tasks, AddTask(c, t)  PROVE ClientInv'
  BY <1>1, <1>t, <1>g DEF AddTask, MayAdd
<1>2. ASSUME NEW c \in Clients, AddStep(c)  PROVE ClientInv'
  BY <1>2, <1>t, <1>g DEF AddStep, CountTask, SignalTask, KeepFuture, GetResult
<1>3. ASSUME NEW w \in Workers,
             \/ TestBailout(w) \/ AwaitTask(w) \/ BlockWorker(w) \/ SpuriousWakeWorker(w)
             \/ RunTask(w) \/ UncountTask(w)
      PROVE  ClientInv'
  BY <1>3, <1>s DEF TestBailout, AwaitTask, BlockWorker, SpuriousWakeWorker,
                    RunTask, UncountTask
<1>4. ASSUME NEW w \in Workers, TakeTask(w)  PROVE ClientInv'
  BY <1>4, <1>s DEF TakeTask
<1>5. ASSUME NEW w \in Workers, NotifyJoiner(w)  PROVE ClientInv'
  BY <1>5, <1>t, <1>g DEF NotifyJoiner
<1>6. ASSUME NEW wait \in JoinArgs, JoinAllThread(wait)  PROVE ClientInv'
  <2>1. Accepted \subseteq Submitted
    BY DEF Accepted
  <2> QED  BY <1>6, <1>t, <1>g, <2>1 DEF JoinAllThread
<1>7. ASSUME WaitAll \/ TestDrained \/ BlockJoiner \/ SpuriousWakeJoiner  PROVE ClientInv'
  BY <1>7, <1>t, <1>g DEF WaitAll, TestDrained, BlockJoiner, SpuriousWakeJoiner
<1>8. CASE SetBailout
  BY <1>8, <1>t, <1>g DEF SetBailout
<1>9. CASE WakeAll
  BY <1>9, <1>t, <1>g DEF WakeAll
<1>10. CASE JoinThreads
  BY <1>10, <1>t, <1>g DEF JoinThreads
<1>11. CASE UNCHANGED vars
  BY <1>11, <1>s DEF vars
<1> QED
  BY <1>1, <1>2, <1>3, <1>4, <1>5, <1>6, <1>7, <1>8, <1>9, <1>10, <1>11
     DEF Next, WorkerStep, JoinStep

-----------------------------------------------------------------------------
(* The pool implements TaskPool.  What that needs beside ClientInv: a      *)
(* worker goes on with the null stThreadPoolInfo, or leaves its loop, only *)
(* when the pool has been told to stop.                                    *)

StopInv ==
  \A w \in Workers :
    wpc[w] = "exited" \/ (wpc[w] \in {"run", "dec"} /\ task[w] = NoTask) => bailout

LEMMA StopInvInit == Init => StopInv
BY DEF Init, StopInv

LEMMA StopInvStep == SafeInv /\ StopInv /\ [Next]_vars => StopInv'
<1> SUFFICES ASSUME SafeInv, StopInv, [Next]_vars PROVE StopInv'
  OBVIOUS
<1> USE DEF GoWorker, GoClient, program, threads, history
<1>t. /\ wpc \in [Workers -> WorkerPC] /\ task \in [Workers -> Tasks \cup {NoTask}]
      /\ task_queue \in Seq(Tasks) /\ NoTask \notin Tasks
  BY PoolAssumption DEF SafeInv, TypeOK
<1>s. ASSUME UNCHANGED <<wpc, task>>, bailout => bailout'  PROVE StopInv'
  BY <1>s DEF StopInv
<1>1. ASSUME NEW c \in Clients, NEW t \in Tasks, AddTask(c, t)  PROVE StopInv'
  BY <1>1, <1>s DEF AddTask
<1>2. ASSUME NEW c \in Clients, CountTask(c) \/ GetResult(c)  PROVE StopInv'
  BY <1>2, <1>s DEF CountTask, GetResult
<1>3. ASSUME NEW c \in Clients, SignalTask(c)  PROVE StopInv'
  BY <1>3, <1>t DEF SignalTask, StopInv
<1>4. ASSUME NEW w \in Workers,
             \/ TestBailout(w) \/ AwaitTask(w) \/ BlockWorker(w) \/ SpuriousWakeWorker(w)
             \/ RunTask(w) \/ UncountTask(w) \/ NotifyJoiner(w)
      PROVE  StopInv'
  BY <1>4, <1>t DEF TestBailout, AwaitTask, BlockWorker, SpuriousWakeWorker,
                    RunTask, UncountTask, NotifyJoiner, StopInv
<1>5. ASSUME NEW w \in Workers, TakeTask(w)  PROVE StopInv'
  <2>1. ~bailout => Head(task_queue) \in Tasks
    BY <1>5, <1>t, HeadTailProperties DEF TakeTask, SafeInv, NoPopFromEmptyQueue
  <2> QED  BY <1>5, <1>t, <2>1 DEF TakeTask, StopInv
<1>6. ASSUME NEW wait \in JoinArgs, JoinAllThread(wait)  PROVE StopInv'
  BY <1>6, <1>s DEF JoinAllThread
<1>7. ASSUME WaitAll \/ TestDrained \/ BlockJoiner \/ SpuriousWakeJoiner  PROVE StopInv'
  BY <1>7, <1>s DEF WaitAll, TestDrained, BlockJoiner, SpuriousWakeJoiner
<1>8. CASE SetBailout
  BY <1>8 DEF SetBailout, StopInv
<1>9. CASE WakeAll
  BY <1>9, <1>t DEF WakeAll, StopInv
<1>10. CASE JoinThreads
  BY <1>10, <1>s DEF JoinThreads
<1>11. CASE UNCHANGED vars
  BY <1>11, <1>s DEF vars
<1> QED
  BY <1>1, <1>2, <1>3, <1>4, <1>5, <1>6, <1>7, <1>8, <1>9, <1>10, <1>11
     DEF Next, AddStep, WorkerStep, JoinStep

ReducedInv == SafeInv /\ PlaceInv /\ ClientInv /\ StopInv

(* The parts of the mapping.                                               *)
LEMMA JoiningPlaces ==
  /\ cpc[Main] \in AddPC => Joining = "no"
  /\ cpc[Main] = "check" => Joining = "check"
  /\ cpc[Main] \in {"pred", "block", "blocked"} => Joining = "wait"
  /\ cpc[Main] = "bail" => Joining = "bail"
  /\ cpc[Main] \in {"wake", "join"} => Joining = "join"
BY DEF Joining, AddPC

LEMMA JoiningPlacesNext ==
  /\ cpc'[Main] \in AddPC => Joining' = "no"
  /\ cpc'[Main] = "check" => Joining' = "check"
  /\ cpc'[Main] \in {"pred", "block", "blocked"} => Joining' = "wait"
  /\ cpc'[Main] = "bail" => Joining' = "bail"
  /\ cpc'[Main] \in {"wake", "join"} => Joining' = "join"
BY DEF Joining, AddPC

(* A worker between two places that look alike from outside.               *)
LEMMA WorkerLooksTheSame ==
  ASSUME TypeOK, task_queue' = task_queue, jobs_left' = jobs_left, bailout' = bailout,
         finished' = finished, Uncounted' = Uncounted, Joining' = Joining,
         \A w \in Workers :
           /\ wpc'[w] \in {"run", "dec"} <=> wpc[w] \in {"run", "dec"}
           /\ wpc[w] \in {"run", "dec"} => task'[w] = task[w]
           /\ bailout => (wpc'[w] \in {"notify", "loop", "exited"} <=>
                            wpc[w] \in {"notify", "loop", "exited"})
  PROVE  UNCHANGED Reduced!vars
<1>1. Holding' = Holding
  BY DEF Holding
<1>2. Leaving' = Leaving
  BY DEF Leaving
<1> QED  BY <1>1, <1>2 DEF Reduced!vars

LEMMA ReducedInit == Init => Reduced!Init
<1> SUFFICES ASSUME Init  PROVE Reduced!Init
  OBVIOUS
<1>1. Uncounted = {} /\ Holding = [w \in Workers |-> NoTask] /\ Leaving = {}
  BY DEF Init, Uncounted, Holding, Leaving
<1>2. Joining = "no"
  BY JoiningPlaces, PoolAssumption DEF Init, AddPC
<1> QED  BY <1>1, <1>2 DEF Init, Reduced!Init

LEMMA AddReduces ==
  ASSUME ReducedInv, NEW c \in Clients, NEW t \in Tasks, AddTask(c, t)
  PROVE  Reduced!Insert(c, t)
<1> USE DEF GoClient
<1>1. /\ cpc[c] = "idle" /\ cpc' = [cpc EXCEPT ![c] = "count"]
      /\ UNCHANGED <<jobs_left, bailout, finished, wpc, task>>
      /\ cpc \in [Clients -> AddPC \cup JoinPC] /\ Main \in Clients
  BY PoolAssumption DEF AddTask, ReducedInv, SafeInv, TypeOK
<1>2. c \notin Uncounted /\ Uncounted' = Uncounted \cup {c}
  BY <1>1 DEF Uncounted
<1>3. Holding' = Holding /\ Leaving' = Leaving
  BY <1>1 DEF Holding, Leaving
<1>4. Joining' = Joining
  <2>1. CASE c = Main
    BY <1>1, <2>1, JoiningPlaces, JoiningPlacesNext DEF AddPC
  <2>2. CASE c # Main
    BY <1>1, <2>2 DEF Joining
  <2> QED  BY <2>1, <2>2
<1>5. PICK i \in 1 .. Len(task_queue) + 1 :
        UpperBound(task_queue, t, i) /\ task_queue' = InsertAt(task_queue, i, t)
  BY DEF AddTask
<1>6. /\ \A k \in 1 .. i - 1 : ~Reduced!Outranks(t, task_queue[k])
      /\ i <= Len(task_queue) => Reduced!Outranks(t, task_queue[i])
  BY <1>5 DEF UpperBound, Priority, Reduced!Outranks
<1>7. task_queue' = Reduced!InsertAt(task_queue, i, t)
  BY <1>5 DEF InsertAt, Reduced!InsertAt
<1> QED  BY <1>1, <1>2, <1>3, <1>4, <1>6, <1>7 DEF Reduced!Insert

LEMMA ClientReduces ==
  ASSUME ReducedInv, NEW c \in Clients, AddStep(c)
  PROVE  Reduced!Count(c) \/ UNCHANGED Reduced!vars
<1> USE DEF GoClient, GoWorker
<1>t. /\ cpc \in [Clients -> AddPC \cup JoinPC] /\ Main \in Clients /\ TypeOK
      /\ wpc \in [Workers -> WorkerPC]
  BY PoolAssumption DEF ReducedInv, SafeInv, TypeOK
<1>1. Joining' = Joining
  <2>1. /\ cpc[c] \in AddPC /\ cpc'[c] \in AddPC
        /\ \A d \in Clients \ {c} : cpc'[d] = cpc[d]
    BY <1>t DEF AddStep, CountTask, SignalTask, KeepFuture, GetResult, AddPC
  <2>2. CASE c = Main
    BY <2>1, <2>2, JoiningPlaces, JoiningPlacesNext
  <2>3. CASE c # Main
    BY <1>t, <2>1, <2>3 DEF Joining
  <2> QED  BY <2>2, <2>3
<1>2. CASE CountTask(c)
  <2>1. /\ cpc[c] = "count" /\ cpc' = [cpc EXCEPT ![c] = "signal"]
        /\ jobs_left' = jobs_left + 1
        /\ UNCHANGED <<task_queue, bailout, finished, wpc, task>>
    BY <1>2 DEF CountTask
  <2>2. c \in Uncounted /\ Uncounted' = Uncounted \ {c}
    BY <1>t, <2>1 DEF Uncounted
  <2>3. Holding' = Holding /\ Leaving' = Leaving
    BY <2>1 DEF Holding, Leaving
  <2> QED  BY <1>1, <2>1, <2>2, <2>3 DEF Reduced!Count
<1>3. CASE SignalTask(c) \/ GetResult(c)
  <2>1. Uncounted' = Uncounted
    BY <1>t, <1>3 DEF SignalTask, KeepFuture, GetResult, Uncounted
  <2>2. UNCHANGED <<task_queue, jobs_left, bailout, finished, task>>
    BY <1>3 DEF SignalTask, GetResult, program
  <2>3. \A w \in Workers : wpc'[w] = wpc[w] \/ (wpc[w] = "waiting" /\ wpc'[w] = "lock")
    BY <1>t, <1>3 DEF SignalTask, GetResult
  <2> QED  BY <1>t, <1>1, <2>1, <2>2, <2>3, WorkerLooksTheSame
<1> QED  BY <1>2, <1>3 DEF AddStep

LEMMA WorkerReduces ==
  ASSUME ReducedInv, NEW w \in Workers,
         WorkerStep(w) \/ AwaitTask(w) \/ SpuriousWakeWorker(w)
  PROVE  \/ Reduced!Take(w) \/ Reduced!CountOff(w) \/ Reduced!CountOffNothing(w)
         \/ UNCHANGED Reduced!vars
<1> USE DEF GoWorker, GoClient
<1>t. /\ wpc \in [Workers -> WorkerPC] /\ task \in [Workers -> Tasks \cup {NoTask}]
      /\ cpc \in [Clients -> AddPC \cup JoinPC] /\ Main \in Clients /\ TypeOK
      /\ task_queue \in Seq(Tasks) /\ NoTask \notin Tasks
  BY PoolAssumption DEF ReducedInv, SafeInv, TypeOK
<1>s. ASSUME cpc' = cpc  PROVE Joining' = Joining /\ Uncounted' = Uncounted
  BY <1>s DEF Joining, Uncounted
<1>1. CASE TestBailout(w) \/ AwaitTask(w) \/ BlockWorker(w) \/ SpuriousWakeWorker(w) \/ RunTask(w)
  <2>1. UNCHANGED <<task_queue, jobs_left, bailout, finished, cpc>>
    BY <1>1 DEF TestBailout, AwaitTask, BlockWorker, SpuriousWakeWorker, RunTask, program
  <2>2. \A v \in Workers :
           /\ wpc'[v] \in {"run", "dec"} <=> wpc[v] \in {"run", "dec"}
           /\ wpc[v] \in {"run", "dec"} => task'[v] = task[v]
           /\ bailout => (wpc'[v] \in {"notify", "loop", "exited"} <=>
                            wpc[v] \in {"notify", "loop", "exited"})
    BY <1>t, <1>1 DEF TestBailout, AwaitTask, BlockWorker, SpuriousWakeWorker, RunTask
  <2> QED  BY <1>s, <1>t, <2>1, <2>2, WorkerLooksTheSame
<1>2. CASE NotifyJoiner(w)
  <2>1. UNCHANGED <<task_queue, jobs_left, bailout, finished, task>>
    BY <1>2 DEF NotifyJoiner, program
  <2>2. Joining' = Joining /\ Uncounted' = Uncounted
    <3>1. CASE cpc[Main] = "blocked"
      <4>1. cpc' = [cpc EXCEPT ![Main] = "pred"]
        BY <1>2, <3>1 DEF NotifyJoiner
      <4>2. cpc'[Main] = "pred" /\ Uncounted' = Uncounted
        BY <1>t, <3>1, <4>1 DEF Uncounted
      <4> QED  BY <3>1, <4>2, JoiningPlaces, JoiningPlacesNext
    <3>2. CASE cpc[Main] # "blocked"
      BY <1>2, <1>s, <3>2 DEF NotifyJoiner
    <3> QED  BY <3>1, <3>2
  <2>3. \A v \in Workers : wpc'[v] = wpc[v] \/ (wpc[v] = "notify" /\ wpc'[v] = "loop")
    BY <1>t, <1>2 DEF NotifyJoiner
  <2> QED  BY <1>t, <2>1, <2>2, <2>3, WorkerLooksTheSame
<1>3. CASE TakeTask(w)
  <2>1. /\ wpc[w] = "take" /\ wpc' = [wpc EXCEPT ![w] = "run"]
        /\ UNCHANGED <<jobs_left, bailout, finished, cpc>>
    BY <1>3 DEF TakeTask
  <2>2. Leaving' = Leaving
    BY <1>t, <2>1 DEF Leaving
  <2>3. CASE bailout
    <3>1. task_queue' = task_queue /\ task' = task /\ task[w] = NoTask
      BY <1>3, <2>1, <2>3 DEF TakeTask, ReducedInv, PlaceInv, IdleInv
    <3>2. Holding' = Holding
      BY <1>t, <2>1, <3>1 DEF Holding
    <3> QED  BY <1>s, <2>1, <2>2, <3>1, <3>2 DEF Reduced!vars
  <2>4. CASE ~bailout
    <3>1. /\ task_queue # <<>> /\ task_queue' = Tail(task_queue)
          /\ task' = [task EXCEPT ![w] = Head(task_queue)]
      BY <1>3, <2>1, <2>4 DEF TakeTask, ReducedInv, SafeInv, NoPopFromEmptyQueue
    <3>2. Holding[w] = NoTask /\ Holding' = [Holding EXCEPT ![w] = Head(task_queue)]
      BY <1>t, <2>1, <3>1 DEF Holding
    <3> QED  BY <1>s, <2>1, <2>2, <2>4, <3>1, <3>2 DEF Reduced!Take
  <2> QED  BY <2>3, <2>4
<1>4. CASE UncountTask(w)
  <2>1. /\ wpc[w] = "dec" /\ wpc' = [wpc EXCEPT ![w] = "notify"] /\ jobs_left' = jobs_left - 1
        /\ UNCHANGED <<task_queue, bailout, finished, task, cpc>>
    BY <1>4 DEF UncountTask
  <2>2. /\ Holding[w] = task[w] /\ Holding' = [Holding EXCEPT ![w] = NoTask]
        /\ w \notin Leaving /\ Leaving' = IF bailout THEN Leaving \cup {w} ELSE Leaving
    BY <1>t, <2>1 DEF Holding, Leaving
  <2>3. CASE task[w] # NoTask
    BY <1>s, <2>1, <2>2, <2>3 DEF Reduced!CountOff
  <2>4. CASE task[w] = NoTask
    <3>1. bailout
      BY <2>1, <2>4 DEF ReducedInv, StopInv
    <3>2. Holding' = Holding
      BY <1>t, <2>1, <2>4 DEF Holding
    <3> QED  BY <1>s, <2>1, <2>2, <2>4, <3>1, <3>2 DEF Reduced!CountOffNothing
  <2> QED  BY <2>3, <2>4
<1> QED  BY <1>1, <1>2, <1>3, <1>4 DEF WorkerStep

LEMMA MainReduces ==
  ASSUME ReducedInv,
         JoinStep \/ SpuriousWakeJoiner \/ \E wait \in JoinArgs : JoinAllThread(wait)
  PROVE  Reduced!Next \/ UNCHANGED Reduced!vars
<1> USE DEF GoClient
<1>t. /\ wpc \in [Workers -> WorkerPC] /\ cpc \in [Clients -> AddPC \cup JoinPC]
      /\ Main \in Clients /\ TypeOK /\ JoinArgs \subseteq BOOLEAN
  BY PoolAssumption DEF ReducedInv, SafeInv, TypeOK
<1>s. ASSUME UNCHANGED <<wpc, task, bailout>>
      PROVE  Holding' = Holding /\ Leaving' = Leaving
  BY <1>s DEF Holding, Leaving
<1>u. ASSUME NEW from, NEW to, GoClient(Main, from, to), from # "count", to # "count"
      PROVE  cpc[Main] = from /\ cpc'[Main] = to /\ Uncounted' = Uncounted
  BY <1>t, <1>u DEF Uncounted
<1> HIDE DEF GoClient
<1>1. ASSUME NEW wait \in JoinArgs, JoinAllThread(wait)  PROVE Reduced!Next
  <2> DEFINE to == IF ~finished /\ wait THEN "check" ELSE "bail"
  <2>1. /\ GoClient(Main, "idle", to)
        /\ UNCHANGED <<task_queue, jobs_left, bailout, finished, wpc, task>>
    BY <1>1 DEF JoinAllThread, program
  <2>2. cpc[Main] = "idle" /\ cpc'[Main] = to /\ Uncounted' = Uncounted
    BY <1>u, <2>1
  <2>3. Joining = "no" /\ Joining' = to
    BY <2>2, JoiningPlaces, JoiningPlacesNext DEF AddPC
  <2>4. Reduced!JoinAllThread(wait)
    BY <1>s, <2>1, <2>2, <2>3 DEF Reduced!JoinAllThread, Reduced!Jump
  <2> QED  BY <1>t, <2>4 DEF Reduced!Next
<1>2. CASE WaitAll
  <2> DEFINE to == IF jobs_left > 0 THEN "pred" ELSE "bail"
  <2>1. /\ GoClient(Main, "check", to)
        /\ UNCHANGED <<task_queue, jobs_left, bailout, finished, wpc, task>>
    BY <1>2 DEF WaitAll, program
  <2>2. cpc[Main] = "check" /\ cpc'[Main] = to /\ Uncounted' = Uncounted
    BY <1>u, <2>1
  <2>3. Joining = "check" /\ Joining' = IF jobs_left > 0 THEN "wait" ELSE "bail"
    BY <2>2, JoiningPlaces, JoiningPlacesNext
  <2>4. Reduced!WaitAll
    BY <1>s, <2>1, <2>2, <2>3 DEF Reduced!WaitAll, Reduced!Jump
  <2> QED  BY <2>4 DEF Reduced!Next
<1>3. CASE TestDrained
  <2> DEFINE to == IF jobs_left = 0 THEN "bail" ELSE "block"
  <2>1. /\ GoClient(Main, "pred", to)
        /\ UNCHANGED <<task_queue, jobs_left, bailout, finished, wpc, task>>
    BY <1>3 DEF TestDrained, program
  <2>2. cpc[Main] = "pred" /\ cpc'[Main] = to /\ Uncounted' = Uncounted
    BY <1>u, <2>1
  <2>3. Joining = "wait" /\ Joining' = IF jobs_left = 0 THEN "bail" ELSE "wait"
    BY <2>2, JoiningPlaces, JoiningPlacesNext
  <2>4. Reduced!Drained \/ UNCHANGED Reduced!vars
    BY <1>s, <2>1, <2>2, <2>3 DEF Reduced!Drained, Reduced!Jump, Reduced!vars
  <2> QED  BY <2>4 DEF Reduced!Next
<1>4. CASE BlockJoiner \/ SpuriousWakeJoiner
  <2>1. /\ GoClient(Main, "block", "blocked") \/ GoClient(Main, "blocked", "pred")
        /\ UNCHANGED <<task_queue, jobs_left, bailout, finished, wpc, task>>
    BY <1>4 DEF BlockJoiner, SpuriousWakeJoiner, program
  <2>2. /\ cpc[Main] \in {"block", "blocked"} /\ cpc'[Main] \in {"pred", "blocked"}
        /\ Uncounted' = Uncounted
    BY <1>u, <2>1
  <2>3. Joining' = Joining
    BY <2>2, JoiningPlaces, JoiningPlacesNext
  <2> QED  BY <1>s, <2>1, <2>2, <2>3 DEF Reduced!vars
<1>5. CASE SetBailout
  <2>1. /\ GoClient(Main, "bail", "wake") /\ bailout' = TRUE
        /\ UNCHANGED <<task_queue, jobs_left, finished, wpc, task>>
    BY <1>5 DEF SetBailout
  <2>2. cpc[Main] = "bail" /\ cpc'[Main] = "wake" /\ Uncounted' = Uncounted
    BY <1>u, <2>1
  <2>3. Joining = "bail" /\ Joining' = "join" /\ Holding' = Holding
    BY <2>1, <2>2, JoiningPlaces, JoiningPlacesNext DEF Holding
  <2>4. Leaving' = {w \in Workers : wpc[w] \in {"notify", "loop", "exited"}}
    BY <2>1 DEF Leaving
  <2>5. \A w \in Workers : wpc[w] \in {"notify", "loop", "exited"} => Holding[w] = NoTask
    BY DEF Holding
  <2>6. Leaving' \in IF bailout THEN {Leaving} ELSE SUBSET {w \in Workers : Holding[w] = NoTask}
    BY <2>4, <2>5 DEF Leaving
  <2>7. Reduced!SetBailout
    BY <2>1, <2>2, <2>3, <2>6 DEF Reduced!SetBailout, Reduced!Jump
  <2> QED  BY <2>7 DEF Reduced!Next
<1>6. CASE WakeAll
  <2>1. /\ GoClient(Main, "wake", "join")
        /\ wpc' = [w \in Workers |-> IF wpc[w] = "waiting" THEN "lock" ELSE wpc[w]]
        /\ UNCHANGED <<task_queue, jobs_left, bailout, finished, task>>
    BY <1>6 DEF WakeAll, program
  <2>2. cpc[Main] = "wake" /\ cpc'[Main] = "join" /\ Uncounted' = Uncounted
    BY <1>u, <2>1
  <2>3. Joining' = Joining
    BY <2>2, JoiningPlaces, JoiningPlacesNext
  <2>4. \A w \in Workers : wpc'[w] = wpc[w] \/ (wpc[w] = "waiting" /\ wpc'[w] = "lock")
    BY <2>1
  <2> QED  BY <1>t, <2>1, <2>2, <2>3, <2>4, WorkerLooksTheSame
<1>7. CASE JoinThreads
  <2>1. /\ GoClient(Main, "join", "idle") /\ finished' = TRUE
        /\ \A w \in Workers : wpc[w] = "exited"
        /\ UNCHANGED <<task_queue, jobs_left, bailout, wpc, task>>
    BY <1>7 DEF JoinThreads
  <2>2. cpc[Main] = "join" /\ cpc'[Main] = "idle" /\ Uncounted' = Uncounted
    BY <1>u, <2>1
  <2>3. Joining = "join" /\ Joining' = "no"
    BY <2>2, JoiningPlaces, JoiningPlacesNext DEF AddPC
  <2>4. Leaving = Workers
    BY <2>1, <2>2 DEF Leaving, ReducedInv, ClientInv
  <2>5. Reduced!JoinThreads
    BY <1>s, <2>1, <2>2, <2>3, <2>4 DEF Reduced!JoinThreads, Reduced!Jump
  <2> QED  BY <2>5 DEF Reduced!Next
<1> QED  BY <1>1, <1>2, <1>3, <1>4, <1>5, <1>6, <1>7 DEF JoinStep

LEMMA ReducedStep == ReducedInv /\ [Next]_vars => [Reduced!Next]_(Reduced!vars)
<1> SUFFICES ASSUME ReducedInv, [Next]_vars  PROVE Reduced!Next \/ UNCHANGED Reduced!vars
  OBVIOUS
<1>1. ASSUME NEW c \in Clients, NEW t \in Tasks, AddTask(c, t)  PROVE Reduced!Next
  BY <1>1, AddReduces DEF Reduced!Next
<1>2. ASSUME NEW c \in Clients, AddStep(c)  PROVE Reduced!Next \/ UNCHANGED Reduced!vars
  BY <1>2, ClientReduces DEF Reduced!Next
<1>3. ASSUME NEW w \in Workers, WorkerStep(w) \/ AwaitTask(w) \/ SpuriousWakeWorker(w)
      PROVE  Reduced!Next \/ UNCHANGED Reduced!vars
  BY <1>3, WorkerReduces DEF Reduced!Next
<1>4. CASE UNCHANGED vars
  <2>1. UNCHANGED <<task_queue, jobs_left, bailout, finished, wpc, task, cpc>>
    BY <1>4 DEF vars, program, threads
  <2>2. Uncounted' = Uncounted /\ Holding' = Holding /\ Leaving' = Leaving /\ Joining' = Joining
    BY <2>1 DEF Uncounted, Holding, Leaving, Joining
  <2> QED  BY <2>1, <2>2 DEF Reduced!vars
<1> QED  BY <1>1, <1>2, <1>3, <1>4, MainReduces DEF Next

(* To its users the pool is TaskPool, on which the event bus is built: the *)
(* mutexes, the condition variables and the second read of _bailout add no *)
(* behaviour that shows in the queue, the counter or the flags.            *)
THEOREM ImplementsTaskPool == Spec => ReducedSpec
<1>1. Init => ReducedInv /\ Reduced!Init
  BY SafeInvInit, PlaceInvInit, ClientInvInit, StopInvInit, ReducedInit DEF ReducedInv
<1>2. ReducedInv /\ [Next]_vars => ReducedInv' /\ [Reduced!Next]_(Reduced!vars)
  BY SafeInvStep, PlaceInvStep, ClientInvStep, StopInvStep, ReducedStep DEF ReducedInv
<1> QED  BY <1>1, <1>2, PTL DEF Spec, ReducedSpec, Reduced!Spec

-----------------------------------------------------------------------------
(* When one thread owns the pool: wait_all goes on only when every task    *)
(* has run.                                                                *)
LEMMA WaitAllDrains ==
  ASSUME Clients = {Main}, SafeInv, PlaceInv, CounterAccounting, ClientInv,
         cpc[Main] \in {"check", "pred"}, jobs_left <= 0
  PROVE  task_queue = <<>> /\ Running = {} /\ Submitted = ran
<1>1. ~bailout
  BY DEF ClientInv
<1>2. Uncounted = {} /\ Cardinality(Uncounted) = 0
  <2>1. Uncounted = {}
    BY DEF Uncounted
  <2> QED  BY <2>1, FS_EmptySet
<1>3. /\ jobs_left \in Int /\ task_queue \in Seq(Tasks) /\ Len(task_queue) \in Nat
      /\ Cardinality(Busy) \in Nat /\ IsFiniteSet(Busy)
  BY FiniteCounts, LenProperties DEF SafeInv, TypeOK
<1>4. jobs_left = Len(task_queue) + Cardinality(Busy)
  BY <1>1, <1>2, <1>3 DEF CounterAccounting
<1>5. Len(task_queue) = 0 /\ Cardinality(Busy) = 0
  BY <1>3, <1>4
<1>6. task_queue = <<>>
  BY <1>3, <1>5, EmptySeq
<1>7. Busy = {}
  BY <1>3, <1>5, FS_EmptySet
<1>8. Running = {} /\ Queued = {}
  BY <1>6, <1>7 DEF Running, Busy, Queued, ToSet
<1> QED  BY <1>6, <1>8 DEF PlaceInv, TaskConservation

LEMMA DrainStep ==
  ASSUME Clients = {Main}, SafeInv, PlaceInv, CounterAccounting, ClientInv,
         AcceptedRunBeforeJoin, [Next]_vars
  PROVE  AcceptedRunBeforeJoin'
<1> USE PoolAssumption DEF GoWorker, GoClient, program, threads, history
<1>t. cpc \in [Clients -> AddPC \cup JoinPC] /\ Main \in Clients
  BY DEF SafeInv, TypeOK
<1>g. ran \subseteq ran' /\ owed \subseteq Submitted
  BY SubmittedGrows DEF ClientInv
<1>s. ASSUME Past' => Past, owed' = owed  PROVE AcceptedRunBeforeJoin'
  BY <1>g, <1>s DEF AcceptedRunBeforeJoin, Past
<1>1. ASSUME NEW c \in Clients, NEW t \in Tasks, AddTask(c, t)  PROVE AcceptedRunBeforeJoin'
  BY <1>1, <1>t, <1>s DEF AddTask, Past
<1>2. ASSUME NEW c \in Clients, AddStep(c)  PROVE AcceptedRunBeforeJoin'
  BY <1>2, <1>t, <1>s DEF AddStep, CountTask, SignalTask, KeepFuture, GetResult, Past
<1>3. ASSUME NEW w \in Workers, WorkerStep(w) \/ AwaitTask(w) \/ SpuriousWakeWorker(w)
      PROVE  AcceptedRunBeforeJoin'
  BY <1>3, <1>t, <1>s DEF WorkerStep, TestBailout, AwaitTask, BlockWorker, SpuriousWakeWorker,
                    TakeTask, RunTask, UncountTask, NotifyJoiner, Past
<1>4. ASSUME NEW wait \in JoinArgs, JoinAllThread(wait)  PROVE AcceptedRunBeforeJoin'
  <2>1. CASE finished
    BY <1>4, <1>s, <2>1 DEF JoinAllThread, Past
  <2>2. CASE ~finished /\ wait
    BY <1>4, <1>t, <2>2 DEF JoinAllThread, AcceptedRunBeforeJoin
  <2>3. CASE ~finished /\ ~wait
    <3>1. owed' = {}
      BY <1>4, <2>3 DEF JoinAllThread, ClientInv, AddPC
    <3> QED  BY <3>1 DEF AcceptedRunBeforeJoin
  <2> QED  BY <2>1, <2>2, <2>3
<1>5. ASSUME WaitAll \/ TestDrained  PROVE AcceptedRunBeforeJoin'
  <2>1. cpc[Main] \in {"check", "pred"} /\ owed' = owed /\ finished' = finished /\ jobs_left \in Int
    BY <1>5 DEF WaitAll, TestDrained, SafeInv, TypeOK
  <2>2. CASE jobs_left <= 0
    BY <1>g, <2>1, <2>2, WaitAllDrains DEF AcceptedRunBeforeJoin
  <2>3. CASE jobs_left > 0
    BY <1>5, <1>t, <1>s, <2>1, <2>3 DEF WaitAll, TestDrained, Past
  <2> QED  BY <2>1, <2>2, <2>3
<1>6. ASSUME BlockJoiner \/ SpuriousWakeJoiner \/ SetBailout \/ WakeAll
      PROVE  AcceptedRunBeforeJoin'
  BY <1>6, <1>t, <1>s DEF BlockJoiner, SpuriousWakeJoiner, SetBailout, WakeAll, Past
<1>7. CASE JoinThreads
  BY <1>7, <1>t, <1>s DEF JoinThreads, Past
<1>8. CASE UNCHANGED vars
  BY <1>8, <1>s DEF vars, Past
<1> QED
  BY <1>1, <1>2, <1>3, <1>4, <1>5, <1>6, <1>7, <1>8 DEF Next, JoinStep

PoolInv == SafeInv /\ PlaceInv /\ CounterAccounting /\ ClientInv

LEMMA PoolInvariant == Spec => []PoolInv
<1>1. Init => PoolInv
  BY SafeInvInit, PlaceInvInit, AccountingInit, ClientInvInit DEF PoolInv
<1>2. PoolInv /\ [Next]_vars => PoolInv'
  BY SafeInvStep, PlaceInvStep, AccountingStep, ClientInvStep DEF PoolInv
<1> QED  BY <1>1, <1>2, PTL DEF Spec

(* A pool with a single client keeps join_all_thread's promise to wait for *)
(* the tasks given to it (lines 97-98); Pool_find_accepted shows why two   *)
(* clients do not have it.                                                 *)
THEOREM SoleClientDrains ==
  ASSUME Clients = {Main}
  PROVE  Spec => []AcceptedRunBeforeJoin
<1>1. Init => AcceptedRunBeforeJoin
  BY DEF Init, AcceptedRunBeforeJoin
<1>2. PoolInv /\ AcceptedRunBeforeJoin /\ [Next]_vars => AcceptedRunBeforeJoin'
  BY DrainStep DEF PoolInv
<1> QED  BY <1>1, <1>2, PoolInvariant, PTL DEF Spec

DrainedInv == Past => task_queue = <<>> /\ Running = {}

LEMMA DrainedStep ==
  ASSUME Clients = {Main}, JoinArgs \subseteq {TRUE}, SafeInv, PlaceInv,
         CounterAccounting, ClientInv, DrainedInv, [Next]_vars
  PROVE  DrainedInv'
<1> USE PoolAssumption DEF GoWorker, GoClient, program, threads, history
<1>t. cpc \in [Clients -> AddPC \cup JoinPC] /\ Main \in Clients /\ finished \in BOOLEAN
  BY DEF SafeInv, TypeOK
<1>s. ASSUME Past' => Past, task_queue' = task_queue, Running' \subseteq Running
      PROVE  DrainedInv'
  BY <1>s DEF DrainedInv
<1>1. ASSUME NEW c \in Clients, NEW t \in Tasks, AddTask(c, t)  PROVE DrainedInv'
  <2>1. ~Past'
    BY <1>1, <1>t DEF AddTask, MayAdd, ClientInv, Past
  <2> QED  BY <2>1 DEF DrainedInv
<1>2. ASSUME NEW w \in Workers, TakeTask(w)  PROVE DrainedInv'
  <2>1. Past' => Past
    BY <1>2 DEF TakeTask, Past
  <2>2. CASE bailout
    BY <1>2, <1>s, <2>1, <2>2, TakeTaskEffect DEF TakeTask
  <2>3. CASE ~bailout
    <3>1. task_queue # <<>>
      BY <1>2, <2>3, TakeTaskEffect
    <3> QED  BY <2>1, <3>1 DEF DrainedInv
  <2> QED  BY <2>2, <2>3
<1>3. ASSUME NEW w \in Workers, RunTask(w)  PROVE DrainedInv'
  <2>1. (Past' => Past) /\ task_queue' = task_queue
    BY <1>3 DEF RunTask, Past
  <2>2. Running' \subseteq Running
    BY <1>3, RunTaskEffect
  <2> QED  BY <1>s, <2>1, <2>2
<1>4. CASE Quiet
  <2>1. task_queue' = task_queue /\ Running' = Running
    BY <1>4, QuietEffect DEF Quiet
  <2>2. ASSUME Past' => Past  PROVE DrainedInv'
    BY <1>s, <2>1, <2>2
  <2>3. ASSUME NEW c \in Clients, AddStep(c)  PROVE Past' => Past
    BY <2>3, <1>t DEF AddStep, CountTask, SignalTask, KeepFuture, GetResult, Past
  <2>4. ASSUME NEW w \in Workers, WorkerStep(w) \/ AwaitTask(w) \/ SpuriousWakeWorker(w)
        PROVE  Past' => Past
    BY <2>4, <1>t DEF WorkerStep, TestBailout, AwaitTask, BlockWorker, SpuriousWakeWorker,
                      TakeTask, RunTask, UncountTask, NotifyJoiner, Past
  <2>5. ASSUME NEW wait \in JoinArgs, JoinAllThread(wait)  PROVE Past' => Past
    BY <2>5, <1>t DEF JoinAllThread, Past
  <2>6. ASSUME WaitAll \/ TestDrained  PROVE DrainedInv'
    <3>1. cpc[Main] \in {"check", "pred"} /\ finished' = finished /\ jobs_left \in Int
      BY <2>6 DEF WaitAll, TestDrained, SafeInv, TypeOK
    <3>2. CASE jobs_left <= 0
      BY <2>1, <3>1, <3>2, WaitAllDrains DEF DrainedInv
    <3>3. CASE jobs_left > 0
      BY <2>2, <2>6, <1>t, <3>1, <3>3 DEF WaitAll, TestDrained, Past
    <3> QED  BY <3>1, <3>2, <3>3
  <2>7. ASSUME BlockJoiner \/ SpuriousWakeJoiner \/ SetBailout \/ WakeAll \/ JoinThreads
        PROVE  Past' => Past
    BY <2>7, <1>t DEF BlockJoiner, SpuriousWakeJoiner, SetBailout, WakeAll, JoinThreads, Past
  <2>8. CASE UNCHANGED vars
    BY <2>2, <2>8 DEF vars, Past
  <2>9. ASSUME NEW c \in Clients, NEW t \in Tasks, AddTask(c, t)  PROVE DrainedInv'
    BY <1>1, <2>9
  <2> QED
    BY <2>2, <2>3, <2>4, <2>5, <2>6, <2>7, <2>8, <2>9 DEF Next, JoinStep
<1> QED
  BY <1>1, <1>2, <1>3, <1>4, StepKinds DEF PlaceInv

(* With a single client that always waits, the pool is as lines 100-101    *)
(* say after join_all_thread: an empty queue and no task being run.        *)
THEOREM SoleClientEmpties ==
  ASSUME Clients = {Main}, JoinArgs \subseteq {TRUE}
  PROVE  Spec => []QueueEmptyAfterJoin
<1>1. Init => DrainedInv
  BY DEF Init, DrainedInv, Past
<1>2. PoolInv /\ DrainedInv /\ [Next]_vars => DrainedInv'
  BY DrainedStep DEF PoolInv
<1>3. DrainedInv => QueueEmptyAfterJoin
  BY DEF DrainedInv, Past, QueueEmptyAfterJoin
<1> QED  BY <1>1, <1>2, <1>3, PoolInvariant, PTL DEF Spec

-----------------------------------------------------------------------------
(* Tasks that submit tasks: the clients are Main and the workers.          *)

Nested == Clients \subseteq {Main} \cup Workers

(* A worker submits from inside a function, and leaves the pool for good.  *)
NestInv ==
  /\ \A w \in Workers : w \in Clients /\ cpc[w] # "idle" => wpc[w] = "run"
  /\ finished => \A w \in Workers : wpc[w] = "exited"

LEMMA NestInvInit == Init => NestInv
BY DEF Init, NestInv

LEMMA NestInvStep == SafeInv /\ NestInv /\ [Next]_vars => NestInv'
<1> SUFFICES ASSUME SafeInv, NestInv, [Next]_vars PROVE NestInv'
  OBVIOUS
<1> USE PoolAssumption DEF GoWorker, GoClient, program, threads, history, NestInv
<1>t. /\ wpc \in [Workers -> WorkerPC] /\ cpc \in [Clients -> AddPC \cup JoinPC]
      /\ Main \in Clients \ Workers
  BY DEF SafeInv, TypeOK
<1>1. ASSUME NEW c \in Clients, NEW t \in Tasks, AddTask(c, t)  PROVE NestInv'
  BY <1>1, <1>t DEF AddTask, MayAdd
<1>2. ASSUME NEW c \in Clients, CountTask(c) \/ GetResult(c)  PROVE NestInv'
  BY <1>2, <1>t DEF CountTask, GetResult
<1>3. ASSUME NEW c \in Clients, SignalTask(c)  PROVE NestInv'
  <2>1. \A d \in Clients : cpc'[d] # "idle" => cpc[d] # "idle"
    BY <1>3, <1>t DEF SignalTask, KeepFuture
  <2>2. \A w \in Workers : wpc[w] \in {"run", "exited"} => wpc'[w] = wpc[w]
    BY <1>3, <1>t DEF SignalTask
  <2>3. finished' = finished
    BY <1>3 DEF SignalTask
  <2> QED  BY <2>1, <2>2, <2>3
<1>4. ASSUME NEW w \in Workers,
             \/ TestBailout(w) \/ AwaitTask(w) \/ BlockWorker(w) \/ SpuriousWakeWorker(w)
             \/ UncountTask(w)
      PROVE  NestInv'
  BY <1>4, <1>t DEF TestBailout, AwaitTask, BlockWorker, SpuriousWakeWorker, UncountTask
<1>5. ASSUME NEW w \in Workers, TakeTask(w)  PROVE NestInv'
  BY <1>5, <1>t DEF TakeTask
<1>6. ASSUME NEW w \in Workers, RunTask(w)  PROVE NestInv'
  BY <1>6, <1>t DEF RunTask, Returned
<1>7. ASSUME NEW w \in Workers, NotifyJoiner(w)  PROVE NestInv'
  BY <1>7, <1>t DEF NotifyJoiner
<1>8. ASSUME NEW wait \in JoinArgs, JoinAllThread(wait)  PROVE NestInv'
  BY <1>8, <1>t DEF JoinAllThread
<1>9. ASSUME JoinStep \/ SpuriousWakeJoiner  PROVE NestInv'
  BY <1>9, <1>t DEF JoinStep, WaitAll, TestDrained, BlockJoiner, SpuriousWakeJoiner,
                    SetBailout, WakeAll, JoinThreads
<1>10. CASE UNCHANGED vars
  BY <1>10 DEF vars
<1> QED
  BY <1>1, <1>2, <1>3, <1>4, <1>5, <1>6, <1>7, <1>8, <1>9, <1>10
     DEF Next, AddStep, WorkerStep

(* wait_all can go on while a function is between queueing and counting a  *)
(* task that another worker has already finished, but not while any task   *)
(* is queued: every uncounted submission is hidden by its busy worker.     *)
LEMMA WaitAllEmpties ==
  ASSUME Nested, SafeInv, CounterAccounting, ClientInv, NestInv,
         cpc[Main] \in {"check", "pred"}, jobs_left <= 0
  PROVE  task_queue = <<>>
<1>1. ~bailout
  BY DEF ClientInv
<1>2. Uncounted \subseteq Busy
  BY DEF Nested, NestInv, Uncounted, Busy
<1>3. Cardinality(Uncounted) <= Cardinality(Busy)
  BY <1>2, FiniteCounts, FS_Subset
<1>4. /\ jobs_left \in Int /\ task_queue \in Seq(Tasks) /\ Len(task_queue) \in Nat
      /\ Cardinality(Busy) \in Nat /\ Cardinality(Uncounted) \in Nat
  BY FiniteCounts, LenProperties DEF SafeInv, TypeOK
<1>5. Len(task_queue) <= 0
  BY <1>1, <1>3, <1>4 DEF CounterAccounting
<1> QED  BY <1>4, <1>5, EmptySeq

(* Once the wait is over, no task it owed is in the queue.                 *)
OwedInv == Past => owed \cap Queued = {}

LEMMA OwedInvStep ==
  ASSUME Nested, SafeInv, PlaceInv, CounterAccounting, ClientInv, NestInv, OwedInv, [Next]_vars
  PROVE  OwedInv'
<1> USE PoolAssumption DEF GoWorker, GoClient, program, threads, history
<1>t. cpc \in [Clients -> AddPC \cup JoinPC] /\ Main \in Clients /\ finished \in BOOLEAN
  BY DEF SafeInv, TypeOK
<1>s. ASSUME Past' => Past, owed' = owed, Queued' \subseteq Queued  PROVE OwedInv'
  BY <1>s DEF OwedInv
<1>1. ASSUME NEW c \in Clients, NEW t \in Tasks, AddTask(c, t)  PROVE OwedInv'
  <2>1. Queued' = Queued \cup {t} /\ t \notin owed
    BY <1>1, AddTaskEffect DEF ClientInv
  <2>2. owed' = owed /\ (Past' => Past)
    BY <1>1, <1>t DEF AddTask, Past
  <2> QED  BY <2>1, <2>2 DEF OwedInv
<1>2. ASSUME NEW w \in Workers, TakeTask(w)  PROVE OwedInv'
  <2>1. Queued' \subseteq Queued
    BY <1>2, TakeTaskEffect
  <2>2. owed' = owed /\ (Past' => Past)
    BY <1>2 DEF TakeTask, Past
  <2> QED  BY <1>s, <2>1, <2>2
<1>3. ASSUME NEW w \in Workers, RunTask(w)  PROVE OwedInv'
  <2>1. Queued' = Queued
    BY <1>3, RunTaskEffect
  <2>2. owed' = owed /\ (Past' => Past)
    BY <1>3 DEF RunTask, Past
  <2> QED  BY <1>s, <2>1, <2>2
<1>4. CASE Quiet
  <2>1. Queued' = Queued
    BY <1>4, QuietEffect
  <2>2. ASSUME NEW c \in Clients, AddStep(c)  PROVE OwedInv'
    BY <1>s, <1>t, <2>1, <2>2 DEF AddStep, CountTask, SignalTask, KeepFuture, GetResult, Past
  <2>3. ASSUME NEW w \in Workers, WorkerStep(w) \/ AwaitTask(w) \/ SpuriousWakeWorker(w)
        PROVE  owed' = owed /\ (Past' => Past)
    BY <2>3, <1>t DEF WorkerStep, TestBailout, AwaitTask, BlockWorker, SpuriousWakeWorker,
                      TakeTask, RunTask, UncountTask, NotifyJoiner, Past
  <2>4. ASSUME NEW wait \in JoinArgs, JoinAllThread(wait)  PROVE OwedInv'
    <3>1. CASE finished
      BY <1>s, <2>1, <2>4, <3>1 DEF JoinAllThread, Past
    <3>2. CASE ~finished /\ wait
      BY <1>t, <2>4, <3>2 DEF JoinAllThread, Past, OwedInv
    <3>3. CASE ~finished /\ ~wait
      <4>1. owed' = {}
        BY <2>4, <3>3 DEF JoinAllThread, ClientInv, AddPC
      <4> QED  BY <4>1 DEF OwedInv
    <3> QED  BY <3>1, <3>2, <3>3
  <2>5. ASSUME WaitAll \/ TestDrained  PROVE OwedInv'
    <3>1. cpc[Main] \in {"check", "pred"} /\ owed' = owed /\ finished' = finished
          /\ jobs_left \in Int
      BY <2>5 DEF WaitAll, TestDrained, SafeInv, TypeOK
    <3>2. CASE jobs_left <= 0
      <4>1. Queued = {}
        BY <3>1, <3>2, WaitAllEmpties DEF Queued, ToSet
      <4> QED  BY <2>1, <4>1 DEF OwedInv
    <3>3. CASE jobs_left > 0
      BY <1>s, <1>t, <2>1, <2>5, <3>1, <3>3 DEF WaitAll, TestDrained, Past
    <3> QED  BY <3>1, <3>2, <3>3
  <2>6. ASSUME BlockJoiner \/ SpuriousWakeJoiner \/ SetBailout \/ WakeAll \/ JoinThreads
        PROVE  owed' = owed /\ (Past' => Past)
    BY <2>6, <1>t DEF BlockJoiner, SpuriousWakeJoiner, SetBailout, WakeAll, JoinThreads, Past
  <2>7. CASE UNCHANGED vars
    BY <1>s, <2>1, <2>7 DEF vars, Past
  <2>8. ASSUME NEW c \in Clients, NEW t \in Tasks, AddTask(c, t)  PROVE OwedInv'
    BY <1>1, <2>8
  <2> QED
    BY <1>s, <2>1, <2>2, <2>3, <2>4, <2>5, <2>6, <2>7, <2>8 DEF Next, JoinStep
<1> QED
  BY <1>1, <1>2, <1>3, <1>4, StepKinds DEF PlaceInv

LEMMA NestInvariant == Spec => []NestInv
BY NestInvInit, NestInvStep, SafeInvInit, SafeInvStep, PTL DEF Spec

(* When only Main and the running tasks submit, whatever was accepted      *)
(* before the join has run when join_all_thread returns (lines 97-101),    *)
(* although the counter may have let wait_all go on too early.             *)
THEOREM NestedTasksRun ==
  ASSUME Nested
  PROVE  Spec => []AcceptedRunByJoin
<1>1. Init => OwedInv
  BY DEF Init, OwedInv
<1>2. PoolInv /\ NestInv /\ OwedInv /\ [Next]_vars => OwedInv'
  BY OwedInvStep DEF PoolInv
<1>3. PoolInv /\ NestInv /\ OwedInv => AcceptedRunByJoin
  <2> SUFFICES ASSUME PoolInv, NestInv, OwedInv, finished PROVE owed \subseteq ran
    BY DEF AcceptedRunByJoin
  <2>1. Running = {}
    BY DEF NestInv, Running
  <2>2. owed \subseteq Submitted /\ owed \cap Queued = {}
    BY DEF PoolInv, ClientInv, OwedInv, Past
  <2> QED  BY <2>1, <2>2 DEF PoolInv, PlaceInv, TaskConservation
<1> QED  BY <1>1, <1>2, <1>3, PoolInvariant, NestInvariant, PTL DEF Spec

(* And the queue is empty at the moment wait_all returns (lines 107-108).  *)
THEOREM NestedQueueEmpties ==
  ASSUME Nested
  PROVE  Spec => WaitsForEmptyQueue
<1>1. PoolInv /\ NestInv /\ [Next]_vars
      => [cpc[Main] \in {"check", "pred"} /\ cpc'[Main] = "bail" => task_queue = <<>>]_vars
  <2> SUFFICES ASSUME PoolInv, NestInv, Next, cpc[Main] \in {"check", "pred"},
                      cpc'[Main] = "bail"
               PROVE  task_queue = <<>>
    OBVIOUS
  <2>t. /\ cpc \in [Clients -> AddPC \cup JoinPC] /\ Main \in Clients /\ jobs_left \in Int
        /\ SafeInv /\ CounterAccounting /\ ClientInv
    BY PoolAssumption DEF PoolInv, SafeInv, TypeOK
  <2>1. jobs_left <= 0
    BY <2>t DEF Next, AddStep, CountTask, SignalTask, KeepFuture, GetResult, AddTask,
       WorkerStep, TestBailout, AwaitTask, BlockWorker, SpuriousWakeWorker, TakeTask, RunTask,
       UncountTask, NotifyJoiner, JoinAllThread, JoinStep, WaitAll, TestDrained, BlockJoiner,
       SpuriousWakeJoiner, SetBailout, WakeAll, JoinThreads, GoClient, GoWorker, threads
  <2> QED  BY <2>t, <2>1, WaitAllEmpties
<1> QED  BY <1>1, PoolInvariant, NestInvariant, PTL DEF Spec, WaitsForEmptyQueue

-----------------------------------------------------------------------------
(* No worker is left asleep.  A worker about to block has seen an empty    *)
(* queue and holds the mutex, so the queue is still empty.                 *)

BlockInv == \A w \in Workers : wpc[w] = "block" => task_queue = <<>>

LEMMA BlockInvInit == Init => BlockInv
BY DEF Init, BlockInv

LEMMA BlockInvStep == SafeInv /\ BlockInv /\ [Next]_vars => BlockInv'
<1> SUFFICES ASSUME SafeInv, BlockInv, [Next]_vars PROVE BlockInv'
  OBVIOUS
<1> USE PoolAssumption DEF GoWorker, GoClient, program, threads, history
<1>t. wpc \in [Workers -> WorkerPC]
  BY DEF SafeInv, TypeOK
<1>m. \A w \in Workers : wpc[w] \in {"take", "block"} <=> queue_mutex = w
  BY DEF SafeInv, MutexInv
<1>1. ASSUME NEW c \in Clients, NEW t \in Tasks, AddTask(c, t)  PROVE BlockInv'
  <2>1. wpc' = wpc /\ queue_mutex = NoThread
    BY <1>1 DEF AddTask
  <2>2. \A w \in Workers : wpc[w] # "block"
    BY <1>m, <2>1
  <2> QED  BY <2>1, <2>2 DEF BlockInv
<1>2. ASSUME NEW c \in Clients, AddStep(c)  PROVE BlockInv'
  BY <1>2, <1>t DEF AddStep, CountTask, SignalTask, GetResult, BlockInv
<1>3. ASSUME NEW w \in Workers,
             TestBailout(w) \/ AwaitTask(w) \/ BlockWorker(w) \/ SpuriousWakeWorker(w)
      PROVE  BlockInv'
  BY <1>3, <1>t DEF TestBailout, AwaitTask, BlockWorker, SpuriousWakeWorker, BlockInv
<1>4. ASSUME NEW w \in Workers, TakeTask(w)  PROVE BlockInv'
  <2>1. /\ wpc' = [wpc EXCEPT ![w] = "run"] /\ wpc[w] = "take"
    BY <1>4 DEF TakeTask
  <2>2. \A v \in Workers \ {w} : wpc[v] # "block"
    BY <1>m, <2>1
  <2> QED  BY <1>t, <2>1, <2>2 DEF BlockInv
<1>5. ASSUME NEW w \in Workers, RunTask(w) \/ UncountTask(w) \/ NotifyJoiner(w)
      PROVE  BlockInv'
  BY <1>5, <1>t DEF RunTask, UncountTask, NotifyJoiner, BlockInv
<1>6. ASSUME NEW wait \in JoinArgs, JoinAllThread(wait)  PROVE BlockInv'
  BY <1>6 DEF JoinAllThread, BlockInv
<1>7. ASSUME JoinStep \/ SpuriousWakeJoiner  PROVE BlockInv'
  BY <1>7, <1>t DEF JoinStep, WaitAll, TestDrained, BlockJoiner, SpuriousWakeJoiner,
                    SetBailout, WakeAll, JoinThreads, BlockInv
<1>8. CASE UNCHANGED vars
  BY <1>8 DEF vars, BlockInv
<1> QED
  BY <1>1, <1>2, <1>3, <1>4, <1>5, <1>6, <1>7, <1>8 DEF Next, WorkerStep

LEMMA FiniteWakeups ==
  /\ IsFiniteSet(Coming) /\ Cardinality(Coming) \in Nat
  /\ IsFiniteSet(Notifying) /\ Cardinality(Notifying) \in Nat
<1>1. Coming \in SUBSET Workers /\ Notifying \in SUBSET Clients
  BY DEF Coming, Notifying
<1>2. IsFiniteSet(Coming) /\ IsFiniteSet(Notifying)
  BY <1>1, PoolAssumption, FS_Subset
<1> QED  BY <1>2, FS_CardinalityType

LEMMA NoIdleWorkerStep ==
  SafeInv /\ BlockInv /\ NoIdleWorker /\ [Next]_vars => NoIdleWorker'
<1> SUFFICES ASSUME SafeInv, BlockInv, NoIdleWorker, [Next]_vars PROVE NoIdleWorker'
  OBVIOUS
<1> USE DEF GoWorker, GoClient, program, threads, history
<1>t. /\ task_queue \in Seq(Tasks) /\ Len(task_queue) \in Nat
      /\ wpc \in [Workers -> WorkerPC] /\ cpc \in [Clients -> AddPC \cup JoinPC]
      /\ Main \in Clients
  BY PoolAssumption DEF SafeInv, TypeOK
<1>f. /\ IsFiniteSet(Coming) /\ Cardinality(Coming) \in Nat
      /\ IsFiniteSet(Notifying) /\ Cardinality(Notifying) \in Nat
  BY FiniteWakeups
<1>s. ASSUME wpc' = wpc, Notifying' = Notifying, task_queue' = task_queue, bailout' = bailout
      PROVE  NoIdleWorker'
  BY <1>s DEF NoIdleWorker, Coming
<1>w. ASSUME NEW w \in Workers, Coming' = Coming \cup {w}, Notifying' = Notifying,
             task_queue' = task_queue, bailout' = bailout,
             \E v \in Workers : wpc[v] = "waiting"
      PROVE  NoIdleWorker'
  <2>1. Cardinality(Coming') >= Cardinality(Coming) /\ Cardinality(Coming') \in Nat
    <3>1. CASE w \in Coming
      <4>1. Coming' = Coming
        BY <1>w, <3>1
      <4> QED  BY <1>f, <4>1
    <3>2. CASE w \notin Coming
      <4>1. Cardinality(Coming') = Cardinality(Coming) + 1
        BY <1>w, <1>f, <3>2, FS_AddElement
      <4> QED  BY <1>f, <4>1
    <3> QED  BY <3>1, <3>2
  <2> QED  BY <1>w, <1>t, <1>f, <2>1 DEF NoIdleWorker
<1>1. ASSUME NEW c \in Clients, NEW t \in Tasks, AddTask(c, t)  PROVE NoIdleWorker'
  <2>1. PICK i \in 1 .. Len(task_queue) + 1 : task_queue' = InsertAt(task_queue, i, t)
    BY <1>1 DEF AddTask
  <2>2. Len(task_queue') = Len(task_queue) + 1
    BY <1>t, <2>1, InsertAtProperties
  <2>3. Notifying' = Notifying \cup {c} /\ c \notin Notifying
    BY <1>1, <1>t DEF AddTask, Notifying
  <2>4. Cardinality(Notifying') = Cardinality(Notifying) + 1
    BY <2>3, <1>f, FS_AddElement
  <2>5. wpc' = wpc /\ Coming' = Coming /\ bailout' = bailout
    BY <1>1 DEF AddTask, Coming
  <2> QED  BY <1>t, <1>f, <2>2, <2>4, <2>5 DEF NoIdleWorker
<1>2. ASSUME NEW c \in Clients, CountTask(c)  PROVE NoIdleWorker'
  <2>1. Notifying' = Notifying
    BY <1>2, <1>t DEF CountTask, Notifying
  <2> QED  BY <1>2, <1>s, <2>1 DEF CountTask
<1>3. ASSUME NEW c \in Clients, SignalTask(c)  PROVE NoIdleWorker'
  <2>1. /\ Notifying' = Notifying \ {c} /\ c \in Notifying
        /\ task_queue' = task_queue /\ bailout' = bailout
    BY <1>3, <1>t DEF SignalTask, KeepFuture, Notifying
  <2>2. Cardinality(Notifying') = Cardinality(Notifying) - 1
    BY <2>1, <1>f, FS_RemoveElement
  <2>3. CASE \E w \in Workers : wpc[w] = "waiting"
    <3>1. PICK w \in Workers : wpc[w] = "waiting" /\ wpc' = [wpc EXCEPT ![w] = "lock"]
      BY <1>3, <2>3 DEF SignalTask
    <3>2. Coming' = Coming \cup {w} /\ w \notin Coming
      BY <1>t, <3>1 DEF Coming
    <3>3. Cardinality(Coming') = Cardinality(Coming) + 1
      BY <3>2, <1>f, FS_AddElement
    <3> QED  BY <1>t, <1>f, <2>1, <2>2, <2>3, <3>3 DEF NoIdleWorker
  <2>4. CASE ~ \E w \in Workers : wpc[w] = "waiting"
    <3>1. wpc' = wpc
      BY <1>3, <2>4 DEF SignalTask
    <3> QED  BY <2>4, <3>1 DEF NoIdleWorker
  <2> QED  BY <2>3, <2>4
<1>4. ASSUME NEW w \in Workers, TestBailout(w)  PROVE NoIdleWorker'
  <2>1. Notifying' = Notifying /\ task_queue' = task_queue /\ bailout' = bailout
    BY <1>4 DEF TestBailout, Notifying
  <2>2. CASE bailout
    BY <2>1, <2>2 DEF NoIdleWorker
  <2>3. CASE ~bailout
    <3>1. Coming' = Coming \cup {w} /\ \A v \in Workers : wpc'[v] = "waiting" => wpc[v] = "waiting"
      BY <1>4, <1>t, <2>3 DEF TestBailout, Coming
    <3> QED  BY <1>w, <2>1, <3>1 DEF NoIdleWorker
  <2> QED  BY <2>2, <2>3
<1>5. ASSUME NEW w \in Workers, AwaitTask(w)  PROVE NoIdleWorker'
  <2>1. /\ Notifying' = Notifying /\ task_queue' = task_queue /\ bailout' = bailout
        /\ \A v \in Workers : wpc'[v] = "waiting" => wpc[v] = "waiting"
    BY <1>5, <1>t DEF AwaitTask, Notifying
  <2>2. CASE task_queue # <<>> \/ bailout
    <3>1. Coming' = Coming
      BY <1>5, <1>t, <2>2 DEF AwaitTask, Coming
    <3> QED  BY <2>1, <3>1 DEF NoIdleWorker
  <2>3. CASE task_queue = <<>>
    <3>1. Len(task_queue') = 0 /\ Cardinality(Coming)' \in Nat /\ Cardinality(Notifying)' \in Nat
      <4>1. Coming' \in SUBSET Workers
        BY DEF Coming
      <4>2. IsFiniteSet(Coming')
        BY <4>1, PoolAssumption, FS_Subset
      <4> QED  BY <2>1, <2>3, <1>f, <4>2, FS_CardinalityType
    <3> QED  BY <3>1 DEF NoIdleWorker
  <2> QED  BY <2>2, <2>3
<1>6. ASSUME NEW w \in Workers, BlockWorker(w)  PROVE NoIdleWorker'
  <2>1. task_queue' = <<>> /\ Coming' = Coming /\ Notifying' = Notifying
    BY <1>6, <1>t DEF BlockWorker, BlockInv, Coming, Notifying
  <2> QED  BY <2>1, <1>f DEF NoIdleWorker
<1>7. ASSUME NEW w \in Workers, SpuriousWakeWorker(w)  PROVE NoIdleWorker'
  <2>1. Coming' = Coming \cup {w} /\ wpc[w] = "waiting"
    BY <1>7, <1>t DEF SpuriousWakeWorker, Coming
  <2>2. Notifying' = Notifying /\ task_queue' = task_queue /\ bailout' = bailout
    BY <1>7 DEF SpuriousWakeWorker, Notifying
  <2> QED  BY <1>w, <2>1, <2>2
<1>8. ASSUME NEW w \in Workers, TakeTask(w)  PROVE NoIdleWorker'
  <2>1. bailout' = bailout /\ Notifying' = Notifying
        /\ \A v \in Workers : wpc'[v] = "waiting" => wpc[v] = "waiting"
    BY <1>8, <1>t DEF TakeTask, Notifying
  <2>2. CASE bailout
    BY <2>1, <2>2 DEF NoIdleWorker
  <2>3. CASE ~bailout
    <3>1. Len(task_queue') = Len(task_queue) - 1
      BY <1>8, <1>t, <2>3 DEF TakeTask, SafeInv, NoPopFromEmptyQueue
    <3>2. Coming' = Coming \ {w} /\ w \in Coming
      BY <1>8, <1>t DEF TakeTask, Coming
    <3>3. Cardinality(Coming') = Cardinality(Coming) - 1
      BY <3>2, <1>f, FS_RemoveElement
    <3> QED  BY <1>t, <1>f, <2>1, <3>1, <3>3 DEF NoIdleWorker
  <2> QED  BY <2>2, <2>3
<1>9. ASSUME NEW w \in Workers, RunTask(w) \/ UncountTask(w) \/ NotifyJoiner(w)
      PROVE  NoIdleWorker'
  <2>1. /\ Coming' = Coming /\ Notifying' = Notifying
        /\ \A v \in Workers : wpc'[v] = "waiting" => wpc[v] = "waiting"
    BY <1>9, <1>t DEF RunTask, UncountTask, NotifyJoiner, Coming, Notifying
  <2>2. task_queue' = task_queue /\ bailout' = bailout
    BY <1>9 DEF RunTask, UncountTask, NotifyJoiner
  <2> QED  BY <2>1, <2>2 DEF NoIdleWorker
<1>10. ASSUME NEW wait \in JoinArgs, JoinAllThread(wait)  PROVE NoIdleWorker'
  BY <1>10, <1>s, <1>t DEF JoinAllThread, Notifying
<1>11. ASSUME WaitAll \/ TestDrained \/ BlockJoiner \/ SpuriousWakeJoiner \/ JoinThreads
       PROVE  NoIdleWorker'
  BY <1>11, <1>s, <1>t DEF WaitAll, TestDrained, BlockJoiner, SpuriousWakeJoiner,
                           JoinThreads, Notifying
<1>12. CASE SetBailout
  BY <1>12 DEF SetBailout, NoIdleWorker
<1>13. CASE WakeAll
  <2>1. \A w \in Workers : wpc'[w] # "waiting"
    BY <1>13, <1>t DEF WakeAll
  <2> QED  BY <2>1 DEF NoIdleWorker
<1>14. ASSUME NEW c \in Clients, GetResult(c)  PROVE NoIdleWorker'
  <2>1. Notifying' = Notifying
    BY <1>14, <1>t DEF GetResult, Notifying
  <2> QED  BY <1>14, <1>s, <2>1 DEF GetResult
<1>15. CASE UNCHANGED vars
  BY <1>15, <1>s DEF vars, Notifying
<1> QED
  BY <1>1, <1>2, <1>3, <1>4, <1>5, <1>6, <1>7, <1>8, <1>9, <1>10, <1>11, <1>12,
     <1>13, <1>14, <1>15 DEF Next, AddStep, WorkerStep, JoinStep

(* No wakeup of a worker is lost while the pool is in use.                 *)
THEOREM WorkersAreWoken == Spec => []NoIdleWorker
<1>1. Init => NoIdleWorker
  BY DEF Init, NoIdleWorker
<1>2. SafeInv /\ BlockInv /\ NoIdleWorker /\ [Next]_vars
      => SafeInv' /\ BlockInv' /\ NoIdleWorker'
  BY SafeInvStep, BlockInvStep, NoIdleWorkerStep
<1> QED
  BY <1>1, <1>2, SafeInvInit, BlockInvInit, PTL DEF Spec
=============================================================================
