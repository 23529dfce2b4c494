----------------------------- MODULE TimerQueue -----------------------------
(***************************************************************************)
(* The singleton TimerQueue of src/timer/timer_queue.h: threads that       *)
(* create and cancel timers, the timer loop, the executors that call the   *)
(* handlers, and the thread that shuts the queue down.  A critical section *)
(* is one step unless it blocks; a wait has a gap between its predicate    *)
(* and the moment the thread blocks, because _stop_thread is written       *)
(* without a mutex and a notification can fall into that gap.              *)
(***************************************************************************)
EXTENDS Integers, Sequences, FiniteSets, SequencesExt

CONSTANTS
  Users,      \* threads that call create_timer and cancel_timer; an executor
              \* is one of them while it is inside a handler
  Executors,  \* the THREAD_NUM threads of execute_timeout_event
  OneShots,   \* calls of create_timer with isRepeat false, each made at most once
  Repeats,    \* calls of create_timer with isRepeat true, each made at most once
  Delay,      \* nTimeout of each call
  MayStop,    \* whether timer_queue_exit is ever called
  MaxTime,    \* bound: the clock stops here, and no timer is created that
              \* expires later for the first time
  NoTimer, Loop, NoThread

Timers == OneShots \cup Repeats

ASSUME TimerAssumption ==
  /\ IsFiniteSet(Users) /\ IsFiniteSet(Executors) /\ IsFiniteSet(Timers)
  /\ OneShots \cap Repeats = {}
  /\ NoTimer \notin Timers
  /\ Loop \notin Executors /\ NoThread \notin Executors /\ Loop # NoThread
  /\ Delay \in [Timers -> Nat] /\ MayStop \in BOOLEAN /\ MaxTime \in Nat

VARIABLES
  now,                 \* high_resolution_clock
  timer_id,            \* _timer_id
  event_vector,        \* _event_vector
  timeout,             \* stTimerEvent::nTimeout of each call
  id,                  \* stTimerEvent::nTimerID of each call
  is_sort,             \* _is_sort
  stop_thread,         \* _stop_thread
  execute_event_list,  \* _execute_event_list
  event_mutex,         \* the loop, while it is inside its critical section
  execute_mutex,       \* the executor inside its critical section
  upc, making,         \* where each user is, and in which create_timer call
  given,               \* the nTimerID each call has returned to its caller
  lpc,                 \* where the loop is
  napTime, nap_until,  \* its local napTime, and when its wait_for ends
  epc, hand,           \* where each executor is; its local pFuncPtr
  invoked,             \* packaged_tasks called since they were made or reset
  terminated,          \* an exception left a thread: std::terminate
  xpc,                 \* where timer_queue_exit is
  lag,                 \* history: the time since the loop compared the earliest
                       \* deadline with the clock, until its wait_for begins
  begun,               \* history: how often each handler was started
  requested,           \* history: the calls whose nTimerID was given to cancel_timer
  cancelled            \* history: the calls whose event cancel_timer erased

ids       == <<timer_id, id>>
vector    == <<event_vector, timeout, is_sort>>
mutexes   == <<event_mutex, execute_mutex>>
clients   == <<upc, making, given>>
naps      == <<napTime, nap_until, lag>>
looper    == <<lpc, naps>>
handlers  == <<hand, invoked, terminated, begun>>
executors == <<execute_event_list, epc, handlers>>
exit      == <<stop_thread, xpc>>
record    == <<requested, cancelled>>
vars == <<now, ids, vector, mutexes, clients, looper, executors, exit, record>>

Init ==
  /\ now = 0 /\ timer_id = 0
  /\ event_vector = <<>> /\ is_sort = FALSE /\ stop_thread = FALSE
  /\ timeout = [t \in Timers |-> 0] /\ id = [t \in Timers |-> 0]
  /\ execute_event_list = <<>>
  /\ event_mutex = NoThread /\ execute_mutex = NoThread
  /\ upc = [u \in Users |-> "idle"] /\ making = [u \in Users |-> NoTimer]
  /\ given = [t \in Timers |-> 0]
  /\ lpc = "test" /\ napTime = 0 /\ nap_until = 0 /\ lag = 0
  /\ epc = [e \in Executors |-> "lock"] /\ hand = [e \in Executors |-> NoTimer]
  /\ invoked = {} /\ terminated = FALSE /\ begun = [t \in Timers |-> 0]
  /\ xpc = "idle"
  /\ requested = {} /\ cancelled = {}

GoUser(u, from, to)     == upc[u] = from /\ upc' = [upc EXCEPT ![u] = to]
GoLoop(from, to)        == lpc = from /\ lpc' = to
GoExecutor(e, from, to) == epc[e] = from /\ epc' = [epc EXCEPT ![e] = to]

(* _event_cond has one waiter, the loop: in wait or in wait_for.           *)
WakeLoop == lpc' = CASE lpc = "waiting" -> "lock"
                     [] lpc = "napping" -> "recheck"
                     [] OTHER -> lpc

Tick ==
  /\ now < MaxTime
  /\ now' = now + 1
  /\ lag' = IF lpc = "nap" THEN lag + 1 ELSE lag
  /\ UNCHANGED <<ids, vector, mutexes, clients, lpc, napTime, nap_until, executors, exit, record>>

-----------------------------------------------------------------------------
(* create_timer and cancel_timer.                                          *)

(* The value of ++_timer_id; the mutant is that of _timer_id++.            *)
PostIncrement == timer_id
NextId == timer_id + 1

(* An executor calls create_timer and cancel_timer from inside a handler.  *)
MayCall(u) == u \in Executors => epc[u] = "end"

(* stInfo.nTimerID = ++_timer_id, and the deadline.                        *)
NewEvent(u, t) ==
  /\ GoUser(u, "idle", "insert") /\ MayCall(u)
  /\ id[t] = 0 /\ now + Delay[t] <= MaxTime
  /\ making' = [making EXCEPT ![u] = t]
  /\ timer_id' = timer_id + 1
  /\ id' = [id EXCEPT ![t] = NextId]
  /\ timeout' = [timeout EXCEPT ![t] = now + Delay[t]]
  /\ UNCHANGED <<now, event_vector, is_sort, mutexes, given, looper, executors, exit, record>>

InsertEvent(u) ==
  /\ GoUser(u, "insert", "notify")
  /\ event_mutex = NoThread
  /\ event_vector' = Append(event_vector, making[u])
  /\ is_sort' = TRUE
  /\ UNCHANGED <<now, ids, timeout, mutexes, making, given, looper, executors, exit, record>>

(* Mutant of NotifyCreated: the notification is forgotten.                 *)
CreateSilently(u) ==
  /\ GoUser(u, "notify", "return")
  /\ UNCHANGED <<now, ids, vector, mutexes, making, given, looper, executors, exit, record>>

(* _event_cond.notify_one(), after the unlock.                             *)
NotifyCreated(u) ==
  /\ GoUser(u, "notify", "return")
  /\ WakeLoop
  /\ UNCHANGED <<now, ids, vector, mutexes, making, given, naps, executors, exit, record>>

(* nTimerID = _timer_id: the counter is read a second time.                *)
ReturnId(u) ==
  /\ GoUser(u, "return", "idle")
  /\ given' = [given EXCEPT ![making[u]] = timer_id]
  /\ making' = [making EXCEPT ![u] = NoTimer]
  /\ UNCHANGED <<now, ids, vector, mutexes, looper, executors, exit, record>>

(* Where find_if may stop; the mutant searches the sorted way.             *)
NotBefore(number) == {i \in 1 .. Len(event_vector) : id[event_vector[i]] >= number}
Matches(number)   == {i \in 1 .. Len(event_vector) : id[event_vector[i]] = number}

(* cancel_timer, with the number that creating t returned.                 *)
CancelTimer(u, t) ==
  /\ upc[u] = "idle" /\ MayCall(u) /\ given[t] # 0
  /\ event_mutex = NoThread
  /\ requested' = requested \cup {t}
  /\ IF Matches(given[t]) = {}
     THEN UNCHANGED <<event_vector, is_sort, cancelled>>
     ELSE \E i \in Matches(given[t]) :
            /\ \A j \in Matches(given[t]) : i <= j
            /\ event_vector' = RemoveAt(event_vector, i)
            /\ is_sort' = TRUE
            /\ cancelled' = cancelled \cup {event_vector[i]}
  /\ UNCHANGED <<now, ids, timeout, mutexes, clients, looper, executors, exit>>

-----------------------------------------------------------------------------
(* timer_loop.                                                             *)

(* Mutant of TestStop: the test is dropped.                                *)
TestNothing ==
  /\ GoLoop("test", "lock")
  /\ UNCHANGED <<now, ids, vector, mutexes, clients, naps, executors, exit, record>>

TestStop ==
  /\ GoLoop("test", IF stop_thread THEN "exited" ELSE "lock")
  /\ UNCHANGED <<now, ids, vector, mutexes, clients, naps, executors, exit, record>>

(* Lock _event_mutex and evaluate the wait's predicate; the mutex is kept  *)
(* on both outcomes.                                                       *)
AwaitEvent ==
  /\ GoLoop("lock", IF stop_thread \/ event_vector # <<>> THEN "look" ELSE "block")
  /\ event_mutex = NoThread /\ event_mutex' = Loop
  /\ UNCHANGED <<now, ids, vector, execute_mutex, clients, naps, executors, exit, record>>

(* Unlock and block, in wait or in wait_for.                               *)
BlockLoop ==
  /\ \/ GoLoop("block", "waiting")
     \/ GoLoop("sleep", "napping")
  /\ event_mutex' = NoThread
  /\ UNCHANGED <<now, ids, vector, execute_mutex, clients, naps, executors, exit, record>>

SpuriousWakeLoop ==
  /\ lpc \in {"waiting", "napping"} /\ WakeLoop
  /\ UNCHANGED <<now, ids, vector, mutexes, clients, naps, executors, exit, record>>

Descending(q) == \A i, j \in 1 .. Len(q) : i < j => timeout[q[i]] >= timeout[q[j]]

(* What std::sort may leave: events with equal deadlines in any order.     *)
Sortings(q) == {s \in SetToSeqs(ToSet(q)) : Descending(s)}

(* expire - now; the mutant swaps the operands.                            *)
SwappedNapTime(t) == now - timeout[t]
NapTime(t) == timeout[t] - now

(* Sort if marked, then look at the clock and at the back of the vector.   *)
LookAtEarliest ==
  /\ lpc = "look"
  /\ \E s \in IF is_sort THEN Sortings(event_vector) ELSE {event_vector} :
       /\ event_vector' = s
       /\ IF s = <<>>
          THEN lpc' = "test" /\ event_mutex' = NoThread /\ UNCHANGED napTime
          ELSE IF timeout[Last(s)] > now
          THEN lpc' = "nap" /\ napTime' = NapTime(Last(s)) /\ UNCHANGED event_mutex
          ELSE lpc' = "fire" /\ UNCHANGED <<event_mutex, napTime>>
  /\ is_sort' = FALSE /\ lag' = 0
  /\ UNCHANGED <<now, ids, timeout, execute_mutex, clients, nap_until, executors, exit, record>>

(* wait_for reads the clock again and adds the napTime to what it reads;   *)
(* the napTime is not used after that.                                     *)
StartNap ==
  /\ GoLoop("nap", "sleep")
  /\ nap_until' = now + napTime
  /\ napTime' = 0
  /\ UNCHANGED <<now, ids, vector, mutexes, clients, lag, executors, exit, record>>

NapOver ==
  /\ now >= nap_until /\ GoLoop("napping", "recheck")
  /\ UNCHANGED <<now, ids, vector, mutexes, clients, naps, executors, exit, record>>

(* Mutant of Recheck: it tests the expire that was read before the nap.    *)
RecheckStale ==
  /\ event_mutex = NoThread
  /\ IF event_vector # <<>> /\ nap_until <= now
     THEN GoLoop("recheck", "fire") /\ event_mutex' = Loop
     ELSE GoLoop("recheck", "test") /\ UNCHANGED event_mutex
  /\ UNCHANGED <<now, ids, vector, execute_mutex, clients, naps, executors, exit, record>>

(* wait_for has returned, with the mutex: look at the back again, unsorted.*)
Recheck ==
  /\ event_mutex = NoThread
  /\ IF event_vector # <<>> /\ timeout[Last(event_vector)] <= now
     THEN GoLoop("recheck", "fire") /\ event_mutex' = Loop
     ELSE GoLoop("recheck", "test") /\ UNCHANGED event_mutex
  /\ UNCHANGED <<now, ids, vector, execute_mutex, clients, naps, executors, exit, record>>

(* Mutant of Reschedule: _is_sort is not set.                              *)
RescheduleUnmarked(t) ==
  /\ IF t \in Repeats
     THEN timeout' = [timeout EXCEPT ![t] = now + Delay[t]] /\ UNCHANGED event_vector
     ELSE event_vector' = Front(event_vector) /\ UNCHANGED timeout
  /\ UNCHANGED is_sort

(* A repeating event stays with a new deadline, a one-shot is popped.      *)
Reschedule(t) ==
  IF t \in Repeats
  THEN /\ timeout' = [timeout EXCEPT ![t] = now + Delay[t]]
       /\ is_sort' = TRUE
       /\ UNCHANGED event_vector
  ELSE event_vector' = Front(event_vector) /\ UNCHANGED <<timeout, is_sort>>

(* _execute_cond.notify_one(); the mutant forgets it.                      *)
NotifyNobody == UNCHANGED epc
NotifyExecutor ==
  IF \E e \in Executors : epc[e] = "waiting"
  THEN \E e \in Executors : GoExecutor(e, "waiting", "lock")
  ELSE UNCHANGED epc

(* add_timeout_event, then reschedule; both under _event_mutex.            *)
FireEvent ==
  /\ GoLoop("fire", "test")
  /\ event_mutex' = NoThread
  /\ execute_mutex = NoThread
  /\ execute_event_list' = Append(execute_event_list, Last(event_vector))
  /\ NotifyExecutor
  /\ Reschedule(Last(event_vector))
  /\ UNCHANGED <<now, ids, execute_mutex, clients, naps, handlers, exit, record>>

-----------------------------------------------------------------------------
(* execute_timeout_event.                                                  *)

(* Lock _execute_mutex and evaluate the predicate.  When it holds, the     *)
(* rest of the critical section is one step with it: return if stopped,    *)
(* else pop the front.                                                     *)
AwaitHandler(e) ==
  /\ execute_mutex = NoThread
  /\ IF stop_thread
     THEN GoExecutor(e, "lock", "exited") /\ UNCHANGED <<execute_event_list, execute_mutex, hand>>
     ELSE IF execute_event_list # <<>>
     THEN /\ GoExecutor(e, "lock", "run")
          /\ hand' = [hand EXCEPT ![e] = Head(execute_event_list)]
          /\ execute_event_list' = Tail(execute_event_list)
          /\ UNCHANGED execute_mutex
     ELSE /\ GoExecutor(e, "lock", "block") /\ execute_mutex' = e
          /\ UNCHANGED <<execute_event_list, hand>>
  /\ UNCHANGED <<now, ids, vector, event_mutex, clients, looper, invoked, terminated,
                 begun, exit, record>>

BlockExecutor(e) ==
  /\ GoExecutor(e, "block", "waiting")
  /\ execute_mutex' = NoThread
  /\ UNCHANGED <<now, ids, vector, event_mutex, clients, looper, execute_event_list,
                 handlers, exit, record>>

SpuriousWakeExecutor(e) ==
  /\ GoExecutor(e, "waiting", "lock")
  /\ UNCHANGED <<now, ids, vector, mutexes, clients, looper, execute_event_list,
                 handlers, exit, record>>

(* ( *event )( ): a packaged_task that was called and not reset throws     *)
(* promise_already_satisfied, and nothing catches it.                      *)
StartHandler(e) ==
  /\ IF hand[e] \in invoked
     THEN /\ epc[e] = "run"
          /\ terminated' = TRUE
          /\ UNCHANGED <<epc, invoked, begun>>
     ELSE /\ GoExecutor(e, "run", "end")
          /\ invoked' = invoked \cup {hand[e]}
          /\ begun' = [begun EXCEPT ![hand[e]] = @ + 1]
          /\ UNCHANGED terminated
  /\ UNCHANGED <<now, ids, vector, mutexes, clients, looper, execute_event_list,
                 hand, exit, record>>

(* The handler returns, after the calls it made itself;                    *)
(* if ( isRepeat ) event->reset();                                         *)
EndHandler(e) ==
  /\ GoExecutor(e, "end", "lock")
  /\ e \in Users => upc[e] = "idle"
  /\ invoked' = invoked \ ({hand[e]} \cap Repeats)
  /\ hand' = [hand EXCEPT ![e] = NoTimer]
  /\ UNCHANGED <<now, ids, vector, mutexes, clients, looper, execute_event_list,
                 terminated, begun, exit, record>>

-----------------------------------------------------------------------------
(* timer_queue_exit, which ~TimerQueue calls unless it was called before.  *)

StopThreads ==
  /\ MayStop /\ xpc = "idle" /\ xpc' = "wake_loop"
  /\ stop_thread' = TRUE
  /\ UNCHANGED <<now, ids, vector, mutexes, clients, looper, executors, record>>

NotifyLoop ==
  /\ xpc = "wake_loop" /\ xpc' = "wake_executors"
  /\ WakeLoop
  /\ UNCHANGED <<now, ids, vector, mutexes, clients, naps, executors, stop_thread, record>>

NotifyExecutors ==
  /\ xpc = "wake_executors" /\ xpc' = "join"
  /\ epc' = [e \in Executors |-> IF epc[e] = "waiting" THEN "lock" ELSE epc[e]]
  /\ UNCHANGED <<now, ids, vector, mutexes, clients, looper, execute_event_list,
                 handlers, stop_thread, record>>

JoinThreads ==
  /\ xpc = "join" /\ xpc' = "done"
  /\ lpc = "exited" /\ \A e \in Executors : epc[e] = "exited"
  /\ UNCHANGED <<now, ids, vector, mutexes, clients, looper, executors, stop_thread, record>>

-----------------------------------------------------------------------------
UserStep(u) == InsertEvent(u) \/ NotifyCreated(u) \/ ReturnId(u)
LoopStep == \/ TestStop \/ AwaitEvent \/ BlockLoop \/ LookAtEarliest \/ StartNap \/ NapOver
            \/ Recheck \/ FireEvent
ExecutorStep(e) == AwaitHandler(e) \/ BlockExecutor(e) \/ StartHandler(e) \/ EndHandler(e)
ExitStep == NotifyLoop \/ NotifyExecutors \/ JoinThreads

Next ==
  /\ ~terminated
  /\ \/ Tick
     \/ \E u \in Users : \/ UserStep(u)
                         \/ \E t \in Timers : NewEvent(u, t) \/ CancelTimer(u, t)
     \/ LoopStep \/ SpuriousWakeLoop
     \/ \E e \in Executors : ExecutorStep(e) \/ SpuriousWakeExecutor(e)
     \/ StopThreads \/ ExitStep

Spec == Init /\ [][Next]_vars

(* The operating system runs every thread, time passes, a handler returns, *)
(* and a thread that keeps asking for a mutex gets it.  Nobody is obliged  *)
(* to create, cancel or stop, or to wake up without a notification.        *)
Fairness ==
  /\ WF_vars(~terminated /\ Tick)
  /\ \A u \in Users : SF_vars(~terminated /\ UserStep(u))
  /\ SF_vars(~terminated /\ LoopStep)
  /\ \A e \in Executors : SF_vars(~terminated /\ ExecutorStep(e))
  /\ WF_vars(~terminated /\ ExitStep)

FairSpec == Spec /\ Fairness

-----------------------------------------------------------------------------
(* Types of the queue's state.                                             *)
TypeOK ==
  /\ now \in 0 .. MaxTime /\ timer_id \in Nat
  /\ event_vector \in Seq(Timers) /\ execute_event_list \in Seq(Timers)
  /\ timeout \in [Timers -> Nat] /\ id \in [Timers -> Nat] /\ given \in [Timers -> Nat]
  /\ is_sort \in BOOLEAN /\ stop_thread \in BOOLEAN /\ terminated \in BOOLEAN
  /\ event_mutex \in {Loop, NoThread} /\ execute_mutex \in Executors \cup {NoThread}
  /\ upc \in [Users -> {"idle", "insert", "notify", "return"}]
  /\ making \in [Users -> Timers \cup {NoTimer}]
  /\ lpc \in {"test", "lock", "block", "waiting", "look", "nap", "sleep", "napping",
              "recheck", "fire", "exited"}
  /\ napTime \in Nat /\ nap_until \in Nat /\ lag \in Nat
  /\ epc \in [Executors -> {"lock", "block", "waiting", "run", "end", "exited"}]
  /\ hand \in [Executors -> Timers \cup {NoTimer}]
  /\ invoked \subseteq Timers /\ begun \in [Timers -> Nat]
  /\ xpc \in {"idle", "wake_loop", "wake_executors", "join", "done"}
  /\ requested \subseteq Timers /\ cancelled \subseteq Timers

(* Whenever _is_sort is clear the vector is sorted, latest first, so that  *)
(* its back is the earliest event (lines 165-178): every insertion, erasure *)
(* and rescheduling since the last sort has set the flag.                  *)
SortedUnlessMarked == ~is_sort => Descending(event_vector)

(* The loop does not oversleep: while it waits for an event, there is none, *)
(* and while it naps, no event is due before the nap ends, save for what   *)
(* the clock moved on between the loop's reading of it (line 173) and that *)
(* of wait_for (183), which adds the napTime to a later now.  The          *)
(* exception is an event whose create_timer is between lines 77 and 79.    *)
AboutToNotify == \E u \in Users : upc[u] = "notify"
NapEnd == IF lpc = "nap" THEN now + napTime ELSE nap_until
NoOversleep ==
  /\ lpc \in {"block", "waiting"} => event_vector = <<>> \/ AboutToNotify
  /\ lpc \in {"nap", "sleep", "napping"} =>
       AboutToNotify \/ \A t \in ToSet(event_vector) : NapEnd <= timeout[t] + lag

(* Until the queue is stopped, no executor sleeps while there are more     *)
(* handlers queued than executors on their way to _execute_mutex (lines    *)
(* 229-231, 242-253).                                                      *)
NoIdleExecutor ==
  ~stop_thread /\ (\E e \in Executors : epc[e] = "waiting") =>
    Len(execute_event_list) <= Cardinality({e \in Executors : epc[e] = "lock"})

(* cancel_timer erases no event but those it was called for (lines 88-101), *)
(* as long as every caller was given its own event's number: Timer_find_id *)
(* shows that it may not be.                                               *)
CancelsOnlyRequested ==
  (\A t \in Timers : given[t] \in {0, id[t]}) => cancelled \subseteq requested

(* The number a caller gets is the one its event carries: "Unique id for   *)
(* each event object" (line 17).                                           *)
GivenIdIsOwn == \A t \in Timers : given[t] # 0 => given[t] = id[t]

(* No handler is called on a packaged_task that is still in use: "Repeat   *)
(* event indefinitely if true" (line 19) takes a task ready for each call. *)
HandlersDoNotOverlap == ~terminated

(* The queue implements TimerService: never early, never twice, never      *)
(* after a cancellation, and no expiry lost or duplicated on its way       *)
(* through _execute_event_list.                                            *)
Armed   == ToSet(event_vector)
Created == {t \in Timers : id[t] # 0 /\ \A u \in Users : ~(upc[u] = "insert" /\ making[u] = t)}
Due     == [t \in Timers |->
              Cardinality({i \in 1 .. Len(execute_event_list) : execute_event_list[i] = t})
              + Cardinality({e \in Executors : epc[e] = "run" /\ hand[e] = t})]
Service == INSTANCE TimerService
             WITH created <- Created, armed <- Armed, due <- Due,
                  deadline <- [t \in Timers |-> IF t \in Armed THEN timeout[t] ELSE 0]
ServiceSpec == Service!Spec

(* Unless the queue is stopped, an event whose deadline the clock reaches  *)
(* is handed to the executors or cancelled: at the end of a nap that began *)
(* late, if need be, as long as that end is not beyond the bound of the    *)
(* model's clock.                                                          *)
NapPastBound == lpc = "napping" /\ nap_until > MaxTime
EveryTimerExpires ==
  \A t \in Timers : \A d \in 1 .. MaxTime :
    (t \in Armed /\ timeout[t] = d) ~>
      (t \notin Armed \/ timeout[t] # d \/ stop_thread \/ terminated \/ NapPastBound)

(* What is handed to the executors is started.                             *)
EveryExpiryStarts ==
  \A t \in Timers : Due[t] > 0 ~> Due[t] = 0 \/ stop_thread \/ terminated

(* timer_queue_exit is stuck only if the stop came between a predicate and *)
(* the wait it guards; a loop that naps is woken by its timer, unless that *)
(* lies beyond the bound of the model's clock.                             *)
StopSignalLost ==
  xpc = "join" /\ (lpc = "waiting" \/ \E e \in Executors : epc[e] = "waiting")
ExitReturnsUnlessSignalLost ==
  stop_thread ~> xpc = "done" \/ StopSignalLost \/ NapPastBound \/ terminated
=============================================================================
