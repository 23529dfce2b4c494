------------------------------ MODULE EventBus ------------------------------
(***************************************************************************)
(* The event bus of src/event: EventManager's multimap of listeners, the   *)
(* Builder that owns the listeners, the ThreadPool that calls them, and    *)
(* the destruction of these singletons when main returns.  The business    *)
(* classes (their init_event and dispatch) are those of                    *)
(* src/example/event-bus.  The pool is TaskPool, which ThreadPool          *)
(* implements; all notifications are normal tasks.                         *)
(***************************************************************************)
EXTENDS Integers, Sequences, FiniteSets, SequencesExt

CONSTANTS
  Main,           \* the thread that constructs, registers, pushes and exits
  Workers,        \* the pool's threads; a listener's on_notify may push too
  Listeners,      \* the business classes
  Indices,
  RegistersFor,   \* the indices each listener's init_event registers
  Dispatches,     \* the indices that construct_event's dispatch calls push
  MaxPush,        \* bound: notifications, those of dispatch apart
  MaxEntries,     \* bound: registrations for an index
  None            \* no listener, no index

Users == {Main} \cup Workers

ASSUME BusAssumption ==
  /\ IsFiniteSet(Workers) /\ Main \notin Workers /\ IsFiniteSet(Listeners)
  /\ None \notin Listeners \cup Indices
  /\ RegistersFor \in [Listeners -> SUBSET Indices]
  /\ Dispatches \in Seq(Indices)
  /\ MaxPush \in Nat /\ MaxEntries \in Nat

VARIABLES
  event_map,    \* _event_map: the listeners of each index, in range order
  script,       \* the pushes that construct_event has yet to make
  pushed,       \* how many calls of push_notify have begun
  pushing,      \* of each user: the call of push_notify it is inside
  task_queue,   \* the pool's state, see TaskPool; a task is a notification
  jobs_left,    \* with the listener it goes to
  bailout, finished, running, left, join,
  calls,        \* history: how often each notification reached each listener
  constructed,  \* the singletons, in order of construction
  destroyed,    \* the singletons that exit has destroyed
  vct_events,   \* Builder::_vct_events, as a set
  alive,        \* the listeners that exist
  returned,     \* whether main has returned
  late          \* history: whether a listener was pushing after that

listeners == <<event_map, vct_events, alive>>
pushes    == <<script, pushed, pushing>>
pool      == <<task_queue, jobs_left, bailout, finished, running, left, join, calls>>
lifetime  == <<constructed, destroyed, returned, late>>
vars      == <<listeners, pushes, pool, lifetime>>

NoPush  == [number |-> 0, index |-> None, position |-> 0, counting |-> FALSE]
NoNote  == [number |-> 0, listener |-> None]
Nothing == [l \in Listeners |-> 0]

Notes == [number : 1 .. MaxPush + Len(Dispatches), listener : Listeners]
Pool  == INSTANCE TaskPool WITH
           Clients <- Users, Tasks <- Notes, CriticalTasks <- {}, NoTask <- NoNote,
           counting <- {u \in Users : pushing[u].counting}

Init ==
  /\ event_map = [i \in Indices |-> <<>>]
  /\ script = <<>> /\ pushed = 0 /\ pushing = [u \in Users |-> NoPush]
  /\ Pool!Init /\ calls = <<>>
  /\ constructed = <<>> /\ destroyed = {} /\ returned = FALSE /\ late = FALSE
  /\ vct_events = {} /\ alive = {}

(* get_ins and get_instance_ptr: the first use constructs; in the mutant   *)
(* every use does.                                                         *)
UsedAgain(singletons, s) == Append(singletons, s)
Used(singletons, s) ==
  IF s \in ToSet(singletons) THEN singletons ELSE Append(singletons, s)

Touch(s) == constructed' = Used(constructed, s)

(* The map is changed only while nobody walks it: register_event locks     *)
(* _mtx, push_notify does not, so the program has to see to that.          *)
Quiescent == \A u \in Users : pushing[u] = NoPush

(* Main is outside construct_event, and main has not returned.             *)
MainFree == ~returned /\ script = <<>> /\ pushing[Main] = NoPush

-----------------------------------------------------------------------------
(* Builder.                                                                *)

(* construct_event: the listeners are built, each init_event registers its *)
(* indices (the place among equal keys is the library's choice), and the   *)
(* dispatch calls are left to push.                                        *)
ConstructEvents ==
  /\ MainFree /\ Quiescent /\ vct_events = {}
  /\ constructed' = Used(Used(constructed, "Builder"), "EventManager")
  /\ alive' = Listeners /\ vct_events' = Listeners
  /\ event_map' \in [Indices -> UNION {SetToSeqs(L) : L \in SUBSET Listeners}]
  /\ \A i \in Indices : ToSet(event_map'[i]) = {l \in Listeners : i \in RegistersFor[l]}
  /\ script' = Dispatches
  /\ UNCHANGED <<pushed, pushing, pool, destroyed, returned, late>>

(* destruct_event: delete ptr.  Only the loop's copy of the pointer is     *)
(* cleared, the vector keeps it, and a second call deletes again.          *)
DeleteEvents ==
  /\ alive' = alive \ vct_events
  /\ UNCHANGED <<event_map, vct_events>>

(* Main calls it itself only when nobody can reach the listeners any more: *)
(* all are unregistered and the pool has nothing for them.                 *)
DestructEvent ==
  /\ MainFree /\ Quiescent /\ alive # {}
  /\ \A i \in Indices : event_map[i] = <<>>
  /\ task_queue = <<>> /\ \A w \in Workers : running[w] = NoNote
  /\ DeleteEvents
  /\ UNCHANGED <<pushes, pool, lifetime>>

-----------------------------------------------------------------------------
(* EventManager.                                                           *)

RegisterEvent(i, l) ==
  /\ MainFree /\ Quiescent /\ l \in alive
  /\ Len(event_map[i]) < MaxEntries
  /\ \E k \in 1 .. Len(event_map[i]) + 1 :
       event_map' = [event_map EXCEPT ![i] = InsertAt(@, k, l)]
  /\ UNCHANGED <<vct_events, alive, pushes, pool, lifetime>>

(* The walk of unregister_event: an entry of the listener is erased, any   *)
(* other is stepped over.                                                  *)
Erased(entries, l) ==
  LET kept[k \in 0 .. Len(entries)] ==
        IF k = 0 THEN <<>>
        ELSE IF entries[k] = l THEN kept[k - 1] ELSE Append(kept[k - 1], entries[k])
  IN  kept[Len(entries)]

(* The mutant steps over the entry that follows an erased one.             *)
UnregisterSkipping(i, l) ==
  /\ MainFree /\ Quiescent /\ l \in ToSet(event_map[i])
  /\ event_map' = [event_map EXCEPT ![i] = RemoveFirst(@, l)]
  /\ UNCHANGED <<vct_events, alive, pushes, pool, lifetime>>

(* Every entry of the listener in the index's range is erased.             *)
UnregisterEvent(i, l) ==
  /\ MainFree /\ Quiescent /\ l \in ToSet(event_map[i])
  /\ event_map' = [event_map EXCEPT ![i] = Erased(@, l)]
  /\ UNCHANGED <<vct_events, alive, pushes, pool, lifetime>>

(* Main pushes what dispatch says first and then what it likes; a worker   *)
(* pushes from on_notify.                                                  *)
Dispatched == IF vct_events = {} THEN 0 ELSE Len(Dispatches) - Len(script)
MayPush(u, i) ==
  IF u = Main /\ script # <<>> THEN i = Head(script)
  ELSE /\ IF u = Main THEN ~returned ELSE running[u] # NoNote
       /\ pushed - Dispatched < MaxPush

(* push_notify up to equal_range.                                          *)
PushNotify(u, i) ==
  /\ pushing[u] = NoPush /\ MayPush(u, i)
  /\ Touch("EventManager")
  /\ script' = IF u = Main /\ script # <<>> THEN Tail(script) ELSE script
  /\ pushed' = pushed + 1
  /\ pushing' = [pushing EXCEPT ![u] =
                   [number |-> pushed + 1, index |-> i, position |-> 1, counting |-> FALSE]]
  /\ calls' = Append(calls, Nothing)
  /\ late' = (late \/ (returned /\ u \in Workers))
  /\ UNCHANGED <<listeners, task_queue, jobs_left, bailout, finished, running, left, join,
                 destroyed, returned>>

(* One call of the lambda of for_each: add_normal_task inserts the task.   *)
(* Its first use constructs the pool, which starts the workers.            *)
Enqueue(u) ==
  LET p == pushing[u]
  IN  /\ p # NoPush /\ p.position <= Len(event_map[p.index])
      /\ Touch("ThreadPool")
      /\ pushing' = [pushing EXCEPT ![u].counting = TRUE]
      /\ Pool!Insert(u, [number |-> p.number, listener |-> event_map[p.index][p.position]])
      /\ UNCHANGED <<listeners, script, pushed, calls, destroyed, returned, late>>

(* ++_jobs_left, and the lambda's ++itor.first; the mutant forgets the     *)
(* former.                                                                 *)
AdvanceOnly(u) ==
  /\ pushing[u].counting
  /\ pushing' = [pushing EXCEPT ![u].counting = FALSE, ![u].position = @ + 1]
  /\ UNCHANGED <<listeners, script, pushed, pool, lifetime>>

CountAndAdvance(u) ==
  /\ pushing' = [pushing EXCEPT ![u].counting = FALSE, ![u].position = @ + 1]
  /\ Pool!Count(u)
  /\ UNCHANGED <<listeners, script, pushed, calls, lifetime>>

ReturnFromPush(u) ==
  /\ pushing[u] # NoPush /\ ~pushing[u].counting
  /\ pushing[u].position > Len(event_map[pushing[u].index])
  /\ pushing' = [pushing EXCEPT ![u] = NoPush]
  /\ UNCHANGED <<listeners, script, pushed, pool, lifetime>>

-----------------------------------------------------------------------------
(* The pool.                                                               *)

(* The program uses the pool for something of its own.                     *)
UsePool ==
  /\ MainFree
  /\ Touch("ThreadPool")
  /\ UNCHANGED <<listeners, pushes, pool, destroyed, returned, late>>

(* next_task, and the call of on_notify.                                   *)
TakeNote(w) ==
  /\ UNCHANGED <<listeners, pushes, lifetime>>
  /\ Pool!Take(w)
  /\ calls' = [calls EXCEPT ![Head(task_queue).number][Head(task_queue).listener] = @ + 1]

(* on_notify returns, when its own pushes have; --_jobs_left.              *)
ReturnNote(w) ==
  /\ pushing[w] = NoPush
  /\ UNCHANGED <<listeners, pushes, calls, lifetime>>
  /\ Pool!CountOff(w)

EndIdle(w) == UNCHANGED <<listeners, pushes, calls, lifetime>> /\ Pool!CountOffNothing(w)

-----------------------------------------------------------------------------
(* main returns: the singletons are destroyed, the last constructed first. *)

ReturnFromMain ==
  /\ MainFree
  /\ returned' = TRUE
  /\ late' = \E w \in Workers : pushing[w] # NoPush
  /\ UNCHANGED <<listeners, pushes, pool, constructed, destroyed>>

Before(s, t) ==
  \E j, k \in 1 .. Len(constructed) : constructed[j] = s /\ constructed[k] = t /\ j < k

Remaining == ToSet(constructed) \ destroyed

(* Which singleton is destroyed next; the mutant takes the first.          *)
OldestSingleton == CHOOSE s \in Remaining : \A t \in Remaining \ {s} : Before(s, t)
NextDestroyed   == CHOOSE s \in Remaining : \A t \in Remaining \ {s} : Before(t, s)

(* ~Builder; ~EventManager only frees the map.                             *)
DestroyBusPart ==
  /\ returned /\ Remaining # {} /\ NextDestroyed # "ThreadPool"
  /\ destroyed' = destroyed \cup {NextDestroyed}
  /\ IF NextDestroyed = "Builder" THEN DeleteEvents ELSE UNCHANGED listeners
  /\ UNCHANGED <<pushes, pool, constructed, returned, late>>

(* ~ThreadPool is join_all_thread(true).                                  *)
DestroyPool ==
  /\ returned /\ Remaining # {} /\ NextDestroyed = "ThreadPool"
  /\ UNCHANGED <<listeners, pushes, calls, lifetime>>
  /\ Pool!JoinAllThread(TRUE) \/ Pool!WaitAll \/ Pool!Drained \/ Pool!SetBailout

JoinThreads ==
  /\ destroyed' = destroyed \cup {"ThreadPool"}
  /\ UNCHANGED <<listeners, pushes, calls, constructed, returned, late>>
  /\ Pool!JoinThreads

-----------------------------------------------------------------------------
WorkerStep(w) == TakeNote(w) \/ ReturnNote(w) \/ EndIdle(w)
PushStep(u)   == Enqueue(u) \/ CountAndAdvance(u) \/ ReturnFromPush(u)
ExitStep      == DestroyBusPart \/ DestroyPool \/ JoinThreads

Next ==
  \/ ConstructEvents \/ DestructEvent \/ UsePool \/ ReturnFromMain \/ ExitStep
  \/ \E i \in Indices, l \in Listeners : RegisterEvent(i, l) \/ UnregisterEvent(i, l)
  \/ \E u \in Users : PushStep(u) \/ \E i \in Indices : PushNotify(u, i)
  \/ \E w \in Workers : WorkerStep(w)

Spec == Init /\ [][Next]_vars

(* Threads that are inside a call go on, and handlers return.              *)
FairSpec ==
  /\ Spec
  /\ \A u \in Users : WF_vars(PushStep(u))
  /\ \A w \in Workers : WF_vars(WorkerStep(w))

-----------------------------------------------------------------------------
Singletons == {"Builder", "EventManager", "ThreadPool"}
Note == [number : 1 .. pushed, listener : Listeners]
Push == [number : 1 .. pushed, index : Indices, position : Nat \ {0}, counting : BOOLEAN]

(* Types of the bus's state.                                               *)
TypeOK ==
  /\ event_map \in [Indices -> Seq(Listeners)]
  /\ script \in Seq(Indices) /\ pushed \in Nat
  /\ pushing \in [Users -> {NoPush} \cup Push]
  /\ task_queue \in Seq(Note) /\ running \in [Workers -> {NoNote} \cup Note]
  /\ jobs_left \in Int /\ bailout \in BOOLEAN /\ finished \in BOOLEAN
  /\ left \subseteq Workers /\ join \in {"no", "check", "wait", "bail", "join"}
  /\ calls \in Seq([Listeners -> Nat]) /\ Len(calls) = pushed
  /\ constructed \in Seq(Singletons) /\ IsInjective(constructed)
  /\ destroyed \subseteq ToSet(constructed)
  /\ vct_events \subseteq Listeners /\ alive \subseteq Listeners
  /\ returned \in BOOLEAN /\ late \in BOOLEAN

(* The deliveries still to come of a notification: those in the queue, and *)
(* what the walk of the range has yet to reach.                            *)
ToWalk(u) ==
  LET p == pushing[u]
  IN  IF p = NoPush THEN <<>>
      ELSE SubSeq(event_map[p.index], p.position + IF p.counting THEN 1 ELSE 0,
                  Len(event_map[p.index]))
Times(s, x) == Cardinality({k \in 1 .. Len(s) : s[k] = x})
Pending(n, l) ==
  Times(task_queue, [number |-> n, listener |-> l]) +
  IF \E u \in Users : pushing[u].number = n
  THEN Times(ToWalk(CHOOSE u \in Users : pushing[u].number = n), l) ELSE 0

(* push_notify (lines 60-67 of event_manager.h) walks the range with one   *)
(* iterator while for_each walks it with another, and the pool takes over: *)
(* all of it together delivers as BusService allows, each notification to  *)
(* the listeners registered when it was pushed, once per registration.     *)
Service == INSTANCE BusService WITH
  registered <- [i \in Indices |-> [l \in Listeners |-> Times(event_map[i], l)]],
  pending    <- [n \in 1 .. pushed |-> [l \in Listeners |-> Pending(n, l)]],
  delivered  <- calls
BusSpec == Service!Spec

(* The queue holds bare Event pointers (line 64 of event_manager.h).  The  *)
(* order in which the singletons come to life keeps them valid: while a    *)
(* worker is in on_notify, the listener has not been deleted if Builder is *)
(* older than the pool, and the EventManager that on_notify may push to    *)
(* exists if that is older than the pool.                                  *)
ListenersOutliveCalls ==
  \A w \in Workers : running[w] # NoNote =>
    /\ Before("Builder", "ThreadPool") => running[w].listener \in alive
    /\ Before("EventManager", "ThreadPool") => "EventManager" \notin destroyed

(* Once ~ThreadPool has waited (lines 76-79 and 105-114 of thread_pool.h)  *)
(* nothing is undelivered and nobody is in a listener, unless a listener   *)
(* was still pushing from on_notify: its task can be run before it is      *)
(* counted.                                                                *)
NothingLeftBehind ==
  (join = "bail" \/ bailout) /\ ~late =>
    task_queue = <<>> /\ \A w \in Workers : running[w] = NoNote

(* Every delivery that a push owes is made, though main may return first   *)
(* (with the same exception): push_notify and the pool lose none.          *)
EveryNotificationArrives ==
  \A n \in 1 .. MaxPush + Len(Dispatches), l \in Listeners :
    (n <= pushed /\ Pending(n, l) > 0) ~> (Pending(n, l) = 0 \/ late)
=============================================================================
