-------------------------- MODULE TimerQueueProofs --------------------------
(***************************************************************************)
(* Theorems about TimerQueue for any sets of users, executors and timers,  *)
(* any delays and any bound on the clock, with and without a stop.         *)
(***************************************************************************)
EXTENDS TimerQueue, QueueLemmas

-----------------------------------------------------------------------------
(* Type correctness, with what it needs: who owns which mutex, what a user *)
(* and an executor hold at each of their steps, and that the vector is not *)
(* empty when the loop fires its last event.                               *)

HoldInv ==
  /\ lpc \in {"block", "look", "nap", "sleep", "fire"} <=> event_mutex = Loop
  /\ \A e \in Executors : epc[e] = "block" <=> execute_mutex = e
  /\ \A u \in Users : upc[u] # "idle" <=> making[u] # NoTimer
  /\ \A e \in Executors : epc[e] \in {"run", "end"} <=> hand[e] # NoTimer
  /\ lpc = "fire" => event_vector # <<>>

SafeInv == TypeOK /\ HoldInv

LEMMA SafeInvInit == Init => SafeInv
<1> SUFFICES ASSUME Init PROVE SafeInv
  OBVIOUS
<1> USE TimerAssumption
<1>1. event_vector \in Seq(Timers) /\ execute_event_list \in Seq(Timers)
  BY EmptySeq DEF Init
<1>2. /\ now \in 0 .. MaxTime /\ timer_id \in Nat
      /\ napTime \in Nat /\ nap_until \in Nat /\ lag \in Nat
      /\ timeout \in [Timers -> Nat] /\ id \in [Timers -> Nat] /\ given \in [Timers -> Nat]
      /\ begun \in [Timers -> Nat]
  BY SMT DEF Init
<1>3. is_sort \in BOOLEAN /\ stop_thread \in BOOLEAN /\ terminated \in BOOLEAN
  BY Zenon DEF Init
<1>4. /\ event_mutex \in {Loop, NoThread} /\ execute_mutex \in Executors \cup {NoThread}
      /\ upc \in [Users -> {"idle", "insert", "notify", "return"}]
      /\ making \in [Users -> Timers \cup {NoTimer}]
      /\ lpc = "test" /\ xpc = "idle"
      /\ epc \in [Executors -> {"lock", "block", "waiting", "run", "end", "exited"}]
      /\ hand \in [Executors -> Timers \cup {NoTimer}]
      /\ invoked \subseteq Timers /\ requested \subseteq Timers /\ cancelled \subseteq Timers
  BY SMT DEF Init
<1>5. HoldInv
  BY SMT DEF Init, HoldInv
<1> QED  BY <1>1, <1>2, <1>3, <1>4, <1>5, Zenon DEF SafeInv, TypeOK

(* Sorting rearranges the vector: no event is lost, added or doubled.      *)
LEMMA SortKeepsEvents ==
  ASSUME TypeOK, NEW s \in IF is_sort THEN Sortings(event_vector) ELSE {event_vector}
  PROVE  /\ s \in Seq(Timers) /\ ToSet(s) = ToSet(event_vector)
         /\ IsInjective(event_vector) => IsInjective(s)
         /\ s = <<>> <=> event_vector = <<>>
<1>1. event_vector \in Seq(Timers) /\ is_sort \in BOOLEAN
  BY DEF TypeOK
<1>2. ToSet(event_vector) \in SUBSET Timers
  BY <1>1, ElementOfSeq, LenProperties DEF ToSet
<1>3. IsFiniteSet(ToSet(event_vector))
  BY <1>2, FS_Subset, TimerAssumption
<1>4. CASE is_sort
  <2>1. s \in SetToSeqs(ToSet(event_vector))
    BY <1>4 DEF Sortings
  <2>2. s \in Seq(ToSet(event_vector)) /\ IsInjective(s) /\ ToSet(s) = ToSet(event_vector)
    BY <1>3, <2>1, ArrangementOfSet
  <2>3. s \in Seq(Timers)
    BY <1>2, <2>2, SeqMonotonic
  <2> QED  BY <1>1, <2>2, <2>3, EmptyIffNoElement
<1>5. CASE ~is_sort
  BY <1>1, <1>5
<1> QED  BY <1>1, <1>4, <1>5

LEMMA QueueFacts ==
  ASSUME TypeOK
  PROVE  /\ \A t \in Timers : /\ Append(event_vector, t) \in Seq(Timers) \ {<<>>}
                              /\ Append(execute_event_list, t) \in Seq(Timers)
                              /\ now + Delay[t] \in Nat
         /\ event_vector # <<>> =>
              Last(event_vector) \in Timers /\ Front(event_vector) \in Seq(Timers)
         /\ execute_event_list # <<>> =>
              Head(execute_event_list) \in Timers /\ Tail(execute_event_list) \in Seq(Timers)
<1>1. event_vector \in Seq(Timers) /\ execute_event_list \in Seq(Timers)
  BY DEF TypeOK
<1>2. now \in Nat /\ Delay \in [Timers -> Nat]
  BY TimerAssumption DEF TypeOK
<1>3. ASSUME NEW t \in Timers
      PROVE  /\ Append(event_vector, t) \in Seq(Timers) \ {<<>>}
             /\ Append(execute_event_list, t) \in Seq(Timers)
             /\ now + Delay[t] \in Nat
  <2>1. now + Delay[t] \in Nat
    BY <1>2
  <2>2. /\ Append(event_vector, t) \in Seq(Timers) /\ Append(event_vector, t) # <<>>
        /\ Append(execute_event_list, t) \in Seq(Timers)
    BY <1>1, AppendToSet
  <2> QED  BY <2>1, <2>2
<1>4. ASSUME event_vector # <<>>
      PROVE  Last(event_vector) \in Timers /\ Front(event_vector) \in Seq(Timers)
  BY <1>1, <1>4, FrontIsRemoveAt, RemoveAtEntries
<1>5. ASSUME execute_event_list # <<>>
      PROVE  Head(execute_event_list) \in Timers /\ Tail(execute_event_list) \in Seq(Timers)
  BY <1>1, <1>5, HeadTailProperties
<1> QED  BY <1>3, <1>4, <1>5

LEMMA SafeInvStep == SafeInv /\ [Next]_vars => SafeInv'
<1> SUFFICES ASSUME SafeInv, [Next]_vars PROVE SafeInv'
  OBVIOUS
<1>q. /\ \A t \in Timers : /\ Append(event_vector, t) \in Seq(Timers) \ {<<>>}
                           /\ Append(execute_event_list, t) \in Seq(Timers)
                           /\ now + Delay[t] \in Nat
      /\ event_vector # <<>> =>
           Last(event_vector) \in Timers /\ Front(event_vector) \in Seq(Timers)
      /\ execute_event_list # <<>> =>
           Head(execute_event_list) \in Timers /\ Tail(execute_event_list) \in Seq(Timers)
  BY QueueFacts DEF SafeInv
<1> USE TimerAssumption DEF SafeInv, TypeOK, HoldInv, GoUser, GoLoop, GoExecutor, WakeLoop,
        ids, vector, mutexes, clients, naps, looper, handlers, executors, exit, record
<1>1. CASE Tick
  <2>1. now' \in 0 .. MaxTime
    BY <1>1 DEF Tick
  <2>2. UNCHANGED <<ids, vector, mutexes, clients, lpc, napTime, nap_until,
                    executors, exit, record>>
    BY <1>1 DEF Tick
  <2>3. lag' \in Nat
    BY <1>1 DEF Tick
  <2> QED  BY <2>1, <2>2, <2>3, SMTT(30)
<1>2. ASSUME NEW u \in Users, NEW t \in Timers, NewEvent(u, t)  PROVE SafeInv'
  <2>1. now + Delay[t] \in Nat /\ timer_id + 1 \in Nat
    BY <1>q
  <2>2. timer_id' \in Nat /\ id' \in [Timers -> Nat] /\ timeout' \in [Timers -> Nat]
    BY <1>2, <2>1 DEF NewEvent, NextId
  <2>3. /\ upc' \in [Users -> {"idle", "insert", "notify", "return"}]
        /\ making' \in [Users -> Timers \cup {NoTimer}]
        /\ \A v \in Users : upc'[v] # "idle" <=> making'[v] # NoTimer
    BY <1>2 DEF NewEvent
  <2>4. UNCHANGED <<now, event_vector, is_sort, mutexes, given, looper, executors, exit, record>>
    BY <1>2 DEF NewEvent
  <2>5. HoldInv'
    BY <2>3, <2>4
  <2>6. TypeOK'
    BY <2>2, <2>3, <2>4, ZenonT(60)
  <2> QED  BY <2>5, <2>6
<1>3. ASSUME NEW u \in Users, InsertEvent(u)  PROVE SafeInv'
  <2>1. making[u] \in Timers
    BY <1>3 DEF InsertEvent
  <2>2. event_vector' = Append(event_vector, making[u])
    BY <1>3 DEF InsertEvent
  <2>3. event_vector' \in Seq(Timers) /\ event_vector' # <<>>
    BY <1>q, <2>1, <2>2
  <2>4. /\ upc' \in [Users -> {"idle", "insert", "notify", "return"}]
        /\ \A v \in Users : upc'[v] # "idle" <=> upc[v] # "idle"
    BY <1>3 DEF InsertEvent
  <2>5. is_sort' = TRUE
    BY <1>3 DEF InsertEvent
  <2>6. UNCHANGED <<now, ids, timeout, mutexes, making, given, looper, executors, exit, record>>
    BY <1>3 DEF InsertEvent
  <2>7. HoldInv'
    BY <2>3, <2>4, <2>6
  <2>8. TypeOK'
    BY <2>3, <2>4, <2>5, <2>6
  <2> QED  BY <2>7, <2>8
<1>4. ASSUME NEW u \in Users, NotifyCreated(u)  PROVE SafeInv'
  <2>1. /\ upc' \in [Users -> {"idle", "insert", "notify", "return"}]
        /\ \A v \in Users : upc'[v] # "idle" <=> upc[v] # "idle"
    BY <1>4 DEF NotifyCreated
  <2>2. /\ lpc' \in {lpc, "lock", "recheck"}
        /\ lpc' # lpc => lpc \in {"waiting", "napping"}
    BY <1>4 DEF NotifyCreated
  <2>3. UNCHANGED <<now, ids, vector, mutexes, making, given, naps, executors, exit, record>>
    BY <1>4 DEF NotifyCreated
  <2> QED  BY <2>1, <2>2, <2>3, ZenonT(60)
<1>5. ASSUME NEW u \in Users, ReturnId(u)  PROVE SafeInv'
  <2>1. /\ upc' \in [Users -> {"idle", "insert", "notify", "return"}]
        /\ making' \in [Users -> Timers \cup {NoTimer}]
        /\ \A v \in Users : upc'[v] # "idle" <=> making'[v] # NoTimer
    BY <1>5 DEF ReturnId
  <2>2. given' \in [Timers -> Nat]
    BY <1>5 DEF ReturnId
  <2>3. UNCHANGED <<now, ids, vector, mutexes, looper, executors, exit, record>>
    BY <1>5 DEF ReturnId
  <2>4. HoldInv'
    BY <2>1, <2>3
  <2>5. TypeOK'
    BY <2>1, <2>2, <2>3, SMTT(30)
  <2> QED  BY <2>4, <2>5
<1>6. ASSUME NEW u \in Users, NEW t \in Timers, CancelTimer(u, t)  PROVE SafeInv'
  <2>1. event_vector' \in Seq(Timers) /\ cancelled' \subseteq Timers /\ is_sort' \in BOOLEAN
    <3>1. CASE Matches(given[t]) = {}
      BY <1>6, <3>1 DEF CancelTimer
    <3>2. CASE Matches(given[t]) # {}
      <4>1. PICK i \in 1 .. Len(event_vector) :
              /\ event_vector' = RemoveAt(event_vector, i)
              /\ is_sort' = TRUE
              /\ cancelled' = cancelled \cup {event_vector[i]}
        BY <1>6, <3>2 DEF CancelTimer, Matches
      <4>2. event_vector[i] \in Timers
        BY ElementOfSeq
      <4> QED  BY <4>1, <4>2, RemoveAtEntries
    <3> QED  BY <3>1, <3>2
  <2>2. lpc # "fire"
    BY <1>6 DEF CancelTimer
  <2> QED  BY <1>6, <2>1, <2>2 DEF CancelTimer
<1>7. CASE TestStop
  BY <1>7 DEF TestStop
<1>8. CASE AwaitEvent
  BY <1>8 DEF AwaitEvent
<1>9. CASE BlockLoop
  BY <1>9 DEF BlockLoop
<1>10. CASE SpuriousWakeLoop
  BY <1>10 DEF SpuriousWakeLoop
<1>11. CASE LookAtEarliest
  <2>1. PICK s \in IF is_sort THEN Sortings(event_vector) ELSE {event_vector} :
          /\ event_vector' = s
          /\ IF s = <<>>
             THEN lpc' = "test" /\ event_mutex' = NoThread /\ UNCHANGED napTime
             ELSE IF timeout[Last(s)] > now
             THEN lpc' = "nap" /\ napTime' = NapTime(Last(s)) /\ UNCHANGED event_mutex
             ELSE lpc' = "fire" /\ UNCHANGED <<event_mutex, napTime>>
    BY <1>11 DEF LookAtEarliest
  <2>2. s \in Seq(Timers)
    BY SortKeepsEvents
  <2>3. napTime' \in Nat
    <3>1. \/ napTime' = napTime
          \/ s # <<>> /\ timeout[Last(s)] > now /\ napTime' = timeout[Last(s)] - now
      BY <2>1 DEF NapTime
    <3>2. napTime \in Nat /\ now \in Nat
      OBVIOUS
    <3>3. CASE s # <<>> /\ timeout[Last(s)] > now /\ napTime' = timeout[Last(s)] - now
      <4>1. Last(s) \in Timers
        BY <2>2, <3>3, FrontIsRemoveAt
      <4>2. timeout[Last(s)] \in Nat
        BY <4>1
      <4> HIDE DEF TypeOK, HoldInv, SafeInv
      <4> QED  BY <3>2, <3>3, <4>2
    <3> HIDE DEF TypeOK, HoldInv, SafeInv
    <3> QED  BY <3>1, <3>2, <3>3
  <2>4. /\ event_vector' \in Seq(Timers)
        /\ lpc' \in {"test", "nap", "fire"} /\ lpc = "look"
        /\ lpc' = "fire" => event_vector' # <<>>
        /\ lpc' = "test" => event_mutex' = NoThread
        /\ lpc' # "test" => event_mutex' = event_mutex
    BY <1>11, <2>1, <2>2 DEF LookAtEarliest
  <2>5. /\ is_sort' = FALSE /\ lag' = 0
        /\ UNCHANGED <<now, ids, timeout, execute_mutex, clients, nap_until,
                       executors, exit, record>>
    BY <1>11 DEF LookAtEarliest
  <2>6. HoldInv'
    BY <2>4, <2>5
  <2>7. TypeOK'
    BY <2>3, <2>4, <2>5
  <2> QED  BY <2>6, <2>7
<1>12. CASE NapOver
  BY <1>12 DEF NapOver
<1>nap. CASE StartNap
  <2>1. /\ lpc = "nap" /\ lpc' = "sleep" /\ nap_until' = now + napTime /\ napTime' = 0
        /\ UNCHANGED <<now, ids, vector, mutexes, clients, lag, executors, exit, record>>
    BY <1>nap DEF StartNap
  <2>2. nap_until' \in Nat
    BY <2>1
  <2>3. HoldInv'
    BY <2>1
  <2>4. TypeOK'
    BY <2>1, <2>2, SMTT(30)
  <2> QED  BY <2>3, <2>4
<1>13. CASE Recheck
  BY <1>13 DEF Recheck
<1>14. CASE FireEvent
  <2> DEFINE t == Last(event_vector)
  <2>1. event_vector # <<>> /\ t \in Timers
    BY <1>14, <1>q DEF FireEvent
  <2>2. execute_event_list' \in Seq(Timers)
    BY <1>14, <1>q, <2>1 DEF FireEvent
  <2>3. /\ epc' \in [Executors -> {"lock", "block", "waiting", "run", "end", "exited"}]
        /\ \A e \in Executors : epc'[e] = "block" <=> epc[e] = "block"
        /\ \A e \in Executors : epc'[e] \in {"run", "end"} <=> epc[e] \in {"run", "end"}
    BY <1>14, ZenonT(60) DEF FireEvent, NotifyExecutor
  <2>4. event_vector' \in Seq(Timers) /\ timeout' \in [Timers -> Nat] /\ is_sort' \in BOOLEAN
    <3>1. Reschedule(t)
      BY <1>14 DEF FireEvent
    <3>2. now + Delay[t] \in Nat
      BY <1>q, <2>1
    <3>3. Front(event_vector) \in Seq(Timers)
      BY <1>q, <2>1
    <3> HIDE DEF t
    <3>4. CASE t \in Repeats
      <4>1. /\ timeout' = [timeout EXCEPT ![t] = now + Delay[t]]
            /\ is_sort' = TRUE /\ event_vector' = event_vector
        BY <3>1, <3>4, Zenon DEF Reschedule
      <4>2. timeout' \in [Timers -> Nat]
        BY <3>2, <4>1, Zenon
      <4> QED  BY <4>1, <4>2
    <3>5. CASE t \notin Repeats
      BY <3>1, <3>3, <3>5 DEF Reschedule
    <3> QED  BY <3>4, <3>5
  <2>5. /\ lpc' = "test" /\ event_mutex' = NoThread
        /\ UNCHANGED <<now, ids, execute_mutex, clients, naps, handlers, exit, record>>
    BY <1>14 DEF FireEvent
  <2>6. HoldInv'
    BY <2>3, <2>5
  <2>7. TypeOK'
    BY <2>2, <2>3, <2>4, <2>5
  <2> QED  BY <2>6, <2>7
<1>15. ASSUME NEW e \in Executors, AwaitHandler(e)  PROVE SafeInv'
  <2>1. CASE stop_thread
    <3>1. epc[e] = "lock" /\ epc' = [epc EXCEPT ![e] = "exited"]
      BY <1>15, <2>1 DEF AwaitHandler
    <3>2. /\ epc' \in [Executors -> {"lock", "block", "waiting", "run", "end", "exited"}]
          /\ \A f \in Executors : epc'[f] = "block" <=> epc[f] = "block"
          /\ \A f \in Executors : epc'[f] \in {"run", "end"} <=> epc[f] \in {"run", "end"}
      BY <3>1
    <3>3. UNCHANGED <<now, ids, vector, mutexes, clients, looper, execute_event_list, hand,
                      invoked, terminated, begun, exit, record>>
      BY <1>15, <2>1 DEF AwaitHandler
    <3>4. HoldInv'
      BY <3>2, <3>3
    <3>5. TypeOK'
      BY <3>2, <3>3, SMTT(30)
    <3> QED  BY <3>4, <3>5
  <2>2. CASE ~stop_thread /\ execute_event_list # <<>>
    <3>0. /\ epc[e] = "lock" /\ epc' = [epc EXCEPT ![e] = "run"]
          /\ hand' = [hand EXCEPT ![e] = Head(execute_event_list)]
          /\ execute_mutex' = execute_mutex
      BY <1>15, <2>2 DEF AwaitHandler
    <3>1. Head(execute_event_list) \in Timers /\ Tail(execute_event_list) \in Seq(Timers)
      BY <1>q, <2>2
    <3>2. execute_event_list' \in Seq(Timers)
      BY <1>15, <2>2, <3>1 DEF AwaitHandler
    <3>3. /\ epc' \in [Executors -> {"lock", "block", "waiting", "run", "end", "exited"}]
          /\ hand' \in [Executors -> Timers \cup {NoTimer}]
          /\ \A f \in Executors : epc'[f] \in {"run", "end"} <=> hand'[f] # NoTimer
          /\ \A f \in Executors : epc'[f] = "block" <=> epc[f] = "block"
      <4>1. /\ epc' \in [Executors -> {"lock", "block", "waiting", "run", "end", "exited"}]
            /\ hand' \in [Executors -> Timers \cup {NoTimer}]
        BY <3>0, <3>1
      <4>2. /\ \A f \in Executors : epc'[f] \in {"run", "end"} <=> hand'[f] # NoTimer
            /\ \A f \in Executors : epc'[f] = "block" <=> epc[f] = "block"
        BY <3>0, <3>1
      <4> QED  BY <4>1, <4>2
    <3>4. UNCHANGED <<now, ids, vector, mutexes, clients, looper, invoked, terminated,
                      begun, exit, record>>
      BY <1>15, <2>2 DEF AwaitHandler
    <3>5. HoldInv'
      BY <3>0, <3>3, <3>4
    <3>6. TypeOK'
      BY <3>0, <3>2, <3>3, <3>4, ZenonT(60)
    <3> QED  BY <3>5, <3>6
  <2>3. CASE ~stop_thread /\ execute_event_list = <<>>
    <3>0. /\ execute_mutex = NoThread /\ execute_mutex' = e
          /\ epc[e] = "lock" /\ epc' = [epc EXCEPT ![e] = "block"]
      BY <1>15, <2>3 DEF AwaitHandler
    <3>1. /\ epc' \in [Executors -> {"lock", "block", "waiting", "run", "end", "exited"}]
          /\ \A f \in Executors : epc'[f] = "block" <=> execute_mutex' = f
          /\ \A f \in Executors : epc'[f] \in {"run", "end"} <=> epc[f] \in {"run", "end"}
      BY <3>0
    <3>2. UNCHANGED <<now, ids, vector, event_mutex, clients, looper, execute_event_list, hand,
                      invoked, terminated, begun, exit, record>>
      BY <1>15, <2>3 DEF AwaitHandler
    <3>3. HoldInv'
      BY <3>0, <3>1, <3>2
    <3>4. TypeOK'
      BY <3>0, <3>1, <3>2
    <3> QED  BY <3>3, <3>4
  <2> QED  BY <2>1, <2>2, <2>3
<1>16. ASSUME NEW e \in Executors, BlockExecutor(e)  PROVE SafeInv'
  <2>1. /\ epc' = [epc EXCEPT ![e] = "waiting"] /\ epc[e] = "block" /\ execute_mutex' = NoThread
        /\ UNCHANGED <<now, ids, vector, event_mutex, clients, looper, execute_event_list,
                       handlers, exit, record>>
    BY <1>16 DEF BlockExecutor
  <2>2. /\ epc' \in [Executors -> {"lock", "block", "waiting", "run", "end", "exited"}]
        /\ \A f \in Executors : epc'[f] # "block"
        /\ \A f \in Executors : epc'[f] \in {"run", "end"} <=> epc[f] \in {"run", "end"}
    BY <2>1
  <2>3. HoldInv'
    BY TimerAssumption, <2>1, <2>2
  <2>4. TypeOK'
    BY <2>1, <2>2
  <2> QED  BY <2>3, <2>4
<1>17. ASSUME NEW e \in Executors, SpuriousWakeExecutor(e)  PROVE SafeInv'
  <2>1. /\ epc' = [epc EXCEPT ![e] = "lock"] /\ epc[e] = "waiting"
        /\ UNCHANGED <<now, ids, vector, mutexes, clients, looper, execute_event_list,
                       handlers, exit, record>>
    BY <1>17 DEF SpuriousWakeExecutor
  <2>2. /\ epc' \in [Executors -> {"lock", "block", "waiting", "run", "end", "exited"}]
        /\ \A f \in Executors : epc'[f] = "block" <=> epc[f] = "block"
        /\ \A f \in Executors : epc'[f] \in {"run", "end"} <=> epc[f] \in {"run", "end"}
    BY <2>1
  <2>3. HoldInv'
    BY <2>1, <2>2
  <2>4. TypeOK'
    BY <2>1, <2>2, SMTT(30)
  <2> QED  BY <2>3, <2>4
<1>18. ASSUME NEW e \in Executors, StartHandler(e)  PROVE SafeInv'
  <2>1. hand[e] \in Timers
    BY <1>18 DEF StartHandler
  <2>2. CASE hand[e] \in invoked
    <3>1. /\ terminated' = TRUE
          /\ UNCHANGED <<now, ids, vector, mutexes, clients, looper, execute_event_list,
                         epc, hand, invoked, begun, exit, record>>
      BY <1>18, <2>2 DEF StartHandler
    <3>2. HoldInv'
      BY <3>1
    <3>3. TypeOK'
      BY <3>1, SMTT(30)
    <3> QED  BY <3>2, <3>3
  <2>3. CASE hand[e] \notin invoked
    <3>0. epc[e] = "run" /\ epc' = [epc EXCEPT ![e] = "end"]
      BY <1>18, <2>3 DEF StartHandler
    <3>1. /\ epc' \in [Executors -> {"lock", "block", "waiting", "run", "end", "exited"}]
          /\ \A f \in Executors : epc'[f] = "block" <=> epc[f] = "block"
          /\ \A f \in Executors : epc'[f] \in {"run", "end"} <=> epc[f] \in {"run", "end"}
      BY <3>0
    <3>2. invoked' \subseteq Timers
      BY <1>18, <2>1, <2>3 DEF StartHandler
    <3>3. begun' \in [Timers -> Nat]
      <4>1. begun' = [begun EXCEPT ![hand[e]] = @ + 1]
        BY <1>18, <2>3 DEF StartHandler
      <4>2. begun[hand[e]] + 1 \in Nat
        BY <2>1, SMTT(30)
      <4> QED  BY <2>1, <4>1, <4>2
    <3>4. UNCHANGED <<now, ids, vector, mutexes, clients, looper, execute_event_list,
                      hand, terminated, exit, record>>
      BY <1>18, <2>3 DEF StartHandler
    <3>5. HoldInv'
      BY <3>1, <3>4
    <3>6. TypeOK'
      BY <3>1, <3>2, <3>3, <3>4
    <3> QED  BY <3>5, <3>6
  <2> QED  BY <2>2, <2>3
<1>19. ASSUME NEW e \in Executors, EndHandler(e)  PROVE SafeInv'
  <2>1. /\ epc' \in [Executors -> {"lock", "block", "waiting", "run", "end", "exited"}]
        /\ hand' \in [Executors -> Timers \cup {NoTimer}]
        /\ \A f \in Executors : epc'[f] = "block" <=> epc[f] = "block"
        /\ \A f \in Executors : epc'[f] \in {"run", "end"} <=> hand'[f] # NoTimer
    BY <1>19 DEF EndHandler
  <2>2. invoked' \subseteq Timers
    BY <1>19 DEF EndHandler
  <2>3. UNCHANGED <<now, ids, vector, mutexes, clients, looper, execute_event_list,
                    terminated, begun, exit, record>>
    BY <1>19 DEF EndHandler
  <2> QED  BY <2>1, <2>2, <2>3
<1>20. CASE StopThreads
  BY <1>20 DEF StopThreads
<1>21. CASE NotifyLoop
  BY <1>21 DEF NotifyLoop
<1>22. CASE NotifyExecutors
  BY <1>22, SMTT(30) DEF NotifyExecutors
<1>23. CASE JoinThreads
  BY <1>23 DEF JoinThreads
<1>24. CASE UNCHANGED vars
  BY <1>24 DEF vars
<1> QED
  BY <1>1, <1>2, <1>3, <1>4, <1>5, <1>6, <1>7, <1>8, <1>9, <1>10, <1>11, <1>12, <1>nap, <1>13,
     <1>14, <1>15, <1>16, <1>17, <1>18, <1>19, <1>20, <1>21, <1>22, <1>23, <1>24
     DEF Next, UserStep, LoopStep, ExecutorStep, ExitStep

(* Every reachable state of the queue is well typed, every mutex has the   *)
(* owner its program counter says, and the loop never fires from an empty  *)
(* vector (lines 151-205).                                                 *)
THEOREM TypeCorrect == Spec => [](TypeOK /\ HoldInv)
<1>1. Init => SafeInv
  BY SafeInvInit
<1>2. SafeInv /\ [Next]_vars => SafeInv'
  BY SafeInvStep
<1> QED  BY <1>1, <1>2, PTL DEF Spec, SafeInv

-----------------------------------------------------------------------------
(* Which actions write the variables that the next invariants are about.   *)

LEMMA Writers ==
  ASSUME [Next]_vars
  PROVE  /\ UNCHANGED ids \/ \E u \in Users, t \in Timers : NewEvent(u, t)
         /\ UNCHANGED given \/ \E u \in Users : ReturnId(u)
         /\ UNCHANGED making \/ \E u \in Users : ReturnId(u) \/ \E t \in Timers : NewEvent(u, t)
         /\ \/ UNCHANGED upc
            \/ \E u \in Users : UserStep(u) \/ \E t \in Timers : NewEvent(u, t)
         /\ \/ UNCHANGED <<event_vector, is_sort>> \/ LookAtEarliest \/ FireEvent
            \/ \E u \in Users : InsertEvent(u) \/ \E t \in Timers : CancelTimer(u, t)
         /\ \/ UNCHANGED timeout \/ FireEvent
            \/ \E u \in Users, t \in Timers : NewEvent(u, t)
         /\ UNCHANGED record \/ \E u \in Users, t \in Timers : CancelTimer(u, t)
         /\ \/ UNCHANGED <<execute_event_list, execute_mutex>> \/ FireEvent
            \/ \E e \in Executors : AwaitHandler(e) \/ BlockExecutor(e)
         /\ \/ UNCHANGED epc \/ FireEvent \/ NotifyExecutors
            \/ \E e \in Executors : ExecutorStep(e) \/ SpuriousWakeExecutor(e)
         /\ \/ UNCHANGED looper \/ LoopStep \/ SpuriousWakeLoop \/ NotifyLoop \/ Tick
            \/ \E u \in Users : NotifyCreated(u)
         /\ UNCHANGED now \/ Tick
         /\ UNCHANGED stop_thread \/ StopThreads
         /\ UNCHANGED handlers \/ \E e \in Executors : ExecutorStep(e)
<1> USE DEF ids, vector, mutexes, clients, naps, looper, handlers, executors, exit, record
<1>1. CASE Tick
  BY <1>1 DEF Tick
<1>2. ASSUME NEW u \in Users, NEW t \in Timers, NewEvent(u, t)
      PROVE  UNCHANGED <<now, given, event_vector, is_sort, record, looper, executors,
                         execute_mutex, stop_thread>>
  BY <1>2 DEF NewEvent
<1>3. ASSUME NEW u \in Users, InsertEvent(u)
      PROVE  UNCHANGED <<now, ids, given, making, timeout, record, looper, executors,
                         execute_mutex, stop_thread>>
  BY <1>3 DEF InsertEvent
<1>4. ASSUME NEW u \in Users, NotifyCreated(u)
      PROVE  UNCHANGED <<now, ids, given, making, vector, record, executors, execute_mutex,
                         stop_thread>>
  BY <1>4 DEF NotifyCreated
<1>5. ASSUME NEW u \in Users, ReturnId(u)
      PROVE  UNCHANGED <<now, ids, vector, record, looper, executors, execute_mutex, stop_thread>>
  BY <1>5 DEF ReturnId
<1>6. ASSUME NEW u \in Users, NEW t \in Timers, CancelTimer(u, t)
      PROVE  UNCHANGED <<now, ids, given, making, upc, timeout, looper, executors,
                         execute_mutex, stop_thread>>
  BY <1>6 DEF CancelTimer
<1>7. ASSUME LookAtEarliest
      PROVE  UNCHANGED <<now, ids, given, making, upc, timeout, record, executors,
                         execute_mutex, stop_thread>>
  BY <1>7 DEF LookAtEarliest
<1>8. ASSUME FireEvent
      PROVE  UNCHANGED <<now, ids, given, making, upc, record, handlers, stop_thread>>
  BY <1>8 DEF FireEvent
<1>9. ASSUME \/ TestStop \/ AwaitEvent \/ BlockLoop \/ StartNap \/ NapOver \/ Recheck
             \/ SpuriousWakeLoop \/ NotifyLoop
      PROVE  UNCHANGED <<now, ids, clients, vector, record, executors, execute_mutex, stop_thread>>
  BY <1>9 DEF TestStop, AwaitEvent, BlockLoop, StartNap, NapOver, Recheck, SpuriousWakeLoop,
              NotifyLoop
<1>10. ASSUME StopThreads \/ JoinThreads
       PROVE  /\ UNCHANGED <<now, ids, clients, vector, record, looper, executors, execute_mutex>>
              /\ UNCHANGED stop_thread \/ StopThreads
  BY <1>10 DEF StopThreads, JoinThreads
<1>11. ASSUME NEW e \in Executors, ExecutorStep(e) \/ SpuriousWakeExecutor(e)
       PROVE  UNCHANGED <<now, ids, clients, vector, record, looper, stop_thread>>
  BY <1>11 DEF ExecutorStep, AwaitHandler, BlockExecutor, StartHandler, EndHandler,
               SpuriousWakeExecutor
<1>12. ASSUME NEW e \in Executors, StartHandler(e) \/ EndHandler(e) \/ SpuriousWakeExecutor(e)
       PROVE  UNCHANGED <<execute_event_list, execute_mutex>>
  BY <1>12 DEF StartHandler, EndHandler, SpuriousWakeExecutor
<1>13. ASSUME NEW e \in Executors, SpuriousWakeExecutor(e)
       PROVE  UNCHANGED handlers
  BY <1>13 DEF SpuriousWakeExecutor
<1>14. ASSUME NotifyExecutors
       PROVE  UNCHANGED <<now, ids, clients, vector, record, looper, execute_event_list,
                          execute_mutex, handlers, stop_thread>>
  BY <1>14 DEF NotifyExecutors
<1>15. CASE UNCHANGED vars
  BY <1>15 DEF vars
<1>16. CASE \E u \in Users : \/ UserStep(u)
                            \/ \E t \in Timers : NewEvent(u, t) \/ CancelTimer(u, t)
  BY <1>2, <1>3, <1>4, <1>5, <1>6, <1>16 DEF UserStep
<1>17. CASE LoopStep \/ SpuriousWakeLoop \/ StopThreads \/ ExitStep
  BY <1>7, <1>8, <1>9, <1>10, <1>14, <1>17 DEF LoopStep, ExitStep
<1>18. CASE \E e \in Executors : ExecutorStep(e) \/ SpuriousWakeExecutor(e)
  BY <1>11, <1>12, <1>13, <1>18 DEF ExecutorStep
<1> QED  BY <1>1, <1>15, <1>16, <1>17, <1>18 DEF Next

-----------------------------------------------------------------------------
(* Identifiers are never used twice, and a caller has none before its      *)
(* create_timer returns.                                                   *)

IdInv ==
  /\ \A t \in Timers : id[t] <= timer_id
  /\ \A s, t \in Timers : id[s] = id[t] /\ id[s] # 0 => s = t
  /\ \A t \in Timers : id[t] = 0 => given[t] = 0
  /\ \A u \in Users : making[u] # NoTimer => id[making[u]] # 0 /\ given[making[u]] = 0
  /\ \A u, v \in Users : making[u] = making[v] /\ making[u] # NoTimer => u = v

LEMMA IdInvStep == SafeInv /\ IdInv /\ [Next]_vars => IdInv'
<1> SUFFICES ASSUME SafeInv, IdInv, [Next]_vars PROVE IdInv'
  OBVIOUS
<1>t. /\ timer_id \in Nat /\ id \in [Timers -> Nat] /\ given \in [Timers -> Nat]
      /\ upc \in [Users -> {"idle", "insert", "notify", "return"}]
      /\ making \in [Users -> Timers \cup {NoTimer}]
      /\ \A u \in Users : upc[u] # "idle" <=> making[u] # NoTimer
  BY DEF SafeInv, TypeOK, HoldInv
<1>n. NoTimer \notin Timers
  BY TimerAssumption
<1>1. ASSUME NEW u \in Users, NEW t \in Timers, NewEvent(u, t)  PROVE IdInv'
  <2>1. /\ upc[u] = "idle" /\ id[t] = 0 /\ making' = [making EXCEPT ![u] = t]
        /\ timer_id' = timer_id + 1 /\ id' = [id EXCEPT ![t] = timer_id + 1]
        /\ given' = given
    BY <1>1 DEF NewEvent, NextId, GoUser
  <2>2. /\ \A s \in Timers : id'[s] = IF s = t THEN timer_id + 1 ELSE id[s]
        /\ \A v \in Users : making'[v] = IF v = u THEN t ELSE making[v]
    BY <1>t, <2>1
  <2>3. \A v \in Users : making[v] # t
    BY <1>n, <2>1 DEF IdInv
  <2>4. \A s \in Timers : id[s] <= timer_id /\ id[s] \in Nat
    BY <1>t DEF IdInv
  <2>5. \A s \in Timers : id'[s] <= timer_id'
    BY <1>t, <2>1, <2>2, <2>4
  <2>6. \A r, s \in Timers : id'[r] = id'[s] /\ id'[r] # 0 => r = s
    BY <1>t, <2>2, <2>4 DEF IdInv
  <2>7. \A s \in Timers : id'[s] = 0 => given'[s] = 0
    BY <1>t, <2>1, <2>2 DEF IdInv
  <2>8. \A v \in Users : making'[v] # NoTimer => id'[making'[v]] # 0 /\ given'[making'[v]] = 0
    BY <1>t, <2>1, <2>2, <2>3 DEF IdInv
  <2>9. \A v, w \in Users : making'[v] = making'[w] /\ making'[v] # NoTimer => v = w
    BY <2>2, <2>3 DEF IdInv
  <2> QED  BY <2>5, <2>6, <2>7, <2>8, <2>9 DEF IdInv
<1>2. ASSUME NEW u \in Users, ReturnId(u)  PROVE IdInv'
  <2>1. /\ upc[u] = "return" /\ making' = [making EXCEPT ![u] = NoTimer]
        /\ given' = [given EXCEPT ![making[u]] = timer_id]
        /\ timer_id' = timer_id /\ id' = id
    BY <1>2 DEF ReturnId, GoUser, ids
  <2>2. making[u] \in Timers /\ id[making[u]] # 0
    BY <1>t, <1>n, <2>1 DEF IdInv
  <2>3. /\ \A s \in Timers : s # making[u] => given'[s] = given[s]
        /\ \A v \in Users : making'[v] = IF v = u THEN NoTimer ELSE making[v]
    BY <1>t, <2>1
  <2>4. \A s \in Timers : id'[s] = 0 => given'[s] = 0
    BY <2>1, <2>2, <2>3 DEF IdInv
  <2>5. \A v \in Users : making'[v] # NoTimer => id'[making'[v]] # 0 /\ given'[making'[v]] = 0
    BY <1>t, <2>1, <2>2, <2>3 DEF IdInv
  <2>6. \A v, w \in Users : making'[v] = making'[w] /\ making'[v] # NoTimer => v = w
    BY <2>3 DEF IdInv
  <2> QED  BY <2>1, <2>4, <2>5, <2>6 DEF IdInv
<1>3. CASE UNCHANGED <<ids, given, making>>
  BY <1>3 DEF IdInv, ids
<1> QED  BY <1>1, <1>2, <1>3, Writers

LEMMA IdInvInit == Init => IdInv
BY DEF Init, IdInv

-----------------------------------------------------------------------------
(* The vector holds no event twice, only events that have their number,    *)
(* and not yet the event that a create_timer is about to insert.           *)

VectorInv ==
  /\ IsInjective(event_vector)
  /\ \A t \in ToSet(event_vector) : id[t] # 0
  /\ \A u \in Users : upc[u] = "insert" => making[u] \notin ToSet(event_vector)

(* What each of the four writers of the vector does to its set of events.  *)
LEMMA InsertFacts ==
  ASSUME SafeInv, NEW u \in Users, InsertEvent(u)
  PROVE  /\ upc[u] = "insert" /\ making[u] \in Timers
         /\ upc' = [upc EXCEPT ![u] = "notify"]
         /\ ToSet(event_vector') = ToSet(event_vector) \cup {making[u]}
         /\ making[u] \notin ToSet(event_vector) /\ IsInjective(event_vector)
              => IsInjective(event_vector')
         /\ UNCHANGED <<now, ids, timeout, making, given, looper>>
<1>1. /\ event_vector \in Seq(Timers) /\ upc[u] = "insert"
      /\ upc' = [upc EXCEPT ![u] = "notify"]
      /\ event_vector' = Append(event_vector, making[u])
      /\ UNCHANGED <<now, ids, timeout, making, given, looper>>
  BY DEF SafeInv, TypeOK, InsertEvent, GoUser
<1>2. making[u] \in Timers
  BY <1>1 DEF SafeInv, TypeOK, HoldInv
<1> QED  BY <1>1, <1>2, AppendToSet

LEMMA CancelFacts ==
  ASSUME SafeInv, VectorInv, NEW u \in Users, NEW t \in Timers, CancelTimer(u, t)
  PROVE  /\ IsInjective(event_vector')
         /\ \/ /\ UNCHANGED <<event_vector, is_sort, cancelled>>
               /\ Matches(given[t]) = {}
            \/ \E c \in ToSet(event_vector) :
                 /\ id[c] = given[t] /\ is_sort' = TRUE
                 /\ ToSet(event_vector') = ToSet(event_vector) \ {c}
                 /\ cancelled' = cancelled \cup {c}
         /\ requested' = requested \cup {t} /\ given[t] # 0
         /\ event_mutex = NoThread
         /\ UNCHANGED <<now, ids, timeout, upc, making, given, looper>>
<1>1. event_vector \in Seq(Timers) /\ IsInjective(event_vector)
  BY DEF SafeInv, TypeOK, VectorInv
<1>2. /\ requested' = requested \cup {t} /\ given[t] # 0 /\ event_mutex = NoThread
      /\ UNCHANGED <<now, ids, timeout, upc, making, given, looper>>
  BY DEF CancelTimer, clients
<1>3. CASE Matches(given[t]) = {}
  <2>1. UNCHANGED <<event_vector, is_sort, cancelled>>
    BY <1>3 DEF CancelTimer
  <2> QED  BY <1>1, <1>2, <1>3, <2>1
<1>4. CASE Matches(given[t]) # {}
  <2>1. PICK i \in 1 .. Len(event_vector) :
          /\ id[event_vector[i]] = given[t]
          /\ event_vector' = RemoveAt(event_vector, i)
          /\ is_sort' = TRUE
          /\ cancelled' = cancelled \cup {event_vector[i]}
    BY <1>4 DEF CancelTimer, Matches
  <2>2. /\ IsInjective(event_vector')
        /\ ToSet(event_vector') = ToSet(event_vector) \ {event_vector[i]}
    BY <1>1, <2>1, RemoveAtToSet
  <2>3. event_vector[i] \in ToSet(event_vector)
    BY <1>1, LenProperties DEF ToSet
  <2> QED  BY <1>2, <2>1, <2>2, <2>3
<1> QED  BY <1>3, <1>4

LEMMA FireFacts ==
  ASSUME SafeInv, VectorInv, FireEvent
  PROVE  LET t == Last(event_vector)
         IN  /\ t \in Timers /\ t \in ToSet(event_vector)
             /\ IsInjective(event_vector')
             /\ lpc = "fire" /\ lpc' = "test" /\ event_mutex = Loop
             /\ execute_mutex = NoThread
             /\ execute_event_list' = Append(execute_event_list, t)
             /\ NotifyExecutor
             /\ \/ /\ t \in Repeats /\ is_sort' = TRUE /\ event_vector' = event_vector
                   /\ timeout' = [timeout EXCEPT ![t] = now + Delay[t]]
                \/ /\ t \notin Repeats /\ UNCHANGED <<timeout, is_sort>>
                   /\ event_vector' = Front(event_vector)
                   /\ ToSet(event_vector') = ToSet(event_vector) \ {t}
             /\ UNCHANGED <<now, ids, execute_mutex, clients, naps, handlers, exit, record>>
<1> DEFINE t == Last(event_vector)
<1>1. /\ lpc = "fire" /\ lpc' = "test" /\ execute_mutex = NoThread
      /\ execute_event_list' = Append(execute_event_list, t)
      /\ NotifyExecutor /\ Reschedule(t)
      /\ UNCHANGED <<now, ids, execute_mutex, clients, naps, handlers, exit, record>>
  BY DEF FireEvent, GoLoop
<1>2. event_vector \in Seq(Timers) /\ event_vector # <<>> /\ event_mutex = Loop
  BY <1>1 DEF SafeInv, TypeOK, HoldInv
<1>3. t \in Timers /\ t \in ToSet(event_vector) /\ t = event_vector[Len(event_vector)]
  BY <1>2, FrontIsRemoveAt
<1>4. /\ IsInjective(Front(event_vector))
      /\ ToSet(Front(event_vector)) = ToSet(event_vector) \ {t}
  BY <1>2, <1>3, FrontIsRemoveAt, RemoveAtToSet DEF VectorInv
<1> HIDE DEF t
<1>5. CASE t \in Repeats
  <2>1. /\ is_sort' = TRUE /\ event_vector' = event_vector
        /\ timeout' = [timeout EXCEPT ![t] = now + Delay[t]]
    BY <1>1, <1>5, Zenon DEF Reschedule
  <2>2. IsInjective(event_vector')
    BY <2>1 DEF VectorInv
  <2> QED  BY <1>1, <1>2, <1>3, <1>5, <2>1, <2>2, Zenon DEF t
<1>6. CASE t \notin Repeats
  <2>1. UNCHANGED <<timeout, is_sort>> /\ event_vector' = Front(event_vector)
    BY <1>1, <1>6, Zenon DEF Reschedule
  <2> QED  BY <1>1, <1>2, <1>3, <1>4, <1>6, <2>1, Zenon DEF t
<1> QED  BY <1>5, <1>6

LEMMA LookFacts ==
  ASSUME SafeInv, LookAtEarliest
  PROVE  /\ lpc = "look"
         /\ ToSet(event_vector') = ToSet(event_vector)
         /\ IsInjective(event_vector) => IsInjective(event_vector')
         /\ event_vector' = event_vector \/ Descending(event_vector')
         /\ is_sort => Descending(event_vector')
         /\ is_sort' = FALSE
         /\ IF event_vector' = <<>>
            THEN lpc' = "test"
            ELSE IF timeout[Last(event_vector')] > now
            THEN lpc' = "nap" /\ now + napTime' = timeout[Last(event_vector')]
            ELSE lpc' = "fire"
         /\ lag' = 0
         /\ UNCHANGED <<now, ids, timeout, execute_mutex, clients, nap_until,
                        executors, exit, record>>
<1>1. PICK s \in IF is_sort THEN Sortings(event_vector) ELSE {event_vector} :
        /\ event_vector' = s
        /\ IF s = <<>>
           THEN lpc' = "test" /\ event_mutex' = NoThread /\ UNCHANGED napTime
           ELSE IF timeout[Last(s)] > now
           THEN lpc' = "nap" /\ napTime' = NapTime(Last(s)) /\ UNCHANGED event_mutex
           ELSE lpc' = "fire" /\ UNCHANGED <<event_mutex, napTime>>
  BY DEF LookAtEarliest
<1>2. /\ lpc = "look" /\ is_sort' = FALSE /\ lag' = 0
      /\ UNCHANGED <<now, ids, timeout, execute_mutex, clients, nap_until, executors, exit, record>>
  BY DEF LookAtEarliest
<1>3. /\ s \in Seq(Timers) /\ ToSet(s) = ToSet(event_vector)
      /\ IsInjective(event_vector) => IsInjective(s)
  BY SortKeepsEvents DEF SafeInv
<1>4. is_sort => Descending(s)
  BY DEF Sortings
<1>5. is_sort \/ s = event_vector
  OBVIOUS
<1>6. ASSUME s # <<>>  PROVE now + NapTime(Last(s)) = timeout[Last(s)]
  <2>1. Last(s) \in Timers
    BY <1>3, <1>6, FrontIsRemoveAt
  <2>2. now \in Nat /\ timeout[Last(s)] \in Nat
    BY <2>1, TimerAssumption DEF SafeInv, TypeOK
  <2> QED  BY <2>2 DEF NapTime
<1> QED  BY <1>1, <1>2, <1>3, <1>4, <1>5, <1>6

LEMMA VectorInvInit == Init => VectorInv
<1> SUFFICES ASSUME Init PROVE VectorInv
  OBVIOUS
<1>1. event_vector = <<>> /\ event_vector \in Seq(Timers) /\ \A u \in Users : upc[u] = "idle"
  BY EmptySeq DEF Init
<1>2. ToSet(event_vector) = {} /\ DOMAIN event_vector = {}
  BY <1>1, EmptyIffNoElement, EmptySeq, LenProperties
<1> QED  BY <1>1, <1>2 DEF VectorInv, IsInjective

LEMMA VectorInvStep == SafeInv /\ IdInv /\ VectorInv /\ [Next]_vars => VectorInv'
<1> SUFFICES ASSUME SafeInv, IdInv, VectorInv, [Next]_vars PROVE VectorInv'
  OBVIOUS
<1>t. /\ id \in [Timers -> Nat]
      /\ upc \in [Users -> {"idle", "insert", "notify", "return"}]
      /\ making \in [Users -> Timers \cup {NoTimer}]
      /\ \A u \in Users : upc[u] # "idle" <=> making[u] # NoTimer
  BY DEF SafeInv, TypeOK, HoldInv
<1>1. ASSUME NEW u \in Users, NEW t \in Timers, NewEvent(u, t)  PROVE VectorInv'
  <2>1. /\ id[t] = 0 /\ event_vector' = event_vector
        /\ id' = [id EXCEPT ![t] = NextId] /\ making' = [making EXCEPT ![u] = t]
        /\ upc[u] = "idle" /\ upc' = [upc EXCEPT ![u] = "insert"]
    BY <1>1 DEF NewEvent, GoUser
  <2>2. t \notin ToSet(event_vector)
    BY <2>1 DEF VectorInv
  <2>3. \A s \in ToSet(event_vector) : id'[s] # 0
    BY <1>t, <2>1, <2>2 DEF VectorInv
  <2>4. \A v \in Users : upc'[v] = "insert" => making'[v] \notin ToSet(event_vector)
    BY <1>t, <2>1, <2>2 DEF VectorInv
  <2> QED  BY <2>1, <2>3, <2>4 DEF VectorInv
<1>2. ASSUME NEW u \in Users, InsertEvent(u)  PROVE VectorInv'
  <2>1. /\ upc[u] = "insert" /\ making[u] \in Timers /\ id[making[u]] # 0
        /\ upc' = [upc EXCEPT ![u] = "notify"]
        /\ ToSet(event_vector') = ToSet(event_vector) \cup {making[u]}
        /\ IsInjective(event_vector') /\ id' = id /\ making' = making
    BY <1>t, <1>2, InsertFacts DEF IdInv, VectorInv, ids
  <2>2. \A v \in Users : upc'[v] = "insert" => v # u /\ upc[v] = "insert"
    BY <1>t, <2>1
  <2>3. \A v \in Users : upc'[v] = "insert" => making'[v] # making[u]
    BY <1>t, <2>1, <2>2 DEF IdInv
  <2> QED  BY <2>1, <2>2, <2>3 DEF VectorInv
<1>3. ASSUME NEW u \in Users, NEW t \in Timers, CancelTimer(u, t)  PROVE VectorInv'
  <2>1. /\ IsInjective(event_vector') /\ ToSet(event_vector') \subseteq ToSet(event_vector)
        /\ UNCHANGED <<id, upc, making>>
    BY <1>3, CancelFacts DEF ids
  <2> QED  BY <2>1 DEF VectorInv
<1>4. CASE LookAtEarliest
  <2>1. /\ IsInjective(event_vector') /\ ToSet(event_vector') = ToSet(event_vector)
        /\ UNCHANGED <<id, upc, making>>
    BY <1>4, LookFacts DEF VectorInv, ids, clients
  <2> QED  BY <2>1 DEF VectorInv
<1>5. CASE FireEvent
  <2>1. /\ IsInjective(event_vector') /\ ToSet(event_vector') \subseteq ToSet(event_vector)
        /\ UNCHANGED <<id, upc, making>>
    BY <1>5, FireFacts DEF ids, clients
  <2> QED  BY <2>1 DEF VectorInv
<1>6. ASSUME NEW u \in Users, NotifyCreated(u) \/ ReturnId(u)  PROVE VectorInv'
  <2>1. /\ UNCHANGED <<event_vector, id>>
        /\ upc' \in {[upc EXCEPT ![u] = "return"], [upc EXCEPT ![u] = "idle"]}
        /\ making' \in {making, [making EXCEPT ![u] = NoTimer]}
    BY <1>6 DEF NotifyCreated, ReturnId, GoUser, vector, ids
  <2>2. \A v \in Users : upc'[v] = "insert" => upc[v] = "insert" /\ making'[v] = making[v]
    BY <1>t, <2>1
  <2> QED  BY <2>1, <2>2 DEF VectorInv
<1>7. CASE UNCHANGED <<ids, event_vector, upc, making>>
  BY <1>7 DEF VectorInv, ids
<1> QED
  BY <1>1, <1>2, <1>3, <1>4, <1>5, <1>6, <1>7, Writers DEF UserStep

(* cancel_timer erases only events that it was called for, as long as      *)
(* every caller holds the number of its own event (lines 81, 88-101):      *)
(* numbers are unique, so the event it finds is the one it was asked for.  *)
LEMMA CancelsStep ==
  SafeInv /\ IdInv /\ VectorInv /\ CancelsOnlyRequested /\ [Next]_vars => CancelsOnlyRequested'
<1> SUFFICES ASSUME SafeInv, IdInv, VectorInv, CancelsOnlyRequested, [Next]_vars,
                    \A t \in Timers : given'[t] \in {0, id'[t]}
             PROVE  cancelled' \subseteq requested'
  BY DEF CancelsOnlyRequested
<1>t. /\ id \in [Timers -> Nat] /\ given \in [Timers -> Nat]
      /\ making \in [Users -> Timers \cup {NoTimer}]
      /\ \A u \in Users : upc[u] # "idle" <=> making[u] # NoTimer
      /\ ToSet(event_vector) \subseteq Timers
  BY ElementOfSeq, LenProperties DEF SafeInv, TypeOK, HoldInv, ToSet
<1>1. \A t \in Timers : given[t] \in {0, id[t]}
  <2>1. ASSUME NEW u \in Users, NEW t \in Timers, NewEvent(u, t)
        PROVE  \A s \in Timers : given[s] \in {0, id[s]}
    <3>1. id[t] = 0 /\ id' = [id EXCEPT ![t] = NextId] /\ given' = given
      BY <2>1 DEF NewEvent
    <3> QED  BY <1>t, <3>1 DEF IdInv
  <2>2. ASSUME NEW u \in Users, ReturnId(u)
        PROVE  \A s \in Timers : given[s] \in {0, id[s]}
    <3>1. /\ upc[u] = "return" /\ id' = id
          /\ given' = [given EXCEPT ![making[u]] = timer_id]
      BY <2>2 DEF ReturnId, GoUser, ids
    <3>2. given[making[u]] = 0
      BY <1>t, <3>1 DEF IdInv
    <3> QED  BY <1>t, <3>1, <3>2
  <2>3. CASE UNCHANGED <<ids, given>>
    BY <2>3 DEF ids
  <2> QED  BY <2>1, <2>2, <2>3, Writers
<1>2. cancelled \subseteq requested
  BY <1>1 DEF CancelsOnlyRequested
<1>3. ASSUME NEW u \in Users, NEW t \in Timers, CancelTimer(u, t)
      PROVE  cancelled' \subseteq requested'
  <2>1. given[t] = id[t] /\ given[t] # 0 /\ requested' = requested \cup {t}
    BY <1>1, <1>3, CancelFacts
  <2>2. CASE cancelled' = cancelled
    BY <1>2, <2>1, <2>2
  <2>3. ASSUME NEW c \in ToSet(event_vector), id[c] = given[t], cancelled' = cancelled \cup {c}
        PROVE  cancelled' \subseteq requested'
    <3>1. c = t
      BY <1>t, <2>1, <2>3 DEF IdInv
    <3> QED  BY <1>2, <2>1, <2>3, <3>1
  <2> QED  BY <1>3, <2>2, <2>3, CancelFacts
<1>4. CASE UNCHANGED record
  BY <1>2, <1>4 DEF record
<1> QED  BY <1>3, <1>4, Writers

THEOREM CancelsOwn == Spec => []CancelsOnlyRequested
<1>1. Init => SafeInv /\ IdInv /\ VectorInv /\ CancelsOnlyRequested
  <2>1. Init => CancelsOnlyRequested
    BY DEF Init, CancelsOnlyRequested
  <2> QED  BY <2>1, SafeInvInit, IdInvInit, VectorInvInit
<1>2. SafeInv /\ IdInv /\ VectorInv /\ CancelsOnlyRequested /\ [Next]_vars
        => (SafeInv /\ IdInv /\ VectorInv /\ CancelsOnlyRequested)'
  BY SafeInvStep, IdInvStep, VectorInvStep, CancelsStep
<1> QED  BY <1>1, <1>2, PTL DEF Spec

-----------------------------------------------------------------------------
(* The order of the vector.                                                *)

LEMMA LastIsEarliest ==
  ASSUME NEW q \in Seq(Timers), q # <<>>, NEW f \in [Timers -> Nat],
         \A i, j \in 1 .. Len(q) : i < j => f[q[i]] >= f[q[j]],
         NEW t \in ToSet(q)
  PROVE  f[t] >= f[Last(q)]
<1> DEFINE n == Len(q)
<1>1. n \in 1 .. n /\ DOMAIN q = 1 .. n /\ Last(q) = q[n] /\ Last(q) \in Timers
  BY FrontIsRemoveAt, LenProperties
<1>2. PICK i \in 1 .. n : t = q[i]
  BY <1>1 DEF ToSet
<1> HIDE DEF n
<1>3. CASE i = n
  BY <1>1, <1>2, <1>3
<1>4. CASE i < n
  BY <1>1, <1>2, <1>4 DEF n
<1>5. i = n \/ i < n
  BY <1>1
<1> QED  BY <1>3, <1>4, <1>5

(* The order only depends on the deadlines of the events in the vector.    *)
LEMMA DescendingKept ==
  ASSUME TypeOK, Descending(event_vector), event_vector' = event_vector,
         \A s \in ToSet(event_vector) : timeout'[s] = timeout[s]
  PROVE  Descending(event_vector)'
<1>1. \A i \in 1 .. Len(event_vector) : event_vector[i] \in ToSet(event_vector)
  BY LenProperties DEF TypeOK, ToSet
<1> QED  BY <1>1 DEF Descending

LEMMA SortedStep ==
  SafeInv /\ VectorInv /\ SortedUnlessMarked /\ [Next]_vars => SortedUnlessMarked'
<1> SUFFICES ASSUME SafeInv, VectorInv, SortedUnlessMarked, [Next]_vars, ~is_sort'
             PROVE  Descending(event_vector)'
  BY DEF SortedUnlessMarked
<1>t. /\ TypeOK /\ event_vector \in Seq(Timers) /\ timeout \in [Timers -> Nat]
      /\ ToSet(event_vector) \subseteq Timers
  BY ElementOfSeq, LenProperties DEF SafeInv, TypeOK, ToSet
<1>1. ASSUME NEW u \in Users, NEW t \in Timers, NewEvent(u, t)
      PROVE  Descending(event_vector)'
  <2>1. /\ id[t] = 0 /\ UNCHANGED <<event_vector, is_sort>>
        /\ timeout' = [timeout EXCEPT ![t] = now + Delay[t]]
    BY <1>1 DEF NewEvent
  <2>2. \A s \in ToSet(event_vector) : timeout'[s] = timeout[s]
    BY <1>t, <2>1 DEF VectorInv
  <2>3. Descending(event_vector)
    BY <2>1 DEF SortedUnlessMarked
  <2> QED  BY <1>t, <2>1, <2>2, <2>3, DescendingKept
<1>2. ASSUME NEW u \in Users, InsertEvent(u)  PROVE Descending(event_vector)'
  BY <1>2 DEF InsertEvent
<1>3. ASSUME NEW u \in Users, NEW t \in Timers, CancelTimer(u, t)
      PROVE  Descending(event_vector)'
  <2>1. UNCHANGED <<event_vector, is_sort, timeout>>
    BY <1>3, CancelFacts
  <2> QED  BY <2>1 DEF SortedUnlessMarked, Descending
<1>4. CASE LookAtEarliest
  <2>1. /\ timeout' = timeout /\ Descending(event_vector')
    BY <1>4, LookFacts DEF SortedUnlessMarked
  <2> QED  BY <2>1 DEF Descending
<1>5. CASE FireEvent
  <2>1. /\ timeout' = timeout /\ is_sort' = is_sort /\ event_vector' = Front(event_vector)
    BY <1>5, FireFacts
  <2>2. event_vector # <<>>
    BY <1>5 DEF FireEvent, GoLoop, SafeInv, HoldInv
  <2>3. Descending(event_vector)
    BY <2>1 DEF SortedUnlessMarked
  <2>4. /\ Len(event_vector) \in Nat /\ Len(event_vector') = Len(event_vector) - 1
        /\ \A k \in 1 .. Len(event_vector) - 1 : event_vector'[k] = event_vector[k]
    <3>1. /\ Len(event_vector) \in 1 .. Len(event_vector)
          /\ event_vector' = RemoveAt(event_vector, Len(event_vector))
      BY <1>t, <2>1, <2>2, FrontIsRemoveAt
    <3>2. /\ Len(event_vector') = Len(event_vector) - 1
          /\ \A k \in 1 .. Len(event_vector) - 1 :
               event_vector'[k] = IF k < Len(event_vector) THEN event_vector[k]
                                                           ELSE event_vector[k+1]
      BY <1>t, <3>1, RemoveAtEntries
    <3> QED  BY <3>1, <3>2
  <2> QED  BY <2>1, <2>3, <2>4 DEF Descending
<1>6. CASE UNCHANGED <<event_vector, is_sort, timeout>>
  BY <1>6 DEF SortedUnlessMarked, Descending
<1> QED  BY <1>1, <1>2, <1>3, <1>4, <1>5, <1>6, Writers

(* Whenever the sort flag is clear the vector is in order, latest first.   *)
THEOREM OrderKept == Spec => []SortedUnlessMarked
<1>1. Init => SafeInv /\ IdInv /\ VectorInv /\ SortedUnlessMarked
  <2>1. Init => SortedUnlessMarked
    BY EmptySeq DEF Init, SortedUnlessMarked, Descending
  <2> QED  BY <2>1, SafeInvInit, IdInvInit, VectorInvInit
<1>2. SafeInv /\ IdInv /\ VectorInv /\ SortedUnlessMarked /\ [Next]_vars
        => (SafeInv /\ IdInv /\ VectorInv /\ SortedUnlessMarked)'
  BY SafeInvStep, IdInvStep, VectorInvStep, SortedStep
<1> QED  BY <1>1, <1>2, PTL DEF Spec

-----------------------------------------------------------------------------
(* The nap.  While the loop is still inside its critical section nobody    *)
(* has added an event that it has not seen, and a tick of the clock before *)
(* wait_for begins counts as lag; afterwards only a create_timer that is   *)
(* about to notify has added one.                                          *)

NapInv ==
  /\ lpc = "block" => event_vector = <<>>
  /\ lpc \in {"nap", "sleep"} => \A t \in ToSet(event_vector) : NapEnd <= timeout[t] + lag

Awake == NapInv /\ NoOversleep

LEMMA AwakeStep ==
  SafeInv /\ VectorInv /\ SortedUnlessMarked /\ Awake /\ [Next]_vars => Awake'
<1> SUFFICES ASSUME SafeInv, VectorInv, SortedUnlessMarked, Awake, [Next]_vars  PROVE Awake'
  OBVIOUS
<1> USE DEF Awake, NapInv, NoOversleep, NapEnd, AboutToNotify
<1>t. /\ upc \in [Users -> {"idle", "insert", "notify", "return"}]
      /\ timeout \in [Timers -> Nat] /\ ToSet(event_vector) \subseteq Timers
      /\ event_vector \in Seq(Timers)
      /\ event_vector = <<>> <=> ToSet(event_vector) = {}
      /\ lpc \in {"block", "nap", "sleep"} => event_mutex = Loop
      /\ now \in Nat /\ napTime \in Nat /\ nap_until \in Nat /\ lag \in Nat
  BY TimerAssumption, EmptyIffNoElement, ElementOfSeq, LenProperties, SMTT(30) DEF SafeInv,
         TypeOK, HoldInv, ToSet
<1>u. TypeOK' /\ (event_vector' = <<>> <=> ToSet(event_vector') = {})
  BY SafeInvStep, EmptyIffNoElement DEF SafeInv, TypeOK
<1>l. Loop # NoThread
  BY TimerAssumption
<1>1. ASSUME NEW u \in Users, NEW t \in Timers, NewEvent(u, t)  PROVE Awake'
  <2>1. /\ id[t] = 0 /\ UNCHANGED <<now, event_vector, lpc, naps>>
        /\ timeout' = [timeout EXCEPT ![t] = now + Delay[t]]
        /\ upc[u] = "idle" /\ upc' = [upc EXCEPT ![u] = "insert"]
    BY <1>1 DEF NewEvent, GoUser, looper
  <2>2. \A s \in ToSet(event_vector) : timeout'[s] = timeout[s]
    BY <1>t, <2>1 DEF VectorInv
  <2>3. AboutToNotify => AboutToNotify'
    BY <1>t, <2>1
  <2> QED  BY <2>1, <2>2, <2>3 DEF naps
<1>2. ASSUME NEW u \in Users, InsertEvent(u)  PROVE Awake'
  <2>1. /\ event_mutex = NoThread /\ UNCHANGED lpc
        /\ upc[u] = "insert" /\ upc' = [upc EXCEPT ![u] = "notify"]
    BY <1>2 DEF InsertEvent, GoUser, looper
  <2>2. lpc' \notin {"block", "nap", "sleep"}
    BY <1>l, <1>t, <2>1
  <2>3. AboutToNotify'
    BY <1>t, <2>1
  <2> QED  BY <2>2, <2>3
<1>3. ASSUME NEW u \in Users, NotifyCreated(u)  PROVE Awake'
  <2>1. /\ lpc' \notin {"waiting", "napping"}
        /\ lpc' \in {"block", "nap", "sleep"} => lpc' = lpc
    BY <1>3 DEF NotifyCreated, WakeLoop
  <2>2. UNCHANGED <<now, event_vector, timeout, napTime, nap_until, lag>>
    BY <1>3 DEF NotifyCreated, vector, naps
  <2> QED  BY <2>1, <2>2
<1>4. ASSUME NEW u \in Users, ReturnId(u)  PROVE Awake'
  <2>1. /\ UNCHANGED <<now, event_vector, timeout, lpc, napTime, nap_until, lag>>
        /\ upc[u] = "return" /\ upc' = [upc EXCEPT ![u] = "idle"]
    BY <1>4 DEF ReturnId, GoUser, vector, looper, naps
  <2>2. AboutToNotify => AboutToNotify'
    BY <1>t, <2>1
  <2> QED  BY <2>1, <2>2
<1>5. ASSUME NEW u \in Users, NEW t \in Timers, CancelTimer(u, t)  PROVE Awake'
  <2>1. /\ ToSet(event_vector') \subseteq ToSet(event_vector)
        /\ UNCHANGED <<now, timeout, upc, lpc, napTime, nap_until, lag>>
    BY <1>5, CancelFacts DEF looper, naps
  <2>2. event_vector = <<>> => event_vector' = <<>>
    BY <1>t, <1>u, <2>1
  <2> QED  BY <2>1, <2>2
<1>6. CASE AwaitEvent
  <2>1. /\ lpc' \in {"look", "block"}
        /\ lpc' = "block" => event_vector = <<>>
        /\ event_vector' = event_vector
    BY <1>6 DEF AwaitEvent, GoLoop, vector
  <2> QED  BY <2>1
<1>7. CASE BlockLoop
  <2>1. /\ \/ lpc = "block" /\ lpc' = "waiting"
           \/ lpc = "sleep" /\ lpc' = "napping"
        /\ UNCHANGED <<event_vector, timeout, nap_until, lag>>
    BY <1>7 DEF BlockLoop, GoLoop, vector, naps
  <2> QED  BY <2>1
<1>8. CASE LookAtEarliest
  <2>1. /\ lpc' \in {"test", "nap", "fire"} /\ UNCHANGED <<now, timeout>> /\ lag' = 0
        /\ lpc' = "nap" =>
             event_vector' # <<>> /\ now + napTime' = timeout[Last(event_vector')]
        /\ Descending(event_vector')
    BY <1>8, LookFacts DEF SortedUnlessMarked
  <2>2. Descending(event_vector)'
    BY <2>1 DEF Descending
  <2>3. ASSUME lpc' = "nap", NEW s \in ToSet(event_vector')
        PROVE  NapEnd' <= timeout'[s] + lag'
    <3>1. timeout'[s] >= timeout'[Last(event_vector')]
      BY <1>u, <2>1, <2>2, <2>3, LastIsEarliest DEF TypeOK, Descending
    <3>2. timeout'[s] \in Nat
      BY <1>t, <1>8, <2>1, <2>3, LookFacts
    <3> QED  BY <2>1, <2>3, <3>1, <3>2
  <2> QED  BY <2>1, <2>3
<1>9. CASE TestStop \/ NapOver \/ Recheck \/ FireEvent
  <2>1. lpc' \notin {"block", "waiting", "nap", "sleep", "napping"}
    BY <1>9 DEF TestStop, NapOver, Recheck, FireEvent, GoLoop
  <2> QED  BY <2>1
<1>10. CASE SpuriousWakeLoop \/ NotifyLoop
  <2>1. /\ lpc' \notin {"waiting", "napping"}
        /\ lpc' \in {"block", "nap", "sleep"} => lpc' = lpc
    BY <1>10 DEF SpuriousWakeLoop, NotifyLoop, WakeLoop
  <2>2. UNCHANGED <<now, event_vector, timeout, napTime, nap_until, lag>>
    BY <1>10 DEF SpuriousWakeLoop, NotifyLoop, vector, naps
  <2> QED  BY <2>1, <2>2
<1>11. CASE StartNap
  <2>1. /\ lpc = "nap" /\ lpc' = "sleep" /\ nap_until' = now + napTime
        /\ UNCHANGED <<event_vector, timeout, lag>>
    BY <1>11 DEF StartNap, GoLoop, vector
  <2> QED  BY <2>1
<1>12. CASE Tick
  <2>1. /\ now' = now + 1 /\ lag' = (IF lpc = "nap" THEN lag + 1 ELSE lag)
        /\ UNCHANGED <<event_vector, timeout, upc, lpc, napTime, nap_until>>
    BY <1>12 DEF Tick, vector, clients
  <2>2. \A t \in ToSet(event_vector) : NapEnd <= timeout[t] + lag => NapEnd' <= timeout[t] + lag'
    BY <1>t, <2>1
  <2> QED  BY <1>t, <2>1, <2>2
<1>13. CASE UNCHANGED <<now, event_vector, timeout, upc, looper>>
  BY <1>13 DEF looper, naps
<1> QED
  BY <1>1, <1>2, <1>3, <1>4, <1>5, <1>6, <1>7, <1>8, <1>9, <1>10, <1>11, <1>12, <1>13, Writers
     DEF UserStep, LoopStep

(* No nap ends later than the earliest event by more than the time between *)
(* the two readings of the clock that it is computed from, unless that     *)
(* event's create_timer is about to notify the loop.                       *)
THEOREM NeverOversleeps == Spec => []NoOversleep
<1> DEFINE Inv == SafeInv /\ IdInv /\ VectorInv /\ SortedUnlessMarked /\ Awake
<1>1. Init => Inv
  <2>1. Init => SortedUnlessMarked /\ Awake
    BY EmptySeq DEF Init, SortedUnlessMarked, Descending, Awake, NapInv, NoOversleep
  <2> QED  BY <2>1, SafeInvInit, IdInvInit, VectorInvInit
<1>2. Inv /\ [Next]_vars => Inv'
  BY SafeInvStep, IdInvStep, VectorInvStep, SortedStep, AwakeStep
<1>3. Inv => NoOversleep
  BY DEF Awake
<1> QED  BY <1>1, <1>2, <1>3, PTL DEF Spec

-----------------------------------------------------------------------------
(* The executors.                                                          *)

(* An executor that is about to wait holds _execute_mutex since it saw the *)
(* queue of handlers empty.                                                *)
EmptyInv == \A e \in Executors : epc[e] = "block" => execute_event_list = <<>>

Lockers == {e \in Executors : epc[e] = "lock"}

LEMMA IdleStep ==
  SafeInv /\ VectorInv /\ EmptyInv /\ NoIdleExecutor /\ [Next]_vars
    => EmptyInv' /\ NoIdleExecutor'
<1> SUFFICES ASSUME SafeInv, VectorInv, EmptyInv, NoIdleExecutor, [Next]_vars
             PROVE  EmptyInv' /\ NoIdleExecutor'
  OBVIOUS
<1> DEFINE Idle == Len(execute_event_list) <= Cardinality(Lockers)
<1>t. /\ execute_event_list \in Seq(Timers) /\ Len(execute_event_list) \in Nat
      /\ epc \in [Executors -> {"lock", "block", "waiting", "run", "end", "exited"}]
      /\ \A e \in Executors : epc[e] = "block" <=> execute_mutex = e
      /\ NoThread \notin Executors
  BY TimerAssumption, LenProperties DEF SafeInv, TypeOK, HoldInv
<1>l. IsFiniteSet(Lockers) /\ Cardinality(Lockers) \in Nat
  BY TimerAssumption, FS_Subset, FS_CardinalityType DEF Lockers
<1>m. IsFiniteSet(Lockers') /\ Cardinality(Lockers') \in Nat
  BY TimerAssumption, FS_Subset, FS_CardinalityType DEF Lockers
<1>n. ~stop_thread /\ (\E e \in Executors : epc[e] = "waiting") => Idle
  BY DEF NoIdleExecutor, Lockers
<1>i. SUFFICES /\ \A e \in Executors : epc'[e] = "block" => execute_event_list' = <<>>
               /\ ~stop_thread' /\ (\E e \in Executors : epc'[e] = "waiting") => Idle'
  BY DEF EmptyInv, NoIdleExecutor, Lockers
<1> HIDE DEF Idle
<1>1. CASE FireEvent
  <2>1. /\ execute_mutex = NoThread /\ NotifyExecutor /\ stop_thread' = stop_thread
        /\ execute_event_list' = Append(execute_event_list, Last(event_vector))
        /\ Last(event_vector) \in Timers
    BY <1>1, FireFacts DEF exit
  <2>2. Len(execute_event_list') = Len(execute_event_list) + 1
    BY <1>t, <2>1, AppendProperties
  <2>3. \A e \in Executors : epc'[e] # "block"
    BY <1>t, <2>1 DEF NotifyExecutor, GoExecutor
  <2>4. CASE \E e \in Executors : epc[e] = "waiting"
    <3>1. PICK f \in Executors : epc[f] = "waiting" /\ epc' = [epc EXCEPT ![f] = "lock"]
      BY <2>1, <2>4 DEF NotifyExecutor, GoExecutor
    <3>2. Lockers' = Lockers \cup {f} /\ f \notin Lockers
      BY <1>t, <3>1 DEF Lockers
    <3>3. Cardinality(Lockers') = Cardinality(Lockers) + 1
      BY <1>l, <3>2, FS_AddElement
    <3>4. ~stop_thread => Len(execute_event_list) <= Cardinality(Lockers)
      BY <1>n, <2>4 DEF Idle
    <3>5. ~stop_thread => Idle'
      BY <1>t, <1>l, <2>2, <3>3, <3>4 DEF Idle
    <3> QED  BY <2>1, <2>3, <3>5
  <2>5. CASE ~\E e \in Executors : epc[e] = "waiting"
    BY <2>1, <2>3, <2>5 DEF NotifyExecutor
  <2> QED  BY <2>4, <2>5
<1>2. ASSUME NEW e \in Executors, AwaitHandler(e)
      PROVE  /\ \A f \in Executors : epc'[f] = "block" => execute_event_list' = <<>>
             /\ ~stop_thread' /\ (\E f \in Executors : epc'[f] = "waiting") => Idle'
  <2>1. execute_mutex = NoThread /\ stop_thread' = stop_thread /\ epc[e] = "lock"
    BY <1>2 DEF AwaitHandler, GoExecutor, exit
  <2>2. \A f \in Executors : epc[f] # "block"
    BY <1>t, <2>1
  <2>3. CASE stop_thread
    <3>1. epc' = [epc EXCEPT ![e] = "exited"]
      BY <1>2, <2>3 DEF AwaitHandler, GoExecutor
    <3> QED  BY <1>t, <2>1, <2>2, <2>3, <3>1
  <2>4. CASE ~stop_thread /\ execute_event_list # <<>>
    <3>1. /\ epc' = [epc EXCEPT ![e] = "run"]
          /\ execute_event_list' = Tail(execute_event_list)
      BY <1>2, <2>4 DEF AwaitHandler, GoExecutor
    <3>2. Len(execute_event_list') = Len(execute_event_list) - 1
      BY <1>t, <2>4, <3>1, HeadTailProperties
    <3>3. Lockers' = Lockers \ {e} /\ e \in Lockers
      BY <1>t, <2>1, <3>1 DEF Lockers
    <3>4. Cardinality(Lockers') = Cardinality(Lockers) - 1
      BY <1>l, <3>3, FS_RemoveElement
    <3>5. (\E f \in Executors : epc'[f] = "waiting") => \E f \in Executors : epc[f] = "waiting"
      BY <1>t, <3>1
    <3>6. Idle => Idle'
      BY <1>t, <1>l, <3>2, <3>4 DEF Idle
    <3>7. \A f \in Executors : epc'[f] # "block"
      BY <1>t, <2>2, <3>1
    <3> QED  BY <1>n, <2>4, <3>5, <3>6, <3>7
  <2>5. CASE ~stop_thread /\ execute_event_list = <<>>
    <3>1. execute_event_list' = <<>>
      BY <1>2, <2>5 DEF AwaitHandler
    <3>2. Idle'
      BY <1>m, <3>1, EmptySeq DEF Idle
    <3> QED  BY <3>1, <3>2
  <2> QED  BY <2>3, <2>4, <2>5
<1>3. ASSUME NEW e \in Executors, BlockExecutor(e)
      PROVE  /\ \A f \in Executors : epc'[f] = "block" => execute_event_list' = <<>>
             /\ ~stop_thread' /\ (\E f \in Executors : epc'[f] = "waiting") => Idle'
  <2>1. epc[e] = "block" /\ execute_event_list' = execute_event_list
    BY <1>3 DEF BlockExecutor, GoExecutor
  <2>2. execute_event_list' = <<>>
    BY <2>1 DEF EmptyInv
  <2>3. Idle'
    BY <1>m, <2>2, EmptySeq DEF Idle
  <2> QED  BY <2>2, <2>3
<1>4. ASSUME NEW e \in Executors, StartHandler(e) \/ EndHandler(e) \/ SpuriousWakeExecutor(e)
      PROVE  /\ \A f \in Executors : epc'[f] = "block" => execute_event_list' = <<>>
             /\ ~stop_thread' /\ (\E f \in Executors : epc'[f] = "waiting") => Idle'
  <2>1. /\ UNCHANGED <<execute_event_list, stop_thread>>
        /\ \/ epc' = epc
           \/ epc[e] = "run" /\ epc' = [epc EXCEPT ![e] = "end"]
           \/ epc[e] \in {"end", "waiting"} /\ epc' = [epc EXCEPT ![e] = "lock"]
    BY <1>4 DEF StartHandler, EndHandler, SpuriousWakeExecutor, GoExecutor, exit, handlers
  <2>2. /\ \A f \in Executors : epc'[f] = "block" => epc[f] = "block"
        /\ \A f \in Executors : epc'[f] = "waiting" => epc[f] = "waiting"
        /\ \A f \in Executors : epc[f] = "lock" => epc'[f] = "lock"
    BY <1>t, <2>1
  <2>3. Cardinality(Lockers) <= Cardinality(Lockers')
    <3>1. Lockers \in SUBSET Lockers'
      BY <2>2 DEF Lockers
    <3> QED  BY <1>m, <3>1, FS_Subset
  <2>4. Idle => Idle'
    BY <1>t, <1>l, <1>m, <2>1, <2>3 DEF Idle
  <2>5. \A f \in Executors : epc'[f] = "block" => execute_event_list' = <<>>
    BY <2>1, <2>2 DEF EmptyInv
  <2> QED  BY <1>n, <2>1, <2>2, <2>4, <2>5
<1>5. CASE NotifyExecutors
  <2>1. /\ execute_event_list' = execute_event_list
        /\ epc' = [e \in Executors |-> IF epc[e] = "waiting" THEN "lock" ELSE epc[e]]
    BY <1>5 DEF NotifyExecutors
  <2> QED  BY <2>1 DEF EmptyInv
<1>6. CASE UNCHANGED <<epc, execute_event_list>>
  <2>1. stop_thread' = stop_thread \/ stop_thread'
    BY Writers DEF StopThreads
  <2>2. Idle' = Idle
    BY <1>6 DEF Idle, Lockers
  <2> QED  BY <1>6, <1>n, <2>1, <2>2 DEF EmptyInv
<1> QED
  BY <1>1, <1>2, <1>3, <1>4, <1>5, <1>6, Writers DEF ExecutorStep

(* Until the queue is stopped, no executor sleeps while there are more     *)
(* handlers queued than executors on their way to _execute_mutex: every    *)
(* notify_one finds the sleeper it is for.                                 *)
THEOREM ExecutorsAwake == Spec => []NoIdleExecutor
<1> DEFINE Inv == SafeInv /\ IdInv /\ VectorInv /\ EmptyInv /\ NoIdleExecutor
<1>1. Init => Inv
  <2>1. Init => EmptyInv /\ NoIdleExecutor
    BY DEF Init, EmptyInv, NoIdleExecutor
  <2> QED  BY <2>1, SafeInvInit, IdInvInit, VectorInvInit
<1>2. Inv /\ [Next]_vars => Inv'
  BY SafeInvStep, IdInvStep, VectorInvStep, IdleStep
<1> QED  BY <1>1, <1>2, PTL DEF Spec

-----------------------------------------------------------------------------
(* Deadlines.  The event that the loop is about to fire is due, and the    *)
(* event that a create_timer is about to insert expires no more than its   *)
(* nTimeout from now.                                                      *)

DeadlineInv ==
  /\ lpc = "fire" => timeout[Last(event_vector)] <= now
  /\ \A u \in Users : upc[u] = "insert" =>
       timeout[making[u]] \in Delay[making[u]] .. now + Delay[making[u]]

LEMMA DeadlineStep ==
  SafeInv /\ VectorInv /\ IdInv /\ DeadlineInv /\ [Next]_vars => DeadlineInv'
<1> SUFFICES ASSUME SafeInv, VectorInv, IdInv, DeadlineInv, [Next]_vars  PROVE DeadlineInv'
  OBVIOUS
<1>t. /\ upc \in [Users -> {"idle", "insert", "notify", "return"}]
      /\ making \in [Users -> Timers \cup {NoTimer}]
      /\ \A u \in Users : upc[u] # "idle" => making[u] \in Timers
      /\ timeout \in [Timers -> Nat] /\ now \in Nat /\ Delay \in [Timers -> Nat]
      /\ lpc = "fire" => event_mutex = Loop
      /\ Loop # NoThread
  BY TimerAssumption DEF SafeInv, TypeOK, HoldInv
<1>f. lpc = "fire" => Last(event_vector) \in ToSet(event_vector)
  BY FrontIsRemoveAt DEF SafeInv, TypeOK, HoldInv
<1>1. ASSUME NEW u \in Users, NEW t \in Timers, NewEvent(u, t)  PROVE DeadlineInv'
  <2>1. /\ id[t] = 0 /\ UNCHANGED <<now, event_vector, lpc>>
        /\ timeout' = [timeout EXCEPT ![t] = now + Delay[t]]
        /\ making' = [making EXCEPT ![u] = t]
        /\ upc[u] = "idle" /\ upc' = [upc EXCEPT ![u] = "insert"]
    BY <1>1 DEF NewEvent, GoUser, looper
  <2>2. \A s \in Timers : timeout'[s] = IF s = t THEN now + Delay[t] ELSE timeout[s]
    BY <1>t, <2>1
  <2>3. lpc' = "fire" => timeout'[Last(event_vector')] <= now'
    <3>1. t \notin ToSet(event_vector)
      BY <2>1 DEF VectorInv
    <3> QED  BY <1>t, <1>f, <2>1, <3>1 DEF DeadlineInv
  <2>4. ASSUME NEW v \in Users, upc'[v] = "insert"
        PROVE  timeout'[making'[v]] \in Delay[making'[v]] .. now' + Delay[making'[v]]
    <3>1. CASE v = u
      <4>1. making'[v] = t /\ timeout'[t] = now + Delay[t] /\ now' = now
        BY <1>t, <2>1, <2>2, <3>1
      <4>2. now + Delay[t] \in Delay[t] .. now + Delay[t]
        BY <1>t
      <4> QED  BY <4>1, <4>2
    <3>2. CASE v # u
      <4>1. upc[v] = "insert" /\ making'[v] = making[v] /\ making[v] \in Timers /\ now' = now
        BY <1>t, <2>1, <2>4, <3>2
      <4>2. making[v] # t
        BY <1>t, <2>1, <4>1, TimerAssumption DEF IdInv
      <4> QED  BY <2>2, <4>1, <4>2 DEF DeadlineInv
    <3> QED  BY <3>1, <3>2
  <2> QED  BY <2>3, <2>4 DEF DeadlineInv
<1>2. ASSUME NEW u \in Users, UserStep(u)  PROVE DeadlineInv'
  <2>1. /\ UNCHANGED <<now, timeout>>
        /\ upc' \in {[upc EXCEPT ![u] = "notify"], [upc EXCEPT ![u] = "return"],
                     [upc EXCEPT ![u] = "idle"]}
        /\ making' \in {making, [making EXCEPT ![u] = NoTimer]}
    BY <1>2 DEF UserStep, InsertEvent, NotifyCreated, ReturnId, GoUser, vector
  <2>2. \A v \in Users : upc'[v] = "insert" => upc[v] = "insert" /\ making'[v] = making[v]
    BY <1>t, <2>1
  <2>3. CASE InsertEvent(u)
    <3>1. lpc' # "fire"
      BY <1>t, <2>3 DEF InsertEvent, looper
    <3> QED  BY <2>1, <2>2, <3>1 DEF DeadlineInv
  <2>4. CASE NotifyCreated(u)
    <3>1. (lpc' = "fire" => lpc = "fire") /\ event_vector' = event_vector
      BY <2>4 DEF NotifyCreated, WakeLoop, vector
    <3> QED  BY <2>1, <2>2, <3>1 DEF DeadlineInv
  <2>5. CASE ReturnId(u)
    <3>1. UNCHANGED <<lpc, event_vector>>
      BY <2>5 DEF ReturnId, looper, vector
    <3> QED  BY <2>1, <2>2, <3>1 DEF DeadlineInv
  <2> QED  BY <1>2, <2>3, <2>4, <2>5 DEF UserStep
<1>3. ASSUME NEW u \in Users, NEW t \in Timers, CancelTimer(u, t)  PROVE DeadlineInv'
  <2>1. UNCHANGED <<now, timeout, upc, making, lpc>> /\ event_mutex = NoThread
    BY <1>3, CancelFacts DEF looper
  <2> QED  BY <1>t, <2>1 DEF DeadlineInv
<1>4. CASE LookAtEarliest
  <2>1. /\ UNCHANGED <<now, timeout, upc, making>>
        /\ lpc' = "fire" => event_vector' # <<>> /\ ~(timeout[Last(event_vector')] > now)
    BY <1>4, LookFacts DEF clients
  <2>2. event_vector' \in Seq(Timers)
    BY SafeInvStep DEF SafeInv, TypeOK
  <2>3. lpc' = "fire" => Last(event_vector') \in Timers
    BY <2>1, <2>2, FrontIsRemoveAt
  <2>4. lpc' = "fire" => timeout'[Last(event_vector')] <= now'
    <3> DEFINE d == timeout[Last(event_vector')]
    <3>1. lpc' = "fire" => d \in Nat /\ ~(d > now)
      BY <1>t, <2>1, <2>3
    <3> HIDE DEF d
    <3>2. lpc' = "fire" => d <= now
      BY <1>t, <3>1
    <3> QED  BY <2>1, <3>2 DEF d
  <2> QED  BY <2>1, <2>4 DEF DeadlineInv
<1>5. CASE Recheck
  <2>1. /\ UNCHANGED <<now, event_vector, timeout, upc, making>>
        /\ lpc' = "fire" => timeout[Last(event_vector)] <= now
    BY <1>5 DEF Recheck, GoLoop, vector, clients
  <2> QED  BY <2>1 DEF DeadlineInv
<1>6. CASE FireEvent
  <2>1. /\ UNCHANGED <<now, upc, making>> /\ lpc' = "test"
        /\ \A s \in Timers : s \notin ToSet(event_vector) => timeout'[s] = timeout[s]
    BY <1>t, <1>6, FireFacts DEF clients
  <2>2. \A v \in Users : upc[v] = "insert" => timeout'[making[v]] = timeout[making[v]]
    BY <1>t, <2>1 DEF VectorInv
  <2> QED  BY <2>1, <2>2 DEF DeadlineInv
<1>7. CASE Tick
  <2>1. /\ now' = now + 1 /\ UNCHANGED <<event_vector, timeout, upc, making, lpc>>
    BY <1>7 DEF Tick, vector, clients
  <2>2. lpc' = "fire" => timeout'[Last(event_vector')] <= now'
    <3> DEFINE d == timeout[Last(event_vector)]
    <3>1. lpc = "fire" => d \in Nat /\ d <= now
      BY <1>t, <1>f, ElementOfSeq, LenProperties DEF DeadlineInv, SafeInv, TypeOK, ToSet
    <3> HIDE DEF d
    <3>2. lpc = "fire" => d <= now + 1
      BY <1>t, <3>1
    <3> QED  BY <2>1, <3>2 DEF d
  <2>3. ASSUME NEW v \in Users, upc'[v] = "insert"
        PROVE  timeout'[making'[v]] \in Delay[making'[v]] .. now' + Delay[making'[v]]
    <3>1. /\ making[v] \in Timers
          /\ timeout[making[v]] \in Delay[making[v]] .. now + Delay[making[v]]
      BY <1>t, <2>1, <2>3 DEF DeadlineInv
    <3>2. Delay[making[v]] \in Nat /\ timeout[making[v]] \in Nat
      BY <1>t, <3>1
    <3>3. timeout[making[v]] \in Delay[making[v]] .. (now + 1) + Delay[making[v]]
      BY <1>t, <3>1, <3>2
    <3> QED  BY <2>1, <3>3
  <2> QED  BY <2>2, <2>3 DEF DeadlineInv
<1>8. CASE \/ TestStop \/ AwaitEvent \/ BlockLoop \/ StartNap \/ NapOver
          \/ SpuriousWakeLoop \/ NotifyLoop
  <2>1. /\ UNCHANGED <<now, event_vector, timeout, upc, making>>
        /\ lpc' = "fire" => lpc = "fire"
    BY <1>8 DEF TestStop, AwaitEvent, BlockLoop, StartNap, NapOver, SpuriousWakeLoop, NotifyLoop,
                GoLoop, WakeLoop, vector, clients
  <2> QED  BY <2>1 DEF DeadlineInv
<1>9. CASE UNCHANGED <<now, event_vector, timeout, upc, making, looper>>
  BY <1>9 DEF DeadlineInv, looper
<1> QED
  BY <1>1, <1>2, <1>3, <1>4, <1>5, <1>6, <1>7, <1>8, <1>9, Writers DEF UserStep, LoopStep

-----------------------------------------------------------------------------
(* The refinement of TimerService, one lemma per part of its state.        *)

Deadlines == [t \in Timers |-> IF t \in Armed THEN timeout[t] ELSE 0]
OnHand(pc, at, t) == {e \in Executors : pc[e] = "run" /\ at[e] = t}

LEMMA DueCounts ==
  ASSUME TypeOK
  PROVE  /\ Due \in [Timers -> Nat]
         /\ \A t \in Timers :
              /\ Due[t] = Cardinality(Occurrences(execute_event_list, t))
                           + Cardinality(OnHand(epc, hand, t))
              /\ Cardinality(Occurrences(execute_event_list, t)) \in Nat
              /\ IsFiniteSet(OnHand(epc, hand, t)) /\ Cardinality(OnHand(epc, hand, t)) \in Nat
<1>1. ASSUME NEW t \in Timers
      PROVE  /\ Cardinality(Occurrences(execute_event_list, t)) \in Nat
             /\ IsFiniteSet(OnHand(epc, hand, t)) /\ Cardinality(OnHand(epc, hand, t)) \in Nat
  BY TimerAssumption, OccurrencesFinite, FS_Subset, FS_CardinalityType DEF TypeOK, OnHand
<1>2. Due = [t \in Timers |->
               Cardinality(Occurrences(execute_event_list, t)) + Cardinality(OnHand(epc, hand, t))]
  BY DEF Due, Occurrences, OnHand
<1> QED  BY <1>1, <1>2

(* An expiry is on its way: in the queue of handlers, or with an executor. *)
LEMMA DueStep ==
  ASSUME SafeInv, VectorInv, [Next]_vars
  PROVE  /\ FireEvent => Due' = [Due EXCEPT ![Last(event_vector)] = @ + 1]
         /\ \A e \in Executors : StartHandler(e) /\ hand[e] \notin invoked =>
              /\ hand[e] \in Timers /\ Due[hand[e]] > 0
              /\ Due' = [Due EXCEPT ![hand[e]] = @ - 1]
              /\ begun' = [begun EXCEPT ![hand[e]] = @ + 1]
         /\ \/ FireEvent
            \/ \E e \in Executors : StartHandler(e) /\ hand[e] \notin invoked
            \/ Due' = Due /\ begun' = begun
<1>t. /\ TypeOK /\ execute_event_list \in Seq(Timers)
      /\ epc \in [Executors -> {"lock", "block", "waiting", "run", "end", "exited"}]
      /\ hand \in [Executors -> Timers \cup {NoTimer}] /\ NoTimer \notin Timers
      /\ \A e \in Executors : epc[e] = "run" => hand[e] \in Timers
  BY TimerAssumption DEF SafeInv, TypeOK, HoldInv
<1>u. TypeOK'
  BY SafeInvStep DEF SafeInv
<1>d. /\ Due \in [Timers -> Nat] /\ Due' \in [Timers -> Nat]
      /\ \A t \in Timers :
           /\ Due[t] = Cardinality(Occurrences(execute_event_list, t))
                        + Cardinality(OnHand(epc, hand, t))
           /\ Due'[t] = Cardinality(Occurrences(execute_event_list', t))
                         + Cardinality(OnHand(epc', hand', t))
           /\ Cardinality(Occurrences(execute_event_list, t)) \in Nat
           /\ Cardinality(Occurrences(execute_event_list', t)) \in Nat
           /\ IsFiniteSet(OnHand(epc, hand, t)) /\ Cardinality(OnHand(epc, hand, t)) \in Nat
           /\ Cardinality(OnHand(epc', hand', t)) \in Nat
  <2>1. Due' \in [Timers -> Nat] /\ \A t \in Timers :
           /\ Due'[t] = Cardinality(Occurrences(execute_event_list', t))
                         + Cardinality(OnHand(epc', hand', t))
           /\ Cardinality(Occurrences(execute_event_list', t)) \in Nat
           /\ Cardinality(OnHand(epc', hand', t)) \in Nat
    <3>1. ASSUME NEW t \in Timers
          PROVE  /\ Cardinality(Occurrences(execute_event_list', t)) \in Nat
                 /\ Cardinality(OnHand(epc', hand', t)) \in Nat
      BY <1>u, TimerAssumption, OccurrencesFinite, FS_Subset, FS_CardinalityType DEF TypeOK, OnHand
    <3>2. Due' = [t \in Timers |->
                    Cardinality(Occurrences(execute_event_list', t))
                    + Cardinality(OnHand(epc', hand', t))]
      BY DEF Due, Occurrences, OnHand
    <3> QED  BY <3>1, <3>2
  <2> QED  BY <1>t, <2>1, DueCounts
<1>1. ASSUME FireEvent  PROVE Due' = [Due EXCEPT ![Last(event_vector)] = @ + 1]
  <2> DEFINE x == Last(event_vector)
  <2>1. /\ x \in Timers /\ NotifyExecutor /\ hand' = hand
        /\ execute_event_list' = Append(execute_event_list, x)
    BY <1>1, FireFacts DEF handlers
  <2> HIDE DEF x
  <2>2. ASSUME NEW t \in Timers  PROVE OnHand(epc', hand', t) = OnHand(epc, hand, t)
    <3>1. \A e \in Executors : epc'[e] = "run" <=> epc[e] = "run"
      BY <1>t, <2>1 DEF NotifyExecutor, GoExecutor
    <3> QED  BY <2>1, <3>1 DEF OnHand
  <2>3. ASSUME NEW t \in Timers
        PROVE  Cardinality(Occurrences(execute_event_list', t)) =
                 Cardinality(Occurrences(execute_event_list, t)) + IF t = x THEN 1 ELSE 0
    BY <1>t, <2>1, OccurrencesOfAppend
  <2>4. ASSUME NEW t \in Timers  PROVE Due'[t] = Due[t] + IF t = x THEN 1 ELSE 0
    BY <1>d, <2>2, <2>3
  <2>5. Due' = [Due EXCEPT ![x] = @ + 1]
    BY <1>d, <2>1, <2>4, SMTT(30)
  <2> QED  BY <2>5 DEF x
<1>2. ASSUME NEW e \in Executors, StartHandler(e), hand[e] \notin invoked
      PROVE  /\ hand[e] \in Timers /\ Due[hand[e]] > 0
             /\ Due' = [Due EXCEPT ![hand[e]] = @ - 1]
             /\ begun' = [begun EXCEPT ![hand[e]] = @ + 1]
  <2> DEFINE x == hand[e]
  <2>1. /\ epc[e] = "run" /\ epc' = [epc EXCEPT ![e] = "end"]
        /\ begun' = [begun EXCEPT ![x] = @ + 1]
        /\ UNCHANGED <<execute_event_list, hand>>
    BY <1>2 DEF StartHandler, GoExecutor
  <2>2. x \in Timers
    BY <1>t, <2>1
  <2>3. OnHand(epc', hand', x) = OnHand(epc, hand, x) \ {e} /\ e \in OnHand(epc, hand, x)
    BY <1>t, <2>1 DEF OnHand
  <2>4. \A t \in Timers : t # x => OnHand(epc', hand', t) = OnHand(epc, hand, t)
    BY <1>t, <2>1 DEF OnHand
  <2> HIDE DEF x
  <2>5. Cardinality(OnHand(epc', hand', x)) = Cardinality(OnHand(epc, hand, x)) - 1
    BY <1>d, <2>2, <2>3, FS_RemoveElement
  <2>6. Due'[x] = Due[x] - 1 /\ Due[x] > 0
    <3>1. /\ Due[x] = Cardinality(Occurrences(execute_event_list, x))
                      + Cardinality(OnHand(epc, hand, x))
          /\ Due'[x] = Cardinality(Occurrences(execute_event_list, x))
                       + Cardinality(OnHand(epc', hand', x))
      BY <1>d, <2>1, <2>2
    <3>2. /\ Cardinality(Occurrences(execute_event_list, x)) \in Nat
          /\ Cardinality(OnHand(epc, hand, x)) \in Nat
          /\ Cardinality(OnHand(epc', hand', x)) \in Nat
      BY <1>d, <2>2
    <3> QED  BY <2>5, <3>1, <3>2
  <2>7. \A t \in Timers : t # x => Due'[t] = Due[t]
    BY <1>d, <2>1, <2>4
  <2>8. Due' = [Due EXCEPT ![x] = @ - 1]
    BY <1>d, <2>2, <2>6, <2>7
  <2> QED  BY <2>1, <2>2, <2>6, <2>8 DEF x
<1>3. ASSUME NEW e \in Executors, AwaitHandler(e)  PROVE Due' = Due /\ begun' = begun
  <2>1. epc[e] = "lock" /\ begun' = begun
    BY <1>3 DEF AwaitHandler, GoExecutor
  <2>2. CASE \E s \in {"exited", "block"} : epc' = [epc EXCEPT ![e] = s]
             /\ UNCHANGED <<execute_event_list, hand>>
    <3>1. ASSUME NEW t \in Timers  PROVE OnHand(epc', hand', t) = OnHand(epc, hand, t)
      BY <1>t, <2>1, <2>2 DEF OnHand
    <3>2. ASSUME NEW t \in Timers  PROVE Due'[t] = Due[t]
      BY <1>d, <2>2, <3>1
    <3> QED  BY <1>d, <2>1, <3>2
  <2>3. CASE /\ execute_event_list # <<>>
             /\ epc' = [epc EXCEPT ![e] = "run"]
             /\ hand' = [hand EXCEPT ![e] = Head(execute_event_list)]
             /\ execute_event_list' = Tail(execute_event_list)
    <3> DEFINE x == Head(execute_event_list)
    <3>1. ASSUME NEW t \in Timers
          PROVE  Cardinality(Occurrences(execute_event_list, t)) =
                   Cardinality(Occurrences(execute_event_list', t)) + IF t = x THEN 1 ELSE 0
      BY <1>t, <2>3, OccurrencesOfTail
    <3>2. x \in Timers
      BY <1>t, <2>3, HeadTailProperties
    <3>9. /\ epc'[e] = "run" /\ hand'[e] = x
          /\ \A f \in Executors : f # e => epc'[f] = epc[f] /\ hand'[f] = hand[f]
      BY <1>t, <2>3
    <3> HIDE DEF x
    <3>3. OnHand(epc', hand', x) = OnHand(epc, hand, x) \cup {e} /\ e \notin OnHand(epc, hand, x)
      BY <2>1, <3>9 DEF OnHand
    <3>4. \A t \in Timers : t # x => OnHand(epc', hand', t) = OnHand(epc, hand, t)
      BY <2>1, <3>9 DEF OnHand
    <3>5. Cardinality(OnHand(epc', hand', x)) = Cardinality(OnHand(epc, hand, x)) + 1
      BY <1>d, <3>2, <3>3, FS_AddElement
    <3>6. Due'[x] = Due[x]
      <4>1. /\ Due[x] = Cardinality(Occurrences(execute_event_list, x))
                        + Cardinality(OnHand(epc, hand, x))
            /\ Due'[x] = Cardinality(Occurrences(execute_event_list', x))
                         + Cardinality(OnHand(epc', hand', x))
        BY <1>d, <3>2
      <4>2. /\ Cardinality(Occurrences(execute_event_list', x)) \in Nat
            /\ Cardinality(OnHand(epc, hand, x)) \in Nat
        BY <1>d, <3>2
      <4> QED  BY <3>1, <3>2, <3>5, <4>1, <4>2
    <3>7. \A t \in Timers : t # x => Due'[t] = Due[t]
      BY <1>d, <3>1, <3>4
    <3> QED  BY <1>d, <2>1, <3>6, <3>7
  <2> QED  BY <1>3, <2>2, <2>3 DEF AwaitHandler, GoExecutor
<1>4. ASSUME NEW e \in Executors,
             \/ BlockExecutor(e) \/ SpuriousWakeExecutor(e) \/ EndHandler(e)
             \/ StartHandler(e) /\ hand[e] \in invoked
      PROVE  Due' = Due /\ begun' = begun
  <2>1. UNCHANGED <<execute_event_list, begun>>
    BY <1>4 DEF BlockExecutor, SpuriousWakeExecutor, EndHandler, StartHandler, handlers
  <2>2. \A f \in Executors : /\ epc'[f] = "run" <=> epc[f] = "run"
                             /\ epc[f] = "run" => hand'[f] = hand[f]
    BY <1>t, <1>4 DEF BlockExecutor, SpuriousWakeExecutor, EndHandler, StartHandler, handlers,
                      GoExecutor
  <2>3. ASSUME NEW t \in Timers  PROVE OnHand(epc', hand', t) = OnHand(epc, hand, t)
    <3>1. \A f \in Executors : (epc'[f] = "run" /\ hand'[f] = t) <=> (epc[f] = "run" /\ hand[f] = t)
      BY <2>2, Zenon
    <3> QED  BY <3>1 DEF OnHand
  <2>4. ASSUME NEW t \in Timers  PROVE Due'[t] = Due[t]
    BY <1>d, <2>1, <2>3
  <2> QED  BY <1>d, <2>1, <2>4
<1>5. ASSUME NotifyExecutors  PROVE Due' = Due /\ begun' = begun
  <2>1. /\ UNCHANGED <<execute_event_list, begun, hand>>
        /\ \A f \in Executors : epc'[f] = "run" <=> epc[f] = "run"
    BY <1>5 DEF NotifyExecutors, handlers
  <2>2. ASSUME NEW t \in Timers  PROVE OnHand(epc', hand', t) = OnHand(epc, hand, t)
    BY <2>1 DEF OnHand
  <2>3. ASSUME NEW t \in Timers  PROVE Due'[t] = Due[t]
    BY <1>d, <2>1, <2>2
  <2> QED  BY <1>d, <2>1, <2>3
<1>6. ASSUME UNCHANGED <<execute_event_list, epc, handlers>>  PROVE Due' = Due /\ begun' = begun
  BY <1>6 DEF Due, handlers
<1> QED
  BY <1>1, <1>2, <1>3, <1>4, <1>5, <1>6, Writers DEF ExecutorStep

(* A timer is created when its event is inserted.                          *)
LEMMA CreatedStep ==
  ASSUME SafeInv, IdInv, [Next]_vars
  PROVE  /\ \A u \in Users : InsertEvent(u) =>
              making[u] \notin Created /\ Created' = Created \cup {making[u]}
         /\ Created' = Created \/ \E u \in Users : InsertEvent(u)
<1>t. /\ id \in [Timers -> Nat]
      /\ upc \in [Users -> {"idle", "insert", "notify", "return"}]
      /\ making \in [Users -> Timers \cup {NoTimer}] /\ NoTimer \notin Timers
  BY TimerAssumption DEF SafeInv, TypeOK
<1>1. ASSUME NEW u \in Users, InsertEvent(u)
      PROVE  making[u] \notin Created /\ Created' = Created \cup {making[u]}
  <2>1. /\ upc[u] = "insert" /\ upc' = [upc EXCEPT ![u] = "notify"]
        /\ making[u] \in Timers /\ id' = id /\ making' = making
    BY <1>1, InsertFacts DEF ids
  <2>2. making[u] \notin Created /\ id[making[u]] # 0
    BY <1>t, <2>1 DEF Created, IdInv
  <2>3. \A v \in Users : making[v] = making[u] => v = u
    BY <1>t, <2>1 DEF IdInv
  <2>4. /\ upc'[u] = "notify" /\ \A v \in Users : v # u => upc'[v] = upc[v]
    BY <1>t, <2>1
  <2>5. ASSUME NEW t \in Timers  PROVE t \in Created' <=> t \in Created \cup {making[u]}
    <3>1. CASE t = making[u]
      BY <2>1, <2>2, <2>3, <2>4, <3>1 DEF Created
    <3>2. CASE t # making[u]
      BY <2>1, <2>4, <3>2 DEF Created
    <3> QED  BY <3>1, <3>2
  <2>6. Created \subseteq Timers /\ Created' \subseteq Timers
    BY DEF Created
  <2> QED  BY <2>1, <2>2, <2>5, <2>6
<1>2. ASSUME NEW u \in Users, NEW t \in Timers, NewEvent(u, t)  PROVE Created' = Created
  <2>1. /\ upc[u] = "idle" /\ upc' = [upc EXCEPT ![u] = "insert"]
        /\ making' = [making EXCEPT ![u] = t]
        /\ id[t] = 0 /\ id' = [id EXCEPT ![t] = NextId]
    BY <1>2 DEF NewEvent, GoUser
  <2>2. t \notin Created /\ t \notin Created'
    BY <1>t, <2>1 DEF Created
  <2>3. ASSUME NEW r \in Timers, r # t  PROVE r \in Created' <=> r \in Created
    <3>1. id'[r] = id[r]
      BY <1>t, <2>1, <2>3
    <3>2. \A v \in Users : /\ v # u => upc'[v] = upc[v] /\ making'[v] = making[v]
                           /\ v = u => upc[v] # "insert" /\ making'[v] = t
      BY <1>t, <2>1
    <3>3. \A v \in Users : ~(upc'[v] = "insert" /\ making'[v] = r)
                             <=> ~(upc[v] = "insert" /\ making[v] = r)
      BY <2>3, <3>2
    <3> QED  BY <3>1, <3>3 DEF Created
  <2>4. Created \subseteq Timers /\ Created' \subseteq Timers
    BY DEF Created
  <2> QED  BY <2>2, <2>3, <2>4
<1>3. ASSUME NEW u \in Users, NotifyCreated(u) \/ ReturnId(u)  PROVE Created' = Created
  <2>1. /\ id' = id /\ upc[u] # "insert"
        /\ upc' \in {[upc EXCEPT ![u] = "return"], [upc EXCEPT ![u] = "idle"]}
        /\ making' \in {making, [making EXCEPT ![u] = NoTimer]}
    BY <1>3 DEF NotifyCreated, ReturnId, GoUser, ids
  <2>2. \A v \in Users : /\ upc'[v] = "insert" <=> upc[v] = "insert"
                         /\ upc[v] = "insert" => making'[v] = making[v]
    BY <1>t, <2>1
  <2>3. \A t \in Timers, v \in Users : ~(upc'[v] = "insert" /\ making'[v] = t)
                                        <=> ~(upc[v] = "insert" /\ making[v] = t)
    BY <2>2, Zenon
  <2> QED  BY <2>1, <2>3 DEF Created
<1>4. ASSUME UNCHANGED <<ids, upc, making>>  PROVE Created' = Created
  BY <1>4 DEF Created, ids
<1> QED  BY <1>1, <1>2, <1>3, <1>4, Writers DEF UserStep

(* Every step of the queue is a step of the service, or none.              *)
LEMMA ServiceStep ==
  SafeInv /\ IdInv /\ VectorInv /\ DeadlineInv /\ [Next]_vars => [Service!Next]_(Service!vars)
<1> SUFFICES ASSUME SafeInv, IdInv, VectorInv, DeadlineInv, [Next]_vars
             PROVE  Service!Next \/ UNCHANGED Service!vars
  OBVIOUS
<1> DEFINE nothing == UNCHANGED <<now, Created, Armed, Deadlines, Due, begun>>
<1>t. /\ timeout \in [Timers -> Nat] /\ event_vector \in Seq(Timers) /\ now \in Nat
      /\ Armed \subseteq Timers
  <2>1. timeout \in [Timers -> Nat] /\ event_vector \in Seq(Timers) /\ now \in Nat
    BY DEF SafeInv, TypeOK
  <2>2. ToSet(event_vector) \subseteq Timers
    BY <2>1, ElementOfSeq, LenProperties DEF ToSet
  <2> QED  BY <2>1, <2>2 DEF Armed
<1>s. nothing => UNCHANGED Service!vars
  BY DEF Service!vars, Deadlines
<1>T. Service!Timers = Timers
  BY DEF Service!Timers, Timers
<1>1. ASSUME Tick  PROVE Service!Tick
  <2>1. now' = now + 1 /\ UNCHANGED <<ids, upc, making, event_vector, timeout, begun>>
    BY <1>1 DEF Tick, ids, vector, clients, executors, handlers
  <2>2. UNCHANGED <<execute_event_list, epc, hand>>
    BY <1>1 DEF Tick, executors, handlers
  <2> QED  BY <2>1, <2>2 DEF Service!Tick, Created, Armed, Due, ids
<1>2. ASSUME NEW u \in Users, InsertEvent(u)  PROVE \E t \in Timers : Service!Arm(t)
  <2>0. PICK t \in Timers : t = making[u]
    BY <1>2, InsertFacts
  <2>1. /\ t \in Timers /\ Armed' = Armed \cup {t} /\ upc[u] = "insert"
        /\ UNCHANGED <<now, timeout>>
    BY <1>2, <2>0, InsertFacts DEF Armed
  <2>2. t \notin Created /\ Created' = Created \cup {t}
    BY <1>2, <2>0, CreatedStep
  <2>3. UNCHANGED <<Due, begun>>
    BY <1>2 DEF InsertEvent, executors, handlers, Due
  <2>4. timeout[t] \in Delay[t] .. now + Delay[t]
    BY <2>0, <2>1 DEF DeadlineInv
  <2>5. Deadlines' = [Deadlines EXCEPT ![t] = timeout[t]]
    BY <2>1 DEF Deadlines
  <2>6. Service!Arm(t)
    BY <2>1, <2>2, <2>3, <2>4, <2>5 DEF Service!Arm, Deadlines
  <2> QED  BY <2>1, <2>6
<1>3. ASSUME NEW u \in Users, NEW r \in Timers, CancelTimer(u, r)
      PROVE  nothing \/ \E t \in Timers : Service!Cancel(t)
  <2>0. UNCHANGED <<execute_event_list, epc, hand, begun>>
    BY <1>3 DEF CancelTimer, executors, handlers
  <2>a. Due' = Due
    BY <2>0 DEF Due
  <2>1. UNCHANGED <<now, timeout, ids, upc, making, Due, begun>>
    BY <1>3, <2>0, <2>a, CancelFacts
  <2>2. Created' = Created
    BY <2>1 DEF Created, ids
  <2>3. CASE event_vector' = event_vector
    BY <2>1, <2>2, <2>3 DEF Armed, Deadlines
  <2>4. ASSUME NEW c \in ToSet(event_vector), ToSet(event_vector') = ToSet(event_vector) \ {c}
        PROVE  \E t \in Timers : Service!Cancel(t)
    <3>0. c \in Armed /\ Armed' = Armed \ {c}
      BY <2>4 DEF Armed
    <3>1. c \in Armed /\ c \in Timers /\ Armed' = Armed \ {c}
      BY <1>t, <3>0
    <3>2. Deadlines' = [Deadlines EXCEPT ![c] = 0]
      BY <2>1, <3>1 DEF Deadlines
    <3>3. Service!Cancel(c)
      BY <2>1, <2>2, <3>1, <3>2 DEF Service!Cancel, Service!Disarm, Deadlines
    <3> QED  BY <3>1, <3>3
  <2> QED  BY <1>3, <2>3, <2>4, CancelFacts
<1>4. ASSUME FireEvent  PROVE \E t \in Timers : Service!Expire(t)
  <2> DEFINE t == Last(event_vector)
  <2>1. /\ t \in Timers /\ t \in Armed /\ lpc = "fire"
        /\ \/ /\ t \in Repeats /\ event_vector' = event_vector
              /\ timeout' = [timeout EXCEPT ![t] = now + Delay[t]]
           \/ /\ t \notin Repeats /\ timeout' = timeout
              /\ ToSet(event_vector') = ToSet(event_vector) \ {t}
    BY <1>4, FireFacts DEF Armed
  <2>2. UNCHANGED <<now, ids, upc, making, begun>>
    BY <1>4, FireFacts DEF clients, handlers
  <2>3. Created' = Created
    BY <2>2 DEF Created, ids
  <2>4. Due' = [Due EXCEPT ![t] = @ + 1]
    BY <1>4, DueStep
  <2>5. Deadlines[t] <= now
    BY <2>1 DEF Deadlines, DeadlineInv
  <2> HIDE DEF t
  <2>6. CASE t \in Repeats
    <3>1. Armed' = Armed /\ timeout' = [timeout EXCEPT ![t] = now + Delay[t]]
      BY <2>1, <2>6 DEF Armed
    <3>2. Deadlines' = [Deadlines EXCEPT ![t] = now + Delay[t]]
      BY <1>t, <2>1, <3>1 DEF Deadlines
    <3> QED  BY <2>1, <2>2, <2>3, <2>4, <2>5, <2>6, <3>1, <3>2 DEF Service!Expire, Deadlines
  <2>7. CASE t \notin Repeats
    <3>1. Armed' = Armed \ {t} /\ timeout' = timeout
      BY <2>1, <2>7 DEF Armed
    <3>2. Deadlines' = [Deadlines EXCEPT ![t] = 0]
      BY <2>1, <3>1 DEF Deadlines
    <3> QED  BY <2>1, <2>2, <2>3, <2>4, <2>5, <2>7, <3>1, <3>2
                DEF Service!Expire, Service!Disarm, Deadlines
  <2> QED  BY <2>6, <2>7
<1>5. ASSUME NEW e \in Executors, ExecutorStep(e) \/ SpuriousWakeExecutor(e)
      PROVE  UNCHANGED <<now, Created, Armed, Deadlines>>
  <2>1. UNCHANGED <<now, ids, clients, vector>>
    BY <1>5 DEF ExecutorStep, AwaitHandler, BlockExecutor, StartHandler, EndHandler,
                SpuriousWakeExecutor
  <2> QED  BY <2>1 DEF Created, Armed, Deadlines, ids, clients, vector
<1>6. ASSUME NEW e \in Executors, StartHandler(e), hand[e] \notin invoked
      PROVE  \E t \in Timers : Service!Begin(t)
  <2>1. /\ hand[e] \in Timers /\ Due[hand[e]] > 0
        /\ Due' = [Due EXCEPT ![hand[e]] = @ - 1]
        /\ begun' = [begun EXCEPT ![hand[e]] = @ + 1]
    BY <1>6, DueStep
  <2>2. UNCHANGED <<now, Created, Armed, Deadlines>>
    BY <1>5, <1>6 DEF ExecutorStep
  <2> QED  BY <2>1, <2>2 DEF Service!Begin, Deadlines
<1>7. ASSUME ~FireEvent, ~\E e \in Executors : StartHandler(e) /\ hand[e] \notin invoked
      PROVE  UNCHANGED <<Due, begun>>
  BY <1>7, DueStep
<1>8. ASSUME ~Tick, ~FireEvent, ~\E u \in Users : InsertEvent(u),
             ~\E u \in Users, t \in Timers : CancelTimer(u, t)
      PROVE  UNCHANGED <<now, Created, Armed, Deadlines>>
  <2>1. now' = now /\ Created' = Created
    BY <1>8, CreatedStep, Writers
  <2>2. Armed' = Armed
    <3>1. CASE LookAtEarliest
      BY <3>1, LookFacts DEF Armed
    <3>2. CASE event_vector' = event_vector
      BY <3>2 DEF Armed
    <3> QED  BY <1>8, <3>1, <3>2, Writers
  <2>3. \A t \in Armed : timeout'[t] = timeout[t]
    <3>1. ASSUME NEW u \in Users, NEW t \in Timers, NewEvent(u, t)
          PROVE  \A r \in Armed : timeout'[r] = timeout[r]
      <4>1. id[t] = 0 /\ timeout' = [timeout EXCEPT ![t] = now + Delay[t]]
        BY <3>1 DEF NewEvent
      <4>2. t \notin Armed
        BY <4>1 DEF Armed, VectorInv
      <4> QED  BY <1>t, <4>1, <4>2
    <3>2. CASE timeout' = timeout
      BY <3>2
    <3> QED  BY <1>8, <3>1, <3>2, Writers
  <2>4. Deadlines' = Deadlines
    BY <2>2, <2>3 DEF Deadlines
  <2> QED  BY <2>1, <2>2, <2>4
<1>9. CASE Tick
  BY <1>1, <1>9 DEF Service!Next
<1>10. CASE \E u \in Users : InsertEvent(u)
  BY <1>T, <1>2, <1>10 DEF Service!Next
<1>11. CASE \E u \in Users, t \in Timers : CancelTimer(u, t)
  BY <1>s, <1>T, <1>3, <1>11 DEF Service!Next
<1>12. CASE FireEvent
  BY <1>T, <1>4, <1>12 DEF Service!Next
<1>13. CASE \E e \in Executors : StartHandler(e) /\ hand[e] \notin invoked
  BY <1>T, <1>6, <1>13 DEF Service!Next
<1> QED  BY <1>s, <1>7, <1>8, <1>9, <1>10, <1>11, <1>12, <1>13

LEMMA ServiceInit == Init => Service!Init
<1> SUFFICES ASSUME Init PROVE Service!Init
  OBVIOUS
<1>1. /\ now = 0 /\ event_vector = <<>> /\ execute_event_list = <<>>
      /\ id = [t \in Timers |-> 0] /\ begun = [t \in Timers |-> 0]
      /\ epc = [e \in Executors |-> "lock"]
  BY DEF Init
<1>2. Armed = {} /\ Created = {}
  BY <1>1, EmptySeq, EmptyIffNoElement DEF Armed, Created
<1>3. ASSUME NEW t \in Timers  PROVE Due[t] = 0
  <2>1. {i \in 1 .. Len(execute_event_list) : execute_event_list[i] = t} = {}
    BY <1>1, EmptySeq
  <2>2. {e \in Executors : epc[e] = "run" /\ hand[e] = t} = {}
    BY <1>1
  <2>3. Due[t] = Cardinality({}) + Cardinality({})
    BY <2>1, <2>2 DEF Due
  <2>4. Cardinality({}) = 0
    BY FS_EmptySet
  <2> QED  BY <2>3, <2>4
<1>4. Due = [t \in Timers |-> 0]
  BY <1>3 DEF Due
<1>5. [t \in Timers |-> IF t \in Armed THEN timeout[t] ELSE 0] = [t \in Timers |-> 0]
  BY <1>2
<1>6. Service!Timers = Timers
  BY DEF Service!Timers, Timers
<1> QED  BY <1>1, <1>2, <1>4, <1>5, <1>6 DEF Service!Init

(* The queue implements TimerService: no handler starts early, twice for   *)
(* one expiry or after a cancellation, and no expiry is lost or doubled    *)
(* between the vector and the executor.                                    *)
THEOREM ImplementsService == Spec => ServiceSpec
<1> DEFINE Inv == SafeInv /\ IdInv /\ VectorInv /\ DeadlineInv
<1>1. Init => Inv
  <2>1. Init => DeadlineInv
    BY DEF Init, DeadlineInv
  <2> QED  BY <2>1, SafeInvInit, IdInvInit, VectorInvInit
<1>2. Inv /\ [Next]_vars => Inv'
  BY SafeInvStep, IdInvStep, VectorInvStep, DeadlineStep
<1>3. Inv /\ [Next]_vars => [Service!Next]_(Service!vars)
  BY ServiceStep
<1>4. Init => Service!Init
  BY ServiceInit
<1> QED  BY <1>1, <1>2, <1>3, <1>4, PTL DEF Spec, ServiceSpec, Service!Spec

=============================================================================
