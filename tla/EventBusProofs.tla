--------------------------- MODULE EventBusProofs ---------------------------
(***************************************************************************)
(* Theorems about EventBus for any listeners, indices and workers, and any *)
(* bounds on what is registered and pushed.                                *)
(***************************************************************************)
EXTENDS EventBus, QueueLemmas, DataInduction

-----------------------------------------------------------------------------
(* Operators of the model.                                                 *)

LEMMA UsedProperties ==
  ASSUME NEW c \in Seq(Singletons), IsInjective(c), NEW s \in Singletons
  PROVE  /\ Used(c, s) \in Seq(Singletons) /\ IsInjective(Used(c, s))
         /\ ToSet(Used(c, s)) = ToSet(c) \cup {s}
         /\ s \in ToSet(c) => Used(c, s) = c
BY AppendToSet DEF Used

LEMMA TimesIsOccurrences ==
  ASSUME NEW q, NEW x
  PROVE  Times(q, x) = Cardinality(Occurrences(q, x))
BY DEF Times, Occurrences

LEMMA TimesFacts ==
  ASSUME NEW S, NEW q \in Seq(S), NEW x
  PROVE  /\ Times(q, x) \in Nat
         /\ \A e \in S : Times(Append(q, e), x) = Times(q, x) + IF x = e THEN 1 ELSE 0
         /\ q # <<>> => Times(q, x) = Times(Tail(q), x) + IF x = Head(q) THEN 1 ELSE 0
         /\ q = <<>> => Times(q, x) = 0
<1>1. q = <<>> => Occurrences(q, x) = {}
  BY DEF Occurrences
<1> QED  BY <1>1, TimesIsOccurrences, OccurrencesFinite, OccurrencesOfAppend,
            OccurrencesOfTail, FS_EmptySet

(* The walk of unregister_event, entry by entry.                           *)
Walked(entries, l, before, k) ==
  IF k = 0 THEN <<>>
  ELSE IF entries[k] = l THEN before[k - 1] ELSE Append(before[k - 1], entries[k])

LEMMA ErasedWalk ==
  ASSUME NEW S, NEW entries \in Seq(S), NEW l
  PROVE  \E kept : /\ kept = [k \in 0 .. Len(entries) |-> Walked(entries, l, kept, k)]
                   /\ Erased(entries, l) = kept[Len(entries)]
<1> DEFINE N == Len(entries)
           Walk(m) == \E f : f = [k \in 0 .. m |-> Walked(entries, l, f, k)]
           A == {m \in Nat : Walk(m)}
<1>1. 0 \in A
  <2>1. [k \in 0 .. 0 |-> <<>>] =
          [k \in 0 .. 0 |-> Walked(entries, l, [i \in 0 .. 0 |-> <<>>], k)]
    BY DEF Walked
  <2> QED  BY <2>1
<1>2. ASSUME NEW m \in Nat, m \in A  PROVE m + 1 \in A
  <2>1. PICK f : f = [k \in 0 .. m |-> Walked(entries, l, f, k)]
    BY <1>2
  <2> DEFINE g == [k \in 0 .. m + 1 |-> IF k <= m THEN f[k] ELSE Walked(entries, l, f, k)]
  <2>2. ASSUME NEW k \in 0 .. m + 1  PROVE g[k] = Walked(entries, l, g, k)
    <3>1. k # 0 => k - 1 \in 0 .. m /\ g[k - 1] = f[k - 1]
      OBVIOUS
    <3>2. Walked(entries, l, g, k) = Walked(entries, l, f, k)
      BY <3>1 DEF Walked
    <3>3. k <= m => f[k] = Walked(entries, l, f, k)
      BY <2>1
    <3> QED  BY <3>2, <3>3
  <2>3. g = [k \in 0 .. m + 1 |-> Walked(entries, l, g, k)]
    BY <2>2
  <2> HIDE DEF g
  <2>4. Walk(m + 1)
    BY <2>3
  <2> QED  BY <2>4
<1>3. Nat \subseteq A
  <2> HIDE DEF A
  <2> QED  BY <1>1, <1>2, SetInduction
<1>4. N \in Nat
  OBVIOUS
<1>5. PICK f : f = [k \in 0 .. N |-> Walked(entries, l, f, k)]
  BY <1>3, <1>4
<1> DEFINE kept == CHOOSE h : h = [k \in 0 .. N |-> Walked(entries, l, h, k)]
<1>6. kept = [k \in 0 .. N |-> Walked(entries, l, kept, k)]
  BY <1>5
<1>7. Erased(entries, l) = kept[N]
  BY DEF Erased, Walked
<1> QED  BY <1>6, <1>7

(* What is left: every entry but the listener's, as often as it was there. *)
LEMMA ErasedProperties ==
  ASSUME NEW S, NEW entries \in Seq(S), NEW l
  PROVE  /\ Erased(entries, l) \in Seq(S)
         /\ \A x : Times(Erased(entries, l), x) = IF x = l THEN 0 ELSE Times(entries, x)
<1> DEFINE N == Len(entries)
<1>n. N \in Nat /\ DOMAIN entries = 1 .. N /\ \A k \in 1 .. N : entries[k] \in S
  BY LenProperties
<1>1. PICK kept : /\ kept = [k \in 0 .. N |-> Walked(entries, l, kept, k)]
                  /\ Erased(entries, l) = kept[N]
  BY ErasedWalk
<1> DEFINE front(k) == SubSeq(entries, 1, k)
           Good(k) == /\ kept[k] \in Seq(S)
                      /\ \A x : Times(kept[k], x) = IF x = l THEN 0 ELSE Times(front(k), x)
           A == {k \in Nat : k <= N => Good(k)}
<1>2. 0 \in A
  <2>1. kept[0] = <<>>
    BY <1>1, <1>n DEF Walked
  <2>2. front(0) = <<>>
    BY <1>n, SubSeqProperties, EmptySeq
  <2>3. <<>> \in Seq(S) /\ \A x : Times(<<>>, x) = 0
    <3>1. <<>> \in Seq(S) /\ \A x : {k \in 1 .. Len(<<>>) : <<>>[k] = x} = {}
      OBVIOUS
    <3> QED  BY <3>1, FS_EmptySet DEF Times
  <2>4. Good(0)
    BY <2>1, <2>2, <2>3
  <2> HIDE DEF Good
  <2> QED  BY <2>4
<1>3. ASSUME NEW m \in Nat, m \in A  PROVE m + 1 \in A
  <2> SUFFICES ASSUME m + 1 <= N  PROVE Good(m + 1)
    OBVIOUS
  <2> DEFINE e == entries[m + 1]
  <2>1. Good(m) /\ e \in S
    BY <1>3, <1>n
  <2>2. kept[m + 1] = IF e = l THEN kept[m] ELSE Append(kept[m], e)
    <3>1. m + 1 \in 0 .. N /\ m + 1 # 0 /\ (m + 1) - 1 = m
      BY <1>n
    <3> QED  BY <1>1, <3>1 DEF Walked
  <2>3. front(m) \in Seq(S) /\ front(m + 1) = Append(front(m), e)
    <3>1. /\ front(m) \in Seq(S) /\ Len(front(m)) = m
          /\ \A k \in 1 .. m : front(m)[k] = entries[k]
      BY <1>n, SubSeqProperties
    <3>2. /\ front(m + 1) \in Seq(S) /\ Len(front(m + 1)) = m + 1
          /\ \A k \in 1 .. m + 1 : front(m + 1)[k] = entries[k]
      BY <1>n, SubSeqProperties
    <3>3. /\ Append(front(m), e) \in Seq(S) /\ Len(Append(front(m), e)) = m + 1
          /\ \A k \in 1 .. m : Append(front(m), e)[k] = front(m)[k]
          /\ Append(front(m), e)[m + 1] = e
      BY <2>1, <3>1, AppendProperties
    <3> HIDE DEF front
    <3>4. \A k \in 1 .. m + 1 : front(m + 1)[k] = Append(front(m), e)[k]
      BY <3>1, <3>2, <3>3
    <3> QED  BY <3>1, <3>2, <3>3, <3>4, SeqEqual
  <2>4. \A x : Times(front(m + 1), x) = Times(front(m), x) + IF x = e THEN 1 ELSE 0
    <3> HIDE DEF front, e
    <3>1. ASSUME NEW x
          PROVE  Times(Append(front(m), e), x) = Times(front(m), x) + IF x = e THEN 1 ELSE 0
      BY <2>1, <2>3, TimesFacts
    <3> QED  BY <2>3, <3>1
  <2>5. \A x : Times(front(m), x) \in Nat
    BY <2>3, TimesFacts
  <2>6. e # l => \A x : Times(Append(kept[m], e), x) =
                          Times(kept[m], x) + IF x = e THEN 1 ELSE 0
    BY <2>1, TimesFacts
  <2>7. kept[m + 1] \in Seq(S)
    BY <2>1, <2>2, AppendProperties
  <2> HIDE DEF front, e
  <2>8. ASSUME NEW x
        PROVE  Times(kept[m + 1], x) = IF x = l THEN 0 ELSE Times(front(m + 1), x)
    <3>1. CASE e = l
      BY <2>1, <2>2, <2>4, <2>5, <3>1
    <3>2. CASE e # l
      BY <2>1, <2>2, <2>4, <2>5, <2>6, <3>2
    <3> QED  BY <3>1, <3>2
  <2> QED  BY <2>7, <2>8
<1>4. Nat \subseteq A
  <2> HIDE DEF A
  <2> QED  BY <1>2, <1>3, SetInduction
<1>5. Good(N)
  <2> HIDE DEF Good
  <2>1. N \in A
    BY <1>4, <1>n
  <2> QED  BY <2>1, <1>n
<1>6. front(N) = entries
  <2>1. /\ front(N) \in Seq(S) /\ Len(front(N)) = N
        /\ \A k \in 1 .. N : front(N)[k] = entries[k]
    BY <1>n, SubSeqProperties, SMTT(30)
  <2> HIDE DEF front
  <2> QED  BY <1>n, <2>1, SeqEqual
<1> QED  BY <1>1, <1>5, <1>6
-----------------------------------------------------------------------------
(* The steps of the pool, in terms of the bus's state.                     *)

LEMMA EnqueueFacts ==
  ASSUME TypeOK, NEW u \in Users, Enqueue(u)
  PROVE  /\ pushing[u] # NoPush /\ pushing[u] \in Push /\ ~pushing[u].counting
         /\ pushing[u].position <= Len(event_map[pushing[u].index])
         /\ \A v \in Users : v # u => pushing'[v] = pushing[v]
         /\ Touch("ThreadPool")
         /\ task_queue' = Append(task_queue,
              [number |-> pushing[u].number,
               listener |-> event_map[pushing[u].index][pushing[u].position]])
         /\ pushing' = [pushing EXCEPT ![u].counting = TRUE]
         /\ UNCHANGED <<listeners, script, pushed, jobs_left, bailout, finished, running, left,
                        join, calls, destroyed, returned, late>>
<1> DEFINE n == [number |-> pushing[u].number,
                 listener |-> event_map[pushing[u].index][pushing[u].position]]
<1>1. /\ pushing[u] # NoPush /\ pushing[u].position <= Len(event_map[pushing[u].index])
      /\ Touch("ThreadPool") /\ pushing' = [pushing EXCEPT ![u].counting = TRUE]
      /\ UNCHANGED <<listeners, script, pushed, calls, destroyed, returned, late>>
      /\ Pool!Insert(u, n)
  BY DEF Enqueue
<1> HIDE DEF n
<1>2. /\ u \notin {v \in Users : pushing[v].counting}
      /\ UNCHANGED <<jobs_left, bailout, finished, running, left, join>>
  BY <1>1 DEF Pool!Insert
<1>3. PICK i \in 1 .. Len(task_queue) + 1 :
        /\ ~(i <= Len(task_queue))
        /\ task_queue' = InsertAt(task_queue, i, n)
  BY <1>1 DEF Pool!Insert, Pool!Outranks, Pool!InsertAt, InsertAt
<1>4. task_queue \in Seq(Note) /\ Len(task_queue) \in Nat
  BY LenProperties DEF TypeOK
<1>5. i = Len(task_queue) + 1
  BY <1>3, <1>4
<1>6. InsertAt(task_queue, Len(task_queue) + 1, n) = Append(task_queue, n)
  <2>1. n \in Note
    <3>1. /\ pushing[u] \in Push /\ event_map[pushing[u].index] \in Seq(Listeners)
          /\ Len(event_map[pushing[u].index]) \in Nat
      BY <1>1, LenProperties DEF TypeOK, Push
    <3>2. event_map[pushing[u].index][pushing[u].position] \in Listeners
      BY <1>1, <3>1, ElementOfSeq DEF Push
    <3> QED  BY <3>1, <3>2 DEF n, Push, Note
  <2> QED  BY <1>4, <2>1, InsertAtEnd
<1>7. /\ pushing[u] \in Push
      /\ \A v \in Users : v # u => pushing'[v] = pushing[v]
  BY <1>1 DEF TypeOK
<1>8. ~pushing[u].counting
  BY <1>2
<1> QED  BY <1>1, <1>2, <1>3, <1>5, <1>6, <1>7, <1>8 DEF n

LEMMA CountFacts ==
  ASSUME TypeOK, NEW u \in Users, CountAndAdvance(u)
  PROVE  /\ pushing[u] # NoPush /\ pushing[u] \in Push /\ pushing[u].counting
         /\ jobs_left' = jobs_left + 1
         /\ \A v \in Users : v # u => pushing'[v] = pushing[v]
         /\ pushing' = [pushing EXCEPT ![u].counting = FALSE, ![u].position = @ + 1]
         /\ UNCHANGED <<listeners, script, pushed, task_queue, bailout, finished, running, left,
                        join, calls, lifetime>>
<1>1. /\ u \in {v \in Users : pushing[v].counting} /\ jobs_left' = jobs_left + 1
      /\ pushing' = [pushing EXCEPT ![u].counting = FALSE, ![u].position = @ + 1]
      /\ UNCHANGED <<listeners, script, pushed, task_queue, bailout, finished, running, left,
                     join, calls, lifetime>>
  BY DEF CountAndAdvance, Pool!Count
<1>2. pushing[u].counting /\ NoPush.counting = FALSE
  BY <1>1 DEF NoPush
<1>3. pushing[u] # NoPush
  BY <1>2
<1>4. /\ pushing[u] \in Push
      /\ \A v \in Users : v # u => pushing'[v] = pushing[v]
  BY <1>1, <1>3 DEF TypeOK
<1> QED  BY <1>1, <1>2, <1>3, <1>4

LEMMA TakeFacts ==
  ASSUME NEW w \in Workers, TakeNote(w)
  PROVE  /\ running[w] = NoNote /\ task_queue # <<>> /\ ~bailout
         /\ running' = [running EXCEPT ![w] = Head(task_queue)]
         /\ task_queue' = Tail(task_queue)
         /\ calls' = [calls EXCEPT ![Head(task_queue).number][Head(task_queue).listener] = @ + 1]
         /\ UNCHANGED <<listeners, pushes, jobs_left, bailout, finished, left, join, lifetime>>
BY DEF TakeNote, Pool!Take

LEMMA ReturnFacts ==
  ASSUME NEW w \in Workers, ReturnNote(w)
  PROVE  /\ pushing[w] = NoPush /\ running[w] # NoNote
         /\ running' = [running EXCEPT ![w] = NoNote] /\ jobs_left' = jobs_left - 1
         /\ left' \in {left, left \cup {w}} /\ (left' = left \/ bailout)
         /\ UNCHANGED <<listeners, pushes, task_queue, bailout, finished, join, calls, lifetime>>
BY DEF ReturnNote, Pool!CountOff

LEMMA IdleFacts ==
  ASSUME NEW w \in Workers, EndIdle(w)
  PROVE  /\ bailout /\ running[w] = NoNote /\ jobs_left' = jobs_left - 1
         /\ left' = left \cup {w}
         /\ UNCHANGED <<listeners, pushes, task_queue, bailout, finished, running, join, calls,
                        lifetime>>
BY DEF EndIdle, Pool!CountOffNothing

LEMMA DestroyFacts ==
  ASSUME TypeOK, DestroyPool
  PROVE  /\ returned /\ Remaining # {} /\ NextDestroyed = "ThreadPool"
         /\ UNCHANGED <<listeners, pushes, task_queue, jobs_left, finished, running, calls,
                        lifetime>>
         /\ \/ join' = "check" /\ UNCHANGED <<bailout, left>>
            \/ join' = "bail" /\ (finished \/ jobs_left <= 0) /\ UNCHANGED <<bailout, left>>
            \/ join' = "wait" /\ UNCHANGED <<bailout, left>>
            \/ /\ join = "bail" /\ join' = "join" /\ bailout'
               /\ \/ left' \in SUBSET {w \in Workers : running[w] = NoNote}
                  \/ left' = left /\ bailout
<1>1. /\ returned /\ Remaining # {} /\ NextDestroyed = "ThreadPool"
      /\ UNCHANGED <<listeners, pushes, calls, lifetime>>
      /\ Pool!JoinAllThread(TRUE) \/ Pool!WaitAll \/ Pool!Drained \/ Pool!SetBailout
  BY DEF DestroyPool
<1>2. jobs_left \in Int
  BY DEF TypeOK
<1>3. CASE Pool!JoinAllThread(TRUE)
  BY <1>1, <1>3 DEF Pool!JoinAllThread, Pool!Jump
<1>4. CASE Pool!WaitAll
  BY <1>1, <1>2, <1>4 DEF Pool!WaitAll, Pool!Jump
<1>5. CASE Pool!Drained
  BY <1>1, <1>5 DEF Pool!Drained, Pool!Jump
<1>6. CASE Pool!SetBailout
  <2>1. join = "bail" /\ join' = "join" /\ bailout' = TRUE
        /\ UNCHANGED <<task_queue, jobs_left, finished, running>>
    BY <1>6 DEF Pool!SetBailout, Pool!Jump
  <2>2. left' \in SUBSET {w \in Workers : running[w] = NoNote} \/ (left' = left /\ bailout)
    BY <1>6 DEF Pool!SetBailout
  <2> QED  BY <1>1, <2>1, <2>2
<1> QED  BY <1>1, <1>3, <1>4, <1>5, <1>6

LEMMA JoinFacts ==
  ASSUME JoinThreads
  PROVE  /\ join = "join" /\ join' = "no" /\ left = Workers /\ finished' = TRUE
         /\ destroyed' = destroyed \cup {"ThreadPool"}
         /\ UNCHANGED <<listeners, pushes, task_queue, jobs_left, bailout, running, left, calls,
                        constructed, returned, late>>
BY DEF JoinThreads, Pool!JoinThreads, Pool!Jump

-----------------------------------------------------------------------------
(* Phases of the program and use of the singletons: main pushes nothing    *)
(* after it has returned, the singletons are destroyed only then, a worker *)
(* pushes only from on_notify, and whoever uses a singleton has brought it *)
(* to life.                                                                *)
PhaseInv ==
  /\ returned => script = <<>> /\ pushing[Main] = NoPush
  /\ destroyed # {} \/ join # "no" \/ bailout => returned
  /\ join # "no" => "ThreadPool" \in ToSet(constructed)
  /\ "ThreadPool" \in destroyed \/ join = "join" \/ finished \/ left # {} => bailout
  /\ \A w \in left : running[w] = NoNote
  /\ \A w \in Workers : pushing[w] # NoPush => running[w] # NoNote
  /\ returned /\ ~late => \A w \in Workers : pushing[w] = NoPush

UseInv ==
  /\ \A u \in Users : pushing[u] # NoPush => "EventManager" \in ToSet(constructed)
  /\ task_queue # <<>> \/ (\E w \in Workers : running[w] # NoNote) =>
       {"EventManager", "ThreadPool"} \subseteq ToSet(constructed)

SafeInv == TypeOK /\ PhaseInv /\ UseInv

(* The singleton that is destroyed next is the last one constructed of     *)
(* those that remain.                                                      *)
LEMMA LastRemaining ==
  ASSUME TypeOK, Remaining # {}
  PROVE  /\ NextDestroyed \in Remaining
         /\ \A t \in Remaining \ {NextDestroyed} : Before(t, NextDestroyed)
<1> DEFINE N == Len(constructed)
           A == {N - k : k \in {i \in 1 .. N : constructed[i] \in Remaining}}
<1>1. constructed \in Seq(Singletons) /\ N \in Nat /\ DOMAIN constructed = 1 .. N
  BY LenProperties DEF TypeOK
<1>2. PICK s \in Remaining : TRUE
  OBVIOUS
<1>3. PICK i \in 1 .. N : constructed[i] = s
  BY <1>1, <1>2 DEF Remaining, ToSet
<1>4. A \in SUBSET Nat /\ N - i \in A
  BY <1>1, <1>2, <1>3
<1>5. PICK m \in A : \A k \in A : m <= k
  <2> HIDE DEF A
  <2> QED  BY <1>4, LeastNatural
<1>6. PICK j \in 1 .. N : m = N - j /\ constructed[j] \in Remaining
  BY <1>5
<1>7. ASSUME NEW t \in Remaining \ {constructed[j]}  PROVE Before(t, constructed[j])
  <2>1. PICK k \in 1 .. N : constructed[k] = t
    BY <1>1, <1>7 DEF Remaining, ToSet
  <2>2. N - k \in A
    BY <1>7, <2>1
  <2>3. k <= j /\ k # j
    <3>1. m <= N - k /\ m = N - j /\ k # j
      BY <1>5, <1>6, <1>7, <2>1, <2>2
    <3> HIDE DEF N
    <3> QED  BY <1>1, <3>1
  <2> QED  BY <1>6, <2>1, <2>3 DEF Before
<1>8. \E x \in Remaining : \A t \in Remaining \ {x} : Before(t, x)
  BY <1>6, <1>7
<1> QED  BY <1>8 DEF NextDestroyed

LEMMA TypeStep ==
  ASSUME TypeOK, PhaseInv, Next
  PROVE  TypeOK'
<1>p. pushed \in Nat /\ jobs_left \in Int
  BY DEF TypeOK
<1>t. /\ event_map \in [Indices -> Seq(Listeners)]
      /\ script \in Seq(Indices) /\ pushed \in Nat
      /\ pushing \in [Users -> {NoPush} \cup Push]
      /\ task_queue \in Seq(Note) /\ running \in [Workers -> {NoNote} \cup Note]
      /\ jobs_left \in Int /\ bailout \in BOOLEAN /\ finished \in BOOLEAN
      /\ left \subseteq Workers /\ join \in {"no", "check", "wait", "bail", "join"}
      /\ calls \in Seq([Listeners -> Nat]) /\ Len(calls) = pushed
      /\ constructed \in Seq(Singletons) /\ IsInjective(constructed)
      /\ destroyed \subseteq ToSet(constructed)
      /\ vct_events \subseteq Listeners /\ alive \subseteq Listeners
      /\ returned \in BOOLEAN /\ late \in BOOLEAN
  BY DEF TypeOK
<1>s. {"Builder", "EventManager", "ThreadPool"} \subseteq Singletons
  BY DEF Singletons
<1>n. pushed' = pushed => Note' = Note /\ Push' = Push
  BY DEF Note, Push
<1>c. ASSUME NEW s \in Singletons, Touch(s)
      PROVE  /\ constructed' \in Seq(Singletons) /\ IsInjective(constructed')
             /\ ToSet(constructed') = ToSet(constructed) \cup {s}
  BY <1>t, <1>c, UsedProperties DEF Touch
<1>1. CASE ConstructEvents
  <2>1. /\ constructed' \in Seq(Singletons) /\ IsInjective(constructed')
        /\ ToSet(constructed) \subseteq ToSet(constructed')
    <3> DEFINE c == Used(constructed, "Builder")
    <3>1. c \in Seq(Singletons) /\ IsInjective(c) /\ ToSet(constructed) \subseteq ToSet(c)
      BY <1>s, <1>t, UsedProperties
    <3>2. constructed' = Used(c, "EventManager")
      BY <1>1 DEF ConstructEvents
    <3> HIDE DEF c
    <3> QED  BY <1>s, <3>1, <3>2, UsedProperties
  <2>2. event_map' \in [Indices -> Seq(Listeners)]
    <3>1. ASSUME NEW L \in SUBSET Listeners, NEW s \in SetToSeqs(L)  PROVE s \in Seq(Listeners)
      <4>1. IsFiniteSet(L)
        BY FS_Subset, BusAssumption
      <4>2. s \in Seq(L)
        BY <4>1, ArrangementOfSet
      <4> QED  BY <4>2
    <3>2. event_map' \in [Indices -> UNION {SetToSeqs(L) : L \in SUBSET Listeners}]
      BY <1>1 DEF ConstructEvents
    <3>3. UNION {SetToSeqs(L) : L \in SUBSET Listeners} \subseteq Seq(Listeners)
      BY <3>1
    <3> QED  BY <3>2, <3>3
  <2>3. /\ script' \in Seq(Indices) /\ alive' = Listeners /\ vct_events' = Listeners
        /\ UNCHANGED <<pushed, pushing, pool, destroyed, returned, late>>
    BY <1>1, BusAssumption DEF ConstructEvents
  <2> QED  BY <1>n, <1>t, <2>1, <2>2, <2>3 DEF TypeOK, pool
<1>2. CASE DestructEvent
  BY <1>2, <1>n, <1>t DEF DestructEvent, DeleteEvents, TypeOK, pushes, pool, lifetime
<1>3. CASE UsePool
  <2>1. /\ Touch("ThreadPool")
        /\ UNCHANGED <<listeners, pushes, pool, destroyed, returned, late>>
    BY <1>3 DEF UsePool
  <2>2. /\ constructed' \in Seq(Singletons) /\ IsInjective(constructed')
        /\ ToSet(constructed) \subseteq ToSet(constructed')
    BY <1>c, <1>s, <2>1
  <2> QED  BY <1>n, <1>t, <2>1, <2>2 DEF TypeOK, listeners, pushes, pool
<1>4. CASE ReturnFromMain
  BY <1>4, <1>n, <1>t DEF ReturnFromMain, TypeOK, listeners, pushes, pool
<1>5. CASE DestroyBusPart
  <2>1. /\ NextDestroyed \in ToSet(constructed) /\ destroyed' = destroyed \cup {NextDestroyed}
        /\ UNCHANGED <<pushes, pool, constructed, returned, late>>
        /\ UNCHANGED <<event_map, vct_events>> /\ alive' \subseteq alive
    BY <1>5, LastRemaining DEF DestroyBusPart, DeleteEvents, listeners, Remaining
  <2> QED  BY <1>n, <1>t, <2>1 DEF TypeOK, pushes, pool
<1>6. CASE DestroyPool
  <2>1. /\ UNCHANGED <<listeners, pushes, task_queue, jobs_left, finished, running, calls,
                       lifetime>>
        /\ join' \in {"check", "wait", "bail", "join"} /\ bailout' \in BOOLEAN
        /\ left' \subseteq Workers
    BY <1>6, <1>t, DestroyFacts
  <2> QED  BY <1>n, <1>t, <2>1 DEF TypeOK, listeners, pushes, lifetime
<1>7. CASE JoinThreads
  <2>1. "ThreadPool" \in ToSet(constructed)
    BY <1>7, JoinFacts DEF PhaseInv
  <2> QED  BY <1>7, <1>n, <1>t, <2>1, JoinFacts DEF TypeOK, listeners, pushes
<1>8. ASSUME NEW i \in Indices, NEW l \in Listeners, RegisterEvent(i, l)  PROVE TypeOK'
  <2>1. PICK k \in 1 .. Len(event_map[i]) + 1 :
          event_map' = [event_map EXCEPT ![i] = InsertAt(@, k, l)]
    BY <1>8 DEF RegisterEvent
  <2>2. InsertAt(event_map[i], k, l) \in Seq(Listeners)
    BY <1>t, InsertAtProperties
  <2>3. event_map' \in [Indices -> Seq(Listeners)]
    BY <1>t, <2>1, <2>2
  <2> QED  BY <1>8, <1>n, <1>t, <2>3 DEF RegisterEvent, TypeOK, pushes, pool, lifetime
<1>9. ASSUME NEW i \in Indices, NEW l \in Listeners, UnregisterEvent(i, l)  PROVE TypeOK'
  <2>1. Erased(event_map[i], l) \in Seq(Listeners)
    BY <1>t, ErasedProperties
  <2>2. event_map' \in [Indices -> Seq(Listeners)]
    BY <1>9, <1>t, <2>1 DEF UnregisterEvent
  <2> QED  BY <1>9, <1>n, <1>t, <2>2 DEF UnregisterEvent, TypeOK, pushes, pool, lifetime
<1>10. ASSUME NEW u \in Users, NEW i \in Indices, PushNotify(u, i)  PROVE TypeOK'
  <2>1. /\ constructed' \in Seq(Singletons) /\ IsInjective(constructed')
        /\ ToSet(constructed) \subseteq ToSet(constructed')
    BY <1>10, <1>c, <1>s DEF PushNotify
  <2>2. pushed' = pushed + 1 /\ Note \subseteq Note' /\ Push \subseteq Push'
    BY <1>10, <1>p DEF PushNotify, Note, Push
  <2>3. pushing' \in [Users -> {NoPush} \cup Push']
    <3>1. [number |-> pushed + 1, index |-> i, position |-> 1, counting |-> FALSE] \in Push'
      BY <1>t, <2>2 DEF Push
    <3> QED  BY <1>10, <1>t, <2>2, <3>1 DEF PushNotify
  <2>4. task_queue' \in Seq(Note') /\ running' \in [Workers -> {NoNote} \cup Note']
    <3>1. task_queue' = task_queue /\ running' = running
      BY <1>10 DEF PushNotify
    <3>2. task_queue \in Seq(Note')
      <4>1. ASSUME NEW S, Note \subseteq S  PROVE task_queue \in Seq(S)
        <5> HIDE DEF Note
        <5> QED  BY <1>t, <4>1, SeqMonotonic
      <4> QED  BY <2>2, <4>1
    <3> QED  BY <1>t, <2>2, <3>1, <3>2
  <2>5. calls' \in Seq([Listeners -> Nat]) /\ Len(calls') = pushed'
    <3>1. Nothing \in [Listeners -> Nat]
      BY DEF Nothing
    <3> QED  BY <1>10, <1>t, <2>2, <3>1, AppendProperties DEF PushNotify
  <2>6. script' \in Seq(Indices)
    BY <1>10, <1>t DEF PushNotify
  <2>7. /\ UNCHANGED <<listeners, jobs_left, bailout, finished, left, join, destroyed, returned>>
        /\ late' = (late \/ (returned /\ u \in Workers))
    BY <1>10 DEF PushNotify
  <2> QED  BY <1>t, <2>1, <2>2, <2>3, <2>4, <2>5, <2>6, <2>7 DEF TypeOK, listeners
<1>11. ASSUME NEW u \in Users, Enqueue(u)  PROVE TypeOK'
  <2>1. /\ constructed' \in Seq(Singletons) /\ IsInjective(constructed')
        /\ ToSet(constructed) \subseteq ToSet(constructed')
    BY <1>11, <1>c, <1>s, EnqueueFacts
  <2>2. /\ pushing[u] \in Push /\ pushing[u].position <= Len(event_map[pushing[u].index])
        /\ pushing' = [pushing EXCEPT ![u].counting = TRUE]
        /\ UNCHANGED <<listeners, script, pushed, jobs_left, bailout, finished, running, left,
                       join, calls, destroyed, returned, late>>
    BY <1>11, <1>t, EnqueueFacts
  <2>3. pushing' \in [Users -> {NoPush} \cup Push]
    BY <1>t, <2>2 DEF Push
  <2>4. [number |-> pushing[u].number,
         listener |-> event_map[pushing[u].index][pushing[u].position]] \in Note
    BY <1>t, <2>2 DEF Push, Note
  <2>5. task_queue' \in Seq(Note)
    <3>1. task_queue' = Append(task_queue,
            [number |-> pushing[u].number,
             listener |-> event_map[pushing[u].index][pushing[u].position]])
      BY <1>11, EnqueueFacts
    <3> HIDE DEF Note
    <3> QED  BY <1>t, <2>4, <3>1, AppendProperties
  <2> QED  BY <1>n, <1>t, <2>1, <2>2, <2>3, <2>5 DEF TypeOK, listeners
<1>12. ASSUME NEW u \in Users, CountAndAdvance(u)  PROVE TypeOK'
  <2>1. /\ pushing[u] \in Push /\ jobs_left' = jobs_left + 1
        /\ pushing' = [pushing EXCEPT ![u].counting = FALSE, ![u].position = @ + 1]
        /\ UNCHANGED <<listeners, script, pushed, task_queue, bailout, finished, running, left,
                       join, calls, lifetime>>
    BY <1>12, CountFacts
  <2>2. pushing' \in [Users -> {NoPush} \cup Push]
    <3>1. [pushing[u] EXCEPT !.counting = FALSE, !.position = @ + 1] \in Push
      <4>1. pushing[u].position + 1 \in Nat \ {0}
        BY <2>1 DEF Push
      <4> QED  BY <2>1, <4>1 DEF Push
    <3>2. pushing' = [pushing EXCEPT ![u] =
                        [pushing[u] EXCEPT !.counting = FALSE, !.position = @ + 1]]
      BY <2>1
    <3> QED  BY <1>t, <3>1, <3>2
  <2>3. jobs_left' \in Int
    BY <1>p, <2>1
  <2> QED  BY <1>n, <1>t, <2>1, <2>2, <2>3 DEF TypeOK, listeners, lifetime
<1>13. ASSUME NEW u \in Users, ReturnFromPush(u)  PROVE TypeOK'
  <2>1. pushing' \in [Users -> {NoPush} \cup Push]
    BY <1>13, <1>t DEF ReturnFromPush
  <2> QED  BY <1>13, <1>n, <1>t, <2>1 DEF ReturnFromPush, TypeOK, listeners, pool, lifetime
<1>14. ASSUME NEW w \in Workers, TakeNote(w)  PROVE TypeOK'
  <2> DEFINE h == Head(task_queue)
  <2>1. /\ h \in Note /\ Tail(task_queue) \in Seq(Note)
    BY <1>14, <1>t, HeadTailProperties, TakeFacts
  <2>2. h.number \in 1 .. Len(calls) /\ h.listener \in Listeners
    BY <1>t, <2>1 DEF Note
  <2>3. /\ calls' = [calls EXCEPT ![h.number][h.listener] = @ + 1]
        /\ running' = [running EXCEPT ![w] = h] /\ task_queue' = Tail(task_queue)
        /\ UNCHANGED <<listeners, pushes, jobs_left, bailout, finished, left, join, lifetime>>
    BY <1>14, TakeFacts
  <2> HIDE DEF h
  <2>4. calls' \in Seq([Listeners -> Nat]) /\ Len(calls') = Len(calls)
    <3>1. [calls[h.number] EXCEPT ![h.listener] = @ + 1] \in [Listeners -> Nat]
      <4>1. calls[h.number] \in [Listeners -> Nat]
        BY <1>t, <2>2, ElementOfSeq
      <4>2. ASSUME NEW c \in [Listeners -> Nat], NEW l \in Listeners
            PROVE  [c EXCEPT ![l] = @ + 1] \in [Listeners -> Nat]
        OBVIOUS
      <4> QED  BY <2>2, <4>1, <4>2
    <3>2. calls' = [calls EXCEPT ![h.number] = [calls[h.number] EXCEPT ![h.listener] = @ + 1]]
      BY <2>3
    <3> QED  BY <1>t, <2>2, <3>1, <3>2, ExceptSeq
  <2>5. running' \in [Workers -> {NoNote} \cup Note]
    BY <1>t, <2>1, <2>3
  <2> QED  BY <1>n, <1>t, <2>1, <2>3, <2>4, <2>5 DEF TypeOK, listeners, pushes, lifetime
<1>15. ASSUME NEW w \in Workers, ReturnNote(w)  PROVE TypeOK'
  <2>1. /\ running' = [running EXCEPT ![w] = NoNote] /\ jobs_left' = jobs_left - 1
        /\ UNCHANGED <<listeners, pushes, task_queue, bailout, finished, join, calls, lifetime>>
    BY <1>15, ReturnFacts
  <2>2. left' \in {left, left \cup {w}}
    BY <1>15, ReturnFacts
  <2>3. left' \subseteq Workers /\ jobs_left' \in Int
    BY <1>p, <1>t, <2>1, <2>2
  <2> QED  BY <1>n, <1>t, <2>1, <2>3 DEF TypeOK, listeners, pushes, lifetime
<1>16. ASSUME NEW w \in Workers, EndIdle(w)  PROVE TypeOK'
  BY <1>16, <1>n, <1>t, IdleFacts DEF TypeOK, listeners, pushes, lifetime
<1> QED  BY <1>1, <1>2, <1>3, <1>4, <1>5, <1>6, <1>7, <1>8, <1>9, <1>10, <1>11, <1>12, <1>13,
            <1>14, <1>15, <1>16 DEF Next, ExitStep, PushStep, WorkerStep

(* Nothing is constructed once main has returned: whoever still runs has   *)
(* what it uses.                                                           *)
LEMMA ConstructedStep ==
  ASSUME SafeInv, Next
  PROVE  /\ ToSet(constructed) \subseteq ToSet(constructed')
         /\ returned => constructed' = constructed
<1>t. /\ pushing \in [Users -> {NoPush} \cup Push]
      /\ constructed \in Seq(Singletons) /\ IsInjective(constructed)
      /\ {"Builder", "EventManager", "ThreadPool"} \subseteq Singletons
  BY DEF SafeInv, TypeOK, Singletons
<1>c. ASSUME NEW s \in Singletons, Touch(s)
      PROVE  /\ ToSet(constructed') = ToSet(constructed) \cup {s}
             /\ s \in ToSet(constructed) => constructed' = constructed
  BY <1>t, <1>c, UsedProperties DEF Touch
<1>1. CASE ConstructEvents
  <2> DEFINE c == Used(constructed, "Builder")
  <2>1. c \in Seq(Singletons) /\ IsInjective(c) /\ ToSet(constructed) \subseteq ToSet(c)
    BY <1>t, UsedProperties
  <2>2. constructed' = Used(c, "EventManager") /\ ~returned
    BY <1>1 DEF ConstructEvents, MainFree
  <2> HIDE DEF c
  <2> QED  BY <1>t, <2>1, <2>2, UsedProperties
<1>2. CASE UsePool
  BY <1>2, <1>c, <1>t DEF UsePool, MainFree
<1>3. ASSUME NEW u \in Users, NEW i \in Indices, PushNotify(u, i)
      PROVE  /\ ToSet(constructed) \subseteq ToSet(constructed')
             /\ returned => constructed' = constructed
  <2>1. Touch("EventManager")
    BY <1>3 DEF PushNotify
  <2>2. ASSUME returned  PROVE "EventManager" \in ToSet(constructed)
    <3>1. u \in Workers /\ running[u] # NoNote
      BY <1>3, <2>2, BusAssumption DEF PushNotify, MayPush, Users, SafeInv, PhaseInv
    <3> QED  BY <3>1 DEF SafeInv, UseInv
  <2> QED  BY <1>c, <1>t, <2>1, <2>2
<1>4. ASSUME NEW u \in Users, Enqueue(u)
      PROVE  /\ ToSet(constructed) \subseteq ToSet(constructed')
             /\ returned => constructed' = constructed
  <2>1. Touch("ThreadPool") /\ pushing[u] # NoPush
    BY <1>4, EnqueueFacts DEF SafeInv
  <2>2. ASSUME returned  PROVE "ThreadPool" \in ToSet(constructed)
    <3>1. u \in Workers /\ running[u] # NoNote
      BY <2>1, <2>2 DEF Users, SafeInv, PhaseInv
    <3> QED  BY <3>1 DEF SafeInv, UseInv
  <2> QED  BY <1>c, <1>t, <2>1, <2>2
<1>5. CASE DestructEvent \/ ReturnFromMain \/ DestroyBusPart \/ DestroyPool \/ JoinThreads
  BY <1>5 DEF DestructEvent, ReturnFromMain, DestroyBusPart, DestroyPool, JoinThreads, lifetime
<1>6. ASSUME NEW i \in Indices, NEW l \in Listeners, RegisterEvent(i, l) \/ UnregisterEvent(i, l)
      PROVE  constructed' = constructed
  BY <1>6 DEF RegisterEvent, UnregisterEvent, lifetime
<1>7. ASSUME NEW u \in Users, CountAndAdvance(u) \/ ReturnFromPush(u)
      PROVE  constructed' = constructed
  BY <1>7 DEF CountAndAdvance, ReturnFromPush, lifetime
<1>8. ASSUME NEW w \in Workers, WorkerStep(w)  PROVE constructed' = constructed
  BY <1>8 DEF WorkerStep, TakeNote, ReturnNote, EndIdle, lifetime
<1> QED  BY <1>1, <1>2, <1>3, <1>4, <1>5, <1>6, <1>7, <1>8 DEF Next, ExitStep, PushStep

LEMMA PhaseStep ==
  ASSUME SafeInv, Next
  PROVE  PhaseInv'
<1>t. /\ pushing \in [Users -> {NoPush} \cup Push]
      /\ running \in [Workers -> {NoNote} \cup Note]
      /\ Main \in Users /\ Workers \subseteq Users /\ Main \notin Workers
      /\ late \in BOOLEAN /\ task_queue \in Seq(Note) /\ script \in Seq(Indices)
  BY BusAssumption DEF SafeInv, TypeOK, Users
<1>i. PhaseInv
  BY DEF SafeInv
<1>c. ToSet(constructed) \subseteq ToSet(constructed')
  BY ConstructedStep
<1>1. CASE ConstructEvents
  BY <1>1, <1>c, <1>i DEF ConstructEvents, MainFree, PhaseInv, pool
<1>2. CASE DestructEvent
  BY <1>2, <1>i DEF DestructEvent, PhaseInv, pushes, pool, lifetime
<1>3. CASE UsePool
  BY <1>3, <1>c, <1>i DEF UsePool, MainFree, PhaseInv, pushes, pool
<1>4. CASE ReturnFromMain
  <2>1. /\ script = <<>> /\ pushing[Main] = NoPush
        /\ returned' = TRUE /\ late' = \E w \in Workers : pushing[w] # NoPush
        /\ UNCHANGED <<pushes, pool, constructed, destroyed>>
    BY <1>4 DEF ReturnFromMain, MainFree
  <2> QED  BY <1>i, <2>1 DEF PhaseInv, pushes, pool
<1>5. CASE DestroyBusPart
  BY <1>5, <1>i DEF DestroyBusPart, PhaseInv, pushes, pool
<1>6. CASE DestroyPool
  <2>1. "ThreadPool" \in ToSet(constructed) /\ returned
    BY <1>6, LastRemaining, DestroyFacts DEF Remaining, SafeInv
  <2>2. /\ UNCHANGED <<pushes, finished, running, lifetime>>
        /\ \/ join' # "join" /\ UNCHANGED <<bailout, left>>
           \/ /\ bailout'
              /\ left' \in SUBSET {w \in Workers : running[w] = NoNote} \/ left' = left
    BY <1>6, DestroyFacts DEF SafeInv
  <2> QED  BY <1>i, <2>1, <2>2 DEF PhaseInv, pushes, lifetime
<1>7. CASE JoinThreads
  BY <1>7, <1>i, JoinFacts DEF PhaseInv, pushes
<1>8. ASSUME NEW i \in Indices, NEW l \in Listeners, RegisterEvent(i, l) \/ UnregisterEvent(i, l)
      PROVE  PhaseInv'
  BY <1>8, <1>i DEF RegisterEvent, UnregisterEvent, PhaseInv, pushes, pool, lifetime
<1>9. ASSUME NEW u \in Users, NEW i \in Indices, PushNotify(u, i)  PROVE PhaseInv'
  <2>1. /\ \A v \in Users : v # u => pushing'[v] = pushing[v]
        /\ late' = (late \/ (returned /\ u \in Workers))
        /\ UNCHANGED <<running, destroyed, returned, join, bailout, finished, left>>
        /\ script' \in {script, Tail(script)}
    BY <1>9, <1>t DEF PushNotify
  <2>2. u \in Workers => running[u] # NoNote
    BY <1>9, <1>t DEF PushNotify, MayPush
  <2>3. returned => u \in Workers /\ script' = script
    BY <1>9, <1>i, <1>t DEF PushNotify, MayPush, PhaseInv, Users
  <2> QED  BY <1>c, <1>i, <1>t, <2>1, <2>2, <2>3 DEF PhaseInv
<1>10. ASSUME NEW u \in Users, Enqueue(u) \/ CountAndAdvance(u) \/ ReturnFromPush(u)
       PROVE  PhaseInv'
  <2>1. /\ \A v \in Users : v # u => pushing'[v] = pushing[v]
        /\ UNCHANGED <<script, running, destroyed, returned, join, bailout, finished, left, late>>
        /\ pushing[u] # NoPush
    <3>1. CASE Enqueue(u)
      BY <3>1, EnqueueFacts DEF SafeInv
    <3>2. CASE CountAndAdvance(u)
      BY <3>2, CountFacts DEF SafeInv, lifetime
    <3>3. CASE ReturnFromPush(u)
      BY <1>t, <3>3 DEF ReturnFromPush, pool, lifetime
    <3> QED  BY <1>10, <3>1, <3>2, <3>3
  <2> QED  BY <1>c, <1>i, <1>t, <2>1 DEF PhaseInv
<1>11. ASSUME NEW w \in Workers, TakeNote(w)  PROVE PhaseInv'
  <2>1. Head(task_queue) # NoNote
    BY <1>11, <1>t, TakeFacts DEF Note, NoNote
  <2>2. /\ running' = [running EXCEPT ![w] = Head(task_queue)] /\ ~bailout
        /\ UNCHANGED <<pushes, join, bailout, finished, left, lifetime>>
    BY <1>11, TakeFacts
  <2> QED  BY <1>c, <1>i, <1>t, <2>1, <2>2 DEF PhaseInv, pushes, lifetime
<1>12. ASSUME NEW w \in Workers, ReturnNote(w)  PROVE PhaseInv'
  <2>1. /\ running' = [running EXCEPT ![w] = NoNote]
        /\ UNCHANGED <<pushes, join, bailout, finished, lifetime>>
    BY <1>12, ReturnFacts
  <2>2. pushing[w] = NoPush
    BY <1>12, ReturnFacts
  <2>3. left' \in {left, left \cup {w}} /\ (left' = left \/ bailout)
    BY <1>12, ReturnFacts
  <2> QED  BY <1>c, <1>i, <1>t, <2>1, <2>2, <2>3 DEF PhaseInv, pushes, lifetime
<1>13. ASSUME NEW w \in Workers, EndIdle(w)  PROVE PhaseInv'
  BY <1>13, <1>c, <1>i, <1>t, IdleFacts DEF PhaseInv, pushes, lifetime
<1> QED  BY <1>1, <1>2, <1>3, <1>4, <1>5, <1>6, <1>7, <1>8, <1>9, <1>10, <1>11, <1>12, <1>13
         DEF Next, ExitStep, PushStep, WorkerStep

LEMMA UseStep ==
  ASSUME SafeInv, Next
  PROVE  UseInv'
<1>t. /\ pushing \in [Users -> {NoPush} \cup Push]
      /\ running \in [Workers -> {NoNote} \cup Note]
      /\ Workers \subseteq Users /\ task_queue \in Seq(Note)
  BY DEF SafeInv, TypeOK, Users
<1>i. UseInv
  BY DEF SafeInv
<1>c. ToSet(constructed) \subseteq ToSet(constructed')
  BY ConstructedStep
<1>s. ASSUME NEW s \in Singletons, Touch(s)  PROVE s \in ToSet(constructed')
  BY <1>s, UsedProperties DEF Touch, SafeInv, TypeOK
<1>1. CASE UNCHANGED <<pushing, task_queue, running>>
  BY <1>1, <1>c, <1>i DEF UseInv
<1>2. CASE \/ ConstructEvents \/ DestructEvent \/ UsePool \/ ReturnFromMain \/ ExitStep
           \/ \E i \in Indices, l \in Listeners : RegisterEvent(i, l) \/ UnregisterEvent(i, l)
  BY <1>1, <1>2, DestroyFacts, JoinFacts
     DEF SafeInv, ConstructEvents, DestructEvent, UsePool, ReturnFromMain, ExitStep,
         DestroyBusPart, RegisterEvent, UnregisterEvent, pushes, pool
<1>3. ASSUME NEW u \in Users, NEW i \in Indices, PushNotify(u, i)  PROVE UseInv'
  <2>1. /\ \A v \in Users : v # u => pushing'[v] = pushing[v]
        /\ UNCHANGED <<task_queue, running>> /\ Touch("EventManager")
    BY <1>3, <1>t DEF PushNotify
  <2>2. "EventManager" \in ToSet(constructed')
    BY <1>s, <2>1 DEF Singletons
  <2> QED  BY <1>c, <1>i, <2>1, <2>2 DEF UseInv
<1>4. ASSUME NEW u \in Users, Enqueue(u)  PROVE UseInv'
  <2>1. /\ \A v \in Users : v # u => pushing'[v] = pushing[v]
        /\ running' = running /\ Touch("ThreadPool") /\ pushing[u] # NoPush
    BY <1>4, <1>t, EnqueueFacts DEF SafeInv
  <2>2. {"EventManager", "ThreadPool"} \subseteq ToSet(constructed')
    BY <1>c, <1>i, <1>s, <2>1 DEF Singletons, UseInv
  <2> QED  BY <2>2 DEF UseInv
<1>5. ASSUME NEW u \in Users, CountAndAdvance(u) \/ ReturnFromPush(u)  PROVE UseInv'
  <2>1. /\ \A v \in Users : v # u => pushing'[v] = pushing[v]
        /\ UNCHANGED <<task_queue, running>> /\ pushing[u] # NoPush
    <3>1. CASE CountAndAdvance(u)
      BY <3>1, CountFacts DEF SafeInv
    <3>2. CASE ReturnFromPush(u)
      BY <1>t, <3>2 DEF ReturnFromPush, pool
    <3> QED  BY <1>5, <3>1, <3>2
  <2> QED  BY <1>c, <1>i, <2>1 DEF UseInv
<1>6. ASSUME NEW w \in Workers, TakeNote(w)  PROVE UseInv'
  <2>1. task_queue # <<>> /\ pushing' = pushing
    BY <1>6, TakeFacts DEF pushes
  <2> QED  BY <1>c, <1>i, <2>1 DEF UseInv
<1>7. ASSUME NEW w \in Workers, ReturnNote(w)  PROVE UseInv'
  <2>1. running[w] # NoNote /\ pushing' = pushing
    BY <1>7, ReturnFacts DEF pushes
  <2> QED  BY <1>c, <1>i, <2>1 DEF UseInv
<1>8. ASSUME NEW w \in Workers, EndIdle(w)  PROVE UseInv'
  BY <1>1, <1>8, IdleFacts DEF pushes
<1> QED  BY <1>2, <1>3, <1>4, <1>5, <1>6, <1>7, <1>8 DEF Next, PushStep, WorkerStep

LEMMA SafeInvInit == Init => SafeInv
<1> SUFFICES ASSUME Init  PROVE SafeInv
  OBVIOUS
<1>1. /\ event_map = [i \in Indices |-> <<>>] /\ script = <<>> /\ pushed = 0
      /\ pushing = [u \in Users |-> NoPush] /\ task_queue = <<>> /\ jobs_left = 0
      /\ bailout = FALSE /\ finished = FALSE /\ left = {}
      /\ join = "no" /\ running = [w \in Workers |-> NoNote] /\ calls = <<>>
      /\ constructed = <<>> /\ destroyed = {} /\ returned = FALSE /\ late = FALSE
      /\ vct_events = {} /\ alive = {}
  BY DEF Init, Pool!Init
<1>2. IsInjective(constructed)
  BY <1>1 DEF IsInjective
<1>3. TypeOK
  <2>1. \A S : <<>> \in Seq(S)
    OBVIOUS
  <2>2. event_map \in [Indices -> Seq(Listeners)] /\ script \in Seq(Indices)
    BY <1>1, <2>1
  <2>3. task_queue \in Seq(Note) /\ constructed \in Seq(Singletons)
    BY <1>1, <2>1
  <2>4. calls \in Seq([Listeners -> Nat]) /\ Len(calls) = pushed
    BY <1>1, <2>1
  <2>5. destroyed \subseteq ToSet(constructed)
    BY <1>1
  <2>6. /\ pushing \in [Users -> {NoPush} \cup Push]
        /\ running \in [Workers -> {NoNote} \cup Note]
    BY <1>1
  <2>7. /\ pushed \in Nat /\ jobs_left \in Int /\ left \subseteq Workers
        /\ join \in {"no", "check", "wait", "bail", "join"}
        /\ vct_events \subseteq Listeners /\ alive \subseteq Listeners
    BY <1>1
  <2>8. /\ returned \in BOOLEAN /\ late \in BOOLEAN
        /\ bailout \in BOOLEAN /\ finished \in BOOLEAN
    BY <1>1, Zenon
  <2> QED  BY <1>2, <2>2, <2>3, <2>4, <2>5, <2>6, <2>7, <2>8 DEF TypeOK
<1>4. PhaseInv /\ UseInv
  BY <1>1 DEF PhaseInv, UseInv, Users
<1> QED  BY <1>3, <1>4 DEF SafeInv

LEMMA SafeInvStep == SafeInv /\ [Next]_vars => SafeInv'
<1>1. ASSUME SafeInv, Next  PROVE SafeInv'
  <2>1. TypeOK'
    BY <1>1, TypeStep DEF SafeInv
  <2>2. PhaseInv'
    BY <1>1, PhaseStep
  <2>3. UseInv'
    BY <1>1, UseStep
  <2> QED  BY <2>1, <2>2, <2>3 DEF SafeInv
<1>2. ASSUME SafeInv, UNCHANGED vars  PROVE SafeInv'
  <2>1. TypeOK'
    BY <1>2 DEF SafeInv, TypeOK, Note, Push, vars, listeners, pushes, pool, lifetime
  <2>2. PhaseInv' /\ UseInv'
    BY <1>2 DEF SafeInv, PhaseInv, UseInv, vars, listeners, pushes, pool, lifetime
  <2> QED  BY <2>1, <2>2 DEF SafeInv
<1> QED  BY <1>1, <1>2

(* Types of the bus's state.                                               *)
THEOREM TypeCorrect == Spec => []TypeOK
<1>1. SafeInv => TypeOK
  BY DEF SafeInv
<1> QED  BY <1>1, SafeInvInit, SafeInvStep, PTL DEF Spec

-----------------------------------------------------------------------------
(* Listeners outlive the calls of their on_notify.  The inductive part:    *)
(* what was constructed later is destroyed earlier, the pool is destroyed  *)
(* when no worker is in a listener, and until Builder is destroyed every   *)
(* listener that is registered, queued or being called is alive.           *)
OrderInv ==
  /\ \A s, t \in Singletons : Before(s, t) /\ s \in destroyed => t \in destroyed
  /\ join # "no" => \A t \in Singletons : Before("ThreadPool", t) => t \in destroyed

JoinedInv == "ThreadPool" \in destroyed => \A w \in Workers : running[w] = NoNote

AliveInv ==
  /\ alive \subseteq vct_events
  /\ \A i \in Indices : ToSet(event_map[i]) \subseteq vct_events
  /\ "Builder" \notin destroyed =>
       /\ \A i \in Indices : ToSet(event_map[i]) \subseteq alive
       /\ \A n \in ToSet(task_queue) : n.listener \in alive
       /\ \A w \in Workers : running[w] # NoNote => running[w].listener \in alive

LEMMA WhoDestroys ==
  ASSUME SafeInv, Next
  PROVE  \/ destroyed' = destroyed /\ join' = join
         \/ returned /\ constructed' = constructed /\ running' = running
              /\ (DestroyBusPart \/ DestroyPool \/ JoinThreads)
<1>1. CASE DestroyBusPart \/ DestroyPool \/ JoinThreads
  BY <1>1, DestroyFacts, JoinFacts DEF DestroyBusPart, SafeInv, PhaseInv, pool, lifetime
<1>2. CASE ConstructEvents \/ DestructEvent \/ UsePool \/ ReturnFromMain
  BY <1>2 DEF ConstructEvents, DestructEvent, UsePool, ReturnFromMain, pool, lifetime
<1>3. ASSUME NEW i \in Indices, NEW l \in Listeners, RegisterEvent(i, l) \/ UnregisterEvent(i, l)
      PROVE  destroyed' = destroyed /\ join' = join
  BY <1>3 DEF RegisterEvent, UnregisterEvent, pool, lifetime
<1>4. ASSUME NEW u \in Users, PushStep(u) \/ \E i \in Indices : PushNotify(u, i)
      PROVE  destroyed' = destroyed /\ join' = join
  BY <1>4, EnqueueFacts, CountFacts
     DEF SafeInv, PushStep, ReturnFromPush, PushNotify, pool, lifetime
<1>5. ASSUME NEW w \in Workers, WorkerStep(w)  PROVE destroyed' = destroyed /\ join' = join
  BY <1>5, TakeFacts, ReturnFacts, IdleFacts DEF WorkerStep, lifetime
<1> QED  BY <1>1, <1>2, <1>3, <1>4, <1>5 DEF Next, ExitStep

LEMMA BeforeIsOrder ==
  ASSUME TypeOK, NEW s, NEW t, Before(s, t)
  PROVE  s # t /\ ~Before(t, s) /\ t \in ToSet(constructed) /\ t \in Singletons
<1>1. /\ DOMAIN constructed = 1 .. Len(constructed) /\ constructed \in Seq(Singletons)
      /\ \A i, j \in 1 .. Len(constructed) : constructed[i] = constructed[j] => i = j
      /\ Len(constructed) \in Nat
  BY LenProperties DEF TypeOK, IsInjective
<1>2. PICK i, j \in 1 .. Len(constructed) : constructed[i] = s /\ constructed[j] = t /\ i < j
  BY DEF Before
<1>3. t \in ToSet(constructed) /\ t \in Singletons
  BY <1>1, <1>2 DEF ToSet
<1>4. s # t
  BY <1>1, <1>2
<1>5. ASSUME Before(t, s)  PROVE FALSE
  <2>1. PICK k, m \in 1 .. Len(constructed) : constructed[k] = t /\ constructed[m] = s /\ k < m
    BY <1>5 DEF Before
  <2>2. k = j /\ m = i
    BY <1>1, <1>2, <2>1
  <2> QED  BY <1>1, <1>2, <2>1, <2>2
<1> QED  BY <1>3, <1>4, <1>5

LEMMA OrderStep ==
  ASSUME SafeInv, OrderInv, [Next]_vars
  PROVE  OrderInv'
<1>t. TypeOK /\ destroyed \subseteq ToSet(constructed)
  BY DEF SafeInv, TypeOK
<1>b. ASSUME constructed' = constructed, NEW s, NEW t
      PROVE  Before(s, t)' <=> Before(s, t)
  BY <1>b DEF Before
<1>1. CASE ~returned /\ destroyed' = destroyed /\ join' = join
  BY <1>1 DEF SafeInv, PhaseInv, OrderInv
<1>2. CASE constructed' = constructed /\ destroyed' = destroyed /\ join' = join
  BY <1>2, <1>b DEF OrderInv
<1>3. CASE constructed' = constructed /\ DestroyBusPart
  <2> DEFINE d == NextDestroyed
  <2>1. /\ d \in Remaining /\ \A t \in Remaining \ {d} : Before(t, d)
        /\ destroyed' = destroyed \cup {d} /\ join' = join
    BY <1>3, <1>t, LastRemaining DEF DestroyBusPart, pool
  <2>2. ASSUME NEW t \in Singletons, Before(d, t)  PROVE t \in destroyed
    <3>1. t # d /\ ~Before(t, d) /\ t \in ToSet(constructed)
      BY <1>t, <2>2, BeforeIsOrder
    <3> QED  BY <2>1, <3>1 DEF Remaining
  <2> HIDE DEF d
  <2>3. ASSUME NEW s \in Singletons, NEW t \in Singletons, Before(s, t), s \in destroyed'
        PROVE  t \in destroyed'
    BY <2>1, <2>2, <2>3 DEF OrderInv
  <2>4. join' # "no" => \A t \in Singletons : Before("ThreadPool", t) => t \in destroyed'
    BY <2>1 DEF OrderInv
  <2> QED  BY <1>3, <1>b, <2>3, <2>4 DEF OrderInv
<1>4. CASE constructed' = constructed /\ DestroyPool
  <2> DEFINE d == NextDestroyed
  <2>1. /\ d \in Remaining /\ \A t \in Remaining \ {d} : Before(t, d)
        /\ d = "ThreadPool" /\ destroyed' = destroyed
    BY <1>4, <1>t, LastRemaining, DestroyFacts DEF lifetime
  <2>2. ASSUME NEW t \in Singletons, Before("ThreadPool", t)  PROVE t \in destroyed
    <3>1. t # d /\ ~Before(t, d) /\ t \in ToSet(constructed)
      BY <1>t, <2>1, <2>2, BeforeIsOrder
    <3> QED  BY <2>1, <3>1 DEF Remaining
  <2> QED  BY <1>4, <1>b, <2>1, <2>2 DEF OrderInv
<1>5. CASE constructed' = constructed /\ JoinThreads
  <2>1. destroyed' = destroyed \cup {"ThreadPool"} /\ join # "no" /\ join' = "no"
    BY <1>5, JoinFacts
  <2>2. \A t \in Singletons : Before("ThreadPool", t) => t \in destroyed
    BY <2>1 DEF OrderInv
  <2> QED  BY <1>5, <1>b, <2>1, <2>2 DEF OrderInv
<1>6. CASE UNCHANGED vars
  BY <1>2, <1>6 DEF vars, pool, lifetime
<1>7. ASSUME Next, destroyed' = destroyed, join' = join  PROVE OrderInv'
  BY <1>1, <1>2, <1>7, ConstructedStep
<1> QED  BY <1>3, <1>4, <1>5, <1>6, <1>7, WhoDestroys

LEMMA JoinedStep ==
  ASSUME SafeInv, JoinedInv, [Next]_vars
  PROVE  JoinedInv'
<1>1. CASE UNCHANGED <<destroyed, running>>
  BY <1>1 DEF JoinedInv
<1>2. CASE running' = running /\ (DestroyBusPart \/ DestroyPool \/ JoinThreads)
  BY <1>2, DestroyFacts, JoinFacts
     DEF DestroyBusPart, JoinedInv, lifetime, SafeInv, PhaseInv
<1>3. ASSUME NEW w \in Workers, TakeNote(w) \/ ReturnNote(w), destroyed' = destroyed
      PROVE  JoinedInv'
  BY <1>3, TakeFacts, ReturnFacts DEF JoinedInv, SafeInv, TypeOK, PhaseInv
<1>4. CASE UNCHANGED vars
  BY <1>1, <1>4, SMTT(30) DEF vars, pool, lifetime
<1>5. ASSUME Next, destroyed' = destroyed
      PROVE  running' = running \/ \E w \in Workers : TakeNote(w) \/ ReturnNote(w)
  BY <1>5, DestroyFacts, JoinFacts, EnqueueFacts, CountFacts, IdleFacts
     DEF SafeInv, Next, ExitStep, PushStep, WorkerStep, ConstructEvents, DestructEvent, UsePool,
         ReturnFromMain, DestroyBusPart, RegisterEvent, UnregisterEvent,
         PushNotify, ReturnFromPush, pool
<1> QED  BY <1>1, <1>2, <1>3, <1>4, <1>5, WhoDestroys

LEMMA TimesInSet ==
  ASSUME NEW S, NEW q \in Seq(S), NEW x
  PROVE  x \in ToSet(q) <=> Times(q, x) # 0
<1>1. DOMAIN q = 1 .. Len(q)
  BY LenProperties
<1>2. x \in ToSet(q) <=> Occurrences(q, x) # {}
  BY <1>1 DEF ToSet, Occurrences
<1> QED  BY <1>2, OccurrencesFinite, TimesIsOccurrences, FS_EmptySet

LEMMA AliveStep ==
  ASSUME SafeInv, AliveInv, [Next]_vars
  PROVE  AliveInv'
<1>t. /\ event_map \in [Indices -> Seq(Listeners)]
      /\ pushing \in [Users -> {NoPush} \cup Push]
      /\ task_queue \in Seq(Note) /\ running \in [Workers -> {NoNote} \cup Note]
      /\ vct_events \subseteq Listeners /\ alive \subseteq Listeners
  BY DEF SafeInv, TypeOK
<1>n. \A n \in ToSet(task_queue) : n \in Note
  <2> HIDE DEF Note
  <2> QED  BY <1>t, ElementOfSeq, LenProperties DEF ToSet
<1>i. AliveInv
  OBVIOUS
<1>1. CASE destroyed \subseteq destroyed' /\ UNCHANGED <<listeners, task_queue, running>>
  BY <1>i, <1>1 DEF AliveInv, listeners
<1>2. CASE ConstructEvents
  <2>1. /\ alive' = Listeners /\ vct_events' = Listeners
        /\ \A i \in Indices : ToSet(event_map'[i]) \subseteq Listeners
        /\ UNCHANGED <<task_queue, running>>
    BY <1>2 DEF ConstructEvents, pool
  <2> QED  BY <1>n, <1>t, <2>1 DEF AliveInv, Note
<1>3. CASE DestructEvent
  <2>1. /\ alive' \subseteq alive /\ UNCHANGED <<event_map, vct_events, task_queue, running>>
        /\ \A i \in Indices : event_map[i] = <<>>
        /\ task_queue = <<>> /\ \A w \in Workers : running[w] = NoNote
    BY <1>3 DEF DestructEvent, DeleteEvents, pool
  <2>2. ToSet(<<>>) = {}
    BY DEF ToSet
  <2> QED  BY <1>i, <2>1, <2>2 DEF AliveInv
<1>4. CASE DestroyBusPart
  <2>1. CASE NextDestroyed = "Builder"
    <3>1. /\ "Builder" \in destroyed' /\ UNCHANGED <<event_map, vct_events>>
          /\ alive' \subseteq alive
      BY <1>4, <2>1 DEF DestroyBusPart, DeleteEvents
    <3> QED  BY <1>i, <3>1 DEF AliveInv
  <2>2. CASE NextDestroyed # "Builder"
    BY <1>1, <1>4, <2>2 DEF DestroyBusPart, pool
  <2> QED  BY <2>1, <2>2
<1>5. ASSUME NEW i \in Indices, NEW l \in Listeners, RegisterEvent(i, l)  PROVE AliveInv'
  <2>1. PICK k \in 1 .. Len(event_map[i]) + 1 :
          event_map' = [event_map EXCEPT ![i] = InsertAt(@, k, l)]
    BY <1>5 DEF RegisterEvent
  <2>2. ToSet(InsertAt(event_map[i], k, l)) = ToSet(event_map[i]) \cup {l}
    BY <1>t, InsertAtToSet
  <2>3. \A j \in Indices : ToSet(event_map'[j]) \subseteq ToSet(event_map[j]) \cup {l}
    BY <1>t, <2>1, <2>2
  <2>4. l \in alive /\ UNCHANGED <<vct_events, alive, task_queue, running, destroyed>>
    BY <1>5 DEF RegisterEvent, pool, lifetime
  <2> QED  BY <1>i, <2>3, <2>4 DEF AliveInv
<1>6. ASSUME NEW i \in Indices, NEW l \in Listeners, UnregisterEvent(i, l)  PROVE AliveInv'
  <2> DEFINE r == Erased(event_map[i], l)
  <2>1. r \in Seq(Listeners) /\ \A x : Times(r, x) = IF x = l THEN 0 ELSE Times(event_map[i], x)
    BY <1>t, ErasedProperties
  <2> HIDE DEF r
  <2>2. ToSet(r) \subseteq ToSet(event_map[i])
    BY <1>t, <2>1, TimesInSet
  <2>3. /\ event_map' = [event_map EXCEPT ![i] = r]
        /\ UNCHANGED <<vct_events, alive, task_queue, running, destroyed>>
    BY <1>6 DEF UnregisterEvent, r, pool, lifetime
  <2>4. \A j \in Indices : ToSet(event_map'[j]) \subseteq ToSet(event_map[j])
    BY <1>t, <2>2, <2>3
  <2> QED  BY <1>i, <2>3, <2>4 DEF AliveInv
<1>7. ASSUME NEW u \in Users, Enqueue(u)  PROVE AliveInv'
  <2> DEFINE p == pushing[u]
             l == event_map[p.index][p.position]
             n == [number |-> p.number, listener |-> l]
  <2>1. p \in Push /\ p.position \in 1 .. Len(event_map[p.index])
    <3>1. p \in Push /\ p.position <= Len(event_map[p.index])
      BY <1>7, EnqueueFacts DEF SafeInv
    <3>2. Len(event_map[p.index]) \in Nat
      BY <1>t, <3>1, LenProperties DEF Push
    <3> HIDE DEF p
    <3> QED  BY <3>1, <3>2 DEF Push
  <2>2. l \in ToSet(event_map[p.index]) /\ l \in Listeners /\ p.index \in Indices
    BY <1>t, <2>1, LenProperties, ElementOfSeq DEF Push, ToSet
  <2>3. n \in Note /\ n.listener = l
    BY <2>1, <2>2 DEF Push, Note
  <2>4. /\ task_queue' = Append(task_queue, n)
        /\ UNCHANGED <<listeners, running, destroyed>>
    BY <1>7, EnqueueFacts DEF SafeInv
  <2> HIDE DEF n, l
  <2>5. ToSet(task_queue') = ToSet(task_queue) \cup {n}
    BY <1>t, <2>3, <2>4, AppendToSet
  <2> HIDE DEF p
  <2> QED  BY <1>i, <2>2, <2>3, <2>4, <2>5 DEF AliveInv, listeners
<1>8. ASSUME NEW w \in Workers, TakeNote(w)  PROVE AliveInv'
  <2>1. ToSet(task_queue) = ToSet(Tail(task_queue)) \cup {Head(task_queue)}
    BY <1>8, <1>t, HeadTailToSet, TakeFacts
  <2>2. /\ running' = [running EXCEPT ![w] = Head(task_queue)]
        /\ task_queue' = Tail(task_queue) /\ UNCHANGED <<listeners, destroyed>>
    BY <1>8, TakeFacts DEF lifetime
  <2> QED  BY <1>i, <1>t, <2>1, <2>2 DEF AliveInv, listeners
<1>9. ASSUME NEW w \in Workers, ReturnNote(w)  PROVE AliveInv'
  BY <1>9, <1>i, <1>t, ReturnFacts DEF AliveInv, listeners, lifetime
<1>10. CASE \/ UsePool \/ ReturnFromMain \/ DestroyPool \/ JoinThreads \/ UNCHANGED vars
            \/ \E u \in Users : \/ CountAndAdvance(u) \/ ReturnFromPush(u)
                                \/ \E i \in Indices : PushNotify(u, i)
            \/ \E w \in Workers : EndIdle(w)
  BY <1>1, <1>10, DestroyFacts, JoinFacts, CountFacts, IdleFacts
     DEF SafeInv, UsePool, ReturnFromMain, ReturnFromPush, PushNotify, vars, pool, lifetime
<1> QED  BY <1>2, <1>3, <1>4, <1>5, <1>6, <1>7, <1>8, <1>9, <1>10
         DEF Next, ExitStep, PushStep, WorkerStep

(* While a worker is in a listener's on_notify, the listener has not been  *)
(* deleted and the EventManager is there, if the singletons came to life   *)
(* in an order in which the pool is destroyed before them.                 *)
THEOREM ListenersStay == Spec => []ListenersOutliveCalls
<1>1. Init => OrderInv /\ JoinedInv /\ AliveInv
  <2>1. ToSet(<<>>) = {}
    BY DEF ToSet
  <2> QED  BY <2>1 DEF Init, Pool!Init, OrderInv, JoinedInv, AliveInv
<1>2. SafeInv /\ OrderInv /\ JoinedInv /\ AliveInv => ListenersOutliveCalls
  <2> SUFFICES ASSUME SafeInv, OrderInv, JoinedInv, AliveInv, NEW w \in Workers,
                      running[w] # NoNote
               PROVE  /\ Before("Builder", "ThreadPool") => running[w].listener \in alive
                      /\ Before("EventManager", "ThreadPool") => "EventManager" \notin destroyed
    BY DEF ListenersOutliveCalls
  <2>1. "ThreadPool" \notin destroyed
    BY DEF JoinedInv
  <2>2. Before("Builder", "ThreadPool") => "Builder" \notin destroyed
    BY <2>1 DEF OrderInv, Singletons
  <2>3. Before("EventManager", "ThreadPool") => "EventManager" \notin destroyed
    BY <2>1 DEF OrderInv, Singletons
  <2> QED  BY <2>2, <2>3 DEF AliveInv
<1> QED  BY <1>1, <1>2, SafeInvInit, SafeInvStep, OrderStep, JoinedStep, AliveStep, PTL DEF Spec

-----------------------------------------------------------------------------
(* Nothing is left behind.  The inductive part: until the pool is told to  *)
(* stop, the tasks that exist are those counted in _jobs_left and those    *)
(* whose push has yet to count them.                                       *)
Counting == {u \in Users : pushing[u].counting}
Busy     == {w \in Workers : running[w] # NoNote}

CountInv ==
  ~bailout => jobs_left + Cardinality(Counting) = Len(task_queue) + Cardinality(Busy)

LEMMA FiniteUsers ==
  /\ IsFiniteSet(Counting) /\ IsFiniteSet(Busy)
  /\ Cardinality(Counting) \in Nat /\ Cardinality(Busy) \in Nat
<1>1. IsFiniteSet(Users) /\ IsFiniteSet(Workers)
  <2>1. Users = Workers \cup {Main}
    BY DEF Users
  <2> QED  BY <2>1, BusAssumption, FS_AddElement
<1>2. Counting \in SUBSET Users /\ Busy \in SUBSET Workers
  BY DEF Counting, Busy
<1> QED  BY <1>1, <1>2, FS_Subset, FS_CardinalityType

LEMMA CountStep ==
  ASSUME SafeInv, CountInv, [Next]_vars
  PROVE  CountInv'
<1>t. /\ pushing \in [Users -> {NoPush} \cup Push] /\ NoPush.counting = FALSE
      /\ task_queue \in Seq(Note) /\ running \in [Workers -> {NoNote} \cup Note]
      /\ jobs_left \in Int /\ Len(task_queue) \in Nat
      /\ \A p \in Push : p.counting \in BOOLEAN
  BY LenProperties DEF SafeInv, TypeOK, NoPush, Push
<1>f. /\ IsFiniteSet(Counting) /\ IsFiniteSet(Busy)
      /\ Cardinality(Counting) \in Nat /\ Cardinality(Busy) \in Nat
  BY FiniteUsers
<1>1. CASE UNCHANGED <<jobs_left, task_queue, running>> /\ Counting' = Counting
             /\ (bailout => bailout')
  BY <1>1 DEF CountInv, Busy
<1>0. CASE bailout'
  BY <1>0 DEF CountInv
<1>2. CASE \/ ConstructEvents \/ DestructEvent \/ UsePool \/ ReturnFromMain \/ ExitStep
           \/ \E i \in Indices, l \in Listeners : RegisterEvent(i, l) \/ UnregisterEvent(i, l)
           \/ UNCHANGED vars
  <2>1. CASE DestroyPool
    <3>1. /\ UNCHANGED <<pushing, jobs_left, task_queue, running>>
          /\ bailout' = bailout \/ bailout'
      BY <2>1, DestroyFacts DEF SafeInv, pushes
    <3>2. CASE bailout'
      BY <1>0, <3>2
    <3>3. CASE bailout' = bailout
      BY <1>1, <3>1, <3>3 DEF Counting
    <3> QED  BY <3>1, <3>2, <3>3
  <2>2. CASE JoinThreads
    BY <1>1, <2>2, JoinFacts DEF Counting, pushes
  <2>3. CASE ~DestroyPool /\ ~JoinThreads
    <3>1. UNCHANGED <<pushing, jobs_left, task_queue, running, bailout>>
      BY <1>2, <2>3
         DEF ConstructEvents, DestructEvent, UsePool, ReturnFromMain, ExitStep,
             DestroyBusPart, RegisterEvent, UnregisterEvent, vars, pushes, pool
    <3> QED  BY <1>1, <3>1 DEF Counting
  <2> QED  BY <2>1, <2>2, <2>3
<1>3. ASSUME NEW u \in Users, NEW i \in Indices, PushNotify(u, i)  PROVE CountInv'
  <2>1. /\ pushing[u] = NoPush /\ UNCHANGED <<jobs_left, task_queue, running, bailout>>
        /\ pushing' = [pushing EXCEPT ![u] =
             [number |-> pushed + 1, index |-> i, position |-> 1, counting |-> FALSE]]
    BY <1>3 DEF PushNotify
  <2>2. \A v \in Users : pushing'[v].counting <=> pushing[v].counting
    BY <1>t, <2>1
  <2> QED  BY <1>1, <2>1, <2>2 DEF Counting
<1>4. ASSUME NEW u \in Users, Enqueue(u)  PROVE CountInv'
  <2>1. /\ pushing[u] \in Push /\ ~pushing[u].counting
        /\ pushing' = [pushing EXCEPT ![u].counting = TRUE]
        /\ UNCHANGED <<jobs_left, running, bailout>>
    BY <1>4, <1>t, EnqueueFacts DEF SafeInv
  <2>2. Counting' = Counting \cup {u} /\ u \notin Counting
    <3>1. ASSUME NEW v \in Users  PROVE pushing'[v].counting <=> (v = u \/ pushing[v].counting)
      BY <1>t, <2>1 DEF Push
    <3> QED  BY <2>1, <3>1 DEF Counting
  <2>3. Len(task_queue') = Len(task_queue) + 1
    <3>1. \E n : task_queue' = Append(task_queue, n)
      BY <1>4, EnqueueFacts DEF SafeInv
    <3> QED  BY <1>t, <3>1
  <2>4. Cardinality(Counting') = Cardinality(Counting) + 1
    BY <1>f, <2>2, FS_AddElement
  <2>5. jobs_left' = jobs_left /\ Busy' = Busy
    BY <2>1 DEF Busy
  <2>6. Len(task_queue) \in Nat /\ jobs_left \in Int
    BY <1>t
  <2> SUFFICES ASSUME ~bailout'
               PROVE  jobs_left' + Cardinality(Counting') = Len(task_queue') + Cardinality(Busy')
    BY DEF CountInv
  <2>7. jobs_left + Cardinality(Counting) = Len(task_queue) + Cardinality(Busy)
    BY <2>1 DEF CountInv
  <2> QED  BY <1>f, <2>3, <2>4, <2>5, <2>6, <2>7
<1>5. ASSUME NEW u \in Users, CountAndAdvance(u)  PROVE CountInv'
  <2>1. /\ pushing[u] \in Push /\ pushing[u].counting
        /\ pushing' = [pushing EXCEPT ![u].counting = FALSE, ![u].position = @ + 1]
        /\ jobs_left' = jobs_left + 1 /\ UNCHANGED <<task_queue, running, bailout>>
    BY <1>5, <1>t, CountFacts DEF SafeInv
  <2>2. Counting' = Counting \ {u} /\ u \in Counting
    <3>1. ASSUME NEW v \in Users  PROVE pushing'[v].counting <=> (v # u /\ pushing[v].counting)
      BY <1>t, <2>1 DEF Push
    <3> QED  BY <2>1, <3>1 DEF Counting
  <2>3. Cardinality(Counting') = Cardinality(Counting) - 1
    BY <1>f, <2>2, FS_RemoveElement
  <2> QED  BY <1>f, <1>t, <2>1, <2>3 DEF CountInv, Busy
<1>6. ASSUME NEW u \in Users, ReturnFromPush(u)  PROVE CountInv'
  <2>1. /\ ~pushing[u].counting /\ pushing' = [pushing EXCEPT ![u] = NoPush]
        /\ UNCHANGED <<jobs_left, task_queue, running, bailout>>
    BY <1>6 DEF ReturnFromPush, pool
  <2>2. \A v \in Users : pushing'[v].counting <=> pushing[v].counting
    BY <1>t, <2>1
  <2> QED  BY <1>1, <2>1, <2>2 DEF Counting
<1>7. ASSUME NEW w \in Workers, TakeNote(w)  PROVE CountInv'
  <2>1. /\ running[w] = NoNote /\ running' = [running EXCEPT ![w] = Head(task_queue)]
        /\ task_queue # <<>> /\ task_queue' = Tail(task_queue)
        /\ UNCHANGED <<jobs_left, pushing, bailout>>
    BY <1>7, TakeFacts DEF pushes
  <2>2. Head(task_queue) # NoNote /\ Len(task_queue') = Len(task_queue) - 1
    BY <1>t, <2>1 DEF Note, NoNote
  <2>3. Busy' = Busy \cup {w} /\ w \notin Busy
    BY <1>t, <2>1, <2>2 DEF Busy
  <2>4. Cardinality(Busy') = Cardinality(Busy) + 1
    BY <1>f, <2>3, FS_AddElement
  <2> QED  BY <1>f, <1>t, <2>1, <2>2, <2>4 DEF CountInv, Counting
<1>8. ASSUME NEW w \in Workers, ReturnNote(w)  PROVE CountInv'
  <2>1. /\ running[w] # NoNote /\ running' = [running EXCEPT ![w] = NoNote]
        /\ jobs_left' = jobs_left - 1 /\ UNCHANGED <<task_queue, pushing, bailout>>
    BY <1>8, ReturnFacts DEF pushes
  <2>2. Busy' = Busy \ {w} /\ w \in Busy
    BY <1>t, <2>1 DEF Busy
  <2>3. Cardinality(Busy') = Cardinality(Busy) - 1
    BY <1>f, <2>2, FS_RemoveElement
  <2> QED  BY <1>f, <1>t, <2>1, <2>3 DEF CountInv, Counting
<1>9. ASSUME NEW w \in Workers, EndIdle(w)  PROVE CountInv'
  BY <1>0, <1>9, IdleFacts
<1> QED  BY <1>2, <1>3, <1>4, <1>5, <1>6, <1>7, <1>8, <1>9 DEF Next, PushStep, WorkerStep

(* Once main has returned and no listener was pushing, nobody pushes.      *)
LEMMA NobodyPushes ==
  ASSUME SafeInv, returned, ~late
  PROVE  /\ \A u \in Users : pushing[u] = NoPush
         /\ Cardinality(Counting) = 0
<1>1. \A u \in Users : pushing[u] = NoPush
  BY DEF SafeInv, PhaseInv, Users
<1>2. Counting = {}
  BY <1>1 DEF Counting, NoPush
<1> QED  BY <1>1, <1>2, FS_EmptySet

LEMMA EndStep ==
  ASSUME SafeInv, CountInv, NothingLeftBehind, [Next]_vars
  PROVE  NothingLeftBehind'
<1> SUFFICES ASSUME join' = "bail" \/ bailout', ~late'
             PROVE  task_queue' = <<>> /\ \A w \in Workers : running'[w] = NoNote
  BY DEF NothingLeftBehind
<1>t. /\ task_queue \in Seq(Note) /\ jobs_left \in Int /\ Len(task_queue) \in Nat
      /\ late \in BOOLEAN /\ TypeOK
  BY LenProperties DEF SafeInv, TypeOK
<1>p. join = "bail" \/ bailout => returned
  BY DEF SafeInv, PhaseInv
<1>1. CASE DestroyPool
  <2>1. /\ returned /\ ~late /\ UNCHANGED <<task_queue, running>>
        /\ finished \/ jobs_left <= 0 \/ join = "bail" \/ bailout
    BY <1>1, <1>t, DestroyFacts DEF lifetime
  <2>2. CASE join = "bail" \/ bailout
    BY <2>1, <2>2 DEF NothingLeftBehind
  <2>3. CASE ~bailout /\ join # "bail"
    <3>1. jobs_left <= 0 /\ ~bailout
      BY <2>1, <2>3 DEF SafeInv, PhaseInv
    <3>2. Cardinality(Counting) = 0 /\ Cardinality(Busy) \in Nat /\ IsFiniteSet(Busy)
      BY <2>1, NobodyPushes, FiniteUsers
    <3>3. Len(task_queue) = 0 /\ Cardinality(Busy) = 0
      BY <1>t, <3>1, <3>2 DEF CountInv
    <3>4. Busy = {}
      BY <3>2, <3>3, FS_EmptySet
    <3> QED  BY <1>t, <2>1, <3>3, <3>4, EmptySeq DEF Busy
  <2> QED  BY <2>2, <2>3
<1>2. CASE UNCHANGED <<join, bailout, task_queue, running>> /\ (late => late')
  BY <1>2 DEF NothingLeftBehind
<1>3. CASE \/ UsePool \/ DestructEvent \/ ConstructEvents \/ DestroyBusPart
           \/ UNCHANGED vars
           \/ \E i \in Indices, l \in Listeners : RegisterEvent(i, l) \/ UnregisterEvent(i, l)
           \/ \E u \in Users : CountAndAdvance(u) \/ ReturnFromPush(u)
           \/ \E w \in Workers : EndIdle(w)
  <2>1. UNCHANGED <<join, bailout, task_queue, running>>
    BY <1>3, <1>t, CountFacts, IdleFacts
       DEF UsePool, DestructEvent, ConstructEvents, DestroyBusPart,
           RegisterEvent, UnregisterEvent, ReturnFromPush, vars, pushes, pool, lifetime
  <2>2. late' = late
    BY <1>3, <1>t, CountFacts, IdleFacts
       DEF UsePool, DestructEvent, ConstructEvents, DestroyBusPart,
           RegisterEvent, UnregisterEvent, ReturnFromPush, vars, pushes, pool, lifetime
  <2> QED  BY <1>2, <2>1, <2>2
<1>4. CASE JoinThreads
  <2>1. /\ bailout /\ ~late /\ UNCHANGED <<task_queue, running>>
    BY <1>4, JoinFacts DEF SafeInv, PhaseInv
  <2> QED  BY <2>1 DEF NothingLeftBehind
<1>5. ASSUME NEW u \in Users, NEW i \in Indices, PushNotify(u, i)
      PROVE  task_queue' = <<>> /\ \A w \in Workers : running'[w] = NoNote
  <2>1. late' = (late \/ (returned /\ u \in Workers))
    BY <1>5 DEF PushNotify
  <2>2. late => late'
    BY <1>t, <2>1, Zenon
  <2> QED  BY <1>2, <1>5, <2>2 DEF PushNotify
<1>6. CASE ReturnFromMain
  BY <1>6, <1>p DEF ReturnFromMain, MainFree, pool
<1>7. ASSUME NEW u \in Users, Enqueue(u)  PROVE FALSE
  <2>1. /\ join = "bail" \/ bailout
        /\ ~late /\ pushing[u] # NoPush
    BY <1>7, <1>t, EnqueueFacts
  <2> QED  BY <1>p, <2>1, NobodyPushes
<1>8. ASSUME NEW w \in Workers, TakeNote(w) \/ ReturnNote(w)  PROVE FALSE
  <2>1. /\ join = "bail" \/ bailout
        /\ ~late /\ (task_queue # <<>> \/ running[w] # NoNote)
    BY <1>8, TakeFacts, ReturnFacts DEF lifetime
  <2> QED  BY <2>1 DEF NothingLeftBehind
<1> QED  BY <1>1, <1>3, <1>4, <1>5, <1>6, <1>7, <1>8 DEF Next, ExitStep, PushStep, WorkerStep

(* ~ThreadPool stops the workers when no task is left and nobody is in a   *)
(* listener, unless a listener was still pushing when main had returned.   *)
THEOREM NothingLeft == Spec => []NothingLeftBehind
<1>1. Init => CountInv /\ NothingLeftBehind
  <2> SUFFICES ASSUME Init  PROVE CountInv /\ NothingLeftBehind
    OBVIOUS
  <2>1. Counting = {} /\ Busy = {} /\ jobs_left = 0 /\ task_queue = <<>>
    BY DEF Init, Pool!Init, Counting, Busy, NoPush
  <2>2. Len(task_queue) = 0
    BY <2>1
  <2> QED  BY <2>1, <2>2, FS_EmptySet DEF Init, Pool!Init, CountInv, NothingLeftBehind
<1> QED  BY <1>1, SafeInvInit, SafeInvStep, CountStep, EndStep, PTL DEF Spec

-----------------------------------------------------------------------------
(* The bus implements BusService.  The numbers of the pushes under way are *)
(* distinct, so that what a notification is still owed is what the queue   *)
(* holds for it and what its one walk has yet to reach.                    *)
UniqueInv ==
  \A u, v \in Users :
    pushing[u] # NoPush /\ pushing[u].number = pushing[v].number => u = v

Left(map, p) ==
  IF p = NoPush THEN <<>>
  ELSE SubSeq(map[p.index], p.position + IF p.counting THEN 1 ELSE 0, Len(map[p.index]))

Owed(map, ps, q, n, l) ==
  Times(q, [number |-> n, listener |-> l]) +
  IF \E u \in Users : ps[u].number = n
  THEN Times(Left(map, ps[CHOOSE u \in Users : ps[u].number = n]), l) ELSE 0

LEMMA PendingIsOwed ==
  ASSUME NEW n, NEW l
  PROVE  /\ Pending(n, l) = Owed(event_map, pushing, task_queue, n, l)
         /\ Pending(n, l)' = Owed(event_map', pushing', task_queue', n, l)
BY DEF Pending, Owed, ToWalk, Left

LEMMA OwedFacts ==
  ASSUME NEW map, NEW ps, NEW q, NEW n, NEW l,
         \A u, v \in Users : ps[u].number = n /\ ps[v].number = n => u = v
  PROVE  /\ \A u \in Users : ps[u].number = n =>
              Owed(map, ps, q, n, l) =
                Times(q, [number |-> n, listener |-> l]) + Times(Left(map, ps[u]), l)
         /\ (\A u \in Users : ps[u].number # n) =>
              Owed(map, ps, q, n, l) = Times(q, [number |-> n, listener |-> l]) + 0
<1>1. ASSUME NEW u \in Users, ps[u].number = n
      PROVE  (CHOOSE v \in Users : ps[v].number = n) = u
  BY <1>1
<1> QED  BY <1>1 DEF Owed

(* What a walk has left has the listeners of the range, and loses the one  *)
(* that is enqueued.                                                       *)
LEMMA LeftTypes ==
  ASSUME TypeOK, NEW u \in Users
  PROVE  /\ Left(event_map, pushing[u]) \in Seq(Listeners)
         /\ pushing[u].number # 0 <=> pushing[u] # NoPush
<1>1. /\ event_map \in [Indices -> Seq(Listeners)] /\ pushing[u] \in {NoPush} \cup Push
      /\ pushed \in Nat
  BY DEF TypeOK
<1>2. CASE pushing[u] = NoPush
  BY <1>2 DEF Left, NoPush
<1>3. CASE pushing[u] # NoPush
  <2> DEFINE p == pushing[u]
             s == event_map[p.index]
             k == p.position + IF p.counting THEN 1 ELSE 0
  <2>1. /\ p \in Push /\ s \in Seq(Listeners) /\ k \in Nat \ {0} /\ Len(s) \in Nat
        /\ p.number # 0
    BY <1>1, <1>3, LenProperties DEF Push
  <2>2. \A i \in k .. Len(s) : s[i] \in Listeners
    BY <2>1, ElementOfSeq
  <2>3. Left(event_map, p) = SubSeq(s, k, Len(s))
    BY <1>3 DEF Left
  <2> HIDE DEF p, s, k
  <2>4. SubSeq(s, k, Len(s)) \in Seq(Listeners)
    BY <2>1, <2>2, SubSeqProperties
  <2> QED  BY <1>3, <2>1, <2>3, <2>4 DEF p
<1> QED  BY <1>2, <1>3

LEMMA UniqueStep ==
  ASSUME SafeInv, UniqueInv, [Next]_vars
  PROVE  UniqueInv'
<1>t. pushing \in [Users -> {NoPush} \cup Push] /\ pushed \in Nat
  BY DEF SafeInv, TypeOK
<1>z. /\ NoPush.number = 0
      /\ \A p \in {NoPush} \cup Push : p # NoPush => p.number \in 1 .. pushed
  BY DEF NoPush, Push
<1>1. CASE pushing' = pushing
  BY <1>1 DEF UniqueInv
<1>2. ASSUME NEW u \in Users, NEW i \in Indices, PushNotify(u, i)  PROVE UniqueInv'
  <2>1. /\ \A v \in Users : v # u => pushing'[v] = pushing[v]
        /\ pushing'[u].number = pushed + 1
    BY <1>2, <1>t DEF PushNotify
  <2>2. \A v \in Users : pushing[v].number \in 0 .. pushed
    BY <1>t, <1>z
  <2> QED  BY <1>t, <2>1, <2>2 DEF UniqueInv
<1>3. ASSUME NEW u \in Users, Enqueue(u) \/ CountAndAdvance(u)  PROVE UniqueInv'
  <2>1. pushing[u] # NoPush
    BY <1>3, EnqueueFacts, CountFacts DEF SafeInv
  <2>2. pushing[u] \in Push
    BY <1>t, <2>1
  <2>3. /\ \A v \in Users : v # u => pushing'[v] = pushing[v]
        /\ pushing'[u].number = pushing[u].number
    <3>1. CASE Enqueue(u)
      <4>1. /\ pushing' = [pushing EXCEPT ![u].counting = TRUE]
            /\ \A v \in Users : v # u => pushing'[v] = pushing[v]
        BY <3>1, EnqueueFacts DEF SafeInv
      <4> QED  BY <1>t, <2>2, <4>1 DEF Push
    <3>2. CASE CountAndAdvance(u)
      <4>1. /\ pushing' = [pushing EXCEPT ![u].counting = FALSE, ![u].position = @ + 1]
            /\ \A v \in Users : v # u => pushing'[v] = pushing[v]
        BY <3>2, CountFacts DEF SafeInv
      <4> QED  BY <1>t, <2>2, <4>1 DEF Push
    <3> QED  BY <1>3, <3>1, <3>2
  <2>4. \A v \in Users : pushing'[v].number = pushing[v].number
    BY <2>3
  <2> QED  BY <2>1, <2>3, <2>4 DEF UniqueInv
<1>4. ASSUME NEW u \in Users, ReturnFromPush(u)  PROVE UniqueInv'
  <2>1. /\ \A v \in Users : v # u => pushing'[v] = pushing[v]
        /\ pushing'[u] = NoPush
    BY <1>4, <1>t DEF ReturnFromPush
  <2>2. \A v \in Users : v # u /\ pushing[v] # NoPush => pushing[v].number # 0
    BY <1>t, <1>z
  <2> QED  BY <1>z, <2>1, <2>2 DEF UniqueInv
<1>5. CASE \/ ConstructEvents \/ DestructEvent \/ UsePool \/ ReturnFromMain \/ ExitStep
           \/ \E i \in Indices, l \in Listeners : RegisterEvent(i, l) \/ UnregisterEvent(i, l)
           \/ (\E w \in Workers : WorkerStep(w)) \/ UNCHANGED vars
  BY <1>1, <1>5, DestroyFacts, JoinFacts, TakeFacts, ReturnFacts, IdleFacts
     DEF SafeInv, ConstructEvents, DestructEvent, UsePool, ReturnFromMain, ExitStep,
         DestroyBusPart, RegisterEvent, UnregisterEvent, WorkerStep, vars, pushes
<1> QED  BY <1>2, <1>3, <1>4, <1>5 DEF Next, PushStep

BusInv == SafeInv /\ AliveInv /\ UniqueInv

(* A walk of the range, or none, for each notification.                    *)
LEMMA PendingFacts ==
  ASSUME BusInv, NEW n \in 1 .. pushed, NEW l \in Listeners
  PROVE  /\ \A u \in Users : pushing[u].number = n =>
              Pending(n, l) = Times(task_queue, [number |-> n, listener |-> l]) +
                              Times(Left(event_map, pushing[u]), l)
         /\ (\A u \in Users : pushing[u].number # n) =>
              Pending(n, l) = Times(task_queue, [number |-> n, listener |-> l]) + 0
<1>1. \A u \in Users : pushing[u].number = n => pushing[u] # NoPush
  BY LeftTypes DEF BusInv, SafeInv, TypeOK
<1>2. \A u, v \in Users : pushing[u].number = n /\ pushing[v].number = n => u = v
  BY <1>1 DEF BusInv, UniqueInv
<1> QED  BY <1>2, PendingIsOwed, OwedFacts

LEMMA PendingFactsNext ==
  ASSUME BusInv', NEW n \in 1 .. pushed', NEW l \in Listeners
  PROVE  /\ \A u \in Users : pushing'[u].number = n =>
              Pending(n, l)' = Times(task_queue', [number |-> n, listener |-> l]) +
                               Times(Left(event_map', pushing'[u]), l)
         /\ (\A u \in Users : pushing'[u].number # n) =>
              Pending(n, l)' = Times(task_queue', [number |-> n, listener |-> l]) + 0
<1>1. \A u \in Users : pushing'[u].number = n => pushing'[u] # NoPush
  BY DEF NoPush
<1>2. \A u, v \in Users : pushing'[u].number = n /\ pushing'[v].number = n => u = v
  BY <1>1 DEF BusInv, UniqueInv
<1> QED  BY <1>2, PendingIsOwed, OwedFacts

(* When nobody pushes, what is owed is in the queue.                       *)
LEMMA PendingAtRest ==
  ASSUME BusInv, BusInv', Quiescent, UNCHANGED <<pushing, pushed, task_queue>>,
         NEW n \in 1 .. pushed, NEW l \in Listeners
  PROVE  Pending(n, l)' = Pending(n, l)
<1>1. \A u \in Users : pushing[u].number # n
  BY DEF Quiescent, NoPush
<1> QED  BY <1>1, PendingFacts, PendingFactsNext

(* The parts of the refinement mapping in the next state.                  *)
LEMMA PendingMap ==
  ASSUME pushed' = pushed,
         \A n \in 1 .. pushed, l \in Listeners : Pending(n, l)' = Pending(n, l)
  PROVE  [n \in 1 .. pushed |-> [l \in Listeners |-> Pending(n, l)]]' =
           [n \in 1 .. pushed |-> [l \in Listeners |-> Pending(n, l)]]
OBVIOUS

LEMMA ServiceFrame ==
  ASSUME UNCHANGED <<event_map, pushing, pushed, task_queue, calls>>
  PROVE  UNCHANGED Service!vars
<1>1. \A n, l : Pending(n, l)' = Pending(n, l)
  BY PendingIsOwed
<1>2. [n \in 1 .. pushed |-> [l \in Listeners |-> Pending(n, l)]]' =
        [n \in 1 .. pushed |-> [l \in Listeners |-> Pending(n, l)]]
  BY <1>1, PendingMap
<1>3. [i \in Indices |-> [l \in Listeners |-> Times(event_map[i], l)]]' =
        [i \in Indices |-> [l \in Listeners |-> Times(event_map[i], l)]]
  BY DEF Times
<1> QED  BY <1>2, <1>3 DEF Service!vars

(* A step that changes the registrations, while nobody pushes.             *)
LEMMA ServiceRegister ==
  ASSUME BusInv, BusInv', Quiescent, UNCHANGED <<pushing, pushed, task_queue, calls>>,
         NEW pairs \in SUBSET (Indices \X Listeners),
         \A i \in Indices, l \in Listeners :
           Times(event_map'[i], l) =
             Times(event_map[i], l) + IF <<i, l>> \in pairs THEN 1 ELSE 0
  PROVE  Service!Register(pairs)
<1>1. [n \in 1 .. pushed |-> [l \in Listeners |-> Pending(n, l)]]' =
        [n \in 1 .. pushed |-> [l \in Listeners |-> Pending(n, l)]]
  BY PendingAtRest, PendingMap
<1>2. [i \in Indices |-> [l \in Listeners |-> Times(event_map[i], l)]]' =
        [i \in Indices |-> [l \in Listeners |->
           [j \in Indices |-> [m \in Listeners |-> Times(event_map[j], m)]][i][l] +
             IF <<i, l>> \in pairs THEN 1 ELSE 0]]
  BY DEF Times
<1> QED  BY <1>1, <1>2 DEF Service!Register

LEMMA ServiceUnregister ==
  ASSUME BusInv, BusInv', Quiescent, UNCHANGED <<pushing, pushed, task_queue, calls>>,
         NEW i \in Indices, NEW l \in Listeners,
         \A j \in Indices, m \in Listeners :
           Times(event_map'[j], m) = IF j = i /\ m = l THEN 0 ELSE Times(event_map[j], m)
  PROVE  Service!Unregister(i, l)
<1>1. [n \in 1 .. pushed |-> [x \in Listeners |-> Pending(n, x)]]' =
        [n \in 1 .. pushed |-> [x \in Listeners |-> Pending(n, x)]]
  BY PendingAtRest, PendingMap
<1>2. [j \in Indices |-> [m \in Listeners |-> Times(event_map[j], m)]]' =
        [[j \in Indices |-> [m \in Listeners |-> Times(event_map[j], m)]]
           EXCEPT ![i][l] = 0]
  OBVIOUS
<1> QED  BY <1>1, <1>2 DEF Service!Unregister

LEMMA ConstructImplements ==
  ASSUME BusInv, BusInv', ConstructEvents
  PROVE  \E pairs \in SUBSET (Indices \X Listeners) : Service!Register(pairs)
<1> DEFINE pairs == {x \in Indices \X Listeners : x[1] \in RegistersFor[x[2]]}
<1>t. event_map \in [Indices -> Seq(Listeners)] /\ event_map' \in [Indices -> Seq(Listeners)]
  BY DEF BusInv, SafeInv, TypeOK
<1>1. /\ Quiescent /\ vct_events = {} /\ UNCHANGED <<pushing, pushed, task_queue, calls>>
      /\ event_map' \in [Indices -> UNION {SetToSeqs(L) : L \in SUBSET Listeners}]
      /\ \A i \in Indices : ToSet(event_map'[i]) = {l \in Listeners : i \in RegistersFor[l]}
  BY DEF ConstructEvents, pool
<1>2. ASSUME NEW i \in Indices, NEW l \in Listeners
      PROVE  Times(event_map[i], l) = 0
  <2>1. l \notin ToSet(event_map[i])
    BY <1>1 DEF BusInv, AliveInv
  <2> QED  BY <1>t, <2>1, TimesInSet
<1>3. ASSUME NEW i \in Indices, NEW l \in Listeners
      PROVE  Times(event_map'[i], l) = IF i \in RegistersFor[l] THEN 1 ELSE 0
  <2>1. PICK L \in SUBSET Listeners : event_map'[i] \in SetToSeqs(L)
    BY <1>1
  <2>2. IsFiniteSet(L)
    BY FS_Subset, BusAssumption
  <2>3. IsInjective(event_map'[i])
    BY <2>1, <2>2, ArrangementOfSet
  <2>4. PICK s : s = event_map'[i]
    OBVIOUS
  <2>5. Cardinality(Occurrences(s, l)) = IF l \in ToSet(s) THEN 1 ELSE 0
    BY <1>t, <2>3, <2>4, OccurrencesOfInjective
  <2> QED  BY <1>1, <2>4, <2>5, TimesIsOccurrences
<1>4. ASSUME NEW i \in Indices, NEW l \in Listeners
      PROVE  Times(event_map'[i], l) =
               Times(event_map[i], l) + IF <<i, l>> \in pairs THEN 1 ELSE 0
  <2>1. <<i, l>> \in pairs <=> i \in RegistersFor[l]
    OBVIOUS
  <2> QED  BY <1>2, <1>3, <2>1
<1>5. pairs \in SUBSET (Indices \X Listeners)
  OBVIOUS
<1> HIDE DEF pairs
<1>6. Service!Register(pairs)
  BY <1>1, <1>4, <1>5, ServiceRegister
<1> QED  BY <1>5, <1>6

LEMMA RegisterImplements ==
  ASSUME BusInv, BusInv', NEW i \in Indices, NEW l \in Listeners, RegisterEvent(i, l)
  PROVE  Service!Register({<<i, l>>})
<1>t. event_map \in [Indices -> Seq(Listeners)]
  BY DEF BusInv, SafeInv, TypeOK
<1>1. /\ Quiescent /\ UNCHANGED <<pushing, pushed, task_queue, calls>>
  BY DEF RegisterEvent, pushes, pool
<1>2. PICK k \in 1 .. Len(event_map[i]) + 1 :
        event_map' = [event_map EXCEPT ![i] = InsertAt(@, k, l)]
  BY DEF RegisterEvent
<1>3. ASSUME NEW j \in Indices, NEW m \in Listeners
      PROVE  Times(event_map'[j], m) =
               Times(event_map[j], m) + IF <<j, m>> \in {<<i, l>>} THEN 1 ELSE 0
  <2>1. Times(event_map[j], m) \in Nat
    BY <1>t, TimesFacts
  <2>2. CASE j # i
    BY <1>2, <1>t, <2>1, <2>2
  <2>3. CASE j = i
    <3>1. event_map'[j] = InsertAt(event_map[i], k, l)
      BY <1>2, <1>t, <2>3
    <3>2. Cardinality(Occurrences(InsertAt(event_map[i], k, l), m)) =
            Cardinality(Occurrences(event_map[i], m)) + IF m = l THEN 1 ELSE 0
      BY <1>2, <1>t, OccurrencesOfInsertAt
    <3>3. Times(InsertAt(event_map[i], k, l), m) =
            Times(event_map[i], m) + IF m = l THEN 1 ELSE 0
      BY <3>2, TimesIsOccurrences
    <3> QED  BY <2>3, <3>1, <3>3
  <2> QED  BY <2>2, <2>3
<1> QED  BY <1>1, <1>3, ServiceRegister

LEMMA UnregisterImplements ==
  ASSUME BusInv, BusInv', NEW i \in Indices, NEW l \in Listeners, UnregisterEvent(i, l)
  PROVE  Service!Unregister(i, l)
<1>t. event_map \in [Indices -> Seq(Listeners)]
  BY DEF BusInv, SafeInv, TypeOK
<1>1. /\ Quiescent /\ UNCHANGED <<pushing, pushed, task_queue, calls>>
      /\ event_map' = [event_map EXCEPT ![i] = Erased(@, l)]
  BY DEF UnregisterEvent, pushes, pool
<1>2. \A m : Times(Erased(event_map[i], l), m) = IF m = l THEN 0 ELSE Times(event_map[i], m)
  BY <1>t, ErasedProperties
<1>3. \A j \in Indices : event_map'[j] = IF j = i THEN Erased(event_map[i], l) ELSE event_map[j]
  BY <1>1, <1>t
<1>4. ASSUME NEW j \in Indices, NEW m \in Listeners
      PROVE  Times(event_map'[j], m) = IF j = i /\ m = l THEN 0 ELSE Times(event_map[j], m)
  BY <1>2, <1>3
<1> QED  BY <1>1, <1>4, ServiceUnregister

(* A push owes each listener what it is registered for.                    *)
LEMMA PushImplements ==
  ASSUME BusInv, BusInv', NEW u \in Users, NEW i \in Indices, PushNotify(u, i)
  PROVE  Service!Push(i)
<1>t. /\ event_map \in [Indices -> Seq(Listeners)] /\ pushed \in Nat
      /\ pushing \in [Users -> {NoPush} \cup Push] /\ task_queue \in Seq(Note)
      /\ calls \in Seq([Listeners -> Nat]) /\ Len(calls) = pushed
  BY DEF BusInv, SafeInv, TypeOK
<1> DEFINE p == [number |-> pushed + 1, index |-> i, position |-> 1, counting |-> FALSE]
<1>1. /\ pushing[u] = NoPush /\ pushed' = pushed + 1 /\ calls' = Append(calls, Nothing)
      /\ pushing' = [pushing EXCEPT ![u] = p]
      /\ event_map' = event_map /\ task_queue' = task_queue
  BY DEF PushNotify, listeners
<1>2. /\ pushing'[u] = p /\ p.number = pushed + 1 /\ p # NoPush
      /\ \A v \in Users : v # u => pushing'[v] = pushing[v]
      /\ pushing[u].number = 0
  BY <1>1, <1>t DEF NoPush
<1>3. ASSUME NEW n \in 1 .. pushed, NEW l \in Listeners
      PROVE  Pending(n, l)' = Pending(n, l)
  <2>n. n \in 1 .. pushed' /\ n # 0 /\ n # pushed + 1
    BY <1>1, <1>t
  <2>1. CASE \E v \in Users : pushing[v].number = n
    <3>1. PICK v \in Users : pushing[v].number = n
      BY <2>1
    <3>2. v # u /\ pushing'[v] = pushing[v]
      BY <1>2, <2>n, <3>1
    <3>3. Left(event_map', pushing'[v]) = Left(event_map, pushing[v])
      BY <1>1, <3>2
    <3>4. Pending(n, l)' = Times(task_queue', [number |-> n, listener |-> l]) +
                               Times(Left(event_map', pushing'[v]), l)
      BY <2>n, <3>1, <3>2, PendingFactsNext
    <3>5. Pending(n, l) = Times(task_queue, [number |-> n, listener |-> l]) +
                              Times(Left(event_map, pushing[v]), l)
      BY <3>1, PendingFacts
    <3> QED  BY <1>1, <3>3, <3>4, <3>5
  <2>2. CASE \A v \in Users : pushing[v].number # n
    <3>1. \A v \in Users : pushing'[v].number # n
      BY <1>2, <2>n, <2>2
    <3>2. Pending(n, l)' = Times(task_queue', [number |-> n, listener |-> l]) + 0
      BY <2>n, <3>1, PendingFactsNext
    <3>3. Pending(n, l) = Times(task_queue, [number |-> n, listener |-> l]) + 0
      BY <2>2, PendingFacts
    <3> QED  BY <1>1, <3>2, <3>3
  <2> QED  BY <2>1, <2>2
<1>4. ASSUME NEW l \in Listeners
      PROVE  Pending(pushed, l)' = Times(event_map[i], l)
  <2> DEFINE note == [number |-> pushed + 1, listener |-> l]
             s == event_map[i]
  <2>1. s \in Seq(Listeners) /\ Times(s, l) \in Nat
    BY <1>t, TimesFacts
  <2>2. note \notin ToSet(task_queue)
    <3>1. note \notin Note
      BY <1>t DEF Note
    <3>2. \A e \in ToSet(task_queue) : e \in Note
      BY <1>t, LenProperties DEF ToSet
    <3> QED  BY <3>1, <3>2
  <2>3. Times(task_queue, note) = 0
    BY <1>t, <2>2, TimesInSet
  <2>4. Left(event_map', p) = s
    <3>1. Left(event_map', p) = SubSeq(s, 1, Len(s))
      BY <1>1, <1>2 DEF Left
    <3> HIDE DEF s
    <3>2. SubSeq(s, 1, Len(s)) = s
      BY <2>1, SubSeqProperties, SeqEqual
    <3> QED  BY <3>1, <3>2
  <2> HIDE DEF note, s, p
  <2>5. pushed + 1 \in 1 .. pushed' /\ pushing'[u].number = pushed + 1
    BY <1>1, <1>2, <1>t
  <2>6. PICK n : n = pushed + 1
    OBVIOUS
  <2>a. n = pushed'
    BY <1>1, <2>6
  <2>7. Pending(n, l)' = Times(task_queue', [number |-> n, listener |-> l]) +
                           Times(Left(event_map', pushing'[u]), l)
    BY <2>5, <2>6, PendingFactsNext
  <2>8. Pending(n, l)' = Times(task_queue, note) + Times(s, l)
    BY <1>1, <1>2, <2>4, <2>6, <2>7 DEF note
  <2>9. Pending(n, l)' = Pending(pushed, l)'
    BY <2>a, PendingIsOwed
  <2> QED  BY <2>1, <2>3, <2>8, <2>9 DEF s
<1>5. [n \in 1 .. pushed |-> [l \in Listeners |-> Pending(n, l)]]' =
        [n \in 1 .. pushed + 1 |->
           IF n <= pushed
           THEN [m \in 1 .. pushed |-> [l \in Listeners |-> Pending(m, l)]][n]
           ELSE [j \in Indices |-> [l \in Listeners |-> Times(event_map[j], l)]][i]]
  <2>1. ASSUME NEW n \in 1 .. pushed + 1
        PROVE  [l \in Listeners |-> Pending(n, l)]' =
                 IF n <= pushed THEN [l \in Listeners |-> Pending(n, l)]
                 ELSE [l \in Listeners |-> Times(event_map[i], l)]
    <3>1. CASE n <= pushed
      BY <1>3, <1>t, <3>1
    <3>2. CASE n = pushed + 1
      <4>1. n = pushed' /\ ~(n <= pushed)
        BY <1>1, <1>t, <3>2
      <4>2. \A l \in Listeners : Pending(n, l)' = Times(event_map[i], l)
        BY <1>4, <4>1, PendingIsOwed
      <4> QED  BY <4>1, <4>2
    <3> QED  BY <1>t, <3>1, <3>2
  <2>2. 1 .. pushed' = 1 .. pushed + 1
    BY <1>1
  <2>3. ASSUME NEW n \in 1 .. pushed + 1, n <= pushed
        PROVE  [m \in 1 .. pushed |-> [l \in Listeners |-> Pending(m, l)]][n] =
                 [l \in Listeners |-> Pending(n, l)]
    <3>1. n \in 1 .. pushed
      BY <1>t, <2>3
    <3> QED  BY <3>1
  <2>4. [j \in Indices |-> [l \in Listeners |-> Times(event_map[j], l)]][i] =
          [l \in Listeners |-> Times(event_map[i], l)]
    OBVIOUS
  <2>5. [n \in 1 .. pushed |-> [l \in Listeners |-> Pending(n, l)]]' =
          [n \in 1 .. pushed + 1 |-> [l \in Listeners |-> Pending(n, l)]']
    BY <2>2
  <2> QED  BY <2>1, <2>3, <2>4, <2>5
<1>6. calls' = [n \in 1 .. pushed + 1 |-> IF n <= pushed THEN calls[n] ELSE Service!NotYet]
  <2>1. Nothing \in [Listeners -> Nat] /\ Service!NotYet = Nothing
    BY DEF Nothing, Service!NotYet
  <2> DEFINE f == [n \in 1 .. pushed + 1 |-> IF n <= pushed THEN calls[n] ELSE Nothing]
  <2>2. /\ \A n \in 1 .. pushed : calls[n] \in [Listeners -> Nat]
        /\ pushed + 1 \in Nat
    BY <1>t, ElementOfSeq
  <2>3. f \in Seq([Listeners -> Nat]) /\ Len(f) = pushed + 1
    BY <1>t, <2>1, <2>2
  <2>4. /\ Append(calls, Nothing) \in Seq([Listeners -> Nat])
        /\ Len(Append(calls, Nothing)) = pushed + 1
        /\ \A n \in 1 .. pushed : Append(calls, Nothing)[n] = calls[n]
        /\ Append(calls, Nothing)[pushed + 1] = Nothing
    BY <1>t, <2>1, AppendProperties
  <2>5. \A n \in 1 .. pushed + 1 : Append(calls, Nothing)[n] = f[n]
    BY <1>t, <2>4
  <2> HIDE DEF f
  <2>6. Append(calls, Nothing) = f
    BY <2>3, <2>4, <2>5, SeqEqual
  <2> QED  BY <1>1, <2>1, <2>6 DEF f
<1>7. [j \in Indices |-> [l \in Listeners |-> Times(event_map[j], l)]]' =
        [j \in Indices |-> [l \in Listeners |-> Times(event_map[j], l)]]
  BY <1>1
<1> QED  BY <1>1, <1>5, <1>6, <1>7 DEF Service!Push

(* What a walk owes moves to the queue, entry by entry.                    *)
LEMMA WalkAdvances ==
  ASSUME NEW S, NEW s \in Seq(S), NEW k \in 1 .. Len(s), NEW x
  PROVE  Times(SubSeq(s, k, Len(s)), x) =
           Times(SubSeq(s, k + 1, Len(s)), x) + IF x = s[k] THEN 1 ELSE 0
<1> DEFINE N == Len(s)
           r == SubSeq(s, k, N)
           t == SubSeq(s, k + 1, N)
<1>n. N \in Nat /\ \A i \in 1 .. N : s[i] \in S
  BY LenProperties, ElementOfSeq
<1>1. /\ r \in Seq(S) /\ Len(r) = N - k + 1
      /\ \A i \in 1 .. N - k + 1 : r[i] = s[k + i - 1]
  BY <1>n, SubSeqProperties
<1>2. /\ t \in Seq(S) /\ Len(t) = N - k
      /\ \A i \in 1 .. N - k : t[i] = s[k + i]
  <2>1. N - (k + 1) + 1 = N - k /\ \A i \in 1 .. N - k : (k + 1) + i - 1 = k + i
    BY <1>n
  <2>2. CASE k + 1 <= N
    <3>1. /\ t \in Seq(S) /\ Len(t) = N - (k + 1) + 1
          /\ \A i \in 1 .. N - (k + 1) + 1 : t[i] = s[(k + 1) + i - 1]
      BY <1>n, <2>2, SubSeqProperties
    <3> HIDE DEF t
    <3> QED  BY <1>n, <2>1, <3>1
  <2>3. CASE k = N
    <3>1. t = <<>> /\ Len(<<>>) = 0 /\ <<>> \in Seq(S)
      BY <1>n, <2>3, SubSeqProperties, EmptySeq
    <3> HIDE DEF t
    <3> QED  BY <1>n, <2>3, <3>1
  <2> QED  BY <1>n, <2>2, <2>3
<1> HIDE DEF r, t
<1>3. r # <<>> /\ Head(r) = s[k]
  BY <1>n, <1>1
<1>4. Tail(r) = t
  <2>1. /\ Tail(r) \in Seq(S) /\ Len(Tail(r)) = N - k
        /\ \A i \in 1 .. N - k : Tail(r)[i] = r[i + 1]
    <3>1. Len(r) - 1 = N - k
      BY <1>1, <1>n
    <3> QED  BY <1>1, <1>3, <3>1, HeadTailProperties, TailEntries
  <2>2. \A i \in 1 .. N - k : r[i + 1] = s[k + i]
    <3>1. ASSUME NEW i \in 1 .. N - k  PROVE r[i + 1] = s[k + i]
      <4>1. i + 1 \in 1 .. N - k + 1 /\ k + (i + 1) - 1 = k + i
        BY <1>n
      <4>2. r[i + 1] = s[k + (i + 1) - 1]
        BY <1>1, <4>1
      <4> QED  BY <4>1, <4>2
    <3> QED  BY <3>1
  <2> QED  BY <1>2, <2>1, <2>2, SeqEqual
<1>5. Times(r, x) = Times(Tail(r), x) + IF x = Head(r) THEN 1 ELSE 0
  BY <1>1, <1>3, TimesFacts
<1> QED  BY <1>3, <1>4, <1>5 DEF r, t

(* The step of one walk that keeps what is owed.                           *)
LEMMA WalkKeepsOwed ==
  ASSUME BusInv, BusInv', NEW u \in Users, pushing[u] # NoPush,
         \A v \in Users : pushing'[v].number = pushing[v].number \/ (v = u /\ pushing'[v] = NoPush),
         \A v \in Users : v # u => pushing'[v] = pushing[v],
         pushed' = pushed, event_map' = event_map,
         \A n \in 1 .. pushed, l \in Listeners :
           /\ n = pushing[u].number =>
                Times(task_queue', [number |-> n, listener |-> l]) +
                Times(Left(event_map, pushing'[u]), l) =
                  Times(task_queue, [number |-> n, listener |-> l]) +
                  Times(Left(event_map, pushing[u]), l)
           /\ n # pushing[u].number =>
                Times(task_queue', [number |-> n, listener |-> l]) =
                  Times(task_queue, [number |-> n, listener |-> l])
  PROVE  \A n \in 1 .. pushed, l \in Listeners : Pending(n, l)' = Pending(n, l)
<1> SUFFICES ASSUME NEW n \in 1 .. pushed, NEW l \in Listeners
             PROVE  Pending(n, l)' = Pending(n, l)
  OBVIOUS
<1> DEFINE note == [number |-> n, listener |-> l]
<1>t. /\ pushed \in Nat /\ n \in 1 .. pushed' /\ n # 0 /\ NoPush.number = 0
      /\ task_queue' \in Seq(Note') /\ event_map' \in [Indices -> Seq(Listeners)]
  BY DEF BusInv, SafeInv, TypeOK, NoPush
<1>u. \A v, w \in Users :
        pushing[v] # NoPush /\ pushing[v].number = pushing[w].number => v = w
  BY DEF BusInv, UniqueInv
<1>1. CASE pushing[u].number = n
  <2>1. Pending(n, l) = Times(task_queue, note) + Times(Left(event_map, pushing[u]), l)
    BY <1>1, PendingFacts
  <2>2. CASE pushing'[u].number = n
    <3>1. Pending(n, l)' = Times(task_queue', note) + Times(Left(event_map', pushing'[u]), l)
      BY <1>t, <2>2, PendingFactsNext
    <3> QED  BY <1>1, <2>1, <3>1
  <2>3. CASE pushing'[u] = NoPush
    <3>1. \A v \in Users : pushing'[v].number # n
      BY <1>1, <1>t, <1>u, <2>3
    <3>2. Pending(n, l)' = Times(task_queue', note) + 0
      BY <1>t, <3>1, PendingFactsNext
    <3>3. Times(Left(event_map, pushing'[u]), l) = 0
      <4>1. Left(event_map, pushing'[u]) = <<>>
        BY <2>3 DEF Left
      <4>2. {k \in 1 .. Len(<<>>) : <<>>[k] = l} = {}
        OBVIOUS
      <4> QED  BY <4>1, <4>2, FS_EmptySet DEF Times
    <3> QED  BY <1>1, <2>1, <3>2, <3>3
  <2> QED  BY <1>1, <2>2, <2>3
<1>2. CASE pushing[u].number # n
  <2>1. Times(task_queue', note) = Times(task_queue, note)
    BY <1>2
  <2>2. CASE \E v \in Users : pushing[v].number = n
    <3>1. PICK v \in Users : pushing[v].number = n
      BY <2>2
    <3>2. v # u /\ pushing'[v] = pushing[v]
      BY <1>2, <3>1
    <3>3. Pending(n, l)' = Times(task_queue', note) + Times(Left(event_map', pushing'[v]), l)
      BY <1>t, <3>1, <3>2, PendingFactsNext
    <3>4. Pending(n, l) = Times(task_queue, note) + Times(Left(event_map, pushing[v]), l)
      BY <3>1, PendingFacts
    <3> QED  BY <2>1, <3>2, <3>3, <3>4
  <2>3. CASE \A v \in Users : pushing[v].number # n
    <3>1. \A v \in Users : pushing'[v].number # n
      BY <1>t, <2>3
    <3>2. Pending(n, l)' = Times(task_queue', note) + 0
      BY <1>t, <3>1, PendingFactsNext
    <3>3. Pending(n, l) = Times(task_queue, note) + 0
      BY <2>3, PendingFacts
    <3> QED  BY <2>1, <3>2, <3>3
  <2> QED  BY <2>2, <2>3
<1> QED  BY <1>1, <1>2

LEMMA PushStepKeeps ==
  ASSUME BusInv, BusInv', NEW u \in Users, PushStep(u)
  PROVE  UNCHANGED Service!vars
<1> DEFINE p == pushing[u]
           range == event_map[p.index]
<1>t. /\ event_map \in [Indices -> Seq(Listeners)] /\ pushed \in Nat
      /\ pushing \in [Users -> {NoPush} \cup Push] /\ task_queue \in Seq(Note)
  BY DEF BusInv, SafeInv, TypeOK
<1>1. /\ p # NoPush /\ UNCHANGED <<event_map, pushed, calls>>
      /\ \A v \in Users : v # u => pushing'[v] = pushing[v]
  <2>1. CASE Enqueue(u)
    BY <2>1, EnqueueFacts DEF BusInv, SafeInv, listeners
  <2>2. CASE CountAndAdvance(u)
    BY <2>2, CountFacts DEF BusInv, SafeInv, listeners
  <2>3. CASE ReturnFromPush(u)
    BY <1>t, <2>3 DEF ReturnFromPush, listeners, pool
  <2> QED  BY <2>1, <2>2, <2>3 DEF PushStep
<1>2. /\ p \in Push /\ range \in Seq(Listeners) /\ Len(range) \in Nat
      /\ p.number \in 1 .. pushed /\ p.position \in Nat \ {0}
  BY <1>t, <1>1, LenProperties DEF Push
<1>3. ASSUME Enqueue(u)
      PROVE  \A n \in 1 .. pushed, l \in Listeners : Pending(n, l)' = Pending(n, l)
  <2> DEFINE k == p.position
             note == [number |-> p.number, listener |-> range[k]]
             q == [p EXCEPT !.counting = TRUE]
  <2>1. /\ k \in 1 .. Len(range) /\ ~p.counting
        /\ task_queue' = Append(task_queue, note) /\ pushing'[u] = q
    <3>1. /\ ~p.counting /\ k <= Len(range) /\ task_queue' = Append(task_queue, note)
          /\ pushing' = [pushing EXCEPT ![u].counting = TRUE]
      BY <1>3, EnqueueFacts DEF BusInv, SafeInv
    <3> QED  BY <1>2, <1>t, <3>1
  <2>2. /\ q.number = p.number /\ q # NoPush
        /\ Left(event_map, q) = SubSeq(range, k + 1, Len(range))
        /\ Left(event_map, p) = SubSeq(range, k, Len(range))
    <3>1. /\ q.number = p.number /\ q.index = p.index /\ q.position = k /\ q.counting = TRUE
      BY <1>2 DEF Push
    <3>2. q # NoPush
      BY <1>2, <3>1 DEF NoPush
    <3>3. Left(event_map, q) = SubSeq(range, k + 1, Len(range))
      BY <3>1, <3>2 DEF Left
    <3>4. Left(event_map, p) = SubSeq(range, k + 0, Len(range))
      <4> HIDE DEF p
      <4> QED  BY <1>1, <2>1 DEF Left
    <3>5. k + 0 = k
      BY <1>2
    <3> HIDE DEF p, q, k, range
    <3> QED  BY <3>1, <3>2, <3>3, <3>4, <3>5
  <2>3. note \in Note
    BY <1>2, <2>1, ElementOfSeq DEF Note
  <2>4. ASSUME NEW x
        PROVE  Times(task_queue', x) = Times(task_queue, x) + IF x = note THEN 1 ELSE 0
    BY <1>t, <2>1, <2>3, TimesFacts
  <2>5. ASSUME NEW l \in Listeners
        PROVE  Times(Left(event_map, p), l) =
                 Times(Left(event_map, q), l) + IF l = range[k] THEN 1 ELSE 0
    <3> HIDE DEF range, k, q
    <3>1. Times(SubSeq(range, k, Len(range)), l) =
            Times(SubSeq(range, k + 1, Len(range)), l) + IF l = range[k] THEN 1 ELSE 0
      BY <1>2, <2>1, WalkAdvances
    <3> QED  BY <2>2, <3>1
  <2>6. ASSUME NEW x  PROVE Times(task_queue, x) \in Nat
    BY <1>t, TimesFacts
  <2>7. ASSUME NEW l \in Listeners  PROVE Times(Left(event_map, q), l) \in Nat
    <3>1. pushing'[u] = q /\ event_map' = event_map /\ TypeOK'
      BY <1>1, <2>1 DEF BusInv, SafeInv
    <3>2. Left(event_map, q) \in Seq(Listeners)
      <4>1. \A i \in k + 1 .. Len(range) : range[i] \in Listeners
        BY <1>2, ElementOfSeq
      <4> HIDE DEF range, k
      <4>2. k + 1 \in Nat /\ k + 1 # 0
        BY <2>1
      <4>3. SubSeq(range, k + 1, Len(range)) \in Seq(Listeners)
        BY <1>2, <2>1, <4>1, <4>2, SubSeqProperties
      <4> QED  BY <2>2, <4>3
    <3> QED  BY <3>2, TimesFacts
  <2>8. ASSUME NEW n \in 1 .. pushed, NEW l \in Listeners, n = p.number
        PROVE  Times(task_queue', [number |-> n, listener |-> l]) +
               Times(Left(event_map, q), l) =
                 Times(task_queue, [number |-> n, listener |-> l]) +
                 Times(Left(event_map, p), l)
    <3> DEFINE x == [number |-> n, listener |-> l]
    <3>1. x = note <=> l = range[k]
      BY <2>8
    <3> HIDE DEF p, q, note, range, x, k
    <3>2. Times(task_queue', x) + Times(Left(event_map, q), l) =
            Times(task_queue, x) + Times(Left(event_map, p), l)
      BY <2>4, <2>5, <2>6, <2>7, <3>1
    <3> QED  BY <3>2 DEF x
  <2>9. ASSUME NEW n \in 1 .. pushed, NEW l \in Listeners, n # p.number
        PROVE  Times(task_queue', [number |-> n, listener |-> l]) =
                 Times(task_queue, [number |-> n, listener |-> l])
    <3>1. [number |-> n, listener |-> l] # note
      BY <2>9
    <3> QED  BY <2>4, <2>6, <3>1
  <2>a. \A v \in Users : pushing'[v].number = pushing[v].number
    BY <1>1, <2>1, <2>2
  <2> HIDE DEF p, q
  <2>b. \A n \in 1 .. pushed, l \in Listeners :
           /\ n = pushing[u].number =>
                Times(task_queue', [number |-> n, listener |-> l]) +
                Times(Left(event_map, pushing'[u]), l) =
                  Times(task_queue, [number |-> n, listener |-> l]) +
                  Times(Left(event_map, pushing[u]), l)
           /\ n # pushing[u].number =>
                Times(task_queue', [number |-> n, listener |-> l]) =
                  Times(task_queue, [number |-> n, listener |-> l])
    BY <2>1, <2>8, <2>9 DEF p
  <2> QED  BY <1>1, <2>a, <2>b, WalkKeepsOwed DEF p
<1>4. ASSUME CountAndAdvance(u)
      PROVE  \A n \in 1 .. pushed, l \in Listeners : Pending(n, l)' = Pending(n, l)
  <2> DEFINE q == [p EXCEPT !.counting = FALSE, !.position = @ + 1]
  <2>1. p.counting /\ task_queue' = task_queue /\ pushing'[u] = q
    BY <1>4, <1>2, <1>t, CountFacts DEF BusInv, SafeInv
  <2>2. /\ q.number = p.number /\ q # NoPush /\ q.index = p.index
        /\ q.position = p.position + 1 /\ q.counting = FALSE
    <3>1. /\ q.number = p.number /\ q.index = p.index
          /\ q.position = p.position + 1 /\ q.counting = FALSE
      BY <1>2 DEF Push
    <3>2. q # NoPush
      <4> HIDE DEF p, q
      <4>1. NoPush.number = 0 /\ q.number # 0
        BY <1>2, <3>1 DEF NoPush
      <4> QED  BY <4>1
    <3> QED  BY <3>1, <3>2
  <2>3. Left(event_map, q) = Left(event_map, p)
    <3> HIDE DEF p, q
    <3>1. (p.position + 1) + 0 = p.position + 1
      BY <1>2
    <3> QED  BY <1>1, <2>1, <2>2, <3>1 DEF Left
  <2>4. \A v \in Users : pushing'[v].number = pushing[v].number
    BY <1>1, <2>1, <2>2
  <2> HIDE DEF q
  <2> QED  BY <1>1, <2>1, <2>3, <2>4, WalkKeepsOwed
<1>5. ASSUME ReturnFromPush(u)
      PROVE  \A n \in 1 .. pushed, l \in Listeners : Pending(n, l)' = Pending(n, l)
  <2>1. /\ ~p.counting /\ p.position > Len(range) /\ task_queue' = task_queue
        /\ pushing'[u] = NoPush
    BY <1>5, <1>t DEF ReturnFromPush, pool
  <2>2. Left(event_map, p) = <<>> /\ Left(event_map, NoPush) = <<>>
    <3>1. Left(event_map, p) = SubSeq(range, p.position, Len(range))
      BY <1>1, <1>2, <2>1 DEF Left
    <3> HIDE DEF p, range
    <3>2. SubSeq(range, p.position, Len(range)) = <<>>
      BY <1>2, <2>1, SubSeqProperties
    <3> QED  BY <3>1, <3>2 DEF Left
  <2>3. \A v \in Users :
          pushing'[v].number = pushing[v].number \/ (v = u /\ pushing'[v] = NoPush)
    BY <1>1, <2>1
  <2> QED  BY <1>1, <2>1, <2>2, <2>3, WalkKeepsOwed
<1>6. \A n \in 1 .. pushed, l \in Listeners : Pending(n, l)' = Pending(n, l)
  BY <1>3, <1>4, <1>5 DEF PushStep
<1>7. [n \in 1 .. pushed |-> [l \in Listeners |-> Pending(n, l)]]' =
        [n \in 1 .. pushed |-> [l \in Listeners |-> Pending(n, l)]]
  BY <1>1, <1>6, PendingMap
<1>8. [i \in Indices |-> [l \in Listeners |-> Times(event_map[i], l)]]' =
        [i \in Indices |-> [l \in Listeners |-> Times(event_map[i], l)]]
  BY <1>1
<1> QED  BY <1>1, <1>7, <1>8 DEF Service!vars

(* A worker that takes a note delivers it.                                 *)
LEMMA TakeImplements ==
  ASSUME BusInv, BusInv', NEW w \in Workers, TakeNote(w)
  PROVE  \E n \in 1 .. pushed, l \in Listeners : Service!Deliver(n, l)
<1> DEFINE h == Head(task_queue)
<1>t. /\ pushed \in Nat /\ task_queue \in Seq(Note) /\ task_queue # <<>>
      /\ event_map \in [Indices -> Seq(Listeners)]
  BY TakeFacts DEF BusInv, SafeInv, TypeOK
<1>1. /\ task_queue' = Tail(task_queue) /\ UNCHANGED <<event_map, pushing, pushed>>
      /\ calls' = [calls EXCEPT ![h.number][h.listener] = @ + 1]
  BY TakeFacts DEF listeners, pushes
<1>2. h \in Note /\ h.number \in 1 .. pushed /\ h.listener \in Listeners
      /\ Tail(task_queue) \in Seq(Note)
  <2>1. h \in Note /\ Tail(task_queue) \in Seq(Note)
    BY <1>t, TailEntries, HeadTailProperties
  <2> QED  BY <2>1 DEF Note
<1>3. PICK k, m : k = h.number /\ m = h.listener
  OBVIOUS
<1>4. k \in 1 .. pushed /\ m \in Listeners /\ h = [number |-> k, listener |-> m]
  BY <1>2, <1>3 DEF Note
<1> HIDE DEF h
<1>5. ASSUME NEW x
      PROVE  /\ Times(task_queue, x) = Times(task_queue', x) + IF x = h THEN 1 ELSE 0
             /\ Times(task_queue', x) \in Nat
  <2>1. Times(task_queue, x) = Times(Tail(task_queue), x) + IF x = h THEN 1 ELSE 0
    BY <1>t, TimesFacts DEF h
  <2>2. Times(Tail(task_queue), x) \in Nat
    BY <1>2, TimesFacts
  <2> QED  BY <1>1, <2>1, <2>2
<1>6. ASSUME NEW n \in 1 .. pushed, NEW l \in Listeners
      PROVE  /\ Pending(n, l) = Pending(n, l)' + IF n = k /\ l = m THEN 1 ELSE 0
             /\ Pending(n, l)' \in Nat
  <2> DEFINE x == [number |-> n, listener |-> l]
  <2>1. x = h <=> n = k /\ l = m
    BY <1>4
  <2>2. n \in 1 .. pushed'
    BY <1>1
  <2>3. CASE \E v \in Users : pushing[v].number = n
    <3>1. PICK v \in Users : pushing[v].number = n
      BY <2>3
    <3>2. Pending(n, l) = Times(task_queue, x) + Times(Left(event_map, pushing[v]), l)
      BY <3>1, PendingFacts
    <3>3. Pending(n, l)' = Times(task_queue', x) + Times(Left(event_map', pushing'[v]), l)
      BY <1>1, <2>2, <3>1, PendingFactsNext
    <3>4. Times(Left(event_map, pushing[v]), l) \in Nat
      <4>1. Left(event_map, pushing[v]) \in Seq(Listeners)
        BY LeftTypes DEF BusInv, SafeInv
      <4> QED  BY <4>1, TimesFacts
    <3>5. Pending(n, l)' = Times(task_queue', x) + Times(Left(event_map, pushing[v]), l)
      BY <1>1, <3>3
    <3> HIDE DEF x
    <3> QED  BY <1>5, <2>1, <3>2, <3>4, <3>5
  <2>4. CASE \A v \in Users : pushing[v].number # n
    <3>1. Pending(n, l) = Times(task_queue, x) + 0
      BY <2>4, PendingFacts
    <3>2. Pending(n, l)' = Times(task_queue', x) + 0
      BY <1>1, <2>2, <2>4, PendingFactsNext
    <3> HIDE DEF x
    <3> QED  BY <1>5, <2>1, <3>1, <3>2
  <2> QED  BY <2>3, <2>4
<1> DEFINE P == [n \in 1 .. pushed |-> [l \in Listeners |-> Pending(n, l)]]
<1>7. P[k][m] > 0
  <2>1. Pending(k, m) > 0
    BY <1>4, <1>6
  <2> QED  BY <1>4, <2>1
<1>8. [n \in 1 .. pushed |-> [l \in Listeners |-> Pending(n, l)]]' = [P EXCEPT ![k][m] = @ - 1]
  <2>1. [n \in 1 .. pushed |-> [l \in Listeners |-> Pending(n, l)]]' =
          [n \in 1 .. pushed |-> [l \in Listeners |-> Pending(n, l)']]
    BY <1>1
  <2>2. ASSUME NEW n \in 1 .. pushed, NEW l \in Listeners
        PROVE  Pending(n, l)' = IF n = k /\ l = m THEN Pending(n, l) - 1 ELSE Pending(n, l)
    BY <1>6
  <2>3. [P EXCEPT ![k][m] = @ - 1] =
          [n \in 1 .. pushed |-> [l \in Listeners |->
             IF n = k /\ l = m THEN Pending(n, l) - 1 ELSE Pending(n, l)]]
    BY <1>4
  <2>4. [n \in 1 .. pushed |-> [l \in Listeners |-> Pending(n, l)']] =
          [n \in 1 .. pushed |-> [l \in Listeners |->
             IF n = k /\ l = m THEN Pending(n, l) - 1 ELSE Pending(n, l)]]
    BY <2>2
  <2> HIDE DEF P
  <2> QED  BY <2>1, <2>3, <2>4
<1>9. [i \in Indices |-> [l \in Listeners |-> Times(event_map[i], l)]]' =
        [i \in Indices |-> [l \in Listeners |-> Times(event_map[i], l)]]
  BY <1>1
<1>10. calls' = [calls EXCEPT ![k][m] = @ + 1]
  BY <1>1, <1>3
<1>11. Service!Deliver(k, m)
  BY <1>1, <1>7, <1>8, <1>9, <1>10 DEF Service!Deliver
<1> QED  BY <1>4, <1>11

LEMMA ServiceStep == BusInv /\ BusInv' /\ [Next]_vars => [Service!Next]_(Service!vars)
<1> SUFFICES ASSUME BusInv, BusInv', [Next]_vars
             PROVE  Service!Next \/ UNCHANGED Service!vars
  OBVIOUS
<1>1. CASE ConstructEvents
  BY <1>1, ConstructImplements DEF Service!Next
<1>2. CASE \/ DestructEvent \/ UsePool \/ ReturnFromMain \/ ExitStep \/ UNCHANGED vars
           \/ \E w \in Workers : ReturnNote(w) \/ EndIdle(w)
  <2>1. UNCHANGED <<event_map, pushing, pushed, task_queue, calls>>
    BY <1>2, DestroyFacts, JoinFacts, ReturnFacts, IdleFacts
       DEF BusInv, SafeInv, DestructEvent, DeleteEvents, UsePool, ReturnFromMain, ExitStep,
           DestroyBusPart, vars, listeners, pushes, pool, lifetime
  <2> QED  BY <2>1, ServiceFrame
<1>3. ASSUME NEW i \in Indices, NEW l \in Listeners, RegisterEvent(i, l)
      PROVE  Service!Next
  <2>1. {<<i, l>>} \in SUBSET (Indices \X Listeners)
    BY <1>3
  <2> QED  BY <1>3, <2>1, RegisterImplements DEF Service!Next
<1>4. ASSUME NEW i \in Indices, NEW l \in Listeners, UnregisterEvent(i, l)
      PROVE  Service!Next
  BY <1>4, UnregisterImplements DEF Service!Next
<1>5. ASSUME NEW u \in Users, NEW i \in Indices, PushNotify(u, i)  PROVE Service!Next
  BY <1>5, PushImplements DEF Service!Next
<1>6. ASSUME NEW u \in Users, PushStep(u)  PROVE UNCHANGED Service!vars
  BY <1>6, PushStepKeeps
<1>7. ASSUME NEW w \in Workers, TakeNote(w)  PROVE Service!Next
  BY <1>7, TakeImplements DEF Service!Next
<1> QED  BY <1>1, <1>2, <1>3, <1>4, <1>5, <1>6, <1>7 DEF Next, WorkerStep

LEMMA ServiceInit == Init => Service!Init
<1> SUFFICES ASSUME Init  PROVE Service!Init
  OBVIOUS
<1>1. /\ event_map = [i \in Indices |-> <<>>] /\ pushed = 0 /\ calls = <<>>
  BY DEF Init
<1>2. \A l \in Listeners : Times(<<>>, l) = 0
  <2>1. \A l : {k \in 1 .. Len(<<>>) : <<>>[k] = l} = {}
    OBVIOUS
  <2> QED  BY <2>1, FS_EmptySet DEF Times
<1>3. [i \in Indices |-> [l \in Listeners |-> Times(event_map[i], l)]] =
        [i \in Indices |-> [l \in Listeners |-> 0]]
  BY <1>1, <1>2
<1>4. [n \in 1 .. pushed |-> [l \in Listeners |-> Pending(n, l)]] = <<>>
  BY <1>1
<1> QED  BY <1>1, <1>3, <1>4 DEF Service!Init, Service!NotYet

(* The bus implements BusService: with pushes of main and of handlers in   *)
(* any interleaving with each other and with the workers, a notification   *)
(* reaches the listeners registered when it was pushed, once for each      *)
(* registration, and nothing else is delivered.                            *)
THEOREM ImplementsService == Spec => BusSpec
<1>1. Init => BusInv
  <2>1. ToSet(<<>>) = {}
    BY DEF ToSet
  <2>2. Init => AliveInv
    BY <2>1 DEF Init, Pool!Init, AliveInv
  <2>3. Init => UniqueInv
    BY DEF Init, UniqueInv
  <2> QED  BY <2>2, <2>3, SafeInvInit DEF BusInv
<1>2. BusInv /\ [Next]_vars => BusInv'
  BY SafeInvStep, AliveStep, UniqueStep DEF BusInv
<1>3. BusInv /\ BusInv' /\ [Next]_vars => [Service!Next]_(Service!vars)
  BY ServiceStep
<1>4. Init => Service!Init
  BY ServiceInit
<1> QED  BY <1>1, <1>2, <1>3, <1>4, PTL DEF Spec, BusSpec, Service!Spec
=============================================================================
