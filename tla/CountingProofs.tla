--------------------------- MODULE CountingProofs ---------------------------
(***************************************************************************)
(* The counting macros of Logging: what the statics of LOG_EVERY_N,        *)
(* LOG_IF_EVERY_N and LOG_FIRST_N hold at each step of an execution, for   *)
(* any n, any number of executions and any width of int.                   *)
(***************************************************************************)
EXTENDS LoggingProofs

-----------------------------------------------------------------------------
(* Which step of a counting statement follows which.                       *)
Ahead == {"load_occ", "store_occ", "condition", "FLAGS_v", "flag", "pointer", "InitVLOG3__"}

Links ==
  CASE program.macro = "LOG_EVERY_N" ->
         {<<"load_occ", "store_occ">>, <<"store_occ", "load_mod">>, <<"load_mod", "store_mod">>,
          <<"store_mod", "wrap_mod">>, <<"wrap_mod", "test_mod">>, <<"test_mod", "stream">>}
    [] program.macro = "LOG_FIRST_N" ->
         {<<"load_first", "store_occ">>, <<"store_occ", "test_first">>,
          <<"test_first", "stream">>}
    [] OTHER ->
         (Ahead \X (Ahead \cup {"load_mod"}))
           \cup {<<"load_mod", "store_modulo">>, <<"store_modulo", "stream">>}

Starts ==
  CASE program.macro = "LOG_EVERY_N" -> {"load_occ"}
    [] program.macro = "LOG_FIRST_N" -> {"load_first"}
    [] OTHER                         -> Ahead

Linked(s) == \A i \in 1 .. Len(s) - 1 : <<s[i], s[i + 1]>> \in Links
LinkInv == Counts => \A t \in Threads : Linked(todo[t])

(* What has been logged, and the counts, after k occasions.                *)
Logged(k) == {m.nth : m \in messages} = {j \in 1 .. k : Due(j)}
Numbered  == \A m \in messages : m.ctr = Turn(m.nth)

Cycle(k) == IF k = 0 THEN 0 ELSE ((k - 1) % program.n) + 1
Few(k)   == IF k <= program.n THEN k ELSE program.n + 1

(* Between two executions, k occasions after the start.                    *)
Rest(k) ==
  /\ Logged(k)
  /\ program.macro = "LOG_EVERY_N" => occurrences = Turn(k) /\ mod_n = Cycle(k)
  /\ program.macro = "LOG_FIRST_N" => occurrences = Few(k)
  /\ program.macro \notin {"LOG_EVERY_N", "LOG_FIRST_N"} => mod_n = k % program.n
  /\ program.macro \in {"LOG_EVERY_N", "LOG_FIRST_N"} => Numbered

(* Before step s of one, the occasion being counted at load_mod or at      *)
(* load_first.                                                             *)
EveryPhase(t, s, k) ==
  /\ s \in {"load_occ", "store_occ", "load_mod", "store_mod", "wrap_mod", "test_mod", "stream"}
  /\ Numbered
  /\ s \in {"load_occ", "store_occ", "load_mod"} => Logged(k) /\ mod_n = Cycle(k)
  /\ s \in {"load_occ", "store_occ"} => occurrences = Turn(k)
  /\ s # "load_occ" => occ_reg[t] = occurrences
  /\ s = "load_mod" => occurrences = Turn(k + 1)
  /\ s \in {"store_mod", "wrap_mod", "test_mod", "stream"} =>
       k # 0 /\ nth[t] = k /\ Logged(k - 1) /\ occurrences = Turn(k) /\ mod_reg[t] = mod_n
  /\ s = "store_mod" => mod_n = Cycle(k - 1)
  /\ s = "wrap_mod" => mod_n = Cycle(k - 1) + 1
  /\ s \in {"test_mod", "stream"} => mod_n = Cycle(k)
  /\ s = "stream" => Due(k)

FirstPhase(t, s, k) ==
  /\ s \in {"load_first", "store_occ", "test_first", "stream"}
  /\ Numbered
  /\ s = "load_first" => Logged(k) /\ occurrences = Few(k)
  /\ s # "load_first" => k # 0 /\ nth[t] = k /\ Logged(k - 1) /\ occ_reg[t] = occurrences
  /\ s = "store_occ" => k - 1 <= program.n /\ occurrences = k - 1
  /\ s \in {"test_first", "stream"} => occurrences = Few(k)
  /\ s = "stream" => Due(k)

IfPhase(t, s, k) ==
  /\ s \in Ahead \cup {"load_mod", "store_modulo", "stream"}
  /\ s \in Ahead \cup {"load_mod"} => Logged(k) /\ mod_n = k % program.n
  /\ s \in {"store_modulo", "stream"} => k # 0 /\ nth[t] = k /\ Logged(k - 1)
  /\ s = "store_modulo" => mod_n = (k - 1) % program.n /\ mod_reg[t] = mod_n
  /\ s = "stream" => mod_n = k % program.n /\ Due(k)

Phase(t, s, k) ==
  CASE program.macro = "LOG_EVERY_N" -> EveryPhase(t, s, k)
    [] program.macro = "LOG_FIRST_N" -> FirstPhase(t, s, k)
    [] OTHER                         -> IfPhase(t, s, k)

CountInv ==
  Counts /\ Countable /\ ~overlapped =>
    /\ Resting => Rest(occasions)
    /\ \A t \in Threads : todo[t] # <<>> => Phase(t, todo[t][1], occasions)

-----------------------------------------------------------------------------
(* Counting modulo a number.                                               *)
LEMMA ModStep ==
  ASSUME NEW n \in Nat \ {0}, NEW k \in Nat
  PROVE  /\ k % n \in 0 .. n - 1
         /\ (k + 1) % n = IF (k % n) + 1 = n THEN 0 ELSE (k % n) + 1
         /\ (k + 1) % n = ((k % n) + 1) % n
<1>1. k % n \in 0 .. n - 1
  OBVIOUS
<1>2. (k + 1) % n = IF (k % n) + 1 = n THEN 0 ELSE (k % n) + 1
  <2>1. PICK q \in Nat, r \in 0 .. n - 1 : k = n * q + r
    <3>1. k = n * (k \div n) + (k % n) /\ k \div n \in Nat /\ k % n \in 0 .. n - 1
      OBVIOUS
    <3> QED  BY <3>1
  <2>2. \A p \in Nat, s \in 0 .. n - 1 : (n * p + s) % n = s
    OBVIOUS
  <2>3. k % n = r
    BY <2>1, <2>2
  <2>4. CASE r + 1 = n
    <3>1. k + 1 = n * (q + 1) + 0
      BY <2>1, <2>4
    <3>2. (n * (q + 1) + 0) % n = 0
      BY <2>2
    <3> QED  BY <2>3, <2>4, <3>1, <3>2
  <2>5. CASE r + 1 # n
    <3>1. k + 1 = n * q + (r + 1) /\ r + 1 \in 0 .. n - 1
      BY <2>1, <2>5
    <3>2. (n * q + (r + 1)) % n = r + 1
      BY <2>2, <3>1
    <3> QED  BY <2>3, <2>5, <3>1, <3>2
  <2> QED  BY <2>4, <2>5
<1>3. ((k % n) + 1) % n = IF (k % n) + 1 = n THEN 0 ELSE (k % n) + 1
  OBVIOUS
<1> QED  BY <1>1, <1>2, <1>3

LEMMA CycleStep ==
  ASSUME program.n \in Nat \ {0}, NEW k \in Nat
  PROVE  /\ Cycle(k) \in 0 .. program.n
         /\ Cycle(k + 1) = IF Cycle(k) + 1 > program.n THEN Cycle(k) + 1 - program.n
                           ELSE Cycle(k) + 1
         /\ k # 0 => (Cycle(k) = 1 <=> k % program.n = 1 % program.n)
<1> DEFINE n == program.n
<1>1. n \in Nat \ {0}
  OBVIOUS
<1>2. Cycle(0) = 0
  BY DEF Cycle
<1>3. Cycle(k + 1) = (k % n) + 1
  BY DEF Cycle
<1>4. k # 0 => k - 1 \in Nat /\ Cycle(k) = ((k - 1) % n) + 1
  BY DEF Cycle
<1>5. k % n \in 0 .. n - 1
  BY ModStep
<1>6. k # 0 => /\ (k - 1) % n \in 0 .. n - 1
               /\ k % n = IF ((k - 1) % n) + 1 = n THEN 0 ELSE ((k - 1) % n) + 1
  <2> SUFFICES ASSUME k # 0  PROVE /\ (k - 1) % n \in 0 .. n - 1
                                   /\ k % n = IF ((k - 1) % n) + 1 = n THEN 0
                                              ELSE ((k - 1) % n) + 1
    OBVIOUS
  <2>1. PICK j \in Nat : j = k - 1 /\ k = j + 1
    OBVIOUS
  <2>2. /\ j % n \in 0 .. n - 1
        /\ (j + 1) % n = IF (j % n) + 1 = n THEN 0 ELSE (j % n) + 1
    <3> HIDE DEF n
    <3> QED  BY <1>1, ModStep
  <2> QED  BY <2>1, <2>2
<1>7. 1 % n = IF n = 1 THEN 0 ELSE 1
  OBVIOUS
<1>8. 0 % n = 0
  OBVIOUS
<1> HIDE DEF n
<1>9. CASE k = 0
  BY <1>1, <1>2, <1>3, <1>8, <1>9 DEF n
<1>10. CASE k # 0
  <2>1. /\ n \in Nat \ {0} /\ Cycle(k) - 1 \in 0 .. n - 1
        /\ k % n = IF Cycle(k) = n THEN 0 ELSE Cycle(k)
        /\ Cycle(k + 1) = (k % n) + 1
    BY <1>1, <1>3, <1>4, <1>6, <1>10
  <2>2. Cycle(k) \in 1 .. n
    BY <2>1, <1>4, <1>6, <1>10
  <2> QED  BY <1>7, <1>10, <2>1, <2>2 DEF n
<1> QED  BY <1>9, <1>10

LEMMA TurnStep ==
  ASSUME NEW k \in Nat
  PROVE  /\ Turn(k) \in Ints /\ Wrapped(Turn(k) + 1) = Turn(k + 1)
         /\ k <= IntMax => Turn(k) = k /\ Wrapped(k) = k
<1> DEFINE S == 2 * (IntMax + 1)
           j == k + IntMax + 1
<1>1. IntMax \in Nat \ {0} /\ S \in Nat \ {0} /\ j \in Nat /\ (k + 1) + IntMax + 1 = j + 1
  BY LogAssumption
<1>2. /\ j % S \in 0 .. S - 1
      /\ (j + 1) % S = IF (j % S) + 1 = S THEN 0 ELSE (j % S) + 1
  <2> HIDE DEF S, j
  <2> QED  BY <1>1, ModStep
<1>3. Turn(k) = (j % S) - (IntMax + 1) /\ Turn(k + 1) = ((j + 1) % S) - (IntMax + 1)
  BY <1>1 DEF Turn
<1>4. k <= IntMax => j % S = j
  BY <1>1
<1>5. S = IntMax + 1 + (IntMax + 1)
  BY <1>1
<1>6. Turn(k) \in Ints /\ Wrapped(Turn(k) + 1) = Turn(k + 1)
  <2> HIDE DEF S, j
  <2> QED  BY <1>1, <1>2, <1>3, <1>5 DEF Ints, Wrapped
<1>7. k <= IntMax => Turn(k) = k /\ Wrapped(k) = k
  BY <1>1, <1>3, <1>4 DEF Wrapped
<1> QED  BY <1>6, <1>7

-----------------------------------------------------------------------------
(* The steps of a counting statement follow each other as Links says.      *)
LEMMA LinkedExpansion ==
  ASSUME program \in Programs, Counts
  PROVE  /\ Linked(Append(Expansion.steps, "stream"))
         /\ Append(Expansion.steps, "stream")[1] \in Starts
         /\ Expansion.stream = "message"
<1> DEFINE s == program.severity
<1>1. CASE program.macro = "LOG_EVERY_N"
  <2>1. Expansion = Sent(CountEvery, s)
    BY <1>1, Tables DEF CountingMacros, Counts
  <2>2. Expansion.stream = "message" /\ Expansion.steps = CountEvery
    BY <2>1 DEF Sent
  <2>3. Linked(Append(CountEvery, "stream")) /\ Append(CountEvery, "stream")[1] = "load_occ"
    BY <1>1 DEF Linked, Links, CountEvery, Count
  <2> QED  BY <1>1, <2>2, <2>3 DEF Starts
<1>2. CASE program.macro = "LOG_FIRST_N"
  <2>1. Expansion = Sent(<<"load_first", "store_occ", "test_first">>, s)
    BY <1>2, Tables DEF CountingMacros, Counts
  <2> DEFINE steps == <<"load_first", "store_occ", "test_first">>
  <2>2. Expansion.stream = "message" /\ Expansion.steps = steps
    BY <2>1 DEF Sent
  <2>3. Linked(Append(steps, "stream")) /\ Append(steps, "stream")[1] = "load_first"
    BY <1>2 DEF Linked, Links
  <2> QED  BY <1>2, <2>2, <2>3 DEF Starts
<1>3. CASE program.macro \notin {"LOG_EVERY_N", "LOG_FIRST_N"}
  <2>1. /\ program.macro = "LOG_IF_EVERY_N" => Expansion = Sent(CountIf(<<"condition">>), s)
        /\ program.macro = "VLOG_EVERY_N" => Expansion = Sent(CountIf(VLOG_IS_ON), INFO)
        /\ program.macro = "VLOG_IF_EVERY_N" =>
             Expansion = Sent(CountIf(<<"condition">> \o VLOG_IS_ON), INFO)
        /\ program.macro \in {"LOG_IF_EVERY_N", "VLOG_EVERY_N", "VLOG_IF_EVERY_N"}
    BY <1>3, Tables DEF CountingMacros, VerboseMacros, Counts
  <2>2. /\ Expansion.stream = "message"
        /\ Expansion.steps \in {CountIf(<<"condition">>), CountIf(VLOG_IS_ON),
                                CountIf(<<"condition">> \o VLOG_IS_ON)}
    BY <2>1 DEF Sent
  <2>3. /\ <<"load_occ", "store_occ">> \in Links /\ <<"store_occ", "condition">> \in Links
        /\ <<"store_occ", "flag">> \in Links /\ <<"store_occ", "FLAGS_v">> \in Links
        /\ <<"condition", "flag">> \in Links /\ <<"condition", "FLAGS_v">> \in Links
        /\ <<"flag", "pointer">> \in Links /\ <<"condition", "load_mod">> \in Links
        /\ <<"pointer", "load_mod">> \in Links /\ <<"FLAGS_v", "load_mod">> \in Links
        /\ <<"load_mod", "store_modulo">> \in Links /\ <<"store_modulo", "stream">> \in Links
        /\ "load_occ" \in Starts
    BY <1>3 DEF Links, Ahead, Starts
  <2> DEFINE Good(c) == /\ Linked(Append(CountIf(c), "stream"))
                        /\ Append(CountIf(c), "stream")[1] \in Starts
  <2>4. Good(<<"condition">>)
    BY <2>3 DEF CountIf, Count, Linked
  <2>5. Good(<<"flag", "pointer">>) /\ Good(<<"FLAGS_v">>)
    <3>1. Good(<<"flag", "pointer">>)
      BY <2>3 DEF CountIf, Count, Linked
    <3>2. Good(<<"FLAGS_v">>)
      BY <2>3 DEF CountIf, Count, Linked
    <3> QED  BY <3>1, <3>2
  <2>6. Good(<<"condition">> \o <<"flag", "pointer">>) /\ Good(<<"condition">> \o <<"FLAGS_v">>)
    <3>1. Good(<<"condition">> \o <<"flag", "pointer">>)
      BY <2>3 DEF CountIf, Count, Linked
    <3>2. Good(<<"condition">> \o <<"FLAGS_v">>)
      BY <2>3 DEF CountIf, Count, Linked
    <3> QED  BY <3>1, <3>2
  <2> HIDE DEF Good
  <2>7. Good(VLOG_IS_ON) /\ Good(<<"condition">> \o VLOG_IS_ON)
    BY <2>5, <2>6 DEF VLOG_IS_ON
  <2>8. /\ Linked(Append(Expansion.steps, "stream"))
        /\ Append(Expansion.steps, "stream")[1] \in Starts
    BY <2>2, <2>4, <2>7 DEF Good
  <2> QED  BY <2>2, <2>8
<1> QED  BY <1>1, <1>2, <1>3

LEMMA LinkedTail ==
  ASSUME NEW S, NEW s \in Seq(S), s # <<>>, Linked(s)
  PROVE  /\ Linked(Tail(s))
         /\ Tail(s) # <<>> => <<s[1], Tail(s)[1]>> \in Links
<1>1. Len(s) \in Nat \ {0}
  BY EmptySeq
<1>2. PICK r \in Seq(S) : r = Tail(s)
  BY HeadTailProperties
<1>3. Len(r) = Len(s) - 1 /\ \A i \in 1 .. Len(r) : r[i] = s[i + 1]
  BY <1>2, HeadTailProperties
<1>4. Linked(r)
  <2> SUFFICES ASSUME NEW i \in 1 .. Len(r) - 1  PROVE <<r[i], r[i + 1]>> \in Links
    BY DEF Linked
  <2>1. i + 1 \in 1 .. Len(s) - 1 /\ i \in 1 .. Len(r) /\ i + 1 \in 1 .. Len(r)
    BY <1>1, <1>3
  <2>2. <<s[i + 1], s[(i + 1) + 1]>> \in Links
    BY <2>1 DEF Linked
  <2> QED  BY <1>3, <2>1, <2>2
<1>5. r # <<>> => <<s[1], r[1]>> \in Links
  <2>1. r # <<>> => 1 \in 1 .. Len(r) /\ 1 \in 1 .. Len(s) - 1
    BY <1>1, <1>3, EmptySeq
  <2>2. r # <<>> => <<s[1], s[1 + 1]>> \in Links
    BY <2>1 DEF Linked
  <2> QED  BY <1>3, <2>1, <2>2
<1> QED  BY <1>2, <1>4, <1>5

LEMMA LinkedInit ==
  ASSUME NEW S, NEW s \in Seq(S), s # <<>>, Linked(s), s[1] = "pointer", "InitVLOG3__" \in S
  PROVE  Linked(<<"InitVLOG3__">> \o Tail(s))
<1>1. PICK r \in Seq(S) : r = Tail(s)
  BY HeadTailProperties
<1>2. Linked(r) /\ (r # <<>> => <<"pointer", r[1]>> \in Links) /\ Len(r) \in Nat
  BY <1>1, LinkedTail, LenProperties
<1>3. r # <<>> => <<"InitVLOG3__", r[1]>> \in Links
  BY <1>2 DEF Links, Ahead
<1>4. PICK q \in Seq(S) : q = <<"InitVLOG3__">> \o r
  <2>1. <<"InitVLOG3__">> \in Seq(S)
    OBVIOUS
  <2> QED  BY <2>1, ConcatProperties
<1>5. Len(q) = Len(r) + 1 /\ q[1] = "InitVLOG3__" /\ \A i \in 1 .. Len(r) : q[i + 1] = r[i]
  BY <1>4
<1>6. ASSUME NEW i \in 1 .. Len(q) - 1  PROVE <<q[i], q[i + 1]>> \in Links
  <2>1. CASE i = 1
    <3>1. Len(r) # 0 /\ 1 \in 1 .. Len(r)
      BY <1>2, <1>5, <2>1
    <3>2. r # <<>> /\ q[i + 1] = r[1] /\ q[i] = "InitVLOG3__"
      BY <1>5, <2>1, <3>1
    <3> QED  BY <1>3, <3>2
  <2>2. CASE i # 1
    <3>1. i - 1 \in 1 .. Len(r) - 1 /\ i - 1 \in 1 .. Len(r) /\ i \in 1 .. Len(r)
      BY <1>2, <1>5, <2>2
    <3>2. <<r[i - 1], r[(i - 1) + 1]>> \in Links /\ (i - 1) + 1 = i
      BY <1>2, <3>1 DEF Linked
    <3>3. q[i] = r[i - 1] /\ q[i + 1] = r[i]
      BY <1>5, <3>1, <3>2
    <3> QED  BY <3>2, <3>3
  <2> QED  BY <2>1, <2>2
<1> QED  BY <1>1, <1>4, <1>6 DEF Linked

LEMMA LinkInvStep == SafeInv /\ LinkInv /\ [Next]_vars => LinkInv'
<1> SUFFICES ASSUME SafeInv, LinkInv, [Next]_vars, Counts'
             PROVE  \A t \in Threads : Linked(todo[t])'
  BY DEF LinkInv
<1>1. program' = program /\ Links' = Links /\ Counts
  BY BuildStays DEF Links, Counts, Vanishing
<1>2. program \in Programs /\ todo \in [Threads -> Seq(Steps)] /\ \A t \in Threads : Linked(todo[t])
  BY <1>1 DEF SafeInv, TypeOK, LinkInv
<1>3. ASSUME NEW t \in Threads, NEW s, Linked(s), todo' = [todo EXCEPT ![t] = s]
      PROVE  \A u \in Threads : Linked(todo[u])'
  <2>1. \A u \in Threads : todo'[u] = s \/ todo'[u] = todo[u]
    BY <1>2, <1>3
  <2> QED  BY <1>1, <1>2, <1>3, <2>1 DEF Linked
<1>4. Linked(<<>>)
  BY DEF Linked
<1>5. CASE todo' = todo
  BY <1>1, <1>2, <1>5 DEF Linked
<1>6. ASSUME NEW t \in Threads, Execute(t)  PROVE \A u \in Threads : Linked(todo[u])'
  <2>1. todo' = [todo EXCEPT ![t] = Append(Expansion.steps, "stream")]
    BY <1>6 DEF Execute
  <2>2. Linked(Append(Expansion.steps, "stream"))
    BY <1>1, <1>2, LinkedExpansion
  <2> QED  BY <1>3, <1>4, <2>1, <2>2
<1>7. ASSUME NEW t \in Threads, todo[t] # <<>>,
             \/ todo' = [todo EXCEPT ![t] = <<>>]
             \/ todo' = [todo EXCEPT ![t] = Tail(todo[t])]
      PROVE  \A u \in Threads : Linked(todo[u])'
  <2>1. Linked(Tail(todo[t]))
    BY <1>2, <1>7, LinkedTail
  <2> QED  BY <1>3, <1>4, <1>7, <2>1
<1>8. ASSUME NEW t \in Threads, todo[t] # <<>>, todo[t][1] = "load_first",
             todo' = [todo EXCEPT ![t] = Tail(Tail(todo[t]))]
      PROVE  \A u \in Threads : Linked(todo[u])'
  <2>1. /\ Linked(Tail(todo[t])) /\ Tail(todo[t]) # <<>>
        /\ Tail(todo[t]) \in Seq(BuildSteps)
    BY <1>2, <1>8, LinkedTail, ShapeTail DEF SafeInv, StepInv
  <2>2. Linked(Tail(Tail(todo[t])))
    BY <2>1, LinkedTail
  <2> QED  BY <1>3, <1>8, <2>2
<1>9. ASSUME NEW t \in Threads, todo[t] # <<>>, todo[t][1] = "pointer",
             todo' = [todo EXCEPT ![t] = <<"InitVLOG3__">> \o Tail(todo[t])]
      PROVE  \A u \in Threads : Linked(todo[u])'
  <2>1. "InitVLOG3__" \in Steps
    BY DEF Steps
  <2>2. Linked(<<"InitVLOG3__">> \o Tail(todo[t]))
    BY <1>2, <1>9, <2>1, LinkedInit
  <2> QED  BY <1>3, <1>9, <2>2
<1>10. CASE UNCHANGED vars
  BY <1>5, <1>10 DEF vars, rest, threads
<1> QED  BY <1>2, <1>5, <1>6, <1>7, <1>8, <1>9, <1>10, TodoMoves

-----------------------------------------------------------------------------
(* The message of the k-th occasion is the one that k calls for.           *)
LEMMA LoggedMoves ==
  ASSUME program' = program, NEW k \in Nat
  PROVE  /\ messages' = messages /\ Logged(k) => Logged(k)'
         /\ messages' = messages /\ k # 0 /\ Logged(k - 1) => Logged(k - 1)'
         /\ messages' = messages /\ k # 0 /\ Logged(k - 1) /\ ~Due(k) => Logged(k)'
         /\ \A m : messages' = messages \cup {m} /\ m.nth = k /\ k # 0 /\ Logged(k - 1) /\ Due(k)
                     => Logged(k)'
<1>1. \A j \in Nat : Due(j)' <=> Due(j)
  BY DEF Due
<1>2. k # 0 => 1 .. k = (1 .. k - 1) \cup {k}
  OBVIOUS
<1>3. messages' = messages /\ Logged(k) => Logged(k)'
  BY <1>1 DEF Logged
<1>4. messages' = messages /\ k # 0 /\ Logged(k - 1) => Logged(k - 1)'
  BY <1>1 DEF Logged
<1>5. messages' = messages /\ k # 0 /\ Logged(k - 1) /\ ~Due(k) => Logged(k)'
  BY <1>1, <1>2 DEF Logged
<1>6. ASSUME NEW m, messages' = messages \cup {m}, m.nth = k, k # 0, Logged(k - 1), Due(k)
      PROVE  Logged(k)'
  <2>1. {x.nth : x \in messages'} = {x.nth : x \in messages} \cup {k}
    BY <1>6
  <2>2. {j \in 1 .. k : Due(j)'} = {j \in 1 .. k - 1 : Due(j)} \cup {k}
    BY <1>1, <1>2, <1>6
  <2> QED  BY <1>6, <2>1, <2>2 DEF Logged
<1> QED  BY <1>3, <1>4, <1>5, <1>6

(* Which action makes a step.                                              *)
ThreadStep(t) ==
  \/ CountingStep(t) \/ VerboseStep(t) \/ Skip(t) \/ EvaluateVal(t) \/ Condition(t)
  \/ SendMessage(t) \/ KeepMessage(t) \/ DiscardMessage(t)

LEMMA StepAt ==
  ASSUME NEW t \in Threads, todo[t] \in Seq(Steps), ThreadStep(t)
  PROVE  /\ todo[t] # <<>>
         /\ todo[t][1] = "load_occ" => LoadOccurrences(t)
         /\ todo[t][1] = "store_occ" => StoreOccurrences(t)
         /\ todo[t][1] = "load_mod" => LoadMod(t)
         /\ todo[t][1] = "store_mod" => StoreMod(t)
         /\ todo[t][1] = "wrap_mod" => WrapMod(t)
         /\ todo[t][1] = "test_mod" => TestMod(t)
         /\ todo[t][1] = "store_modulo" => StoreModulo(t)
         /\ todo[t][1] = "load_first" => LoadFirst(t)
         /\ todo[t][1] = "test_first" => TestFirst(t)
         /\ todo[t][1] = "stream" => SendMessage(t) \/ KeepMessage(t) \/ DiscardMessage(t)
         /\ todo[t][1] \in {"condition", "FLAGS_v", "flag", "pointer", "InitVLOG3__"} =>
              Condition(t) \/ VerboseStep(t)
<1>1. todo[t] # <<>>
  BY DEF ThreadStep, CountingStep, VerboseStep, Skip, EvaluateVal, Condition, SendMessage,
         KeepMessage, DiscardMessage, LoadOccurrences, StoreOccurrences, LoadMod, StoreMod,
         WrapMod, TestMod, StoreModulo, LoadFirst, TestFirst, TestFlag, TestSite,
         TestSiteUninitialized, InitVLOG3__, At
<1>2. Head(todo[t]) = todo[t][1]
  BY <1>1
<1>3. /\ LoadOccurrences(t) => todo[t][1] = "load_occ"
      /\ StoreOccurrences(t) => todo[t][1] = "store_occ"
      /\ LoadMod(t) => todo[t][1] = "load_mod"
      /\ StoreMod(t) => todo[t][1] = "store_mod"
      /\ WrapMod(t) => todo[t][1] = "wrap_mod"
      /\ TestMod(t) => todo[t][1] = "test_mod"
      /\ StoreModulo(t) => todo[t][1] = "store_modulo"
      /\ LoadFirst(t) => todo[t][1] = "load_first"
      /\ TestFirst(t) => todo[t][1] = "test_first"
  BY <1>2 DEF LoadOccurrences, StoreOccurrences, LoadMod, StoreMod, WrapMod, TestMod,
              StoreModulo, LoadFirst, TestFirst, At
<1>4. /\ SendMessage(t) \/ KeepMessage(t) \/ DiscardMessage(t) => todo[t][1] = "stream"
      /\ Condition(t) \/ VerboseStep(t) =>
           todo[t][1] \in {"condition", "FLAGS_v", "flag", "pointer", "InitVLOG3__"}
      /\ Skip(t) \/ EvaluateVal(t) =>
           todo[t][1] \in {"val", "true_then", "true_or", "while_false"}
  BY <1>2 DEF SendMessage, KeepMessage, DiscardMessage, Skip, EvaluateVal, Guards, Condition,
         VerboseStep, TestFlag, TestSite, TestSiteUninitialized, InitVLOG3__, At
<1> QED  BY <1>1, <1>3, <1>4 DEF ThreadStep, CountingStep

(* What is left after a step of a statement with the right links.          *)
LEMMA NextStep ==
  ASSUME SafeInv, LinkInv, Counts, NEW t \in Threads, todo[t] # <<>>
  PROVE  /\ Tail(todo[t]) \in Seq(Steps)
         /\ Tail(todo[t]) # <<>> => <<todo[t][1], Tail(todo[t])[1]>> \in Links
         /\ Tail(todo[t]) = <<>> <=> todo[t][1] = "stream"
<1>1. todo[t] \in Seq(Steps) /\ Linked(todo[t]) /\ Shape(todo[t])
  BY DEF SafeInv, TypeOK, LinkInv, StepInv
<1>2. /\ Tail(todo[t]) \in Seq(Steps)
      /\ Tail(todo[t]) # <<>> => <<todo[t][1], Tail(todo[t])[1]>> \in Links
      /\ todo[t][1] # "stream" => Tail(todo[t]) # <<>>
  BY <1>1, LinkedTail, ShapeTail
<1>3. \A x : <<"stream", x>> \notin Links
  BY DEF Links, Ahead
<1> QED  BY <1>2, <1>3

-----------------------------------------------------------------------------
(* One step of an execution, k occasions after the start.                  *)
Stands(t, k) ==
  /\ todo[t] = <<>> => Rest(k)
  /\ todo[t] # <<>> => Phase(t, todo[t][1], k)

LEMMA StepFacts ==
  ASSUME SafeInv, LinkInv, Counts, program' = program, NEW t \in Threads, ThreadStep(t)
  PROVE  /\ program.n \in Nat \ {0} /\ todo[t] # <<>> /\ todo \in [Threads -> Seq(Steps)]
         /\ mod_n \in Int /\ occurrences \in Ints
         /\ occ_reg \in [Threads -> Ints] /\ mod_reg \in [Threads -> Int]
         /\ occasions \in Nat /\ nth \in [Threads -> Nat]
         /\ Continue(t, TRUE) => todo'[t] = Tail(todo[t])
         /\ \A b \in BOOLEAN : Continue(t, b) => todo'[t] = IF b THEN Tail(todo[t]) ELSE <<>>
         /\ Expansion.stream = "message"
         /\ \A k \in Nat : Cycle(k)' = Cycle(k)
         /\ messages' = messages /\ Numbered => Numbered'
         /\ \A m : messages' = messages \cup {m} /\ Numbered /\ m.ctr = Turn(m.nth) => Numbered'
<1>1. program \in Programs /\ program \in Program /\ program.n \in Nat \ {0}
  BY LogAssumption DEF SafeInv, TypeOK, Program
<1>0. /\ todo \in [Threads -> Seq(Steps)] /\ mod_n \in Ints /\ occurrences \in Ints
      /\ occ_reg \in [Threads -> Ints] /\ mod_reg \in [Threads -> Ints] /\ occasions \in Nat
      /\ nth \in [Threads -> 0 .. occasions]
  BY DEF SafeInv, TypeOK
<1>2. /\ todo \in [Threads -> Seq(Steps)] /\ mod_n \in Int /\ occurrences \in Ints
      /\ occ_reg \in [Threads -> Ints] /\ mod_reg \in [Threads -> Int] /\ occasions \in Nat
      /\ nth \in [Threads -> 0 .. occasions]
  <2>1. Ints \subseteq Int
    BY DEF Ints
  <2> QED  BY <1>0, <2>1
<1>3. nth \in [Threads -> Nat]
  BY <1>2
<1>4. todo[t] # <<>>
  BY <1>2, StepAt
<1>5. ASSUME NEW b \in BOOLEAN, Continue(t, b)
      PROVE  todo'[t] = IF b THEN Tail(todo[t]) ELSE <<>>
  BY <1>2, <1>5 DEF Continue
<1>6. Expansion.stream = "message"
  BY <1>1, LinkedExpansion
<1>7. \A k \in Nat : Cycle(k)' = Cycle(k)
  BY DEF Cycle
<1>8. messages' = messages /\ Numbered => Numbered'
  BY DEF Numbered, Turn
<1>9. ASSUME NEW m, messages' = messages \cup {m}, Numbered, m.ctr = Turn(m.nth)
      PROVE  Numbered'
  BY <1>9 DEF Numbered, Turn
<1> QED  BY <1>1, <1>2, <1>3, <1>4, <1>5, <1>6, <1>7, <1>8, <1>9

LEMMA MessageSent ==
  ASSUME NEW t \in Threads, SendMessage(t)
  PROVE  /\ Continue(t, TRUE) /\ UNCHANGED <<occurrences, mod_n, occ_reg, nth, occasions>>
         /\ \E m : messages' = messages \cup {m} /\ m.nth = nth[t]
                     /\ m.ctr \in {occ_reg[t], occurrences}
<1>1. PICK ctr \in {occ_reg[t], occurrences} :
        messages' = messages \cup
          {[nth |-> nth[t], ctr |-> ctr, severity |-> Expansion.severity]}
  BY DEF SendMessage, Reread
<1>2. \E m : messages' = messages \cup {m} /\ m.nth = nth[t] /\ m.ctr \in {occ_reg[t], occurrences}
  <2> DEFINE m == [nth |-> nth[t], ctr |-> ctr, severity |-> Expansion.severity]
  <2>1. m.nth = nth[t] /\ m.ctr = ctr /\ messages' = messages \cup {m}
    BY <1>1
  <2> HIDE DEF m
  <2> QED  BY <2>1
<1>3. Continue(t, TRUE) /\ UNCHANGED <<occurrences, mod_n, occ_reg, nth, occasions>>
  BY DEF SendMessage, site
<1> QED  BY <1>2, <1>3

LEMMA EveryStep ==
  ASSUME SafeInv, LinkInv, Counts, Countable, program.macro = "LOG_EVERY_N", program' = program,
         NEW t \in Threads, ThreadStep(t), NEW k \in Nat, occasions = k, Stands(t, k)
  PROVE  \E j \in {k, k + 1} : occasions' = j /\ Stands(t, j)'
<1> DEFINE s == todo[t][1]
           r == Tail(todo[t])
<1>1. Counts
  OBVIOUS
<1>2. /\ program.n \in Nat \ {0} /\ todo[t] # <<>> /\ todo \in [Threads -> Seq(Steps)]
      /\ mod_n \in Int /\ occurrences \in Ints
      /\ occ_reg \in [Threads -> Ints] /\ mod_reg \in [Threads -> Int]
      /\ nth \in [Threads -> Nat]
      /\ Continue(t, TRUE) => todo'[t] = r
      /\ \A b \in BOOLEAN : Continue(t, b) => todo'[t] = IF b THEN r ELSE <<>>
      /\ Expansion.stream = "message" /\ (\A j \in Nat : Cycle(j)' = Cycle(j))
      /\ messages' = messages /\ Numbered => Numbered'
      /\ \A m : messages' = messages \cup {m} /\ Numbered /\ m.ctr = Turn(m.nth) => Numbered'
  BY <1>1, StepFacts
<1>3. EveryPhase(t, s, k)
  BY <1>2 DEF Stands, Phase
<1>4. /\ s = "load_occ" => r # <<>> /\ r[1] = "store_occ"
      /\ s = "store_occ" => r # <<>> /\ r[1] = "load_mod"
      /\ s = "load_mod" => r # <<>> /\ r[1] = "store_mod"
      /\ s = "store_mod" => r # <<>> /\ r[1] = "wrap_mod"
      /\ s = "wrap_mod" => r # <<>> /\ r[1] = "test_mod"
      /\ s = "test_mod" => r # <<>> /\ r[1] = "stream"
      /\ s = "stream" => r = <<>>
  <2>1. /\ r # <<>> => <<s, r[1]>> \in Links
        /\ r = <<>> <=> s = "stream"
    BY <1>1, <1>2, NextStep
  <2>2. Links = {<<"load_occ", "store_occ">>, <<"store_occ", "load_mod">>,
                 <<"load_mod", "store_mod">>, <<"store_mod", "wrap_mod">>,
                 <<"wrap_mod", "test_mod">>, <<"test_mod", "stream">>}
    BY DEF Links
  <2> HIDE DEF r, s
  <2> QED  BY <2>1, <2>2
<1>5. /\ s = "load_occ" => LoadOccurrences(t)
      /\ s = "store_occ" => StoreOccurrences(t)
      /\ s = "load_mod" => LoadMod(t)
      /\ s = "store_mod" => StoreMod(t)
      /\ s = "wrap_mod" => WrapMod(t)
      /\ s = "test_mod" => TestMod(t)
      /\ s = "stream" => SendMessage(t) \/ KeepMessage(t) \/ DiscardMessage(t)
  BY <1>2, StepAt
<1>6. /\ messages' = messages /\ Logged(k) => Logged(k)'
      /\ messages' = messages /\ k # 0 /\ Logged(k - 1) => Logged(k - 1)'
      /\ messages' = messages /\ k # 0 /\ Logged(k - 1) /\ ~Due(k) => Logged(k)'
      /\ \A m : messages' = messages \cup {m} /\ m.nth = k /\ k # 0 /\ Logged(k - 1) /\ Due(k)
                  => Logged(k)'
  BY LoggedMoves
<1>7. /\ Turn(k) \in Ints /\ Wrapped(Turn(k) + 1) = Turn(k + 1)
      /\ Turn(k)' = Turn(k) /\ Turn(k + 1)' = Turn(k + 1)
  BY TurnStep DEF Turn
<1>8. /\ Cycle(k) \in Int /\ (k # 0 => (Cycle(k) = 1 <=> Due(k)))
      /\ k # 0 => /\ Cycle(k - 1) \in Int
                  /\ Cycle(k) = IF Cycle(k - 1) + 1 > program.n
                                THEN Cycle(k - 1) + 1 - program.n ELSE Cycle(k - 1) + 1
  <2>1. k # 0 => k - 1 \in Nat /\ (k - 1) + 1 = k
    OBVIOUS
  <2>2. k # 0 => /\ Cycle(k - 1) \in 0 .. program.n
                 /\ Cycle(k) = IF Cycle(k - 1) + 1 > program.n
                               THEN Cycle(k - 1) + 1 - program.n ELSE Cycle(k - 1) + 1
    BY <1>2, <2>1, CycleStep
  <2>3. Cycle(k) \in 0 .. program.n /\ (k # 0 => (Cycle(k) = 1 <=> k % program.n = 1 % program.n))
    BY <1>2, CycleStep
  <2> QED  BY <1>2, <2>2, <2>3 DEF Due
<1>9. Due(k)' <=> Due(k)
  BY DEF Due
<1>w. /\ IntMax \in Nat
      /\ k # 0 => /\ Cycle(k - 1) \in 0 .. program.n
                  /\ Wrapped(Cycle(k - 1) + 1) = Cycle(k - 1) + 1
                  /\ Wrapped((Cycle(k - 1) + 1) - program.n) = (Cycle(k - 1) + 1) - program.n
                       \/ ~(Cycle(k - 1) + 1 > program.n)
  <2>1. IntMax \in Nat /\ program.n < IntMax
    BY LogAssumption DEF Countable
  <2>2. k # 0 => k - 1 \in Nat
    OBVIOUS
  <2>3. k # 0 => Cycle(k - 1) \in 0 .. program.n
    BY <1>2, <2>2, CycleStep
  <2> QED  BY <1>2, <2>1, <2>3 DEF Wrapped
<1> HIDE DEF s, r
<1> USE DEF rest, site, history, output, Stands, Phase, EveryPhase
<1>10. CASE s = "load_occ"
  <2>1. /\ LoadOccurrences(t) /\ Continue(t, TRUE) /\ messages' = messages
        /\ UNCHANGED <<occurrences, mod_n, occasions>> /\ occ_reg'[t] = occurrences
    BY <1>2, <1>5, <1>10 DEF LoadOccurrences
  <2>2. todo'[t] # <<>> /\ todo'[t][1] = "store_occ" /\ occasions' = k
    BY <1>2, <1>4, <1>10, <2>1
  <2>3. EveryPhase(t, "store_occ", k)'
    BY <1>2, <1>3, <1>6, <1>7, <1>10, <2>1
  <2> QED  BY <2>2, <2>3
<1>11. CASE s = "store_occ"
  <2>1. /\ StoreOccurrences(t) /\ Continue(t, TRUE) /\ messages' = messages
        /\ UNCHANGED <<mod_n, occasions>> /\ occurrences' = Wrapped(occ_reg[t] + 1)
        /\ occ_reg'[t] = occurrences'
    BY <1>2, <1>5, <1>11 DEF StoreOccurrences
  <2>2. todo'[t] # <<>> /\ todo'[t][1] = "load_mod" /\ occasions' = k
    BY <1>2, <1>4, <1>11, <2>1
  <2>3. EveryPhase(t, "load_mod", k)'
    BY <1>2, <1>3, <1>6, <1>7, <1>11, <2>1
  <2> QED  BY <2>2, <2>3
<1>12. CASE s = "load_mod"
  <2>1. /\ LoadMod(t) /\ Continue(t, TRUE) /\ messages' = messages
        /\ UNCHANGED <<mod_n, occurrences, occ_reg>> /\ mod_reg'[t] = mod_n
        /\ occasions' = k + 1 /\ nth'[t] = k + 1
    BY <1>2, <1>5, <1>12 DEF LoadMod, NewOccasion
  <2>2. todo'[t] # <<>> /\ todo'[t][1] = "store_mod"
    BY <1>2, <1>4, <1>12, <2>1
  <2>3. k + 1 # 0 /\ (k + 1) - 1 = k
    OBVIOUS
  <2>4. EveryPhase(t, "store_mod", k + 1)'
    BY <1>2, <1>3, <1>6, <1>7, <1>12, <2>1, <2>3
  <2> QED  BY <2>1, <2>2, <2>4
<1>13. CASE s = "store_mod"
  <2>1. /\ StoreMod(t) /\ Continue(t, TRUE) /\ messages' = messages
        /\ UNCHANGED <<occurrences, occ_reg, nth, occasions>> /\ mod_n' = Wrapped(mod_reg[t] + 1)
        /\ mod_reg'[t] = mod_n'
    BY <1>2, <1>5, <1>13 DEF StoreMod
  <2>2. todo'[t] # <<>> /\ todo'[t][1] = "wrap_mod" /\ occasions' = k
    BY <1>2, <1>4, <1>13, <2>1
  <2>3. k # 0 /\ k - 1 \in Nat /\ Cycle(k - 1)' = Cycle(k - 1) /\ mod_reg[t] = Cycle(k - 1)
    BY <1>2, <1>3, <1>13
  <2>4. mod_n' = Cycle(k - 1) + 1
    BY <1>w, <2>1, <2>3
  <2>5. EveryPhase(t, "wrap_mod", k)'
    BY <1>2, <1>3, <1>6, <1>7, <1>13, <2>1, <2>3, <2>4
  <2> QED  BY <2>2, <2>5
<1>14. CASE s = "wrap_mod"
  <2>1. /\ WrapMod(t) /\ Continue(t, TRUE) /\ messages' = messages
        /\ UNCHANGED <<occurrences, occ_reg, nth, occasions>>
        /\ mod_reg[t] > program.n => /\ mod_n' \in {Wrapped(mod_reg[t] - program.n),
                                                    Wrapped(mod_n - program.n)}
                                     /\ mod_reg'[t] = mod_n'
        /\ ~(mod_reg[t] > program.n) => UNCHANGED <<mod_n, mod_reg>>
    BY <1>2, <1>5, <1>14 DEF WrapMod, Reread
  <2>2. todo'[t] # <<>> /\ todo'[t][1] = "test_mod" /\ occasions' = k
    BY <1>2, <1>4, <1>14, <2>1
  <2>3. mod_n' = Cycle(k) /\ mod_reg'[t] = mod_n'
    <3>1. mod_reg[t] = Cycle(k - 1) + 1 /\ mod_n = Cycle(k - 1) + 1 /\ k # 0
      BY <1>3, <1>14
    <3> QED  BY <1>2, <1>8, <1>w, <2>1, <3>1, SMTT(30)
  <2>4. EveryPhase(t, "test_mod", k)'
    BY <1>2, <1>3, <1>6, <1>7, <1>14, <2>1, <2>3
  <2> QED  BY <2>2, <2>4
<1>15. CASE s = "test_mod"
  <2>1. /\ TestMod(t) /\ messages' = messages
        /\ UNCHANGED <<occurrences, mod_n, mod_reg, occ_reg, nth, occasions>>
        /\ \E x \in {mod_reg[t], mod_n} : Continue(t, x = 1)
    BY <1>2, <1>5, <1>15 DEF TestMod, Reread
  <2>2. mod_reg[t] = Cycle(k) /\ mod_n = Cycle(k)
    BY <1>3, <1>15
  <2>3. todo'[t] = IF Due(k) THEN r ELSE <<>>
    BY <1>2, <1>3, <1>8, <1>15, <2>1, <2>2
  <2>4. CASE Due(k)
    <3>1. todo'[t] # <<>> /\ todo'[t][1] = "stream" /\ occasions' = k
      BY <1>4, <1>15, <2>1, <2>3, <2>4
    <3>2. EveryPhase(t, "stream", k)'
      BY <1>2, <1>3, <1>6, <1>7, <1>9, <1>15, <2>1, <2>4
    <3> QED  BY <3>1, <3>2
  <2>5. CASE ~Due(k)
    <3>1. todo'[t] = <<>> /\ occasions' = k
      BY <2>1, <2>3, <2>5
    <3>2. Rest(k)'
      BY <1>2, <1>3, <1>6, <1>7, <1>15, <2>1, <2>5 DEF Rest
    <3> QED  BY <3>1, <3>2
  <2> QED  BY <2>4, <2>5
<1>16. CASE s = "stream"
  <2>1. SendMessage(t)
    BY <1>2, <1>5, <1>16 DEF KeepMessage, DiscardMessage
  <2>2. /\ Continue(t, TRUE) /\ UNCHANGED <<occurrences, mod_n, occ_reg, nth, occasions>>
        /\ \E m : messages' = messages \cup {m} /\ m.nth = nth[t]
                    /\ m.ctr \in {occ_reg[t], occurrences}
    BY <2>1, MessageSent
  <2>3. PICK m : messages' = messages \cup {m} /\ m.nth = k /\ m.ctr = Turn(m.nth)
    BY <1>3, <1>16, <2>2
  <2>4. todo'[t] = <<>> /\ occasions' = k
    BY <1>2, <1>4, <1>16, <2>2
  <2>5. Logged(k)' /\ Numbered'
    BY <1>2, <1>3, <1>6, <1>16, <2>3
  <2>6. Rest(k)'
    BY <1>2, <1>3, <1>7, <1>16, <2>2, <2>5 DEF Rest
  <2> QED  BY <2>4, <2>6
<1> QED  BY <1>3, <1>10, <1>11, <1>12, <1>13, <1>14, <1>15, <1>16

LEMMA FirstStep ==
  ASSUME SafeInv, LinkInv, Counts, Countable, program.macro = "LOG_FIRST_N", program' = program,
         NEW t \in Threads, ThreadStep(t), NEW k \in Nat, occasions = k, Stands(t, k)
  PROVE  \E j \in {k, k + 1} : occasions' = j /\ Stands(t, j)'
<1> DEFINE s == todo[t][1]
           r == Tail(todo[t])
<1>1. Counts
  OBVIOUS
<1>2. /\ program.n \in Nat \ {0} /\ todo[t] # <<>> /\ todo \in [Threads -> Seq(Steps)]
      /\ occurrences \in Ints /\ occ_reg \in [Threads -> Ints] /\ nth \in [Threads -> Nat]
      /\ Continue(t, TRUE) => todo'[t] = r
      /\ \A b \in BOOLEAN : Continue(t, b) => todo'[t] = IF b THEN r ELSE <<>>
      /\ Expansion.stream = "message"
      /\ messages' = messages /\ Numbered => Numbered'
      /\ \A m : messages' = messages \cup {m} /\ Numbered /\ m.ctr = Turn(m.nth) => Numbered'
  BY <1>1, StepFacts
<1>3. FirstPhase(t, s, k)
  BY <1>2 DEF Stands, Phase
<1>4. /\ s = "load_first" => r # <<>> /\ r[1] = "store_occ"
      /\ s = "store_occ" => r # <<>> /\ r[1] = "test_first"
      /\ s = "test_first" => r # <<>> /\ r[1] = "stream"
      /\ s = "stream" => r = <<>>
      /\ s = "load_first" => Tail(r) # <<>> /\ Tail(r)[1] = "test_first"
  <2>1. /\ r # <<>> => <<s, r[1]>> \in Links
        /\ r = <<>> <=> s = "stream"
    BY <1>1, <1>2, NextStep
  <2>2. Links = {<<"load_first", "store_occ">>, <<"store_occ", "test_first">>,
                 <<"test_first", "stream">>}
    BY DEF Links
  <2>3. Linked(r) /\ Shape(r) /\ r \in Seq(BuildSteps)
    BY <1>1, <1>2, LinkedTail, ShapeTail DEF LinkInv, SafeInv, StepInv
  <2>4. r # <<>> => /\ Tail(r) # <<>> => <<r[1], Tail(r)[1]>> \in Links
                    /\ r[1] # "stream" => Tail(r) # <<>>
    BY <2>3, LinkedTail, ShapeTail
  <2> HIDE DEF r, s
  <2>5. s = "load_first" => r # <<>> /\ r[1] = "store_occ"
    BY <2>1, <2>2
  <2>6. s = "load_first" => Tail(r) # <<>> /\ <<"store_occ", Tail(r)[1]>> \in Links
    BY <2>4, <2>5
  <2>7. s = "load_first" => Tail(r)[1] = "test_first"
    BY <2>2, <2>6
  <2> QED  BY <2>1, <2>2, <2>5, <2>6, <2>7
<1>5. /\ s = "load_first" => LoadFirst(t)
      /\ s = "store_occ" => StoreOccurrences(t)
      /\ s = "test_first" => TestFirst(t)
      /\ s = "stream" => SendMessage(t) \/ KeepMessage(t) \/ DiscardMessage(t)
  BY <1>2, StepAt
<1>6. /\ messages' = messages /\ Logged(k) => Logged(k)'
      /\ messages' = messages /\ k # 0 /\ Logged(k - 1) => Logged(k - 1)'
      /\ messages' = messages /\ k # 0 /\ Logged(k - 1) /\ ~Due(k) => Logged(k)'
      /\ \A m : messages' = messages \cup {m} /\ m.nth = k /\ k # 0 /\ Logged(k - 1) /\ Due(k)
                  => Logged(k)'
  BY LoggedMoves
<1>7. /\ IntMax \in Nat \ {0} /\ program.n < IntMax
      /\ k <= IntMax => Turn(k) = k
      /\ k - 1 <= program.n /\ k # 0 => Wrapped((k - 1) + 1) = k
  <2>1. IntMax \in Nat \ {0} /\ program.n < IntMax
    BY LogAssumption DEF Countable
  <2>2. k <= IntMax => Turn(k) = k
    BY TurnStep
  <2>3. k - 1 <= program.n /\ k # 0 => (k - 1) + 1 = k /\ ~(k > IntMax)
    BY <1>2, <2>1
  <2> QED  BY <2>1, <2>2, <2>3 DEF Wrapped
<1>8. /\ Due(k) <=> k <= program.n
      /\ Due(k)' <=> Due(k)
      /\ Few(k)' = Few(k) /\ Few(k + 1)' = Few(k + 1)
  BY DEF Due, Few
<1> HIDE DEF s, r
<1> USE DEF rest, site, history, output, Stands, Phase, FirstPhase
<1>10. CASE s = "load_first"
  <2>1. /\ LoadFirst(t) /\ messages' = messages /\ occurrences' = occurrences
        /\ occ_reg'[t] = occurrences /\ occasions' = k + 1 /\ nth'[t] = k + 1
    BY <1>2, <1>5, <1>10 DEF LoadFirst, NewOccasion
  <2>2. todo'[t] = IF occurrences <= program.n THEN r ELSE Tail(r)
    BY <1>2, <2>1 DEF LoadFirst, r
  <2>3. Logged(k)' /\ Numbered' /\ occurrences = Few(k) /\ k + 1 # 0 /\ (k + 1) - 1 = k
    BY <1>2, <1>3, <1>6, <1>10, <2>1
  <2>4. CASE occurrences <= program.n
    <3>1. k <= program.n /\ occurrences = k
      BY <1>2, <2>3, <2>4 DEF Few
    <3>2. FirstPhase(t, "store_occ", k + 1)'
      BY <2>1, <2>3, <3>1
    <3> QED  BY <1>4, <1>10, <2>1, <2>2, <2>4, <3>2
  <2>5. CASE ~(occurrences <= program.n)
    <3>1. ~(k <= program.n) /\ occurrences = Few(k + 1)
      BY <1>2, <2>3, <2>5 DEF Few
    <3>2. FirstPhase(t, "test_first", k + 1)'
      BY <1>8, <2>1, <2>3, <3>1
    <3> QED  BY <1>4, <1>10, <2>1, <2>2, <2>5, <3>2
  <2> QED  BY <2>4, <2>5
<1>11. CASE s = "store_occ"
  <2>1. /\ StoreOccurrences(t) /\ Continue(t, TRUE) /\ messages' = messages
        /\ UNCHANGED <<nth, occasions>> /\ occurrences' = Wrapped(occ_reg[t] + 1)
        /\ occ_reg'[t] = occurrences'
    BY <1>2, <1>5, <1>11 DEF StoreOccurrences
  <2>2. todo'[t] # <<>> /\ todo'[t][1] = "test_first" /\ occasions' = k
    BY <1>2, <1>4, <1>11, <2>1
  <2>3. k # 0 /\ k - 1 <= program.n /\ occ_reg[t] = k - 1 /\ nth[t] = k /\ Logged(k - 1)
    BY <1>3, <1>11
  <2>4. occurrences' = k /\ Few(k) = k
    BY <1>2, <1>7, <2>1, <2>3 DEF Few
  <2>5. FirstPhase(t, "test_first", k)'
    BY <1>2, <1>3, <1>6, <1>8, <2>1, <2>3, <2>4
  <2> QED  BY <2>2, <2>5
<1>12. CASE s = "test_first"
  <2>1. /\ TestFirst(t) /\ messages' = messages
        /\ UNCHANGED <<occurrences, occ_reg, nth, occasions>>
        /\ \E x \in {occ_reg[t], occurrences} : Continue(t, x <= program.n)
    BY <1>2, <1>5, <1>12 DEF TestFirst, Reread
  <2>2. occ_reg[t] = Few(k) /\ occurrences = Few(k)
    BY <1>3, <1>12
  <2>3. Few(k) <= program.n <=> Due(k)
    BY <1>2, <1>8 DEF Few
  <2>4. todo'[t] = IF Due(k) THEN r ELSE <<>>
    <3>1. Continue(t, Few(k) <= program.n) /\ (Few(k) <= program.n) \in BOOLEAN
      BY <2>1, <2>2
    <3>2. todo'[t] = IF Few(k) <= program.n THEN r ELSE <<>>
      BY <1>2, <3>1
    <3> QED  BY <2>3, <3>2
  <2>5. CASE Due(k)
    <3>1. todo'[t] # <<>> /\ todo'[t][1] = "stream" /\ occasions' = k
      BY <1>4, <1>12, <2>1, <2>4, <2>5
    <3>2. FirstPhase(t, "stream", k)'
      BY <1>2, <1>3, <1>6, <1>8, <1>12, <2>1, <2>5
    <3> QED  BY <3>1, <3>2
  <2>6. CASE ~Due(k)
    <3>1. todo'[t] = <<>> /\ occasions' = k
      BY <2>1, <2>4, <2>6
    <3>2. Rest(k)'
      BY <1>2, <1>3, <1>6, <1>8, <1>12, <2>1, <2>6 DEF Rest
    <3> QED  BY <3>1, <3>2
  <2> QED  BY <2>5, <2>6
<1>13. CASE s = "stream"
  <2>1. SendMessage(t)
    BY <1>2, <1>5, <1>13 DEF KeepMessage, DiscardMessage
  <2>2. /\ Continue(t, TRUE) /\ UNCHANGED <<occurrences, occ_reg, nth, occasions>>
        /\ \E m : messages' = messages \cup {m} /\ m.nth = nth[t]
                    /\ m.ctr \in {occ_reg[t], occurrences}
    BY <2>1, MessageSent
  <2>3. occ_reg[t] = Turn(k) /\ occurrences = Turn(k)
    BY <1>2, <1>3, <1>7, <1>8, <1>13 DEF Few
  <2>4. PICK m : messages' = messages \cup {m} /\ m.nth = k /\ m.ctr = Turn(m.nth)
    BY <1>3, <1>13, <2>2, <2>3
  <2>5. todo'[t] = <<>> /\ occasions' = k
    BY <1>2, <1>4, <1>13, <2>2
  <2>6. Logged(k)' /\ Numbered'
    BY <1>2, <1>3, <1>6, <1>13, <2>4
  <2>7. Rest(k)'
    BY <1>2, <1>3, <1>8, <1>13, <2>2, <2>6 DEF Rest
  <2> QED  BY <2>5, <2>7
<1> QED  BY <1>3, <1>10, <1>11, <1>12, <1>13

LEMMA IfStep ==
  ASSUME SafeInv, LinkInv, Counts, program.macro \notin {"LOG_EVERY_N", "LOG_FIRST_N"},
         program' = program, NEW t \in Threads, ThreadStep(t),
         NEW k \in Nat, occasions = k, Stands(t, k)
  PROVE  \E j \in {k, k + 1} : occasions' = j /\ Stands(t, j)'
<1> DEFINE s == todo[t][1]
           r == Tail(todo[t])
<1>2. /\ program.n \in Nat \ {0} /\ todo[t] # <<>> /\ todo \in [Threads -> Seq(Steps)]
      /\ mod_n \in Int /\ mod_reg \in [Threads -> Int] /\ nth \in [Threads -> Nat]
      /\ Continue(t, TRUE) => todo'[t] = r
      /\ \A b \in BOOLEAN : Continue(t, b) => todo'[t] = IF b THEN r ELSE <<>>
      /\ Expansion.stream = "message"
  BY StepFacts
<1>3. IfPhase(t, s, k)
  BY <1>2 DEF Stands, Phase
<1>4. /\ s \in Ahead => r # <<>> /\ r[1] \in Ahead \cup {"load_mod"}
      /\ s = "load_mod" => r # <<>> /\ r[1] = "store_modulo"
      /\ s = "store_modulo" => r # <<>> /\ r[1] = "stream"
      /\ s = "stream" => r = <<>>
      /\ r \in Seq(Steps)
  <2>1. /\ r \in Seq(Steps)
        /\ r # <<>> => <<s, r[1]>> \in Links
        /\ r = <<>> <=> s = "stream"
    BY <1>2, NextStep
  <2>2. Links = (Ahead \X (Ahead \cup {"load_mod"}))
                  \cup {<<"load_mod", "store_modulo">>, <<"store_modulo", "stream">>}
    BY DEF Links
  <2>3. "load_mod" \notin Ahead /\ "store_modulo" \notin Ahead /\ "stream" \notin Ahead
    BY DEF Ahead
  <2> HIDE DEF r, s
  <2> QED  BY <2>1, <2>2, <2>3
<1>5. /\ s = "load_occ" => LoadOccurrences(t)
      /\ s = "store_occ" => StoreOccurrences(t)
      /\ s = "load_mod" => LoadMod(t)
      /\ s = "store_modulo" => StoreModulo(t)
      /\ s = "stream" => SendMessage(t) \/ KeepMessage(t) \/ DiscardMessage(t)
      /\ s \in {"condition", "FLAGS_v", "flag", "pointer", "InitVLOG3__"} =>
           Condition(t) \/ VerboseStep(t)
  BY <1>2, StepAt
<1>6. /\ messages' = messages /\ Logged(k) => Logged(k)'
      /\ messages' = messages /\ k # 0 /\ Logged(k - 1) => Logged(k - 1)'
      /\ messages' = messages /\ k # 0 /\ Logged(k - 1) /\ ~Due(k) => Logged(k)'
      /\ \A m : messages' = messages \cup {m} /\ m.nth = k /\ k # 0 /\ Logged(k - 1) /\ Due(k)
                  => Logged(k)'
  BY LoggedMoves
<1>8. /\ Due(k) <=> k % program.n = 1 % program.n
      /\ Due(k)' <=> Due(k)
      /\ k # 0 => k % program.n = (((k - 1) % program.n) + 1) % program.n
  <2>1. k # 0 => k - 1 \in Nat /\ (k - 1) + 1 = k
    OBVIOUS
  <2>2. k # 0 => k % program.n = (((k - 1) % program.n) + 1) % program.n
    BY <1>2, <2>1, ModStep
  <2> QED  BY <2>2 DEF Due
<1> USE DEF rest, site, history, output, Stands, Phase, IfPhase
<1>10. CASE s \in Ahead
  <2>1. /\ messages' = messages /\ UNCHANGED <<mod_n, occasions>>
        /\ \/ todo'[t] \in {<<>>, r}
           \/ s = "pointer" /\ todo'[t] = <<"InitVLOG3__">> \o r
    <3>1. CASE s = "load_occ"
      BY <1>2, <1>5, <3>1 DEF LoadOccurrences
    <3>2. CASE s = "store_occ"
      BY <1>2, <1>5, <3>2 DEF StoreOccurrences
    <3>3. CASE s \in {"condition", "FLAGS_v", "flag", "pointer", "InitVLOG3__"}
      <4>1. Condition(t) \/ VerboseStep(t)
        BY <1>5, <3>3
      <4>2. messages' = messages /\ UNCHANGED <<mod_n, occasions>>
        BY <4>1 DEF Condition, VerboseStep, TestFlag, TestSite, TestSiteUninitialized,
                    InitVLOG3__
      <4>3. CASE TestSiteUninitialized(t)
        <5>1. s = "pointer"
          BY <1>2, <4>3 DEF TestSiteUninitialized, At
        <5>2. todo' = [todo EXCEPT ![t] = IF vlocal # "uninitialized" THEN Tail(todo[t])
                                          ELSE <<"InitVLOG3__">> \o Tail(todo[t])]
          BY <4>3, Zenon DEF TestSiteUninitialized
        <5> QED  BY <1>2, <4>2, <5>1, <5>2
      <4>4. CASE Condition(t) \/ TestFlag(t) \/ TestSite(t) \/ InitVLOG3__(t)
        <5>1. \E x \in {<<>>, Tail(todo[t])} : todo' = [todo EXCEPT ![t] = x]
          BY <4>4 DEF Condition, TestFlag, TestSite, InitVLOG3__, Continue
        <5> QED  BY <1>2, <4>2, <5>1
      <4> QED  BY <4>1, <4>3, <4>4 DEF VerboseStep
    <3> QED  BY <1>10, <3>1, <3>2, <3>3 DEF Ahead
  <2>2. todo'[t] # <<>> => todo'[t][1] \in Ahead \cup {"load_mod"}
    <3>1. (<<"InitVLOG3__">> \o r)[1] = "InitVLOG3__"
      <4>1. PICK q \in Seq(Steps) : q = r
        BY <1>4
      <4> QED  BY <4>1
    <3> HIDE DEF r
    <3> QED  BY <1>4, <1>10, <2>1, <3>1 DEF Ahead
  <2>3. Logged(k)' /\ mod_n' = k % program.n /\ occasions' = k
    BY <1>3, <1>6, <1>10, <2>1
  <2>4. \A x \in Ahead \cup {"load_mod"} : IfPhase(t, x, k)'
    BY <2>3 DEF Ahead
  <2>5. Rest(k)'
    BY <2>3 DEF Rest
  <2> QED  BY <2>2, <2>3, <2>4, <2>5
<1> HIDE DEF s, r
<1>11. CASE s = "load_mod"
  <2>1. /\ LoadMod(t) /\ Continue(t, TRUE) /\ messages' = messages
        /\ mod_n' = mod_n /\ mod_reg'[t] = mod_n /\ occasions' = k + 1 /\ nth'[t] = k + 1
    BY <1>2, <1>5, <1>11 DEF LoadMod, NewOccasion
  <2>2. todo'[t] # <<>> /\ todo'[t][1] = "store_modulo"
    BY <1>2, <1>4, <1>11, <2>1
  <2>3. k + 1 # 0 /\ (k + 1) - 1 = k
    OBVIOUS
  <2>4. IfPhase(t, "store_modulo", k + 1)'
    BY <1>3, <1>6, <1>11, <2>1, <2>3 DEF Ahead
  <2> QED  BY <2>1, <2>2, <2>4
<1>12. CASE s = "store_modulo"
  <2>1. /\ StoreModulo(t) /\ messages' = messages /\ UNCHANGED <<nth, occasions>>
        /\ mod_n' = (mod_reg[t] + 1) % program.n /\ Continue(t, mod_n' = 1 % program.n)
    BY <1>2, <1>5, <1>12 DEF StoreModulo
  <2>2. k # 0 /\ nth[t] = k /\ Logged(k - 1) /\ mod_reg[t] = (k - 1) % program.n
    BY <1>3, <1>12
  <2>3. mod_n' = k % program.n
    BY <1>8, <2>1, <2>2
  <2>4. todo'[t] = IF Due(k) THEN r ELSE <<>>
    BY <1>2, <1>8, <2>1, <2>3
  <2>5. CASE Due(k)
    <3>1. todo'[t] # <<>> /\ todo'[t][1] = "stream" /\ occasions' = k
      BY <1>4, <1>12, <2>1, <2>4, <2>5
    <3>2. IfPhase(t, "stream", k)'
      BY <1>6, <1>8, <2>1, <2>2, <2>3, <2>5 DEF Ahead
    <3> QED  BY <3>1, <3>2
  <2>6. CASE ~Due(k)
    <3>1. todo'[t] = <<>> /\ occasions' = k
      BY <2>1, <2>4, <2>6
    <3>2. Rest(k)'
      BY <1>6, <2>1, <2>2, <2>3, <2>6 DEF Rest
    <3> QED  BY <3>1, <3>2
  <2> QED  BY <2>5, <2>6
<1>13. CASE s = "stream"
  <2>1. SendMessage(t)
    BY <1>2, <1>5, <1>13 DEF KeepMessage, DiscardMessage
  <2>2. /\ Continue(t, TRUE) /\ UNCHANGED <<mod_n, nth, occasions>>
        /\ \E m : messages' = messages \cup {m} /\ m.nth = nth[t]
    BY <2>1, MessageSent
  <2>3. k # 0 /\ nth[t] = k /\ Logged(k - 1) /\ mod_n = k % program.n /\ Due(k)
    BY <1>3, <1>13
  <2>4. todo'[t] = <<>> /\ occasions' = k
    BY <1>2, <1>4, <1>13, <2>2
  <2>5. Logged(k)'
    BY <1>6, <2>2, <2>3
  <2>6. Rest(k)'
    BY <2>2, <2>3, <2>5 DEF Rest
  <2> QED  BY <2>4, <2>6
<1> QED  BY <1>3, <1>10, <1>11, <1>12, <1>13

-----------------------------------------------------------------------------
LEMMA CountStays ==
  ASSUME UNCHANGED <<program, messages, occurrences, mod_n, occ_reg, mod_reg, nth>>,
         NEW k \in Nat, NEW t, NEW s
  PROVE  /\ Rest(k) => Rest(k)'
         /\ Phase(t, s, k) => Phase(t, s, k)'
<1> USE DEF Logged, Due, Numbered, Turn, Cycle, Few
<1>1. Rest(k) => Rest(k)'
  BY DEF Rest
<1>2. EveryPhase(t, s, k) => EveryPhase(t, s, k)'
  BY DEF EveryPhase
<1>3. FirstPhase(t, s, k) => FirstPhase(t, s, k)'
  BY DEF FirstPhase
<1>4. IfPhase(t, s, k) => IfPhase(t, s, k)'
  BY DEF IfPhase, Ahead
<1>5. program.macro' = program.macro
  OBVIOUS
<1> QED  BY <1>1, <1>2, <1>3, <1>4, <1>5 DEF Phase

(* A step between executions changes none of the counts.                   *)
LEMMA StepsOfCounting ==
  ASSUME SafeInv, Next
  PROVE  \/ \E t \in Threads : Execute(t)
         \/ \E t \in Threads : /\ ThreadStep(t) /\ overlapped' = overlapped
                               /\ \A u \in Threads : u # t => todo'[u] = todo[u]
         \/ UNCHANGED <<program, messages, occurrences, mod_n, threads, nth, occasions,
                        overlapped>>
<1>t. todo \in [Threads -> Seq(Steps)]
  BY DEF SafeInv, TypeOK
<1> USE DEF rest, site, threads, output, history
<1>1. ASSUME NEW t \in Threads, ThreadStep(t)
      PROVE  overlapped' = overlapped /\ \E x : todo' = [todo EXCEPT ![t] = x]
  <2>1. CASE CountingStep(t)
    BY <2>1 DEF CountingStep, LoadOccurrences, StoreOccurrences, LoadMod, StoreMod, WrapMod,
                TestMod, StoreModulo, LoadFirst, TestFirst, Continue
  <2>2. CASE ~CountingStep(t)
    BY <1>1, <2>2 DEF ThreadStep, VerboseStep, Skip, EvaluateVal, Condition, SendMessage,
                KeepMessage, DiscardMessage, TestFlag, TestSite, TestSiteUninitialized,
                InitVLOG3__, Continue
  <2> QED  BY <2>1, <2>2
<1>2. ASSUME NEW t \in Threads, ThreadStep(t)
      PROVE  /\ ThreadStep(t) /\ overlapped' = overlapped
             /\ \A u \in Threads : u # t => todo'[u] = todo[u]
  BY <1>t, <1>1, <1>2
<1>3. ASSUME NEW f \in {"v", "module"}, NEW l \in Levels, SetVLOGLevel(f, l)
      PROVE  UNCHANGED <<program, messages, occurrences, mod_n, threads, nth, occasions,
                         overlapped>>
  BY <1>3 DEF SetVLOGLevel
<1>5. Next => \/ \E t \in Threads : Execute(t) \/ ThreadStep(t)
              \/ \E f \in {"v", "module"}, l \in Levels : SetVLOGLevel(f, l)
  BY Zenon DEF Next, ThreadStep
<1> QED  BY <1>2, <1>3, <1>5, Zenon

LEMMA CountInvStep ==
  SafeInv /\ LinkInv /\ AloneInv /\ CountInv /\ [Next]_vars => CountInv'
<1> SUFFICES ASSUME SafeInv, LinkInv, AloneInv, CountInv, [Next]_vars, Counts', Countable',
                    ~overlapped'
             PROVE  /\ (Resting => Rest(occasions))'
                    /\ \A t \in Threads : (todo[t] # <<>> => Phase(t, todo[t][1], occasions))'
  BY DEF CountInv
<1>1. program' = program /\ Counts /\ Countable
  BY BuildStays DEF Counts, Countable, Vanishing
<1>2. /\ program \in Programs /\ todo \in [Threads -> Seq(Steps)] /\ occasions \in Nat
  BY DEF SafeInv, TypeOK
<1>3. PICK k \in Nat : occasions = k
  BY <1>2
<1>4. ~overlapped => /\ Resting => Rest(k)
                     /\ \A t \in Threads : todo[t] # <<>> => Phase(t, todo[t][1], k)
                     /\ \A t, u \in Threads : todo[t] # <<>> /\ todo[u] # <<>> => t = u
  BY <1>1, <1>3 DEF CountInv, AloneInv, Alone
<1>5. ASSUME NEW e \in Threads, Execute(e)
      PROVE  /\ (Resting => Rest(occasions))'
             /\ \A t \in Threads : (todo[t] # <<>> => Phase(t, todo[t][1], occasions))'
  <2>1. /\ ~overlapped /\ \A t \in Threads : todo[t] = <<>>
        /\ occasions' = k
        /\ UNCHANGED <<program, messages, occurrences, mod_n, occ_reg, mod_reg, nth>>
    BY <1>3, <1>5 DEF Execute, site, output
  <2>2. Rest(k)
    BY <1>4, <2>1 DEF Resting
  <2>3. Rest(k)'
    BY <2>1, <2>2, CountStays
  <2>4. PICK first \in Starts : first = Append(Expansion.steps, "stream")[1]
    BY <1>1, <1>2, LinkedExpansion
  <2>5. \A t \in Threads : todo'[t] = <<>> \/ todo'[t][1] = first
    <3>1. todo' = [todo EXCEPT ![e] = Append(Expansion.steps, "stream")]
      BY <1>5 DEF Execute
    <3> QED  BY <1>2, <2>1, <2>4, <3>1
  <2>6. ASSUME NEW t \in Threads  PROVE Phase(t, first, k)
    BY <1>1, <2>2, <2>4 DEF Starts, Rest, Phase, EveryPhase, FirstPhase, IfPhase, Ahead
  <2>7. \A t \in Threads : Phase(t, first, k)'
    BY <2>1, <2>6, CountStays
  <2> QED  BY <2>1, <2>3, <2>5, <2>7
<1>6. ASSUME NEW e \in Threads, ThreadStep(e), overlapped' = overlapped,
             \A u \in Threads : u # e => todo'[u] = todo[u]
      PROVE  /\ (Resting => Rest(occasions))'
             /\ \A t \in Threads : (todo[t] # <<>> => Phase(t, todo[t][1], occasions))'
  <2>1. ~overlapped /\ todo[e] # <<>>
    BY <1>2, <1>6, StepAt
  <2>2. Stands(e, k)
    BY <1>4, <2>1 DEF Stands
  <2>3. \E j \in {k, k + 1} : occasions' = j /\ Stands(e, j)'
    <3>1. CASE program.macro = "LOG_EVERY_N"
      BY <1>1, <1>3, <1>6, <2>2, <3>1, EveryStep
    <3>2. CASE program.macro = "LOG_FIRST_N"
      BY <1>1, <1>3, <1>6, <2>2, <3>2, FirstStep
    <3>3. CASE program.macro \notin {"LOG_EVERY_N", "LOG_FIRST_N"}
      BY <1>1, <1>3, <1>6, <2>2, <3>3, IfStep
    <3> QED  BY <3>1, <3>2, <3>3
  <2>4. PICK j \in {k, k + 1} : occasions' = j /\ Stands(e, j)'
    BY <2>3
  <2>5. \A u \in Threads : u # e => todo'[u] = <<>>
    BY <1>4, <1>6, <2>1
  <2>6. (Resting => Rest(occasions))'
    BY <2>4 DEF Resting, Stands
  <2>7. ASSUME NEW t \in Threads  PROVE (todo[t] # <<>> => Phase(t, todo[t][1], occasions))'
    BY <2>4, <2>5 DEF Stands
  <2> QED  BY <2>6, <2>7
<1>7. ASSUME UNCHANGED <<program, messages, occurrences, mod_n, threads, nth, occasions,
                         overlapped>>
      PROVE  /\ (Resting => Rest(occasions))'
             /\ \A t \in Threads : (todo[t] # <<>> => Phase(t, todo[t][1], occasions))'
  <2>1. /\ ~overlapped /\ occasions' = k /\ todo' = todo
        /\ UNCHANGED <<program, messages, occurrences, mod_n, occ_reg, mod_reg, nth>>
    BY <1>3, <1>7 DEF threads
  <2>2. (Resting => Rest(k))'
    BY <1>4, <2>1, CountStays DEF Resting
  <2>3. ASSUME NEW t \in Threads, todo[t] # <<>>  PROVE Phase(t, todo[t][1], k)'
    BY <1>4, <2>1, <2>3, CountStays
  <2> QED  BY <2>1, <2>2, <2>3
<1>8. CASE UNCHANGED vars
  BY <1>7, <1>8 DEF vars, rest, site, threads, history, output
<1> QED  BY <1>5, <1>6, <1>7, <1>8, StepsOfCounting

(* A counting statement that no two threads have executed at once logs the *)
(* occasions its macro promises, and COUNTER says which, for any number of *)
(* executions, any width of int and any n whose n + 1 is an int where the  *)
(* macro compares a count with n.                                          *)
THEOREM OccasionsLogged == Spec => []OccasionalLogsAlone
<1>1. Init => LinkInv /\ AloneInv /\ CountInv
  <2> SUFFICES ASSUME Init  PROVE LinkInv /\ AloneInv /\ CountInv
    OBVIOUS
  <2>1. /\ \A t \in Threads : todo[t] = <<>>
        /\ messages = {} /\ occasions = 0 /\ occurrences = 0 /\ mod_n = 0
        /\ program \in Programs
    BY DEF Init
  <2>2. program.n \in Nat \ {0}
    BY <2>1, LogAssumption DEF Program
  <2>3. LinkInv
    BY <2>1 DEF LinkInv, Linked
  <2>4. AloneInv
    BY <2>1 DEF AloneInv, Alone
  <2>5. Turn(0) = 0 /\ Cycle(0) = 0 /\ Few(0) = 0 /\ 0 % program.n = 0
    BY <2>2, LogAssumption, TurnStep DEF Cycle, Few
  <2>6. Logged(0) /\ Numbered
    BY <2>1 DEF Logged, Numbered
  <2> QED  BY <2>1, <2>3, <2>4, <2>5, <2>6 DEF CountInv, Rest
<1>2. SafeInv /\ AloneInv /\ CountInv => OccasionalLogsAlone
  <2> SUFFICES ASSUME SafeInv, AloneInv, CountInv, Counts, Countable, ~overlapped
               PROVE  /\ Resting => {m.nth : m \in messages} = {k \in 1 .. occasions : Due(k)}
                      /\ program.macro \in {"LOG_EVERY_N", "LOG_FIRST_N"} =>
                           \A m \in messages : m.ctr = Turn(m.nth)
    BY DEF OccasionalLogsAlone, OccasionalLogs
  <2>1. Resting => Logged(occasions)
    BY DEF CountInv, Rest
  <2>2. ASSUME program.macro \in {"LOG_EVERY_N", "LOG_FIRST_N"}  PROVE Numbered
    <3>1. CASE Resting
      BY <2>2, <3>1 DEF CountInv, Rest
    <3>2. ASSUME NEW t \in Threads, todo[t] # <<>>  PROVE Numbered
      <4>1. Phase(t, todo[t][1], occasions)
        BY <3>2 DEF CountInv
      <4> QED  BY <2>2, <4>1 DEF Phase, EveryPhase, FirstPhase
    <3> QED  BY <3>1, <3>2 DEF Resting
  <2> QED  BY <2>1, <2>2 DEF Logged, Numbered
<1> QED  BY <1>1, <1>2, LinkInvStep, AloneInvStep, CountInvStep, SafeInvInit, SafeInvStep, PTL
         DEF Spec
=============================================================================
