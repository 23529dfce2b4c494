---------------------------- MODULE QueueLemmas ----------------------------
(***************************************************************************)
(* What the sequence operators of the models return, as the proofs cite    *)
(* it: inserting, appending, popping and erasing entries of a queue.       *)
(***************************************************************************)
EXTENDS Integers, Sequences, FiniteSets, SequencesExt,
        FiniteSetTheorems, SequenceTheorems, TLAPS

-----------------------------------------------------------------------------
(* std::priority_queue's push and the front of a deque.                    *)

LEMMA InsertAtProperties ==
  ASSUME NEW S, NEW q \in Seq(S), NEW e \in S, NEW i \in 1 .. Len(q) + 1
  PROVE  /\ InsertAt(q, i, e) \in Seq(S)
         /\ Len(InsertAt(q, i, e)) = Len(q) + 1
         /\ \A k \in 1 .. Len(q) + 1 :
              InsertAt(q, i, e)[k] = IF k < i THEN q[k]
                                     ELSE IF k = i THEN e ELSE q[k-1]
<1> DEFINE front == SubSeq(q, 1, i-1)
           back  == SubSeq(q, i, Len(q))
<1>1. /\ front \in Seq(S) /\ Len(front) = i-1
      /\ \A k \in 1 .. i-1 : front[k] = q[k]
  BY SubSeqProperties, ElementOfSeq, LenProperties
<1>2. /\ back \in Seq(S) /\ Len(back) = Len(q) - i + 1
      /\ \A k \in 1 .. Len(q)-i+1 : back[k] = q[k+i-1]
  BY SubSeqProperties, ElementOfSeq, LenProperties
<1>3. <<e>> \in Seq(S) /\ Len(<<e>>) = 1 /\ <<e>>[1] = e
  OBVIOUS
<1> HIDE DEF front, back
<1> DEFINE head == front \o <<e>>
<1>4. /\ head \in Seq(S) /\ Len(head) = i
      /\ \A k \in 1 .. i : head[k] = IF k < i THEN q[k] ELSE e
  BY <1>1, <1>3, ConcatProperties, LenProperties
<1> HIDE DEF head
<1> DEFINE r == head \o back
<1>5. /\ r \in Seq(S) /\ Len(r) = Len(q) + 1
      /\ \A k \in 1 .. Len(q) + 1 : r[k] = IF k <= i THEN head[k] ELSE back[k-i]
  <2>1. Len(head) + Len(back) = Len(q) + 1
    BY <1>2, <1>4
  <2>2. /\ r \in Seq(S) /\ Len(r) = Len(head) + Len(back)
        /\ \A k \in 1 .. Len(head) + Len(back) :
             r[k] = IF k <= Len(head) THEN head[k] ELSE back[k-Len(head)]
    BY <1>2, <1>4, ConcatProperties
  <2> QED  BY <1>4, <2>1, <2>2
<1>6. InsertAt(q, i, e) = r
  BY DEF InsertAt, head, front, back
<1> HIDE DEF r
<1>7. ASSUME NEW k \in 1 .. Len(q) + 1
      PROVE  r[k] = IF k < i THEN q[k] ELSE IF k = i THEN e ELSE q[k-1]
  <2>1. CASE k <= i
    BY <1>4, <1>5, <2>1
  <2>2. CASE k > i
    <3>1. k-i \in 1 .. Len(q)-i+1 /\ (k-i)+i-1 = k-1
      BY <2>2
    <3>2. back[k-i] = q[k-1]
      BY <1>2, <3>1
    <3> QED  BY <1>5, <2>2, <3>2
  <2> QED  BY <2>1, <2>2
<1> QED
  BY <1>5, <1>6, <1>7

LEMMA InsertAtEnd ==
  ASSUME NEW S, NEW q \in Seq(S), NEW e \in S
  PROVE  InsertAt(q, Len(q) + 1, e) = Append(q, e)
<1> DEFINE r == InsertAt(q, Len(q) + 1, e)
           a == Append(q, e)
<1>1. Len(q) \in Nat /\ Len(q) + 1 \in 1 .. Len(q) + 1
  BY LenProperties
<1>2. /\ r \in Seq(S) /\ Len(r) = Len(q) + 1
      /\ \A k \in 1 .. Len(q) + 1 : r[k] = IF k < Len(q) + 1 THEN q[k] ELSE e
  BY <1>1, InsertAtProperties
<1>3. /\ a \in Seq(S) /\ Len(a) = Len(q) + 1
      /\ \A k \in 1 .. Len(q) + 1 : a[k] = IF k < Len(q) + 1 THEN q[k] ELSE e
  BY <1>1, AppendProperties
<1> HIDE DEF r, a
<1> QED  BY <1>1, <1>2, <1>3, SeqEqual DEF r, a

LEMMA InsertAtToSet ==
  ASSUME NEW S, NEW q \in Seq(S), NEW e \in S, NEW i \in 1 .. Len(q) + 1
  PROVE  ToSet(InsertAt(q, i, e)) = ToSet(q) \cup {e}
<1> DEFINE r == InsertAt(q, i, e)
<1>1. /\ r \in Seq(S) /\ Len(r) = Len(q) + 1 /\ Len(q) \in Nat
      /\ \A k \in 1 .. Len(q) + 1 : r[k] = IF k < i THEN q[k] ELSE IF k = i THEN e ELSE q[k-1]
  BY InsertAtProperties
<1>2. DOMAIN r = 1 .. Len(q) + 1 /\ DOMAIN q = 1 .. Len(q)
  BY <1>1, LenProperties
<1> HIDE DEF r
<1>3. ASSUME NEW x \in ToSet(r)  PROVE x \in ToSet(q) \cup {e}
  <2> PICK k \in 1 .. Len(q) + 1 : x = r[k]
    BY <1>2 DEF ToSet
  <2>1. CASE k < i
    <3>1. k \in 1 .. Len(q) /\ r[k] = q[k]  BY <2>1, <1>1
    <3> QED  BY <3>1, <1>2, Zenon DEF ToSet
  <2>2. CASE k = i  BY <2>2, <1>1
  <2>3. CASE k > i
    <3>1. k-1 \in 1 .. Len(q) /\ ~(k < i) /\ k # i  BY <2>3, <1>1
    <3>2. q[k-1] \in ToSet(q)  BY <3>1, <1>2, Zenon DEF ToSet
    <3>3. r[k] = q[k-1]  BY <3>1, <1>1, Zenon
    <3> QED  BY <3>2, <3>3
  <2> QED  BY <2>1, <2>2, <2>3, <1>1
<1>4. e \in ToSet(r)
  BY <1>1, <1>2 DEF ToSet
<1>5. ASSUME NEW x \in ToSet(q)  PROVE x \in ToSet(r)
  <2> PICK k \in 1 .. Len(q) : x = q[k]
    BY <1>2 DEF ToSet
  <2>1. CASE k < i
    <3>1. k \in 1 .. Len(q) + 1 /\ r[k] = q[k]  BY <2>1, <1>1
    <3> QED  BY <3>1, <1>2, Zenon DEF ToSet
  <2>2. CASE k >= i
    <3>1. k+1 \in 1 .. Len(q) + 1 /\ ~(k+1 < i) /\ k+1 # i /\ k+1-1 = k
      BY <2>2, <1>1
    <3>2. r[k+1] \in ToSet(r)  BY <3>1, <1>2, Zenon DEF ToSet
    <3>3. r[k+1] = q[(k+1)-1]
      <4>1. \A n \in 1 .. Len(q) + 1 : ~(n < i) /\ n # i => r[n] = q[n-1]  BY <1>1, Zenon
      <4> QED  BY <3>1, <4>1, Zenon
    <3> QED  BY <3>1, <3>2, <3>3
  <2> QED  BY <2>1, <2>2, <1>1
<1> QED
  BY <1>3, <1>4, <1>5 DEF r

(* What pop_front leaves behind, entry by entry.                           *)
LEMMA TailEntries ==
  ASSUME NEW S, NEW q \in Seq(S), q # <<>>
  PROVE  /\ Len(Tail(q)) = Len(q) - 1 /\ Head(q) \in S
         /\ \A k \in 1 .. Len(q) - 1 : Tail(q)[k] = q[k+1]
<1>1. Len(Tail(q)) = Len(q) - 1 /\ \A k \in 1 .. Len(Tail(q)) : Tail(q)[k] = q[k+1]
  BY HeadTailProperties
<1> QED
  BY <1>1, HeadTailProperties, Zenon

LEMMA HeadTailToSet ==
  ASSUME NEW S, NEW q \in Seq(S), q # <<>>
  PROVE  ToSet(q) = ToSet(Tail(q)) \cup {Head(q)} /\ Head(q) = q[1]
<1>1. /\ Head(q) = q[1] /\ Len(q) \in Nat \ {0} /\ Tail(q) \in Seq(S)
      /\ Len(Tail(q)) = Len(q) - 1
      /\ \A k \in 1 .. Len(q) - 1 : Tail(q)[k] = q[k+1]
  BY HeadTailProperties, EmptySeq
<1>2. DOMAIN q = 1 .. Len(q) /\ DOMAIN Tail(q) = 1 .. Len(q) - 1
  BY <1>1, LenProperties
<1>3. ASSUME NEW x \in ToSet(q)  PROVE x \in ToSet(Tail(q)) \cup {Head(q)}
  <2> PICK k \in 1 .. Len(q) : x = q[k]
    BY <1>2 DEF ToSet
  <2>1. CASE k = 1  BY <2>1, <1>1
  <2>2. CASE k # 1
    <3>1. k-1 \in 1 .. Len(q) - 1 /\ Tail(q)[k-1] = q[k]  BY <2>2, <1>1
    <3> QED  BY <3>1, <1>2 DEF ToSet
  <2> QED  BY <2>1, <2>2
<1>4. ASSUME NEW x \in ToSet(Tail(q))  PROVE x \in ToSet(q)
  <2> PICK k \in 1 .. Len(q) - 1 : x = Tail(q)[k]
    BY <1>2 DEF ToSet
  <2>1. k+1 \in 1 .. Len(q) /\ x = q[k+1]  BY <1>1
  <2> QED  BY <2>1, <1>2 DEF ToSet
<1>5. Head(q) \in ToSet(q)
  BY <1>1, <1>2 DEF ToSet
<1> QED
  BY <1>1, <1>3, <1>4, <1>5

-----------------------------------------------------------------------------
(* push_back, pop_back and erase of a vector without duplicates.           *)

LEMMA AppendToSet ==
  ASSUME NEW S, NEW q \in Seq(S), NEW e \in S
  PROVE  /\ Append(q, e) \in Seq(S) /\ Append(q, e) # <<>>
         /\ ToSet(Append(q, e)) = ToSet(q) \cup {e}
         /\ IsInjective(q) /\ e \notin ToSet(q) => IsInjective(Append(q, e))
<1> DEFINE r == Append(q, e)
<1>1. /\ r \in Seq(S) /\ r # <<>> /\ Len(r) = Len(q) + 1 /\ Len(q) \in Nat
      /\ \A k \in 1 .. Len(q) : r[k] = q[k]
      /\ r[Len(q) + 1] = e
  BY AppendProperties, LenProperties
<1>2. DOMAIN r = 1 .. Len(q) + 1 /\ DOMAIN q = 1 .. Len(q)
  BY <1>1, LenProperties
<1> HIDE DEF r
<1>3. ToSet(r) = ToSet(q) \cup {e}
  <2>1. ASSUME NEW k \in 1 .. Len(q) + 1  PROVE r[k] \in ToSet(q) \cup {e}
    BY <1>1, <1>2 DEF ToSet
  <2>2. ASSUME NEW k \in 1 .. Len(q)  PROVE q[k] \in ToSet(r)
    BY <1>1, <1>2 DEF ToSet
  <2>3. e \in ToSet(r)
    BY <1>1, <1>2 DEF ToSet
  <2> QED  BY <1>2, <2>1, <2>2, <2>3 DEF ToSet
<1>4. ASSUME IsInjective(q), e \notin ToSet(q),
             NEW i \in 1 .. Len(q) + 1, NEW j \in 1 .. Len(q) + 1, r[i] = r[j]
      PROVE  i = j
  <2>1. CASE i \in 1 .. Len(q) /\ j \in 1 .. Len(q)
    BY <1>1, <1>2, <1>4, <2>1 DEF IsInjective
  <2>2. ASSUME NEW k \in 1 .. Len(q)  PROVE q[k] # e
    BY <1>2, <1>4 DEF ToSet
  <2>3. CASE i = Len(q) + 1 \/ j = Len(q) + 1
    BY <1>1, <1>4, <2>2, <2>3
  <2> QED  BY <1>1, <2>1, <2>3
<1> QED
  BY <1>1, <1>2, <1>3, <1>4 DEF r, IsInjective

LEMMA RemoveAtEntries ==
  ASSUME NEW S, NEW q \in Seq(S), NEW i \in 1 .. Len(q)
  PROVE  /\ RemoveAt(q, i) \in Seq(S) /\ Len(RemoveAt(q, i)) = Len(q) - 1
         /\ \A k \in 1 .. Len(q) - 1 :
              RemoveAt(q, i)[k] = IF k < i THEN q[k] ELSE q[k+1]
<1> DEFINE front == SubSeq(q, 1, i-1)
           back  == SubSeq(q, i+1, Len(q))
           r     == front \o back
<1>0. Len(q) \in Nat /\ \A k \in 1 .. Len(q) : q[k] \in S
  BY ElementOfSeq, LenProperties
<1>1. front \in Seq(S) /\ Len(front) = i-1 /\ \A k \in 1 .. i-1 : front[k] = q[k]
  BY <1>0, SubSeqProperties
<1>2. back \in Seq(S) /\ Len(back) = Len(q) - i /\ \A k \in 1 .. Len(q)-i : back[k] = q[k+i]
  <2>1. \A k \in i+1 .. Len(q) : q[k] \in S
    BY <1>0
  <2>2. /\ back \in Seq(S)
        /\ Len(back) = IF i+1 <= Len(q) THEN Len(q)-(i+1)+1 ELSE 0
        /\ \A k \in 1 .. Len(q)-(i+1)+1 : back[k] = q[(i+1)+k-1]
    BY <1>0, <2>1, SubSeqProperties
  <2> HIDE DEF back
  <2>3. Len(back) = Len(q) - i
    BY <1>0, <2>2
  <2>4. ASSUME NEW k \in 1 .. Len(q)-i  PROVE back[k] = q[k+i]
    <3>1. k \in 1 .. Len(q)-(i+1)+1 /\ (i+1)+k-1 = k+i
      BY <1>0
    <3> QED  BY <2>2, <3>1
  <2> QED  BY <2>2, <2>3, <2>4
<1>3. /\ r \in Seq(S) /\ Len(r) = Len(front) + Len(back)
      /\ \A k \in 1 .. Len(front) + Len(back) :
           r[k] = IF k <= Len(front) THEN front[k] ELSE back[k-Len(front)]
  BY <1>1, <1>2, ConcatProperties
<1>4. RemoveAt(q, i) = r
  BY DEF RemoveAt
<1> HIDE DEF r, front, back
<1>5. ASSUME NEW k \in 1 .. Len(q) - 1  PROVE r[k] = IF k < i THEN q[k] ELSE q[k+1]
  <2>0. Len(front) + Len(back) = Len(q) - 1
    BY <1>0, <1>1, <1>2
  <2>1. CASE k < i
    <3>1. k \in 1 .. i-1 /\ k <= Len(front)
      BY <1>0, <1>1, <2>1
    <3> QED  BY <1>1, <1>3, <2>0, <2>1, <3>1
  <2>2. CASE k >= i
    <3>1. k-(i-1) \in 1 .. Len(q)-i /\ (k-(i-1))+i = k+1 /\ ~(k <= Len(front)) /\ ~(k < i)
      BY <1>0, <1>1, <2>2
    <3>2. back[k-(i-1)] = q[k+1]
      BY <1>2, <3>1
    <3> QED  BY <1>1, <1>3, <2>0, <3>1, <3>2
  <2> QED  BY <1>0, <2>1, <2>2
<1>6. r \in Seq(S) /\ Len(r) = Len(q) - 1
  BY <1>0, <1>1, <1>2, <1>3
<1> QED
  BY <1>4, <1>5, <1>6

LEMMA RemoveAtToSet ==
  ASSUME NEW S, NEW q \in Seq(S), NEW i \in 1 .. Len(q), IsInjective(q)
  PROVE  IsInjective(RemoveAt(q, i)) /\ ToSet(RemoveAt(q, i)) = ToSet(q) \ {q[i]}
<1> DEFINE r == RemoveAt(q, i)
<1>1. /\ r \in Seq(S) /\ Len(r) = Len(q) - 1 /\ Len(q) \in Nat
      /\ \A k \in 1 .. Len(q) - 1 : r[k] = IF k < i THEN q[k] ELSE q[k+1]
  BY RemoveAtEntries, LenProperties
<1>2. DOMAIN r = 1 .. Len(q) - 1 /\ DOMAIN q = 1 .. Len(q)
  BY <1>1, LenProperties
<1> HIDE DEF r
<1> DEFINE old(k) == IF k < i THEN k ELSE k+1
<1>3. ASSUME NEW k \in 1 .. Len(q) - 1
      PROVE  old(k) \in 1 .. Len(q) /\ old(k) # i /\ r[k] = q[old(k)]
  BY <1>1
<1>4. \A j, k \in 1 .. Len(q) : q[j] = q[k] => j = k
  BY <1>2 DEF IsInjective
<1>5. IsInjective(r)
  <2> SUFFICES ASSUME NEW j \in 1 .. Len(q) - 1, NEW k \in 1 .. Len(q) - 1, r[j] = r[k]
               PROVE  j = k
    BY <1>2 DEF IsInjective
  <2>1. old(j) = old(k)
    BY <1>3, <1>4
  <2> QED  BY <1>1, <2>1
<1>6. ASSUME NEW x \in ToSet(r)  PROVE x \in ToSet(q) \ {q[i]}
  <2>1. PICK k \in 1 .. Len(q) - 1 : x = r[k]
    BY <1>2 DEF ToSet
  <2>2. old(k) \in 1 .. Len(q) /\ old(k) # i /\ x = q[old(k)]
    BY <1>3, <2>1
  <2>3. x \in ToSet(q)
    BY <1>2, <2>2, Zenon DEF ToSet
  <2>4. x # q[i]
    BY <1>4, <2>2
  <2> QED  BY <2>3, <2>4
<1>7. ASSUME NEW x \in ToSet(q) \ {q[i]}  PROVE x \in ToSet(r)
  <2>1. PICK k \in 1 .. Len(q) : x = q[k]
    BY <1>2 DEF ToSet
  <2>2. CASE k < i
    <3>1. k \in 1 .. Len(q) - 1 /\ r[k] = q[k]
      BY <1>1, <2>2
    <3> QED  BY <1>2, <2>1, <3>1, Zenon DEF ToSet
  <2>3. CASE k > i
    <3>1. k-1 \in 1 .. Len(q) - 1 /\ ~(k-1 < i) /\ (k-1)+1 = k
      BY <1>1, <2>3
    <3>2. r[k-1] = q[k]
      BY <1>1, <3>1
    <3> QED  BY <1>2, <2>1, <3>1, <3>2, Zenon DEF ToSet
  <2> QED  BY <2>1, <2>2, <2>3
<1> QED  BY <1>5, <1>6, <1>7 DEF r

LEMMA FrontIsRemoveAt ==
  ASSUME NEW S, NEW q \in Seq(S), q # <<>>
  PROVE  /\ Len(q) \in 1 .. Len(q) /\ Front(q) = RemoveAt(q, Len(q))
         /\ Last(q) = q[Len(q)] /\ Last(q) \in ToSet(q) /\ Last(q) \in S
<1>1. Len(q) \in Nat \ {0} /\ DOMAIN q = 1 .. Len(q)
  BY EmptySeq, LenProperties
<1>2. Len(q) \in 1 .. Len(q)
  BY <1>1
<1>3. SubSeq(q, Len(q)+1, Len(q)) = <<>>
  BY <1>1, SubSeqEmpty
<1>4. SubSeq(q, 1, Len(q)-1) \in Seq(S)
  <2>1. \A k \in 1 .. Len(q)-1 : q[k] \in S
    BY <1>1, ElementOfSeq
  <2> QED  BY <1>1, <2>1, SubSeqProperties
<1>5. Front(q) = RemoveAt(q, Len(q))
  BY <1>3, <1>4, ConcatEmptySeq DEF Front, RemoveAt
<1> QED
  BY <1>1, <1>2, <1>5, ElementOfSeq DEF Last, ToSet

LEMMA EmptyIffNoElement ==
  ASSUME NEW S, NEW q \in Seq(S)
  PROVE  q = <<>> <=> ToSet(q) = {}
<1>1. CASE q = <<>>
  BY <1>1, EmptySeq, LenProperties DEF ToSet
<1>2. CASE q # <<>>
  BY <1>2, FrontIsRemoveAt
<1> QED  BY <1>1, <1>2

-----------------------------------------------------------------------------
(* A rearrangement of a set: what std::sort leaves behind.                 *)

LEMMA ArrangementOfSet ==
  ASSUME NEW S, IsFiniteSet(S), NEW s \in SetToSeqs(S)
  PROVE  s \in Seq(S) /\ IsInjective(s) /\ ToSet(s) = S
<1> DEFINE n == Cardinality(S)
<1>1. n \in Nat
  BY FS_CardinalityType
<1>2. s \in [1 .. n -> S] /\ \A i, j \in 1 .. n : i # j => s[i] # s[j]
  BY DEF SetToSeqs
<1>3. IsFiniteSet(1 .. n) /\ Cardinality(1 .. n) = n
  BY <1>1, FS_Interval
<1> HIDE DEF n
<1>4. s \in Injection(1 .. n, S) /\ IsInjective(s)
  BY <1>2 DEF Injection, IsInjective
<1>5. s \in Surjection(1 .. n, S)
  BY <1>3, <1>4, FS_Injection DEF n
<1>6. s \in Seq(S)
  BY <1>1, <1>2
<1>7. ToSet(s) = S
  BY <1>2, <1>5 DEF ToSet, Surjection
<1> QED  BY <1>4, <1>6, <1>7

-----------------------------------------------------------------------------
(* How often an entry occurs in a queue.                                   *)

Occurrences(q, x) == {i \in 1 .. Len(q) : q[i] = x}

LEMMA OccurrencesFinite ==
  ASSUME NEW S, NEW q \in Seq(S), NEW x
  PROVE  IsFiniteSet(Occurrences(q, x)) /\ Cardinality(Occurrences(q, x)) \in Nat
<1>1. IsFiniteSet(1 .. Len(q))
  BY LenProperties, FS_Interval
<1>2. Occurrences(q, x) \in SUBSET (1 .. Len(q))
  BY DEF Occurrences
<1> QED  BY <1>1, <1>2, FS_Subset, FS_CardinalityType

LEMMA OccurrencesOfAppend ==
  ASSUME NEW S, NEW q \in Seq(S), NEW e \in S, NEW x
  PROVE  Cardinality(Occurrences(Append(q, e), x)) =
           Cardinality(Occurrences(q, x)) + IF x = e THEN 1 ELSE 0
<1>1. /\ Len(Append(q, e)) = Len(q) + 1 /\ Len(q) \in Nat
      /\ \A i \in 1 .. Len(q) : Append(q, e)[i] = q[i]
      /\ Append(q, e)[Len(q) + 1] = e
  BY AppendProperties, LenProperties
<1>2. CASE x = e
  <2>1. Occurrences(Append(q, e), x) = Occurrences(q, x) \cup {Len(q) + 1}
    BY <1>1, <1>2 DEF Occurrences
  <2>2. Len(q) + 1 \notin Occurrences(q, x)
    BY <1>1 DEF Occurrences
  <2>3. IsFiniteSet(Occurrences(q, x))
    BY OccurrencesFinite
  <2> QED  BY <1>2, <2>1, <2>2, <2>3, FS_AddElement
<1>3. CASE x # e
  <2>1. Occurrences(Append(q, e), x) = Occurrences(q, x)
    BY <1>1, <1>3 DEF Occurrences
  <2>2. Cardinality(Occurrences(q, x)) \in Nat
    BY OccurrencesFinite
  <2> QED  BY <1>3, <2>1, <2>2
<1> QED  BY <1>2, <1>3

LEMMA OccurrencesOfTail ==
  ASSUME NEW S, NEW q \in Seq(S), q # <<>>, NEW x
  PROVE  Cardinality(Occurrences(q, x)) =
           Cardinality(Occurrences(Tail(q), x)) + IF x = Head(q) THEN 1 ELSE 0
<1> DEFINE tail == Occurrences(Tail(q), x)
           rest == Occurrences(q, x) \ {1}
           shift == [i \in tail |-> i+1]
<1>1. /\ Head(q) = q[1] /\ Len(q) \in Nat \ {0} /\ Tail(q) \in Seq(S)
      /\ Len(Tail(q)) = Len(q) - 1
      /\ \A k \in 1 .. Len(q) - 1 : Tail(q)[k] = q[k+1]
  BY TailEntries, HeadTailProperties, HeadTailToSet, EmptySeq
<1>2. tail = {k \in 1 .. Len(q) - 1 : q[k+1] = x}
  BY <1>1 DEF Occurrences
<1>3. rest = {i \in 2 .. Len(q) : q[i] = x}
  BY <1>1 DEF Occurrences
<1>4. IsFiniteSet(tail) /\ Cardinality(tail) \in Nat
  BY <1>1, OccurrencesFinite
<1>5. IsFiniteSet(Occurrences(q, x)) /\ Cardinality(Occurrences(q, x)) \in Nat
  BY OccurrencesFinite
<1>6. Cardinality(rest) = IF 1 \in Occurrences(q, x)
                          THEN Cardinality(Occurrences(q, x)) - 1
                          ELSE Cardinality(Occurrences(q, x))
  BY <1>5, FS_RemoveElement
<1>7. 1 \in Occurrences(q, x) <=> x = Head(q)
  BY <1>1 DEF Occurrences
<1> HIDE DEF tail, rest
<1>8. shift \in [tail -> rest]
  BY <1>1, <1>2, <1>3
<1>9. IsInjective(shift)
  BY <1>1, <1>2 DEF IsInjective
<1>10. ASSUME NEW i \in rest  PROVE \E k \in tail : shift[k] = i
  <2>1. i-1 \in tail /\ (i-1)+1 = i
    BY <1>1, <1>2, <1>3
  <2> QED  BY <2>1
<1>11. shift \in Bijection(tail, rest)
  BY <1>8, <1>9, <1>10 DEF Bijection, Injection, Surjection
<1>12. Cardinality(rest) = Cardinality(tail)
  BY <1>4, <1>11, FS_Bijection DEF ExistsBijection
<1> QED  BY <1>4, <1>5, <1>6, <1>7, <1>12 DEF tail

LEMMA OccurrencesOfInsertAt ==
  ASSUME NEW S, NEW q \in Seq(S), NEW e \in S, NEW i \in 1 .. Len(q) + 1, NEW x
  PROVE  Cardinality(Occurrences(InsertAt(q, i, e), x)) =
           Cardinality(Occurrences(q, x)) + IF x = e THEN 1 ELSE 0
<1> DEFINE r == InsertAt(q, i, e)
           old == Occurrences(q, x)
           new == Occurrences(r, x) \ {i}
           shift == [k \in old |-> IF k < i THEN k ELSE k+1]
<1>1. /\ r \in Seq(S) /\ Len(r) = Len(q) + 1 /\ Len(q) \in Nat
      /\ \A k \in 1 .. Len(q) + 1 : r[k] = IF k < i THEN q[k] ELSE IF k = i THEN e ELSE q[k-1]
  BY InsertAtProperties, LenProperties
<1> HIDE DEF r
<1>2. IsFiniteSet(Occurrences(r, x)) /\ IsFiniteSet(old)
  BY <1>1, OccurrencesFinite
<1>3. i \in Occurrences(r, x) <=> x = e
  BY <1>1 DEF Occurrences
<1>4. \A k \in 1 .. Len(q) : k \in old <=> q[k] = x
  BY DEF Occurrences
<1>5. \A k \in 1 .. Len(q) + 1 : k \in new <=> k # i /\ r[k] = x
  BY <1>1 DEF Occurrences
<1>6. old \subseteq 1 .. Len(q) /\ new \subseteq 1 .. Len(q) + 1
  BY <1>1 DEF Occurrences
<1> HIDE DEF old, new
<1>7. ASSUME NEW k \in old  PROVE shift[k] \in new
  <2>1. k \in 1 .. Len(q) /\ q[k] = x /\ k + 1 \in 1 .. Len(q) + 1 /\ (k + 1) - 1 = k
    BY <1>1, <1>4, <1>6
  <2>2. k < i => r[k] = x /\ k # i /\ k \in 1 .. Len(q) + 1
    BY <1>1, <2>1
  <2>3. k >= i => r[k+1] = x /\ k+1 # i
    BY <1>1, <2>1
  <2> QED  BY <1>1, <1>5, <2>1, <2>2, <2>3
<1>8. ASSUME NEW k \in new  PROVE \E j \in old : shift[j] = k
  <2>1. k \in 1 .. Len(q) + 1 /\ k # i /\ r[k] = x
    BY <1>5, <1>6
  <2>2. CASE k < i
    BY <1>1, <1>4, <2>1, <2>2
  <2>3. CASE k > i
    <3>1. k-1 \in 1 .. Len(q) /\ q[k-1] = x /\ ~(k-1 < i) /\ (k-1) + 1 = k
      BY <1>1, <2>1, <2>3
    <3> QED  BY <1>4, <3>1
  <2> QED  BY <1>1, <2>1, <2>2, <2>3
<1>9. \A j, k \in old : shift[j] = shift[k] => j = k
  BY <1>1, <1>6
<1>10. shift \in [old -> new]
  BY <1>7
<1> HIDE DEF shift
<1>11. shift \in Bijection(old, new)
  BY <1>8, <1>9, <1>10 DEF Bijection, Injection, Surjection, IsInjective
<1>12. Cardinality(new) = Cardinality(old)
  BY <1>2, <1>11, FS_Bijection DEF ExistsBijection
<1>13. Cardinality(new) = Cardinality(Occurrences(r, x)) - IF x = e THEN 1 ELSE 0
  <2>1. Cardinality(new) = IF i \in Occurrences(r, x) THEN Cardinality(Occurrences(r, x)) - 1
                           ELSE Cardinality(Occurrences(r, x))
    BY <1>2, FS_RemoveElement DEF new
  <2>2. Cardinality(Occurrences(r, x)) \in Nat
    BY <1>2, FS_CardinalityType
  <2> QED  BY <1>3, <2>1, <2>2
<1>14. Cardinality(Occurrences(r, x)) \in Nat
  BY <1>2, FS_CardinalityType
<1> QED  BY <1>12, <1>13, <1>14 DEF old, r

LEMMA OccurrencesOfInjective ==
  ASSUME NEW S, NEW q \in Seq(S), IsInjective(q), NEW x
  PROVE  Cardinality(Occurrences(q, x)) = IF x \in ToSet(q) THEN 1 ELSE 0
<1>1. DOMAIN q = 1 .. Len(q)
  BY LenProperties
<1>2. CASE x \in ToSet(q)
  <2>1. PICK k \in 1 .. Len(q) : q[k] = x
    BY <1>1, <1>2 DEF ToSet
  <2>2. Occurrences(q, x) = {k}
    BY <1>1, <2>1 DEF Occurrences, IsInjective
  <2> QED  BY <1>2, <2>2, FS_Singleton
<1>3. CASE x \notin ToSet(q)
  <2>1. Occurrences(q, x) = {}
    BY <1>1, <1>3 DEF Occurrences, ToSet
  <2> QED  BY <1>3, <2>1, FS_EmptySet
<1> QED  BY <1>2, <1>3
=============================================================================
