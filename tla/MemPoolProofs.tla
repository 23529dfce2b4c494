--------------------------- MODULE MemPoolProofs ---------------------------
(***************************************************************************)
(* Theorems about MemPool for any threads, pointers and capacity, under    *)
(* the conditions in which the pool works: one creator, blocks of one size *)
(* that is a multiple of a word, and no more of them in use or on their    *)
(* way back at a time than leave something free.                           *)
(***************************************************************************)
EXTENDS MemPool, DataInduction

BlockSize  == CHOOSE n \in Sizes : TRUE
MostBlocks == Cardinality(Pointers) + Cardinality(Threads) - 1

SafeUse ==
  /\ SoleCreator
  /\ Sizes = {BlockSize} /\ BlockSize % Word = 0
  /\ MostBlocks * BlockSize < Capacity

-----------------------------------------------------------------------------
(* The numbers.                                                            *)

LEMMA UseFacts ==
  ASSUME SafeUse
  PROVE  /\ BlockSize \in Nat \ {0} /\ Word <= BlockSize /\ Rounded(BlockSize) = BlockSize
         /\ MostBlocks \in Nat /\ MostBlocks * BlockSize < Capacity /\ MostBlocks < Capacity
         /\ ArenaBytes \in Nat \ {0} /\ Capacity <= ArenaBytes
         /\ Word \in Nat \ {0} /\ Capacity \in Nat \ {0}
<1>1. /\ BlockSize \in Nat \ {0} /\ BlockSize % Word = 0
      /\ Word \in Nat \ {0} /\ Capacity \in Nat \ {0}
  BY PoolAssumption DEF SafeUse
<1>2. Word <= BlockSize /\ Rounded(BlockSize) = BlockSize
  <2> HIDE DEF BlockSize
  <2> QED  BY <1>1 DEF Rounded
<1>3. MostBlocks \in Nat
  <2>1. /\ Cardinality(Pointers) \in Nat /\ Cardinality(Threads) \in Nat
        /\ Cardinality(Threads) # 0
    BY PoolAssumption, FS_CardinalityType, FS_EmptySet
  <2> QED  BY <2>1 DEF MostBlocks
<1>4. MostBlocks * BlockSize < Capacity
  BY DEF SafeUse
<1>5. MostBlocks < Capacity
  <2> HIDE DEF BlockSize, MostBlocks
  <2>1. MostBlocks * 1 <= MostBlocks * BlockSize
    BY <1>1, <1>3
  <2> QED  BY <1>1, <1>3, <1>4, <2>1
<1>6. ArenaBytes \in Nat \ {0} /\ Capacity <= ArenaBytes
  BY <1>1 DEF ArenaBytes
<1> QED  BY <1>1, <1>2, <1>3, <1>4, <1>5, <1>6

-----------------------------------------------------------------------------
(* The layout of the arena.  L[n] is the offset of the head of the free    *)
(* list, L[n-1] that of the block after it, and L[0] that of the rest of   *)
(* the arena, which was never handed out.                                  *)
Apart(x, y) == x + BlockSize <= y \/ y + BlockSize <= x

Chain(L, n, arena, first, link) ==
  /\ first = <<arena, L[n]>>
  /\ link[<<arena, L[0]>>] = Null
  /\ \A i \in 1 .. n : link[<<arena, L[i]>>] = <<arena, L[i - 1]>>

Layout(L, n, used, arena) ==
  /\ \A i, j \in 0 .. n : i # j => Apart(L[i], L[j])
  /\ \A i \in 1 .. n : L[i] + BlockSize <= L[0]
  /\ \A b \in used : /\ b = <<arena, b[2], BlockSize>> /\ b[2] \in Nat
                     /\ b[2] + BlockSize <= L[0]
                     /\ \A i \in 0 .. n : Apart(b[2], L[i])
  /\ \A b, c \in used : b # c => Apart(b[2], c[2])
  /\ L[0] = (n + Cardinality(used)) * BlockSize
  /\ n + Cardinality(used) <= MostBlocks

LEMMA LayoutBounds ==
  ASSUME SafeUse, NEW L \in [Nat -> Nat], NEW n \in Nat, NEW used, NEW arena,
         IsFiniteSet(used), Layout(L, n, used, arena)
  PROVE  /\ \A i \in 0 .. n : L[i] \in 0 .. ArenaBytes - 1
         /\ \A i \in 1 .. n : L[i] + BlockSize <= ArenaBytes
         /\ n + Cardinality(used) < MostBlocks => L[0] + BlockSize < ArenaBytes
         /\ n < ArenaBytes
<1> DEFINE K == Cardinality(used)
<1>1. /\ K \in Nat /\ L[0] = (n + K) * BlockSize /\ n + K <= MostBlocks
      /\ \A i \in 1 .. n : L[i] + BlockSize <= L[0]
      /\ \A i \in 0 .. n : L[i] \in Nat
  <2>1. K \in Nat /\ \A i \in 0 .. n : L[i] \in Nat
    BY FS_CardinalityType
  <2> QED  BY <2>1 DEF Layout
<1> HIDE DEF K
<1>2. (n + K) * BlockSize <= MostBlocks * BlockSize
  BY <1>1, UseFacts
<1>3. n + K < MostBlocks => (n + K + 1) * BlockSize <= MostBlocks * BlockSize
  BY <1>1, UseFacts
<1>4. (n + K + 1) * BlockSize = L[0] + BlockSize
  BY <1>1, UseFacts
<1>5. L[0] < ArenaBytes
  BY <1>1, <1>2, UseFacts
<1>6. n + K < MostBlocks => L[0] + BlockSize < ArenaBytes
  BY <1>1, <1>3, <1>4, UseFacts
<1>7. \A i \in 1 .. n : L[i] + BlockSize <= ArenaBytes /\ L[i] < ArenaBytes
  BY <1>1, <1>5, UseFacts
<1> QED  BY <1>1, <1>5, <1>6, <1>7, UseFacts DEF K

(* The head is handed out, and the head is the last block of the list.     *)
LEMMA TakeFree ==
  ASSUME SafeUse, NEW L \in [Nat -> Nat], NEW n \in Nat \ {0}, NEW used, NEW arena,
         IsFiniteSet(used), Layout(L, n, used, arena)
  PROVE  /\ Layout(L, n - 1, used \cup {<<arena, L[n], BlockSize>>}, arena)
         /\ <<arena, L[n], BlockSize>> \notin used
<1> DEFINE b == <<arena, L[n], BlockSize>>
           all == used \cup {b}
<1>1. b \notin used /\ b[2] = L[n]
  BY UseFacts DEF Layout, Apart
<1>2. Cardinality(all) = Cardinality(used) + 1 /\ Cardinality(used) \in Nat
  BY <1>1, FS_AddElement, FS_CardinalityType
<1>3. (n - 1) + Cardinality(all) = n + Cardinality(used)
  BY <1>2
<1>4. 0 .. n - 1 \subseteq 0 .. n /\ 1 .. n - 1 \subseteq 1 .. n /\ n \in 0 .. n
  OBVIOUS
<1>5. /\ \A c \in used : Apart(c[2], b[2]) /\ Apart(b[2], c[2])
      /\ \A i \in 0 .. n - 1 : Apart(b[2], L[i])
      /\ b[2] + BlockSize <= L[0] /\ b[2] \in Nat
  BY <1>1, <1>4 DEF Layout, Apart
<1> HIDE DEF b
<1>6. /\ \A i, j \in 0 .. n - 1 : i # j => Apart(L[i], L[j])
      /\ \A i \in 1 .. n - 1 : L[i] + BlockSize <= L[0]
  BY <1>4 DEF Layout
<1>7. \A c \in all : /\ c = <<arena, c[2], BlockSize>> /\ c[2] \in Nat
                     /\ c[2] + BlockSize <= L[0]
                     /\ \A i \in 0 .. n - 1 : Apart(c[2], L[i])
  <2>1. b = <<arena, b[2], BlockSize>>
    BY DEF b
  <2> QED  BY <1>4, <1>5, <2>1 DEF Layout
<1>8. \A c, d \in all : c # d => Apart(c[2], d[2])
  BY <1>5 DEF Layout
<1>9. /\ L[0] = ((n - 1) + Cardinality(all)) * BlockSize
      /\ (n - 1) + Cardinality(all) <= MostBlocks
  BY <1>3 DEF Layout
<1>10. Layout(L, n - 1, all, arena)
  <2> HIDE DEF all
  <2> QED  BY <1>6, <1>7, <1>8, <1>9 DEF Layout
<1> QED  BY <1>1, <1>10 DEF b

(* The head is handed out, and the head is the rest of the arena.          *)
LEMMA TakeRest ==
  ASSUME SafeUse, NEW L \in [Nat -> Nat], NEW used, NEW arena,
         IsFiniteSet(used), Layout(L, 0, used, arena), Cardinality(used) + 1 <= MostBlocks
  PROVE  /\ Layout([L EXCEPT ![0] = @ + BlockSize], 0,
                   used \cup {<<arena, L[0], BlockSize>>}, arena)
         /\ <<arena, L[0], BlockSize>> \notin used
<1> DEFINE b == <<arena, L[0], BlockSize>>
           all == used \cup {b}
           M == [L EXCEPT ![0] = @ + BlockSize]
<1>t. BlockSize \in Nat \ {0} /\ L[0] \in Nat /\ b[2] = L[0] /\ M[0] = L[0] + BlockSize
  BY UseFacts
<1>1. b \notin used
  BY <1>t DEF Layout, Apart
<1>2. Cardinality(all) = Cardinality(used) + 1 /\ Cardinality(used) \in Nat
  BY <1>1, FS_AddElement, FS_CardinalityType
<1>3. \A c \in used : c[2] \in Nat /\ c[2] + BlockSize <= L[0]
  BY DEF Layout
<1>4. \A c \in used : Apart(c[2], b[2]) /\ Apart(b[2], c[2]) /\ Apart(c[2], M[0])
  BY <1>t, <1>3 DEF Apart
<1>5. Apart(b[2], M[0]) /\ b = <<arena, b[2], BlockSize>>
  BY <1>t DEF Apart
<1>6. M[0] = (0 + Cardinality(all)) * BlockSize
  <2> DEFINE K == Cardinality(used)
  <2>1. L[0] = (0 + K) * BlockSize /\ K \in Nat
    BY <1>2 DEF Layout
  <2> HIDE DEF K
  <2>2. (0 + (K + 1)) * BlockSize = (0 + K) * BlockSize + BlockSize
    BY <1>t, <2>1
  <2> QED  BY <1>2, <1>t, <2>1, <2>2 DEF K
<1> HIDE DEF b, M
<1>7. \A c \in all : /\ c = <<arena, c[2], BlockSize>> /\ c[2] \in Nat
                     /\ c[2] + BlockSize <= M[0]
                     /\ \A i \in 0 .. 0 : Apart(c[2], M[i])
  <2>1. \A c \in used : c = <<arena, c[2], BlockSize>> /\ c[2] + BlockSize <= M[0]
    BY <1>3, <1>t DEF Layout
  <2>2. b[2] + BlockSize <= M[0]
    BY <1>t
  <2> QED  BY <1>3, <1>4, <1>5, <1>t, <2>1, <2>2
<1>8. \A c, d \in all : c # d => Apart(c[2], d[2])
  BY <1>4 DEF Layout
<1>9. 0 + Cardinality(all) <= MostBlocks
  BY <1>2
<1>10. Layout(M, 0, all, arena)
  <2> HIDE DEF all
  <2> QED  BY <1>6, <1>7, <1>8, <1>9 DEF Layout
<1> QED  BY <1>1, <1>10 DEF b, M

(* A block goes to the front of the list.                                  *)
LEMMA PutBack ==
  ASSUME SafeUse, NEW L \in [Nat -> Nat], NEW n \in Nat, NEW used, NEW arena,
         IsFiniteSet(used), Layout(L, n, used, arena), NEW b \in used
  PROVE  /\ [L EXCEPT ![n + 1] = b[2]] \in [Nat -> Nat]
         /\ Layout([L EXCEPT ![n + 1] = b[2]], n + 1, used \ {b}, arena)
<1> DEFINE rest == used \ {b}
           M == [L EXCEPT ![n + 1] = b[2]]
<1>t. BlockSize \in Nat \ {0} /\ b[2] \in Nat
  BY UseFacts DEF Layout
<1>1. M \in [Nat -> Nat] /\ M[n + 1] = b[2] /\ \A i \in 0 .. n : M[i] = L[i]
  BY <1>t
<1>2. Cardinality(rest) = Cardinality(used) - 1 /\ Cardinality(used) \in Nat
  BY FS_RemoveElement, FS_CardinalityType
<1>3. (n + 1) + Cardinality(rest) = n + Cardinality(used)
  BY <1>2
<1>4. /\ \A i \in 0 .. n : Apart(b[2], L[i]) /\ Apart(L[i], b[2])
      /\ b[2] + BlockSize <= L[0] /\ \A c \in rest : Apart(c[2], b[2])
  BY <1>t DEF Layout, Apart
<1> HIDE DEF M
<1>5. \A i \in 0 .. n + 1 : i \in 0 .. n \/ i = n + 1
  OBVIOUS
<1>6. \A i, j \in 0 .. n + 1 : i # j => Apart(M[i], M[j])
  BY <1>1, <1>4, <1>5 DEF Layout
<1>7. \A i \in 1 .. n + 1 : M[i] + BlockSize <= M[0]
  <2>1. \A i \in 1 .. n + 1 : i \in 1 .. n \/ i = n + 1
    OBVIOUS
  <2>2. 0 \in 0 .. n /\ 1 .. n \subseteq 0 .. n
    OBVIOUS
  <2> QED  BY <1>1, <1>4, <2>1, <2>2 DEF Layout
<1>8. \A c \in rest : /\ c = <<arena, c[2], BlockSize>> /\ c[2] \in Nat
                      /\ c[2] + BlockSize <= M[0]
                      /\ \A i \in 0 .. n + 1 : Apart(c[2], M[i])
  <2>1. M[0] = L[0]
    BY <1>1
  <2> QED  BY <1>1, <1>4, <1>5, <2>1 DEF Layout
<1>9. \A c, d \in rest : c # d => Apart(c[2], d[2])
  BY DEF Layout
<1>10. /\ M[0] = ((n + 1) + Cardinality(rest)) * BlockSize
       /\ (n + 1) + Cardinality(rest) <= MostBlocks
  <2>1. M[0] = L[0]
    BY <1>1
  <2> QED  BY <1>3, <2>1 DEF Layout
<1>11. Layout(M, n + 1, rest, arena)
  <2> HIDE DEF rest
  <2> QED  BY <1>6, <1>7, <1>8, <1>9, <1>10 DEF Layout
<1> QED  BY <1>1, <1>11 DEF M

-----------------------------------------------------------------------------
(* The inductive invariant.  Who may be where: only Main creates, the      *)
(* others come when the pool is ready, and a pointer is in one call only.  *)
Creating == {"count", "malloc", "head", "terminate"}

PhaseInv ==
  /\ \A t \in Threads :
       /\ pc[t] \in Creating => t = Main /\ ~ready
       /\ block[t] # NoBlock <=> pc[t] = "put"
       /\ pc[t] = "take" => size[t] = BlockSize
       /\ size[t] # 0 <=> target[t] # NoPointer /\ ptr[target[t]] = NoBlock
       /\ pc[t] \in {"idle", "put"} => target[t] = NoPointer
       /\ pc[t] = "write" => target[t] # NoPointer /\ ptr[target[t]] # NoBlock
       /\ \A u \in Threads : target[t] = target[u] => t = u \/ target[t] = NoPointer
  /\ ~ready =>
       /\ \A t \in Threads : t = Main \/ pc[t] = "idle"
       /\ pc[Main] \in {"idle"} \cup Creating
       /\ \A p \in Pointers : ptr[p] = NoBlock
       /\ memory # 0 <=> pc[Main] \in {"head", "terminate"}
       /\ pc[Main] \in Creating \ {"count"} => num_free = Capacity
       /\ pc[Main] = "terminate" => head = <<memory, 0>>
  /\ ready => memory # 0
  /\ ~broken

(* A block has one holder.                                                 *)
HolderInv ==
  /\ \A p, q \in Pointers : ptr[p] = ptr[q] => p = q \/ ptr[p] = NoBlock
  /\ \A t, u \in Threads : block[t] = block[u] => t = u \/ block[t] = NoBlock
  /\ \A p \in Pointers, t \in Threads : ptr[p] = block[t] => ptr[p] = NoBlock

HeapInv ==
  ready =>
    /\ num_free = Capacity - Cardinality(Outside) * BlockSize
    /\ \E L \in [Nat -> Nat], n \in Nat :
         Chain(L, n, memory, head, next) /\ Layout(L, n, Outside, memory)

SafeInv == TypeOK /\ PhaseInv /\ HolderInv /\ HeapInv

(* The blocks in use are finitely many, and there is one for each pointer  *)
(* and thread at most.                                                     *)
LEMMA ImageBound ==
  ASSUME NEW S, IsFiniteSet(S), NEW f, NEW T \in SUBSET S
  PROVE  /\ IsFiniteSet({f[x] : x \in T})
         /\ Cardinality({f[x] : x \in T}) \in Nat
         /\ Cardinality({f[x] : x \in T}) <= Cardinality(T)
<1> DEFINE g == [x \in T |-> f[x]]
           I == {f[x] : x \in T}
<1>1. IsFiniteSet(T)
  BY FS_Subset
<1>2. g \in Surjection(T, I)
  BY DEF Surjection
<1>3. IsFiniteSet(I) /\ Cardinality(I) <= Cardinality(T)
  BY <1>1, <1>2, FS_Surjection
<1> QED  BY <1>3, FS_CardinalityType

LEMMA OutsideFacts ==
  ASSUME TypeOK
  PROVE  /\ IsFiniteSet(Outside) /\ Cardinality(Outside) \in Nat
         /\ Outside \subseteq Blocks
         /\ \A b \in Blocks : /\ b = <<b[1], b[2], b[3]>> /\ b[1] \in Arenas
                              /\ b[2] \in 0 .. ArenaBytes - 1 /\ b[3] \in Sizes
                              /\ b[2] + b[3] <= ArenaBytes
         /\ \A b \in Blocks : b # NoBlock
<1>1. IsFiniteSet({ptr[p] : p \in Pointers}) /\ IsFiniteSet({block[t] : t \in Threads})
  <2>1. Pointers \in SUBSET Pointers /\ Threads \in SUBSET Threads
    OBVIOUS
  <2>2. IsFiniteSet({ptr[p] : p \in Pointers})
    BY <2>1, ImageBound, PoolAssumption, ZenonT(60)
  <2>3. IsFiniteSet({block[t] : t \in Threads})
    <3>1. IsFiniteSet(Threads)
      BY PoolAssumption
    <3> QED  BY <2>1, <3>1, ImageBound
  <2> QED  BY <2>2, <2>3
<1>2. IsFiniteSet({ptr[p] : p \in Pointers} \cup {block[t] : t \in Threads})
  BY <1>1, FS_Union
<1>3. IsFiniteSet(Outside) /\ Cardinality(Outside) \in Nat
  BY <1>2, FS_Subset, FS_CardinalityType DEF Outside
<1>4. \A b \in Blocks : /\ b = <<b[1], b[2], b[3]>> /\ b[1] \in Arenas
                        /\ b[2] \in 0 .. ArenaBytes - 1 /\ b[3] \in Sizes
                        /\ b[2] + b[3] <= ArenaBytes
  BY DEF Blocks
<1>5. \A b \in Blocks : b # NoBlock
  BY <1>4 DEF Arenas, NoBlock
<1>6. Outside \subseteq Blocks
  BY DEF Outside, TypeOK
<1> QED  BY <1>3, <1>4, <1>5, <1>6

LEMMA OutsideBound ==
  ASSUME TypeOK, NEW p \in Pointers, ptr[p] = NoBlock, NEW t \in Threads, block[t] = NoBlock
  PROVE  Cardinality(Outside) + 1 <= MostBlocks
<1> DEFINE P == {ptr[q] : q \in Pointers \ {p}}
           T == {block[u] : u \in Threads \ {t}}
<1>f. /\ IsFiniteSet(Pointers) /\ IsFiniteSet(Threads)
      /\ Pointers \ {p} \in SUBSET Pointers /\ Threads \ {t} \in SUBSET Threads
  BY PoolAssumption
<1>1. /\ IsFiniteSet(P) /\ Cardinality(P) \in Nat
      /\ Cardinality(P) <= Cardinality(Pointers \ {p})
  BY <1>f, ImageBound
<1>2. /\ IsFiniteSet(T) /\ Cardinality(T) \in Nat
      /\ Cardinality(T) <= Cardinality(Threads \ {t})
  BY <1>f, ImageBound
<1>3. /\ Cardinality(Pointers \ {p}) = Cardinality(Pointers) - 1
      /\ Cardinality(Threads \ {t}) = Cardinality(Threads) - 1
      /\ Cardinality(Pointers) \in Nat /\ Cardinality(Threads) \in Nat
  BY PoolAssumption, FS_RemoveElement, FS_CardinalityType
<1>4. Outside \subseteq P \cup T
  BY DEF Outside
<1> HIDE DEF P, T
<1>5. IsFiniteSet(P \cup T) /\ Cardinality(P \cup T) <= Cardinality(P) + Cardinality(T)
  <2>1. /\ Cardinality(P \cup T) = Cardinality(P) + Cardinality(T) - Cardinality(P \cap T)
        /\ IsFiniteSet(P \cup T)
    BY <1>1, <1>2, FS_Union
  <2>2. Cardinality(P \cap T) \in Nat
    BY <1>1, FS_Intersection, FS_CardinalityType
  <2> QED  BY <1>1, <1>2, <2>1, <2>2
<1>6. Cardinality(Outside) <= Cardinality(P \cup T)
  BY <1>4, <1>5, FS_Subset
<1>7. Cardinality(Outside) \in Nat /\ Cardinality(P \cup T) \in Nat
  BY <1>5, OutsideFacts, FS_CardinalityType
<1> QED  BY <1>1, <1>2, <1>3, <1>5, <1>6, <1>7 DEF MostBlocks

-----------------------------------------------------------------------------
(* The steps that move blocks.                                             *)

LEMMA CountMod ==
  ASSUME NEW x \in Nat, x < SizeMod
  PROVE  x % SizeMod = x
BY PoolAssumption

(* Which thread can take or give back a block, and what it works on.       *)
LEMMA WhoTakes ==
  ASSUME SafeInv, SafeUse, NEW t \in Threads, pc[t] = "take"
  PROVE  /\ ready /\ memory \in Arenas /\ size[t] = BlockSize
         /\ target[t] \in Pointers /\ ptr[target[t]] = NoBlock /\ block[t] = NoBlock
<1>1. ready
  BY DEF SafeInv, PhaseInv, Creating
<1>2. memory \in Arenas
  BY <1>1 DEF SafeInv, TypeOK, PhaseInv, Arenas
<1>3. size[t] = BlockSize /\ block[t] = NoBlock
  BY DEF SafeInv, PhaseInv
<1>4. target[t] # NoPointer /\ ptr[target[t]] = NoBlock
  BY <1>3, UseFacts DEF SafeInv, PhaseInv
<1>5. target[t] \in Pointers
  BY <1>4 DEF SafeInv, TypeOK
<1> QED  BY <1>1, <1>2, <1>3, <1>4, <1>5

LEMMA AllocateEffect ==
  ASSUME SafeUse, SafeInv, NEW t \in Threads, AllocateBlock(t)
  PROVE  \E b \in Blocks :
           /\ b[1] = memory /\ b \notin Outside
           /\ \A c \in Outside : Apart(b[2], c[2])
           /\ ptr' = [ptr EXCEPT ![target[t]] = b] /\ Outside' = Outside \cup {b}
           /\ num_free' \in 0 .. SizeMod - 1
           /\ num_free' = Capacity - Cardinality(Outside') * BlockSize
           /\ next' \in [Addresses -> Addresses \cup {Null, Junk}]
           /\ head' \in Addresses /\ broken' = broken
           /\ \E L \in [Nat -> Nat], n \in Nat :
                Chain(L, n, memory, head', next') /\ Layout(L, n, Outside', memory)
<1>t. /\ pc[t] = "take" /\ memory' = memory
      /\ num_free' = (num_free - size[t]) % SizeMod
      /\ ptr' = [ptr EXCEPT ![target[t]] =
                   IF head = Null THEN NoBlock ELSE <<head[1], head[2], size[t]>>]
      /\ num_free' # 0 => MoveHead(size[t])
      /\ block' = block
  BY DEF AllocateBlock, Go
<1>1. /\ ready /\ memory \in Arenas /\ size[t] = BlockSize /\ target[t] \in Pointers
      /\ ptr[target[t]] = NoBlock /\ block[t] = NoBlock
  BY <1>t, WhoTakes
<1>2. /\ next \in [Addresses -> Addresses \cup {Null, Junk}] /\ TypeOK
      /\ ptr \in [Pointers -> Blocks \cup {NoBlock}]
  BY DEF SafeInv, TypeOK
<1> DEFINE K == Cardinality(Outside)
<1>3. K \in Nat /\ K + 1 <= MostBlocks /\ IsFiniteSet(Outside)
  BY <1>1, <1>2, OutsideBound, OutsideFacts
<1>4. PICK L \in [Nat -> Nat], n \in Nat :
        Chain(L, n, memory, head, next) /\ Layout(L, n, Outside, memory)
  BY <1>1 DEF SafeInv, HeapInv
<1> DEFINE b == <<memory, L[n], BlockSize>>
<1>5. num_free' = Capacity - (K + 1) * BlockSize /\ num_free' \in 1 .. SizeMod - 1
  <2>1. num_free = Capacity - K * BlockSize
    BY <1>1 DEF SafeInv, HeapInv
  <2>2. /\ (K + 1) * BlockSize = K * BlockSize + BlockSize
        /\ (K + 1) * BlockSize <= MostBlocks * BlockSize
        /\ (K + 1) * BlockSize \in Nat /\ K * BlockSize \in Nat
    <3> HIDE DEF K
    <3> QED  BY <1>3, UseFacts
  <2>3. (K + 1) * BlockSize < Capacity /\ Capacity < SizeMod /\ SizeMod \in Nat /\ Capacity \in Nat
    BY <2>2, UseFacts, PoolAssumption
  <2> DEFINE x == Capacity - (K + 1) * BlockSize
  <2>4. x \in Nat /\ x < SizeMod /\ x # 0 /\ num_free - BlockSize = x
    BY <2>1, <2>2, <2>3, UseFacts
  <2> HIDE DEF x
  <2>5. num_free' = x
    BY <1>1, <1>t, <2>4, CountMod
  <2> QED  BY <2>4, <2>5, PoolAssumption DEF x
<1>6. /\ head = <<memory, L[n]>> /\ head \in Addresses /\ head # Null
      /\ head[1] = memory /\ head[2] = L[n]
      /\ L[n] + BlockSize <= ArenaBytes /\ L[n] \in 0 .. ArenaBytes - 1
      /\ \A i \in 0 .. n : <<memory, L[i]>> \in Addresses
  <2>1. /\ \A i \in 0 .. n : L[i] \in 0 .. ArenaBytes - 1
        /\ \A i \in 1 .. n : L[i] + BlockSize <= ArenaBytes
        /\ n + K < MostBlocks => L[0] + BlockSize < ArenaBytes
    BY <1>3, <1>4, LayoutBounds
  <2>2. \A i \in 0 .. n : <<memory, L[i]>> \in Addresses
    BY <1>1, <2>1 DEF Addresses
  <2>3. n \in 0 .. n
    OBVIOUS
  <2>4. L[n] + BlockSize <= ArenaBytes
    <3>1. CASE n = 0
      BY <1>3, <2>1, <3>1, UseFacts
    <3>2. CASE n # 0
      BY <2>1, <3>2
    <3> QED  BY <3>1, <3>2
  <2>5. head = <<memory, L[n]>>
    BY <1>4 DEF Chain
  <2>6. Null \notin Addresses
    BY PoolAssumption DEF Addresses, Arenas, ArenaBytes
  <2> QED  BY <2>1, <2>2, <2>3, <2>4, <2>5, <2>6
<1>7. b \in Blocks /\ b # NoBlock /\ b[1] = memory
  <2>1. b \in Blocks
    BY <1>1, <1>6, UseFacts DEF Blocks, SafeUse
  <2> QED  BY <1>2, <2>1, OutsideFacts
<1>8. ptr' = [ptr EXCEPT ![target[t]] = b]
  BY <1>1, <1>6, <1>t
<1>9. Outside' = Outside \cup {b}
  <2>1. \A p \in Pointers : ptr'[p] = IF p = target[t] THEN b ELSE ptr[p]
    BY <1>2, <1>8
  <2> HIDE DEF b
  <2> QED  BY <1>1, <1>7, <1>t, <2>1 DEF Outside
<1>10. MoveHead(BlockSize)
  BY <1>1, <1>5, <1>t
<1> DEFINE Moved(M, k) ==
             /\ head' \in Addresses /\ next' \in [Addresses -> Addresses \cup {Null, Junk}]
             /\ broken' = broken /\ b \notin Outside
             /\ Chain(M, k, memory, head', next') /\ Layout(M, k, Outside', memory)
<1>11. ASSUME n # 0  PROVE \E M \in [Nat -> Nat], k \in Nat : Moved(M, k)
  <2>1. next[head] = <<memory, L[n - 1]>> /\ next[head] \in Addresses
    <3>1. n \in 1 .. n /\ n - 1 \in 0 .. n
      BY <1>11
    <3> QED  BY <1>4, <1>6, <3>1 DEF Chain
  <2>2. next[head] # Null /\ next[head] # Junk
    BY <2>1, PoolAssumption DEF Addresses, Arenas, ArenaBytes
  <2>3. head' = <<memory, L[n - 1]>> /\ next' = next /\ broken' = broken
    BY <1>6, <1>10, <2>1, <2>2 DEF MoveHead
  <2>4. Chain(L, n - 1, memory, head', next')
    BY <1>4, <2>3 DEF Chain
  <2>5. Layout(L, n - 1, Outside', memory) /\ b \notin Outside
    BY <1>3, <1>4, <1>9, <1>11, TakeFree
  <2>6. head' \in Addresses /\ n - 1 \in Nat
    BY <1>11, <2>1, <2>3
  <2>7. Moved(L, n - 1)
    BY <1>2, <2>3, <2>4, <2>5, <2>6
  <2> HIDE DEF Moved
  <2> QED  BY <2>6, <2>7
<1>12. ASSUME n = 0  PROVE \E M \in [Nat -> Nat], k \in Nat : Moved(M, k)
  <2> DEFINE M == [L EXCEPT ![0] = @ + BlockSize]
             a == <<memory, M[0]>>
  <2>1. M \in [Nat -> Nat] /\ M[0] = L[0] + BlockSize
    BY UseFacts
  <2>2. a \in Addresses
    <3>1. L[0] + BlockSize < ArenaBytes
      <4>1. n + K < MostBlocks => L[0] + BlockSize < ArenaBytes
        BY <1>3, <1>4, LayoutBounds
      <4> HIDE DEF K
      <4> QED  BY <1>3, <1>12, <4>1, UseFacts
    <3> HIDE DEF M
    <3> QED  BY <1>1, <2>1, <3>1, UseFacts DEF Addresses
  <2>3. Advance(head, BlockSize) = a
    BY <1>6, <1>12, <2>1, UseFacts DEF Advance
  <2>4. next[head] = Null
    BY <1>4, <1>12 DEF Chain
  <2> HIDE DEF a
  <2>5. head' = a /\ next' = [next EXCEPT ![a] = Null] /\ broken' = broken
    BY <1>6, <1>10, <2>2, <2>3, <2>4, PoolAssumption DEF MoveHead
  <2>6. Chain(M, 0, memory, head', next')
    BY <1>2, <2>2, <2>5 DEF Chain, a
  <2>7. Layout(M, 0, Outside', memory) /\ b \notin Outside
    BY <1>3, <1>4, <1>9, <1>12, TakeRest
  <2>8. next' \in [Addresses -> Addresses \cup {Null, Junk}]
    BY <1>2, <2>5
  <2> HIDE DEF M
  <2>9. Moved(M, 0)
    BY <2>2, <2>5, <2>6, <2>7, <2>8
  <2> HIDE DEF Moved
  <2> QED  BY <2>1, <2>9
<1> HIDE DEF Moved
<1>13. PICK M \in [Nat -> Nat], k \in Nat : Moved(M, k)
  BY <1>11, <1>12
<1> HIDE DEF b
<1>14. /\ head' \in Addresses /\ next' \in [Addresses -> Addresses \cup {Null, Junk}]
       /\ broken' = broken /\ b \notin Outside
       /\ Chain(M, k, memory, head', next') /\ Layout(M, k, Outside', memory)
  BY <1>13 DEF Moved
<1>15. \A c \in Outside : Apart(b[2], c[2])
  <2>1. \A c \in Outside' : b # c => Apart(b[2], c[2])
    BY <1>9, <1>14 DEF Layout
  <2> QED  BY <1>9, <1>14, <2>1
<1>16. Cardinality(Outside') = K + 1
  BY <1>3, <1>9, <1>14, FS_AddElement
<1>17. num_free' \in 0 .. SizeMod - 1 /\ num_free' = Capacity - Cardinality(Outside') * BlockSize
  BY <1>5, <1>16
<1> HIDE DEF K
<1> QED  BY <1>7, <1>8, <1>9, <1>13, <1>14, <1>15, <1>17

LEMMA WhoGivesBack ==
  ASSUME SafeInv, NEW t \in Threads, pc[t] = "put"
  PROVE  /\ ready /\ memory \in Arenas /\ block[t] \in Blocks /\ block[t] \in Outside
<1>1. ready /\ block[t] # NoBlock
  BY DEF SafeInv, PhaseInv, Creating
<1>2. memory \in Arenas
  BY <1>1 DEF SafeInv, TypeOK, PhaseInv, Arenas
<1> QED  BY <1>1, <1>2 DEF SafeInv, TypeOK, Outside

LEMMA FreeEffect ==
  ASSUME SafeUse, SafeInv, NEW t \in Threads, FreeBlock(t)
  PROVE  /\ Outside' = Outside \ {block[t]}
         /\ num_free' \in 0 .. SizeMod - 1
         /\ num_free' = Capacity - Cardinality(Outside') * BlockSize
         /\ next' \in [Addresses -> Addresses \cup {Null, Junk}] /\ head' \in Addresses
         /\ \E L \in [Nat -> Nat], n \in Nat :
              Chain(L, n, memory, head', next') /\ Layout(L, n, Outside', memory)
<1> DEFINE b == block[t]
           a == <<b[1], b[2]>>
           K == Cardinality(Outside)
<1>t. /\ pc[t] = "put" /\ memory' = memory /\ ptr' = ptr
      /\ next' = (IF num_free > 0 THEN [next EXCEPT ![a] = head] ELSE next) /\ head' = a
      /\ num_free' = (num_free + Rounded(b[3])) % SizeMod
      /\ block' = [block EXCEPT ![t] = NoBlock]
  BY DEF FreeBlock, Go
<1>1. ready /\ memory \in Arenas /\ b \in Blocks /\ b \in Outside
  BY <1>t, WhoGivesBack
<1>2. /\ next \in [Addresses -> Addresses \cup {Null, Junk}] /\ TypeOK
      /\ block \in [Threads -> Blocks \cup {NoBlock}] /\ head \in Addresses \cup {Null}
  BY DEF SafeInv, TypeOK
<1>3. K \in Nat /\ IsFiniteSet(Outside) /\ b # NoBlock
  BY <1>1, <1>2, OutsideFacts
<1>4. PICK L \in [Nat -> Nat], n \in Nat :
        Chain(L, n, memory, head, next) /\ Layout(L, n, Outside, memory)
  BY <1>1 DEF SafeInv, HeapInv
<1>5. b = <<memory, b[2], BlockSize>> /\ b[1] = memory /\ b[3] = BlockSize
  <2>1. b = <<memory, b[2], BlockSize>>
    BY <1>1, <1>4 DEF Layout
  <2> HIDE DEF b
  <2>2. b[1] = memory /\ b[3] = BlockSize
    BY <2>1
  <2> QED  BY <2>1, <2>2
<1>6. a \in Addresses /\ a = <<memory, b[2]>>
  <2>1. b[1] \in Arenas /\ b[2] \in 0 .. ArenaBytes - 1
    BY <1>1, <1>2, OutsideFacts
  <2> QED  BY <1>5, <2>1 DEF Addresses
<1>7. Outside' = Outside \ {b}
  <2>1. /\ \A u \in Threads : block'[u] = IF u = t THEN NoBlock ELSE block[u]
        /\ \A u \in Threads : block[u] = b => u = t
        /\ \A p \in Pointers : ptr[p] # b
    BY <1>2, <1>3, <1>t DEF SafeInv, HolderInv
  <2>2. \A c : c \in Outside <=>
          c # NoBlock /\ ((\E p \in Pointers : ptr[p] = c) \/ \E u \in Threads : block[u] = c)
    BY DEF Outside
  <2>3. \A c : c \in Outside' <=>
          c # NoBlock /\ ((\E p \in Pointers : ptr[p] = c) \/ \E u \in Threads : block'[u] = c)
    BY <1>t DEF Outside
  <2>4. block[t] = b
    OBVIOUS
  <2> HIDE DEF b
  <2>5. \A c : c \in Outside' <=> c \in Outside \ {b}
    BY <2>1, <2>2, <2>3, <2>4
  <2> QED  BY <2>5
<1>8. Cardinality(Outside') = K - 1 /\ K # 0 /\ K <= MostBlocks
  <2>1. Cardinality(Outside') = K - 1
    BY <1>1, <1>3, <1>7, FS_RemoveElement
  <2>2. K # 0
    BY <1>1, <1>3, FS_EmptySet
  <2>3. K <= MostBlocks
    <3>1. n + K <= MostBlocks
      BY <1>4 DEF Layout
    <3> HIDE DEF K
    <3> QED  BY <1>3, <3>1, UseFacts
  <2> QED  BY <2>1, <2>2, <2>3
<1>9. /\ num_free > 0 /\ num_free' = Capacity - (K - 1) * BlockSize
      /\ num_free' \in 0 .. SizeMod - 1
  <2> HIDE DEF b, K
  <2>1. num_free = Capacity - K * BlockSize
    BY <1>1 DEF SafeInv, HeapInv, K
  <2>2. /\ K * BlockSize = (K - 1) * BlockSize + BlockSize
        /\ K * BlockSize <= MostBlocks * BlockSize
        /\ (K - 1) * BlockSize \in Nat /\ K * BlockSize \in Nat
    BY <1>3, <1>8, UseFacts
  <2>3. K * BlockSize < Capacity /\ Capacity < SizeMod /\ SizeMod \in Nat /\ Capacity \in Nat
    BY <2>2, UseFacts, PoolAssumption
  <2> DEFINE x == Capacity - (K - 1) * BlockSize
  <2>4. x \in Nat /\ x < SizeMod /\ num_free + BlockSize = x /\ num_free > 0
    BY <2>1, <2>2, <2>3, UseFacts
  <2> HIDE DEF x
  <2>5. num_free' = x
    BY <1>5, <1>t, <2>4, CountMod, UseFacts
  <2> QED  BY <2>4, <2>5, PoolAssumption DEF x
<1>10. head = <<memory, L[n]>> /\ head \in Addresses
  <2>1. head = <<memory, L[n]>>
    BY <1>4 DEF Chain
  <2>2. Null # <<memory, L[n]>>
    <3>1. L[n] \in 0 .. ArenaBytes - 1
      BY <1>3, <1>4, LayoutBounds
    <3> QED  BY <1>1, <3>1, PoolAssumption DEF Arenas, ArenaBytes
  <2> QED  BY <1>2, <2>1, <2>2
<1>11. next' = [next EXCEPT ![a] = head]
  BY <1>9, <1>t
<1> DEFINE M == [L EXCEPT ![n + 1] = b[2]]
<1>12. /\ M \in [Nat -> Nat] /\ Layout(M, n + 1, Outside', memory)
       /\ b[2] \in Nat /\ \A i \in 0 .. n : Apart(b[2], L[i])
  <2>1. Layout(M, n + 1, Outside \ {b}, memory) /\ M \in [Nat -> Nat]
    BY <1>1, <1>3, <1>4, PutBack
  <2>2. b[2] \in Nat /\ \A i \in 0 .. n : Apart(b[2], L[i])
    BY <1>1, <1>4 DEF Layout
  <2> QED  BY <1>7, <2>1, <2>2
<1> HIDE DEF b
<1>13. Chain(M, n + 1, memory, head', next')
  <2>1. M[n + 1] = b[2] /\ \A i \in 0 .. n : M[i] = L[i]
    BY <1>12
  <2> HIDE DEF M
  <2>2. \A i \in 0 .. n : L[i] # b[2] /\ <<memory, L[i]>> # a
    BY <1>6, <1>12, UseFacts DEF Apart
  <2>3. ASSUME NEW i \in 0 .. n
        PROVE  <<memory, L[i]>> \in Addresses /\ next'[<<memory, L[i]>>] = next[<<memory, L[i]>>]
    <3>1. L[i] \in 0 .. ArenaBytes - 1
      BY <1>3, <1>4, LayoutBounds
    <3>2. <<memory, L[i]>> \in Addresses
      BY <1>1, <3>1 DEF Addresses
    <3> HIDE DEF a
    <3> QED  BY <1>2, <1>11, <2>2, <3>2
  <2>4. next'[a] = head
    BY <1>2, <1>6, <1>11
  <2>5. head' = <<memory, M[n + 1]>>
    BY <1>6, <1>t, <2>1
  <2>6. next'[<<memory, M[0]>>] = Null
    BY <1>4, <2>1, <2>3 DEF Chain
  <2>7. ASSUME NEW i \in 1 .. n + 1
        PROVE  next'[<<memory, M[i]>>] = <<memory, M[i - 1]>>
    <3>1. CASE i = n + 1
      <4>1. i - 1 = n /\ n \in 0 .. n
        BY <3>1
      <4> QED  BY <1>6, <1>10, <2>1, <2>4, <3>1, <4>1
    <3>2. CASE i # n + 1
      <4>1. i \in 0 .. n /\ i \in 1 .. n /\ i - 1 \in 0 .. n
        BY <3>2
      <4>2. next[<<memory, L[i]>>] = <<memory, L[i - 1]>>
        BY <1>4, <4>1 DEF Chain
      <4> QED  BY <2>1, <2>3, <4>1, <4>2
    <3> QED  BY <3>1, <3>2
  <2> QED  BY <2>5, <2>6, <2>7 DEF Chain
<1> HIDE DEF M
<1>14. next' \in [Addresses -> Addresses \cup {Null, Junk}]
  BY <1>2, <1>10, <1>11
<1>15. num_free' = Capacity - Cardinality(Outside') * BlockSize
  BY <1>8, <1>9
<1>16. n + 1 \in Nat
  OBVIOUS
<1> QED  BY <1>6, <1>7, <1>9, <1>12, <1>13, <1>14, <1>15, <1>16, <1>t DEF b

-----------------------------------------------------------------------------
(* Every step keeps the invariant.                                         *)

LEMMA NextCases ==
  ASSUME Next
  PROVE  \/ Create \/ Destroy
         \/ \E t \in Threads :
              \/ SetCount(t) \/ SetMemory(t) \/ SetHead(t) \/ TerminateList(t)
              \/ AllocateBlock(t) \/ WriteObject(t) \/ FreeBlock(t)
              \/ \E p \in Pointers : FreeMemory(t, p) \/ \E n \in Sizes : AllocateMemory(t, p, n)
BY DEF Next, CreateStep

LEMMA TypeStep ==
  ASSUME SafeUse, SafeInv, Next
  PROVE  TypeOK'
<1> DEFINE PCs == {"idle", "count", "malloc", "head", "terminate", "take", "write", "put"}
<1>t. /\ memory \in 0 .. MaxArena /\ mallocs \in 0 .. MaxArena
      /\ head \in Addresses \cup {Null} /\ num_free \in 0 .. SizeMod - 1
      /\ next \in [Addresses -> Addresses \cup {Null, Junk}]
      /\ pc \in [Threads -> PCs] /\ size \in [Threads -> Sizes \cup {0}]
      /\ target \in [Threads -> Pointers \cup {NoPointer}]
      /\ block \in [Threads -> Blocks \cup {NoBlock}] /\ ptr \in [Pointers -> Blocks \cup {NoBlock}]
      /\ ready \in BOOLEAN /\ broken \in BOOLEAN
  BY DEF SafeInv, TypeOK
<1>m. /\ Main \in Threads /\ MaxArena \in Nat
      /\ SizeMod \in Nat /\ Capacity \in Nat /\ Capacity < SizeMod
  BY PoolAssumption
<1>g. ASSUME NEW t \in Threads, NEW from, NEW to \in PCs, Go(t, from, to)
      PROVE  pc' \in [Threads -> PCs]
  BY <1>g, <1>t DEF Go
<1>1. CASE Create
  <2>1. pc' \in [Threads -> PCs]
    BY <1>1, <1>m, <1>g DEF Create
  <2> QED  BY <1>1, <1>t, <2>1 DEF Create, TypeOK
<1>2. CASE Destroy
  <2>1. /\ memory' = 0 /\ ready' = FALSE /\ next' = [a \in Addresses |-> Junk]
        /\ UNCHANGED <<head, num_free, mallocs, pc, size, target, block, broken, ptr>>
    BY <1>2 DEF Destroy
  <2>2. memory' \in 0 .. MaxArena /\ next' \in [Addresses -> Addresses \cup {Null, Junk}]
    BY <1>m, <2>1
  <2> QED  BY <1>t, <2>1, <2>2 DEF TypeOK
<1>3. ASSUME NEW t \in Threads, SetCount(t)  PROVE TypeOK'
  <2>1. pc' \in [Threads -> PCs] /\ num_free' \in 0 .. SizeMod - 1
    BY <1>3, <1>g, <1>m DEF SetCount
  <2> QED  BY <1>3, <1>t, <2>1 DEF SetCount, TypeOK
<1>4. ASSUME NEW t \in Threads, SetMemory(t)  PROVE TypeOK'
  <2>1. pc' \in [Threads -> PCs] /\ memory' \in 0 .. MaxArena /\ mallocs' \in 0 .. MaxArena
    BY <1>4, <1>g, <1>t, <1>m DEF SetMemory
  <2> QED  BY <1>4, <1>t, <2>1 DEF SetMemory, TypeOK
<1>5. ASSUME NEW t \in Threads, SetHead(t)  PROVE TypeOK'
  <2>1. pc' \in [Threads -> PCs]
    BY <1>5, <1>g DEF SetHead
  <2>2. head' \in Addresses
    <3>1. pc[t] = "head"
      BY <1>5 DEF SetHead, Go
    <3>2. pc[t] \in Creating
      BY <3>1 DEF Creating
    <3>3. t = Main /\ ~ready
      BY <3>2 DEF SafeInv, PhaseInv
    <3>4. memory # 0
      BY <3>1, <3>3 DEF SafeInv, PhaseInv
    <3> QED  BY <1>5, <1>t, <1>m, <3>4, UseFacts DEF SetHead, Addresses, Arenas
  <2> QED  BY <1>5, <1>t, <2>1, <2>2 DEF SetHead, TypeOK
<1>6. ASSUME NEW t \in Threads, TerminateList(t)  PROVE TypeOK'
  <2>1. pc' \in [Threads -> PCs]
    BY <1>6, <1>g DEF TerminateList
  <2> QED  BY <1>6, <1>t, <2>1 DEF TerminateList, TypeOK
<1>7. ASSUME NEW t \in Threads, AllocateBlock(t)  PROVE TypeOK'
  <2>1. pc' \in [Threads -> PCs]
    BY <1>7, <1>g DEF AllocateBlock
  <2>2. PICK b \in Blocks :
          /\ ptr' = [ptr EXCEPT ![target[t]] = b] /\ num_free' \in 0 .. SizeMod - 1
          /\ next' \in [Addresses -> Addresses \cup {Null, Junk}]
          /\ head' \in Addresses /\ broken' = broken
    BY <1>7, AllocateEffect
  <2>3. ptr' \in [Pointers -> Blocks \cup {NoBlock}] /\ size' \in [Threads -> Sizes \cup {0}]
    BY <1>7, <1>t, <2>2, ZenonT(60) DEF AllocateBlock
  <2> QED  BY <1>7, <1>t, <2>1, <2>2, <2>3 DEF AllocateBlock, TypeOK
<1>8. ASSUME NEW t \in Threads, WriteObject(t)  PROVE TypeOK'
  <2>1. pc' \in [Threads -> PCs]
    BY <1>8, <1>g DEF WriteObject
  <2> QED  BY <1>8, <1>t, <2>1 DEF WriteObject, TypeOK
<1>9. ASSUME NEW t \in Threads, FreeBlock(t)  PROVE TypeOK'
  <2>1. pc' \in [Threads -> PCs]
    BY <1>9, <1>g DEF FreeBlock
  <2>2. /\ num_free' \in 0 .. SizeMod - 1
        /\ next' \in [Addresses -> Addresses \cup {Null, Junk}] /\ head' \in Addresses
    BY <1>9, FreeEffect
  <2>3. block' \in [Threads -> Blocks \cup {NoBlock}]
    BY <1>9, <1>t DEF FreeBlock
  <2> QED  BY <1>9, <1>t, <2>1, <2>2, <2>3 DEF FreeBlock, TypeOK
<1>10. ASSUME NEW t \in Threads, NEW p \in Pointers, FreeMemory(t, p)  PROVE TypeOK'
  <2>1. pc' \in [Threads -> PCs]
    BY <1>10, <1>g DEF FreeMemory
  <2>2. /\ block' \in [Threads -> Blocks \cup {NoBlock}]
        /\ ptr' \in [Pointers -> Blocks \cup {NoBlock}]
    BY <1>10, <1>t DEF FreeMemory
  <2> QED  BY <1>10, <1>t, <2>1, <2>2 DEF FreeMemory, TypeOK
<1>11. ASSUME NEW t \in Threads, NEW p \in Pointers, NEW n \in Sizes, AllocateMemory(t, p, n)
       PROVE  TypeOK'
  <2>1. pc' \in [Threads -> PCs]
    BY <1>11, <1>g DEF AllocateMemory
  <2>2. /\ size' \in [Threads -> Sizes \cup {0}]
        /\ target' \in [Threads -> Pointers \cup {NoPointer}]
    BY <1>11, <1>t DEF AllocateMemory
  <2> QED  BY <1>11, <1>t, <2>1, <2>2 DEF AllocateMemory, TypeOK
<1> QED  BY <1>1, <1>2, <1>3, <1>4, <1>5, <1>6, <1>7, <1>8, <1>9, <1>10, <1>11, NextCases

LEMMA HolderStep ==
  ASSUME SafeUse, SafeInv, Next
  PROVE  HolderInv'
<1>t. /\ ptr \in [Pointers -> Blocks \cup {NoBlock}] /\ block \in [Threads -> Blocks \cup {NoBlock}]
      /\ HolderInv
  BY DEF SafeInv, TypeOK
<1>1. CASE UNCHANGED <<ptr, block>>
  BY <1>1, <1>t DEF HolderInv
<1>2. ASSUME NEW t \in Threads, AllocateBlock(t)  PROVE HolderInv'
  <2>1. PICK b \in Blocks : ptr' = [ptr EXCEPT ![target[t]] = b] /\ b \notin Outside
    BY <1>2, AllocateEffect
  <2>2. b # NoBlock /\ (\A p \in Pointers : ptr[p] # b) /\ (\A u \in Threads : block[u] # b)
    BY <2>1, OutsideFacts DEF Outside, SafeInv
  <2>3. block' = block
    BY <1>2 DEF AllocateBlock
  <2>4. \A p \in Pointers : ptr'[p] = ptr[p] \/ (p = target[t] /\ ptr'[p] = b)
    BY <1>t, <2>1
  <2> QED  BY <1>t, <2>2, <2>3, <2>4 DEF HolderInv
<1>3. ASSUME NEW t \in Threads, FreeBlock(t)  PROVE HolderInv'
  <2>1. ptr' = ptr /\ \A u \in Threads : block'[u] = block[u] \/ block'[u] = NoBlock
    BY <1>3, <1>t DEF FreeBlock
  <2> QED  BY <1>t, <2>1 DEF HolderInv
<1>4. ASSUME NEW t \in Threads, NEW p \in Pointers, FreeMemory(t, p)  PROVE HolderInv'
  <2>1. /\ \A u \in Threads : block'[u] = IF u = t THEN ptr[p] ELSE block[u]
        /\ \A q \in Pointers : ptr'[q] = IF q = p THEN NoBlock ELSE ptr[q]
        /\ ptr[p] # NoBlock
    BY <1>4, <1>t DEF FreeMemory
  <2> QED  BY <1>t, <2>1 DEF HolderInv
<1>5. CASE Create \/ Destroy
  BY <1>1, <1>5 DEF Create, Destroy
<1>6. ASSUME NEW t \in Threads,
             \/ SetCount(t) \/ SetMemory(t) \/ SetHead(t) \/ TerminateList(t) \/ WriteObject(t)
             \/ \E p \in Pointers, n \in Sizes : AllocateMemory(t, p, n)
      PROVE  HolderInv'
  BY <1>1, <1>6 DEF SetCount, SetMemory, SetHead, TerminateList, WriteObject, AllocateMemory
<1> QED  BY <1>2, <1>3, <1>4, <1>5, <1>6, NextCases

(* PhaseInv in three parts: each thread, the pool before it is ready, and  *)
(* the pool when it is.                                                    *)
ThreadInv(t) ==
  /\ pc[t] \in Creating => t = Main /\ ~ready
  /\ block[t] # NoBlock <=> pc[t] = "put"
  /\ pc[t] = "take" => size[t] = BlockSize
  /\ size[t] # 0 <=> target[t] # NoPointer /\ ptr[target[t]] = NoBlock
  /\ pc[t] \in {"idle", "put"} => target[t] = NoPointer
  /\ pc[t] = "write" => target[t] # NoPointer /\ ptr[target[t]] # NoBlock
  /\ \A u \in Threads : target[t] = target[u] => t = u \/ target[t] = NoPointer

BuildInv ==
  ~ready =>
    /\ \A t \in Threads : t = Main \/ pc[t] = "idle"
    /\ pc[Main] \in {"idle"} \cup Creating
    /\ \A p \in Pointers : ptr[p] = NoBlock
    /\ memory # 0 <=> pc[Main] \in {"head", "terminate"}
    /\ pc[Main] \in Creating \ {"count"} => num_free = Capacity
    /\ pc[Main] = "terminate" => head = <<memory, 0>>

LEMMA PhaseParts ==
  PhaseInv <=> /\ \A t \in Threads : ThreadInv(t)
               /\ BuildInv /\ (ready => memory # 0) /\ ~broken
BY DEF PhaseInv, ThreadInv, BuildInv

LEMMA ThreadStep ==
  ASSUME SafeUse, SafeInv, Next, NEW t \in Threads
  PROVE  ThreadInv(t)'
<1> DEFINE PCs == {"idle", "count", "malloc", "head", "terminate", "take", "write", "put"}
<1>t. /\ pc \in [Threads -> PCs] /\ size \in [Threads -> Sizes \cup {0}]
      /\ target \in [Threads -> Pointers \cup {NoPointer}]
      /\ block \in [Threads -> Blocks \cup {NoBlock}] /\ ptr \in [Pointers -> Blocks \cup {NoBlock}]
      /\ ready \in BOOLEAN
  BY DEF SafeInv, TypeOK
<1>i. /\ \A u \in Threads : ThreadInv(u)
      /\ BuildInv /\ (ready => memory # 0)
  BY PhaseParts DEF SafeInv
<1>m. Main \in Threads /\ NoPointer \notin Pointers
  BY PoolAssumption
<1>g. ASSUME NEW u \in Threads, NEW from, NEW to, Go(u, from, to)
      PROVE  pc[u] = from /\ \A v \in Threads : pc'[v] = IF v = u THEN to ELSE pc[v]
  BY <1>g, <1>t DEF Go
<1>1. CASE Create
  <2>1. /\ pc[Main] = "idle" /\ UNCHANGED <<memory, size, target, block, ready, ptr>>
        /\ \A v \in Threads :
             pc'[v] = IF v = Main THEN IF memory = 0 THEN "count" ELSE "idle" ELSE pc[v]
    BY <1>1, <1>g, <1>m DEF Create
  <2>2. pc'[t] \in Creating => t = Main /\ ~ready
    BY <1>i, <2>1 DEF ThreadInv, Creating
  <2> QED  BY <1>i, <2>1, <2>2 DEF ThreadInv
<1>2. CASE Destroy
  BY <1>2, <1>i DEF Destroy, ThreadInv, Creating
<1>3. ASSUME NEW u \in Threads, SetCount(u) \/ SetMemory(u) \/ SetHead(u)
      PROVE  ThreadInv(t)'
  <2>1. /\ pc[u] \in Creating /\ pc'[u] \in Creating
        /\ \A v \in Threads : v # u => pc'[v] = pc[v]
        /\ UNCHANGED <<size, target, block, ready, ptr>>
    BY <1>3, <1>g DEF SetCount, SetMemory, SetHead, Creating
  <2>2. u = Main /\ ~ready
    BY <1>i, <2>1 DEF ThreadInv
  <2> QED  BY <1>i, <2>1, <2>2 DEF ThreadInv, Creating
<1>4. ASSUME NEW u \in Threads, TerminateList(u)  PROVE ThreadInv(t)'
  <2>1. /\ pc[u] = "terminate" /\ ready'
        /\ \A v \in Threads :
             pc'[v] = IF v = u THEN IF size[u] = 0 THEN "idle" ELSE "take" ELSE pc[v]
        /\ UNCHANGED <<size, target, block, ptr>>
    BY <1>4, <1>g DEF TerminateList
  <2>2. u = Main /\ ~ready
    BY <1>i, <2>1 DEF ThreadInv, Creating
  <2>3. t # u => pc[t] = "idle"
    BY <1>i, <2>2 DEF BuildInv
  <2>4. \A p \in Pointers : ptr[p] = NoBlock
    BY <1>i, <2>2 DEF BuildInv
  <2>5. size[u] # 0 => size[u] = BlockSize
    BY <1>t DEF SafeUse
  <2>6. size[u] = 0 => target[u] = NoPointer
    BY <1>i, <1>t, <2>4 DEF ThreadInv
  <2> QED  BY <1>i, <2>1, <2>3, <2>5, <2>6 DEF ThreadInv, Creating
<1>5. ASSUME NEW u \in Threads, AllocateBlock(u)  PROVE ThreadInv(t)'
  <2>1. /\ pc[u] = "take" /\ \A v \in Threads : pc'[v] = IF v = u THEN "write" ELSE pc[v]
        /\ \A v \in Threads : size'[v] = IF v = u THEN 0 ELSE size[v]
        /\ UNCHANGED <<target, block, ready>>
    BY <1>5, <1>g, <1>t DEF AllocateBlock
  <2>2. PICK b \in Blocks : ptr' = [ptr EXCEPT ![target[u]] = b]
    BY <1>5, AllocateEffect
  <2>3. target[u] \in Pointers /\ b # NoBlock
    BY <2>1, WhoTakes, OutsideFacts DEF SafeInv
  <2>4. ptr'[target[u]] = b /\ \A p : p # target[u] => ptr'[p] = ptr[p]
    BY <1>t, <2>2, <2>3
  <2>5. t # u => target[t] # target[u]
    BY <1>i, <1>m, <2>3 DEF ThreadInv
  <2> QED  BY <1>i, <1>m, <2>1, <2>3, <2>4, <2>5 DEF ThreadInv, Creating
<1>6. ASSUME NEW u \in Threads, WriteObject(u)  PROVE ThreadInv(t)'
  <2>1. /\ pc[u] = "write" /\ \A v \in Threads : pc'[v] = IF v = u THEN "idle" ELSE pc[v]
        /\ \A v \in Threads : target'[v] = IF v = u THEN NoPointer ELSE target[v]
        /\ UNCHANGED <<size, block, ready, ptr>>
    BY <1>6, <1>g, <1>t DEF WriteObject
  <2>2. size[u] = 0
    BY <1>i, <2>1 DEF ThreadInv
  <2> QED  BY <1>i, <2>1, <2>2 DEF ThreadInv, Creating
<1>7. ASSUME NEW u \in Threads, FreeBlock(u)  PROVE ThreadInv(t)'
  <2>1. /\ pc[u] = "put" /\ \A v \in Threads : pc'[v] = IF v = u THEN "idle" ELSE pc[v]
        /\ \A v \in Threads : block'[v] = IF v = u THEN NoBlock ELSE block[v]
        /\ UNCHANGED <<size, target, ready, ptr>>
    BY <1>7, <1>g, <1>t DEF FreeBlock
  <2> QED  BY <1>i, <2>1 DEF ThreadInv, Creating
<1>8. ASSUME NEW u \in Threads, NEW p \in Pointers, FreeMemory(u, p)  PROVE ThreadInv(t)'
  <2>1. /\ pc[u] = "idle" /\ \A v \in Threads : pc'[v] = IF v = u THEN "put" ELSE pc[v]
        /\ \A v \in Threads : block'[v] = IF v = u THEN ptr[p] ELSE block[v]
        /\ ptr[p] # NoBlock /\ \A v \in Threads : target[v] # p
        /\ UNCHANGED <<size, target, ready>>
    BY <1>8, <1>g, <1>t DEF FreeMemory, Unused
  <2>2. ptr'[target[t]] = ptr[target[t]]
    BY <1>8, <1>t, <2>1 DEF FreeMemory
  <2> QED  BY <1>i, <2>1, <2>2 DEF ThreadInv, Creating
<1>9. ASSUME NEW u \in Threads, NEW p \in Pointers, NEW n \in Sizes, AllocateMemory(u, p, n)
      PROVE  ThreadInv(t)'
  <2>1. /\ pc[u] = "idle"
        /\ \A v \in Threads :
             pc'[v] = IF v = u THEN IF memory = 0 THEN "count" ELSE "take" ELSE pc[v]
        /\ \A v \in Threads : size'[v] = IF v = u THEN n ELSE size[v]
        /\ \A v \in Threads : target'[v] = IF v = u THEN p ELSE target[v]
        /\ ptr[p] = NoBlock /\ \A v \in Threads : target[v] # p
        /\ UNCHANGED <<block, ready, ptr, memory>>
    BY <1>9, <1>g, <1>t DEF AllocateMemory, Unused
  <2>2. n = BlockSize /\ n # 0
    BY UseFacts DEF SafeUse
  <2>3. memory = 0 => u = Main /\ ~ready
    BY <1>9, <1>i DEF AllocateMemory, MayUse, SafeUse
  <2> QED  BY <1>i, <1>m, <2>1, <2>2, <2>3 DEF ThreadInv, Creating
<1> QED  BY <1>1, <1>2, <1>3, <1>4, <1>5, <1>6, <1>7, <1>8, <1>9, NextCases

LEMMA BuildStep ==
  ASSUME SafeUse, SafeInv, Next
  PROVE  BuildInv' /\ (ready' => memory' # 0) /\ ~broken'
<1> DEFINE PCs == {"idle", "count", "malloc", "head", "terminate", "take", "write", "put"}
<1>t. /\ pc \in [Threads -> PCs] /\ ready \in BOOLEAN /\ mallocs \in 0 .. MaxArena
      /\ ptr \in [Pointers -> Blocks \cup {NoBlock}]
  BY DEF SafeInv, TypeOK
<1>i. /\ \A u \in Threads : ThreadInv(u)
      /\ BuildInv /\ (ready => memory # 0) /\ ~broken
  BY PhaseParts DEF SafeInv
<1>m. Main \in Threads
  BY PoolAssumption
<1>g. ASSUME NEW u \in Threads, NEW from, NEW to, Go(u, from, to)
      PROVE  pc[u] = from /\ \A v \in Threads : pc'[v] = IF v = u THEN to ELSE pc[v]
  BY <1>g, <1>t DEF Go
<1>c. ASSUME NEW u \in Threads, pc[u] \in Creating
      PROVE  /\ u = Main /\ ~ready
             /\ \A v \in Threads : v # Main => pc[v] = "idle"
             /\ \A p \in Pointers : ptr[p] = NoBlock
  BY <1>c, <1>i DEF ThreadInv, BuildInv
<1>1. CASE Create
  <2>1. /\ pc[Main] = "idle" /\ UNCHANGED <<memory, head, num_free, ready, broken, ptr>>
        /\ \A v \in Threads :
             pc'[v] = IF v = Main THEN IF memory = 0 THEN "count" ELSE "idle" ELSE pc[v]
    BY <1>1, <1>g, <1>m DEF Create
  <2>2. ~ready => memory = 0
    BY <1>i, <2>1 DEF BuildInv
  <2> QED  BY <1>i, <1>m, <2>1, <2>2 DEF BuildInv, Creating
<1>2. CASE Destroy
  <2>1. /\ \A t \in Threads : pc[t] = "idle" /\ \A p \in Pointers : ptr[p] = NoBlock
        /\ memory' = 0 /\ ready' = FALSE /\ UNCHANGED <<pc, broken, ptr>>
    BY <1>2 DEF Destroy
  <2> QED  BY <1>i, <1>m, <2>1 DEF BuildInv, Creating
<1>3. ASSUME NEW u \in Threads, SetCount(u)
      PROVE  BuildInv' /\ (ready' => memory' # 0) /\ ~broken'
  <2>1. /\ pc[u] = "count" /\ \A v \in Threads : pc'[v] = IF v = u THEN "malloc" ELSE pc[v]
        /\ num_free' = Capacity /\ UNCHANGED <<memory, head, ready, broken, ptr>>
    BY <1>3, <1>g DEF SetCount
  <2>2. u = Main /\ ~ready /\ \A v \in Threads : v # Main => pc[v] = "idle"
    BY <1>c, <2>1 DEF Creating
  <2> QED  BY <1>i, <1>m, <2>1, <2>2 DEF BuildInv, Creating
<1>4. ASSUME NEW u \in Threads, SetMemory(u)
      PROVE  BuildInv' /\ (ready' => memory' # 0) /\ ~broken'
  <2>1. /\ pc[u] = "malloc" /\ \A v \in Threads : pc'[v] = IF v = u THEN "head" ELSE pc[v]
        /\ memory' = mallocs + 1 /\ UNCHANGED <<head, num_free, ready, broken, ptr>>
    BY <1>4, <1>g DEF SetMemory
  <2>2. u = Main /\ ~ready /\ \A v \in Threads : v # Main => pc[v] = "idle"
    BY <1>c, <2>1 DEF Creating
  <2>3. memory' # 0
    BY <1>t, <2>1
  <2> QED  BY <1>i, <1>m, <2>1, <2>2, <2>3 DEF BuildInv, Creating
<1>5. ASSUME NEW u \in Threads, SetHead(u)
      PROVE  BuildInv' /\ (ready' => memory' # 0) /\ ~broken'
  <2>1. /\ pc[u] = "head" /\ \A v \in Threads : pc'[v] = IF v = u THEN "terminate" ELSE pc[v]
        /\ head' = <<memory, 0>> /\ UNCHANGED <<memory, num_free, ready, broken, ptr>>
    BY <1>5, <1>g DEF SetHead
  <2>2. u = Main /\ ~ready /\ \A v \in Threads : v # Main => pc[v] = "idle"
    BY <1>c, <2>1 DEF Creating
  <2> QED  BY <1>i, <1>m, <2>1, <2>2 DEF BuildInv, Creating
<1>6. ASSUME NEW u \in Threads, TerminateList(u)
      PROVE  BuildInv' /\ (ready' => memory' # 0) /\ ~broken'
  <2>1. pc[u] = "terminate" /\ ready' = TRUE /\ UNCHANGED <<memory, broken>>
    BY <1>6, <1>g DEF TerminateList
  <2>2. u = Main /\ ~ready
    BY <1>c, <2>1 DEF Creating
  <2> QED  BY <1>i, <2>1, <2>2 DEF BuildInv
<1>7. ASSUME NEW u \in Threads, AllocateBlock(u)
      PROVE  BuildInv' /\ (ready' => memory' # 0) /\ ~broken'
  <2>1. pc[u] = "take" /\ UNCHANGED <<memory, ready>>
    BY <1>7, <1>g DEF AllocateBlock
  <2>2. ready
    BY <2>1, WhoTakes
  <2>3. broken' = broken
    BY <1>7, AllocateEffect
  <2> QED  BY <1>i, <2>1, <2>2, <2>3 DEF BuildInv
<1>8. ASSUME NEW u \in Threads,
             WriteObject(u) \/ FreeBlock(u) \/ \E p \in Pointers : FreeMemory(u, p)
      PROVE  BuildInv' /\ (ready' => memory' # 0) /\ ~broken'
  <2>1. UNCHANGED <<memory, ready, broken>>
    BY <1>8 DEF WriteObject, FreeBlock, FreeMemory
  <2>2. ready
    <3>1. CASE WriteObject(u) \/ FreeBlock(u)
      <4>1. pc[u] \in {"write", "put"}
        BY <3>1, <1>g DEF WriteObject, FreeBlock
      <4> QED  BY <1>i, <1>t, <4>1 DEF BuildInv, Creating
    <3>2. CASE \E p \in Pointers : FreeMemory(u, p)
      BY <1>i, <3>2 DEF FreeMemory, BuildInv
    <3> QED  BY <1>8, <3>1, <3>2
  <2> QED  BY <1>i, <2>1, <2>2 DEF BuildInv
<1>9. ASSUME NEW u \in Threads, NEW p \in Pointers, NEW n \in Sizes, AllocateMemory(u, p, n)
      PROVE  BuildInv' /\ (ready' => memory' # 0) /\ ~broken'
  <2>1. /\ pc[u] = "idle"
        /\ \A v \in Threads :
             pc'[v] = IF v = u THEN IF memory = 0 THEN "count" ELSE "take" ELSE pc[v]
        /\ UNCHANGED <<memory, head, num_free, ready, broken, ptr>>
    BY <1>9, <1>g DEF AllocateMemory
  <2>2. ~ready => u = Main /\ memory = 0
    BY <1>9, <1>i, <2>1 DEF AllocateMemory, MayUse, SafeUse, BuildInv
  <2> QED  BY <1>i, <1>m, <2>1, <2>2 DEF BuildInv, Creating
<1> QED  BY <1>1, <1>2, <1>3, <1>4, <1>5, <1>6, <1>7, <1>8, <1>9, NextCases

LEMMA PhaseStep ==
  ASSUME SafeUse, SafeInv, Next
  PROVE  PhaseInv'
<1>1. \A t \in Threads : ThreadInv(t)'
  BY ThreadStep
<1>2. BuildInv' /\ (ready' => memory' # 0) /\ ~broken'
  BY BuildStep
<1> QED  BY <1>1, <1>2 DEF PhaseInv, ThreadInv, BuildInv

LEMMA HeapStep ==
  ASSUME SafeUse, SafeInv, Next
  PROVE  HeapInv'
<1>t. /\ next \in [Addresses -> Addresses \cup {Null, Junk}] /\ TypeOK
      /\ ptr \in [Pointers -> Blocks \cup {NoBlock}] /\ block \in [Threads -> Blocks \cup {NoBlock}]
  BY DEF SafeInv, TypeOK
<1>i. PhaseInv /\ HeapInv
  BY DEF SafeInv
<1>1. ASSUME UNCHANGED <<memory, head, num_free, next, ready, ptr, block>>  PROVE HeapInv'
  <2>1. Outside' = Outside
    BY <1>1 DEF Outside
  <2> QED  BY <1>1, <1>i, <2>1 DEF HeapInv
<1>2. CASE Destroy
  BY <1>2 DEF Destroy, HeapInv
<1>3. ASSUME NEW t \in Threads, SetCount(t) \/ SetMemory(t) \/ SetHead(t)  PROVE HeapInv'
  <2>1. pc[t] \in Creating /\ ready' = ready
    BY <1>3 DEF SetCount, SetMemory, SetHead, Go, Creating
  <2>2. ~ready
    BY <1>i, <2>1 DEF PhaseInv
  <2> QED  BY <2>1, <2>2 DEF HeapInv
<1>4. ASSUME NEW t \in Threads, TerminateList(t)  PROVE HeapInv'
  <2>1. /\ pc[t] = "terminate" /\ next' = [next EXCEPT ![head] = Null]
        /\ UNCHANGED <<memory, head, num_free, ptr, block>>
    BY <1>4 DEF TerminateList, Go
  <2>2. t = Main /\ ~ready
    BY <1>i, <2>1 DEF PhaseInv, Creating
  <2>3. /\ memory # 0 /\ head = <<memory, 0>> /\ num_free = Capacity
        /\ \A p \in Pointers : ptr[p] = NoBlock
        /\ \A u \in Threads : block[u] = NoBlock
    <3>1. \A u \in Threads : pc[u] # "put"
      BY <1>i, <2>1, <2>2 DEF PhaseInv
    <3> QED  BY <1>i, <2>1, <2>2, <3>1 DEF PhaseInv, Creating
  <2>4. Outside' = {}
    BY <2>1, <2>3 DEF Outside
  <2>5. head \in Addresses
    <3>1. memory \in Arenas
      BY <1>t, <2>3 DEF TypeOK, Arenas
    <3> QED  BY <2>3, <3>1, UseFacts DEF Addresses
  <2> DEFINE L == [i \in Nat |-> 0]
  <2>6. L \in [Nat -> Nat] /\ Chain(L, 0, memory', head', next')
    BY <1>t, <2>1, <2>3, <2>5 DEF Chain
  <2>7. Layout(L, 0, {}, memory')
    <3>1. Cardinality({}) = 0 /\ L[0] = 0
      BY FS_EmptySet
    <3> HIDE DEF L
    <3> QED  BY <3>1, UseFacts DEF Layout
  <2>8. num_free' = Capacity - Cardinality(Outside') * BlockSize
    BY <2>1, <2>3, <2>4, FS_EmptySet, UseFacts
  <2> HIDE DEF L
  <2> QED  BY <2>4, <2>6, <2>7, <2>8 DEF HeapInv
<1>5. ASSUME NEW t \in Threads, AllocateBlock(t)  PROVE HeapInv'
  <2>1. memory' = memory
    BY <1>5 DEF AllocateBlock
  <2>2. /\ num_free' = Capacity - Cardinality(Outside') * BlockSize
        /\ \E L \in [Nat -> Nat], n \in Nat :
             Chain(L, n, memory, head', next') /\ Layout(L, n, Outside', memory)
    BY <1>5, AllocateEffect
  <2> QED  BY <2>1, <2>2 DEF HeapInv
<1>6. ASSUME NEW t \in Threads, FreeBlock(t)  PROVE HeapInv'
  <2>1. memory' = memory
    BY <1>6 DEF FreeBlock
  <2>2. /\ num_free' = Capacity - Cardinality(Outside') * BlockSize
        /\ \E L \in [Nat -> Nat], n \in Nat :
             Chain(L, n, memory, head', next') /\ Layout(L, n, Outside', memory)
    BY <1>6, FreeEffect
  <2> QED  BY <2>1, <2>2 DEF HeapInv
<1>7. ASSUME NEW t \in Threads, WriteObject(t)  PROVE HeapInv'
  <2> DEFINE b == ptr[target[t]]
  <2>1. /\ pc[t] = "write"
        /\ next' = [a \in Addresses |-> IF Touches(b, a) THEN Junk ELSE next[a]]
        /\ UNCHANGED <<memory, head, num_free, ready, ptr, block>>
    BY <1>7 DEF WriteObject, Go
  <2>2. Outside' = Outside
    BY <2>1 DEF Outside
  <2> SUFFICES ASSUME ready  PROVE HeapInv'
    BY <2>1 DEF HeapInv
  <2>3. b \in Outside
    <3>1. target[t] # NoPointer /\ b # NoBlock
      BY <1>i, <2>1 DEF PhaseInv
    <3>2. target[t] \in Pointers
      BY <1>t, <3>1 DEF TypeOK
    <3> QED  BY <3>1, <3>2 DEF Outside
  <2>4. PICK L \in [Nat -> Nat], n \in Nat :
          Chain(L, n, memory, head, next) /\ Layout(L, n, Outside, memory)
    BY <1>i DEF HeapInv
  <2>5. memory \in Arenas
    BY <1>i, <1>t DEF PhaseInv, TypeOK, Arenas
  <2>6. ASSUME NEW i \in 0 .. n
        PROVE  next'[<<memory, L[i]>>] = next[<<memory, L[i]>>]
    <3>1. L[i] \in 0 .. ArenaBytes - 1
      BY <1>t, <2>4, LayoutBounds, OutsideFacts
    <3>2. <<memory, L[i]>> \in Addresses
      BY <2>5, <3>1 DEF Addresses
    <3>3. /\ b = <<memory, b[2], BlockSize>> /\ b[2] \in Nat /\ Apart(b[2], L[i])
      BY <2>3, <2>4 DEF Layout
    <3> HIDE DEF b
    <3>4. b[3] = BlockSize
      BY <3>3
    <3>5. ~Touches(b, <<memory, L[i]>>)
      BY <3>1, <3>3, <3>4, UseFacts DEF Touches, Apart
    <3> QED  BY <2>1, <3>2, <3>5
  <2>7. Chain(L, n, memory, head, next')
    <3>1. 0 \in 0 .. n /\ 1 .. n \subseteq 0 .. n
      OBVIOUS
    <3> QED  BY <2>4, <2>6, <3>1 DEF Chain
  <2> QED  BY <1>i, <2>1, <2>2, <2>4, <2>7 DEF HeapInv
<1>8. ASSUME NEW t \in Threads, NEW p \in Pointers, FreeMemory(t, p)  PROVE HeapInv'
  <2>1. /\ pc[t] = "idle" /\ ptr[p] # NoBlock
        /\ block' = [block EXCEPT ![t] = ptr[p]] /\ ptr' = [ptr EXCEPT ![p] = NoBlock]
        /\ UNCHANGED <<memory, head, num_free, next, ready>>
    BY <1>8 DEF FreeMemory, Go
  <2>2. block[t] = NoBlock
    BY <1>i, <2>1 DEF PhaseInv
  <2>3. Outside' = Outside
    <3>1. /\ \A u \in Threads : block'[u] = IF u = t THEN ptr[p] ELSE block[u]
          /\ \A q \in Pointers : ptr'[q] = IF q = p THEN NoBlock ELSE ptr[q]
      BY <1>t, <2>1
    <3>2. \A c : c \in Outside <=>
            c # NoBlock /\ ((\E q \in Pointers : ptr[q] = c) \/ \E u \in Threads : block[u] = c)
      BY DEF Outside
    <3>3. \A c : c \in Outside' <=>
            c # NoBlock /\ ((\E q \in Pointers : ptr'[q] = c) \/ \E u \in Threads : block'[u] = c)
      BY DEF Outside
    <3>4. \A c : c \in Outside' <=> c \in Outside
      BY <2>2, <3>1, <3>2, <3>3
    <3> QED  BY <3>4
  <2> QED  BY <1>i, <2>1, <2>3 DEF HeapInv
<1>9. CASE Create
  BY <1>1, <1>9 DEF Create
<1>10. ASSUME NEW t \in Threads, NEW p \in Pointers, NEW n \in Sizes, AllocateMemory(t, p, n)
       PROVE  HeapInv'
  BY <1>1, <1>10 DEF AllocateMemory
<1> QED  BY <1>2, <1>3, <1>4, <1>5, <1>6, <1>7, <1>8, <1>9, <1>10, NextCases

LEMMA SafeInvInit == Init => SafeInv
<1> SUFFICES ASSUME Init  PROVE SafeInv
  OBVIOUS
<1>1. /\ memory = 0 /\ head = Null /\ num_free = 0 /\ mallocs = 0
      /\ next = [a \in Addresses |-> Junk]
      /\ pc = [t \in Threads |-> "idle"] /\ size = [t \in Threads |-> 0]
      /\ target = [t \in Threads |-> NoPointer] /\ block = [t \in Threads |-> NoBlock]
      /\ ready = FALSE /\ broken = FALSE /\ ptr = [p \in Pointers |-> NoBlock]
  BY DEF Init
<1>2. Main \in Threads /\ MaxArena \in Nat /\ SizeMod \in Nat /\ SizeMod > 0
  BY PoolAssumption
<1>3. TypeOK
  <2>1. /\ memory \in 0 .. MaxArena /\ mallocs \in 0 .. MaxArena /\ num_free \in 0 .. SizeMod - 1
        /\ next \in [Addresses -> Addresses \cup {Null, Junk}]
    BY <1>1, <1>2
  <2>2. /\ size \in [Threads -> Sizes \cup {0}]
        /\ target \in [Threads -> Pointers \cup {NoPointer}]
        /\ block \in [Threads -> Blocks \cup {NoBlock}]
        /\ ptr \in [Pointers -> Blocks \cup {NoBlock}]
    BY <1>1
  <2> QED  BY <1>1, <2>1, <2>2 DEF TypeOK
<1>4. PhaseInv
  BY <1>1, <1>2 DEF PhaseInv, Creating
<1>5. HolderInv /\ HeapInv
  BY <1>1 DEF HolderInv, HeapInv
<1> QED  BY <1>3, <1>4, <1>5 DEF SafeInv

LEMMA SafeInvStep ==
  ASSUME SafeUse
  PROVE  SafeInv /\ [Next]_vars => SafeInv'
<1>1. ASSUME SafeInv, Next  PROVE SafeInv'
  <2>1. TypeOK'
    BY <1>1, TypeStep
  <2>2. PhaseInv'
    BY <1>1, PhaseStep
  <2>3. HolderInv'
    BY <1>1, HolderStep
  <2>4. HeapInv'
    BY <1>1, HeapStep
  <2> QED  BY <2>1, <2>2, <2>3, <2>4 DEF SafeInv
<1>2. ASSUME SafeInv, UNCHANGED vars  PROVE SafeInv'
  <2>1. /\ UNCHANGED <<memory, head, num_free, next, mallocs, pc, size, target>>
        /\ UNCHANGED <<block, ready, broken, ptr>>
    BY <1>2 DEF vars
  <2>2. TypeOK'
    BY <1>2, <2>1 DEF SafeInv, TypeOK
  <2>3. PhaseInv'
    BY <1>2, <2>1 DEF SafeInv, PhaseInv
  <2>4. HolderInv' /\ Outside' = Outside
    BY <1>2, <2>1 DEF SafeInv, HolderInv, Outside
  <2>5. HeapInv'
    BY <1>2, <2>1, <2>4 DEF SafeInv, HeapInv
  <2> QED  BY <2>2, <2>3, <2>4, <2>5 DEF SafeInv
<1> QED  BY <1>1, <1>2

-----------------------------------------------------------------------------
(* Types of the pool's state, the wrapped counter among them.              *)
THEOREM TypeCorrect ==
  ASSUME SafeUse
  PROVE  Spec => []TypeOK
<1>1. SafeInv => TypeOK
  BY DEF SafeInv
<1> QED  BY <1>1, SafeInvInit, SafeInvStep, PTL DEF Spec

(* allocate_block never follows a null, wild or out-of-arena pointer.      *)
THEOREM NothingWild ==
  ASSUME SafeUse
  PROVE  Spec => []NoWildPointer
<1>1. SafeInv => NoWildPointer
  BY DEF SafeInv, PhaseInv, NoWildPointer
<1> QED  BY <1>1, SafeInvInit, SafeInvStep, PTL DEF Spec

(* A block that was handed out is of the arena in use, so that the assert  *)
(* of free_memory holds.                                                   *)
THEOREM BlocksAreOwn ==
  ASSUME SafeUse
  PROVE  Spec => []BlocksBelongToPool
<1>1. SafeInv => BlocksBelongToPool
  <2> SUFFICES ASSUME SafeInv, NEW p \in Pointers, ptr[p] # NoBlock
               PROVE  memory # 0 /\ Contains(ptr[p])
    BY DEF BlocksBelongToPool
  <2>1. ready /\ memory # 0
    BY DEF SafeInv, PhaseInv
  <2>2. PICK L \in [Nat -> Nat], n \in Nat : Layout(L, n, Outside, memory)
    BY <2>1 DEF SafeInv, HeapInv
  <2>3. ptr[p] \in Outside
    BY DEF Outside
  <2>4. PICK b : b = ptr[p]
    OBVIOUS
  <2>5. b = <<memory, b[2], BlockSize>>
    BY <2>2, <2>3, <2>4 DEF Layout
  <2>6. b[1] = memory
    BY <2>5
  <2> QED  BY <2>1, <2>4, <2>6 DEF Contains
<1> QED  BY <1>1, SafeInvInit, SafeInvStep, PTL DEF Spec

(* The walk along the free list is the chain of the invariant.             *)
LEMMA WalkFollows ==
  ASSUME NEW L, NEW n \in Nat, n < ArenaBytes, ArenaBytes \in Nat,
         Chain(L, n, memory, head, next),
         \A i \in 0 .. n : <<memory, L[i]>> \in Addresses, Null \notin Addresses
  PROVE  /\ \A k \in 0 .. n : Walk[k] = <<memory, L[n - k]>>
         /\ \A k \in n + 1 .. ArenaBytes : Walk[k] = Null
<1> DEFINE Body(f, k) == IF k = 0 THEN head
                         ELSE IF f[k - 1] \in Addresses THEN next[f[k - 1]] ELSE Null
           At(k) == IF k <= n THEN <<memory, L[n - k]>> ELSE Null
           g == [k \in 0 .. ArenaBytes |-> At(k)]
<1>1. ASSUME NEW k \in 0 .. ArenaBytes, k # 0
      PROVE  At(k) = IF At(k - 1) \in Addresses THEN next[At(k - 1)] ELSE Null
  <2>1. CASE k <= n
    <3>1. n - (k - 1) \in 1 .. n /\ (n - (k - 1)) - 1 = n - k /\ k - 1 <= n
      BY <1>1, <2>1
    <3>2. next[<<memory, L[n - (k - 1)]>>] = <<memory, L[n - k]>>
      BY <3>1 DEF Chain
    <3>3. At(k - 1) = <<memory, L[n - (k - 1)]>> /\ At(k - 1) \in Addresses
      BY <3>1
    <3> QED  BY <2>1, <3>2, <3>3
  <2>2. CASE k = n + 1
    <3>1. At(k - 1) = <<memory, L[0]>> /\ At(k - 1) \in Addresses /\ At(k) = Null
      BY <2>2
    <3> QED  BY <3>1 DEF Chain
  <2>3. CASE k > n + 1
    <3>1. At(k - 1) = Null /\ At(k) = Null
      BY <2>3
    <3> QED  BY <3>1
  <2> QED  BY <2>1, <2>2, <2>3
<1>2. At(0) = head
  BY DEF Chain
<1>3. g = [k \in 0 .. ArenaBytes |-> Body(g, k)]
  <2>1. ASSUME NEW k \in 0 .. ArenaBytes  PROVE At(k) = Body(g, k)
    <3>1. k # 0 => k - 1 \in 0 .. ArenaBytes /\ g[k - 1] = At(k - 1)
      OBVIOUS
    <3> HIDE DEF At, g
    <3> QED  BY <1>1, <1>2, <3>1
  <2> QED  BY <2>1
<1>4. Walk = [k \in 0 .. ArenaBytes |-> Body(Walk, k)]
  <2> HIDE DEF g
  <2> QED  BY <1>3 DEF Walk
<1> DEFINE A == {k \in Nat : k <= ArenaBytes => Walk[k] = At(k)}
<1> HIDE DEF At, g
<1>5. 0 \in A
  BY <1>2, <1>4
<1>6. ASSUME NEW k \in Nat, k \in A  PROVE k + 1 \in A
  <2> SUFFICES ASSUME k + 1 <= ArenaBytes  PROVE Walk[k + 1] = At(k + 1)
    OBVIOUS
  <2>1. k + 1 \in 0 .. ArenaBytes /\ k + 1 # 0 /\ (k + 1) - 1 = k
    OBVIOUS
  <2>2. Walk[k] = At(k)
    BY <1>6
  <2>3. Walk[k + 1] = IF Walk[k] \in Addresses THEN next[Walk[k]] ELSE Null
    BY <1>4, <2>1
  <2>4. At(k + 1) = IF At(k) \in Addresses THEN next[At(k)] ELSE Null
    BY <1>1, <2>1
  <2> QED  BY <2>2, <2>3, <2>4
<1>7. Nat \subseteq A
  <2> HIDE DEF A
  <2> QED  BY <1>5, <1>6, SetInduction
<1>8. \A k \in 0 .. ArenaBytes : Walk[k] = At(k)
  BY <1>7
<1>9. ASSUME NEW k \in 0 .. n  PROVE Walk[k] = <<memory, L[n - k]>>
  <2>1. k \in 0 .. ArenaBytes /\ k <= n
    OBVIOUS
  <2>2. At(k) = <<memory, L[n - k]>>
    BY <2>1 DEF At
  <2> QED  BY <1>8, <2>1, <2>2
<1>10. ASSUME NEW k \in n + 1 .. ArenaBytes  PROVE Walk[k] = Null
  <2>1. k \in 0 .. ArenaBytes /\ ~(k <= n)
    OBVIOUS
  <2>2. At(k) = Null
    BY <2>1 DEF At
  <2> QED  BY <1>8, <2>1, <2>2
<1> QED  BY <1>9, <1>10

(* The list of free blocks stays apart from the blocks in use: what a      *)
(* program writes into a block it holds cannot damage the list.            *)
THEOREM FreeListIsSound ==
  ASSUME SafeUse
  PROVE  Spec => []FreeListSound
<1>1. SafeInv => FreeListSound
  <2> SUFFICES ASSUME SafeInv, ready  PROVE FreeListSound
    BY DEF FreeListSound
  <2>1. PICK L \in [Nat -> Nat], n \in Nat :
          Chain(L, n, memory, head, next) /\ Layout(L, n, Outside, memory)
    BY DEF SafeInv, HeapInv
  <2>2. IsFiniteSet(Outside) /\ memory \in Arenas
    BY OutsideFacts DEF SafeInv, PhaseInv, TypeOK, Arenas
  <2>3. /\ \A i \in 0 .. n : L[i] \in 0 .. ArenaBytes - 1
        /\ n < ArenaBytes
    BY <2>1, <2>2, LayoutBounds
  <2>4. \A i \in 0 .. n : <<memory, L[i]>> \in Addresses
    BY <2>2, <2>3 DEF Addresses
  <2>5. Null \notin Addresses /\ ArenaBytes \in Nat
    BY PoolAssumption, UseFacts DEF Addresses, Arenas, ArenaBytes
  <2>6. /\ \A k \in 0 .. n : Walk[k] = <<memory, L[n - k]>>
        /\ \A k \in n + 1 .. ArenaBytes : Walk[k] = Null
    BY <2>1, <2>3, <2>4, <2>5, WalkFollows
  <2>7. n + 1 \in 0 .. ArenaBytes /\ Walk[n + 1] = Null
    BY <2>3, <2>5, <2>6
  <2>8. ASSUME NEW a \in FreeNodes  PROVE \E i \in 0 .. n : a = <<memory, L[i]>>
    <3>1. PICK k \in 0 .. ArenaBytes : a = Walk[k] /\ a # Null
      BY DEF FreeNodes
    <3>2. k \in 0 .. n
      BY <2>5, <2>6, <3>1
    <3>3. n - k \in 0 .. n
      BY <3>2
    <3> QED  BY <2>6, <3>1, <3>2, <3>3
  <2>9. FreeNodes \subseteq Addresses
    BY <2>4, <2>8
  <2>10. ASSUME NEW a \in FreeNodes, NEW b \in Outside  PROVE a[1] = memory /\ ~Touches(b, a)
    <3>1. PICK i \in 0 .. n : a = <<memory, L[i]>>
      BY <2>8
    <3>2. /\ b = <<memory, b[2], BlockSize>> /\ b[2] \in Nat /\ Apart(b[2], L[i])
      BY <2>1 DEF Layout
    <3>3. b[3] = BlockSize
      BY <3>2
    <3> QED  BY <2>3, <3>1, <3>2, <3>3, UseFacts DEF Touches, Apart
  <2> QED  BY <2>7, <2>9, <2>10 DEF FreeListSound
<1> QED  BY <1>1, SafeInvInit, SafeInvStep, PTL DEF Spec

(* The sum of the sizes of blocks of one size.                             *)
LEMMA SumOfEqual ==
  ASSUME NEW S, IsFiniteSet(S), NEW c \in Nat, \A b \in S : b[3] = c
  PROVE  MapThenSumSet(LAMBDA b : b[3], S) = Cardinality(S) * c
<1> DEFINE Body(f, s) == IF s = {} THEN 0
                         ELSE (CHOOSE x \in s : TRUE)[3] + f[s \ {CHOOSE x \in s : TRUE}]
           g == [s \in SUBSET S |-> Cardinality(s) * c]
           iter == CHOOSE f : f = [s \in SUBSET S |-> Body(f, s)]
<1>1. ASSUME NEW s \in SUBSET S, s # {}
      PROVE  LET x == CHOOSE y \in s : TRUE
             IN  /\ x[3] = c /\ s \ {x} \in SUBSET S
                 /\ Cardinality(s) = Cardinality(s \ {x}) + 1
                 /\ Cardinality(s \ {x}) \in Nat
  <2> DEFINE x == CHOOSE y \in s : TRUE
  <2>1. x \in s
    BY <1>1
  <2> HIDE DEF x
  <2>2. IsFiniteSet(s) /\ IsFiniteSet(s \ {x})
    BY FS_Subset, FS_RemoveElement
  <2>3. Cardinality(s \ {x}) = Cardinality(s) - 1 /\ Cardinality(s) \in Nat
        /\ Cardinality(s \ {x}) \in Nat
    BY <2>1, <2>2, FS_RemoveElement, FS_CardinalityType
  <2>4. x[3] = c /\ s \ {x} \in SUBSET S /\ Cardinality(s) = Cardinality(s \ {x}) + 1
    BY <2>1, <2>3
  <2> QED  BY <2>3, <2>4 DEF x
<1>2. g = [s \in SUBSET S |-> Body(g, s)]
  <2>1. ASSUME NEW s \in SUBSET S  PROVE g[s] = Body(g, s)
    <3>1. CASE s = {}
      BY <3>1, FS_EmptySet
    <3>2. CASE s # {}
      <4> DEFINE x == CHOOSE y \in s : TRUE
                 k == Cardinality(s \ {x})
      <4>1. x[3] = c /\ s \ {x} \in SUBSET S /\ Cardinality(s) = k + 1 /\ k \in Nat
        BY <1>1, <3>2
      <4>2. g[s] = Cardinality(s) * c /\ g[s \ {x}] = k * c
        BY <4>1
      <4>3. Body(g, s) = x[3] + g[s \ {x}]
        BY <3>2
      <4> HIDE DEF Body, g, x, k
      <4>4. (k + 1) * c = c + k * c
        BY <4>1
      <4> QED  BY <4>1, <4>2, <4>3, <4>4
    <3> QED  BY <3>1, <3>2
  <2> QED  BY <2>1
<1>3. iter = [s \in SUBSET S |-> Body(iter, s)]
  <2> HIDE DEF g, Body
  <2>1. \E f : f = [s \in SUBSET S |-> Body(f, s)]
    BY <1>2
  <2> QED  BY <2>1, Zenon
<1>4. MapThenSumSet(LAMBDA b : b[3], S) = iter[S]
  BY DEF MapThenSumSet, MapThenFoldSet
<1> HIDE DEF iter, g
<1> DEFINE A == {k \in Nat : \A s \in SUBSET S : Cardinality(s) = k => iter[s] = k * c}
<1>5. 0 \in A
  <2>1. ASSUME NEW s \in SUBSET S, Cardinality(s) = 0  PROVE iter[s] = 0 * c
    <3>1. s = {}
      BY <2>1, FS_Subset, FS_EmptySet
    <3> QED  BY <1>3, <3>1
  <2> QED  BY <2>1
<1>6. ASSUME NEW k \in Nat, k \in A  PROVE k + 1 \in A
  <2>1. ASSUME NEW s \in SUBSET S, Cardinality(s) = k + 1  PROVE iter[s] = (k + 1) * c
    <3> DEFINE x == CHOOSE y \in s : TRUE
    <3>1. s # {}
      BY <2>1, FS_EmptySet
    <3>2. x[3] = c /\ s \ {x} \in SUBSET S /\ Cardinality(s \ {x}) = k
      <4>1. /\ x[3] = c /\ s \ {x} \in SUBSET S /\ Cardinality(s) = Cardinality(s \ {x}) + 1
            /\ Cardinality(s \ {x}) \in Nat
        BY <1>1, <3>1
      <4> HIDE DEF x
      <4> QED  BY <2>1, <4>1
    <3>3. iter[s] = x[3] + iter[s \ {x}]
      BY <1>3, <3>1
    <3> HIDE DEF x
    <3>4. iter[s \ {x}] = k * c
      BY <1>6, <3>2
    <3>5. (k + 1) * c = c + k * c
      OBVIOUS
    <3> QED  BY <3>2, <3>3, <3>4, <3>5
  <2> QED  BY <2>1
<1>7. Nat \subseteq A
  <2> HIDE DEF A
  <2> QED  BY <1>5, <1>6, SetInduction
<1>8. iter[S] = Cardinality(S) * c
  <2>1. Cardinality(S) \in A
    BY <1>7, FS_CardinalityType
  <2> QED  BY <2>1
<1> QED  BY <1>4, <1>8

(* _numFreeBlocks is the capacity less the bytes in use.                   *)
THEOREM CounterIsExact ==
  ASSUME SafeUse
  PROVE  Spec => []CounterTracksBlocks
<1>1. SafeInv => CounterTracksBlocks
  <2> SUFFICES ASSUME SafeInv, ready
               PROVE  num_free + MapThenSumSet(LAMBDA b : b[3], Outside) = Capacity
    BY DEF CounterTracksBlocks
  <2>1. IsFiniteSet(Outside) /\ Cardinality(Outside) \in Nat /\ \A b \in Outside : b[3] = BlockSize
    BY OutsideFacts DEF SafeInv, SafeUse
  <2>2. MapThenSumSet(LAMBDA b : b[3], Outside) = Cardinality(Outside) * BlockSize
    BY <2>1, SumOfEqual, UseFacts
  <2>3. num_free = Capacity - Cardinality(Outside) * BlockSize
    BY DEF SafeInv, HeapInv
  <2>4. Cardinality(Outside) * BlockSize \in Nat
    BY <2>1, UseFacts
  <2> QED  BY <2>2, <2>3, <2>4, UseFacts
<1> QED  BY <1>1, SafeInvInit, SafeInvStep, PTL DEF Spec

(* The pool implements Allocator: allocate_block hands out a block of the  *)
(* arena that overlaps none in use, and only free_memory takes one back.   *)
THEOREM ImplementsAllocator ==
  ASSUME SafeUse
  PROVE  Spec => AllocatorSpec
<1>1. Init => Service!Init
  BY DEF Init, Service!Init
<1>2. ASSUME SafeInv, Next  PROVE [Service!Next]_ptr
  <2>1. ASSUME NEW t \in Threads, AllocateBlock(t)  PROVE Service!Next
    <3>1. /\ target[t] \in Pointers /\ ptr[target[t]] = NoBlock
      BY <1>2, <2>1, WhoTakes DEF AllocateBlock, Go
    <3>2. PICK b \in Blocks : /\ \A c \in Outside : Apart(b[2], c[2])
                              /\ ptr' = [ptr EXCEPT ![target[t]] = b]
      BY <1>2, <2>1, AllocateEffect
    <3>3. \A c \in Blocks : c[2] \in Nat /\ c[3] = BlockSize
      BY <1>2, OutsideFacts DEF SafeInv, SafeUse
    <3>4. ASSUME NEW q \in Pointers, ptr[q] # NoBlock  PROVE Service!Disjoint(b, ptr[q])
      <4>1. ptr[q] \in Outside /\ ptr[q] \in Blocks
        BY <1>2, <3>4 DEF SafeInv, TypeOK, Outside
      <4>2. Apart(b[2], ptr[q][2])
        BY <3>2, <4>1
      <4> QED  BY <3>3, <4>1, <4>2 DEF Service!Disjoint, Apart
    <3>5. Service!Allocate(target[t], b)
      BY <3>1, <3>2, <3>4 DEF Service!Allocate
    <3> QED  BY <3>1, <3>5 DEF Service!Next
  <2>2. ASSUME NEW t \in Threads, NEW q \in Pointers, FreeMemory(t, q)  PROVE Service!Next
    <3>1. Service!Free(q)
      BY <2>2 DEF FreeMemory, Service!Free
    <3> QED  BY <3>1 DEF Service!Next
  <2>3. Create \/ Destroy => UNCHANGED ptr
    BY DEF Create, Destroy
  <2>4. \A t \in Threads :
          SetCount(t) \/ SetMemory(t) \/ SetHead(t) \/ TerminateList(t) => UNCHANGED ptr
    BY DEF SetCount, SetMemory, SetHead, TerminateList
  <2>5. \A t \in Threads : WriteObject(t) \/ FreeBlock(t) => UNCHANGED ptr
    BY DEF WriteObject, FreeBlock
  <2>6. \A t \in Threads, q \in Pointers, n \in Sizes : AllocateMemory(t, q, n) => UNCHANGED ptr
    BY DEF AllocateMemory
  <2> QED  BY <1>2, <2>1, <2>2, <2>3, <2>4, <2>5, <2>6, NextCases
<1>3. UNCHANGED vars => UNCHANGED ptr
  BY DEF vars
<1>4. SafeInv /\ [Next]_vars => [Service!Next]_ptr
  BY <1>2, <1>3
<1> QED  BY <1>1, <1>4, SafeInvInit, SafeInvStep, PTL DEF Spec, AllocatorSpec, Service!Spec
=============================================================================
