------------------------------ MODULE MemPool -------------------------------
(***************************************************************************)
(* The singleton mem_pool of src/memory/mem_pool.h: an arena, a list of    *)
(* free blocks that ends in the part of the arena never handed out, and a  *)
(* count of what is free.  allocate_block and free_block run under _mtx,   *)
(* one step each; the tests of _memory and create_pool do not, and each of *)
(* their accesses is a step.  An address is <<arena, offset>>; the number  *)
(* of an arena tells the results of different mallocs apart.               *)
(***************************************************************************)
EXTENDS Integers, FiniteSets, FiniteSetsExt

CONSTANTS
  Threads,
  Main,          \* the thread that calls MEM_POOL_CREATE and MEM_POOL_DESTORY
  SoleCreator,   \* whether the other threads wait until Main has created the pool
  Sizes,         \* the nSize of the allocations
  Word,          \* sizeof ( void* )
  Capacity,      \* g_MaxNumberOfBlock
  SizeMod,       \* 2^w of size_t
  Pointers,      \* the program's pointers to blocks: what bounds the blocks in use
  MaxArena,      \* bound: calls of malloc
  NoPointer,     \* what a thread outside a call works on
  Null, Junk     \* a null pointer; the bytes of a user's object read as one

ASSUME PoolAssumption ==
  /\ IsFiniteSet(Threads) /\ Main \in Threads
  /\ SoleCreator \in BOOLEAN
  /\ Sizes \subseteq Nat \ {0}
  /\ Word \in Nat \ {0} /\ Capacity \in Nat \ {0}
  /\ SizeMod \in Nat /\ SizeMod > Capacity
  /\ IsFiniteSet(Pointers) /\ NoPointer \notin Pointers /\ MaxArena \in Nat
  /\ Null # Junk /\ \A x \in {Null, Junk} : x \notin (1 .. MaxArena) \X (0 .. Capacity * Word - 1)

ArenaBytes == Capacity * Word
Arenas     == 1 .. MaxArena
Addresses  == Arenas \X (0 .. ArenaBytes - 1)
Blocks     == {b \in Arenas \X (0 .. ArenaBytes - 1) \X Sizes : b[2] + b[3] <= ArenaBytes}

VARIABLES
  memory,    \* _memory: the arena, 0 for nullptr
  head,      \* _head
  num_free,  \* _numFreeBlocks
  next,      \* st_FreeBlock::next at each address
  mallocs,   \* arenas handed out by malloc
  pc, size,  \* where each thread is; the nSize of its call
  target,    \* the program's pointer each thread's call is about
  block,     \* the block being given back by each thread
  ready,     \* whether a call of create_pool has returned since the last destroy
  broken,    \* a null, wild or out-of-arena pointer was dereferenced
  ptr        \* the block each pointer holds

vars == <<memory, head, num_free, next, mallocs, pc, size, target, block, ready, broken, ptr>>

NoBlock == <<0, 0, 0>>

Init ==
  /\ memory = 0 /\ head = Null /\ num_free = 0
  /\ next = [a \in Addresses |-> Junk]
  /\ mallocs = 0
  /\ pc = [t \in Threads |-> "idle"] /\ size = [t \in Threads |-> 0]
  /\ target = [t \in Threads |-> NoPointer] /\ block = [t \in Threads |-> NoBlock]
  /\ ready = FALSE /\ broken = FALSE
  /\ ptr = [p \in Pointers |-> NoBlock]

Go(t, from, to) == pc[t] = from /\ pc' = [pc EXCEPT ![t] = to]

-----------------------------------------------------------------------------
(* create, and the creation that allocate_memory falls back on.            *)

(* The mutant creates without the test of _memory.                         *)
CreateAlways ==
  /\ Go(Main, "idle", "count")
  /\ mallocs < MaxArena
  /\ UNCHANGED <<memory, head, num_free, next, mallocs, size, target, block, ready, broken, ptr>>

Create ==
  /\ Go(Main, "idle", IF memory = 0 THEN "count" ELSE "idle")
  /\ memory = 0 => mallocs < MaxArena
  /\ UNCHANGED <<memory, head, num_free, next, mallocs, size, target, block, ready, broken, ptr>>

(* Main may leave the creation to its first allocation.                    *)
MayUse(t) == SoleCreator => ready \/ t = Main

(* The program uses a pointer for one thing at a time.                     *)
Unused(p) == \A u \in Threads : target[u] # p

AllocateMemory(t, p, n) ==
  /\ MayUse(t)
  /\ ptr[p] = NoBlock /\ Unused(p)
  /\ memory = 0 => mallocs < MaxArena
  /\ Go(t, "idle", IF memory = 0 THEN "count" ELSE "take")
  /\ size' = [size EXCEPT ![t] = n] /\ target' = [target EXCEPT ![t] = p]
  /\ UNCHANGED <<memory, head, num_free, next, mallocs, block, ready, broken, ptr>>

(* The mutant counts the bytes of the arena.                               *)
CountBytes(t) ==
  /\ Go(t, "count", "malloc")
  /\ num_free' = ArenaBytes
  /\ UNCHANGED <<memory, head, next, mallocs, size, target, block, ready, broken, ptr>>

(* _numFreeBlocks = g_MaxNumberOfBlock.                                    *)
SetCount(t) ==
  /\ Go(t, "count", "malloc")
  /\ num_free' = Capacity
  /\ UNCHANGED <<memory, head, next, mallocs, size, target, block, ready, broken, ptr>>

(* _memory = aligned_malloc( ... ).                                        *)
SetMemory(t) ==
  /\ mallocs < MaxArena
  /\ Go(t, "malloc", "head")
  /\ mallocs' = mallocs + 1 /\ memory' = mallocs + 1
  /\ UNCHANGED <<head, num_free, next, size, target, block, ready, broken, ptr>>

(* _head = _memory.                                                        *)
SetHead(t) ==
  /\ Go(t, "head", "terminate")
  /\ head' = <<memory, 0>>
  /\ UNCHANGED <<memory, num_free, next, mallocs, size, target, block, ready, broken, ptr>>

(* _head->next = nullptr, and back to create or allocate_memory.           *)
TerminateList(t) ==
  /\ Go(t, "terminate", IF size[t] = 0 THEN "idle" ELSE "take")
  /\ next' = [next EXCEPT ![head] = Null]
  /\ ready' = TRUE
  /\ UNCHANGED <<memory, head, num_free, mallocs, size, target, block, broken, ptr>>

-----------------------------------------------------------------------------
(* allocate_block and free_block.                                          *)

(* The bytes a size takes: it is meant to round up to words.  The mutant   *)
(* leaves the test out.                                                    *)
RoundedAlways(n) == n + (Word - 1)
Rounded(n)       == IF n % Word = 0 THEN n ELSE n + (Word - 1)

(* How far the head moves into the unused rest; the mutant takes the fixed *)
(* _offset of create_pool.                                                 *)
AdvanceByWord(a, n) == <<a[1], a[2] + Word>>
Advance(a, n)       == <<a[1], a[2] + Rounded(n)>>

(* The mutant leaves the head where it is when the list has no next block. *)
MoveAlongList(n) ==
  IF head \notin Addresses \/ next[head] = Junk
  THEN broken' = TRUE /\ UNCHANGED <<head, next>>
  ELSE /\ head' = IF next[head] # Null THEN next[head] ELSE head
       /\ UNCHANGED <<next, broken>>

(* The head moves to the next free block, or into the unused rest.         *)
MoveHead(n) ==
  IF head \notin Addresses \/ next[head] = Junk
  THEN broken' = TRUE /\ UNCHANGED <<head, next>>
  ELSE IF next[head] # Null
  THEN head' = next[head] /\ UNCHANGED <<next, broken>>
  ELSE IF Advance(head, n) \notin Addresses
  THEN broken' = TRUE /\ UNCHANGED <<head, next>>
  ELSE /\ head' = Advance(head, n)
       /\ next' = [next EXCEPT ![Advance(head, n)] = Null]
       /\ UNCHANGED broken

AllocateBlock(t) ==
  /\ Go(t, "take", "write")
  /\ num_free' = (num_free - size[t]) % SizeMod
  /\ ptr' = [ptr EXCEPT ![target[t]] =
               IF head = Null THEN NoBlock ELSE <<head[1], head[2], size[t]>>]
  /\ IF num_free' # 0 THEN MoveHead(size[t]) ELSE UNCHANGED <<head, next, broken>>
  /\ size' = [size EXCEPT ![t] = 0]
  /\ UNCHANGED <<memory, mallocs, target, block, ready>>

(* A block and the word at an address have a byte in common.               *)
Touches(b, a) == a[1] = b[1] /\ a[2] < b[2] + b[3] /\ b[2] < a[2] + Word

(* The caller constructs its object in the block.                          *)
WriteObject(t) ==
  /\ Go(t, "write", "idle")
  /\ next' = [a \in Addresses |-> IF Touches(ptr[target[t]], a) THEN Junk ELSE next[a]]
  /\ target' = [target EXCEPT ![t] = NoPointer]
  /\ UNCHANGED <<memory, head, num_free, mallocs, size, block, ready, broken, ptr>>

(* contains_pointer.                                                       *)
Contains(b) == b[1] = memory

(* free_memory: the program gives the block up.  The call returns at once  *)
(* when there is no pool, and the assert stops a debug build when the      *)
(* block is not of this one.                                               *)
FreeMemory(t, p) ==
  /\ Go(t, "idle", "put")
  /\ ptr[p] # NoBlock /\ Unused(p)
  /\ memory # 0 /\ Contains(ptr[p])
  /\ block' = [block EXCEPT ![t] = ptr[p]]
  /\ ptr' = [ptr EXCEPT ![p] = NoBlock]
  /\ UNCHANGED <<memory, head, num_free, next, mallocs, size, target, ready, broken>>

(* The mutant returns the block without linking it to the list.            *)
FreeWithoutLink(t) ==
  /\ Go(t, "put", "idle")
  /\ head' = <<block[t][1], block[t][2]>>
  /\ num_free' = (num_free + Rounded(block[t][3])) % SizeMod
  /\ block' = [block EXCEPT ![t] = NoBlock]
  /\ UNCHANGED <<memory, next, mallocs, size, target, ready, broken, ptr>>

FreeBlock(t) ==
  /\ Go(t, "put", "idle")
  /\ LET a == <<block[t][1], block[t][2]>>
     IN  /\ next' = IF num_free > 0 THEN [next EXCEPT ![a] = head] ELSE next
         /\ head' = a
  /\ num_free' = (num_free + Rounded(block[t][3])) % SizeMod
  /\ block' = [block EXCEPT ![t] = NoBlock]
  /\ UNCHANGED <<memory, mallocs, size, target, ready, broken, ptr>>

(* destroy, once nothing of the pool is in use: the arena is freed, _head  *)
(* and _numFreeBlocks keep their values.                                   *)
Destroy ==
  /\ \A t \in Threads : pc[t] = "idle"
  /\ \A p \in Pointers : ptr[p] = NoBlock
  /\ memory # 0
  /\ memory' = 0 /\ ready' = FALSE
  /\ next' = [a \in Addresses |-> Junk]
  /\ UNCHANGED <<head, num_free, mallocs, pc, size, target, block, broken, ptr>>

-----------------------------------------------------------------------------
CreateStep(t) == SetCount(t) \/ SetMemory(t) \/ SetHead(t) \/ TerminateList(t)

Next ==
  /\ ~broken
  /\ \/ Create \/ Destroy
     \/ \E t \in Threads :
          \/ CreateStep(t)
          \/ \E p \in Pointers : FreeMemory(t, p) \/ \E n \in Sizes : AllocateMemory(t, p, n)
          \/ AllocateBlock(t) \/ WriteObject(t) \/ FreeBlock(t)

Spec == Init /\ [][Next]_vars

-----------------------------------------------------------------------------
(* Types of the pool's state.                                              *)
TypeOK ==
  /\ memory \in 0 .. MaxArena /\ mallocs \in 0 .. MaxArena
  /\ head \in Addresses \cup {Null}
  /\ num_free \in 0 .. SizeMod - 1
  /\ next \in [Addresses -> Addresses \cup {Null, Junk}]
  /\ pc \in [Threads -> {"idle", "count", "malloc", "head", "terminate", "take", "write", "put"}]
  /\ size \in [Threads -> Sizes \cup {0}]
  /\ target \in [Threads -> Pointers \cup {NoPointer}]
  /\ block \in [Threads -> Blocks \cup {NoBlock}] /\ ptr \in [Pointers -> Blocks \cup {NoBlock}]
  /\ ready \in BOOLEAN /\ broken \in BOOLEAN

(* The list of free blocks, followed from _head; the last one is the part  *)
(* of the arena that was never handed out.                                 *)
Walk[k \in 0 .. ArenaBytes] ==
  IF k = 0 THEN head
  ELSE IF Walk[k-1] \in Addresses THEN next[Walk[k-1]] ELSE Null
FreeNodes == {Walk[k] : k \in 0 .. ArenaBytes} \ {Null}

(* The blocks in use, and those on their way back.                         *)
Outside == ({ptr[p] : p \in Pointers} \cup {block[t] : t \in Threads}) \ {NoBlock}

(* The free list is a chain of this arena's addresses that ends, and no    *)
(* word it keeps its pointers in lies in a block that is in use or is      *)
(* being given back (lines 147-159, 167-170).                              *)
FreeListSound ==
  ready =>
    /\ FreeNodes \subseteq Addresses
    /\ \E k \in 0 .. ArenaBytes : Walk[k] = Null
    /\ \A a \in FreeNodes, b \in Outside : a[1] = memory /\ ~Touches(b, a)

(* _numFreeBlocks is the capacity less what is in use (lines 148-149, 172).*)
CounterTracksBlocks ==
  ready => num_free + MapThenSumSet(LAMBDA b : b[3], Outside) = Capacity

(* allocate_block never follows a pointer that is not one.                 *)
NoWildPointer == ~broken

(* "object not allocated from this pool" (line 58) does not fire for a     *)
(* block that allocate_memory returned.                                    *)
BlocksBelongToPool ==
  \A p \in Pointers : ptr[p] # NoBlock => memory # 0 /\ Contains(ptr[p])

(* The pool hands out blocks inside its arena that overlap no block in     *)
(* use, as Allocator allows.                                               *)
Service == INSTANCE Allocator
AllocatorSpec == Service!Spec
=============================================================================
