----------------------------- MODULE Allocator ------------------------------
(***************************************************************************)
(* What a memory pool promises: a block that is handed out lies in its     *)
(* arena and overlaps no block that is still in use.  A block is           *)
(* <<arena, first byte, size>>; Blocks are those inside their arena.       *)
(***************************************************************************)
EXTENDS Naturals

CONSTANTS Pointers, Blocks, NoBlock

VARIABLE ptr

Disjoint(b, c) ==
  b[1] = c[1] => b[2] + b[3] <= c[2] \/ c[2] + c[3] <= b[2]

Init == ptr = [p \in Pointers |-> NoBlock]

Allocate(p, b) ==
  /\ ptr[p] = NoBlock
  /\ \A q \in Pointers : ptr[q] # NoBlock => Disjoint(b, ptr[q])
  /\ ptr' = [ptr EXCEPT ![p] = b]

Free(p) == ptr[p] # NoBlock /\ ptr' = [ptr EXCEPT ![p] = NoBlock]

Next == \E p \in Pointers : Free(p) \/ \E b \in Blocks : Allocate(p, b)

Spec == Init /\ [][Next]_ptr
=============================================================================
