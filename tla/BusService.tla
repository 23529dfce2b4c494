----------------------------- MODULE BusService -----------------------------
(***************************************************************************)
(* What the event bus promises: a notification goes to exactly the         *)
(* listeners registered for its index when it was pushed, once per         *)
(* registration, each of them is called for it at most that often, and     *)
(* nothing else is delivered.                                              *)
(***************************************************************************)
EXTENDS Naturals

CONSTANTS Listeners, Indices

VARIABLES
  registered,  \* how often each listener is registered for each index
  pushed,      \* the notifications pushed so far, numbered from 1
  pending,     \* deliveries still to start: pending[n][l]
  delivered    \* deliveries started: delivered[n][l]

vars == <<registered, pushed, pending, delivered>>

NotYet == [l \in Listeners |-> 0]

Init ==
  /\ registered = [i \in Indices |-> NotYet]
  /\ pushed = 0
  /\ pending = <<>> /\ delivered = <<>>

Register(pairs) ==
  /\ registered' = [i \in Indices |-> [l \in Listeners |->
                      registered[i][l] + IF <<i, l>> \in pairs THEN 1 ELSE 0]]
  /\ UNCHANGED <<pushed, pending, delivered>>

Unregister(i, l) ==
  /\ registered' = [registered EXCEPT ![i][l] = 0]
  /\ UNCHANGED <<pushed, pending, delivered>>

Push(i) ==
  /\ pushed' = pushed + 1
  /\ pending' = [n \in 1 .. pushed + 1 |-> IF n <= pushed THEN pending[n] ELSE registered[i]]
  /\ delivered' = [n \in 1 .. pushed + 1 |-> IF n <= pushed THEN delivered[n] ELSE NotYet]
  /\ UNCHANGED registered

Deliver(n, l) ==
  /\ pending[n][l] > 0
  /\ pending' = [pending EXCEPT ![n][l] = @ - 1]
  /\ delivered' = [delivered EXCEPT ![n][l] = @ + 1]
  /\ UNCHANGED <<registered, pushed>>

Next ==
  \/ \E pairs \in SUBSET (Indices \X Listeners) : Register(pairs)
  \/ \E i \in Indices : Push(i) \/ \E l \in Listeners : Unregister(i, l)
  \/ \E n \in 1 .. pushed, l \in Listeners : Deliver(n, l)

Spec == Init /\ [][Next]_vars
=============================================================================
