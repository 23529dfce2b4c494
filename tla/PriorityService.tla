--------------------------- MODULE PriorityService ---------------------------
(***************************************************************************)
(* What the thread pool promises about a task, without threads, mutexes or *)
(* counters: a submitted task is started at most once, never while a task  *)
(* of higher priority is pending and never before an earlier one of its    *)
(* own priority, and it finishes at most once.                             *)
(***************************************************************************)
EXTENDS Naturals

CONSTANTS NormalTasks, CriticalTasks

Tasks == NormalTasks \cup CriticalTasks

VARIABLES ticket, issued, pending, running, done

vars == <<ticket, issued, pending, running, done>>

Before(t, u) ==
  \/ t \in CriticalTasks /\ u \notin CriticalTasks
  \/ (t \in CriticalTasks <=> u \in CriticalTasks) /\ ticket[t] < ticket[u]

Init ==
  /\ ticket = [t \in Tasks |-> 0] /\ issued = 0
  /\ pending = {} /\ running = {} /\ done = {}

Submit(t) ==
  /\ ticket[t] = 0
  /\ issued' = issued + 1
  /\ ticket' = [ticket EXCEPT ![t] = issued + 1]
  /\ pending' = pending \cup {t}
  /\ UNCHANGED <<running, done>>

Start(t) ==
  /\ t \in pending
  /\ \A u \in pending \ {t} : Before(t, u)
  /\ pending' = pending \ {t}
  /\ running' = running \cup {t}
  /\ UNCHANGED <<ticket, issued, done>>

Finish(t) ==
  /\ t \in running
  /\ running' = running \ {t}
  /\ done' = done \cup {t}
  /\ UNCHANGED <<ticket, issued, pending>>

Next == \E t \in Tasks : Submit(t) \/ Start(t) \/ Finish(t)

Spec == Init /\ [][Next]_vars
=============================================================================
