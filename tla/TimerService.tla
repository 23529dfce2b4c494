---------------------------- MODULE TimerService ----------------------------
(***************************************************************************)
(* What the timer queue promises, without threads, sorting or naps: a      *)
(* timer that is armed expires no earlier than its deadline, a one-shot    *)
(* timer expires once, a cancelled timer never again, and every expiry     *)
(* starts the handler at most once.                                        *)
(***************************************************************************)
EXTENDS Naturals

CONSTANTS OneShots, Repeats, Delay

Timers == OneShots \cup Repeats

VARIABLES
  now,
  created,   \* the timers that were ever armed
  armed,
  deadline,  \* of the armed timers, 0 for the others
  due,       \* expiries whose handler has not started
  begun      \* handlers started

vars == <<now, created, armed, deadline, due, begun>>

Init ==
  /\ now = 0 /\ created = {} /\ armed = {}
  /\ deadline = [t \in Timers |-> 0]
  /\ due = [t \in Timers |-> 0] /\ begun = [t \in Timers |-> 0]

Tick == now' = now + 1 /\ UNCHANGED <<created, armed, deadline, due, begun>>

Arm(t) ==
  /\ t \notin created
  /\ created' = created \cup {t} /\ armed' = armed \cup {t}
  /\ \E d \in Delay[t] .. now + Delay[t] : deadline' = [deadline EXCEPT ![t] = d]
  /\ UNCHANGED <<now, due, begun>>

Disarm(t) == armed' = armed \ {t} /\ deadline' = [deadline EXCEPT ![t] = 0]

Cancel(t) == t \in armed /\ Disarm(t) /\ UNCHANGED <<now, created, due, begun>>

Expire(t) ==
  /\ t \in armed /\ deadline[t] <= now
  /\ due' = [due EXCEPT ![t] = @ + 1]
  /\ IF t \in Repeats
     THEN deadline' = [deadline EXCEPT ![t] = now + Delay[t]] /\ UNCHANGED armed
     ELSE Disarm(t)
  /\ UNCHANGED <<now, created, begun>>

Begin(t) ==
  /\ due[t] > 0
  /\ due' = [due EXCEPT ![t] = @ - 1]
  /\ begun' = [begun EXCEPT ![t] = @ + 1]
  /\ UNCHANGED <<now, created, armed, deadline>>

Next == Tick \/ \E t \in Timers : Arm(t) \/ Cancel(t) \/ Expire(t) \/ Begin(t)

Spec == Init /\ [][Next]_vars
=============================================================================
