---------------------------- MODULE MCTimerQueue ----------------------------
(* The model values and delays of the TLC runs of TimerQueue.              *)
EXTENDS TimerQueue

CONSTANTS u1, u2, e1, e2, a, b, r

DelayOf == [t \in Timers |-> CASE t = a -> 2 [] OTHER -> 1]
=============================================================================
