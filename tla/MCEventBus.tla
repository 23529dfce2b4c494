----------------------------- MODULE MCEventBus -----------------------------
(* The model values of the TLC runs of EventBus: test1 registers for every *)
(* index, test2 for one of them, and dispatch pushes to that.              *)
EXTENDS EventBus

CONSTANTS m, w1, w2, test1, test2, one, two

MCRegistersFor == [l \in Listeners |-> IF l = test1 THEN Indices ELSE {one}]
OneDispatch    == <<one>>
=============================================================================
