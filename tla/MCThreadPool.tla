---------------------------- MODULE MCThreadPool ----------------------------
(* The model values of the TLC runs of ThreadPool.                         *)
EXTENDS ThreadPool

CONSTANTS m, c1, w1, w2, w3, n1, n2, k1
=============================================================================
