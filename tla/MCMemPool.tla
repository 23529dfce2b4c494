------------------------------ MODULE MCMemPool -----------------------------
(* The model values of the TLC runs of MemPool.                            *)
EXTENDS MemPool

CONSTANTS m, t1, p, q, r
=============================================================================
