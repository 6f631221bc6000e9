---------------------------- MODULE MCThreadPool ----------------------------
(***************************************************************************)
(* Instances of ThreadPool.                                                *)
(***************************************************************************)
EXTENDS ThreadPool

CONSTANTS w1, w2, t1, t2, t3

=============================================================================
