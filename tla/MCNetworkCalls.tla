--------------------------- MODULE MCNetworkCalls ---------------------------
(***************************************************************************)
(* Instances of NetworkCalls.                                              *)
(***************************************************************************)
EXTENDS NetworkCalls, TLC

CONSTANTS t1, t2

TwoAndOne == (t1 :> 2) @@ (t2 :> 1)

=============================================================================
