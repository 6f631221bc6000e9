------------------------- MODULE MCIngressUdpDelete -------------------------
(***************************************************************************)
(* Instance of IngressUdpDelete: two datagrams of one flow, and one reply. *)
(***************************************************************************)
EXTENDS IngressUdpDelete, TLC

CONSTANTS d1, d2, a1, a2, r1

OneFlow == {<<1, 1, 1, 1, 1, 1>>}
PairFlow == (d1 :> <<1, 1, 1, 1, 1, 1>>) @@ (d2 :> <<1, 1, 1, 1, 1, 1>>)
PairAddrs == (d1 :> a1) @@ (d2 :> a2)

=============================================================================
