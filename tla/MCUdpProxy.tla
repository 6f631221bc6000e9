----------------------------- MODULE MCUdpProxy -----------------------------
(***************************************************************************)
(* Instances of UdpProxy: two flows that operator< orders.                 *)
(***************************************************************************)
EXTENDS UdpProxy, TLC

CONSTANTS d1, d2, a1, a2, r1, p1, p2

FlowOne == <<1, 1, 1, 1, 1, 1>>
FlowTwo == <<1, 1, 1, 2, 1, 1>>
BothFlows == {FlowOne, FlowTwo}
TwoFlows == (d1 :> FlowOne) @@ (d2 :> FlowTwo)
TwoAddrs == (d1 :> a1) @@ (d2 :> a2)
OneEach == (p1 :> d1) @@ (p2 :> d2)

=============================================================================
