----------------------------- MODULE MCEgressUdp -----------------------------
(***************************************************************************)
(* Instances of EgressUdp: p1 and p2 are packets of two flows whose keys   *)
(* cross, and the TCP half has a flow that is less than both.              *)
(***************************************************************************)
EXTENDS EgressUdp, TLC

CONSTANTS p1, p2

FlowOne == <<1, 1, 1, 1, 1, 1>>
FlowTwo == <<1, 1, 2, 0, 1, 1>>
BothFlows == {FlowOne, FlowTwo}
OneStranger == {<<0, 1, 1, 0, 1, 1>>}
TwoFlows == (p1 :> FlowOne) @@ (p2 :> FlowTwo)

=============================================================================
