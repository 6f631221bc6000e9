---------------------------- MODULE MCIngressUdp ----------------------------
(***************************************************************************)
(* Instances of IngressUdp: two datagrams of one flow and, in a third      *)
(* datagram, of another.  operator< orders the two flows, which are of one *)
(* client's two ports.  The key of a connection that the TCP half holds    *)
(* crosses both.                                                           *)
(***************************************************************************)
EXTENDS IngressUdp, TLC

CONSTANTS d1, d2, d3, a1, a2, r1, r2

FlowOne == <<1, 1, 1, 1, 1, 1>>
FlowTwo == <<1, 1, 1, 2, 1, 1>>
OneFlow == {FlowOne}
BothFlows == {FlowOne, FlowTwo}
OneStranger == {<<0, 2, 1, 1, 1, 1>>}

\* d1 and d2 are of one flow, from two addresses.
PairFlow == (d1 :> FlowOne) @@ (d2 :> FlowOne)
PairAddrs == (d1 :> a1) @@ (d2 :> a2)
SharedFlow == PairFlow @@ (d3 :> FlowTwo)
TwoAddrs == PairAddrs @@ (d3 :> a1)

\* The replies are interchangeable.
ReplySymmetry == Permutations(Replies)

=============================================================================
