---------------------------- MODULE MCIngressTcp ----------------------------
(***************************************************************************)
(* Instances of IngressTcp: connections of one client to one server, from  *)
(* two ports, and a flow of the UDP half, which files its key in the same  *)
(* maps.  operator< orders the three keys.                                 *)
(***************************************************************************)
EXTENDS IngressTcp, TLC

CONSTANTS c1, c2, r1, n3, n4

FlowOne == <<0, 1, 1, 1, 1, 1>>
FlowTwo == <<0, 1, 1, 2, 1, 1>>
BothFlows == {FlowOne, FlowTwo}
OneStranger == {<<1, 1, 1, 2, 1, 1>>}
TwoFlows == (c1 :> FlowOne) @@ (c2 :> FlowTwo)

\* The descriptors are interchangeable, and neither the fairness nor a property
\* names one: the quotient has a fair behaviour wherever the specification has.
FdSymmetry == Permutations(Fds)

=============================================================================
