----------------------------- MODULE MCEgressTcp -----------------------------
(***************************************************************************)
(* Instances of EgressTcp: p1 and p2 are packets of one flow, p3 is of     *)
(* another flow of the same client, and the UDP half has a flow, too.      *)
(* operator< orders the three keys.                                        *)
(***************************************************************************)
EXTENDS EgressTcp, TLC

CONSTANTS p1, p2, p3, s1, s2

FlowOne == <<0, 1, 1, 1, 1, 1>>
FlowTwo == <<0, 1, 1, 2, 1, 1>>
BothFlows == {FlowOne, FlowTwo}
OneStranger == {<<1, 2, 2, 2, 1, 1>>}
SharedFlow == (p1 :> FlowOne) @@ (p2 :> FlowOne) @@ (p3 :> FlowTwo)

\* The connections are interchangeable, and neither the fairness nor a property
\* names one: the quotient has a fair behaviour wherever the specification has.
SockSymmetry == Permutations(Socks)

=============================================================================
