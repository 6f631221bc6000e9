------------------------------ MODULE UdpProxy ------------------------------
(***************************************************************************)
(* The two halves of the UDP proxy and what is between them: the ingress   *)
(* (IngressUdp), the chain, the egress (EgressUdp), the destinations, and  *)
(* roulette, which both endpoints write to.                                *)
(*                                                                         *)
(* The chain owes nothing: a datagram that the ingress sent reaches the    *)
(* egress late, in any order, more than once (as several packets of        *)
(* DatagramOf) or never, and so does what the egress returns.  It keeps    *)
(* the SFC header and the packet behind it.                                *)
(***************************************************************************)
EXTENDS Naturals

CONSTANTS Flows, Strangers, None, NoId,
          Datagrams, Replies, Addrs, FlowOf, AddrOf, Classified, MaxRestarts,
          Packets,      \* the packets that the chain delivers to the egress
          DatagramOf,   \* the datagram of a client that a packet is
          MaxAnswers, MaxOthers

ASSUME DatagramOfAssumption == DatagramOf \in [Packets -> Datagrams]
ASSUME ThreadsAssumption == Datagrams \intersect Replies = {}
ASSUME DatagramsAssumption ==
    /\ FlowOf \in [Datagrams -> Flows]
    /\ AddrOf \in [Datagrams -> Addrs]
    /\ Classified \subseteq Datagrams
ASSUME NoneAssumption == None \notin Addrs \union Datagrams \union Packets \union {NoId} \union Flows
ASSUME NoIdAssumption == NoId \notin Datagrams
ASSUME BoundsAssumption == MaxRestarts \in Nat /\ MaxAnswers \in Nat /\ MaxOthers \in Nat

VARIABLES iproc, restarts, ipc, iconn, remote, istrangers, itangled, roulette, kept, chain, rflow,
          sock, delivered,
          eproc, epc, econn, estrangers, etangled, inbox, listening, missed, got, sent, answers,
          others, registered, returned,
          carried,      \* what the chain has brought to the thread of a reply
          created       \* the ids of the entries that roulette has ever held

ingressVars == <<iproc, restarts, ipc, iconn, remote, istrangers, itangled, roulette, kept, chain,
                 rflow, sock, delivered>>
egressVars == <<eproc, epc, econn, estrangers, etangled, inbox, listening, missed, got, sent,
                answers, others, registered, returned>>
vars == <<ingressVars, egressVars, carried, created>>

PacketFlow == [p \in Packets |-> FlowOf[DatagramOf[p]]]

In == INSTANCE IngressUdp WITH
    proc <- iproc, pc <- ipc, conn <- iconn, strangers <- istrangers, tangled <- itangled

ASSUME FlowsAssumption ==
    Flows \subseteq In!Entry /\ Strangers \subseteq In!Entry /\ Flows \intersect Strangers = {}

\* The egress has no entry of its own in roulette and no ids.
Eg == INSTANCE EgressUdp WITH
    FlowOf <- PacketFlow, proc <- eproc, pc <- epc, conn <- econn,
    strangers <- estrangers, tangled <- etangled,
    remote <- [f \in Flows |-> {}], roulette <- {}, kept <- {}

\* A step of the ingress.  A thread that starts for a reply was brought
\* something that the egress has returned, with the flow of its SFC header.
IngressStep ==
    /\ In!Next
    /\ \/ rflow' = rflow /\ UNCHANGED carried
       \/ \E r \in Replies, x \in returned :
             /\ rflow[r] # PacketFlow[x.thread]
             /\ rflow' = [rflow EXCEPT ![r] = PacketFlow[x.thread]]
             /\ carried' = [carried EXCEPT ![r] = x]
    /\ created' = created \union roulette'
    /\ UNCHANGED egressVars

\* A step of the egress or of a destination.  A thread that starts was brought
\* what the ingress has sent.
EgressStep ==
    /\ Eg!Next
    /\ \A p \in Packets : epc[p] = "idle" /\ epc'[p] # "idle" => DatagramOf[p] \in chain
    /\ UNCHANGED <<ingressVars, carried, created>>

Init ==
    /\ In!Init /\ Eg!Init
    /\ carried = [r \in Replies |-> None]
    /\ created = {}

Next == IngressStep \/ EgressStep

Spec == Init /\ [][Next]_vars

-----------------------------------------------------------------------------
\* An answer that a client is given went all the way (ingress.cpp:213-240,
\* egress.cpp:74-128): the egress sent a packet of its flow to the destination,
\* which is a datagram that the ingress had sent to the chain, and what was
\* returned for it came to the egress's host after its thread had opened the socket
\* to wait for the answer.
DeliveryHasItsRoundTrip ==
    \A x \in delivered : LET c == carried[x.reply] IN
        /\ c \in returned
        /\ c.thread \in sent /\ PacketFlow[c.thread] = x.flow
        /\ DatagramOf[c.thread] \in chain
        /\ \E d \in Datagrams : FlowOf[d] = x.flow /\ AddrOf[d] = x.addr /\ ipc[d] # "idle"
        /\ Eg!CameSince(c.thread, c.datagram)

\* The egress updates an entry (endpoint.cpp:54-67) that the ingress has created
\* before it sent the datagram (endpoint.cpp:33-47) and that is still there when
\* the update reaches roulette, unless an answer to another packet of the flow
\* has already deleted it.
EntryAwaitsEgress ==
    \A p \in Packets : LET d == DatagramOf[p] IN
        epc[p] = "update" /\ d \in created =>
            \/ d \in roulette
            \/ \E r \in Replies : rflow[r] = FlowOf[d] /\ carried[r].thread # p

=============================================================================
