------------------------------ MODULE UdpRelay ------------------------------
(***************************************************************************)
(* What the ingress promises to the UDP clients (ingress.h:37-53): a       *)
(* datagram it received is sent to the chain at most once, and what the    *)
(* chain answers goes to an address that the flow was used from.  A relay  *)
(* that is halted promises nothing until it runs again, and then knows     *)
(* nothing of the addresses it had seen before.                            *)
(***************************************************************************)
CONSTANTS Datagrams, Replies, Flows, Addrs, FlowOf, AddrOf

VARIABLES running,      \* the relay is up
          accepted,     \* the datagrams received so far
          known,        \* those received since it was last started
          forwarded,    \* those sent to the chain
          delivered     \* the answers: [reply, flow, addr]

vars == <<running, accepted, known, forwarded, delivered>>

Init ==
    /\ running = TRUE
    /\ accepted = {} /\ known = {} /\ forwarded = {} /\ delivered = {}

Accept(d) ==
    /\ running /\ d \notin accepted
    /\ accepted' = accepted \union {d}
    /\ known' = known \union {d}
    /\ UNCHANGED <<running, forwarded, delivered>>

Forward(d) ==
    /\ running /\ d \in known \ forwarded
    /\ forwarded' = forwarded \union {d}
    /\ UNCHANGED <<running, accepted, known, delivered>>

Deliver(r, f, a) ==
    /\ running
    /\ \A x \in delivered : x.reply # r
    /\ \E d \in forwarded : FlowOf[d] = f
    /\ \E d \in known : FlowOf[d] = f /\ AddrOf[d] = a
    /\ delivered' = delivered \union {[reply |-> r, flow |-> f, addr |-> a]}
    /\ UNCHANGED <<running, accepted, known, forwarded>>

Halt == running /\ running' = FALSE /\ UNCHANGED <<accepted, known, forwarded, delivered>>

Resume ==
    /\ ~ running /\ running' = TRUE
    /\ known' = {}
    /\ UNCHANGED <<accepted, forwarded, delivered>>

Next ==
    \/ \E d \in Datagrams : Accept(d) \/ Forward(d)
    \/ \E r \in Replies, f \in Flows, a \in Addrs : Deliver(r, f, a)
    \/ Halt \/ Resume

Spec == Init /\ [][Next]_vars

=============================================================================
