------------------------------ MODULE EgressTcp ------------------------------
(***************************************************************************)
(* The TCP half of the egress (endpoint/egress.cpp): each packet that the  *)
(* chain delivers is handled by a detached thread, which looks its flow up *)
(* in connection_map, connects to the destination when the flow has no     *)
(* connection, sends the packet and returns to the chain what the          *)
(* destination answers.                                                    *)
(*                                                                         *)
(* No connection is closed by the egress and no entry is deleted, so a     *)
(* descriptor and the connection it stands for are the same thing here.    *)
(* The threads share the map and the connections without a lock.           *)
(***************************************************************************)
EXTENDS Endpoint

CONSTANTS Packets,      \* the packets from the chain, and the threads that handle them
          Socks,        \* the connections that the egress may open
          FlowOf,       \* the flow in the SFC header of a packet
          MaxAnswers    \* bound: how many chunks a destination answers on a connection

ASSUME PacketsAssumption == FlowOf \in [Packets -> Flows]
ASSUME SocksAssumption == None \notin Socks \union Flows
ASSUME MaxAnswersAssumption == MaxAnswers \in Nat

VARIABLES proc,         \* "up", or how the process ended
          pc,           \* where each thread is
          sock,         \* the connection that each thread uses
          dest,         \* the flow that a connection was opened for
          peer,         \* the destination's end: "open", "closed" or "reset"
          sent,         \* the packets that the destination has received
          answers,      \* how many chunks the destination has written
          unread,       \* how many of them nobody has read
          registered,   \* the connection that roulette has for the egress of a flow
          returned      \* what was sent back to the chain: [flow, sock]

net == <<dest, peer, sent, answers, unread>>

\* Of the maps of the endpoint, the egress uses connection_map only.
vars == <<proc, pc, sock, maps, net, registered, returned>>

Goto(p, l) == pc' = [pc EXCEPT ![p] = l]
Die(how) == proc' = how /\ UNCHANGED pc

-----------------------------------------------------------------------------
(* The destinations. *)

\* Once it has received something, a destination may answer
Answer(s) ==
    /\ peer[s] = "open" /\ sent[s] # {} /\ answers[s] < MaxAnswers
    /\ answers' = [answers EXCEPT ![s] = @ + 1]
    /\ unread' = [unread EXCEPT ![s] = @ + 1]
    /\ UNCHANGED <<proc, pc, sock, maps, dest, peer, sent, registered, returned>>

\* It may close a connection, or reset it: then what is unread is lost
Hangup(s) ==
    /\ dest[s] # None /\ peer[s] = "open"
    /\ \/ peer' = [peer EXCEPT ![s] = "closed"] /\ UNCHANGED unread
       \/ peer' = [peer EXCEPT ![s] = "reset"] /\ unread' = [unread EXCEPT ![s] = 0]
    /\ UNCHANGED <<proc, pc, sock, maps, dest, sent, answers, registered, returned>>

-----------------------------------------------------------------------------
(* The thread of a packet. *)

\* ServerUDP::run, then manage_pkt_from_chain up to its use of the map
FromChain(p) ==
    /\ pc[p] = "idle"
    /\ Goto(p, "lookup")
    /\ UNCHANGED <<proc, sock, maps, net, registered, returned>>

\* Faulty: the connection of another flow is taken for the flow's
LookupAny(p) ==
    /\ pc[p] = "lookup"
    /\ \E f \in Flows : \E s \in Found(conn, f) : /\ sock' = [sock EXCEPT ![p] = s]
                                                 /\ Goto(p, IF s = None THEN "connect" ELSE "send")
    /\ UNCHANGED <<proc, maps, net, registered, returned>>

\* Faulty: a flow without a connection is not told apart
LookupAndSend(p) ==
    /\ pc[p] = "lookup"
    /\ \E s \in Found(conn, FlowOf[p]) : sock' = [sock EXCEPT ![p] = s]
    /\ Goto(p, "update")
    /\ UNCHANGED <<proc, maps, net, registered, returned>>

\* retrieve_connection_2.  The rest runs in another thread, which is given the
\* answer; it connects when the answer is -1.
Lookup(p) ==
    /\ pc[p] = "lookup"
    /\ \E s \in Found(conn, FlowOf[p]) : /\ sock' = [sock EXCEPT ![p] = s]
                                         /\ Goto(p, IF s = None THEN "connect" ELSE "send")
    /\ UNCHANGED <<proc, maps, net, registered, returned>>

\* ClientTCP::connect_to_server: no connection is an exit
Connect(p) ==
    /\ pc[p] = "connect"
    /\ \/ /\ \E s \in Socks : /\ dest[s] = None
                              /\ dest' = [dest EXCEPT ![s] = FlowOf[p]]
                              /\ sock' = [sock EXCEPT ![p] = s]
          /\ Goto(p, "update") /\ UNCHANGED proc
       \/ Die("exit") /\ UNCHANGED <<dest, sock>>
    /\ UNCHANGED <<maps, peer, sent, answers, unread, registered, returned>>

\* update_entry: DBQuery::update_endpoint.  Its answer is ignored; a failed
\* request, applied by roulette or not, throws.
Update(p) ==
    /\ pc[p] = "update"
    /\ \/ registered' = [registered EXCEPT ![FlowOf[p]] = sock[p]]
       \/ UNCHANGED registered
    /\ \/ Goto(p, "insert") /\ UNCHANGED proc
       \/ Die("terminate")
    /\ UNCHANGED <<sock, maps, net, returned>>

\* update_entry: insert does not replace the entry of a flow that has one
Insert(p) ==
    /\ pc[p] = "insert"
    /\ AddLocal(FlowOf[p], sock[p])
    /\ Goto(p, "send")
    /\ UNCHANGED <<proc, sock, net, registered, returned>>

\* send: its answer is ignored.  A destination that has closed may answer with
\* a reset; a send on a connection that was reset takes the error from it.
Send(p) ==
    LET s == sock[p]
    IN  /\ pc[p] = "send"
        /\ CASE peer[s] = "open"   -> /\ sent' \in {sent, [sent EXCEPT ![s] = @ \union {p}]}
                                      /\ UNCHANGED <<peer, unread>>
             [] peer[s] = "closed" -> /\ \/ UNCHANGED <<peer, unread>>
                                         \/ /\ peer' = [peer EXCEPT ![s] = "reset"]
                                            /\ unread' = [unread EXCEPT ![s] = 0]
                                      /\ UNCHANGED sent
             [] peer[s] = "reset"  -> /\ peer' = [peer EXCEPT ![s] = "closed"]
                                      /\ UNCHANGED <<sent, unread>>
        /\ Goto(p, "read")
        /\ UNCHANGED <<proc, sock, maps, dest, answers, registered, returned>>

\* Faulty: the end of the stream is read again, and again
ReadForEver(p) ==
    LET s == sock[p]
    IN  /\ pc[p] = "read"
        /\ \/ /\ peer[s] = "reset" /\ Die("exit") /\ UNCHANGED unread
           \/ /\ \E k \in 1 .. unread[s] : unread' = [unread EXCEPT ![s] = @ - k]
              /\ Goto(p, "classify") /\ UNCHANGED proc
        /\ UNCHANGED <<sock, maps, dest, peer, sent, answers, registered, returned>>

\* read: some of the chunks, the end of the stream, or an error (an exit)
Read(p) ==
    LET s == sock[p]
    IN  /\ pc[p] = "read"
        /\ \/ /\ peer[s] = "reset" /\ Die("exit") /\ UNCHANGED unread
           \/ /\ \E k \in 1 .. unread[s] : unread' = [unread EXCEPT ![s] = @ - k]
              /\ Goto(p, "classify") /\ UNCHANGED proc
           \/ /\ peer[s] = "closed" /\ unread[s] = 0
              /\ Goto(p, "done") /\ UNCHANGED <<proc, unread>>
        /\ UNCHANGED <<sock, maps, dest, peer, sent, answers, registered, returned>>

\* classify_pkt: what was read is the destination's bytes, taken for an IP
\* header; sfc_map.at throws when it is neither TCP nor UDP
Classify(p) ==
    /\ pc[p] = "classify"
    /\ \/ Goto(p, "route") /\ UNCHANGED proc
       \/ Die("terminate")
    /\ UNCHANGED <<sock, maps, net, registered, returned>>

\* get_route_list: a path, no path (a break), or a throw that nothing catches
Route(p) ==
    /\ pc[p] = "route"
    /\ \/ \E l \in {"forward", "done"} : Goto(p, l) /\ UNCHANGED proc
       \/ Die("terminate")
    /\ UNCHANGED <<sock, maps, net, registered, returned>>

\* ClientUDP::send_and_wait_response; then another read if this one had filled
\* the buffer, else a break
Forward(p) ==
    /\ pc[p] = "forward"
    /\ \/ /\ returned' \in {returned, returned \union {[flow |-> FlowOf[p], sock |-> sock[p]]}}
          /\ \E l \in {"read", "done"} : Goto(p, l) /\ UNCHANGED proc
       \/ Die("exit") /\ UNCHANGED returned
    /\ UNCHANGED <<sock, maps, net, registered>>

-----------------------------------------------------------------------------
\* Two threads use one std::map at the same time and one of them changes it.
Race ==
    /\ \E p, q \in Packets : p # q /\ Conflict(pc[p], pc[q])
    /\ Die("undefined")
    /\ UNCHANGED <<sock, maps, net, registered, returned>>

\* The UDP half of the egress uses the map
Neighbour == OtherFiles /\ UNCHANGED <<proc, pc, sock, net, registered, returned>>

Init ==
    /\ proc = "up"
    /\ pc = [p \in Packets |-> "idle"]
    /\ sock = [p \in Packets |-> None]
    /\ EndpointInit
    /\ dest = [s \in Socks |-> None]
    /\ peer = [s \in Socks |-> "open"]
    /\ sent = [s \in Socks |-> {}]
    /\ answers = [s \in Socks |-> 0] /\ unread = [s \in Socks |-> 0]
    /\ registered = [f \in Flows |-> None]
    /\ returned = {}

Handle(p) ==
    \/ Lookup(p) \/ Connect(p) \/ Update(p) \/ Insert(p) \/ Send(p)
    \/ Read(p) \/ Classify(p) \/ Route(p) \/ Forward(p)

Next ==
    /\ proc = "up"
    /\ \/ \E p \in Packets : FromChain(p) \/ Handle(p)
       \/ \E s \in Socks : Answer(s) \/ Hangup(s)
       \/ Neighbour
       \/ Race

Spec == Init /\ [][Next]_vars

(* Fairness: the scheduler runs every thread that can go on, and roulette     *)
(* answers every request or the request fails.  The chain and the             *)
(* destinations owe nothing.                                                  *)
FairSpec == Spec /\ \A p \in Packets : WF_vars(proc = "up" /\ Handle(p))

-----------------------------------------------------------------------------
PacketPC == {"idle", "lookup", "connect", "update", "insert", "send", "read", "classify",
             "route", "forward", "done"}

\* The type of the state: the threads, the connections, the map and roulette.
TypeOK ==
    /\ proc \in {"up", "exit", "terminate", "undefined"}
    /\ pc \in [Packets -> PacketPC]
    /\ sock \in [Packets -> Socks \union {None}]
    /\ \A p \in Packets : pc[p] \notin {"idle", "lookup", "connect"} => sock[p] \in Socks
    /\ conn \in [Flows -> SUBSET Socks]
    /\ remote = EmptyMap /\ roulette = {} /\ kept = {}
    /\ strangers \subseteq Strangers /\ tangled \in BOOLEAN
    /\ dest \in [Socks -> Flows \union {None}]
    /\ peer \in [Socks -> {"open", "closed", "reset"}]
    /\ sent \in [Socks -> SUBSET Packets]
    /\ answers \in [Socks -> 0 .. MaxAnswers] /\ unread \in [Socks -> Nat]
    /\ registered \in [Flows -> Socks \union {None}]
    /\ returned \subseteq [flow : Flows, sock : Socks]

\* The packets of a flow, and the answers, travel on connections that were
\* opened for the flow, although the threads pass descriptors to each other
\* through connection_map and roulette (egress.cpp:172, 281), and although keys that
\* cross may hide a connection, or file it twice.
FlowIsKept ==
    /\ \A s \in Socks : \A p \in sent[s] : FlowOf[p] = dest[s]
    /\ \A x \in returned : dest[x.sock] = x.flow
    /\ \A f \in Flows : registered[f] # None => dest[registered[f]] = f

\* A thread stops waiting when its connection ends: a packet is not held for
\* ever on a connection that its destination has closed (egress.cpp:186-245).
HangupEndsWait ==
    \A p \in Packets :
        (pc[p] = "read" /\ peer[sock[p]] # "open") ~> (pc[p] = "done" \/ proc # "up")

=============================================================================
