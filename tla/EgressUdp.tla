------------------------------ MODULE EgressUdp ------------------------------
(***************************************************************************)
(* The UDP half of the egress (endpoint/egress.cpp): each packet that the  *)
(* chain delivers is handled by a detached thread, which opens two raw     *)
(* sockets, sends the packet to its destination through one of them and    *)
(* waits on the other for what it then returns to the chain.               *)
(*                                                                         *)
(* A raw socket for UDP is given a copy of every UDP datagram that reaches *)
(* the host: the answers to every thread, the packets of the chain, and    *)
(* what has nothing to do with them: what the chain's first function       *)
(* acknowledges, packets of TCP flows, the answers of a name server.  A    *)
(* datagram here is a pair, the packet that it answers, or is, and which   *)
(* of the two.  The threads share connection_map, which they fill and      *)
(* whose content they never use.                                           *)
(***************************************************************************)
EXTENDS Endpoint, Sequences

CONSTANTS Packets,      \* the packets from the chain, and the threads that handle them
          FlowOf,       \* the flow in the SFC header of a packet
          MaxAnswers,   \* bound: how many times a destination answers a packet
          MaxOthers     \* bound: how many other datagrams reach the host

ASSUME PacketsAssumption == FlowOf \in [Packets -> Flows] /\ None \notin Packets
ASSUME MaxAnswersAssumption == MaxAnswers \in Nat /\ MaxOthers \in Nat

VARIABLES proc,         \* "up", or how the process ended
          pc,           \* where each thread is
          inbox,        \* what waits in the receiving socket of a thread
          listening,    \* the threads that have opened it
          missed,       \* how often each datagram had come when a thread opened it
          got,          \* the datagram that a thread has read
          sent,         \* the packets sent to their destinations
          answers,      \* how many times each was answered
          others,       \* how many other datagrams have reached the host
          registered,   \* the socket that roulette has for the egress of a flow
          returned      \* what was sent back to the chain: [thread, datagram]

opened == <<listening, missed>>

\* In connection_map and in roulette, the sending socket of a thread is the thread.
vars == <<proc, pc, maps, inbox, opened, got, sent, answers, others, registered,
          returned>>

Goto(p, l) == pc' = [pc EXCEPT ![p] = l]
Die(how) == proc' = how /\ UNCHANGED pc

Other == <<None, "other">>
Incoming == (Packets \X {"chain", "answer"}) \union {Other}

\* How often x has reached the host: the chain delivers a packet once
Arrivals(x) ==
    IF x = Other THEN others
    ELSE IF x[2] = "answer" THEN answers[x[1]]
    ELSE IF pc[x[1]] = "idle" THEN 0 ELSE 1

\* A datagram reaches the host: the socket of a thread that has ended stays
\* open, but nobody reads it.
Arrive(x) ==
    inbox' = [p \in Packets |->
                 IF p \in listening /\ pc[p] # "done" THEN Append(inbox[p], x) ELSE inbox[p]]

-----------------------------------------------------------------------------
\* The destination of a packet answers it, late or more than once
Answer(p) ==
    /\ p \in sent /\ answers[p] < MaxAnswers
    /\ answers' = [answers EXCEPT ![p] = @ + 1]
    /\ Arrive(<<p, "answer">>)
    /\ UNCHANGED <<proc, pc, maps, opened, got, sent, others, registered, returned>>

\* Any other UDP datagram reaches the host
Disturb ==
    /\ others < MaxOthers
    /\ others' = others + 1
    /\ Arrive(Other)
    /\ UNCHANGED <<proc, pc, maps, opened, got, sent, answers, registered, returned>>

\* Faulty: the thread's socket is there before the packet is
FromChainListening(p) ==
    /\ pc[p] = "idle"
    /\ Goto(p, "lookup")
    /\ listening' = listening \union {p}
    /\ inbox' = [q \in Packets |-> IF q \in listening' THEN Append(inbox[q], <<p, "chain">>)
                                                       ELSE inbox[q]]
    /\ UNCHANGED <<proc, maps, missed, got, sent, answers, others, registered, returned>>

\* The chain delivers a packet; ServerUDP::run starts its thread
FromChain(p) ==
    /\ pc[p] = "idle"
    /\ Goto(p, "lookup")
    /\ Arrive(<<p, "chain">>)
    /\ UNCHANGED <<proc, maps, opened, got, sent, answers, others, registered, returned>>

\* retrieve_connection_2, whose answer manage_exiting_udp_packets overwrites
Lookup(p) ==
    /\ pc[p] = "lookup"
    /\ Goto(p, "open")
    /\ UNCHANGED <<proc, maps, inbox, opened, got, sent, answers, others, registered, returned>>

\* Faulty: the receiving socket is not bound
OpenUnbound(p) ==
    /\ pc[p] = "open"
    /\ Goto(p, "send")
    /\ UNCHANGED <<proc, maps, inbox, opened, got, sent, answers, others, registered, returned>>

\* The two sockets are opened and the second one is bound, or it is an exit
Open(p) ==
    /\ pc[p] = "open"
    /\ \/ /\ listening' = listening \union {p}
          /\ missed' = [missed EXCEPT ![p] = [x \in Incoming |-> Arrivals(x)]]
          /\ Goto(p, "send") /\ UNCHANGED proc
       \/ Die("exit") /\ UNCHANGED opened
    /\ UNCHANGED <<maps, inbox, got, sent, answers, others, registered, returned>>

\* Faulty: a failure of sendto is ignored
SendUnchecked(p) ==
    /\ pc[p] = "send"
    /\ sent' \in {sent, sent \union {p}} /\ Goto(p, "update") /\ UNCHANGED proc
    /\ UNCHANGED <<maps, inbox, opened, got, answers, others, registered, returned>>

\* sendto: a failure is an exit
Send(p) ==
    /\ pc[p] = "send"
    /\ \/ sent' = sent \union {p} /\ Goto(p, "update") /\ UNCHANGED proc
       \/ Die("exit") /\ UNCHANGED sent
    /\ UNCHANGED <<maps, inbox, opened, got, answers, others, registered, returned>>

\* update_entry: DBQuery::update_endpoint.  Its answer is ignored; a failed
\* request, applied by roulette or not, throws.
Update(p) ==
    /\ pc[p] = "update"
    /\ registered' \in {registered, [registered EXCEPT ![FlowOf[p]] = p]}
    /\ \/ Goto(p, "insert") /\ UNCHANGED proc
       \/ Die("terminate")
    /\ UNCHANGED <<maps, inbox, opened, got, sent, answers, others, returned>>

\* Faulty: the descriptor of the lookup, -1, is filed
InsertLookedUp(p) ==
    /\ pc[p] = "insert"
    /\ AddLocal(FlowOf[p], NoId)
    /\ Goto(p, "recv")
    /\ UNCHANGED <<proc, inbox, opened, got, sent, answers, others, registered, returned>>

\* update_entry: insert does not replace the entry of a flow that has one
Insert(p) ==
    /\ pc[p] = "insert"
    /\ AddLocal(FlowOf[p], p)
    /\ Goto(p, "recv")
    /\ UNCHANGED <<proc, inbox, opened, got, sent, answers, others, registered, returned>>

\* Faulty: only an answer to the thread's own packet ends the wait, and what
\* comes before it stays in the way
RecvOwn(p) ==
    /\ pc[p] = "recv"
    /\ inbox[p] # <<>> /\ Head(inbox[p]) = <<p, "answer">>
    /\ got' = [got EXCEPT ![p] = Head(inbox[p])]
    /\ inbox' = [inbox EXCEPT ![p] = Tail(@)]
    /\ Goto(p, "classify") /\ UNCHANGED proc
    /\ UNCHANGED <<maps, opened, sent, answers, others, registered, returned>>

\* recvfrom: whatever came first, or an error (an exit)
Recv(p) ==
    /\ pc[p] = "recv"
    /\ \/ /\ inbox[p] # <<>>
          /\ got' = [got EXCEPT ![p] = Head(inbox[p])]
          /\ inbox' = [inbox EXCEPT ![p] = Tail(@)]
          /\ Goto(p, "classify") /\ UNCHANGED proc
       \/ Die("exit") /\ UNCHANGED <<got, inbox>>
    /\ UNCHANGED <<maps, opened, sent, answers, others, registered, returned>>

\* classify_pkt: a raw socket gives the IP header, whose protocol is UDP
Classify(p) ==
    /\ pc[p] = "classify"
    /\ Goto(p, "route")
    /\ UNCHANGED <<proc, maps, inbox, opened, got, sent, answers, others, registered, returned>>

\* get_route_list: a path, no path, or a throw that nothing catches
Route(p) ==
    /\ pc[p] = "route"
    /\ \/ \E l \in {"forward", "done"} : Goto(p, l) /\ UNCHANGED proc
       \/ Die("terminate")
    /\ UNCHANGED <<maps, inbox, opened, got, sent, answers, others, registered, returned>>

\* ClientUDP::send_and_wait_response, with the SFC header of the thread's own
\* packet; no datagram fills the buffer, so that the loop ends here
Forward(p) ==
    /\ pc[p] = "forward"
    /\ \/ /\ returned' \in {returned, returned \union {[thread |-> p, datagram |-> got[p]]}}
          /\ Goto(p, "done") /\ UNCHANGED proc
       \/ Die("exit") /\ UNCHANGED returned
    /\ UNCHANGED <<maps, inbox, opened, got, sent, answers, others, registered>>

-----------------------------------------------------------------------------
\* Two threads use one std::map at the same time and one of them changes it.
Race ==
    /\ \E p, q \in Packets : p # q /\ Conflict(pc[p], pc[q])
    /\ Die("undefined")
    /\ UNCHANGED <<maps, inbox, opened, got, sent, answers, others, registered, returned>>

\* The TCP half of the egress uses the map
Neighbour ==
    /\ OtherFiles
    /\ UNCHANGED <<proc, pc, inbox, opened, got, sent, answers, others, registered, returned>>

Init ==
    /\ proc = "up"
    /\ pc = [p \in Packets |-> "idle"]
    /\ EndpointInit
    /\ inbox = [p \in Packets |-> <<>>] /\ listening = {}
    /\ missed = [p \in Packets |-> [x \in Incoming |-> 0]]
    /\ got = [p \in Packets |-> None]
    /\ sent = {} /\ answers = [p \in Packets |-> 0] /\ others = 0
    /\ registered = [f \in Flows |-> None]
    /\ returned = {}

Handle(p) ==
    \/ Lookup(p) \/ Open(p) \/ Send(p) \/ Update(p) \/ Insert(p)
    \/ Recv(p) \/ Classify(p) \/ Route(p) \/ Forward(p)

Next ==
    /\ proc = "up"
    /\ \/ \E p \in Packets : FromChain(p) \/ Handle(p) \/ Answer(p)
       \/ Disturb
       \/ Neighbour
       \/ Race

Spec == Init /\ [][Next]_vars

(* Fairness: the scheduler runs every thread that can go on, a thread that    *)
(* waits in recvfrom does so until a datagram comes, and roulette answers     *)
(* every request or the request fails.  The chain and the destinations owe    *)
(* nothing.                                                                   *)
Advance(p) == Handle(p) /\ (pc[p] = "recv" => inbox[p] # <<>>)

FairSpec == Spec /\ \A p \in Packets : WF_vars(proc = "up" /\ Advance(p))

-----------------------------------------------------------------------------
PacketPC == {"idle", "lookup", "open", "send", "update", "insert", "recv", "classify", "route",
             "forward", "done"}

\* The type of the state: the threads, their sockets, the map and roulette.
TypeOK ==
    /\ proc \in {"up", "exit", "terminate", "undefined"}
    /\ pc \in [Packets -> PacketPC]
    /\ conn \in [Flows -> SUBSET Packets]
    /\ remote = EmptyMap /\ roulette = {} /\ kept = {}
    /\ strangers \subseteq Strangers /\ tangled \in BOOLEAN
    /\ inbox \in [Packets -> Seq(Incoming)]
    /\ listening \subseteq Packets /\ missed \in [Packets -> [Incoming -> Nat]]
    /\ got \in [Packets -> Incoming \union {None}]
    /\ \A p \in Packets : pc[p] \in {"classify", "route", "forward"} => got[p] \in Incoming
    /\ sent \subseteq Packets
    /\ answers \in [Packets -> 0 .. MaxAnswers]
    /\ others \in 0 .. MaxOthers
    /\ registered \in [Flows -> Packets \union {None}]
    /\ returned \subseteq [thread : Packets, datagram : Incoming]

Waits(p) == pc[p] \in {"update", "insert", "recv"}

\* The receiving socket is there before the packet leaves (egress.cpp:50-75):
\* an answer that comes while the thread still talks to roulette is not missed.
NoAnswerMissed ==
    \A p \in Packets : Waits(p) /\ answers[p] > 0 =>
        \E i \in DOMAIN inbox[p] : inbox[p][i] = <<p, "answer">>

\* A thread whose packet was answered ends, whatever else its socket receives.
AnswerEndsWait ==
    \A p \in Packets : answers[p] > 0 ~> (pc[p] = "done" \/ proc # "up")

\* x has reached the host since p's thread opened its receiving socket.
CameSince(p, x) == Arrivals(x) > missed[p][x]

\* "it sends data using raw sockets, than it waits for the response"
\* (egress.h:53-54).  What a thread returns to the chain under the SFC header of
\* its packet may be any UDP datagram of the host (egress.cpp:92), but it is one
\* that came after the thread had opened the socket: no datagram of an earlier
\* exchange, and never the packet that the thread was started for.
ForeignAnswerIsExplained == \A x \in returned : CameSince(x.thread, x.datagram)

=============================================================================
