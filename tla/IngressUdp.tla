----------------------------- MODULE IngressUdp -----------------------------
(***************************************************************************)
(* The UDP half of the ingress (endpoint/ingress.cpp) and its use of the   *)
(* maps of the endpoint.                                                   *)
(*                                                                         *)
(* Every datagram that a client sends is handled by a detached thread of   *)
(* its own (manage_entering_udp_packets), and so is every datagram that    *)
(* comes back from the chain (manage_pkt_from_chain).  The threads share   *)
(* connection_map, map_to_remote and the classifier's sfc_map without a    *)
(* lock.  A step of the model is the code between two points where another *)
(* thread can be seen: an access to one of these maps, a request to        *)
(* roulette, a datagram sent.                                              *)
(***************************************************************************)
EXTENDS Endpoint

CONSTANTS Datagrams,    \* the datagrams of the clients, and the threads that handle them
          Replies,      \* the datagrams from the chain, and the threads that handle them
          Addrs,        \* the socket addresses of the clients
          FlowOf,       \* the flow written in the headers of a datagram
          AddrOf,       \* the address a datagram was received from
          Classified,   \* the datagrams whose IP header says TCP or UDP
          MaxRestarts   \* bound: how many times the ingress is started again

ASSUME ThreadsAssumption == Datagrams \intersect Replies = {}
ASSUME DatagramsAssumption ==
    /\ FlowOf \in [Datagrams -> Flows]
    /\ AddrOf \in [Datagrams -> Addrs]
    /\ Classified \subseteq Datagrams
ASSUME NoneAssumption == None \notin Addrs \union Datagrams \union {NoId} \union Flows
ASSUME NoIdAssumption == NoId \notin Datagrams
ASSUME MaxRestartsAssumption == MaxRestarts \in Nat

VARIABLES proc,         \* "up", or how the process ended
          restarts,     \* how many times it was started again
          pc,           \* where each thread is
          chain,        \* the datagrams that were sent to the chain
          rflow,        \* the flow in the SFC header of a reply
          sock,         \* the address that a reply's thread looked up
          delivered     \* the answers sent to clients

\* In the maps, a flow is answered through the address of its client, and the
\* id of a roulette entry is the datagram whose thread created it.
vars == <<proc, restarts, pc, maps, chain, rflow, sock, delivered>>

Threads == Datagrams \union Replies
Goto(t, l) == pc' = [pc EXCEPT ![t] = l]

\* exit(EXIT_FAILURE), or an exception that leaves the function of a thread
Die(how) == proc' = how /\ UNCHANGED pc

-----------------------------------------------------------------------------
(* The thread of a datagram from a client. *)

\* ServerUDP::run: recvfrom, then a detached thread
Receive(d) ==
    /\ pc[d] = "idle"
    /\ Goto(d, "classify")
    /\ UNCHANGED <<proc, restarts, maps, chain, rflow, sock, delivered>>

\* classify_pkt: sfc_map.at throws for a packet that is neither TCP nor UDP
Classify(d) ==
    /\ pc[d] = "classify"
    /\ IF d \in Classified THEN Goto(d, "insert") /\ UNCHANGED proc
                           ELSE Die("terminate")
    /\ UNCHANGED <<restarts, maps, chain, rflow, sock, delivered>>

\* add_entry: insert does not replace the entry of a flow that has one
Insert(d) ==
    /\ pc[d] = "insert"
    /\ AddLocal(FlowOf[d], AddrOf[d])
    /\ Goto(d, "create")
    /\ UNCHANGED <<proc, restarts, chain, rflow, sock, delivered>>

\* add_entry: DBQuery::create_entry.  An answer other than "ok" gives the empty
\* id, and so may an "ok"; a failed request, applied by roulette or not, throws.
Create(d) ==
    /\ pc[d] = "create"
    /\ \/ CreateRemote(d) /\ Goto(d, "remember") /\ UNCHANGED proc
       \/ (CreateUnnamed(d) \/ UNCHANGED maps) /\ Goto(d, "route") /\ UNCHANGED proc
       \/ (CreateRemote(d) \/ UNCHANGED maps) /\ Die("terminate")
    /\ UNCHANGED <<restarts, chain, rflow, sock, delivered>>

\* add_entry: map_to_remote[ce] = response
Remember(d) ==
    /\ pc[d] = "remember"
    /\ SetRemote(FlowOf[d], d)
    /\ Goto(d, "route")
    /\ UNCHANGED <<proc, restarts, chain, rflow, sock, delivered>>

\* get_route_list: a path, no path (the datagram is discarded), or a throw
Route(d) ==
    /\ pc[d] = "route"
    /\ \/ \E l \in {"send", "done"} : Goto(d, l) /\ UNCHANGED proc
       \/ Die("terminate")
    /\ UNCHANGED <<restarts, maps, chain, rflow, sock, delivered>>

\* ClientUDP::send_and_wait_response: what sendto answers is ignored; a name
\* that getaddrinfo cannot resolve ends the process
Send(d) ==
    /\ pc[d] = "send"
    /\ \/ chain' \in {chain, chain \union {d}} /\ Goto(d, "done") /\ UNCHANGED proc
       \/ Die("exit") /\ UNCHANGED chain
    /\ UNCHANGED <<restarts, maps, rflow, sock, delivered>>

-----------------------------------------------------------------------------
(* The thread of a datagram from the chain. *)

\* Faulty: the SFC header of the reply is not read
FromChainBlind(r) ==
    /\ pc[r] = "idle" /\ chain # {}
    /\ Goto(r, "lookup")
    /\ UNCHANGED <<proc, restarts, maps, chain, rflow, sock, delivered>>

\* Any datagram that was sent may be answered, late, more than once or never.
\* The acknowledgement that the thread sends first is not followed further.
FromChain(r) ==
    /\ pc[r] = "idle"
    /\ \E d \in chain : rflow' = [rflow EXCEPT ![r] = FlowOf[d]]
    /\ Goto(r, "lookup")
    /\ UNCHANGED <<proc, restarts, maps, chain, sock, delivered>>

\* retrieve_connection_2
Lookup(r) ==
    /\ pc[r] = "lookup"
    /\ \E a \in Found(conn, rflow[r]) : sock' = [sock EXCEPT ![r] = a]
    /\ Goto(r, "deliver")
    /\ UNCHANGED <<proc, restarts, maps, chain, rflow, delivered>>

\* sendto: on descriptor -1 when the flow was not found; any failure is an exit
Deliver(r) ==
    /\ pc[r] = "deliver"
    /\ \/ /\ sock[r] # None
          /\ delivered' = delivered \union {[reply |-> r, flow |-> rflow[r], addr |-> sock[r]]}
          /\ Goto(r, "del_find")
          /\ UNCHANGED proc
       \/ Die("exit") /\ UNCHANGED delivered
    /\ UNCHANGED <<restarts, maps, chain, rflow, sock>>

\* Faulty: the test of find's result is inverted
DelFindInverted(r) ==
    /\ pc[r] = "del_find"
    /\ \E a \in Found(conn, rflow[r]) : Goto(r, IF a # None THEN "done" ELSE "del_erase")
    /\ UNCHANGED <<proc, restarts, maps, chain, rflow, sock, delivered>>

\* delete_entry: connection_map.find
DelFind(r) ==
    /\ pc[r] = "del_find"
    /\ \E a \in Found(conn, rflow[r]) : Goto(r, IF a = None THEN "done" ELSE "del_erase")
    /\ UNCHANGED <<proc, restarts, maps, chain, rflow, sock, delivered>>

\* delete_entry: connection_map.erase
DelErase(r) ==
    /\ pc[r] = "del_erase"
    /\ EraseLocal(rflow[r])
    /\ Goto(r, "del_remote")
    /\ UNCHANGED <<proc, restarts, chain, rflow, sock, delivered>>

\* delete_entry: the id is read and sent to DBQuery::delete_entry.  Its answer
\* is ignored; a failed request, applied or not, throws.
DelRemote(r) ==
    /\ pc[r] = "del_remote"
    /\ \E id \in RemoteIds(rflow[r]) :
          /\ ReadRemote(rflow[r], id)
          /\ \/ (Deleted(id) \/ Refused(id)) /\ Goto(r, "del_forget") /\ UNCHANGED proc
             \/ (Deleted(id) \/ Lost) /\ Die("terminate")
    /\ UNCHANGED <<restarts, chain, rflow, sock, delivered>>

\* delete_entry: map_to_remote.erase
DelForget(r) ==
    /\ pc[r] = "del_forget"
    /\ EraseRemote(rflow[r])
    /\ Goto(r, "done")
    /\ UNCHANGED <<proc, restarts, chain, rflow, sock, delivered>>

-----------------------------------------------------------------------------
(* The process. *)

\* The accesses that conflict may come out as if one had followed the other,
\* which the actions above say; of any other outcome the model says no more.
Race ==
    /\ \E t, u \in Threads : t # u /\ Conflict(pc[t], pc[u])
    /\ Die("undefined")
    /\ UNCHANGED <<restarts, maps, chain, rflow, sock, delivered>>

\* The TCP half of the ingress uses the maps
Neighbour ==
    /\ OtherFiles \/ OtherErases
    /\ UNCHANGED <<proc, restarts, pc, chain, rflow, sock, delivered>>

\* Server::setup_sign_catching: SIGTERM and SIGINT end the process
Signal ==
    /\ Die("exit")
    /\ UNCHANGED <<restarts, maps, chain, rflow, sock, delivered>>

\* The deployment starts the ingress again, with empty maps.  The threads are
\* gone; what roulette and the chain hold is not.
Restart ==
    /\ proc \in {"exit", "terminate"}
    /\ restarts < MaxRestarts
    /\ restarts' = restarts + 1
    /\ proc' = "up"
    /\ pc' = [t \in Threads |-> IF pc[t] = "idle" THEN "idle" ELSE "dead"]
    /\ ClearMaps
    /\ UNCHANGED <<chain, rflow, sock, delivered>>

Init ==
    /\ proc = "up"
    /\ restarts = 0
    /\ pc = [t \in Threads |-> "idle"]
    /\ EndpointInit
    /\ chain = {} /\ delivered = {}
    /\ rflow = [r \in Replies |-> None]
    /\ sock = [r \in Replies |-> None]

DatagramStep(d) ==
    \/ Receive(d) \/ Classify(d) \/ Insert(d) \/ Create(d) \/ Remember(d) \/ Route(d) \/ Send(d)

ReplyStep(r) ==
    \/ FromChain(r) \/ Lookup(r) \/ Deliver(r)
    \/ DelFind(r) \/ DelErase(r) \/ DelRemote(r) \/ DelForget(r)

Next ==
    \/ /\ proc = "up"
       /\ \/ \E d \in Datagrams : DatagramStep(d)
          \/ \E r \in Replies : ReplyStep(r)
          \/ Neighbour
          \/ Race
          \/ Signal
    \/ Restart

Spec == Init /\ [][Next]_vars

-----------------------------------------------------------------------------
(* Fairness: the scheduler runs every thread that can go on, and roulette    *)
(* answers every request or the request fails (curl is given no timeout, so  *)
(* this is an assumption on the network).  Clients and the chain owe nothing.*)
HandleDatagram(d) == Classify(d) \/ Insert(d) \/ Create(d) \/ Remember(d) \/ Route(d) \/ Send(d)

HandleReply(r) ==
    Lookup(r) \/ Deliver(r) \/ DelFind(r) \/ DelErase(r) \/ DelRemote(r) \/ DelForget(r)

Fairness ==
    /\ \A d \in Datagrams : WF_vars(proc = "up" /\ HandleDatagram(d))
    /\ \A r \in Replies : WF_vars(proc = "up" /\ HandleReply(r))

FairSpec == Spec /\ Fairness

-----------------------------------------------------------------------------
DatagramPC == {"idle", "classify", "insert", "create", "remember", "route", "send", "done", "dead"}
ReplyPC == {"idle", "lookup", "deliver", "del_find", "del_erase", "del_remote", "del_forget",
            "done", "dead"}

\* The type of the state: where the threads are, what the two maps, roulette
\* and the chain hold.
TypeOK ==
    /\ proc \in {"up", "exit", "terminate", "undefined"}
    /\ restarts \in 0 .. MaxRestarts
    /\ pc \in [Threads -> DatagramPC \union ReplyPC]
    /\ \A d \in Datagrams : pc[d] \in DatagramPC
    /\ \A r \in Replies : pc[r] \in ReplyPC
    /\ conn \in [Flows -> SUBSET Addrs]
    /\ remote \in [Flows -> SUBSET (Datagrams \union {NoId})]
    /\ strangers \subseteq Strangers /\ tangled \in BOOLEAN
    /\ roulette \subseteq Datagrams
    /\ kept \subseteq Datagrams
    /\ chain \subseteq Datagrams
    /\ rflow \in [Replies -> Flows \union {None}]
    /\ \A r \in Replies : pc[r] \notin {"idle", "dead"} => rflow[r] \in Flows
    /\ sock \in [Replies -> Addrs \union {None}]
    /\ delivered \subseteq [reply : Replies, flow : Flows, addr : Addrs]

\* A reply of flow f has removed the entry of f in this run of the process, or
\* has found it removed.
Cleaned(f, r) == rflow[r] = f /\ pc[r] \in {"del_remote", "del_forget", "done"}

\* A reply whose flow retrieve_connection_2 does not find makes sendto fail on
\* descriptor -1 and the process exit (ingress.cpp:213-240).  This happens only
\* after another reply of the flow was answered and removed the entry, when a
\* run of the process that has ended had sent a datagram of the flow, or when
\* two keys that cross have met in a map in this run, of clients of either half.
MissIsExplained ==
    \A r \in Replies :
        pc[r] = "deliver" /\ sock[r] = None =>
            \/ \E q \in Replies \ {r} : Cleaned(rflow[r], q)
            \/ \E d \in chain : FlowOf[d] = rflow[r] /\ pc[d] = "dead"
            \/ tangled

\* No other datagram of d's flow was ever received.
Sole(d) == \A e \in Datagrams \ {d} : FlowOf[e] = FlowOf[d] => pc[e] = "idle"

\* The entry that add_entry created in roulette for a flow of one datagram can
\* still be deleted: its id is on the way to map_to_remote, or is there and a
\* reply will find, or has found, the flow in connection_map.  This is lost
\* once two keys that cross have met in a map.
SoleEntryIsReachable ==
    proc = "up" /\ ~ tangled =>
        \A d \in roulette \ kept : LET f == FlowOf[d] IN
            Sole(d) /\ pc[d] # "dead" =>
                \/ pc[d] = "remember"
                \/ /\ remote[f] = {d}
                   /\ conn[f] # {} \/ \E r \in Replies : rflow[r] = f /\ pc[r] = "del_remote"

\* The ingress implements UdpRelay: each datagram is sent once, and a reply is
\* delivered where the flow in its SFC header came from in this run.
Relay == INSTANCE UdpRelay WITH
    running   <- proc = "up",
    accepted  <- {d \in Datagrams : pc[d] # "idle"},
    known     <- {d \in Datagrams : pc[d] \notin {"idle", "dead"}},
    forwarded <- chain

ImplementsUdpRelay == Relay!Spec

\* When the only datagram of a flow is answered, delete_entry ends up removing
\* its entry from roulette (endpoint.cpp:72-81), unless roulette refuses or gave
\* no id for it, the process stops, or keys that cross have met in a map.
SoleEntryIsRemoved ==
    \A d \in Datagrams, r \in Replies :
        (rflow[r] = FlowOf[d] /\ pc[r] = "lookup" /\ pc[d] = "done" /\ Sole(d))
            ~> (d \notin roulette \/ d \in kept \/ proc # "up" \/ ~ Sole(d) \/ tangled)

=============================================================================
