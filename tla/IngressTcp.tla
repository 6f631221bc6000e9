----------------------------- MODULE IngressTcp -----------------------------
(***************************************************************************)
(* The TCP half of the ingress (endpoint/ingress.cpp): one thread for each *)
(* accepted connection (manage_entering_tcp_packets) and one for each      *)
(* answer of the chain (manage_pkt_from_chain).                            *)
(*                                                                         *)
(* A connection is known to all of them by its descriptor, a number that   *)
(* the kernel gives to another connection once it is closed: `owner' is    *)
(* what the number stands for now, fd[c] and sock[r] are the copies that   *)
(* the threads keep.  A thread blocked in recv keeps the connection it     *)
(* entered with (`target') whatever happens to the number.                 *)
(*                                                                         *)
(* Every packet of a client holds the same headers; a chunk is what one    *)
(* recv returns.  The clients are modelled by what the sockets show of     *)
(* them: they write, close or reset.                                       *)
(***************************************************************************)
EXTENDS Endpoint

CONSTANTS Conns,        \* the TCP connections, and the threads that handle them
          Replies,      \* the datagrams from the chain, and the threads that handle them
          Fds,          \* the descriptors that accept may return
          FlowOf,       \* the flow in the headers of the packets of a connection
          MaxPackets    \* bound: how many packets a client writes

ASSUME ConnsAssumption ==
    /\ Conns \intersect Replies = {}
    /\ FlowOf \in [Conns -> Flows]
ASSUME MaxPacketsAssumption == MaxPackets \in Nat
ASSUME NoneAssumption == None \notin Conns \union Fds \union Flows \union {NoId}

VARIABLES proc,         \* "up", or how the process ended
          pc,           \* where each thread is
          peer,         \* the client's end: "open", "closed" or "reset"
          written,      \* how many packets the client wrote
          queue,        \* how many of them wait in the socket
          owner,        \* the connection a descriptor stands for
          down,         \* the connections that were shut down here
          closed,       \* <<n, c>>: descriptor n was closed while it stood for c
          fd,           \* new_socket_fd of a connection's thread
          target,       \* the connection that its recv reads
          flow,         \* the headers it keeps
          chunk,        \* how many packets its last recv returned
          first,        \* the threads whose first_pkt holds
          dberr,        \* the threads whose db_error holds
          got,          \* how many packets the thread has received
          fwd,          \* how many it has sent to the chain
          chain,        \* the flows the chain has packets of
          rflow,        \* the flow in the SFC header of a reply
          sock,         \* the descriptor that a reply's thread looked up
          delivered     \* the answers: [reply, flow, conn]

client == <<peer, written>>
socks == <<queue, owner, down, closed>>
locals == <<fd, target, flow, chunk, first, dberr, got, fwd>>
back == <<rflow, sock, delivered>>

\* In the maps, a flow is answered through a descriptor, and the id of a
\* roulette entry is the thread that created it with its number of packets.
vars == <<proc, pc, maps, client, socks, locals, chain, back>>

Threads == Conns \union Replies
Goto(t, l) == pc' = [pc EXCEPT ![t] = l]
Die(how) == proc' = how /\ UNCHANGED pc

-----------------------------------------------------------------------------
(* The client. *)

Write(c) ==
    /\ peer[c] = "open" /\ c \notin down /\ written[c] < MaxPackets
    /\ written' = [written EXCEPT ![c] = @ + 1]
    /\ queue' = [queue EXCEPT ![c] = @ + 1]
    /\ UNCHANGED <<proc, pc, maps, peer, owner, down, closed, locals, chain, back>>

Leave(c) ==
    /\ peer[c] = "open"
    /\ \E how \in {"closed", "reset"} : peer' = [peer EXCEPT ![c] = how]
    /\ UNCHANGED <<proc, pc, maps, written, socks, locals, chain, back>>

-----------------------------------------------------------------------------
(* The thread of a connection. *)

\* ServerTCP::run: accept, then a detached thread.  Any free number may be
\* given: the lower ones may be in use for a moment by the requests of others.
Accept(c) ==
    /\ pc[c] = "idle"
    /\ \E n \in Fds : /\ owner[n] = None
                      /\ owner' = [owner EXCEPT ![n] = c]
                      /\ fd' = [fd EXCEPT ![c] = n]
    /\ Goto(c, "recv")
    /\ UNCHANGED <<proc, maps, client, queue, down, closed, target, flow, chunk, first, dberr, got, fwd,
                   chain, back>>

\* The thread enters recv: on a number that is closed it fails, an exit
Recv(c) ==
    /\ pc[c] = "recv"
    /\ IF owner[fd[c]] = None
       THEN Die("exit") /\ UNCHANGED target
       ELSE target' = [target EXCEPT ![c] = owner[fd[c]]] /\ Goto(c, "read") /\ UNCHANGED proc
    /\ UNCHANGED <<maps, client, socks, fd, flow, chunk, first, dberr, got, fwd, chain, back>>

\* recv returns packets, the end of the stream, or an error (an exit)
Read(c) ==
    LET s == target[c]
    IN  /\ pc[c] = "read"
        /\ \/ /\ peer[s] = "reset" /\ Die("exit")
              /\ UNCHANGED <<queue, chunk, got>>
           \/ /\ peer[s] # "reset"
              /\ \E k \in 1 .. queue[s] : /\ queue' = [queue EXCEPT ![s] = @ - k]
                                          /\ chunk' = [chunk EXCEPT ![c] = k]
                                          /\ got' = [got EXCEPT ![c] = @ + k]
              /\ Goto(c, "classify") /\ UNCHANGED proc
           \/ /\ queue[s] = 0
              /\ peer[s] = "closed" \/ (peer[s] = "open" /\ s \in down)
              /\ Goto(c, "del_find") /\ UNCHANGED <<proc, queue, chunk, got>>
        /\ UNCHANGED <<maps, client, owner, down, closed, fd, target, flow, first, dberr, fwd, chain, back>>

\* Faulty: the headers of the packet are not retrieved
ClassifyOnly(c) ==
    /\ pc[c] = "classify"
    /\ IF c \in first THEN Goto(c, "insert") ELSE Goto(c, "recv")
    /\ UNCHANGED <<proc, flow>>
    /\ UNCHANGED <<maps, client, socks, fd, target, chunk, first, dberr, got, fwd, chain, back>>

\* A chunk that does not begin with an IP header may be of no known protocol:
\* sfc_map.at throws.  The sfcid is always "0", so that only the chunks until
\* the first one that is sent go further.
Classify(c) ==
    /\ pc[c] = "classify"
    /\ \/ Die("terminate") /\ UNCHANGED flow
       \/ /\ c \in first
          /\ flow' = [flow EXCEPT ![c] = FlowOf[target[c]]]
          /\ Goto(c, "insert") /\ UNCHANGED proc
       \/ c \notin first /\ Goto(c, "recv") /\ UNCHANGED <<proc, flow>>
    /\ UNCHANGED <<maps, client, socks, fd, target, chunk, first, dberr, got, fwd, chain, back>>

Insert(c) ==
    /\ pc[c] = "insert"
    /\ AddLocal(flow[c], fd[c])
    /\ Goto(c, "create")
    /\ UNCHANGED <<proc, client, socks, locals, chain, back>>

\* catch (failure): db_error, and on to the next recv with first_pkt as it was
Catch(c) == dberr' = dberr \union {c} /\ Goto(c, "recv")

\* An answer other than "ok" gives the empty id, and so may an "ok"; a failed
\* request is caught, applied or not; the exception of a JSON answer of the wrong
\* shape is another one, which ends the process.
Create(c) ==
    LET id == <<c, got[c]>>
    IN  /\ pc[c] = "create"
        /\ \/ CreateRemote(id) /\ Goto(c, "remember") /\ UNCHANGED <<proc, dberr>>
           \/ (CreateUnnamed(id) \/ UNCHANGED maps) /\ Goto(c, "route") /\ UNCHANGED <<proc, dberr>>
           \/ (CreateRemote(id) \/ UNCHANGED maps) /\ Catch(c) /\ UNCHANGED proc
           \/ (CreateRemote(id) \/ UNCHANGED maps) /\ Die("terminate") /\ UNCHANGED dberr
        /\ UNCHANGED <<client, socks, fd, target, flow, chunk, first, got, fwd, chain, back>>

Remember(c) ==
    /\ pc[c] = "remember"
    /\ SetRemote(flow[c], <<c, got[c]>>)
    /\ Goto(c, "route")
    /\ UNCHANGED <<proc, client, socks, locals, chain, back>>

\* No route: break, without delete_entry.  The two kinds of exception again.
Route(c) ==
    /\ pc[c] = "route"
    /\ \/ \E l \in {"send", "finish"} : Goto(c, l) /\ UNCHANGED <<proc, dberr>>
       \/ Catch(c) /\ UNCHANGED proc
       \/ Die("terminate") /\ UNCHANGED dberr
    /\ UNCHANGED <<maps, client, socks, fd, target, flow, chunk, first, got, fwd, chain, back>>

\* ClientUDP::send_and_wait_response: whether it was sent is not known after
Send(c) ==
    /\ pc[c] = "send"
    /\ \/ /\ \/ /\ chain' = chain \union {flow[c]}
                /\ fwd' = [fwd EXCEPT ![c] = @ + chunk[c]]
             \/ UNCHANGED <<chain, fwd>>
          /\ first' = first \ {c}
          /\ Goto(c, "recv") /\ UNCHANGED proc
       \/ Die("exit") /\ UNCHANGED <<chain, fwd, first>>
    /\ UNCHANGED <<maps, client, socks, fd, target, flow, chunk, dberr, got, back>>

\* Faulty: the entry of a connection that ends is left where it is
DelNever(c) ==
    /\ pc[c] = "del_find"
    /\ Goto(c, "finish")
    /\ UNCHANGED <<proc, maps, client, socks, locals, chain, back>>

\* The end of the stream: delete_entry.  A thread that classified no packet
\* looks for headers that are all zero, which no connection has.
DelFind(c) ==
    /\ pc[c] = "del_find"
    /\ IF flow[c] = None
       THEN Goto(c, "finish")
       ELSE \E n \in Found(conn, flow[c]) : Goto(c, IF n = None THEN "finish" ELSE "del_erase")
    /\ UNCHANGED <<proc, maps, client, socks, locals, chain, back>>

DelErase(c) ==
    /\ pc[c] = "del_erase"
    /\ EraseLocal(flow[c])
    /\ Goto(c, "del_remote")
    /\ UNCHANGED <<proc, client, socks, locals, chain, back>>

\* Outside the try block: a failed request ends the process
DelRemote(c) ==
    /\ pc[c] = "del_remote"
    /\ \E id \in RemoteIds(flow[c]) :
          /\ ReadRemote(flow[c], id)
          /\ \/ (Deleted(id) \/ Refused(id)) /\ Goto(c, "del_forget") /\ UNCHANGED proc
             \/ (Deleted(id) \/ Lost) /\ Die("terminate")
    /\ UNCHANGED <<client, socks, locals, chain, back>>

DelForget(c) ==
    /\ pc[c] = "del_forget"
    /\ EraseRemote(flow[c])
    /\ Goto(c, "finish")
    /\ UNCHANGED <<proc, client, socks, locals, chain, back>>

\* close: the number stands for nothing, until accept gives it again
Give(n) ==
    /\ owner' = [owner EXCEPT ![n] = None]
    /\ closed' = closed \union ({<<n, owner[n]>>} \ {<<n, None>>})

\* Faulty: the descriptor is closed when nothing has failed, too
FinishAndClose(c) ==
    /\ pc[c] = "finish"
    /\ Give(fd[c])
    /\ Goto(c, "done")
    /\ UNCHANGED <<proc, maps, client, queue, down, locals, chain, back>>

\* The descriptor is closed after a failure only
Finish(c) ==
    /\ pc[c] = "finish"
    /\ IF c \in dberr THEN Give(fd[c]) ELSE UNCHANGED <<owner, closed>>
    /\ Goto(c, "done")
    /\ UNCHANGED <<proc, maps, client, queue, down, locals, chain, back>>

-----------------------------------------------------------------------------
(* The thread of a datagram from the chain. *)

FromChain(r) ==
    /\ pc[r] = "idle"
    /\ \E f \in chain : rflow' = [rflow EXCEPT ![r] = f]
    /\ Goto(r, "lookup")
    /\ UNCHANGED <<proc, maps, client, socks, locals, chain, sock, delivered>>

Lookup(r) ==
    /\ pc[r] = "lookup"
    /\ \E n \in Found(conn, rflow[r]) : sock' = [sock EXCEPT ![r] = n]
    /\ Goto(r, "deliver")
    /\ UNCHANGED <<proc, maps, client, socks, locals, chain, rflow, delivered>>

\* send: on what the number stands for now.  It fails, an exit, on descriptor
\* -1, a closed number, a connection that was shut down or reset, and may fail
\* on any other.
Deliver(r) ==
    /\ pc[r] = "deliver"
    /\ \/ /\ sock[r] # None
          /\ LET s == owner[sock[r]]
             IN  /\ s # None /\ s \notin down /\ peer[s] # "reset"
                 /\ delivered' = delivered \union {[reply |-> r, flow |-> rflow[r], conn |-> s]}
          /\ Goto(r, "shutdown") /\ UNCHANGED proc
       \/ Die("exit") /\ UNCHANGED delivered
    /\ UNCHANGED <<maps, client, socks, locals, chain, rflow, sock>>

Shutdown(r) ==
    /\ pc[r] = "shutdown"
    /\ down' = down \union ({owner[sock[r]]} \ {None})
    /\ Goto(r, "close")
    /\ UNCHANGED <<proc, maps, client, queue, owner, closed, locals, chain, back>>

Close(r) ==
    /\ pc[r] = "close"
    /\ Give(sock[r])
    /\ Goto(r, "done")
    /\ UNCHANGED <<proc, maps, client, queue, down, locals, chain, back>>

-----------------------------------------------------------------------------
Race ==
    /\ \E t, u \in Threads : t # u /\ Conflict(pc[t], pc[u])
    /\ Die("undefined")
    /\ UNCHANGED <<maps, client, socks, locals, chain, back>>

\* The UDP half of the ingress uses the maps
Neighbour ==
    /\ OtherFiles \/ OtherErases
    /\ UNCHANGED <<proc, pc, client, socks, locals, chain, back>>

Init ==
    /\ proc = "up"
    /\ pc = [t \in Threads |-> "idle"]
    /\ EndpointInit
    /\ peer = [c \in Conns |-> "open"]
    /\ written = [c \in Conns |-> 0] /\ queue = [c \in Conns |-> 0]
    /\ owner = [n \in Fds |-> None] /\ down = {} /\ closed = {}
    /\ fd = [c \in Conns |-> None]
    /\ target = [c \in Conns |-> None] /\ flow = [c \in Conns |-> None]
    /\ chunk = [c \in Conns |-> 0]
    /\ got = [c \in Conns |-> 0] /\ fwd = [c \in Conns |-> 0]
    /\ first = Conns /\ dberr = {}
    /\ chain = {} /\ delivered = {}
    /\ rflow = [r \in Replies |-> None] /\ sock = [r \in Replies |-> None]

Handle(c) ==
    \/ Recv(c) \/ Read(c) \/ Classify(c) \/ Insert(c) \/ Create(c) \/ Remember(c) \/ Route(c)
    \/ Send(c) \/ DelFind(c) \/ DelErase(c) \/ DelRemote(c) \/ DelForget(c) \/ Finish(c)

HandleReply(r) == Lookup(r) \/ Deliver(r) \/ Shutdown(r) \/ Close(r)

Next ==
    /\ proc = "up"
    /\ \/ \E c \in Conns : Write(c) \/ Leave(c) \/ Accept(c) \/ Handle(c)
       \/ \E r \in Replies : FromChain(r) \/ HandleReply(r)
       \/ Neighbour
       \/ Race

Spec == Init /\ [][Next]_vars

-----------------------------------------------------------------------------
(* Fairness: the scheduler runs every thread that can go on, roulette answers *)
(* every request or the request fails, and a connection waiting in the        *)
(* backlog is accepted when there is a descriptor.                            *)
FairSpec ==
    /\ Spec
    /\ \A c \in Conns : WF_vars(proc = "up" /\ (Accept(c) \/ Handle(c)))
    /\ \A r \in Replies : WF_vars(proc = "up" /\ HandleReply(r))

ConnPC == {"idle", "recv", "read", "classify", "insert", "create", "remember", "route", "send",
           "del_find", "del_erase", "del_remote", "del_forget", "finish", "done"}
ReplyPC == {"idle", "lookup", "deliver", "shutdown", "close", "done"}

\* The type of the state: the threads, the sockets and the maps.
TypeOK ==
    /\ proc \in {"up", "exit", "terminate", "undefined"}
    /\ pc \in [Threads -> ConnPC \union ReplyPC]
    /\ \A c \in Conns : pc[c] \in ConnPC
    /\ \A r \in Replies : pc[r] \in ReplyPC
    /\ conn \in [Flows -> SUBSET Fds]
    /\ remote \in [Flows -> SUBSET ((Conns \X Nat) \union {NoId})]
    /\ strangers \subseteq Strangers /\ tangled \in BOOLEAN
    /\ roulette \subseteq Conns \X Nat /\ kept \subseteq Conns \X Nat
    /\ peer \in [Conns -> {"open", "closed", "reset"}]
    /\ written \in [Conns -> 0 .. MaxPackets] /\ queue \in [Conns -> Nat]
    /\ owner \in [Fds -> Conns \union {None}] /\ down \subseteq Conns
    /\ closed \subseteq Fds \X Conns
    /\ fd \in [Conns -> Fds \union {None}]
    /\ \A c \in Conns :
          /\ pc[c] # "idle" => fd[c] \in Fds
          /\ pc[c] \in {"read", "classify"} => target[c] \in Conns
          /\ pc[c] \in {"insert", "create", "remember", "route", "send",
                       "del_erase", "del_remote", "del_forget"} => flow[c] \in Flows
    /\ target \in [Conns -> Conns \union {None}]
    /\ flow \in [Conns -> Flows \union {None}]
    /\ chunk \in [Conns -> Nat] /\ got \in [Conns -> Nat] /\ fwd \in [Conns -> Nat]
    /\ first \subseteq Conns /\ dberr \subseteq Conns
    /\ chain \subseteq Flows
    /\ rflow \in [Replies -> Flows \union {None}]
    /\ sock \in [Replies -> Fds \union {None}]
    /\ \A r \in Replies : /\ pc[r] # "idle" => rflow[r] \in Flows
                          /\ pc[r] \in {"shutdown", "close", "done"} => sock[r] \in Fds
    /\ delivered \subseteq [reply : Replies, flow : Flows, conn : Conns]

\* Number n was closed while it stood for connection c, by the thread of an answer
\* or by that of a connection one of whose requests had failed (ingress.cpp:116, 230).
ClosedUnder(n, c) ==
    /\ <<n, c>> \in closed
    /\ \/ \E r \in Replies : sock[r] = n /\ pc[r] = "done"
       \/ \E d \in dberr : fd[d] = n /\ pc[d] = "done"

\* The number that a connection's thread calls recv on, registers in
\* connection_map and closes is its own connection's, and stays so when the thread
\* has ended, unless it is closed while it stands for that connection after an
\* answer or after a failed request.
OwnDescriptor ==
    \A c \in Conns : pc[c] # "idle" => owner[fd[c]] = c \/ ClosedUnder(fd[c], c)

\* An answer goes to a connection of the flow that its SFC header names, unless
\* its descriptor stood for a connection of that flow, was closed after an answer
\* or a failed request, and was given to another connection while connection_map,
\* or the thread of the answer, still held the number.
ForeignDeliveryIsExplained ==
    \A x \in delivered : FlowOf[x.conn] # x.flow =>
        \E c \in Conns : ClosedUnder(sock[x.reply], c) /\ FlowOf[c] = x.flow

Ids(c) == {id \in roulette \ kept : id[1] = c}

\* When the client of a connection that has sent a packet to the chain leaves,
\* its thread removes its entry from roulette (ingress.cpp:101-109), unless
\* roulette refuses or gave no id for it, a request has failed, the process stops,
\* keys that cross have met in a map, or its number was closed under it or under
\* the connection that had the number before.
DisconnectCleans ==
    \A c \in Conns :
        (pc[c] = "read" /\ target[c] = c /\ c \notin first /\ peer[c] = "closed")
            ~> \/ Ids(c) = {} \/ dberr # {} \/ proc # "up" \/ tangled
               \/ \E b \in Conns : <<fd[c], b>> \in closed

\* "Once a packet is received it will be classified. [...] To the packet is added
\* the SFC header and it is sent to the chain." (ingress.h:28-31): a connection
\* that sends packets to the chain sends all it has received.
EveryPacketIsSent ==
    \A c \in Conns \ dberr : proc = "up" /\ pc[c] = "recv" /\ fwd[c] > 0 => fwd[c] = got[c]

=============================================================================
