---------------------------- MODULE NetworkCalls ----------------------------
(***************************************************************************)
(* The calls that the threads of an endpoint make to the network: requests *)
(* to roulette (db/dbquery.cpp), datagrams (client/clientudp.cpp) and      *)
(* connections (client/clienttcp.cpp), with the descriptors that they      *)
(* open.  The descriptors are those of the process: a number that one      *)
(* thread closes may be the next that another one is given, so that a      *)
(* close too many, or a number that is used after its close, is somebody   *)
(* else's.                                                                 *)
(***************************************************************************)
EXTENDS Naturals

CONSTANTS Threads,
          Fds,          \* the descriptor numbers that are left to these calls
          MaxAddrs,     \* bound: how many addresses getaddrinfo gives
          MaxCalls,     \* bound: how many calls each thread makes
          NoFd,         \* -1
          Free          \* a number that is not in use

ASSUME FdsAssumption == NoFd \notin Fds
ASSUME BoundsAssumption == MaxAddrs \in Nat /\ MaxCalls \in [Threads -> Nat]
ASSUME FreeAssumption == Free \notin Threads \X Nat

VARIABLES proc,         \* "up", or "exit"
          pc,           \* where each thread is in its call
          kind,         \* which call it makes
          count,        \* how many it has begun
          fd,           \* sfd, or the connection of the curl handle
          sock,         \* ClientTCP::sock
          left,         \* how many addresses the loop has still to try
          reply,        \* what roulette has answered
          held,         \* the call that opened a descriptor
          handles,      \* the requests whose curl handle was not cleaned up
          inflight,     \* the requests on their way to roulette
          applied,      \* those that roulette has carried out
          outcome,      \* what each call has come to
          connection    \* the descriptor that a call has returned connected

vars == <<proc, pc, kind, count, fd, sock, left, reply, held, handles, inflight, applied, outcome,
          connection>>
net == <<inflight, applied>>

Calls == UNION {{t} \X (1 .. MaxCalls[t]) : t \in Threads}
Current(t) == <<t, count[t]>>

Goto(t, l) == pc' = [pc EXCEPT ![t] = l]
Ends(t, o) == outcome' = [outcome EXCEPT ![Current(t)] = o]
Exit == proc' = "exit"

\* socket: any number that is not in use
Open(c, f) == held[f] = Free /\ held' = [held EXCEPT ![f] = c]

\* "if (sfd > 0) close(sfd)"
Close(f) == held' = IF f = NoFd THEN held ELSE [held EXCEPT ![f] = Free]

\* A thread that is not in a call makes its next one
Begin(t, k) ==
    /\ pc[t] = "idle" /\ count[t] < MaxCalls[t]
    /\ count' = [count EXCEPT ![t] = @ + 1]
    /\ kind' = [kind EXCEPT ![t] = k]
    /\ UNCHANGED <<fd, reply, net, connection>>

\* The end of a call: its local variables are gone
Leave(t) ==
    /\ Goto(t, "idle")
    /\ kind' = [kind EXCEPT ![t] = "none"]
    /\ fd' = [fd EXCEPT ![t] = NoFd] /\ sock' = [sock EXCEPT ![t] = NoFd]
    /\ left' = [left EXCEPT ![t] = 0]
    /\ reply' = [reply EXCEPT ![t] = "none"]
    /\ UNCHANGED count

-----------------------------------------------------------------------------
(* A request: curl_req_handle around create_entry, update_endpoint,          *)
(* delete_entry or get_route_list.                                           *)

\* init_local_res: no handle is an exit
Request(t) ==
    /\ Begin(t, "request")
    /\ \/ /\ handles' = handles \union {<<t, count[t] + 1>>}
          /\ outcome' = [outcome EXCEPT ![<<t, count[t] + 1>>] = "asked"]
          /\ Goto(t, "perform") /\ UNCHANGED proc
       \/ Exit /\ UNCHANGED <<pc, handles, outcome>>
    /\ UNCHANGED <<sock, left, held>>

\* curl_easy_perform connects and sends the request, or fails
Perform(t) ==
    /\ pc[t] = "perform"
    /\ \/ \E f \in Fds :
             /\ Open(Current(t), f)
             /\ fd' = [fd EXCEPT ![t] = f]
             /\ inflight' = inflight \union {Current(t)}
             /\ Goto(t, "answer")
       \/ Goto(t, "handle") /\ UNCHANGED <<fd, held, inflight>>
    /\ UNCHANGED <<proc, kind, count, sock, left, reply, handles, applied, outcome, connection>>

\* What a thread that still waits reads
Answered(t, n, S) ==
    \E a \in S :
        reply' = IF pc[t] = "answer" /\ n = count[t] THEN [reply EXCEPT ![t] = a] ELSE reply

\* Roulette gets a request, even one that its caller has given up; it carries
\* it out or refuses it, and what answers is roulette, something that is not
\* JSON, or nothing.
Roulette(t, n) ==
    /\ inflight' = inflight \ {<<t, n>>}
    /\ \/ applied' = applied \union {<<t, n>>} /\ Answered(t, n, {"ok", "garbled", "none"})
       \/ UNCHANGED applied /\ Answered(t, n, {"ko", "garbled", "none"})
    /\ UNCHANGED <<proc, pc, kind, count, fd, sock, left, held, handles, outcome, connection>>

\* curl_easy_perform returns with the answer, and keeps the connection in the
\* handle unless roulette closed it; or with an error, and closes it
Return(t) ==
    /\ pc[t] = "answer"
    /\ \/ reply[t] # "none" /\ UNCHANGED <<fd, held, reply>>
       \/ /\ Close(fd[t]) /\ fd' = [fd EXCEPT ![t] = NoFd]
          /\ reply' \in {reply, [reply EXCEPT ![t] = "none"]}
    /\ Goto(t, "handle")
    /\ UNCHANGED <<proc, kind, count, sock, left, handles, net, outcome, connection>>

\* Faulty: a request that failed counts as refused
HandleQuietly(t) ==
    /\ pc[t] = "handle"
    /\ Ends(t, IF reply[t] = "ok" THEN "true" ELSE "false") /\ Goto(t, "clear")
    /\ UNCHANGED <<proc, kind, count, fd, sock, left, reply, held, handles, net, connection>>

\* handle_req and is_op_ok: an error, and an answer that cannot be parsed, throw
\* past clear_local_res; so does the content of an "ok" answer that has not the
\* type that is asked of it
Handle(t) ==
    /\ pc[t] = "handle"
    /\ \/ /\ \/ reply[t] = "ok" /\ Ends(t, "true")
             \/ reply[t] = "ko" /\ Ends(t, "false")
          /\ Goto(t, "clear") /\ UNCHANGED <<kind, count, fd, sock, left, reply>>
       \/ reply[t] # "ko" /\ Ends(t, "thrown") /\ Leave(t)
    /\ UNCHANGED <<proc, held, handles, net, connection>>

\* clear_local_res: the handle, and its connection if it has one
Clear(t) ==
    /\ pc[t] = "clear"
    /\ Close(fd[t])
    /\ handles' = handles \ {Current(t)}
    /\ Leave(t)
    /\ UNCHANGED <<proc, net, outcome, connection>>

-----------------------------------------------------------------------------
(* A datagram (ClientUDP::send_and_wait_response) and a connection           *)
(* (ClientTCP::connect_to_server).                                           *)

\* getaddrinfo: the addresses to try, or an exit
Resolved(t, l) ==
    \/ /\ \E n \in 1 .. MaxAddrs : left' = [left EXCEPT ![t] = n]
       /\ Goto(t, l) /\ UNCHANGED proc
    \/ Exit /\ UNCHANGED <<pc, left>>

SendUdp(t) ==
    /\ Begin(t, "udp")
    /\ Resolved(t, "next")
    /\ UNCHANGED <<sock, held, handles, outcome>>

\* The first line of connect_to_server opens a socket, or it is an exit
ConnectTcp(t) ==
    /\ Begin(t, "tcp")
    /\ \/ \E f \in Fds : /\ Open(<<t, count[t] + 1>>, f)
                         /\ sock' = [sock EXCEPT ![t] = f]
                         /\ Goto(t, "resolve") /\ UNCHANGED proc
       \/ Exit /\ UNCHANGED <<pc, held, sock>>
    /\ UNCHANGED <<left, handles, outcome>>

Resolve(t) ==
    /\ pc[t] = "resolve"
    /\ Resolved(t, "next")
    /\ UNCHANGED <<kind, count, fd, sock, reply, held, handles, net, outcome, connection>>

\* Faulty: the socket of the address before is not closed
TryNextOpen(t) ==
    /\ pc[t] = "next" /\ left[t] > 0
    /\ Goto(t, "socket")
    /\ UNCHANGED <<proc, kind, count, fd, sock, left, reply, held, handles, net, outcome, connection>>

\* Faulty: the end of the list is not tested
TryNextAlways(t) ==
    /\ pc[t] = "next"
    /\ Close(fd[t])
    /\ Goto(t, "socket")
    /\ UNCHANGED <<proc, kind, count, fd, sock, left, reply, handles, net, outcome, connection>>

\* The next address: the socket of the one before is closed
TryNext(t) ==
    /\ pc[t] = "next" /\ left[t] > 0
    /\ Close(fd[t])
    /\ Goto(t, "socket")
    /\ UNCHANGED <<proc, kind, count, fd, sock, left, reply, handles, net, outcome, connection>>

\* Faulty: a socket that could not be opened leaves the number of the one before
SocketKept(t) ==
    /\ pc[t] = "socket"
    /\ left' = [left EXCEPT ![t] = @ - 1]
    /\ \/ \E f \in Fds : /\ Open(Current(t), f)
                         /\ fd' = [fd EXCEPT ![t] = f]
                         /\ Goto(t, "connect")
       \/ Goto(t, "next") /\ UNCHANGED <<fd, held>>
    /\ UNCHANGED <<proc, kind, count, sock, reply, handles, net, outcome, connection>>

\* Faulty: an address whose socket could not be opened is tried again
SocketRetried(t) ==
    /\ pc[t] = "socket"
    /\ \/ \E f \in Fds : /\ Open(Current(t), f)
                         /\ fd' = [fd EXCEPT ![t] = f]
                         /\ left' = [left EXCEPT ![t] = @ - 1]
                         /\ Goto(t, "connect")
       \/ Goto(t, "next") /\ fd' = [fd EXCEPT ![t] = NoFd] /\ UNCHANGED <<held, left>>
    /\ UNCHANGED <<proc, kind, count, sock, reply, handles, net, outcome, connection>>

\* A socket for it, if there is one
Socket(t) ==
    /\ pc[t] = "socket"
    /\ left' = [left EXCEPT ![t] = @ - 1]
    /\ \/ \E f \in Fds : /\ Open(Current(t), f)
                         /\ fd' = [fd EXCEPT ![t] = f]
                         /\ Goto(t, "connect")
       \/ Goto(t, "next") /\ fd' = [fd EXCEPT ![t] = NoFd] /\ UNCHANGED held
    /\ UNCHANGED <<proc, kind, count, sock, reply, handles, net, outcome, connection>>

\* connect, and sendto for a datagram: a failure goes on with the next address
Attempt(t) ==
    /\ pc[t] = "connect"
    /\ \/ Goto(t, "next") /\ UNCHANGED <<kind, count, fd, sock, left, reply, outcome, connection>>
       \/ /\ kind[t] = "udp"
          /\ Ends(t, "sent") /\ Goto(t, "close")
          /\ UNCHANGED <<kind, count, fd, sock, left, reply, connection>>
       \/ /\ kind[t] = "tcp"
          /\ Ends(t, "connected") /\ Leave(t)
          /\ connection' = [connection EXCEPT ![Current(t)] = fd[t]]
    /\ UNCHANGED <<proc, held, handles, net>>

\* Faulty: connect_to_server returns although no address has answered
NoMoreReturns(t) ==
    /\ pc[t] = "next" /\ left[t] = 0
    /\ \/ /\ kind[t] = "udp"
          /\ Ends(t, "silent") /\ Goto(t, "close")
          /\ UNCHANGED <<kind, count, fd, sock, left, reply, connection>>
       \/ /\ kind[t] = "tcp"
          /\ Ends(t, "connected") /\ Leave(t)
          /\ connection' = [connection EXCEPT ![Current(t)] = fd[t]]
    /\ UNCHANGED <<proc, held, handles, net>>

\* No address is left: a datagram is given up without a word, a connection is
\* an exit
NoMore(t) ==
    /\ pc[t] = "next" /\ left[t] = 0
    /\ \/ /\ kind[t] = "udp"
          /\ Ends(t, "silent") /\ Goto(t, "close") /\ UNCHANGED <<proc, sock>>
       \/ /\ kind[t] = "tcp"
          /\ sock' = [sock EXCEPT ![t] = fd[t]]
          /\ Exit /\ UNCHANGED <<pc, outcome>>
    /\ UNCHANGED <<kind, count, fd, left, reply, held, handles, net, connection>>

\* The end of send_and_wait_response, which has not waited for any response
CloseUdp(t) ==
    /\ pc[t] = "close"
    /\ Close(fd[t])
    /\ Leave(t)
    /\ UNCHANGED <<proc, handles, net, outcome, connection>>

-----------------------------------------------------------------------------
Init ==
    /\ proc = "up"
    /\ pc = [t \in Threads |-> "idle"] /\ kind = [t \in Threads |-> "none"]
    /\ count = [t \in Threads |-> 0] /\ left = [t \in Threads |-> 0]
    /\ fd = [t \in Threads |-> NoFd] /\ sock = [t \in Threads |-> NoFd]
    /\ reply = [t \in Threads |-> "none"]
    /\ held = [f \in Fds |-> Free] /\ handles = {}
    /\ inflight = {} /\ applied = {}
    /\ outcome = [c \in Calls |-> "none"]
    /\ connection = [c \in Calls |-> NoFd]

\* The steps of a call that has begun
GoOn(t) ==
    \/ Perform(t) \/ Return(t) \/ Handle(t) \/ Clear(t)
    \/ Resolve(t) \/ TryNext(t) \/ Socket(t) \/ Attempt(t) \/ NoMore(t) \/ CloseUdp(t)

Next ==
    /\ proc = "up"
    /\ \/ \E t \in Threads : Request(t) \/ SendUdp(t) \/ ConnectTcp(t) \/ GoOn(t)
       \/ \E c \in inflight : Roulette(c[1], c[2])

Spec == Init /\ [][Next]_vars

(* Fairness: the scheduler runs a thread that is in a call.  A thread that     *)
(* waits for roulette can always go on, which says that curl_easy_perform      *)
(* returns; the code gives it no timeout, so this is an assumption on the      *)
(* network: it answers or breaks the connection.                               *)
FairSpec == Spec /\ \A t \in Threads : WF_vars(proc = "up" /\ GoOn(t))

-----------------------------------------------------------------------------
\* The type of the state: the threads and the results of their calls.
TypeOK ==
    /\ proc \in {"up", "exit"}
    /\ pc \in [Threads -> {"idle", "perform", "answer", "handle", "clear", "resolve", "next", "socket",
                           "connect", "close"}]
    /\ kind \in [Threads -> {"none", "request", "udp", "tcp"}]
    /\ count \in [Threads -> Nat]
    /\ \A t \in Threads : count[t] <= MaxCalls[t] /\ (pc[t] # "idle" => count[t] > 0)
    /\ left \in [Threads -> 0 .. MaxAddrs]
    /\ fd \in [Threads -> Fds \union {NoFd}] /\ sock \in [Threads -> Fds \union {NoFd}]
    /\ reply \in [Threads -> {"ok", "ko", "garbled", "none"}]
    /\ held \in [Fds -> Calls \union {Free}]
    /\ handles \subseteq Calls /\ inflight \subseteq Calls /\ applied \subseteq Calls
    /\ outcome \in [Calls -> {"none", "asked", "true", "false", "thrown", "sent", "silent", "connected"}]
    /\ connection \in [Calls -> Fds \union {NoFd}]

\* The thread has a number in hand: it will use or close it.
InHand(t) == pc[t] \notin {"idle", "socket"} /\ fd[t] # NoFd

\* A number that a thread uses or closes is open and was opened by the same call
\* (clientudp.cpp:40-62, clienttcp.cpp:46-54), whatever other threads open and
\* close between its steps.
OwnDescriptor == \A t \in Threads : InHand(t) => held[fd[t]] = Current(t)

\* The call c is still being made, by t
Runs(t, c) == c = Current(t) /\ pc[t] # "idle"

\* What is open and not in use was left behind by a request that threw past
\* clear_local_res (dbquery.h:81-87), or by a connection: the one that was
\* returned, and the socket that its first line opened and line 54 forgets
\* (clienttcp.cpp:4, 54).  A datagram and an answered request leave nothing.
LeaksAreExplained ==
    proc = "up" =>
        /\ \A f \in Fds : held[f] # Free =>
              \/ outcome[held[f]] \in {"thrown", "connected"}
              \/ \E t \in Threads : Runs(t, held[f]) /\ f \in {fd[t], sock[t]}
        /\ \A c \in handles : outcome[c] = "thrown" \/ \E t \in Threads : Runs(t, c)

\* connect_to_server returns only with a connection that is open and its own
\* (egress.cpp:165-172), and nobody closes it afterwards.
ConnectReturnsConnection ==
    \A c \in Calls : outcome[c] = "connected" =>
        connection[c] # NoFd /\ held[connection[c]] = c

\* Requests implement RemoteCall.
Remote == INSTANCE RemoteCall WITH
    answer <- [c \in Calls |-> IF outcome[c] \in {"asked", "true", "false", "thrown"}
                               THEN outcome[c] ELSE "none"]

ImplementsRemoteCall == Remote!Spec

\* Every call comes to an end, or the process does: the loops over the addresses
\* try each of them once (clientudp.cpp:38, clienttcp.cpp:44).
CallsEnd == \A t \in Threads : pc[t] # "idle" ~> (pc[t] = "idle" \/ proc = "exit")

=============================================================================
