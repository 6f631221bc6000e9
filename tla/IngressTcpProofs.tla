-------------------------- MODULE IngressTcpProofs --------------------------
(***************************************************************************)
(* Proofs about IngressTcp, for any number of connections, answers,        *)
(* descriptors and packets: the type invariant, and that a thread loses    *)
(* its descriptor, and an answer its connection, only when somebody closed *)
(* the number before.                                                      *)
(***************************************************************************)
EXTENDS IngressTcp, TLAPS

USE DEF Threads, Goto, Die, Catch, tables, maps, client, socks, locals, back, EmptyMap, EndpointInit

\* The initial state has the type of the state.
LEMMA TypeInit == Init => TypeOK
<1> SUFFICES ASSUME Init PROVE TypeOK
  OBVIOUS
<1>1. tangled \in BOOLEAN /\ strangers \subseteq Strangers
  BY DEF Init
<1>2. /\ conn \in [Flows -> SUBSET Fds]
      /\ remote \in [Flows -> SUBSET ((Conns \X Nat) \union {NoId})]
  BY DEF Init
<1> QED
  BY <1>1, <1>2, MaxPacketsAssumption DEF Init, TypeOK, ConnPC, ReplyPC

\* What may become of the maps: the type they have after one of their operations.
MapsType == /\ conn' \in [Flows -> SUBSET Fds]
            /\ remote' \in [Flows -> SUBSET ((Conns \X Nat) \union {NoId})]
            /\ strangers' \subseteq Strangers /\ tangled' \in BOOLEAN
            /\ roulette' \subseteq Conns \X Nat /\ kept' \subseteq Conns \X Nat

\* An erase takes records away and changes none.
LEMMA ErasedIsPart ==
    ASSUME NEW S, NEW m \in [Flows -> SUBSET S], NEW f, NEW n, n \in Erased(m, f)
    PROVE  n \in [Flows -> SUBSET S] /\ \A g \in Flows : n[g] \subseteq m[g]
  BY DEF Erased

\* The operations on connection_map keep the type of the maps.
LEMMA LocalType ==
    ASSUME TypeOK, NEW f \in Flows, NEW n \in Fds, AddLocal(f, n) \/ EraseLocal(f)
    PROVE  MapsType
<1>1. conn \in [Flows -> SUBSET Fds]
  BY DEF TypeOK
<1>2. CASE AddLocal(f, n)
  <2>1. conn' \in [Flows -> SUBSET Fds]
    BY <1>1, <1>2 DEF AddLocal
  <2>2. tangled' \in BOOLEAN
    BY <1>2 DEF AddLocal, File
  <2> QED
    BY <1>2, <2>1, <2>2 DEF AddLocal, TypeOK, MapsType
<1>3. CASE EraseLocal(f)
  <2>1. conn' \in [Flows -> SUBSET Fds]
    BY <1>1, <1>3, ErasedIsPart DEF EraseLocal
  <2> QED
    BY <1>3, <2>1 DEF EraseLocal, TypeOK, MapsType
<1> QED
  BY <1>2, <1>3

\* So do the operations on map_to_remote.
LEMMA RemoteType ==
    ASSUME TypeOK, NEW f \in Flows, NEW c \in Conns,
           SetRemote(f, <<c, got[c]>>) \/ EraseRemote(f)
    PROVE  MapsType
<1>1. remote \in [Flows -> SUBSET ((Conns \X Nat) \union {NoId})]
  BY DEF TypeOK
<1>2. CASE SetRemote(f, <<c, got[c]>>)
  <2>1. <<c, got[c]>> \in Conns \X Nat
    BY DEF TypeOK
  <2>2. remote' \in [Flows -> SUBSET ((Conns \X Nat) \union {NoId})]
    BY <1>1, <1>2, <2>1 DEF SetRemote
  <2>3. tangled' \in BOOLEAN
    BY <1>2 DEF SetRemote, File
  <2> QED
    BY <1>2, <2>2, <2>3 DEF SetRemote, TypeOK, MapsType
<1>3. CASE EraseRemote(f)
  <2>1. remote' \in [Flows -> SUBSET ((Conns \X Nat) \union {NoId})]
    BY <1>1, <1>3, ErasedIsPart DEF EraseRemote
  <2> QED
    BY <1>3, <2>1 DEF EraseRemote, TypeOK, MapsType
<1> QED
  BY <1>2, <1>3

\* And the request that deletes an id.
LEMMA DeleteType ==
    ASSUME TypeOK, NEW f \in Flows, NEW id \in RemoteIds(f), ReadRemote(f, id),
           Deleted(id) \/ Refused(id) \/ Lost
    PROVE  MapsType
<1>1. remote \in [Flows -> SUBSET ((Conns \X Nat) \union {NoId})]
  BY DEF TypeOK
<1>2. {id} \ {NoId} \subseteq Conns \X Nat
  BY <1>1 DEF RemoteIds
<1>3. roulette' \subseteq Conns \X Nat /\ kept' \subseteq Conns \X Nat
  BY <1>2 DEF Deleted, Refused, Lost, TypeOK
<1>4. tangled' \in BOOLEAN
  BY DEF ReadRemote, File, TypeOK
<1>5. remote' \in [Flows -> SUBSET ((Conns \X Nat) \union {NoId})]
  BY <1>1 DEF ReadRemote
<1> QED
  BY <1>3, <1>4, <1>5 DEF ReadRemote, TypeOK, MapsType

\* So does all that the UDP half of the ingress does to the maps.
LEMMA TypeNeighbour ==
    ASSUME TypeOK, OtherFiles \/ OtherErases
    PROVE  MapsType /\ \A g \in Flows : conn'[g] \subseteq conn[g]
<1>1. PICK k \in Strangers :
         \/ UNCHANGED <<conn, remote>>
         \/ conn' \in Erased(conn, k) /\ remote' \in Erased(remote, k)
  BY DEF OtherFiles, OtherErases, TypeOK
<1>2. /\ conn \in [Flows -> SUBSET Fds]
      /\ remote \in [Flows -> SUBSET ((Conns \X Nat) \union {NoId})]
  BY DEF TypeOK
<1>3. /\ conn' \in [Flows -> SUBSET Fds]
      /\ remote' \in [Flows -> SUBSET ((Conns \X Nat) \union {NoId})]
      /\ \A g \in Flows : conn'[g] \subseteq conn[g]
  BY <1>1, <1>2, ErasedIsPart
<1>4. strangers' \subseteq Strangers /\ tangled' \in BOOLEAN
  BY DEF OtherFiles, OtherErases, TypeOK
<1> QED
  BY <1>3, <1>4 DEF OtherFiles, OtherErases, TypeOK, MapsType

\* What a client does keeps the type of the state.
LEMMA TypeClient ==
    ASSUME TypeOK, NEW c \in Conns, Write(c) \/ Leave(c)
    PROVE  TypeOK'
<1> USE MaxPacketsAssumption DEF TypeOK
<1>1. CASE Write(c)
  BY <1>1 DEF Write
<1>2. CASE Leave(c)
  BY <1>2 DEF Leave
<1> QED
  BY <1>1, <1>2

\* A step of a connection's thread keeps the type of the state.
LEMMA TypeConn ==
    ASSUME TypeOK, NEW c \in Conns, Accept(c) \/ Handle(c)
    PROVE  TypeOK'
<1> USE ConnsAssumption, NoneAssumption DEF TypeOK, ConnPC, ReplyPC
<1>1. CASE Accept(c)
  BY <1>1 DEF Accept
<1>2. CASE Recv(c)
  <2>1. fd[c] \in Fds
    BY <1>2 DEF Recv
  <2>2. CASE owner[fd[c]] = None
    BY <1>2, <2>2 DEF Recv
  <2>3. CASE owner[fd[c]] # None
    <3>1. owner[fd[c]] \in Conns
      BY <2>1, <2>3
    <3>2. /\ target' = [target EXCEPT ![c] = owner[fd[c]]]
          /\ pc' = [pc EXCEPT ![c] = "read"] /\ proc' = proc
      BY <1>2, <2>3 DEF Recv
    <3>3. target' \in [Conns -> Conns \union {None}] /\ target'[c] \in Conns
      BY <3>1, <3>2
    <3> QED
      BY <1>2, <3>2, <3>3 DEF Recv
  <2> QED
    BY <2>2, <2>3
<1>3. CASE Read(c)
  <2>1. CASE peer[target[c]] = "reset" /\ Die("exit") /\ UNCHANGED <<queue, chunk, got>>
    BY <1>3, <2>1 DEF Read
  <2>2. CASE \E k \in 1 .. queue[target[c]] :
              /\ queue' = [queue EXCEPT ![target[c]] = @ - k]
              /\ chunk' = [chunk EXCEPT ![c] = k]
              /\ got' = [got EXCEPT ![c] = @ + k]
              /\ Goto(c, "classify") /\ UNCHANGED proc
    <3>1. PICK k \in 1 .. queue[target[c]] :
              /\ queue' = [queue EXCEPT ![target[c]] = @ - k]
              /\ chunk' = [chunk EXCEPT ![c] = k]
              /\ got' = [got EXCEPT ![c] = @ + k]
              /\ Goto(c, "classify") /\ UNCHANGED proc
      BY <2>2
    <3>2. target[c] \in Conns /\ queue[target[c]] \in Nat
      BY <1>3 DEF Read
    <3>3. k \in Nat /\ queue[target[c]] - k \in Nat
      BY <3>2
    <3>4. queue' \in [Conns -> Nat]
      BY <3>1, <3>3
    <3>5. chunk' \in [Conns -> Nat] /\ got' \in [Conns -> Nat]
      BY <3>1, <3>3
    <3> QED
      BY <1>3, <3>1, <3>4, <3>5 DEF Read
  <2>3. CASE Goto(c, "del_find") /\ UNCHANGED <<proc, queue, chunk, got>>
    BY <1>3, <2>3 DEF Read
  <2> QED
    BY <1>3, <2>1, <2>2, <2>3 DEF Read
<1>4. CASE Classify(c)
  <2>1. FlowOf[target[c]] \in Flows
    BY <1>4 DEF Classify
  <2>2. CASE proc' = "terminate" /\ UNCHANGED <<pc, flow>>
    BY <1>4, <2>2 DEF Classify
  <2>3. CASE flow' = [flow EXCEPT ![c] = FlowOf[target[c]]] /\ Goto(c, "insert") /\ UNCHANGED proc
    BY <1>4, <2>1, <2>3 DEF Classify
  <2>4. CASE Goto(c, "recv") /\ UNCHANGED <<proc, flow>>
    BY <1>4, <2>4 DEF Classify
  <2> QED
    BY <1>4, <2>2, <2>3, <2>4 DEF Classify
<1>5. CASE Insert(c)
  <2>1. flow[c] \in Flows /\ fd[c] \in Fds
    BY <1>5 DEF Insert
  <2>2. MapsType
    BY <1>5, <2>1, LocalType DEF Insert
  <2> QED
    BY <1>5, <2>2 DEF Insert, MapsType
<1>6. CASE Create(c)
  <2>1. <<c, got[c]>> \in Conns \X Nat
    OBVIOUS
  <2>2. UNCHANGED tables /\ roulette' \subseteq Conns \X Nat /\ kept' \subseteq Conns \X Nat
    BY <1>6, <2>1 DEF Create, CreateRemote, CreateUnnamed
  <2>3. dberr' \subseteq Conns /\ proc' \in {proc, "terminate"}
    BY <1>6 DEF Create
  <2>4. pc' = pc \/ \E l \in {"remember", "route", "recv"} : pc' = [pc EXCEPT ![c] = l]
    BY <1>6 DEF Create
  <2>5. \A d \in Conns : \/ pc'[d] = pc[d]
                         \/ d = c /\ pc'[d] \in {"remember", "route", "recv"}
    BY <2>4
  <2>6. \A r \in Replies : pc'[r] = pc[r]
    BY <2>4
  <2>7. pc[c] = "create" /\ pc' \in [Threads -> ConnPC \union ReplyPC]
    BY <1>6, <2>4 DEF Create
  <2>8. UNCHANGED <<client, socks, fd, target, flow, chunk, first, got, fwd, chain, back>>
    BY <1>6 DEF Create
  <2> QED
    BY <2>2, <2>3, <2>5, <2>6, <2>7, <2>8
<1>7. CASE Remember(c)
  <2>1. flow[c] \in Flows /\ fd[c] \in Fds
    BY <1>7 DEF Remember
  <2>2. MapsType
    BY <1>7, <2>1, RemoteType DEF Remember
  <2> QED
    BY <1>7, <2>2 DEF Remember, MapsType
<1>8. CASE Route(c)
  <2>1. CASE Goto(c, "send") /\ UNCHANGED dberr
    BY <1>8, <2>1 DEF Route
  <2>2. CASE Goto(c, "finish") /\ UNCHANGED dberr
    BY <1>8, <2>2 DEF Route
  <2>3. CASE Catch(c)
    BY <1>8, <2>3 DEF Route
  <2>4. CASE Die("terminate") /\ UNCHANGED dberr
    BY <1>8, <2>4 DEF Route
  <2> QED
    BY <1>8, <2>1, <2>2, <2>3, <2>4 DEF Route
<1>9. CASE Send(c)
  <2>1. flow[c] \in Flows
    BY <1>9 DEF Send
  <2>2. chain' \subseteq Flows
    BY <1>9, <2>1 DEF Send
  <2>3. fwd' \in [Conns -> Nat]
    <3>1. fwd[c] + chunk[c] \in Nat
      OBVIOUS
    <3> QED
      BY <1>9, <3>1 DEF Send
  <2>4. first' \subseteq Conns /\ proc' \in {proc, "exit"}
    BY <1>9 DEF Send
  <2>5. UNCHANGED <<maps, client, socks, fd, target, flow, chunk, dberr, got, back>>
    BY <1>9 DEF Send
  <2>6. CASE pc' = pc
    BY <2>2, <2>3, <2>4, <2>5, <2>6
  <2>7. CASE pc' = [pc EXCEPT ![c] = "recv"]
    BY <1>9, <2>2, <2>3, <2>4, <2>5, <2>7 DEF Send
  <2> QED
    BY <1>9, <2>6, <2>7 DEF Send
<1>10. CASE DelFind(c)
  BY <1>10 DEF DelFind
<1>11. CASE DelErase(c)
  <2>1. flow[c] \in Flows /\ fd[c] \in Fds
    BY <1>11 DEF DelErase
  <2>2. MapsType
    BY <1>11, <2>1, LocalType DEF DelErase
  <2> QED
    BY <1>11, <2>2 DEF DelErase, MapsType
<1>12. CASE DelRemote(c)
  <2>1. flow[c] \in Flows
    BY <1>12 DEF DelRemote
  <2>2. MapsType
    BY <1>12, <2>1, DeleteType DEF DelRemote
  <2>3. \/ Goto(c, "del_forget") /\ UNCHANGED proc
        \/ Die("terminate")
    BY <1>12 DEF DelRemote
  <2>4. UNCHANGED <<client, socks, locals, chain, back>> /\ pc[c] = "del_remote"
    BY <1>12 DEF DelRemote
  <2>5. CASE Goto(c, "del_forget") /\ UNCHANGED proc
    BY <2>2, <2>4, <2>5 DEF MapsType
  <2>6. CASE Die("terminate")
    BY <2>2, <2>4, <2>6 DEF MapsType
  <2> QED
    BY <2>3, <2>5, <2>6
<1>13. CASE DelForget(c)
  <2>1. flow[c] \in Flows /\ fd[c] \in Fds
    BY <1>13 DEF DelForget
  <2>2. MapsType
    BY <1>13, <2>1, RemoteType DEF DelForget
  <2> QED
    BY <1>13, <2>2 DEF DelForget, MapsType
<1>14. CASE Finish(c)
  <2>1. fd[c] \in Fds
    BY <1>14 DEF Finish
  <2>2. owner' \in [Fds -> Conns \union {None}] /\ closed' \subseteq Fds \X Conns
    BY <1>14, <2>1 DEF Finish, Give
  <2>3. /\ pc' = [pc EXCEPT ![c] = "done"]
        /\ UNCHANGED <<proc, maps, client, queue, down, locals, chain, back>>
    BY <1>14 DEF Finish
  <2> QED
    BY <2>1, <2>2, <2>3
<1> QED
  BY <1>1, <1>2, <1>3, <1>4, <1>5, <1>6, <1>7, <1>8, <1>9, <1>10, <1>11, <1>12, <1>13, <1>14
     DEF Handle

\* A step of an answer's thread keeps the type of the state.
LEMMA TypeReply ==
    ASSUME TypeOK, NEW r \in Replies, FromChain(r) \/ HandleReply(r)
    PROVE  TypeOK'
<1> USE ConnsAssumption, NoneAssumption DEF TypeOK, ConnPC, ReplyPC
<1>1. CASE FromChain(r)
  BY <1>1 DEF FromChain
<1>2. CASE Lookup(r)
  <2>1. rflow[r] \in Flows
    BY <1>2 DEF Lookup
  <2>2. sock' \in [Replies -> Fds \union {None}]
    BY <1>2, <2>1 DEF Lookup, Found
  <2> QED
    BY <1>2, <2>2 DEF Lookup
<1>3. CASE Deliver(r)
  <2>1. CASE Die("exit") /\ UNCHANGED delivered
    BY <1>3, <2>1 DEF Deliver
  <2>2. CASE ~ (Die("exit") /\ UNCHANGED delivered)
    <3>1. /\ sock[r] \in Fds /\ owner[sock[r]] \in Conns /\ rflow[r] \in Flows
          /\ delivered' = delivered \union
                {[reply |-> r, flow |-> rflow[r], conn |-> owner[sock[r]]]}
          /\ pc' = [pc EXCEPT ![r] = "shutdown"] /\ proc' = proc
      BY <1>3, <2>2 DEF Deliver
    <3>2. delivered' \subseteq [reply : Replies, flow : Flows, conn : Conns]
      BY <3>1
    <3> QED
      BY <1>3, <3>1, <3>2 DEF Deliver
  <2> QED
    BY <2>1, <2>2
<1>4. CASE Shutdown(r)
  BY <1>4 DEF Shutdown
<1>5. CASE Close(r)
  <2>1. owner' \in [Fds -> Conns \union {None}] /\ closed' \subseteq Fds \X Conns
    BY <1>5 DEF Close, Give
  <2> QED
    BY <1>5, <2>1 DEF Close
<1> QED
  BY <1>1, <1>2, <1>3, <1>4, <1>5 DEF HandleReply

\* Every step keeps the type of the state.
LEMMA TypeNext == TypeOK /\ [Next]_vars => TypeOK'
<1> SUFFICES ASSUME TypeOK, [Next]_vars PROVE TypeOK'
  OBVIOUS
<1>1. CASE \E c \in Conns : Write(c) \/ Leave(c) \/ Accept(c) \/ Handle(c)
  BY <1>1, TypeClient, TypeConn
<1>2. CASE \E r \in Replies : FromChain(r) \/ HandleReply(r)
  BY <1>2, TypeReply
<1>3. CASE Race
  BY <1>3 DEF Race, TypeOK
<1>4. CASE UNCHANGED vars
  BY <1>4 DEF vars, TypeOK
<1>5. CASE Neighbour
  BY <1>5, TypeNeighbour DEF Neighbour, TypeOK, MapsType
<1> QED
  BY <1>1, <1>2, <1>3, <1>4, <1>5 DEF Next

\* The state of the TCP ingress always has its type.
THEOREM TypeCorrect == Spec => []TypeOK
  BY TypeInit, TypeNext, PTL DEF Spec

-----------------------------------------------------------------------------
\* Descriptor n stands for connection c, or was closed while it did.
Held(n, c) == owner[n] = c \/ <<n, c>> \in closed

\* Descriptor n stands for a connection of flow f, or was closed while it did.
Names(n, f) == \E c \in Conns : FlowOf[c] = f /\ Held(n, c)

\* A thread's number is its own connection's, or was closed under it.
StillOwn == \A c \in Conns : pc[c] # "idle" => Held(fd[c], c)

\* An answer that went to another flow went through a number that was closed.
ForeignIsClosed ==
    \A x \in delivered : FlowOf[x.conn] # x.flow =>
        \E c \in Conns : <<sock[x.reply], c>> \in closed /\ FlowOf[c] = x.flow

\* Who has closed n: the thread of an answer, or of a connection after a failure.
Closer(n) ==
    \/ \E r \in Replies : sock[r] = n /\ pc[r] = "done"
    \/ \E d \in dberr : fd[d] = n /\ pc[d] = "done"

\* What was closed was closed by one of these.
ClosedByOne == \A n \in Fds, c \in Conns : <<n, c>> \in closed => Closer(n)

\* What the thread of a connection reads is what its number stood for.
OwnTarget == \A c \in Conns : pc[c] \in {"read", "classify"} => Held(fd[c], target[c])

\* So are the headers it keeps until it registers.
OwnFlow == \A c \in Conns : pc[c] = "insert" => Names(fd[c], flow[c])

\* connection_map gives descriptors of the flow.
OwnEntry == \A f \in Flows : \A n \in conn[f] : Names(n, f)

\* So does what an answer's thread has looked up.
OwnLookup ==
    \A r \in Replies : pc[r] = "deliver" /\ sock[r] # None => Names(sock[r], rflow[r])

\* An answer that was given keeps the descriptor it was given through.
GivenIsPast == \A x \in delivered : pc[x.reply] \in {"shutdown", "close", "done"}

DInv == /\ TypeOK /\ StillOwn
        /\ OwnTarget /\ OwnFlow /\ OwnEntry /\ OwnLookup /\ GivenIsPast
        /\ ForeignIsClosed /\ ClosedByOne

\* What a step may do to the threads that hold a descriptor, and to the answers.
LEMMA ThreadEffect ==
    ASSUME TypeOK, [Next]_vars
    PROVE  /\ \A c \in Conns :
                 \/ pc[c] = "idle" /\ pc'[c] = "idle" /\ fd'[c] = fd[c]
                 \/ pc[c] = "idle" /\ Accept(c)
                 \/ pc[c] # "idle" /\ fd'[c] = fd[c]
           /\ \A c \in Conns :
                 /\ pc'[c] \in {"read", "classify"} =>
                       \/ pc[c] \in {"read", "classify"} /\ target'[c] = target[c]
                       \/ pc[c] = "recv" /\ target'[c] = owner[fd[c]]
                 /\ pc'[c] = "insert" =>
                       \/ pc[c] = "insert" /\ flow'[c] = flow[c]
                       \/ pc[c] = "classify" /\ flow'[c] = FlowOf[target[c]]
           /\ \A r \in Replies :
                 /\ pc'[r] = "deliver" =>
                       /\ rflow'[r] = rflow[r]
                       /\ \/ pc[r] = "deliver" /\ sock'[r] = sock[r]
                          \/ pc[r] = "lookup" /\ sock'[r] \in Found(conn, rflow[r])
                 /\ pc[r] \in {"shutdown", "close", "done"} =>
                       pc'[r] \in {"shutdown", "close", "done"} /\ sock'[r] = sock[r]
           /\ delivered' = delivered \/ \E r \in Replies : Deliver(r)
<1> DEFINE ConnFd(c) ==
                 \/ pc[c] = "idle" /\ pc'[c] = "idle" /\ fd'[c] = fd[c]
                 \/ pc[c] = "idle" /\ Accept(c)
                 \/ pc[c] # "idle" /\ fd'[c] = fd[c]
           ConnOwn(c) ==
                 /\ pc'[c] \in {"read", "classify"} =>
                       \/ pc[c] \in {"read", "classify"} /\ target'[c] = target[c]
                       \/ pc[c] = "recv" /\ target'[c] = owner[fd[c]]
                 /\ pc'[c] = "insert" =>
                       \/ pc[c] = "insert" /\ flow'[c] = flow[c]
                       \/ pc[c] = "classify" /\ flow'[c] = FlowOf[target[c]]
           ReplyOwn(r) ==
                 /\ pc'[r] = "deliver" =>
                       /\ rflow'[r] = rflow[r]
                       /\ \/ pc[r] = "deliver" /\ sock'[r] = sock[r]
                          \/ pc[r] = "lookup" /\ sock'[r] \in Found(conn, rflow[r])
                 /\ pc[r] \in {"shutdown", "close", "done"} =>
                       pc'[r] \in {"shutdown", "close", "done"} /\ sock'[r] = sock[r]
           Given == delivered' = delivered \/ \E r \in Replies : Deliver(r)
           Goal == /\ \A c \in Conns : ConnFd(c) /\ ConnOwn(c)
                   /\ \A r \in Replies : ReplyOwn(r)
                   /\ Given
<1> USE ConnsAssumption
<1>0. /\ pc \in [Threads -> ConnPC \union ReplyPC] /\ fd \in [Conns -> Fds \union {None}]
      /\ target \in [Conns -> Conns \union {None}] /\ flow \in [Conns -> Flows \union {None}]
      /\ rflow \in [Replies -> Flows \union {None}] /\ sock \in [Replies -> Fds \union {None}]
  BY DEF TypeOK
<1>1. CASE \/ \E c \in Conns : Write(c) \/ Leave(c)
           \/ Neighbour \/ Race \/ UNCHANGED vars
  BY <1>1 DEF Write, Leave, Neighbour, Race, vars
<1>2. ASSUME NEW c \in Conns, Accept(c) \/ Handle(c) PROVE Goal
  <2>1. UNCHANGED back
    BY <1>2 DEF Accept, Handle, Recv, Read, Classify, Insert, Create, Remember, Route, Send,
           DelFind, DelErase, DelRemote, DelForget, Finish
  <2>2. \E l : pc' = [pc EXCEPT ![c] = l]
    <3>1. pc' = [pc EXCEPT ![c] = pc[c]] \/ \E l : pc' = [pc EXCEPT ![c] = l]
      <4>1. pc = [pc EXCEPT ![c] = pc[c]]
        BY <1>0
      <4> QED
        BY <1>2, <4>1
           DEF Accept, Handle, Recv, Read, Classify, Insert, Create, Remember, Route, Send,
               DelFind, DelErase, DelRemote, DelForget, Finish
    <3> QED
      BY <3>1
  <2>3. /\ fd' = fd \/ \E n : fd' = [fd EXCEPT ![c] = n]
        /\ target' = target \/ \E n : target' = [target EXCEPT ![c] = n]
        /\ flow' = flow \/ \E n : flow' = [flow EXCEPT ![c] = n]
    BY <1>2 DEF Accept, Handle, Recv, Read, Classify, Insert, Create, Remember, Route, Send,
           DelFind, DelErase, DelRemote, DelForget, Finish
  <2>4. \A t \in Threads \ {c} : pc'[t] = pc[t]
    BY <1>0, <2>2
  <2>5. \A d \in Conns \ {c} : fd'[d] = fd[d] /\ target'[d] = target[d] /\ flow'[d] = flow[d]
    BY <1>0, <2>3
  <2>6. \A d \in Conns \ {c} : ConnFd(d) /\ ConnOwn(d)
    BY <2>4, <2>5
  <2>7. \A r \in Replies : ReplyOwn(r)
    BY <2>1, <2>4
  <2>8. ConnFd(c)
    BY <1>2 DEF Accept, Handle, Recv, Read, Classify, Insert, Create, Remember, Route, Send,
           DelFind, DelErase, DelRemote, DelForget, Finish
  <2>9. ConnOwn(c)
    <3>1. CASE Accept(c) \/ Recv(c) \/ Read(c) \/ Classify(c)
      BY <1>0, <3>1 DEF Accept, Recv, Read, Classify
    <3>2. CASE Insert(c) \/ Create(c) \/ Remember(c) \/ Route(c) \/ Send(c)
      BY <1>0, <3>2 DEF Insert, Create, Remember, Route, Send
    <3>3. CASE DelFind(c) \/ DelErase(c) \/ DelRemote(c) \/ DelForget(c) \/ Finish(c)
      BY <1>0, <3>3 DEF DelFind, DelErase, DelRemote, DelForget, Finish
    <3> QED
      BY <1>2, <3>1, <3>2, <3>3 DEF Handle
  <2> QED
    BY <2>1, <2>6, <2>7, <2>8, <2>9
<1>3. ASSUME NEW r \in Replies, FromChain(r) \/ HandleReply(r) PROVE Goal
  <2>1. UNCHANGED locals
    BY <1>3 DEF FromChain, HandleReply, Lookup, Deliver, Shutdown, Close
  <2>2. \A t \in Threads \ {r} : pc'[t] = pc[t]
    BY <1>0, <1>3 DEF FromChain, HandleReply, Lookup, Deliver, Shutdown, Close
  <2>3. \A q \in Replies \ {r} : rflow'[q] = rflow[q] /\ sock'[q] = sock[q]
    BY <1>0, <1>3 DEF FromChain, HandleReply, Lookup, Deliver, Shutdown, Close
  <2>4. \A c \in Conns : ConnFd(c) /\ ConnOwn(c)
    BY <2>1, <2>2
  <2>5. \A q \in Replies \ {r} : ReplyOwn(q)
    BY <2>2, <2>3
  <2>6. ReplyOwn(r)
    <3>1. CASE FromChain(r) \/ Lookup(r)
      BY <1>0, <3>1 DEF FromChain, Lookup
    <3>2. CASE Deliver(r) \/ Shutdown(r) \/ Close(r)
      BY <1>0, <3>2 DEF Deliver, Shutdown, Close
    <3> QED
      BY <1>3, <3>1, <3>2 DEF HandleReply
  <2>7. Given
    BY <1>3 DEF FromChain, HandleReply, Lookup, Shutdown, Close
  <2> QED
    BY <2>4, <2>5, <2>6, <2>7
<1> QED
  BY <1>1, <1>2, <1>3 DEF Next

\* No descriptor that was closed is forgotten, and one is taken from a connection
\* only when it is closed.
LEMMA HeldIsStable ==
    ASSUME TypeOK, [Next]_vars
    PROVE  \A n \in Fds, c \in Conns : Held(n, c) => Held(n, c)'
<1> SUFFICES ASSUME NEW n \in Fds, NEW c \in Conns, Held(n, c) PROVE Held(n, c)'
  OBVIOUS
<1> USE NoneAssumption DEF Held
<1>0. owner \in [Fds -> Conns \union {None}] /\ c # None
  BY DEF TypeOK
<1>1. CASE UNCHANGED <<owner, closed>>
  BY <1>1
<1>2. CASE \E m \in Fds : Give(m)
  BY <1>0, <1>2 DEF Give
<1>3. ASSUME NEW d \in Conns, Accept(d) PROVE Held(n, c)'
  BY <1>0, <1>3 DEF Accept
<1>4. ASSUME NEW d \in Conns, Finish(d) PROVE Held(n, c)'
  <2>1. fd[d] \in Fds
    BY <1>4 DEF Finish, TypeOK
  <2> QED
    BY <1>1, <1>2, <1>4, <2>1 DEF Finish
<1>5. ASSUME NEW r \in Replies, Close(r) PROVE Held(n, c)'
  <2>1. sock[r] \in Fds
    BY <1>5 DEF Close, TypeOK
  <2> QED
    BY <1>2, <1>5, <2>1 DEF Close
<1> QED
  BY <1>1, <1>3, <1>4, <1>5
     DEF Next, vars, Write, Leave, Handle, Recv, Read, Classify, Insert, Create, Remember, Route,
         Send, DelFind, DelErase, DelRemote, DelForget, FromChain, HandleReply, Lookup, Deliver,
         Shutdown, Neighbour, Race

\* A number that named a connection of a flow names it still.
LEMMA NamesIsStable ==
    ASSUME TypeOK, [Next]_vars
    PROVE  \A n \in Fds, f \in Flows : Names(n, f) => Names(n, f)'
  BY HeldIsStable DEF Names

\* connection_map gains a descriptor only from the thread that registers it.
LEMMA EntryEffect ==
    ASSUME TypeOK, [Next]_vars
    PROVE  \A f \in Flows : \A n \in conn'[f] :
              n \in conn[f] \/ \E c \in Conns : pc[c] = "insert" /\ flow[c] = f /\ n = fd[c]
<1> DEFINE Goal == \A f \in Flows : \A n \in conn'[f] :
              n \in conn[f] \/ \E c \in Conns : pc[c] = "insert" /\ flow[c] = f /\ n = fd[c]
<1>0. conn \in [Flows -> SUBSET Fds]
  BY DEF TypeOK
<1>1. CASE UNCHANGED conn
  BY <1>1
<1>2. ASSUME NEW c \in Conns, Insert(c) PROVE Goal
  <2>1. pc[c] = "insert" /\ AddLocal(flow[c], fd[c])
    BY <1>2 DEF Insert
  <2>2. \A f \in Flows : conn'[f] \subseteq conn[f] \union (IF f = flow[c] THEN {fd[c]} ELSE {})
    BY <1>0, <2>1 DEF AddLocal
  <2> QED
    BY <2>1, <2>2
<1>3. ASSUME NEW c \in Conns, DelErase(c) PROVE Goal
  BY <1>0, <1>3, ErasedIsPart DEF DelErase, EraseLocal
<1>4. CASE Neighbour
  BY <1>4, TypeNeighbour DEF Neighbour
<1> QED
  BY <1>1, <1>2, <1>3, <1>4
     DEF Next, vars, Write, Leave, Accept, Handle, Recv, Read, Classify, Create, CreateRemote,
         CreateUnnamed, Remember, SetRemote, Route, Send, DelFind, DelRemote, ReadRemote,
         DelForget, EraseRemote, Finish, FromChain, HandleReply, Lookup, Deliver, Shutdown, Close,
         Race

\* The initial state satisfies the invariant.
LEMMA DInvInit == Init => DInv
  BY TypeInit
     DEF Init, DInv, StillOwn, OwnTarget, OwnFlow, OwnEntry, OwnLookup, GivenIsPast,
         ForeignIsClosed, ClosedByOne

\* The number of a thread stays its own until it is closed, and what the thread
\* reads, and the headers it keeps, are its own connection's.
LEMMA OwnThreadNext ==
    ASSUME DInv, [Next]_vars
    PROVE  StillOwn' /\ OwnTarget' /\ OwnFlow'
<1> USE ConnsAssumption, NoneAssumption DEF DInv
<1>1. ASSUME NEW c \in Conns, pc[c] # "idle" PROVE fd'[c] = fd[c] /\ fd[c] \in Fds
  BY <1>1, ThreadEffect DEF TypeOK, Accept
<1>2. StillOwn'
  <2> SUFFICES ASSUME NEW c \in Conns, pc'[c] # "idle" PROVE owner'[fd'[c]] = c \/ <<fd'[c], c>> \in closed'
    BY DEF StillOwn, Held
  <2>1. CASE Accept(c)
    BY <2>1 DEF Accept, TypeOK
  <2>2. CASE pc[c] # "idle"
    <3>1. Held(fd[c], c)
      BY <2>2 DEF StillOwn, Held
    <3>2. Held(fd[c], c)'
      <4>1. \A n \in Fds : Held(n, c) => owner'[n] = c \/ <<n, c>> \in closed'
        BY HeldIsStable DEF Held
      <4> QED
        BY <1>1, <2>2, <3>1, <4>1 DEF Held
    <3> QED
      BY <3>2 DEF Held
  <2> QED
    BY <2>1, <2>2, ThreadEffect
<1>3. OwnTarget'
  <2> SUFFICES ASSUME NEW c \in Conns, pc'[c] \in {"read", "classify"}
               PROVE  owner'[fd'[c]] = target'[c] \/ <<fd'[c], target'[c]>> \in closed'
    BY DEF OwnTarget, Held
  <2>1. /\ pc[c] \in {"read", "classify", "recv"}
        /\ target'[c] = IF pc[c] = "recv" THEN owner[fd[c]] ELSE target[c]
    BY ThreadEffect
  <2>2. Held(fd[c], target'[c])
    BY <2>1 DEF OwnTarget, Held
  <2>3. target'[c] \in Conns
    BY TypeNext DEF TypeOK
  <2>4. \A n \in Fds, d \in Conns : Held(n, d) => owner'[n] = d \/ <<n, d>> \in closed'
    BY HeldIsStable DEF Held
  <2> QED
    BY <1>1, <2>1, <2>2, <2>3, <2>4
<1>4. OwnFlow'
  <2> SUFFICES ASSUME NEW c \in Conns, pc'[c] = "insert"
               PROVE  \E d \in Conns : FlowOf[d] = flow'[c]
                          /\ (owner'[fd'[c]] = d \/ <<fd'[c], d>> \in closed')
    BY DEF OwnFlow, Names, Held
  <2>1. \/ pc[c] = "insert" /\ flow'[c] = flow[c]
        \/ pc[c] = "classify" /\ flow'[c] = FlowOf[target[c]]
    BY ThreadEffect
  <2>2. \E d \in Conns : FlowOf[d] = flow'[c] /\ Held(fd[c], d)
    <3>1. CASE pc[c] = "insert" /\ flow'[c] = flow[c]
      BY <3>1 DEF OwnFlow, Names
    <3>2. CASE pc[c] = "classify" /\ flow'[c] = FlowOf[target[c]]
      BY <3>2 DEF OwnTarget, TypeOK
    <3> QED
      BY <2>1, <3>1, <3>2
  <2>3. \A n \in Fds, d \in Conns : Held(n, d) => owner'[n] = d \/ <<n, d>> \in closed'
    BY HeldIsStable DEF Held
  <2> QED
    BY <1>1, <2>1, <2>2, <2>3
<1> QED
  BY <1>2, <1>3, <1>4

\* What connection_map holds, and what an answer's thread takes from it, names
\* a connection of the flow.
LEMMA OwnNameNext ==
    ASSUME DInv, [Next]_vars
    PROVE  OwnEntry' /\ OwnLookup'
<1> USE ConnsAssumption, NoneAssumption DEF DInv
<1>1. \A n \in Fds, f \in Flows : Names(n, f) => Names(n, f)'
  BY NamesIsStable
<1>2. conn \in [Flows -> SUBSET Fds]
  BY DEF TypeOK
<1>3. ASSUME NEW f \in Flows, NEW n \in conn'[f] PROVE Names(n, f)'
  <2>1. CASE n \in conn[f]
    BY <1>1, <1>2, <2>1 DEF OwnEntry
  <2>2. CASE \E c \in Conns : pc[c] = "insert" /\ flow[c] = f /\ n = fd[c]
    <3>1. n \in Fds /\ Names(n, f)
      BY <2>2 DEF OwnFlow, TypeOK
    <3> QED
      BY <1>1, <3>1
  <2> QED
    BY <2>1, <2>2, EntryEffect
<1>4. ASSUME NEW r \in Replies, pc'[r] = "deliver", NEW n, n = sock'[r], n # None,
             NEW f, f = rflow'[r]
      PROVE  Names(n, f)'
  <2>1. f = rflow[r] /\ f \in Flows
    BY <1>4, ThreadEffect DEF TypeOK
  <2>2. n \in Fds /\ Names(n, f)
    <3>1. CASE pc[r] = "deliver" /\ sock'[r] = sock[r]
      BY <1>4, <2>1, <3>1 DEF OwnLookup, TypeOK
    <3>2. CASE sock'[r] \in Found(conn, rflow[r])
      BY <1>2, <1>4, <2>1, <3>2 DEF OwnEntry, Found
    <3> QED
      BY <1>4, <3>1, <3>2, ThreadEffect
  <2> QED
    BY <1>1, <2>1, <2>2
<1> QED
  BY <1>3, <1>4 DEF OwnEntry, OwnLookup

\* An answer that was given was given to its flow, or through a number that was
\* closed while it stood for a connection of the flow.
LEMMA GivenNext ==
    ASSUME DInv, [Next]_vars
    PROVE  GivenIsPast' /\ ForeignIsClosed'
<1> USE ConnsAssumption, NoneAssumption DEF DInv
<1> DEFINE Given(r) == pc[r] \in {"shutdown", "close", "done"}
<1>1. ASSUME NEW r \in Replies, Given(r) PROVE Given(r)' /\ sock'[r] = sock[r] /\ sock[r] \in Fds
  BY <1>1, ThreadEffect DEF TypeOK
<1>2. closed \subseteq closed'
  BY DEF Next, vars, Write, Leave, Accept, Handle, Recv, Read, Classify, Insert, Create, Remember,
         Route, Send, DelFind, DelErase, DelRemote, DelForget, Finish, Give, FromChain,
         HandleReply, Lookup, Deliver, Shutdown, Close, Neighbour, Race
<1>3. ASSUME NEW x \in delivered
      PROVE  /\ Given(x.reply)'
             /\ FlowOf[x.conn] # x.flow =>
                    \E c \in Conns : <<sock'[x.reply], c>> \in closed' /\ FlowOf[c] = x.flow
  <2>1. x.reply \in Replies /\ Given(x.reply)
    BY DEF GivenIsPast, TypeOK
  <2> QED
    BY <1>1, <1>2, <2>1 DEF ForeignIsClosed
<1>4. ASSUME NEW x \in delivered', x \notin delivered
      PROVE  /\ Given(x.reply)'
             /\ FlowOf[x.conn] # x.flow =>
                    \E c \in Conns : <<sock'[x.reply], c>> \in closed' /\ FlowOf[c] = x.flow
  <2>1. PICK r \in Replies : Deliver(r)
    BY <1>4, ThreadEffect
  <2>2. /\ pc[r] = "deliver" /\ sock[r] # None /\ sock' = sock /\ pc'[r] = "shutdown"
        /\ x = [reply |-> r, flow |-> rflow[r], conn |-> owner[sock[r]]]
    BY <1>4, <2>1 DEF Deliver, TypeOK
  <2>3. Names(sock[r], rflow[r])
    BY <2>2 DEF OwnLookup
  <2>4. PICK c \in Conns : FlowOf[c] = rflow[r] /\ Held(sock[r], c)
    BY <2>3 DEF Names
  <2>5. FlowOf[x.conn] # x.flow => <<sock[r], c>> \in closed
    BY <2>2, <2>4 DEF Held
  <2> QED
    BY <1>2, <2>2, <2>4, <2>5
<1> QED
  BY <1>3, <1>4 DEF GivenIsPast, ForeignIsClosed

\* A thread that has ended stays where it is, and a failure is not forgotten.
LEMMA DoneIsStable ==
    ASSUME TypeOK, [Next]_vars
    PROVE  dberr \subseteq dberr' /\ \A t \in Threads : pc[t] = "done" => pc'[t] = "done"
<1> DEFINE Goal == dberr \subseteq dberr' /\ \A t \in Threads : pc[t] = "done" => pc'[t] = "done"
<1>0. pc \in [Threads -> ConnPC \union ReplyPC]
  BY DEF TypeOK
<1>1. CASE UNCHANGED vars \/ Neighbour \/ Race
  BY <1>1 DEF vars, Neighbour, Race
<1>2. ASSUME NEW c \in Conns, Write(c) \/ Leave(c) \/ Accept(c) \/ Recv(c) \/ Read(c) \/ Classify(c)
      PROVE  Goal
  BY <1>0, <1>2 DEF Write, Leave, Accept, Recv, Read, Classify
<1>3. ASSUME NEW c \in Conns, Insert(c) \/ Create(c) \/ Remember(c) \/ Route(c) \/ Send(c)
      PROVE  Goal
  BY <1>0, <1>3 DEF Insert, Create, Remember, Route, Send
<1>4. ASSUME NEW c \in Conns, DelFind(c) \/ DelErase(c) \/ DelRemote(c) \/ DelForget(c) \/ Finish(c)
      PROVE  Goal
  BY <1>0, <1>4 DEF DelFind, DelErase, DelRemote, DelForget, Finish
<1>5. ASSUME NEW r \in Replies, FromChain(r) \/ HandleReply(r) PROVE Goal
  BY <1>0, <1>5 DEF FromChain, HandleReply, Lookup, Deliver, Shutdown, Close
<1> QED
  BY <1>1, <1>2, <1>3, <1>4, <1>5 DEF Next, Handle

\* Only the thread of an answer closes a number, or that of a connection after a
\* failure, as its last step.
LEMMA ClosedByOneNext == ASSUME DInv, [Next]_vars PROVE ClosedByOne'
<1> USE ConnsAssumption DEF DInv
<1>0. pc \in [Threads -> ConnPC \union ReplyPC]
  BY DEF TypeOK
<1>1. ASSUME NEW n \in Fds, Closer(n) PROVE Closer(n)'
  <2>1. CASE \E r \in Replies : sock[r] = n /\ pc[r] = "done"
    BY <2>1, ThreadEffect, DoneIsStable DEF Closer, Threads
  <2>2. CASE \E d \in dberr : fd[d] = n /\ pc[d] = "done"
    <3>1. PICK d \in dberr : fd[d] = n /\ pc[d] = "done" /\ d \in Conns
      BY <2>2 DEF TypeOK
    <3> QED
      BY <3>1, ThreadEffect, DoneIsStable DEF Closer, Threads
  <2> QED
    BY <1>1, <2>1, <2>2 DEF Closer
<1>2. ASSUME NEW d \in Conns, Finish(d), NEW n \in Fds, closed' # closed, n = fd[d] PROVE Closer(n)'
  BY <1>0, <1>2 DEF Finish, Closer, Threads
<1>3. ASSUME NEW r \in Replies, Close(r), NEW n \in Fds, n = sock[r] PROVE Closer(n)'
  BY <1>0, <1>3 DEF Close, Closer, Threads
<1>4. ASSUME NEW n \in Fds, NEW c \in Conns, <<n, c>> \in closed', <<n, c>> \notin closed
      PROVE  \/ \E d \in Conns : Finish(d) /\ n = fd[d]
             \/ \E r \in Replies : Close(r) /\ n = sock[r]
  <2>1. \/ UNCHANGED closed
        \/ \E d \in Conns : Finish(d) /\ Give(fd[d])
        \/ \E r \in Replies : Close(r) /\ Give(sock[r])
    BY DEF Next, vars, Write, Leave, Accept, Handle, Recv, Read, Classify, Insert, Create, Remember,
           Route, Send, DelFind, DelErase, DelRemote, DelForget, Finish, FromChain, HandleReply,
           Lookup, Deliver, Shutdown, Close, Neighbour, Race
  <2>2. \A m : Give(m) => n = m
    BY <1>4 DEF Give
  <2> QED
    BY <1>4, <2>1, <2>2
<1>5. ASSUME NEW n \in Fds, NEW c \in Conns, <<n, c>> \in closed' PROVE Closer(n)'
  <2>1. CASE <<n, c>> \in closed
    BY <1>1, <2>1 DEF ClosedByOne
  <2>2. CASE <<n, c>> \notin closed
    <3>1. closed' # closed
      BY <1>5, <2>2
    <3> QED
      BY <1>2, <1>3, <1>4, <1>5, <2>2, <3>1
  <2> QED
    BY <2>1, <2>2
<1> QED
  BY <1>5 DEF ClosedByOne

\* Every step keeps the invariant.
LEMMA DInvNext == DInv /\ [Next]_vars => DInv'
<1> SUFFICES ASSUME DInv, [Next]_vars PROVE DInv'
  OBVIOUS
<1>1. TypeOK'
  BY TypeNext DEF DInv
<1> QED
  BY <1>1, OwnThreadNext, OwnNameNext, GivenNext, ClosedByOneNext DEF DInv

\* The number that a connection's thread uses is its own until the thread of an
\* answer, or of a failed connection, closes it while it stands for that connection.
THEOREM DescriptorOwned == Spec => []OwnDescriptor
<1>1. DInv => OwnDescriptor
  BY DEF DInv, TypeOK, StillOwn, Held, ClosedByOne, Closer, OwnDescriptor, ClosedUnder
<1> QED
  BY <1>1, DInvInit, DInvNext, PTL DEF Spec

\* An answer reaches a connection of another flow only through a descriptor that an
\* answer's thread, or a failed connection's, closed while it stood for a connection
\* of the answer's flow.
THEOREM ForeignDeliveryExplained == Spec => []ForeignDeliveryIsExplained
<1>1. DInv => ForeignDeliveryIsExplained
  <2> SUFFICES ASSUME DInv, NEW x \in delivered, FlowOf[x.conn] # x.flow
               PROVE  \E c \in Conns : ClosedUnder(sock[x.reply], c) /\ FlowOf[c] = x.flow
    BY DEF ForeignDeliveryIsExplained
  <2>1. PICK c \in Conns : <<sock[x.reply], c>> \in closed /\ FlowOf[c] = x.flow
    BY DEF DInv, ForeignIsClosed
  <2>2. sock[x.reply] \in Fds
    BY <2>1 DEF DInv, TypeOK
  <2> QED
    BY <2>1, <2>2 DEF DInv, ClosedByOne, Closer, ClosedUnder
<1> QED
  BY <1>1, DInvInit, DInvNext, PTL DEF Spec

=============================================================================
