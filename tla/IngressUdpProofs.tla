-------------------------- MODULE IngressUdpProofs --------------------------
(***************************************************************************)
(* Proofs about IngressUdp, for any number of datagrams, replies, flows,   *)
(* addresses and restarts: the type invariant, that a reply finds no entry *)
(* of its flow only for the reasons MissIsExplained names, that the        *)
(* ingress implements UdpRelay, and that the roulette entry of a flow of   *)
(* one datagram stays within reach of delete_entry.                        *)
(***************************************************************************)
EXTENDS IngressUdp, TLAPS

\* The places of a datagram's thread after its insert
Inserted == {"create", "remember", "route", "send", "done"}

\* The thread of a datagram has added the entry of its flow, and only a reply
\* of the flow takes it away, unless keys that cross have met in a map.
EntryKept ==
    ~ tangled => \A d \in Datagrams : pc[d] \in Inserted =>
        conn[FlowOf[d]] # {} \/ \E q \in Replies : Cleaned(FlowOf[d], q)

\* A datagram in the chain was sent by a thread that has ended.
SentIsOver == \A d \in chain : pc[d] \in {"done", "dead"}

\* A reply that is being handled answers a datagram that was sent.
AnswersSent ==
    \A r \in Replies : pc[r] \notin {"idle", "dead"} => \E d \in chain : FlowOf[d] = rflow[r]

USE DEF Threads, Goto, Die, tables, maps, EmptyMap, EndpointInit, ClearMaps

\* The initial state has the type of the state.
LEMMA TypeInit == Init => TypeOK
<1> SUFFICES ASSUME Init PROVE TypeOK
  OBVIOUS
<1>1. tangled \in BOOLEAN /\ strangers \subseteq Strangers
  BY DEF Init
<1>2. conn \in [Flows -> SUBSET Addrs] /\ remote \in [Flows -> SUBSET (Datagrams \union {NoId})]
  BY DEF Init
<1> QED
  BY <1>1, <1>2, MaxRestartsAssumption DEF Init, TypeOK, DatagramPC, ReplyPC

-----------------------------------------------------------------------------
(* What the operations do to the maps. *)

\* The type that the maps have after an operation.
MapsType == /\ conn' \in [Flows -> SUBSET Addrs]
            /\ remote' \in [Flows -> SUBSET (Datagrams \union {NoId})]
            /\ strangers' \subseteq Strangers /\ tangled' \in BOOLEAN
            /\ roulette' \subseteq Datagrams /\ kept' \subseteq Datagrams

\* No key of the map is forgotten to have been out of order.
Tangles == tangled => tangled'

\* An erase takes records away and changes none.
LEMMA ErasedIsPart ==
    ASSUME NEW S, NEW m \in [Flows -> SUBSET S], NEW f, NEW n, n \in Erased(m, f)
    PROVE  n \in [Flows -> SUBSET S] /\ \A g \in Flows : n[g] \subseteq m[g]
  BY DEF Erased

\* In an ordered map it takes the record of the key.
LEMMA ErasedIsOne ==
    ASSUME ~ tangled, NEW m, NEW f, NEW n \in Erased(m, f)
    PROVE  \A g \in Flows : n[g] = IF g = f THEN {} ELSE m[g]
  BY DEF Erased

\* add_entry adds at most the one record, and the flow has one then.
LEMMA AddLocalEffect ==
    ASSUME TypeOK, NEW f \in Flows, NEW a \in Addrs, AddLocal(f, a)
    PROVE  /\ MapsType /\ Tangles
           /\ conn'[f] # {}
           /\ \A g \in Flows : conn[g] \subseteq conn'[g]
           /\ \A g \in Flows : conn'[g] \subseteq conn[g] \union (IF g = f THEN {a} ELSE {})
           /\ UNCHANGED <<remote, roulette, kept>>
<1>1. conn \in [Flows -> SUBSET Addrs]
  BY DEF TypeOK
<1>2. PICK old \in Found(conn, f) :
         conn' = [conn EXCEPT ![f] = IF old = None THEN @ \union {a} ELSE @]
  BY DEF AddLocal
<1>3. old \in conn[f] \/ old = None
  BY DEF Found
<1>4. conn' \in [Flows -> SUBSET Addrs]
  BY <1>1, <1>2
<1>5. Tangles /\ tangled' \in BOOLEAN
  BY DEF AddLocal, File, Tangles
<1>6. UNCHANGED <<remote, strangers, roulette, kept>>
  BY DEF AddLocal
<1>7. MapsType
  BY <1>4, <1>5, <1>6 DEF MapsType, TypeOK
<1>8. \A g \in Flows : /\ conn[g] \subseteq conn'[g]
                       /\ conn'[g] \subseteq conn[g] \union (IF g = f THEN {a} ELSE {})
  BY <1>1, <1>2
<1>9. conn'[f] # {}
  BY <1>1, <1>2, <1>3
<1> QED
  BY <1>5, <1>6, <1>7, <1>8, <1>9

\* delete_entry takes records of connection_map away.
LEMMA EraseLocalEffect ==
    ASSUME TypeOK, NEW f \in Flows, EraseLocal(f)
    PROVE  /\ MapsType /\ Tangles
           /\ \A g \in Flows : conn'[g] \subseteq conn[g]
           /\ ~ tangled => \A g \in Flows \ {f} : conn'[g] = conn[g]
           /\ UNCHANGED <<remote, roulette, kept>>
<1>1. conn \in [Flows -> SUBSET Addrs] /\ conn' \in Erased(conn, f)
  BY DEF TypeOK, EraseLocal
<1>2. conn' \in [Flows -> SUBSET Addrs] /\ \A g \in Flows : conn'[g] \subseteq conn[g]
  BY <1>1, ErasedIsPart
<1>3. ASSUME ~ tangled PROVE \A g \in Flows \ {f} : conn'[g] = conn[g]
  BY <1>1, <1>3, ErasedIsOne
<1>4. UNCHANGED <<remote, strangers, tangled, roulette, kept>>
  BY DEF EraseLocal
<1>5. Tangles /\ tangled' \in BOOLEAN
  BY <1>4 DEF TypeOK, Tangles
<1>6. MapsType
  BY <1>2, <1>4, <1>5 DEF TypeOK, MapsType
<1> QED
  BY <1>2, <1>3, <1>4, <1>5, <1>6

\* In an ordered map a flow has one id at most.
OneId == ~ tangled => \A f \in Flows : \A x, y \in remote[f] : x = y

\* add_entry writes the id of the flow; in an ordered map, over the one before.
LEMMA SetRemoteEffect ==
    ASSUME TypeOK, OneId, NEW f \in Flows, NEW d \in Datagrams, SetRemote(f, d)
    PROVE  /\ MapsType /\ Tangles /\ OneId'
           /\ ~ tangled => remote'[f] = {d}
           /\ \A g \in Flows \ {f} : remote'[g] = remote[g]
           /\ UNCHANGED <<conn, roulette, kept>>
<1>1. remote \in [Flows -> SUBSET (Datagrams \union {NoId})]
  BY DEF TypeOK
<1>2. PICK old \in Found(remote, f) : remote' = [remote EXCEPT ![f] = (@ \ {old}) \union {d}]
  BY DEF SetRemote
<1>3. remote' \in [Flows -> SUBSET (Datagrams \union {NoId})]
  BY <1>1, <1>2
<1>4. tangled' \in BOOLEAN /\ Tangles
  BY DEF SetRemote, File, Tangles
<1>5. UNCHANGED <<conn, strangers, roulette, kept>>
  BY DEF SetRemote
<1>6. MapsType
  BY <1>3, <1>4, <1>5 DEF MapsType, TypeOK
<1>7. \A g \in Flows \ {f} : remote'[g] = remote[g]
  BY <1>1, <1>2
<1>8. ASSUME ~ tangled PROVE remote'[f] = {d}
  <2>1. remote[f] \subseteq {old}
    BY <1>8 DEF OneId, Found
  <2> QED
    BY <1>1, <1>2, <2>1
<1>9. OneId'
  <2> SUFFICES ASSUME ~ tangled' PROVE \A g \in Flows : \A x, y \in remote'[g] : x = y
    BY DEF OneId
  <2>1. ~ tangled
    BY <1>4 DEF Tangles
  <2> QED
    BY <1>7, <1>8, <2>1 DEF OneId
<1> QED
  BY <1>4, <1>5, <1>6, <1>7, <1>8, <1>9

\* delete_entry takes ids away.
LEMMA EraseRemoteEffect ==
    ASSUME TypeOK, OneId, NEW f \in Flows, EraseRemote(f)
    PROVE  /\ MapsType /\ Tangles /\ OneId'
           /\ ~ tangled => \A g \in Flows \ {f} : remote'[g] = remote[g]
           /\ UNCHANGED <<conn, roulette, kept>>
<1>1. remote \in [Flows -> SUBSET (Datagrams \union {NoId})] /\ remote' \in Erased(remote, f)
  BY DEF TypeOK, EraseRemote
<1>2. /\ remote' \in [Flows -> SUBSET (Datagrams \union {NoId})]
      /\ \A g \in Flows : remote'[g] \subseteq remote[g]
  BY <1>1, ErasedIsPart
<1>3. ASSUME ~ tangled PROVE \A g \in Flows \ {f} : remote'[g] = remote[g]
  BY <1>1, <1>3, ErasedIsOne
<1>4. UNCHANGED <<conn, strangers, tangled, roulette, kept>>
  BY DEF EraseRemote
<1>5. Tangles /\ tangled' \in BOOLEAN
  BY <1>4 DEF TypeOK, Tangles
<1>6. OneId'
  BY <1>2, <1>4 DEF OneId
<1>7. MapsType
  BY <1>2, <1>4, <1>5 DEF TypeOK, MapsType
<1> QED
  BY <1>3, <1>4, <1>5, <1>6, <1>7

\* delete_entry reads the id of the flow, in an ordered map the one that is there,
\* and roulette deletes its entry, refuses, or is not reached.
LEMMA DeleteEffect ==
    ASSUME TypeOK, OneId, NEW f \in Flows, NEW id \in RemoteIds(f), ReadRemote(f, id),
           Deleted(id) \/ Refused(id) \/ Lost
    PROVE  /\ MapsType /\ Tangles /\ OneId'
           /\ ~ tangled => \A d \in Datagrams : remote[f] = {d} => id = d
           /\ \A g \in Flows \ {f} : remote'[g] = remote[g]
           /\ roulette' \subseteq roulette /\ kept \subseteq kept' /\ conn' = conn
<1>1. remote \in [Flows -> SUBSET (Datagrams \union {NoId})]
  BY DEF TypeOK
<1>2. {id} \ {NoId} \subseteq Datagrams
  BY <1>1 DEF RemoteIds
<1>3. /\ roulette' \subseteq Datagrams /\ kept' \subseteq Datagrams
      /\ roulette' \subseteq roulette /\ kept \subseteq kept'
  BY <1>2 DEF Deleted, Refused, Lost, TypeOK
<1>4. tangled' \in BOOLEAN /\ Tangles
  BY DEF ReadRemote, File, TypeOK, Tangles
<1>5. /\ remote' \in [Flows -> SUBSET (Datagrams \union {NoId})]
      /\ \A g \in Flows \ {f} : remote'[g] = remote[g]
  BY <1>1 DEF ReadRemote
<1>6. MapsType /\ conn' = conn
  BY <1>3, <1>4, <1>5 DEF ReadRemote, TypeOK, MapsType
<1>7. ASSUME ~ tangled, NEW d \in Datagrams, remote[f] = {d} PROVE id = d
  BY <1>7, NoneAssumption DEF ReadRemote, Found
<1>8. ASSUME ~ tangled PROVE \A x, y \in remote'[f] : x = y
  <2>1. CASE remote' = remote
    BY <1>8, <2>1 DEF OneId
  <2>2. CASE None \in Found(remote, f) /\ remote' = [remote EXCEPT ![f] = @ \union {NoId}]
    <3>1. remote[f] = {}
      BY <1>1, <1>8, <2>2, NoneAssumption DEF Found
    <3> QED
      BY <1>1, <2>2, <3>1
  <2> QED
    BY <2>1, <2>2 DEF ReadRemote
<1>9. OneId'
  <2> SUFFICES ASSUME ~ tangled' PROVE \A g \in Flows : \A x, y \in remote'[g] : x = y
    BY DEF OneId
  <2>1. ~ tangled
    BY <1>4 DEF Tangles
  <2> QED
    BY <1>5, <1>8, <2>1 DEF OneId
<1> QED
  BY <1>3, <1>4, <1>5, <1>6, <1>7, <1>9

\* The TCP half of the ingress takes no record of an ordered map away.
LEMMA NeighbourEffect ==
    ASSUME TypeOK, OneId, OtherFiles \/ OtherErases
    PROVE  /\ MapsType /\ Tangles /\ OneId'
           /\ \A g \in Flows : conn'[g] \subseteq conn[g]
           /\ ~ tangled => \A g \in Flows : conn'[g] = conn[g] /\ remote'[g] = remote[g]
           /\ UNCHANGED <<roulette, kept>>
<1>1. PICK k \in Strangers :
         \/ UNCHANGED <<conn, remote>>
         \/ conn' \in Erased(conn, k) /\ remote' \in Erased(remote, k)
  BY DEF OtherFiles, OtherErases, TypeOK
<1>2. k \notin Flows
  BY FlowsAssumption
<1>3. conn \in [Flows -> SUBSET Addrs] /\ remote \in [Flows -> SUBSET (Datagrams \union {NoId})]
  BY DEF TypeOK
<1>4. /\ conn' \in [Flows -> SUBSET Addrs]
      /\ remote' \in [Flows -> SUBSET (Datagrams \union {NoId})]
      /\ \A g \in Flows : conn'[g] \subseteq conn[g] /\ remote'[g] \subseteq remote[g]
  BY <1>1, <1>3, ErasedIsPart
<1>5. ASSUME ~ tangled PROVE \A g \in Flows : conn'[g] = conn[g] /\ remote'[g] = remote[g]
  BY <1>1, <1>2, <1>5, ErasedIsOne
<1>6. Tangles
  BY DEF OtherFiles, OtherErases, Tangles
<1>7. tangled' \in BOOLEAN
  BY DEF OtherFiles, OtherErases, TypeOK
<1>8. OneId'
  BY <1>4, <1>6 DEF OneId, Tangles
<1>9. strangers' \subseteq Strangers /\ UNCHANGED <<roulette, kept>>
  BY DEF OtherFiles, OtherErases, TypeOK
<1>10. MapsType
  BY <1>4, <1>7, <1>9 DEF TypeOK, MapsType
<1> QED
  BY <1>4, <1>5, <1>6, <1>8, <1>9, <1>10

-----------------------------------------------------------------------------
\* The type of the state, and that an ordered map_to_remote has one id of a flow.
TInv == TypeOK /\ OneId

\* Nothing happens to the maps.
LEMMA NoEffect == TInv /\ UNCHANGED maps => MapsType /\ Tangles /\ OneId'
<1> SUFFICES ASSUME TInv, UNCHANGED maps PROVE MapsType /\ Tangles /\ OneId'
  OBVIOUS
<1>1. MapsType
  BY DEF TInv, TypeOK, MapsType
<1>2. Tangles
  BY DEF Tangles
<1>3. OneId'
  BY DEF TInv, OneId
<1> QED
  BY <1>1, <1>2, <1>3

\* A step of a datagram's thread keeps the type of the maps.
LEMMA MapsDatagram ==
    ASSUME TInv, NEW d \in Datagrams, DatagramStep(d)
    PROVE  MapsType /\ Tangles /\ OneId'
<1>0. FlowOf[d] \in Flows /\ AddrOf[d] \in Addrs
  BY DatagramsAssumption
<1>1. CASE UNCHANGED maps
  BY <1>1, NoEffect
<1>2. CASE Insert(d)
  <2>1. MapsType /\ Tangles /\ remote' = remote
    BY <1>0, <1>2, AddLocalEffect DEF TInv, Insert
  <2>2. OneId'
    BY <2>1 DEF TInv, OneId, Tangles
  <2> QED
    BY <2>1, <2>2
<1>3. CASE Create(d)
  <2>1. UNCHANGED tables /\ roulette' \subseteq Datagrams /\ kept' \subseteq Datagrams
    BY <1>3 DEF Create, CreateRemote, CreateUnnamed, TInv, TypeOK
  <2>2. MapsType
    BY <2>1 DEF TInv, TypeOK, MapsType
  <2>3. Tangles
    BY <2>1 DEF Tangles
  <2>4. OneId'
    BY <2>1 DEF TInv, OneId
  <2> QED
    BY <2>2, <2>3, <2>4
<1>4. CASE Remember(d)
  BY <1>0, <1>4, SetRemoteEffect DEF TInv, Remember
<1> QED
  BY <1>1, <1>2, <1>3, <1>4 DEF DatagramStep, Receive, Classify, Route, Send

\* So does a step of a reply's thread.
LEMMA MapsReply ==
    ASSUME TInv, NEW r \in Replies, ReplyStep(r)
    PROVE  MapsType /\ Tangles /\ OneId'
<1>1. CASE UNCHANGED maps
  BY <1>1, NoEffect
<1>2. CASE DelErase(r) \/ DelRemote(r) \/ DelForget(r)
  <2>0. rflow[r] \in Flows
    BY <1>2 DEF TInv, TypeOK, DelErase, DelRemote, DelForget
  <2>1. CASE DelErase(r)
    <3>1. MapsType /\ Tangles /\ remote' = remote
      BY <2>0, <2>1, EraseLocalEffect DEF TInv, DelErase
    <3>2. OneId'
      BY <3>1 DEF TInv, OneId, Tangles
    <3> QED
      BY <3>1, <3>2
  <2>2. CASE DelRemote(r)
    BY <2>0, <2>2, DeleteEffect DEF TInv, DelRemote
  <2>3. CASE DelForget(r)
    BY <2>0, <2>3, EraseRemoteEffect DEF TInv, DelForget
  <2> QED
    BY <1>2, <2>1, <2>2, <2>3
<1> QED
  BY <1>1, <1>2 DEF ReplyStep, FromChain, Lookup, Deliver, DelFind

\* A step of a datagram's thread keeps the type of the state.
LEMMA TypeDatagram ==
    ASSUME TInv, NEW d \in Datagrams, DatagramStep(d)
    PROVE  TInv'
<1> USE ThreadsAssumption, DatagramsAssumption
<1>0. TypeOK /\ MapsType /\ OneId'
  BY MapsDatagram DEF TInv
<1>1. UNCHANGED <<restarts, rflow, sock, delivered>> /\ chain' \subseteq Datagrams
  BY <1>0 DEF TypeOK, DatagramStep, Receive, Classify, Insert, Create, Remember, Route, Send
<1>2. proc' \in {"up", "exit", "terminate", "undefined"}
  BY <1>0 DEF TypeOK, DatagramStep, Receive, Classify, Insert, Create, Remember, Route, Send
<1>3. pc' = pc \/ \E l \in DatagramPC : pc' = [pc EXCEPT ![d] = l]
  BY DEF DatagramPC, DatagramStep, Receive, Classify, Insert, Create, Remember, Route, Send
<1>4. /\ pc' \in [Threads -> DatagramPC \union ReplyPC]
      /\ \A e \in Datagrams : pc'[e] \in DatagramPC
      /\ \A r \in Replies : pc'[r] = pc[r]
  BY <1>0, <1>3 DEF TypeOK
<1> QED
  BY <1>0, <1>1, <1>2, <1>4 DEF TInv, TypeOK, MapsType

\* A step of a reply's thread keeps the type of the state.
LEMMA TypeReply ==
    ASSUME TInv, NEW r \in Replies, ReplyStep(r)
    PROVE  TInv'
<1> USE ThreadsAssumption, DatagramsAssumption, NoneAssumption
<1>0. TypeOK /\ MapsType /\ OneId'
  BY MapsReply DEF TInv
<1>1. UNCHANGED <<restarts, chain>>
  BY DEF ReplyStep, FromChain, Lookup, Deliver, DelFind, DelErase, DelRemote, DelForget
<1>2. proc' \in {"up", "exit", "terminate", "undefined"}
  BY <1>0 DEF TypeOK, ReplyStep, FromChain, Lookup, Deliver, DelFind, DelErase, DelRemote, DelForget
<1>3. pc' = pc \/ \E l \in ReplyPC : pc' = [pc EXCEPT ![r] = l]
  BY DEF ReplyPC, ReplyStep, FromChain, Lookup, Deliver, DelFind, DelErase, DelRemote, DelForget
<1>4. /\ pc' \in [Threads -> DatagramPC \union ReplyPC]
      /\ \A e \in Datagrams : pc'[e] \in DatagramPC
      /\ \A q \in Replies : pc'[q] \in ReplyPC
      /\ \A q \in Replies \ {r} : pc'[q] = pc[q]
  BY <1>0, <1>3 DEF TypeOK
<1>5. /\ rflow' \in [Replies -> Flows \union {None}]
      /\ \A q \in Replies : pc'[q] \notin {"idle", "dead"} => rflow'[q] \in Flows
  <2>1. CASE FromChain(r)
    <3>1. PICK e \in chain : rflow' = [rflow EXCEPT ![r] = FlowOf[e]]
      BY <2>1 DEF FromChain
    <3>2. FlowOf[e] \in Flows
      BY <1>0 DEF TypeOK
    <3> QED
      BY <1>0, <1>4, <3>1, <3>2 DEF TypeOK
  <2>2. CASE rflow' = rflow /\ pc[r] \notin {"idle", "dead"}
    BY <1>0, <1>4, <2>2 DEF TypeOK
  <2> QED
    BY <2>1, <2>2
       DEF ReplyStep, FromChain, Lookup, Deliver, DelFind, DelErase, DelRemote, DelForget
<1>6. sock' \in [Replies -> Addrs \union {None}]
  <2>1. CASE Lookup(r)
    <3>1. rflow[r] \in Flows
      BY <1>0, <2>1 DEF Lookup, TypeOK
    <3>2. \A a \in Found(conn, rflow[r]) : a \in Addrs \union {None}
      BY <1>0, <3>1 DEF TypeOK, Found
    <3> QED
      BY <1>0, <2>1, <3>2 DEF TypeOK, Lookup
  <2>2. CASE sock' = sock
    BY <1>0, <2>2 DEF TypeOK
  <2> QED
    BY <2>1, <2>2 DEF ReplyStep, FromChain, Deliver, DelFind, DelErase, DelRemote, DelForget
<1>7. delivered' \subseteq [reply : Replies, flow : Flows, addr : Addrs]
  <2>1. CASE Deliver(r) /\ delivered' # delivered
    <3>1. sock[r] \in Addrs /\ rflow[r] \in Flows
      BY <1>0, <2>1 DEF TypeOK, Deliver
    <3> QED
      BY <1>0, <2>1, <3>1 DEF TypeOK, Deliver
  <2>2. CASE delivered' = delivered
    BY <1>0, <2>2 DEF TypeOK
  <2> QED
    BY <2>1, <2>2 DEF ReplyStep, FromChain, Lookup, DelFind, DelErase, DelRemote, DelForget
<1> QED
  BY <1>0, <1>1, <1>2, <1>4, <1>5, <1>6, <1>7 DEF TInv, TypeOK, MapsType

\* Every step keeps the type of the state.
LEMMA TypeNext == TInv /\ [Next]_vars => TInv'
<1> SUFFICES ASSUME TInv, [Next]_vars PROVE TInv'
  OBVIOUS
<1>1. CASE \E d \in Datagrams : DatagramStep(d)
  BY <1>1, TypeDatagram
<1>2. CASE \E r \in Replies : ReplyStep(r)
  BY <1>2, TypeReply
<1>3. CASE Race \/ Signal \/ UNCHANGED vars
  <2>1. MapsType /\ OneId'
    BY <1>3, NoEffect DEF Race, Signal, vars
  <2> QED
    BY <1>3, <2>1 DEF Race, Signal, vars, TInv, TypeOK, MapsType
<1>4. CASE Neighbour
  <2>1. MapsType /\ OneId'
    BY <1>4, NeighbourEffect DEF TInv, Neighbour
  <2> QED
    BY <1>4, <2>1 DEF Neighbour, TInv, TypeOK, MapsType
<1>5. CASE Restart
  <2>0. TypeOK
    BY DEF TInv
  <2>1. MapsType
    <3>1. tangled' \in BOOLEAN
      BY <1>5 DEF Restart
    <3> QED
      BY <1>5, <2>0, <3>1 DEF Restart, MapsType, TypeOK
  <2>2. OneId'
    BY <1>5 DEF Restart, OneId
  <2>3. restarts' \in 0 .. MaxRestarts
    BY <1>5, <2>0, MaxRestartsAssumption DEF Restart, TypeOK
  <2>4. /\ pc' \in [Threads -> DatagramPC \union ReplyPC]
        /\ \A d \in Datagrams : pc'[d] \in DatagramPC
        /\ \A r \in Replies : pc'[r] \in ReplyPC /\ pc'[r] \in {"idle", "dead"}
    BY <1>5, ThreadsAssumption DEF Restart, DatagramPC, ReplyPC
  <2>5. proc' = "up" /\ UNCHANGED <<chain, rflow, sock, delivered>>
    BY <1>5 DEF Restart
  <2> QED
    BY <2>0, <2>1, <2>2, <2>3, <2>4, <2>5 DEF TInv, TypeOK, MapsType
<1> QED
  BY <1>1, <1>2, <1>3, <1>4, <1>5 DEF Next

\* The state of the ingress always has its type.
THEOREM TypeCorrect == Spec => []TypeOK
<1>1. Init => TInv
  BY TypeInit DEF Init, TInv, OneId
<1>2. TInv => TypeOK
  BY DEF TInv
<1> QED
  BY <1>1, <1>2, TypeNext, PTL DEF Spec

-----------------------------------------------------------------------------
\* The inductive invariant.
IInv == TInv /\ EntryKept /\ SentIsOver /\ AnswersSent /\ MissIsExplained

\* The initial state satisfies the inductive invariant.
LEMMA InvInit == Init => IInv
<1> SUFFICES ASSUME Init PROVE IInv
  OBVIOUS
<1>1. TInv
  BY TypeInit DEF Init, TInv, OneId
<1>2. EntryKept /\ SentIsOver /\ AnswersSent /\ MissIsExplained
  BY DEF Init, EntryKept, SentIsOver, AnswersSent, MissIsExplained, Inserted
<1> QED
  BY <1>1, <1>2 DEF IInv

\* The thread of a datagram takes nothing from connection_map, and puts its own
\* record there before it goes on.
LEMMA ConnDatagram ==
    ASSUME TInv, NEW d \in Datagrams, DatagramStep(d)
    PROVE  /\ \A f \in Flows : conn[f] \subseteq conn'[f]
           /\ \A f \in Flows : \A a \in conn'[f] :
                 a \in conn[f] \/ (Insert(d) /\ f = FlowOf[d] /\ a = AddrOf[d])
           /\ Insert(d) => conn'[FlowOf[d]] # {}
<1>0. FlowOf[d] \in Flows /\ AddrOf[d] \in Addrs
  BY DatagramsAssumption
<1>1. CASE Insert(d)
  <2>1. /\ conn'[FlowOf[d]] # {}
        /\ \A g \in Flows : conn[g] \subseteq conn'[g]
        /\ \A g \in Flows :
              conn'[g] \subseteq conn[g] \union (IF g = FlowOf[d] THEN {AddrOf[d]} ELSE {})
    BY <1>0, <1>1, AddLocalEffect DEF TInv, Insert
  <2> QED
    BY <1>1, <2>1
<1>2. CASE ~ Insert(d)
  <2>1. conn' = conn
    BY <1>2 DEF DatagramStep, Receive, Classify, Create, CreateRemote, CreateUnnamed, Remember,
           SetRemote, Route, Send
  <2> QED
    BY <1>2, <2>1
<1> QED
  BY <1>1, <1>2

\* The thread of a reply adds nothing to connection_map, and takes from an ordered
\* one what it erases.
LEMMA ConnReply ==
    ASSUME TInv, NEW r \in Replies, ReplyStep(r)
    PROVE  /\ \A f \in Flows : conn'[f] \subseteq conn[f]
           /\ ~ tangled => \A f \in Flows : conn'[f] = conn[f] \/ (DelErase(r) /\ f = rflow[r])
<1>1. CASE DelErase(r)
  <2>1. rflow[r] \in Flows
    BY <1>1 DEF TInv, TypeOK, DelErase
  <2>2. /\ \A g \in Flows : conn'[g] \subseteq conn[g]
        /\ ~ tangled => \A g \in Flows \ {rflow[r]} : conn'[g] = conn[g]
    BY <1>1, <2>1, EraseLocalEffect DEF TInv, DelErase
  <2> QED
    BY <1>1, <2>2
<1>2. CASE ~ DelErase(r)
  <2>1. conn' = conn
    BY <1>2 DEF ReplyStep, FromChain, Lookup, Deliver, DelFind, DelRemote, ReadRemote,
           DelForget, EraseRemote
  <2> QED
    BY <2>1
<1> QED
  BY <1>1, <1>2

\* The thread of a datagram changes no reply, takes no entry away, and its
\* datagram is in the chain only when the thread is over.
LEMMA InvDatagram ==
    ASSUME IInv, NEW d \in Datagrams, DatagramStep(d)
    PROVE  (EntryKept /\ SentIsOver /\ AnswersSent /\ MissIsExplained)'
<1> USE ThreadsAssumption, DatagramsAssumption, NoneAssumption
<1>0. /\ TInv /\ TypeOK /\ EntryKept /\ SentIsOver /\ AnswersSent /\ MissIsExplained
  BY DEF IInv, TInv
<1>1. \A r \in Replies : pc'[r] = pc[r] /\ rflow'[r] = rflow[r] /\ sock'[r] = sock[r]
  BY <1>0 DEF TypeOK, DatagramStep, Receive, Classify, Insert, Create, Remember, Route, Send
<1>2. chain \subseteq chain' /\ chain' \subseteq chain \union {d}
  BY DEF DatagramStep, Receive, Classify, Insert, Create, Remember, Route, Send
<1>3. \A e \in Datagrams \ {d} : pc'[e] = pc[e]
  BY <1>0 DEF TypeOK, DatagramStep, Receive, Classify, Insert, Create, Remember, Route, Send
<1>4. /\ \A f \in Flows : conn[f] \subseteq conn'[f]
      /\ Insert(d) => conn'[FlowOf[d]] # {}
  BY <1>0, ConnDatagram
<1>5. Tangles
  BY <1>0, MapsDatagram
<1>6. EntryKept'
  <2> SUFFICES ASSUME ~ tangled', NEW e \in Datagrams, pc'[e] \in Inserted
               PROVE  conn'[FlowOf[e]] # {} \/ \E q \in Replies : Cleaned(FlowOf[e], q)'
    BY DEF EntryKept
  <2>1. ~ tangled
    BY <1>5 DEF Tangles
  <2>2. CASE pc[e] \in Inserted
    <3>1. conn[FlowOf[e]] # {} \/ \E q \in Replies : Cleaned(FlowOf[e], q)
      BY <1>0, <2>1, <2>2 DEF EntryKept
    <3> QED
      BY <1>1, <1>4, <3>1 DEF Cleaned
  <2>3. CASE pc[e] \notin Inserted
    <3>1. e = d /\ Insert(d)
      BY <1>0, <1>3, <2>3
         DEF TypeOK, Inserted, DatagramStep, Receive, Classify, Insert, Create, Remember, Route, Send
    <3> QED
      BY <1>4, <3>1
  <2> QED
    BY <2>2, <2>3
<1>7. SentIsOver'
  <2>1. d \in chain => pc[d] \in {"done", "dead"}
    BY <1>0 DEF SentIsOver
  <2>2. d \in chain' => pc'[d] \in {"done", "dead"}
    BY <1>0, <2>1
       DEF TypeOK, DatagramStep, Receive, Classify, Insert, Create, Remember, Route, Send
  <2> QED
    BY <1>0, <1>2, <1>3, <2>2 DEF SentIsOver, TypeOK
<1>8. AnswersSent'
  BY <1>0, <1>1, <1>2 DEF AnswersSent
<1>9. MissIsExplained'
  <2> SUFFICES ASSUME NEW r \in Replies, pc'[r] = "deliver", sock'[r] = None, ~ tangled'
               PROVE  \/ \E q \in Replies \ {r} : Cleaned(rflow[r], q)'
                      \/ \E e \in chain' : FlowOf[e] = rflow'[r] /\ pc'[e] = "dead"
    BY DEF MissIsExplained, Cleaned
  <2>1. ~ tangled
    BY <1>5 DEF Tangles
  <2>2. \/ \E q \in Replies \ {r} : Cleaned(rflow[r], q)
        \/ \E e \in chain : FlowOf[e] = rflow[r] /\ pc[e] = "dead"
    BY <1>0, <1>1, <2>1 DEF MissIsExplained
  <2>3. \A e \in chain : pc[e] = "dead" => pc'[e] = "dead"
    BY <1>0, <1>3
       DEF TypeOK, DatagramStep, Receive, Classify, Insert, Create, Remember, Route, Send
  <2> QED
    BY <1>1, <1>2, <2>2, <2>3 DEF Cleaned
<1> QED
  BY <1>6, <1>7, <1>8, <1>9

\* The thread of a reply takes an entry away only by becoming the reply that
\* explains it, and a lookup that misses has its explanation at that moment.
LEMMA InvReply ==
    ASSUME IInv, NEW r \in Replies, ReplyStep(r)
    PROVE  (EntryKept /\ SentIsOver /\ AnswersSent /\ MissIsExplained)'
<1> USE ThreadsAssumption, DatagramsAssumption, NoneAssumption
<1> DEFINE Past == {"del_remote", "del_forget", "done"}
<1>0. /\ TInv /\ TypeOK /\ EntryKept /\ SentIsOver /\ AnswersSent /\ MissIsExplained
  BY DEF IInv, TInv
<1>1. chain' = chain /\ \A d \in Datagrams : pc'[d] = pc[d]
  BY <1>0 DEF TypeOK, ReplyStep, FromChain, Lookup, Deliver, DelFind, DelErase, DelRemote, DelForget
<1>2. \A q \in Replies \ {r} : pc'[q] = pc[q] /\ rflow'[q] = rflow[q] /\ sock'[q] = sock[q]
  BY <1>0 DEF TypeOK, ReplyStep, FromChain, Lookup, Deliver, DelFind, DelErase, DelRemote, DelForget
<1>3. pc[r] \in Past => pc'[r] \in Past /\ rflow'[r] = rflow[r]
  BY <1>0 DEF TypeOK, ReplyStep, FromChain, Lookup, Deliver, DelFind, DelErase, DelRemote, DelForget
<1>4. \A f \in Flows, q \in Replies : Cleaned(f, q) => Cleaned(f, q)'
  BY <1>2, <1>3 DEF Cleaned
<1>5. Tangles
  BY <1>0, MapsReply
<1>6. EntryKept'
  <2> SUFFICES ASSUME ~ tangled', NEW e \in Datagrams, pc'[e] \in Inserted
               PROVE  conn'[FlowOf[e]] # {} \/ \E q \in Replies : Cleaned(FlowOf[e], q)'
    BY DEF EntryKept
  <2>1. ~ tangled
    BY <1>5 DEF Tangles
  <2>2. conn[FlowOf[e]] # {} \/ \E q \in Replies : Cleaned(FlowOf[e], q)
    BY <1>0, <1>1, <2>1 DEF EntryKept
  <2>3. conn'[FlowOf[e]] = conn[FlowOf[e]] \/ (DelErase(r) /\ FlowOf[e] = rflow[r])
    BY <1>0, <2>1, ConnReply
  <2>4. DelErase(r) => pc'[r] = "del_remote" /\ rflow'[r] = rflow[r]
    BY <1>0 DEF TypeOK, DelErase
  <2>5. FlowOf[e] \in Flows
    BY DatagramsAssumption
  <2>6. CASE \E q \in Replies : Cleaned(FlowOf[e], q)
    BY <1>4, <2>5, <2>6
  <2>7. CASE conn[FlowOf[e]] # {}
    BY <2>3, <2>4, <2>7 DEF Cleaned
  <2> QED
    BY <2>2, <2>6, <2>7
<1>7. SentIsOver'
  BY <1>0, <1>1 DEF SentIsOver, TypeOK
<1>8. AnswersSent'
  <2>1. pc'[r] \notin {"idle", "dead"} => \E d \in chain : FlowOf[d] = rflow'[r]
    <3>1. CASE FromChain(r)
      BY <1>0, <3>1 DEF TypeOK, FromChain
    <3>2. CASE pc[r] \notin {"idle", "dead"} /\ rflow' = rflow
      BY <1>0, <3>2 DEF AnswersSent
    <3> QED
      BY <3>1, <3>2
         DEF ReplyStep, FromChain, Lookup, Deliver, DelFind, DelErase, DelRemote, DelForget
  <2> QED
    BY <1>0, <1>1, <1>2, <2>1 DEF AnswersSent
<1>9. MissIsExplained'
  <2> SUFFICES ASSUME NEW q \in Replies, pc'[q] = "deliver", sock'[q] = None, ~ tangled'
               PROVE  \/ \E p \in Replies \ {q} : Cleaned(rflow[q], p)'
                      \/ \E d \in chain : FlowOf[d] = rflow'[q] /\ pc[d] = "dead"
    BY <1>0, <1>1 DEF MissIsExplained, Cleaned, TypeOK
  <2>0. ~ tangled
    BY <1>5 DEF Tangles
  <2>1. CASE pc[q] = "deliver" /\ sock[q] = None /\ rflow'[q] = rflow[q]
    <3>1. rflow[q] \in Flows
      BY <1>0, <2>1 DEF TypeOK
    <3>2. \/ \E p \in Replies \ {q} : Cleaned(rflow[q], p)
          \/ \E d \in chain : FlowOf[d] = rflow[q] /\ pc[d] = "dead"
      BY <1>0, <2>0, <2>1 DEF MissIsExplained
    <3> QED
      BY <1>4, <2>1, <3>1, <3>2 DEF Cleaned
  <2>2. CASE q = r /\ Lookup(r)
    <3>1. rflow[r] \in Flows /\ rflow' = rflow
      BY <1>0, <2>2 DEF Lookup, TypeOK
    <3>2. conn[rflow[r]] = {}
      <4>1. None \in Found(conn, rflow[r])
        BY <1>0, <2>2 DEF Lookup, TypeOK
      <4>2. conn[rflow[r]] \subseteq Addrs
        BY <1>0, <3>1 DEF TypeOK
      <4> QED
        BY <2>0, <4>1, <4>2 DEF Found
    <3>3. PICK d \in chain : FlowOf[d] = rflow[r]
      BY <1>0, <2>2 DEF Lookup, AnswersSent
    <3>4. CASE pc[d] = "dead"
      BY <2>2, <3>1, <3>3, <3>4
    <3>5. CASE pc[d] = "done"
      <4>1. PICK p \in Replies : Cleaned(rflow[r], p)
        BY <1>0, <2>0, <3>2, <3>3, <3>5 DEF EntryKept, Inserted, TypeOK
      <4>2. p # r
        BY <2>2, <4>1 DEF Lookup, Cleaned
      <4> QED
        BY <1>4, <2>2, <3>1, <4>1, <4>2 DEF Cleaned
    <3> QED
      BY <1>0, <3>3, <3>4, <3>5 DEF SentIsOver
  <2> QED
    BY <1>0, <1>2, <2>1, <2>2
       DEF TypeOK, ReplyStep, FromChain, Lookup, Deliver, DelFind, DelErase, DelRemote, DelForget
<1> QED
  BY <1>6, <1>7, <1>8, <1>9

\* The TCP half of the ingress takes no entry of an ordered map away.
LEMMA InvNeighbour ==
    ASSUME IInv, Neighbour
    PROVE  (EntryKept /\ SentIsOver /\ AnswersSent /\ MissIsExplained)'
<1>0. TInv /\ TypeOK /\ EntryKept /\ SentIsOver /\ AnswersSent /\ MissIsExplained
  BY DEF IInv, TInv
<1>1. Tangles /\ (~ tangled => \A g \in Flows : conn'[g] = conn[g])
  BY <1>0, NeighbourEffect DEF TInv, Neighbour
<1>2. UNCHANGED <<proc, restarts, pc, chain, rflow, sock, delivered>>
  BY DEF Neighbour
<1>3. EntryKept'
  BY <1>0, <1>1, <1>2, DatagramsAssumption DEF EntryKept, Cleaned, Tangles
<1>4. MissIsExplained'
  BY <1>0, <1>1, <1>2 DEF MissIsExplained, Cleaned, Tangles
<1> QED
  BY <1>0, <1>2, <1>3, <1>4 DEF SentIsOver, AnswersSent

\* Every step keeps the inductive invariant.
LEMMA InvNext == IInv /\ [Next]_vars => IInv'
<1> SUFFICES ASSUME IInv, [Next]_vars PROVE IInv'
  OBVIOUS
<1>1. TInv'
  BY TypeNext DEF IInv
<1>2. CASE \E d \in Datagrams : DatagramStep(d)
  BY <1>1, <1>2, InvDatagram DEF IInv
<1>3. CASE \E r \in Replies : ReplyStep(r)
  BY <1>1, <1>3, InvReply DEF IInv
<1>4. CASE Race \/ Signal \/ UNCHANGED vars
  BY <1>1, <1>4
     DEF Race, Signal, vars, IInv, EntryKept, SentIsOver, AnswersSent, MissIsExplained, Cleaned
<1>5. CASE Neighbour
  BY <1>1, <1>5, InvNeighbour DEF IInv
<1>6. CASE Restart
  <2>1. \A t \in Threads : pc'[t] \in {"idle", "dead"}
    BY <1>6 DEF Restart
  <2>2. \A d \in chain : pc'[d] = "dead"
    BY <1>6 DEF Restart, IInv, TInv, SentIsOver, TypeOK
  <2>3. chain' = chain
    BY <1>6 DEF Restart
  <2> QED
    BY <1>1, <2>1, <2>2, <2>3
       DEF IInv, EntryKept, SentIsOver, AnswersSent, MissIsExplained, Inserted
<1> QED
  BY <1>2, <1>3, <1>4, <1>5, <1>6 DEF Next

\* A reply that finds no entry of its flow, and so ends the process, comes after
\* another reply of the flow, or answers a datagram of a run that has ended, or
\* finds a map in which two keys that cross have met.
THEOREM MissAlwaysExplained == Spec => []MissIsExplained
<1>1. IInv => MissIsExplained
  BY DEF IInv
<1> QED
  BY <1>1, InvInit, InvNext, PTL DEF Spec

-----------------------------------------------------------------------------
(* The ingress implements UdpRelay. *)

\* a is an address that flow f was used from in this run of the process.
UsedFrom(f, a) ==
    \E d \in Datagrams : pc[d] \notin {"idle", "dead"} /\ FlowOf[d] = f /\ AddrOf[d] = a

\* The entries of a flow hold addresses that the flow was used from.
EntryIsUsed == \A f \in Flows : \A a \in conn[f] : UsedFrom(f, a)

\* So does what a reply has looked up.
LookedUpIsUsed ==
    \A r \in Replies : pc[r] = "deliver" /\ sock[r] # None => UsedFrom(rflow[r], sock[r])

\* A reply that was delivered will not be delivered again.
DeliveredIsPast == \A x \in delivered : pc[x.reply] \notin {"idle", "lookup", "deliver"}

\* What the refinement needs beyond IInv.
RInv == IInv /\ EntryIsUsed /\ LookedUpIsUsed /\ DeliveredIsPast

\* The initial state satisfies RInv.
LEMMA RInvInit == Init => RInv
  BY InvInit DEF Init, RInv, EntryIsUsed, LookedUpIsUsed, DeliveredIsPast

\* A step of a datagram's thread keeps RInv.
LEMMA RInvDatagram ==
    ASSUME RInv, NEW d \in Datagrams, DatagramStep(d)
    PROVE  (EntryIsUsed /\ LookedUpIsUsed /\ DeliveredIsPast)'
<1> USE ThreadsAssumption, DatagramsAssumption, NoneAssumption
<1>0. TInv /\ TypeOK /\ EntryIsUsed /\ LookedUpIsUsed /\ DeliveredIsPast
  BY DEF RInv, IInv, TInv
<1>1. \A r \in Replies : pc'[r] = pc[r] /\ rflow'[r] = rflow[r] /\ sock'[r] = sock[r]
  BY <1>0 DEF TypeOK, DatagramStep, Receive, Classify, Insert, Create, Remember, Route, Send
<1>2. \A e \in Datagrams : pc[e] \notin {"idle", "dead"} => pc'[e] \notin {"idle", "dead"}
  BY <1>0 DEF TypeOK, DatagramStep, Receive, Classify, Insert, Create, Remember, Route, Send
<1>3. \A f \in Flows, a \in Addrs : UsedFrom(f, a) => UsedFrom(f, a)'
  BY <1>2 DEF UsedFrom
<1>4. ASSUME NEW f \in Flows, NEW a \in conn'[f] PROVE UsedFrom(f, a)'
  <2>1. CASE a \in conn[f]
    BY <1>0, <1>3, <2>1 DEF EntryIsUsed, TypeOK
  <2>2. CASE Insert(d) /\ f = FlowOf[d] /\ a = AddrOf[d]
    BY <1>0, <2>2 DEF Insert, UsedFrom, TypeOK
  <2> QED
    BY <1>0, <2>1, <2>2, ConnDatagram
<1>5. LookedUpIsUsed'
  BY <1>0, <1>1, <1>3 DEF LookedUpIsUsed, TypeOK
<1>6. DeliveredIsPast'
  <2>1. delivered' = delivered
    BY DEF DatagramStep, Receive, Classify, Insert, Create, Remember, Route, Send
  <2> QED
    BY <1>0, <1>1, <2>1 DEF DeliveredIsPast, TypeOK
<1> QED
  BY <1>4, <1>5, <1>6 DEF EntryIsUsed

\* A step of a reply's thread keeps RInv.
LEMMA RInvReply ==
    ASSUME RInv, NEW r \in Replies, ReplyStep(r)
    PROVE  (EntryIsUsed /\ LookedUpIsUsed /\ DeliveredIsPast)'
<1> USE ThreadsAssumption, DatagramsAssumption, NoneAssumption
<1>0. TInv /\ TypeOK /\ EntryIsUsed /\ LookedUpIsUsed /\ DeliveredIsPast
  BY DEF RInv, IInv, TInv
<1>1. \A d \in Datagrams : pc'[d] = pc[d]
  BY <1>0 DEF TypeOK, ReplyStep, FromChain, Lookup, Deliver, DelFind, DelErase, DelRemote, DelForget
<1>2. \A q \in Replies \ {r} : pc'[q] = pc[q] /\ rflow'[q] = rflow[q] /\ sock'[q] = sock[q]
  BY <1>0 DEF TypeOK, ReplyStep, FromChain, Lookup, Deliver, DelFind, DelErase, DelRemote, DelForget
<1>3. \A f \in Flows, a \in Addrs : UsedFrom(f, a) => UsedFrom(f, a)'
  BY <1>1 DEF UsedFrom
<1>4. ASSUME NEW f \in Flows, NEW a \in conn'[f] PROVE UsedFrom(f, a)'
  <2>1. a \in conn[f]
    BY <1>0, ConnReply
  <2> QED
    BY <1>0, <1>3, <2>1 DEF EntryIsUsed, TypeOK
<1>5. ASSUME NEW q \in Replies, pc'[q] = "deliver", NEW a, a = sock'[q], a # None,
             NEW f, f = rflow'[q]
      PROVE  UsedFrom(f, a)'
  <2>1. CASE pc[q] = "deliver" /\ rflow'[q] = rflow[q] /\ sock'[q] = sock[q]
    <3>1. f \in Flows /\ a \in Addrs /\ UsedFrom(f, a)
      BY <1>0, <1>5, <2>1 DEF LookedUpIsUsed, TypeOK
    <3> QED
      BY <1>3, <3>1
  <2>2. CASE q = r /\ Lookup(r)
    <3>1. f = rflow[r] /\ f \in Flows /\ a \in Found(conn, f)
      BY <1>0, <1>5, <2>2 DEF Lookup, TypeOK
    <3>2. a \in conn[f] /\ a \in Addrs
      BY <1>0, <1>5, <3>1 DEF Found, TypeOK
    <3> QED
      BY <1>0, <1>3, <3>1, <3>2 DEF EntryIsUsed
  <2> QED
    BY <1>0, <1>2, <1>5, <2>1, <2>2
       DEF TypeOK, ReplyStep, FromChain, Lookup, Deliver, DelFind, DelErase, DelRemote, DelForget
<1>6. DeliveredIsPast'
  <2>1. \A x \in delivered' : x \in delivered \/ (x.reply = r /\ pc'[r] = "del_find")
    BY <1>0
       DEF TypeOK, ReplyStep, FromChain, Lookup, Deliver, DelFind, DelErase, DelRemote, DelForget
  <2>2. pc[r] \notin {"idle", "lookup", "deliver"} => pc'[r] \notin {"idle", "lookup", "deliver"}
    BY <1>0
       DEF TypeOK, ReplyStep, FromChain, Lookup, Deliver, DelFind, DelErase, DelRemote, DelForget
  <2> QED
    BY <1>0, <1>2, <2>1, <2>2 DEF DeliveredIsPast, TypeOK
<1> QED
  BY <1>4, <1>5, <1>6 DEF EntryIsUsed, LookedUpIsUsed

\* Every step keeps RInv.
LEMMA RInvNext == RInv /\ [Next]_vars => RInv'
<1> SUFFICES ASSUME RInv, [Next]_vars PROVE RInv'
  OBVIOUS
<1>0. TInv /\ TypeOK /\ EntryIsUsed /\ LookedUpIsUsed /\ DeliveredIsPast
  BY DEF RInv, IInv, TInv
<1>1. IInv'
  BY InvNext DEF RInv
<1>2. CASE \E d \in Datagrams : DatagramStep(d)
  BY <1>1, <1>2, RInvDatagram DEF RInv
<1>3. CASE \E r \in Replies : ReplyStep(r)
  BY <1>1, <1>3, RInvReply DEF RInv
<1>4. CASE Race \/ Signal \/ UNCHANGED vars
  BY <1>1, <1>4
     DEF Race, Signal, vars, RInv, EntryIsUsed, LookedUpIsUsed, DeliveredIsPast, UsedFrom
<1>5. CASE Neighbour
  <2>1. \A f \in Flows : conn'[f] \subseteq conn[f]
    BY <1>0, <1>5, NeighbourEffect DEF TInv, Neighbour
  <2>2. UNCHANGED <<pc, rflow, sock, delivered>>
    BY <1>5 DEF Neighbour
  <2>3. \A f, a : UsedFrom(f, a)' <=> UsedFrom(f, a)
    BY <2>2 DEF UsedFrom
  <2>4. (EntryIsUsed /\ LookedUpIsUsed /\ DeliveredIsPast)'
    BY <1>0, <2>1, <2>2, <2>3 DEF EntryIsUsed, LookedUpIsUsed, DeliveredIsPast, UsedFrom
  <2> QED
    BY <1>1, <2>4 DEF RInv
<1>6. CASE Restart
  <2>1. \A t \in Threads : pc'[t] = IF pc[t] = "idle" THEN "idle" ELSE "dead"
    BY <1>6 DEF Restart
  <2>2. \A f \in Flows : conn'[f] = {}
    BY <1>6 DEF Restart
  <2>3. delivered' = delivered /\ \A x \in delivered : x.reply \in Replies
    BY <1>0, <1>6 DEF Restart, TypeOK
  <2> QED
    BY <1>0, <1>1, <2>1, <2>2, <2>3 DEF RInv, EntryIsUsed, LookedUpIsUsed, DeliveredIsPast
<1> QED
  BY <1>2, <1>3, <1>4, <1>5, <1>6 DEF Next

-----------------------------------------------------------------------------
\* The initial states of the ingress are initial states of the relay.
LEMMA RelayInit == Init => Relay!Init
  BY DEF Init, Relay!Init

\* The relay's view of a thread that moves from one handling step to the next.
LEMMA RelayStutter ==
    ASSUME proc' = proc, chain' = chain, delivered' = delivered,
           {d \in Datagrams : pc'[d] # "idle"} = {d \in Datagrams : pc[d] # "idle"},
           {d \in Datagrams : pc'[d] \notin {"idle", "dead"}}
               = {d \in Datagrams : pc[d] \notin {"idle", "dead"}}
    PROVE  UNCHANGED Relay!vars
  BY DEF Relay!vars

\* The end of the process halts the relay.
LEMMA RelayHalt ==
    ASSUME proc = "up", proc' # "up", UNCHANGED <<pc, chain, delivered>>
    PROVE  Relay!Halt
  BY DEF Relay!Halt

\* A step of a datagram's thread is Accept, Forward, Halt or a stutter.
LEMMA RelayDatagram ==
    ASSUME RInv, proc = "up", NEW d \in Datagrams, DatagramStep(d)
    PROVE  Relay!Next \/ UNCHANGED Relay!vars
<1> USE ThreadsAssumption DEF RInv, IInv, TInv, TypeOK
<1>1. CASE Receive(d)
  <2>1. Relay!Accept(d)
    BY <1>1 DEF Receive, Relay!Accept
  <2> QED
    BY <2>1 DEF Relay!Next
<1>2. CASE proc' # "up"
  <2>1. UNCHANGED <<pc, chain, delivered>>
    BY <1>2 DEF DatagramStep, Receive, Classify, Insert, Create, Remember, Route, Send
  <2> QED
    BY <2>1, <1>2, RelayHalt DEF Relay!Next
<1>3. CASE proc' = "up" /\ chain' # chain
  <2>1. Relay!Forward(d)
    BY <1>3 DEF DatagramStep, Receive, Classify, Insert, Create, Remember, Route, Send,
                Relay!Forward, SentIsOver
  <2> QED
    BY <2>1 DEF Relay!Next
<1>4. CASE ~ Receive(d) /\ proc' = "up" /\ chain' = chain
  <2>1. /\ delivered' = delivered
        /\ \A e \in Datagrams \ {d} : pc'[e] = pc[e]
        /\ {pc[d], pc'[d]} \intersect {"idle", "dead"} = {}
    BY <1>4 DEF DatagramStep, Classify, Insert, Create, Remember, Route, Send
  <2> QED
    BY <2>1, <1>4, RelayStutter
<1> QED
  BY <1>1, <1>2, <1>3, <1>4

\* A step of a reply's thread is Deliver, Halt or a stutter.
LEMMA RelayReply ==
    ASSUME RInv, proc = "up", NEW r \in Replies, ReplyStep(r)
    PROVE  Relay!Next \/ UNCHANGED Relay!vars
<1> USE ThreadsAssumption DEF RInv, IInv, TInv, TypeOK
<1>1. chain' = chain /\ \A d \in Datagrams : pc'[d] = pc[d]
  BY DEF ReplyStep, FromChain, Lookup, Deliver, DelFind, DelErase, DelRemote, DelForget
<1>2. CASE proc' # "up"
  <2>1. UNCHANGED <<pc, chain, delivered>>
    BY <1>2 DEF ReplyStep, FromChain, Lookup, Deliver, DelFind, DelErase, DelRemote, DelForget
  <2> QED
    BY <2>1, <1>2, RelayHalt DEF Relay!Next
<1>3. CASE proc' = "up" /\ delivered' # delivered
  <2>1. /\ pc[r] = "deliver" /\ sock[r] \in Addrs /\ rflow[r] \in Flows
        /\ delivered' = delivered \union
                            {[reply |-> r, flow |-> rflow[r], addr |-> sock[r]]}
        /\ sock[r] # None
    BY <1>3, NoneAssumption
       DEF ReplyStep, FromChain, Lookup, Deliver, DelFind, DelErase, DelRemote, DelForget
  <2>2. \A x \in delivered : x.reply # r
    BY <2>1 DEF DeliveredIsPast
  <2>3. \E d \in chain : FlowOf[d] = rflow[r]
    BY <2>1 DEF AnswersSent
  <2>4. UsedFrom(rflow[r], sock[r])
    BY <2>1 DEF LookedUpIsUsed
  <2>5. Relay!Deliver(r, rflow[r], sock[r])
    BY <2>1, <2>2, <2>3, <2>4, <1>1, <1>3 DEF UsedFrom, Relay!Deliver
  <2> QED
    BY <2>1, <2>5 DEF Relay!Next
<1>4. CASE proc' = "up" /\ delivered' = delivered
  BY <1>1, <1>4, RelayStutter
<1> QED
  BY <1>2, <1>3, <1>4

\* Every step of the ingress is a step of the relay or leaves it as it was.
LEMMA RelayNext == RInv /\ [Next]_vars => [Relay!Next]_(Relay!vars)
<1> SUFFICES ASSUME RInv, [Next]_vars PROVE Relay!Next \/ UNCHANGED Relay!vars
  OBVIOUS
<1>1. CASE proc = "up" /\ \E d \in Datagrams : DatagramStep(d)
  BY <1>1, RelayDatagram
<1>2. CASE proc = "up" /\ \E r \in Replies : ReplyStep(r)
  BY <1>2, RelayReply
<1>3. CASE proc = "up" /\ (Race \/ Signal)
  <2>1. proc' # "up" /\ UNCHANGED <<pc, chain, delivered>>
    BY <1>3 DEF Race, Signal
  <2> QED
    BY <1>3, <2>1, RelayHalt DEF Relay!Next
<1>4. CASE Restart
  <2>1. /\ proc # "up" /\ proc' = "up" /\ chain' = chain /\ delivered' = delivered
        /\ \A d \in Datagrams : pc'[d] = IF pc[d] = "idle" THEN "idle" ELSE "dead"
    BY <1>4 DEF Restart
  <2>2. Relay!Resume
    BY <2>1 DEF Relay!Resume
  <2> QED
    BY <2>2 DEF Relay!Next
<1>5. CASE UNCHANGED vars \/ Neighbour
  BY <1>5 DEF vars, Neighbour, Relay!vars
<1> QED
  BY <1>1, <1>2, <1>3, <1>4, <1>5 DEF Next

\* The ingress sends each datagram to the chain at most once, and delivers each
\* answer at most once, where its flow came from in this run of the process.
THEOREM RelayImplemented == Spec => ImplementsUdpRelay
  BY RInvInit, RInvNext, RelayInit, RelayNext, PTL
     DEF Spec, ImplementsUdpRelay, Relay!Spec

-----------------------------------------------------------------------------
(* The entry of a flow of one datagram stays within reach of delete_entry. *)

\* An entry in roulette was asked for by the thread of its datagram.
EntryAsked ==
    \A d \in roulette : /\ pc[d] \in {"create", "remember", "route", "send", "done", "dead"}
                        /\ proc = "up" => pc[d] # "create"

\* A reply forgets the id of a flow of one datagram after its entry is gone.
GoneWhenForgotten ==
    proc = "up" /\ ~ tangled =>
        \A d \in roulette \ kept, r \in Replies :
            Sole(d) /\ pc[d] # "dead" => ~(rflow[r] = FlowOf[d] /\ pc[r] = "del_forget")

SInv == IInv /\ EntryAsked /\ GoneWhenForgotten /\ SoleEntryIsReachable

\* What GoneWhenForgotten and SoleEntryIsReachable say of one datagram.
InReach(d) ==
    /\ \A r \in Replies : ~(rflow[r] = FlowOf[d] /\ pc[r] = "del_forget")
    /\ \/ pc[d] = "remember"
       \/ /\ remote[FlowOf[d]] = {d}
          /\ conn[FlowOf[d]] # {} \/ \E r \in Replies : rflow[r] = FlowOf[d] /\ pc[r] = "del_remote"

\* A reply of a flow of one datagram comes after the datagram's thread has ended.
LEMMA RepliesAfter ==
    ASSUME IInv, NEW d \in Datagrams, Sole(d), pc[d] \notin {"done", "dead"},
           NEW r \in Replies, rflow[r] = FlowOf[d]
    PROVE  pc[r] \in {"idle", "dead"}
<1> SUFFICES ASSUME pc[r] \notin {"idle", "dead"} PROVE FALSE
  OBVIOUS
<1>1. PICK e \in chain : FlowOf[e] = FlowOf[d]
  BY DEF IInv, AnswersSent
<1>2. pc[e] \in {"done", "dead"} /\ e \in Datagrams
  BY DEF IInv, TInv, SentIsOver, TypeOK
<1> QED
  BY <1>1, <1>2 DEF Sole

\* The initial state satisfies SInv.
LEMMA SInvInit == Init => SInv
  BY InvInit DEF Init, SInv, EntryAsked, GoneWhenForgotten, SoleEntryIsReachable

\* A step of a datagram's thread keeps SInv.
LEMMA SInvDatagram ==
    ASSUME SInv, NEW d \in Datagrams, proc = "up", DatagramStep(d)
    PROVE  (EntryAsked /\ GoneWhenForgotten /\ SoleEntryIsReachable)'
<1> USE ThreadsAssumption, DatagramsAssumption, NoneAssumption
<1>0. IInv /\ TInv /\ TypeOK /\ roulette \subseteq Datagrams
  BY DEF SInv, IInv, TInv, TypeOK
<1>1. /\ \A r \in Replies : pc'[r] = pc[r] /\ rflow'[r] = rflow[r]
      /\ \A e \in Datagrams \ {d} : pc'[e] = pc[e]
      /\ pc[d] \notin {"idle", "dead"} => pc'[d] \notin {"idle", "dead"}
      /\ pc[d] \notin {"done", "dead"}
      /\ pc'[d] # pc[d] \/ proc' # "up"
  BY <1>0 DEF DatagramStep, Receive, Classify, Insert, Create, Remember, Route, Send, TypeOK
<1>2. \A e \in Datagrams : Sole(e)' => Sole(e)
  <2>1. \A e \in Datagrams : pc'[e] = "idle" => pc[e] = "idle"
    BY <1>0, <1>1 DEF DatagramStep, Receive, Classify, Insert, Create, Remember, Route, Send, TypeOK
  <2> QED
    BY <2>1 DEF Sole
<1>3. roulette' \subseteq roulette \union {d} /\ kept \subseteq kept' /\ kept' \subseteq kept \union {d}
  BY DEF DatagramStep, Receive, Classify, Insert, AddLocal, Create, CreateRemote, CreateUnnamed,
         Remember, SetRemote, Route, Send
<1>4. roulette' # roulette => Create(d)
  BY DEF DatagramStep, Receive, Classify, Insert, AddLocal, Remember, SetRemote, Route, Send
<1>5. EntryAsked'
  <2> SUFFICES ASSUME NEW e \in roulette'
               PROVE  /\ pc'[e] \in {"create", "remember", "route", "send", "done", "dead"}
                      /\ proc' = "up" => pc'[e] # "create"
    BY DEF EntryAsked
  <2>1. CASE e \in roulette
    <3>1. pc[e] \in {"remember", "route", "send", "done", "dead"} /\ e \in Datagrams
      BY <1>0, <2>1 DEF SInv, EntryAsked
    <3> QED
      BY <1>0, <1>1, <3>1
         DEF DatagramStep, Receive, Classify, Insert, Create, Remember, Route, Send, TypeOK
  <2>2. CASE e \notin roulette
    <3>1. e = d /\ Create(d)
      BY <1>3, <1>4, <2>2
    <3> QED
      BY <1>0, <3>1 DEF Create, TypeOK
  <2> QED
    BY <2>1, <2>2
<1>6. Tangles
  BY <1>0, MapsDatagram
<1>7. ASSUME proc' = "up", ~ tangled', NEW e \in roulette' \ kept', Sole(e)', pc'[e] # "dead"
      PROVE  InReach(e)'
  <2>0. e \in Datagrams /\ Sole(e) /\ FlowOf[e] \in Flows /\ ~ tangled
    BY <1>0, <1>2, <1>3, <1>6, <1>7 DEF Tangles
  <2>1. CASE e # d
    <3>1. FlowOf[d] # FlowOf[e]
      BY <1>0, <1>1, <1>7, <2>0, <2>1 DEF Sole, DatagramStep, Receive, Classify, Insert, Create,
         Remember, Route, Send, TypeOK
    <3>2. e \in roulette \ kept /\ pc[e] # "dead" /\ pc'[e] = pc[e]
      BY <1>1, <1>3, <1>7, <2>0, <2>1
    <3>3. InReach(e)
      BY <2>0, <3>2 DEF SInv, GoneWhenForgotten, SoleEntryIsReachable, InReach
    <3>4. conn[FlowOf[e]] \subseteq conn'[FlowOf[e]]
      BY <1>0, <2>0, ConnDatagram
    <3>5. remote'[FlowOf[e]] = remote[FlowOf[e]]
      <4>1. CASE Remember(d)
        BY <1>0, <2>0, <3>1, <4>1, SetRemoteEffect DEF TInv, Remember
      <4>2. CASE ~ Remember(d)
        BY <4>2 DEF DatagramStep, Receive, Classify, Insert, AddLocal, Create, CreateRemote,
           CreateUnnamed, Route, Send
      <4> QED
        BY <4>1, <4>2
    <3> QED
      BY <1>1, <3>2, <3>3, <3>4, <3>5 DEF InReach
  <2>2. CASE e = d
    <3>1. \A r \in Replies : rflow[r] = FlowOf[d] => pc[r] \in {"idle", "dead"}
      BY <1>0, <1>1, <2>0, <2>2, RepliesAfter
    <3>2. \A r \in Replies : ~(rflow'[r] = FlowOf[d] /\ pc'[r] = "del_forget")
      BY <1>1, <3>1
    <3>3. CASE Create(d)
      <4>1. d \notin roulette
        BY <1>0, <3>3 DEF SInv, EntryAsked, Create
      <4>2. pc'[d] = "remember"
        BY <1>0, <1>7, <2>2, <3>3, <4>1 DEF Create, CreateRemote, CreateUnnamed, TypeOK
      <4> QED
        BY <2>2, <3>2, <4>2 DEF InReach
    <3>4. CASE Remember(d)
      <4>1. conn[FlowOf[d]] # {}
        BY <1>0, <2>0, <3>1, <3>4 DEF IInv, EntryKept, Inserted, Cleaned, Remember
      <4>2. remote'[FlowOf[d]] = {d} /\ conn' = conn
        BY <1>0, <2>0, <2>2, <3>4, SetRemoteEffect DEF TInv, Remember
      <4> QED
        BY <2>2, <3>2, <4>1, <4>2 DEF InReach
    <3>5. CASE Receive(d) \/ Classify(d) \/ Insert(d)
      BY <1>0, <1>4, <1>7, <2>2, <3>5 DEF SInv, EntryAsked, Receive, Classify, Insert, Create
    <3>6. CASE Route(d) \/ Send(d)
      <4>1. e \in roulette \ kept /\ pc[e] \notin {"dead", "remember"} /\ maps' = maps
        BY <1>7, <2>2, <3>6 DEF Route, Send
      <4>2. InReach(e)
        BY <2>0, <4>1 DEF SInv, GoneWhenForgotten, SoleEntryIsReachable, InReach
      <4> QED
        BY <1>1, <2>2, <3>1, <3>2, <4>1, <4>2 DEF InReach
    <3> QED
      BY <3>3, <3>4, <3>5, <3>6 DEF DatagramStep
  <2> QED
    BY <2>1, <2>2
<1> QED
  BY <1>5, <1>7 DEF GoneWhenForgotten, SoleEntryIsReachable, InReach

\* A step of a reply's thread keeps SInv.
LEMMA SInvReply ==
    ASSUME SInv, NEW q \in Replies, proc = "up", ReplyStep(q)
    PROVE  (EntryAsked /\ GoneWhenForgotten /\ SoleEntryIsReachable)'
<1> USE ThreadsAssumption, DatagramsAssumption, NoneAssumption
<1>0. IInv /\ TInv /\ TypeOK /\ roulette \subseteq Datagrams
  BY DEF SInv, IInv, TInv, TypeOK
<1>1. /\ \A r \in Replies \ {q} : pc'[r] = pc[r] /\ rflow'[r] = rflow[r]
      /\ \A e \in Datagrams : pc'[e] = pc[e]
  BY <1>0 DEF ReplyStep, FromChain, Lookup, Deliver, DelFind, DelErase, DelRemote, DelForget, TypeOK
<1>2. roulette' \subseteq roulette /\ kept \subseteq kept'
  BY DEF ReplyStep, FromChain, Lookup, Deliver, DelFind, DelErase, EraseLocal, DelRemote, Deleted,
         Refused, Lost, DelForget, EraseRemote
<1>3. EntryAsked'
  BY <1>0, <1>1, <1>2 DEF SInv, EntryAsked
<1>4. Tangles
  BY <1>0, MapsReply
<1>5. ASSUME proc' = "up", ~ tangled', NEW e \in roulette' \ kept', Sole(e)', pc'[e] # "dead"
      PROVE  InReach(e)'
  <2>0. e \in Datagrams /\ Sole(e) /\ FlowOf[e] \in Flows /\ pc[e] = pc'[e] /\ ~ tangled
    BY <1>0, <1>1, <1>2, <1>4, <1>5 DEF Sole, Tangles
  <2>1. e \in roulette \ kept /\ pc[e] # "dead" /\ InReach(e)
    BY <1>1, <1>2, <1>5, <2>0 DEF SInv, GoneWhenForgotten, SoleEntryIsReachable, InReach
  <2>2. CASE FromChain(q) \/ Lookup(q) \/ Deliver(q) \/ DelFind(q)
    <3>1. maps' = maps /\ pc[q] # "del_remote" /\ pc'[q] # "del_forget"
      BY <1>0, <2>2 DEF FromChain, Lookup, Deliver, DelFind, TypeOK
    <3> QED
      BY <1>1, <2>0, <2>1, <3>1 DEF InReach
  <2>3. CASE DelErase(q)
    <3>1. /\ rflow' = rflow /\ remote' = remote /\ rflow[q] \in Flows
          /\ pc'[q] = "del_remote" /\ pc[q] = "del_erase"
      BY <1>0, <2>3 DEF DelErase, EraseLocal, TypeOK
    <3>2. CASE rflow[q] = FlowOf[e]
      <4>1. pc[e] # "remember"
        BY <1>0, <2>0, <3>1, <3>2, RepliesAfter
      <4> QED
        BY <1>1, <2>0, <2>1, <3>1, <3>2, <4>1 DEF InReach
    <3>3. CASE rflow[q] # FlowOf[e]
      <4>1. conn'[FlowOf[e]] = conn[FlowOf[e]]
        BY <1>0, <2>0, <2>3, <3>1, <3>3, EraseLocalEffect DEF DelErase, TInv
      <4> QED
        BY <1>1, <2>0, <2>1, <3>1, <3>3, <4>1 DEF InReach
    <3> QED
      BY <3>2, <3>3
  <2>4. CASE DelRemote(q)
    <3>1. /\ rflow' = rflow /\ pc[q] = "del_remote" /\ pc'[q] = "del_forget"
          /\ rflow[q] \in Flows
      BY <1>0, <1>5, <2>4 DEF DelRemote, TypeOK
    <3>2. PICK id \in RemoteIds(rflow[q]) :
             ReadRemote(rflow[q], id) /\ (Deleted(id) \/ Refused(id))
      BY <1>5, <2>4 DEF DelRemote
    <3>3. /\ \A d \in Datagrams : remote[rflow[q]] = {d} => id = d
          /\ \A g \in Flows \ {rflow[q]} : remote'[g] = remote[g]
          /\ conn' = conn
      BY <1>0, <2>0, <3>1, <3>2, DeleteEffect DEF TInv
    <3>4. rflow[q] # FlowOf[e]
      <4> SUFFICES ASSUME rflow[q] = FlowOf[e] PROVE FALSE
        OBVIOUS
      <4>1. pc[e] # "remember"
        BY <1>0, <2>0, <3>1, RepliesAfter
      <4>2. id = e /\ e # NoId
        BY <2>0, <2>1, <3>3, <4>1, NoIdAssumption DEF InReach
      <4> QED
        BY <1>5, <2>1, <3>2, <4>2 DEF Deleted, Refused
    <3> QED
      BY <1>1, <2>0, <2>1, <3>1, <3>3, <3>4 DEF InReach
  <2>5. CASE DelForget(q)
    <3>1. /\ rflow' = rflow /\ conn' = conn /\ rflow[q] \in Flows
          /\ pc[q] = "del_forget" /\ pc'[q] = "done"
      BY <1>0, <2>5 DEF DelForget, EraseRemote, TypeOK
    <3>2. rflow[q] # FlowOf[e]
      BY <2>1, <3>1 DEF InReach
    <3>3. remote'[FlowOf[e]] = remote[FlowOf[e]]
      BY <1>0, <2>0, <2>5, <3>1, <3>2, EraseRemoteEffect DEF DelForget, TInv
    <3> QED
      BY <1>1, <2>0, <2>1, <3>1, <3>2, <3>3 DEF InReach
  <2> QED
    BY <2>2, <2>3, <2>4, <2>5 DEF ReplyStep
<1> QED
  BY <1>3, <1>5 DEF GoneWhenForgotten, SoleEntryIsReachable, InReach

\* Every step keeps SInv.
LEMMA SInvNext == SInv /\ [Next]_vars => SInv'
<1> SUFFICES ASSUME SInv, [Next]_vars PROVE SInv'
  OBVIOUS
<1>0. TInv
  BY DEF SInv, IInv
<1>1. IInv'
  BY InvNext DEF SInv
<1>2. ASSUME proc = "up", NEW d \in Datagrams, DatagramStep(d)
      PROVE  SInv'
  BY <1>1, <1>2, SInvDatagram DEF SInv
<1>3. ASSUME proc = "up", NEW q \in Replies, ReplyStep(q)
      PROVE  SInv'
  BY <1>1, <1>3, SInvReply DEF SInv
<1>4. CASE Race \/ Signal
  BY <1>1, <1>4 DEF SInv, EntryAsked, GoneWhenForgotten, SoleEntryIsReachable, Race, Signal
<1>5. CASE UNCHANGED vars
  BY <1>1, <1>5 DEF SInv, EntryAsked, GoneWhenForgotten, SoleEntryIsReachable, Sole, vars
<1>6. CASE Neighbour
  <2>1. UNCHANGED <<proc, pc, rflow>> /\ UNCHANGED <<roulette, kept>>
    BY <1>6 DEF Neighbour, OtherFiles, OtherErases
  <2>2. EntryAsked'
    BY <2>1 DEF SInv, EntryAsked
  <2>3. Tangles /\ (~ tangled => \A g \in Flows : conn'[g] = conn[g] /\ remote'[g] = remote[g])
    BY <1>0, <1>6, NeighbourEffect DEF TInv, Neighbour
  <2>4. GoneWhenForgotten'
    BY <2>1, <2>3 DEF SInv, GoneWhenForgotten, Sole, Tangles
  <2>5. SoleEntryIsReachable'
    <3> SUFFICES ASSUME proc' = "up", ~ tangled', NEW d \in roulette' \ kept', Sole(d)', pc'[d] # "dead"
                 PROVE  InReach(d)'
      BY DEF SoleEntryIsReachable, InReach
    <3>1. ~ tangled /\ FlowOf[d] \in Flows
      BY <1>0, <2>1, <2>3, DatagramsAssumption DEF Tangles, TInv, TypeOK
    <3>2. InReach(d)
      BY <2>1, <3>1 DEF SInv, GoneWhenForgotten, SoleEntryIsReachable, InReach, Sole
    <3> QED
      BY <2>1, <2>3, <3>1, <3>2 DEF InReach
  <2> QED
    BY <1>1, <2>2, <2>4, <2>5 DEF SInv
<1>7. CASE Restart
  <2>1. \A d \in roulette' : d \in Datagrams /\ pc'[d] = "dead"
    BY <1>7, ThreadsAssumption DEF Restart, SInv, IInv, TInv, TypeOK, EntryAsked
  <2> QED
    BY <1>1, <2>1 DEF SInv, EntryAsked, GoneWhenForgotten, SoleEntryIsReachable
<1> QED
  BY <1>2, <1>3, <1>4, <1>5, <1>6, <1>7 DEF Next

\* Until two keys that cross have met in a map, delete_entry can still reach the
\* entry that add_entry created in roulette for a flow of one datagram
\* (endpoint.cpp:33-47, 74-80).
THEOREM SoleEntryReachable == Spec => []SoleEntryIsReachable
<1>1. SInv => SoleEntryIsReachable
  BY DEF SInv
<1> QED
  BY <1>1, SInvInit, SInvNext, PTL DEF Spec

=============================================================================
