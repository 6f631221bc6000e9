--------------------------- MODULE EgressTcpProofs ---------------------------
(***************************************************************************)
(* Proofs about EgressTcp, for any number of packets, connections and      *)
(* answers: the type invariant, and that no packet or answer ever travels  *)
(* on a connection of another flow.                                        *)
(***************************************************************************)
EXTENDS EgressTcp, TLAPS

USE DEF Goto, Die, tables, maps, net, EmptyMap, EndpointInit, AddLocal, File

\* The initial state has the type of the state.
LEMMA TypeInit == Init => TypeOK
<1> SUFFICES ASSUME Init PROVE TypeOK
  OBVIOUS
<1>1. tangled \in BOOLEAN
  BY DEF Init
<1>2. conn \in [Flows -> SUBSET Socks]
  BY DEF Init
<1> QED
  BY <1>1, <1>2, MaxAnswersAssumption, PacketsAssumption DEF Init, TypeOK, PacketPC

\* What a destination does keeps the type of the state.
LEMMA TypeNet ==
    ASSUME TypeOK, NEW s \in Socks, Answer(s) \/ Hangup(s)
    PROVE  TypeOK'
<1> USE MaxAnswersAssumption DEF TypeOK
<1>1. CASE Answer(s)
  BY <1>1 DEF Answer
<1>2. CASE Hangup(s)
  BY <1>2 DEF Hangup
<1> QED
  BY <1>1, <1>2

\* The UDP half touches no record of the map.
LEMMA NeighbourTakes ==
    ASSUME TypeOK, Neighbour
    PROVE  TypeOK' /\ \A f \in Flows : conn'[f] \subseteq conn[f]
<1>1. strangers' \subseteq Strangers /\ tangled' \in BOOLEAN
  BY DEF Neighbour, OtherFiles, TypeOK
<1> QED
  BY <1>1 DEF Neighbour, OtherFiles, TypeOK

\* A step of a packet's thread keeps the type of the state.
LEMMA TypePacket ==
    ASSUME TypeOK, NEW p \in Packets, FromChain(p) \/ Handle(p)
    PROVE  TypeOK'
<1> USE PacketsAssumption, SocksAssumption, MaxAnswersAssumption DEF TypeOK, PacketPC
<1>1. CASE FromChain(p)
  BY <1>1 DEF FromChain
<1>2. CASE Lookup(p)
  BY <1>2 DEF Lookup, Found
<1>3. CASE Connect(p)
  BY <1>3 DEF Connect
<1>4. CASE Update(p)
  BY <1>4 DEF Update
<1>5. CASE Insert(p)
  <2>1. conn' \in [Flows -> SUBSET Socks]
    BY <1>5 DEF Insert
  <2>2. tangled' \in BOOLEAN
    BY <1>5 DEF Insert
  <2> QED
    BY <1>5, <2>1, <2>2 DEF Insert
<1>6. CASE Send(p)
  <2>1. sock[p] \in Socks
    BY <1>6 DEF Send
  <2>2. sent' = sent \/ sent' = [sent EXCEPT ![sock[p]] = @ \union {p}]
    BY <1>6, <2>1 DEF Send
  <2>3. sent' \in [Socks -> SUBSET Packets]
    BY <2>1, <2>2
  <2>4. peer' = peer \/ \E h \in {"closed", "reset"} : peer' = [peer EXCEPT ![sock[p]] = h]
    BY <1>6, <2>1 DEF Send
  <2>5. peer' \in [Socks -> {"open", "closed", "reset"}]
    BY <2>1, <2>4
  <2>6. unread' = unread \/ unread' = [unread EXCEPT ![sock[p]] = 0]
    BY <1>6, <2>1 DEF Send
  <2>7. unread' \in [Socks -> Nat]
    BY <2>1, <2>6
  <2> QED
    BY <1>6, <2>3, <2>5, <2>7 DEF Send
<1>7. CASE Read(p)
  BY <1>7 DEF Read
<1>8. CASE Classify(p)
  BY <1>8 DEF Classify
<1>9. CASE Route(p)
  BY <1>9 DEF Route
<1>10. CASE Forward(p)
  BY <1>10 DEF Forward
<1> QED
  BY <1>1, <1>2, <1>3, <1>4, <1>5, <1>6, <1>7, <1>8, <1>9, <1>10 DEF Handle

\* No step changes the type of the state.
LEMMA TypeNext == TypeOK /\ [Next]_vars => TypeOK'
<1>1. CASE Race
  BY <1>1 DEF Race, TypeOK
<1>2. CASE UNCHANGED vars
  BY <1>2 DEF vars, TypeOK
<1> QED
  BY <1>1, <1>2, TypeNet, TypePacket, NeighbourTakes DEF Next

\* Every reachable state has the type of the state.
THEOREM TypeCorrect == Spec => []TypeOK
  BY TypeInit, TypeNext, PTL DEF Spec

-----------------------------------------------------------------------------
(* The flow of a connection.  connection_map and the threads hold, for a      *)
(* flow, only connections that were opened for it, and a connection that is   *)
(* open stays of its flow.                                                    *)

MapIsKept == \A f \in Flows : \A s \in conn[f] : dest[s] = f

HandIsKept ==
    \A p \in Packets : pc[p] \notin {"idle", "lookup", "connect"} => dest[sock[p]] = FlowOf[p]

FInv == TypeOK /\ MapIsKept /\ HandIsKept /\ FlowIsKept

\* Initially there is no connection.
LEMMA FInvInit == Init => FInv
  BY TypeInit DEF Init, FInv, MapIsKept, HandIsKept, FlowIsKept

\* No step moves a connection to another flow.
LEMMA FInvNext == FInv /\ [Next]_vars => FInv'
<1> SUFFICES ASSUME FInv, [Next]_vars
             PROVE  MapIsKept' /\ HandIsKept' /\ FlowIsKept'
  BY TypeNext DEF FInv
<1> USE PacketsAssumption, SocksAssumption
        DEF FInv, TypeOK, MapIsKept, HandIsKept, FlowIsKept
<1>1. ASSUME NEW p \in Packets, FromChain(p) PROVE MapIsKept' /\ HandIsKept' /\ FlowIsKept'
  BY <1>1 DEF FromChain
<1>2. ASSUME NEW p \in Packets, Lookup(p) PROVE MapIsKept' /\ HandIsKept' /\ FlowIsKept'
  BY <1>2 DEF Lookup, Found
<1>3. ASSUME NEW p \in Packets, Connect(p) PROVE MapIsKept' /\ HandIsKept' /\ FlowIsKept'
  <2>1. CASE Die("exit") /\ UNCHANGED <<dest, sock>>
    BY <1>3, <2>1 DEF Connect
  <2>2. CASE Goto(p, "update") /\ UNCHANGED proc
    <3>1. PICK s \in Socks : /\ dest[s] = None
                             /\ dest' = [dest EXCEPT ![s] = FlowOf[p]]
                             /\ sock' = [sock EXCEPT ![p] = s]
      BY <1>3, <2>2 DEF Connect
    <3>2. MapIsKept' /\ FlowIsKept'
      BY <1>3, <3>1 DEF Connect
    <3>3. HandIsKept'
      BY <1>3, <2>2, <3>1 DEF Connect
    <3> QED
      BY <3>2, <3>3
  <2> QED
    BY <1>3, <2>1, <2>2 DEF Connect
<1>4. ASSUME NEW p \in Packets, Update(p) PROVE MapIsKept' /\ HandIsKept' /\ FlowIsKept'
  BY <1>4 DEF Update
<1>5. ASSUME NEW p \in Packets, Insert(p) PROVE MapIsKept' /\ HandIsKept' /\ FlowIsKept'
  <2>1. \A f \in Flows : conn'[f] \subseteq conn[f] \union (IF f = FlowOf[p] THEN {sock[p]} ELSE {})
    BY <1>5 DEF Insert
  <2>2. dest[sock[p]] = FlowOf[p]
    BY <1>5 DEF Insert
  <2> QED
    BY <1>5, <2>1, <2>2 DEF Insert
<1>6. ASSUME NEW p \in Packets, Send(p) PROVE MapIsKept' /\ HandIsKept' /\ FlowIsKept'
  <2>1. sock[p] \in Socks /\ dest[sock[p]] = FlowOf[p]
    BY <1>6 DEF Send
  <2>2. sent' = sent \/ sent' = [sent EXCEPT ![sock[p]] = @ \union {p}]
    BY <1>6, <2>1 DEF Send
  <2>3. UNCHANGED <<sock, conn, dest, registered, returned>> /\ Goto(p, "read")
    BY <1>6 DEF Send
  <2>4. MapIsKept' /\ HandIsKept'
    BY <2>1, <2>3, <1>6 DEF Send
  <2>5. \A s \in Socks : \A q \in sent'[s] : FlowOf[q] = dest'[s]
    BY <2>1, <2>2, <2>3
  <2> QED
    BY <2>3, <2>4, <2>5
<1>7. ASSUME NEW p \in Packets, Read(p) PROVE MapIsKept' /\ HandIsKept' /\ FlowIsKept'
  BY <1>7 DEF Read
<1>8. ASSUME NEW p \in Packets, Classify(p) PROVE MapIsKept' /\ HandIsKept' /\ FlowIsKept'
  BY <1>8 DEF Classify
<1>9. ASSUME NEW p \in Packets, Route(p) PROVE MapIsKept' /\ HandIsKept' /\ FlowIsKept'
  BY <1>9 DEF Route
<1>10. ASSUME NEW p \in Packets, Forward(p) PROVE MapIsKept' /\ HandIsKept' /\ FlowIsKept'
  BY <1>10 DEF Forward
<1>11. ASSUME NEW s \in Socks, Answer(s) PROVE MapIsKept' /\ HandIsKept' /\ FlowIsKept'
  BY <1>11 DEF Answer
<1>12. ASSUME NEW s \in Socks, Hangup(s) PROVE MapIsKept' /\ HandIsKept' /\ FlowIsKept'
  BY <1>12 DEF Hangup
<1>15. CASE Neighbour
  BY <1>15, NeighbourTakes DEF Neighbour
<1>13. CASE Race
  BY <1>13 DEF Race
<1>14. CASE UNCHANGED vars
  BY <1>14 DEF vars
<1> QED
  BY <1>1, <1>2, <1>3, <1>4, <1>5, <1>6, <1>7, <1>8, <1>9, <1>10, <1>11, <1>12, <1>13, <1>14, <1>15
     DEF Next, Handle

\* Whatever the threads race for, packets and answers keep their flow.
THEOREM FlowsKept == Spec => []FlowIsKept
<1>1. Spec => []FInv
  BY FInvInit, FInvNext, PTL DEF Spec
<1> QED
  BY <1>1, PTL DEF FInv

=============================================================================
