--------------------------- MODULE EgressUdpProofs ---------------------------
(***************************************************************************)
(* Proofs about EgressUdp, for any number of packets and answers: the type *)
(* invariant, that a thread never misses the answer to its packet, and     *)
(* what else it may take for it.                                           *)
(***************************************************************************)
EXTENDS EgressUdp, TLAPS

USE DEF Goto, Die, tables, maps, opened, EmptyMap, EndpointInit, AddLocal, File

\* The initial state has the type of the state.
LEMMA TypeInit == Init => TypeOK
<1> SUFFICES ASSUME Init PROVE TypeOK
  OBVIOUS
<1>1. tangled \in BOOLEAN
  BY DEF Init
<1>2. conn \in [Flows -> SUBSET Packets]
  BY DEF Init
<1>3. missed \in [Packets -> [Incoming -> Nat]]
  BY DEF Init
<1> QED
  BY <1>1, <1>2, <1>3, PacketsAssumption, MaxAnswersAssumption DEF Init, TypeOK, PacketPC

\* The TCP half touches no record of the map.
LEMMA TypeNeighbour == TypeOK /\ Neighbour => TypeOK'
<1> SUFFICES ASSUME TypeOK, Neighbour PROVE TypeOK'
  OBVIOUS
<1>1. strangers' \subseteq Strangers /\ tangled' \in BOOLEAN
  BY DEF Neighbour, OtherFiles, TypeOK
<1> QED
  BY <1>1 DEF Neighbour, OtherFiles, TypeOK

\* A count of what has come is a number.
LEMMA ArrivalsType == TypeOK => \A x \in Incoming : Arrivals(x) \in Nat
<1> SUFFICES ASSUME TypeOK, NEW x \in Incoming PROVE Arrivals(x) \in Nat
  OBVIOUS
<1>1. CASE x = Other
  BY <1>1, MaxAnswersAssumption DEF Arrivals, TypeOK
<1>2. CASE x # Other
  <2>1. PICK p \in Packets, k \in {"chain", "answer"} : x = <<p, k>>
    BY <1>2 DEF Incoming
  <2> QED
    BY <1>2, <2>1, MaxAnswersAssumption DEF Arrivals, TypeOK
<1> QED
  BY <1>1, <1>2

\* A datagram that reaches the host is put at the end of the sockets it reaches.
LEMMA ArriveKeeps ==
    ASSUME TypeOK, NEW x \in Incoming, Arrive(x)
    PROVE  /\ inbox' \in [Packets -> Seq(Incoming)]
           /\ \A p \in Packets : \A i \in DOMAIN inbox[p] :
                 i \in DOMAIN inbox'[p] /\ inbox'[p][i] = inbox[p][i]
           /\ \A p \in listening : pc[p] # "done" =>
                 \E i \in DOMAIN inbox'[p] : inbox'[p][i] = x
<1> USE DEF TypeOK
<1>1. \A p \in Packets : inbox'[p] \in {inbox[p], Append(inbox[p], x)} /\ inbox[p] \in Seq(Incoming)
  BY DEF Arrive
<1>2. ASSUME NEW q \in Seq(Incoming)
      PROVE  /\ Append(q, x) \in Seq(Incoming)
             /\ \A i \in DOMAIN q : i \in DOMAIN Append(q, x) /\ Append(q, x)[i] = q[i]
             /\ Len(q) + 1 \in DOMAIN Append(q, x) /\ Append(q, x)[Len(q) + 1] = x
  OBVIOUS
<1>3. inbox' \in [Packets -> Seq(Incoming)]
  BY <1>1, <1>2 DEF Arrive
<1>4. \A p \in Packets : \A i \in DOMAIN inbox[p] :
         i \in DOMAIN inbox'[p] /\ inbox'[p][i] = inbox[p][i]
  BY <1>1, <1>2
<1>5. ASSUME NEW p \in listening, pc[p] # "done"
      PROVE  \E i \in DOMAIN inbox'[p] : inbox'[p][i] = x
  <2>1. p \in Packets /\ inbox'[p] = Append(inbox[p], x)
    BY <1>5 DEF Arrive
  <2>2. inbox[p] \in Seq(Incoming)
    BY <2>1
  <2>3. /\ Len(inbox[p]) + 1 \in DOMAIN inbox'[p]
        /\ inbox'[p][Len(inbox[p]) + 1] = x
    <3> HIDE DEF TypeOK
    <3> QED
      BY <1>2, <2>1, <2>2
  <2> QED
    BY <2>3
<1> QED
  BY <1>3, <1>4, <1>5

\* No step changes the type of the state.
LEMMA TypeNext == TypeOK /\ [Next]_vars => TypeOK'
<1> SUFFICES ASSUME TypeOK, [Next]_vars
             PROVE  TypeOK'
  OBVIOUS
<1> USE PacketsAssumption, MaxAnswersAssumption DEF TypeOK, PacketPC
<1>1. ASSUME NEW p \in Packets, FromChain(p) PROVE TypeOK'
  <2>1. inbox' \in [Packets -> Seq(Incoming)]
    BY <1>1, ArriveKeeps DEF FromChain, Incoming
  <2>2. /\ pc' \in [Packets -> PacketPC]
        /\ \A q \in Packets : pc'[q] \in {"classify", "route", "forward"} => pc[q] = pc'[q]
    BY <1>1 DEF FromChain
  <2> QED
    BY <1>1, <2>1, <2>2 DEF FromChain
<1>2. ASSUME NEW p \in Packets, Answer(p) PROVE TypeOK'
  <2>1. inbox' \in [Packets -> Seq(Incoming)]
    BY <1>2, ArriveKeeps DEF Answer, Incoming
  <2>2. answers' \in [Packets -> 0 .. MaxAnswers]
    BY <1>2 DEF Answer
  <2> QED
    BY <1>2, <2>1, <2>2 DEF Answer
<1>14. CASE Disturb
  <2>1. inbox' \in [Packets -> Seq(Incoming)]
    BY <1>14, ArriveKeeps DEF Disturb, Incoming
  <2>2. others' \in 0 .. MaxOthers
    BY <1>14 DEF Disturb
  <2> QED
    BY <1>14, <2>1, <2>2 DEF Disturb
<1>3. ASSUME NEW p \in Packets, Lookup(p) PROVE TypeOK'
  BY <1>3 DEF Lookup
<1>4. ASSUME NEW p \in Packets, Open(p) PROVE TypeOK'
  <2>1. [x \in Incoming |-> Arrivals(x)] \in [Incoming -> Nat]
    BY ArrivalsType
  <2>2. missed' \in [Packets -> [Incoming -> Nat]]
    BY <1>4, <2>1 DEF Open
  <2> QED
    BY <1>4, <2>2 DEF Open
<1>5. ASSUME NEW p \in Packets, Send(p) PROVE TypeOK'
  BY <1>5 DEF Send
<1>6. ASSUME NEW p \in Packets, Update(p) PROVE TypeOK'
  <2>1. registered' \in [Flows -> Packets \union {None}]
    BY <1>6 DEF Update
  <2> QED
    BY <1>6, <2>1 DEF Update
<1>7. ASSUME NEW p \in Packets, Insert(p) PROVE TypeOK'
  <2>1. conn' \in [Flows -> SUBSET Packets]
    BY <1>7 DEF Insert
  <2>2. tangled' \in BOOLEAN
    BY <1>7 DEF Insert
  <2> QED
    BY <1>7, <2>1, <2>2 DEF Insert
<1>15. CASE Neighbour
  BY <1>15, TypeNeighbour
<1>8. ASSUME NEW p \in Packets, Recv(p) PROVE TypeOK'
  <2>1. CASE Die("exit") /\ UNCHANGED <<got, inbox>>
    BY <1>8, <2>1 DEF Recv
  <2>2. CASE /\ inbox[p] # <<>>
             /\ got' = [got EXCEPT ![p] = Head(inbox[p])]
             /\ inbox' = [inbox EXCEPT ![p] = Tail(@)]
             /\ Goto(p, "classify") /\ UNCHANGED proc
    <3>1. Head(inbox[p]) \in Incoming /\ Tail(inbox[p]) \in Seq(Incoming)
      BY <2>2
    <3> QED
      BY <1>8, <2>2, <3>1 DEF Recv
  <2> QED
    BY <1>8, <2>1, <2>2 DEF Recv
<1>9. ASSUME NEW p \in Packets, Classify(p) PROVE TypeOK'
  BY <1>9 DEF Classify
<1>10. ASSUME NEW p \in Packets, Route(p) PROVE TypeOK'
  <2>1. proc' \in {"terminate", proc}
    BY <1>10 DEF Route
  <2>2. \/ pc' = pc
        \/ \E l \in {"forward", "done"} : pc' = [pc EXCEPT ![p] = l]
    BY <1>10 DEF Route
  <2>3. pc' \in [Packets -> PacketPC]
    BY <2>2
  <2>4. \A q \in Packets : pc'[q] \in {"classify", "route", "forward"} =>
            pc[q] \in {"classify", "route", "forward"}
    BY <1>10, <2>2 DEF Route
  <2> QED
    BY <1>10, <2>1, <2>3, <2>4 DEF Route
<1>11. ASSUME NEW p \in Packets, Forward(p) PROVE TypeOK'
  <2>1. proc' \in {"up", "exit"} \union {proc} /\ pc' \in [Packets -> PacketPC]
    BY <1>11 DEF Forward
  <2>2. \A q \in Packets : pc'[q] \in {"classify", "route", "forward"} =>
            pc[q] \in {"classify", "route", "forward"}
    BY <1>11 DEF Forward
  <2>3. got[p] \in Incoming
    BY <1>11 DEF Forward
  <2>4. returned' \subseteq [thread : Packets, datagram : Incoming]
    BY <1>11, <2>3 DEF Forward
  <2> QED
    BY <1>11, <2>1, <2>2, <2>4 DEF Forward
<1>12. CASE Race
  BY <1>12 DEF Race
<1>13. CASE UNCHANGED vars
  BY <1>13 DEF vars
<1> QED
  BY <1>1, <1>2, <1>3, <1>4, <1>5, <1>6, <1>7, <1>8, <1>9, <1>10, <1>11, <1>12, <1>13, <1>14, <1>15
     DEF Next, Handle

\* Every reachable state has the type of the state.
THEOREM TypeCorrect == Spec => []TypeOK
  BY TypeInit, TypeNext, PTL DEF Spec

-----------------------------------------------------------------------------
(* The answers.  A thread listens before it sends, and nothing is answered    *)
(* before it was sent.                                                        *)

Listens == \A p \in Packets : Waits(p) \/ pc[p] = "send" => p \in listening

SentBeforeAnswered ==
    \A p \in Packets : /\ answers[p] > 0 => p \in sent
                       /\ p \in sent => pc[p] \notin {"idle", "lookup", "open", "send"}

AInv == TypeOK /\ Listens /\ SentBeforeAnswered /\ NoAnswerMissed

\* Initially nothing was sent.
LEMMA AInvInit == Init => AInv
  BY TypeInit DEF Init, AInv, Listens, SentBeforeAnswered, NoAnswerMissed, Waits

\* No step takes an answer away from a thread that waits for one.
LEMMA AInvNext == AInv /\ [Next]_vars => AInv'
<1> SUFFICES ASSUME AInv, [Next]_vars
             PROVE  Listens' /\ SentBeforeAnswered' /\ NoAnswerMissed'
  BY TypeNext DEF AInv
<1> DEFINE Goal == Listens' /\ SentBeforeAnswered' /\ NoAnswerMissed'
<1> USE DEF AInv, TypeOK, Listens, SentBeforeAnswered, NoAnswerMissed, Waits
<1>1. ASSUME NEW p \in Packets, FromChain(p) PROVE Goal
  <2>1. \A q \in Packets : \A i \in DOMAIN inbox[q] :
           i \in DOMAIN inbox'[q] /\ inbox'[q][i] = inbox[q][i]
    BY <1>1, ArriveKeeps DEF FromChain, Incoming
  <2>2. Listens' /\ SentBeforeAnswered'
    BY <1>1 DEF FromChain
  <2>3. NoAnswerMissed'
    BY <1>1, <2>1 DEF FromChain
  <2> QED
    BY <2>2, <2>3
<1>2. ASSUME NEW p \in Packets, Answer(p) PROVE Goal
  <2>1. \A q \in Packets : \A i \in DOMAIN inbox[q] :
           i \in DOMAIN inbox'[q] /\ inbox'[q][i] = inbox[q][i]
    BY <1>2, ArriveKeeps DEF Answer, Incoming
  <2>2. Listens' /\ SentBeforeAnswered'
    BY <1>2 DEF Answer
  <2>3. Waits(p) => \E i \in DOMAIN inbox'[p] : inbox'[p][i] = <<p, "answer">>
    BY <1>2, ArriveKeeps DEF Answer, Incoming
  <2>4. NoAnswerMissed'
    BY <1>2, <2>1, <2>3 DEF Answer
  <2> QED
    BY <2>2, <2>4
<1>14. CASE Disturb
  <2>1. \A q \in Packets : \A i \in DOMAIN inbox[q] :
           i \in DOMAIN inbox'[q] /\ inbox'[q][i] = inbox[q][i]
    BY <1>14, ArriveKeeps DEF Disturb, Incoming
  <2> QED
    BY <1>14, <2>1 DEF Disturb
<1>3. ASSUME NEW p \in Packets, Lookup(p) PROVE Goal
  BY <1>3 DEF Lookup
<1>4. ASSUME NEW p \in Packets, Open(p) PROVE Goal
  BY <1>4 DEF Open
<1>5. ASSUME NEW p \in Packets, Send(p) PROVE Goal
  BY <1>5 DEF Send
<1>6. ASSUME NEW p \in Packets, Update(p) PROVE Goal
  BY <1>6 DEF Update
<1>7. ASSUME NEW p \in Packets, Insert(p) PROVE Goal
  BY <1>7 DEF Insert
<1>15. CASE Neighbour
  BY <1>15 DEF Neighbour
<1>8. ASSUME NEW p \in Packets, Recv(p) PROVE Goal
  BY <1>8 DEF Recv
<1>9. ASSUME NEW p \in Packets, Classify(p) PROVE Goal
  BY <1>9 DEF Classify
<1>10. ASSUME NEW p \in Packets, Route(p) PROVE Goal
  BY <1>10 DEF Route
<1>11. ASSUME NEW p \in Packets, Forward(p) PROVE Goal
  BY <1>11 DEF Forward
<1>12. CASE Race
  BY <1>12 DEF Race
<1>13. CASE UNCHANGED vars
  BY <1>13 DEF vars
<1> QED
  BY <1>1, <1>2, <1>3, <1>4, <1>5, <1>6, <1>7, <1>8, <1>9, <1>10, <1>11, <1>12, <1>13, <1>14, <1>15
     DEF Next, Handle

\* An answer that arrives while its thread is not yet waiting is there when it is.
THEOREM AnswersSeen == Spec => []NoAnswerMissed
<1>1. Spec => []AInv
  BY AInvInit, AInvNext, PTL DEF Spec
<1> QED
  BY <1>1, PTL DEF AInv

-----------------------------------------------------------------------------
(* What a thread may take for its answer.                                     *)

\* The thread has read a datagram that it has not returned yet.
Holds(p) == pc[p] \in {"classify", "route", "forward"}

\* What waits in the sockets, was read from them and returned came since.
Pending ==
    /\ \A p \in Packets : \A i \in DOMAIN inbox[p] : CameSince(p, inbox[p][i])
    /\ \A p \in Packets : Holds(p) => CameSince(p, got[p])

\* A thread that has not opened its socket has received and returned nothing.
Unopened ==
    \A p \in Packets : pc[p] \in {"idle", "lookup", "open"} =>
        p \notin listening /\ inbox[p] = <<>> /\ \A x \in returned : x.thread # p

\* What a thread missed had come.
MissedPast == \A p \in Packets, x \in Incoming : missed[p][x] <= Arrivals(x)

EInv == TypeOK /\ Unopened /\ MissedPast /\ Pending /\ ForeignAnswerIsExplained

\* What one step may do to the threads, their sockets and the counts.
LEMMA StepEffect ==
    ASSUME TypeOK, [Next]_vars
    PROVE  /\ others' \in {others, others + 1}
           /\ answers' = answers \/ \E q \in Packets : answers' = [answers EXCEPT ![q] = @ + 1]
           /\ \A p \in Packets :
                 /\ pc'[p] = "idle" => pc[p] = "idle"
                 /\ pc'[p] \in {"idle", "lookup", "open"} =>
                       /\ pc[p] \in {"idle", "lookup", "open"}
                       /\ p \in listening' => p \in listening
           /\ missed' = missed \/ \E q \in Packets : Open(q) /\ pc' = [pc EXCEPT ![q] = "send"]
<1> DEFINE Goal ==
           /\ others' \in {others, others + 1}
           /\ answers' = answers \/ \E q \in Packets : answers' = [answers EXCEPT ![q] = @ + 1]
           /\ \A p \in Packets :
                 /\ pc'[p] = "idle" => pc[p] = "idle"
                 /\ pc'[p] \in {"idle", "lookup", "open"} =>
                       /\ pc[p] \in {"idle", "lookup", "open"}
                       /\ p \in listening' => p \in listening
           /\ missed' = missed \/ \E q \in Packets : Open(q) /\ pc' = [pc EXCEPT ![q] = "send"]
<1>0. pc \in [Packets -> PacketPC]
  BY DEF TypeOK
<1>1. ASSUME NEW q \in Packets, FromChain(q) PROVE Goal
  BY <1>0, <1>1 DEF FromChain
<1>2. ASSUME NEW q \in Packets, Answer(q) PROVE Goal
  BY <1>2 DEF Answer
<1>3. CASE Disturb
  BY <1>3 DEF Disturb
<1>4. CASE Neighbour \/ Race \/ UNCHANGED vars
  BY <1>4 DEF Neighbour, Race, vars
<1>5. ASSUME NEW q \in Packets, Lookup(q) PROVE Goal
  BY <1>0, <1>5 DEF Lookup
<1>6. ASSUME NEW q \in Packets, Open(q) PROVE Goal
  BY <1>0, <1>6 DEF Open
<1>7. ASSUME NEW q \in Packets, Send(q) \/ Update(q) \/ Insert(q) PROVE Goal
  BY <1>0, <1>7 DEF Send, Update, Insert
<1>8. ASSUME NEW q \in Packets, Recv(q) \/ Classify(q) PROVE Goal
  BY <1>0, <1>8 DEF Recv, Classify
<1>9. ASSUME NEW q \in Packets, Route(q) \/ Forward(q) PROVE Goal
  BY <1>0, <1>9 DEF Route, Forward
<1> QED
  BY <1>1, <1>2, <1>3, <1>4, <1>5, <1>6, <1>7, <1>8, <1>9 DEF Next, Handle

\* What arrives is counted, and no count goes back.
LEMMA ArrivalsGrow ==
    ASSUME TypeOK, TypeOK', [Next]_vars, NEW x \in Incoming
    PROVE  Arrivals(x) \in Nat /\ Arrivals(x)' \in Nat /\ Arrivals(x)' >= Arrivals(x)
<1>1. others \in Nat /\ others' \in Nat /\ others' >= others
  <2>1. others \in Nat
    BY MaxAnswersAssumption DEF TypeOK
  <2>2. others' \in {others, others + 1}
    BY StepEffect
  <2> QED
    BY <2>1, <2>2
<1>2. ASSUME NEW p \in Packets
      PROVE  answers[p] \in Nat /\ answers'[p] \in Nat /\ answers'[p] >= answers[p]
  <2>1. answers' = answers \/ \E q \in Packets : answers' = [answers EXCEPT ![q] = @ + 1]
    BY StepEffect
  <2>2. answers[p] \in Nat /\ answers \in [Packets -> 0 .. MaxAnswers]
    BY MaxAnswersAssumption DEF TypeOK
  <2>3. answers'[p] \in {answers[p], answers[p] + 1}
    BY <2>1, <2>2
  <2> QED
    BY <2>2, <2>3
<1>3. ASSUME NEW p \in Packets PROVE pc'[p] = "idle" => pc[p] = "idle"
  BY StepEffect
<1>4. CASE x = Other
  BY <1>1, <1>4 DEF Arrivals
<1>5. CASE x # Other
  <2>1. PICK p \in Packets, k \in {"chain", "answer"} : x = <<p, k>>
    BY <1>5 DEF Incoming
  <2> QED
    BY <1>2, <1>3, <1>5, <2>1 DEF Arrivals
<1> QED
  BY <1>4, <1>5

\* What came since the socket was opened stays so; opening it is another matter.
LEMMA CameStays ==
    ASSUME TypeOK, TypeOK', [Next]_vars, NEW p \in Packets, missed'[p] = missed[p],
           NEW x \in Incoming, CameSince(p, x)
    PROVE  CameSince(p, x)'
<1>1. Arrivals(x) \in Nat /\ Arrivals(x)' \in Nat /\ Arrivals(x)' >= Arrivals(x)
  BY ArrivalsGrow
<1>2. missed[p][x] \in Nat
  BY DEF TypeOK
<1> QED
  BY <1>1, <1>2 DEF CameSince

\* A datagram that reaches the host and is counted leaves what waits explained.
LEMMA ArriveSince ==
    ASSUME EInv, TypeOK', [Next]_vars, NEW x \in Incoming, Arrive(x), Arrivals(x)' > Arrivals(x),
           UNCHANGED <<got, missed>>, \A p \in Packets : Holds(p)' => Holds(p)
    PROVE  Pending'
<1>1. ASSUME NEW p \in Packets PROVE CameSince(p, x)'
  <2>1. missed[p][x] <= Arrivals(x) /\ missed'[p][x] = missed[p][x] /\ missed[p][x] \in Nat
    BY DEF EInv, MissedPast, TypeOK
  <2>2. Arrivals(x) \in Nat /\ Arrivals(x)' \in Nat
    BY ArrivalsGrow DEF EInv
  <2> QED
    BY <2>1, <2>2 DEF CameSince
<1>2. ASSUME NEW p \in Packets, NEW i \in DOMAIN inbox'[p], NEW y, y = inbox'[p][i]
      PROVE  CameSince(p, y)'
  <2>1. inbox[p] \in Seq(Incoming)
    BY DEF EInv, TypeOK
  <2>2. CASE i \in DOMAIN inbox[p] /\ inbox'[p][i] = inbox[p][i]
    <3>1. y \in Incoming /\ CameSince(p, y)
      BY <1>2, <2>1, <2>2 DEF EInv, Pending
    <3> QED
      BY <3>1, CameStays DEF EInv
  <2>3. CASE y = x
    BY <1>1, <2>3
  <2> QED
    BY <1>2, <2>1, <2>2, <2>3 DEF Arrive
<1>3. ASSUME NEW p \in Packets, NEW y, y = got'[p], Holds(p)'
      PROVE  CameSince(p, y)'
  <2>1. y \in Incoming /\ CameSince(p, y)
    BY <1>3 DEF EInv, Pending, TypeOK, Holds
  <2> QED
    BY <2>1, CameStays DEF EInv
<1> QED
  BY <1>2, <1>3 DEF Pending

\* Initially nothing was received.
LEMMA EInvInit == Init => EInv
<1> SUFFICES ASSUME Init PROVE EInv
  OBVIOUS
<1>1. TypeOK
  BY TypeInit
<1>2. MissedPast
  <2>1. \A p \in Packets, x \in Incoming : missed[p][x] = 0
    BY DEF Init
  <2> QED
    BY <1>1, <2>1, ArrivalsType DEF MissedPast
<1> QED
  BY <1>1, <1>2 DEF Init, EInv, Unopened, Pending, Holds, ForeignAnswerIsExplained

\* A thread opens its socket before anything can be in it.
LEMMA UnopenedNext == EInv /\ [Next]_vars => Unopened'
<1> SUFFICES ASSUME EInv, [Next]_vars, NEW p \in Packets, pc'[p] \in {"idle", "lookup", "open"}
             PROVE  p \notin listening' /\ inbox'[p] = <<>> /\ \A x \in returned' : x.thread # p
  BY DEF Unopened
<1> USE DEF EInv, TypeOK
<1>1. pc[p] \in {"idle", "lookup", "open"} /\ (p \in listening' => p \in listening)
  BY StepEffect
<1>2. p \notin listening /\ inbox[p] = <<>> /\ \A x \in returned : x.thread # p
  BY <1>1 DEF Unopened
<1>3. p \notin listening'
  BY <1>1, <1>2
<1>4. inbox'[p] = <<>>
  BY <1>1, <1>2 DEF Next, vars, Handle, FromChain, Answer, Disturb, Neighbour, Lookup, Open, Send,
         Update, Insert, Recv, Classify, Route, Forward, Race, Arrive
<1>5. \A x \in returned' : x.thread # p
  <2>1. CASE returned' = returned
    BY <1>2, <2>1
  <2>2. ASSUME NEW q \in Packets, Forward(q) PROVE \A x \in returned' : x.thread # p
    <3>1. q # p
      BY <1>1, <2>2 DEF Forward
    <3> QED
      BY <1>2, <2>2, <3>1 DEF Forward
  <2> QED
    BY <2>1, <2>2 DEF Next, vars, Handle, FromChain, Answer, Disturb, Neighbour, Lookup, Open, Send,
         Update, Insert, Recv, Classify, Route, Race
<1> QED
  BY <1>3, <1>4, <1>5

\* What is missed is what has come when the socket is opened.
LEMMA MissedPastNext == EInv /\ TypeOK' /\ [Next]_vars => MissedPast'
<1> SUFFICES ASSUME EInv, TypeOK', [Next]_vars, NEW p \in Packets, NEW x \in Incoming
             PROVE  missed'[p][x] <= Arrivals(x)'
  BY DEF MissedPast
<1>1. missed'[p][x] = missed[p][x] \/ missed'[p][x] = Arrivals(x)
  <2>1. CASE missed' = missed
    BY <2>1
  <2>2. ASSUME NEW q \in Packets, Open(q), missed' # missed
        PROVE  missed'[p][x] = missed[p][x] \/ missed'[p][x] = Arrivals(x)
    <3>1. missed \in [Packets -> [Incoming -> Nat]]
      BY DEF EInv, TypeOK
    <3>2. missed' = [missed EXCEPT ![q] = [y \in Incoming |-> Arrivals(y)]]
      BY <2>2 DEF Open
    <3> HIDE DEF Arrivals
    <3> QED
      BY <3>1, <3>2
  <2> QED
    BY <2>1, <2>2, StepEffect DEF EInv
<1>2. missed[p][x] <= Arrivals(x) /\ missed[p][x] \in Nat
  BY DEF EInv, MissedPast, TypeOK
<1>3. Arrivals(x) \in Nat /\ Arrivals(x)' \in Nat /\ Arrivals(x)' >= Arrivals(x)
  BY ArrivalsGrow DEF EInv
<1> QED
  BY <1>1, <1>2, <1>3

\* A thread whose socket is being opened has nothing that could be explained.
LEMMA MissedIsFixed ==
    ASSUME EInv, [Next]_vars, NEW p \in Packets, missed'[p] # missed[p]
    PROVE  /\ pc[p] = "open" /\ inbox[p] = <<>> /\ \A x \in returned : x.thread # p
           /\ inbox' = inbox /\ returned' = returned /\ ~ Holds(p)'
<1>1. PICK q \in Packets : Open(q) /\ pc' = [pc EXCEPT ![q] = "send"]
  BY StepEffect DEF EInv
<1>2. missed \in [Packets -> [Incoming -> Nat]] /\ pc \in [Packets -> PacketPC]
  BY DEF EInv, TypeOK
<1>3. q = p
  BY <1>1, <1>2 DEF Open
<1>4. pc[p] = "open" /\ UNCHANGED <<inbox, returned>> /\ ~ Holds(p)'
  BY <1>1, <1>2, <1>3 DEF Open, Holds
<1> QED
  BY <1>4 DEF EInv, Unopened

\* No step returns what is not explained.
LEMMA EInvNext == EInv /\ [Next]_vars => EInv'
<1> SUFFICES ASSUME EInv, [Next]_vars
             PROVE  Pending' /\ ForeignAnswerIsExplained'
  BY TypeNext, UnopenedNext, MissedPastNext DEF EInv
<1>1. TypeOK /\ TypeOK'
  BY TypeNext DEF EInv
<1>2. ForeignAnswerIsExplained'
  <2> SUFFICES ASSUME NEW y \in returned' PROVE CameSince(y.thread, y.datagram)'
    BY DEF ForeignAnswerIsExplained
  <2>1. y.thread \in Packets /\ y.datagram \in Incoming
    BY <1>1 DEF TypeOK
  <2>2. CASE y \in returned
    <3>1. CameSince(y.thread, y.datagram)
      BY <2>2 DEF EInv, ForeignAnswerIsExplained
    <3>2. missed'[y.thread] = missed[y.thread]
      BY <2>1, <2>2, MissedIsFixed
    <3> QED
      BY <1>1, <2>1, <3>1, <3>2, CameStays
  <2>3. CASE y \notin returned
    <3>1. PICK p \in Packets : Forward(p)
      BY <2>3 DEF Next, vars, Handle, FromChain, Answer, Disturb, Neighbour, Lookup, Open, Send,
             Update, Insert, Recv, Classify, Route, Race
    <3>2. y.thread = p /\ y.datagram = got[p] /\ Holds(p) /\ missed' = missed
      BY <2>3, <3>1 DEF Forward, Holds
    <3>3. CameSince(y.thread, y.datagram)
      BY <3>2 DEF EInv, Pending
    <3> QED
      BY <1>1, <2>1, <3>2, <3>3, CameStays
  <2> QED
    BY <2>2, <2>3
<1>3. CASE UNCHANGED <<inbox, got>> /\ \A p \in Packets : Holds(p)' => Holds(p)
  <2>1. ASSUME NEW p \in Packets, NEW i \in DOMAIN inbox'[p], NEW y, y = inbox'[p][i]
        PROVE  CameSince(p, y)'
    <3>1. y \in Incoming /\ CameSince(p, y)
      BY <1>1, <1>3, <2>1 DEF EInv, Pending, TypeOK
    <3>2. missed'[p] = missed[p]
      BY <1>3, <2>1, MissedIsFixed
    <3> QED
      BY <1>1, <3>1, <3>2, CameStays
  <2>2. ASSUME NEW p \in Packets, NEW y, y = got'[p], Holds(p)'
        PROVE  CameSince(p, y)'
    <3>1. y \in Incoming /\ CameSince(p, y)
      BY <1>1, <1>3, <2>2 DEF EInv, Pending, TypeOK, Holds
    <3>2. missed'[p] = missed[p]
      BY <2>2, MissedIsFixed
    <3> QED
      BY <1>1, <3>1, <3>2, CameStays
  <2> QED
    BY <1>2, <2>1, <2>2 DEF Pending
<1>4. ASSUME NEW p \in Packets, FromChain(p) PROVE Pending'
  <2>1. <<p, "chain">> \in Incoming /\ UNCHANGED <<got, missed>> /\ Arrive(<<p, "chain">>)
        /\ \A q \in Packets : Holds(q)' => Holds(q)
    BY <1>1, <1>4 DEF FromChain, Incoming, Holds, TypeOK
  <2>2. Arrivals(<<p, "chain">>)' > Arrivals(<<p, "chain">>)
    BY <1>1, <1>4 DEF Arrivals, Other, FromChain, TypeOK
  <2> QED
    BY <1>1, <2>1, <2>2, ArriveSince
<1>5. ASSUME NEW p \in Packets, Answer(p) PROVE Pending'
  <2>1. <<p, "answer">> \in Incoming /\ UNCHANGED <<got, missed>> /\ Arrive(<<p, "answer">>)
        /\ \A q \in Packets : Holds(q)' => Holds(q)
    BY <1>1, <1>5 DEF Answer, Incoming, Holds, TypeOK
  <2>2. Arrivals(<<p, "answer">>)' > Arrivals(<<p, "answer">>)
    BY <1>1, <1>5, MaxAnswersAssumption DEF Arrivals, Other, Answer, TypeOK
  <2> QED
    BY <1>1, <2>1, <2>2, ArriveSince
<1>6. CASE Disturb
  <2>1. Other \in Incoming /\ UNCHANGED <<got, missed>> /\ Arrive(Other)
        /\ \A q \in Packets : Holds(q)' => Holds(q)
    BY <1>1, <1>6 DEF Disturb, Incoming, Holds, TypeOK
  <2>2. Arrivals(Other)' > Arrivals(Other)
    BY <1>1, <1>6, MaxAnswersAssumption DEF Arrivals, Other, Disturb, TypeOK
  <2> QED
    BY <1>1, <1>2, <2>1, <2>2, ArriveSince
<1>7. ASSUME NEW p \in Packets, Recv(p), pc' # pc PROVE Pending'
  <2>1. /\ inbox[p] # <<>> /\ missed' = missed
        /\ got' = [got EXCEPT ![p] = Head(inbox[p])]
        /\ inbox' = [inbox EXCEPT ![p] = Tail(@)]
    BY <1>7 DEF Recv
  <2>2. inbox[p] \in Seq(Incoming)
    BY <1>1 DEF TypeOK
  <2>3. 1 \in DOMAIN inbox[p] /\ Head(inbox[p]) = inbox[p][1]
    BY <2>1, <2>2
  <2>4. \A i \in DOMAIN Tail(inbox[p]) :
            i + 1 \in DOMAIN inbox[p] /\ Tail(inbox[p])[i] = inbox[p][i + 1]
    BY <2>1, <2>2
  <2>5. \A q \in Packets : \A i \in DOMAIN inbox'[q] :
            \E j \in DOMAIN inbox[q] : inbox'[q][i] = inbox[q][j]
    BY <1>1, <2>1, <2>4 DEF TypeOK
  <2>6. ASSUME NEW q \in Packets, NEW j \in DOMAIN inbox[q], NEW y, y = inbox[q][j]
        PROVE  CameSince(q, y)'
    <3>1. y \in Incoming /\ CameSince(q, y)
      BY <1>1, <2>6 DEF EInv, Pending, TypeOK
    <3> QED
      BY <1>1, <2>1, <3>1, CameStays
  <2>7. ASSUME NEW q \in Packets, NEW y, y = got'[q], Holds(q)'
        PROVE  CameSince(q, y)'
    <3>1. (y = got[q] /\ Holds(q)) \/ (q = p /\ y = inbox[p][1])
      BY <1>1, <1>7, <2>1, <2>3, <2>7 DEF TypeOK, Recv, Holds
    <3>2. CASE y = got[q] /\ Holds(q)
      <4>1. y \in Incoming /\ CameSince(q, y)
        BY <1>1, <3>2 DEF EInv, Pending, TypeOK, Holds
      <4> QED
        BY <1>1, <2>1, <4>1, CameStays
    <3> QED
      BY <2>3, <2>6, <3>1, <3>2
  <2>8. ASSUME NEW q \in Packets, NEW i \in DOMAIN inbox'[q], NEW y, y = inbox'[q][i]
        PROVE  CameSince(q, y)'
    BY <2>5, <2>6, <2>8
  <2> QED
    BY <2>7, <2>8 DEF Pending
<1>8. ASSUME NEW p \in Packets,
             Lookup(p) \/ Open(p) \/ Send(p) \/ Update(p) \/ Insert(p) \/ Classify(p)
             \/ Route(p) \/ Forward(p) \/ (Recv(p) /\ pc' = pc)
      PROVE  Pending'
  <2>1. UNCHANGED <<inbox, got>>
    BY <1>1, <1>8 DEF Lookup, Open, Send, Update, Insert, Recv, Classify, Route, Forward, TypeOK
  <2>2. \/ pc' = pc
        \/ \E l \in PacketPC : /\ pc' = [pc EXCEPT ![p] = l]
                               /\ l \in {"classify", "route", "forward"} => Holds(p)
    BY <1>1, <1>8 DEF Lookup, Open, Send, Update, Insert, Recv, Classify, Route, Forward, Holds,
           TypeOK, PacketPC
  <2>3. \A q \in Packets : Holds(q)' => Holds(q)
    BY <1>1, <2>2 DEF Holds, TypeOK
  <2> QED
    BY <1>3, <2>1, <2>3
<1>9. CASE Race \/ Neighbour \/ UNCHANGED vars
  BY <1>3, <1>9 DEF Race, Neighbour, vars, Holds
<1>10. Pending'
  BY <1>4, <1>5, <1>6, <1>7, <1>8, <1>9 DEF Next, Handle
<1> QED
  BY <1>2, <1>10

\* Whatever a thread returns as the answer to its packet reached the host after the
\* thread had opened its socket; so it is never the packet that it was started for.
THEOREM ForeignAnswersExplained == Spec => []ForeignAnswerIsExplained
<1>1. EInv => ForeignAnswerIsExplained
  BY DEF EInv
<1> QED
  BY <1>1, EInvInit, EInvNext, PTL DEF Spec

=============================================================================
