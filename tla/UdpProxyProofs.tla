--------------------------- MODULE UdpProxyProofs ---------------------------
(***************************************************************************)
(* Proofs about the UDP proxy as a whole and the std::map in which its     *)
(* endpoints keep their connections.                                       *)
(*                                                                         *)
(* First the keys of the map (ConnectionEntry): what operator< is on keys  *)
(* that cross and on keys that do not.  Then the tree (StdMapTree): what   *)
(* find answers on any keys and on ordered ones, and that the tree is the  *)
(* map that Endpoint models its tables as when the keys are ordered, which *)
(* UdpProxy assumes of its flows.  Last the proxy (UdpProxy), for any      *)
(* number of datagrams, replies, packets and restarts: an answer that a    *)
(* client is given went all the way through the egress, and the egress     *)
(* never updates an entry of roulette that went away for another reason    *)
(* than an answer of its flow.                                             *)
(***************************************************************************)
EXTENDS UdpProxy, StdMapTree, SequenceTheorems, TLAPS

-----------------------------------------------------------------------------
(* The keys. *)

\* std::map takes two connection entries for the same key exactly when
\* ConnectionEntry::operator== does, whatever their fields are: a find never
\* answers with the record of another connection.
THEOREM EquivalentIsSame == \A a, b \in Entry : Equivalent(a, b) <=> Same(a, b)
<1> SUFFICES ASSUME NEW a \in Entry, NEW b \in Entry
             PROVE  Equivalent(a, b) <=> Same(a, b)
  OBVIOUS
<1>1. ASSUME NEW i \in Fields
      PROVE  a[i] = b[i] <=> ~ (a[i] < b[i]) /\ ~ (b[i] < a[i])
  <2>1. a[i] \in Nat /\ b[i] \in Nat
    BY DEF Entry
  <2> QED
    BY <2>1
<1> QED
  BY <1>1 DEF Equivalent, Same, Less

\* Two entries of which neither crosses the other are ordered field by field.
LEMMA LessIsDominance ==
    ASSUME NEW a \in Entry, NEW b \in Entry, ~ Crossing(a, b), Less(a, b)
    PROVE  \A i \in Fields : a[i] <= b[i]
<1> SUFFICES ASSUME NEW i \in Fields PROVE a[i] <= b[i]
  OBVIOUS
<1>1. a[i] \in Nat /\ b[i] \in Nat
  BY DEF Entry
<1>2. ~ (b[i] < a[i])
  BY DEF Crossing, Less
<1> QED
  BY <1>1, <1>2

\* On keys that do not cross, operator< is the strict total order that std::map
\* requires (connectionentry.h:47-48).
THEOREM OrderedKeysAreTotallyOrdered ==
    ASSUME NEW S \in SUBSET Entry, Ordered(S)
    PROVE  /\ \A a \in S : ~ Less(a, a)
           /\ \A a, b, c \in S : Less(a, b) /\ Less(b, c) => Less(a, c)
           /\ \A a, b \in S : a = b \/ Less(a, b) \/ Less(b, a)
<1>1. \A a \in S : ~ Less(a, a)
  BY DEF Less, Entry
<1>2. ASSUME NEW a \in S, NEW b \in S, NEW c \in S, Less(a, b), Less(b, c)
      PROVE  Less(a, c)
  <2>1. PICK i \in Fields : a[i] < b[i]
    BY <1>2 DEF Less
  <2>2. b[i] <= c[i]
    BY <1>2, LessIsDominance DEF Ordered
  <2>3. a[i] \in Nat /\ b[i] \in Nat /\ c[i] \in Nat
    BY DEF Entry
  <2> QED
    BY <2>1, <2>2, <2>3 DEF Less
<1>3. ASSUME NEW a \in S, NEW b \in S, ~ Less(a, b), ~ Less(b, a)
      PROVE  a = b
  <2>1. Same(a, b)
    BY <1>3, EquivalentIsSame DEF Equivalent
  <2> QED
    BY <2>1 DEF Same, Entry
<1> QED
  BY <1>1, <1>2, <1>3

-----------------------------------------------------------------------------
(* The tree. *)

\* The root has at most one node on either side.
Shape == nodes # <<>> => root <= Len(nodes) /\ root <= 2 /\ Len(nodes) <= root + 1

\* On keys that operator< orders, the nodes are in its order.
Sorted == Ordered(keys) => \A i, j \in DOMAIN nodes : i < j => Less(Key(i), Key(j))

MapInv == TypeOK /\ Shape /\ Sorted

\* The elements of a sequence.
LEMMA SeqElement == ASSUME NEW S, NEW s \in Seq(S), NEW i \in 1 .. Len(s) PROVE s[i] \in S
  OBVIOUS

\* What the type and the shape say of the positions.
LEMMA Positions ==
    ASSUME TypeOK, Shape
    PROVE  /\ keys \subseteq Entry
           /\ Len(nodes) \in Nat /\ Len(nodes) <= 3 /\ DOMAIN nodes = 1 .. Len(nodes)
           /\ End = Len(nodes) + 1
           /\ nodes = <<>> <=> Len(nodes) = 0
           /\ \A i \in 1 .. Len(nodes) : Key(i) \in keys /\ nodes[i] \in [key : keys, val : Values]
           /\ root \in 1 .. 3
           /\ nodes # <<>> => /\ root \in 1 .. Len(nodes)
                              /\ \A i \in 1 .. Len(nodes) : i = root - 1 \/ i = root \/ i = root + 1
                              /\ root - 1 \in 0 .. 1 /\ Len(nodes) - root \in 0 .. 1
<1>1. nodes \in Seq([key : keys, val : Values]) /\ root \in 1 .. 3 /\ Len(nodes) \in 0 .. 3
  BY DEF TypeOK, MapCapacity
<1>2. keys \subseteq Entry
  BY KeysAssumption DEF TypeOK, Keys
<1>3. \A i \in 1 .. Len(nodes) : nodes[i] \in [key : keys, val : Values]
  BY <1>1, SeqElement
<1>4. \A i \in 1 .. Len(nodes) : Key(i) \in keys
  BY <1>3 DEF Key
<1>5. nodes = <<>> <=> Len(nodes) = 0
  BY <1>1
<1>6. ASSUME nodes # <<>>
      PROVE  /\ root \in 1 .. Len(nodes)
             /\ \A i \in 1 .. Len(nodes) : i = root - 1 \/ i = root \/ i = root + 1
             /\ root - 1 \in 0 .. 1 /\ Len(nodes) - root \in 0 .. 1
  BY <1>1, <1>6 DEF Shape
<1> QED
  BY <1>1, <1>2, <1>3, <1>4, <1>5, <1>6 DEF End

\* Entries with the same fields are the same.
LEMMA SameIsEqual == \A a, b \in Entry : Same(a, b) => a = b
  BY DEF Same, Entry

\* Where the descent of lower_bound ends: no node there is less than k.
LEMMA LowerBoundStops ==
    ASSUME TypeOK, Shape, NEW k
    PROVE  /\ LowerBound(k) \in 1 .. Len(nodes) + 1
           /\ LowerBound(k) # End => ~ Less(Key(LowerBound(k)), k)
  BY Positions DEF LowerBound, LowerIn

\* operator< on keys that do not cross.
LEMMA OrderOfKeys ==
    ASSUME TypeOK, Ordered(keys)
    PROVE  /\ \A a \in keys : ~ Less(a, a)
           /\ \A a, b, c \in keys : Less(a, b) /\ Less(b, c) => Less(a, c)
           /\ \A a, b \in keys : a = b \/ Less(a, b) \/ Less(b, a)
<1>1. keys \in SUBSET Entry
  BY KeysAssumption DEF TypeOK, Keys
<1> QED
  BY <1>1, OrderedKeysAreTotallyOrdered

\* lower_bound splits the nodes of a sorted tree.
LEMMA LowerBoundSplits ==
    ASSUME MapInv, Ordered(keys), NEW k \in keys, NEW i \in 1 .. Len(nodes)
    PROVE  i < LowerBound(k) <=> Less(Key(i), k)
<1> DEFINE n == Len(nodes)
<1>1. /\ n \in Nat /\ nodes # <<>> /\ root \in 1 .. n
      /\ \A j \in 1 .. n : Key(j) \in keys /\ (j = root - 1 \/ j = root \/ j = root + 1)
      /\ root - 1 \in 0 .. 1 /\ n - root \in 0 .. 1 /\ End = n + 1
  BY Positions DEF MapInv
<1>2. \A a, b \in 1 .. n : a < b => Less(Key(a), Key(b))
  BY <1>1, Positions DEF MapInv, Sorted
<1>3. /\ \A a, b, c \in keys : Less(a, b) /\ Less(b, c) => Less(a, c)
      /\ \A a \in keys : ~ Less(a, a)
  BY OrderOfKeys DEF MapInv
<1>4. CASE Less(Key(root), k)
  BY <1>1, <1>2, <1>3, <1>4 DEF LowerBound, LowerIn
<1>5. CASE ~ Less(Key(root), k)
  <2>1. \A j \in 1 .. n : j >= root => ~ Less(Key(j), k)
    BY <1>1, <1>2, <1>3, <1>5
  <2> QED
  BY <1>1, <2>1, <1>5 DEF LowerBound, LowerIn
<1> QED
  BY <1>4, <1>5

\* upper_bound splits them as well.
LEMMA UpperBoundSplits ==
    ASSUME MapInv, Ordered(keys), NEW k \in keys
    PROVE  /\ UpperBound(k) \in 1 .. Len(nodes) + 1
           /\ \A i \in 1 .. Len(nodes) : i < UpperBound(k) <=> ~ Less(k, Key(i))
<1> DEFINE n == Len(nodes)
<1>0. CASE nodes = <<>>
  BY <1>0, Positions DEF UpperBound, MapInv
<1>1. CASE nodes # <<>>
  <2>1. /\ n \in Nat /\ nodes # <<>> /\ root \in 1 .. n
        /\ \A j \in 1 .. n : Key(j) \in keys /\ (j = root - 1 \/ j = root \/ j = root + 1)
        /\ root - 1 \in 0 .. 1 /\ n - root \in 0 .. 1 /\ End = n + 1
    BY <1>1, Positions DEF MapInv
  <2>2. \A a, b \in 1 .. n : a < b => Less(Key(a), Key(b))
    BY <2>1, Positions DEF MapInv, Sorted
  <2>3. /\ \A a, b, c \in keys : Less(a, b) /\ Less(b, c) => Less(a, c)
        /\ \A a \in keys : ~ Less(a, a)
    BY OrderOfKeys DEF MapInv
  <2>4. CASE Less(k, Key(root))
    <3>1. \A j \in 1 .. n : j >= root => Less(k, Key(j))
      BY <2>1, <2>2, <2>3, <2>4
    <3> QED
      BY <2>1, <3>1, <2>4 DEF UpperBound, UpperIn
  <2>5. CASE ~ Less(k, Key(root))
    <3>1. \A j \in 1 .. n : j <= root => ~ Less(k, Key(j))
      BY <2>1, <2>2, <2>3, <2>5
    <3> QED
      BY <2>1, <3>1, <2>5 DEF UpperBound, UpperIn
  <2> QED
    BY <2>4, <2>5
<1> QED
  BY <1>0, <1>1

\* The record that find answers with is the record of the key.
LEMMA FindSound == TypeOK /\ Shape => FindIsSound
<1> SUFFICES ASSUME TypeOK, Shape, NEW k \in keys, FindPos(k) # End
             PROVE  Same(Key(FindPos(k)), k)
  BY DEF FindIsSound
<1> DEFINE p == FindPos(k)
<1>1. p = LowerBound(k) /\ ~ Less(k, Key(p))
  BY DEF FindPos
<1>2. p \in 1 .. Len(nodes) /\ ~ Less(Key(p), k)
  BY <1>1, LowerBoundStops, Positions
<1>3. Key(p) \in Entry /\ k \in Entry
  BY <1>2, Positions
<1> QED
  BY <1>1, <1>2, <1>3, EquivalentIsSame DEF Equivalent

\* A stored key is found where it is.
LEMMA FindPosition ==
    ASSUME MapInv, Ordered(keys), NEW i \in 1 .. Len(nodes)
    PROVE  FindPos(Key(i)) = i
<1> DEFINE k == Key(i)
<1>1. k \in keys /\ Len(nodes) \in Nat /\ End = Len(nodes) + 1 /\ DOMAIN nodes = 1 .. Len(nodes)
  BY Positions DEF MapInv
<1>2. ~ Less(k, k)
  BY <1>1, OrderOfKeys DEF MapInv
<1>3. \A j \in 1 .. Len(nodes) : j < i => Less(Key(j), k)
  BY <1>1 DEF MapInv, Sorted
<1>4. \A j \in 1 .. Len(nodes) : j < LowerBound(k) <=> Less(Key(j), k)
  BY <1>1, LowerBoundSplits
<1>5. LowerBound(k) \in 1 .. Len(nodes) + 1
  BY LowerBoundStops DEF MapInv
<1>6. LowerBound(k) = i
  BY <1>1, <1>2, <1>3, <1>4, <1>5
<1> QED
  BY <1>1, <1>2, <1>6 DEF FindPos

\* A key that is found is found at a node of it, and a key that is stored is found.
LEMMA FindComplete == MapInv => FindIsComplete
<1> SUFFICES ASSUME MapInv, Ordered(keys), NEW k \in Stored PROVE FindPos(k) # End
  BY DEF FindIsComplete
<1>1. PICK i \in DOMAIN nodes : k = Key(i)
  BY DEF Stored, Key
<1> QED
  BY <1>1, FindPosition, Positions DEF MapInv

-----------------------------------------------------------------------------
(* The operations keep the invariant. *)

\* Initially the tree is empty.
LEMMA MapInvInit == MapInit => MapInv
  BY DEF MapInit, MapInv, TypeOK, MapCapacity, Shape, Sorted

\* What insert makes of the sequence of nodes, element by element.
Inserted(s, g, e) == SubSeq(s, 1, g - 1) \o <<e>> \o SubSeq(s, g, Len(s))

Inserts(S, s, g, e, t) ==
    /\ t \in Seq(S) /\ Len(t) = Len(s) + 1
    /\ \A i \in 1 .. Len(s) + 1 : t[i] = IF i < g THEN s[i] ELSE IF i = g THEN e ELSE s[i - 1]

\* Inserted puts e at the place g and moves the rest up.
LEMMA InsertElements ==
    ASSUME NEW S, NEW s \in Seq(S), NEW e \in S,
           NEW g \in 1 .. Len(s) + 1
    PROVE  Inserts(S, s, g, e, Inserted(s, g, e))
<1>1. /\ SubSeq(s, 1, g - 1) \in Seq(S) /\ Len(SubSeq(s, 1, g - 1)) = g - 1
      /\ \A i \in 1 .. g - 1 : SubSeq(s, 1, g - 1)[i] = s[i]
  OBVIOUS
<1>2. /\ SubSeq(s, g, Len(s)) \in Seq(S) /\ Len(SubSeq(s, g, Len(s))) = Len(s) - g + 1
      /\ \A i \in 1 .. Len(s) - g + 1 : SubSeq(s, g, Len(s))[i] = s[g + i - 1]
  OBVIOUS
<1> DEFINE l == SubSeq(s, 1, g - 1)
           m == <<e>>
           r == SubSeq(s, g, Len(s))
<1>3. m \in Seq(S) /\ Len(m) = 1 /\ m[1] = e
  OBVIOUS
<1>4. /\ l \o m \in Seq(S) /\ Len(l \o m) = g
      /\ \A i \in 1 .. g : (l \o m)[i] = IF i < g THEN s[i] ELSE e
  <2> HIDE DEF l, m, r
  <2>1. l \in Seq(S) /\ Len(l) = g - 1 /\ \A i \in 1 .. g - 1 : l[i] = s[i]
    BY <1>1 DEF l
  <2>2. m \in Seq(S) /\ Len(m) = 1 /\ m[1] = e
    BY <1>3 DEF m
  <2>3. /\ l \o m \in Seq(S) /\ Len(l \o m) = Len(l) + Len(m)
        /\ \A i \in 1 .. Len(l) + Len(m) :
              (l \o m)[i] = IF i <= Len(l) THEN l[i] ELSE m[i - Len(l)]
    BY <2>1, <2>2, ConcatProperties
  <2>4. Len(l) + Len(m) = g
    BY <2>1, <2>2
  <2>5. \A i \in 1 .. g : (l \o m)[i] = IF i < g THEN s[i] ELSE e
    BY <2>1, <2>2, <2>3, <2>4
  <2> QED
    BY <2>3, <2>4, <2>5
<1>5. /\ (l \o m) \o r \in Seq(S) /\ Len((l \o m) \o r) = Len(s) + 1
      /\ \A i \in 1 .. Len(s) + 1 :
            ((l \o m) \o r)[i] = IF i < g THEN s[i] ELSE IF i = g THEN e ELSE s[i - 1]
  <2> DEFINE q == l \o m
  <2> HIDE DEF l, m, r, q
  <2>1. /\ r \in Seq(S) /\ Len(r) = Len(s) - g + 1
        /\ \A i \in 1 .. Len(s) - g + 1 : r[i] = s[g + i - 1]
    BY <1>2 DEF r
  <2>2. q \in Seq(S) /\ Len(q) = g /\ \A i \in 1 .. g : q[i] = IF i < g THEN s[i] ELSE e
    BY <1>4 DEF q
  <2>3. /\ q \o r \in Seq(S) /\ Len(q \o r) = Len(q) + Len(r)
        /\ \A i \in 1 .. Len(q) + Len(r) :
              (q \o r)[i] = IF i <= Len(q) THEN q[i] ELSE r[i - Len(q)]
    BY <2>1, <2>2, ConcatProperties
  <2>4. q \o r \in Seq(S) /\ Len(q \o r) = Len(s) + 1
    BY <2>1, <2>2, <2>3
  <2>5. \A i \in 1 .. Len(s) + 1 :
            (q \o r)[i] = IF i < g THEN s[i] ELSE IF i = g THEN e ELSE s[i - 1]
    BY <2>1, <2>2, <2>3
  <2> QED
    BY <2>4, <2>5 DEF q, r
<1> QED
  BY <1>5 DEF Inserted, Inserts

\* What erase makes of it.
Erased(s, a, b) == SubSeq(s, 1, a - 1) \o SubSeq(s, b, Len(s))

Erases(S, s, a, b, t) ==
    /\ t \in Seq(S) /\ Len(t) = Len(s) - (b - a)
    /\ \A i \in 1 .. Len(s) - (b - a) : t[i] = IF i < a THEN s[i] ELSE s[i + (b - a)]

\* Erased takes the places from a to b - 1 out and moves the rest down.
LEMMA EraseElements ==
    ASSUME NEW S, NEW s \in Seq(S), NEW a \in 1 .. Len(s) + 1, NEW b \in a .. Len(s) + 1
    PROVE  Erases(S, s, a, b, Erased(s, a, b))
<1>1. /\ SubSeq(s, 1, a - 1) \in Seq(S) /\ Len(SubSeq(s, 1, a - 1)) = a - 1
      /\ \A i \in 1 .. a - 1 : SubSeq(s, 1, a - 1)[i] = s[i]
  OBVIOUS
<1>2. /\ SubSeq(s, b, Len(s)) \in Seq(S) /\ Len(SubSeq(s, b, Len(s))) = Len(s) - b + 1
      /\ \A i \in 1 .. Len(s) - b + 1 : SubSeq(s, b, Len(s))[i] = s[b + i - 1]
  OBVIOUS
<1> DEFINE l == SubSeq(s, 1, a - 1)
           r == SubSeq(s, b, Len(s))
<1> HIDE DEF l, r
<1>3. /\ l \o r \in Seq(S) /\ Len(l \o r) = Len(l) + Len(r)
      /\ \A i \in 1 .. Len(l) + Len(r) :
            (l \o r)[i] = IF i <= Len(l) THEN l[i] ELSE r[i - Len(l)]
  BY <1>1, <1>2, ConcatProperties DEF l, r
<1>4. Len(l) = a - 1 /\ Len(r) = Len(s) - b + 1 /\ Len(s) \in Nat
  BY <1>1, <1>2 DEF l, r
<1>5. Len(l) + Len(r) = Len(s) - (b - a)
  BY <1>4
<1>6. ASSUME NEW i \in 1 .. Len(s) - (b - a)
      PROVE  (l \o r)[i] = IF i < a THEN s[i] ELSE s[i + (b - a)]
  <2>1. (l \o r)[i] = IF i < a THEN l[i] ELSE r[i - (a - 1)]
    BY <1>3, <1>4, <1>5
  <2>2. CASE i < a
    BY <2>1, <2>2, <1>1 DEF l
  <2>3. CASE ~ (i < a)
    <3>1. i - (a - 1) \in 1 .. Len(s) - b + 1 /\ b + (i - (a - 1)) - 1 = i + (b - a)
      BY <2>3, <1>4
    <3>2. r[i - (a - 1)] = s[b + (i - (a - 1)) - 1]
      BY <1>2, <3>1 DEF r
    <3> QED
      BY <2>1, <2>3, <3>1, <3>2
  <2> QED
    BY <2>2, <2>3
<1>7. Erased(s, a, b) = l \o r
  BY DEF l, r, Erased
<1>8. l \o r \in Seq(S) /\ Len(l \o r) = Len(s) - (b - a)
  BY <1>3, <1>5
<1> QED
  BY <1>6, <1>7, <1>8 DEF Erases

\* The range that erase removes.
LEMMA RangeBounds ==
    ASSUME TypeOK, Shape, NEW k
    PROVE  /\ EqualRange(k)[1] \in 1 .. Len(nodes) + 1
           /\ EqualRange(k)[2] \in EqualRange(k)[1] .. Len(nodes) + 1
           /\ \E a, b : EqualRange(k) = <<a, b>>
  BY Positions DEF EqualRange, RangeIn, LowerIn, UpperIn

\* On keys that do not cross it is the node of the key, if there is one.
LEMMA RangeIsNode ==
    ASSUME MapInv, Ordered(keys), NEW k \in keys
    PROVE  \/ EqualRange(k)[2] = EqualRange(k)[1] /\ k \notin Stored
           \/ /\ EqualRange(k)[2] = EqualRange(k)[1] + 1
              /\ EqualRange(k)[1] \in 1 .. Len(nodes) /\ Key(EqualRange(k)[1]) = k
<1> DEFINE n == Len(nodes)
<1>0. CASE nodes = <<>>
  BY <1>0, Positions DEF EqualRange, MapInv, Stored
<1>1. CASE nodes # <<>>
  <2>9. DOMAIN nodes = 1 .. n
    BY Positions DEF MapInv
  <2>1. /\ n \in Nat /\ nodes # <<>> /\ root \in 1 .. n
        /\ \A j \in 1 .. n : Key(j) \in keys /\ (j = root - 1 \/ j = root \/ j = root + 1)
        /\ root - 1 \in 0 .. 1 /\ n - root \in 0 .. 1 /\ End = n + 1
    BY <1>1, Positions DEF MapInv
  <2>8. (root = 1 \/ root = 2) /\ (n = root \/ n = root + 1) /\ Key(root) \in keys
    <3> HIDE DEF n
    <3> QED
      BY <2>1
  <2>2. \A a, b \in 1 .. n : a < b => Less(Key(a), Key(b))
    BY <2>1, <2>9 DEF MapInv, Sorted
  <2>3. /\ \A a, b, c \in keys : Less(a, b) /\ Less(b, c) => Less(a, c)
        /\ \A a \in keys : ~ Less(a, a)
        /\ \A a, b \in keys : a = b \/ Less(a, b) \/ Less(b, a)
    BY OrderOfKeys DEF MapInv
  <2>4. Stored = {Key(i) : i \in 1 .. n}
    BY <2>9 DEF Stored, Key
  <2>5. CASE Less(Key(root), k)
    <3>1. EqualRange(k) = RangeIn(root + 1, n, n + 1, k)
      BY <2>1, <2>5 DEF EqualRange
    <3>2. ASSUME NEW j \in 1 .. n, j <= root PROVE Key(j) # k
      <4>1. j = root \/ (j < root /\ root \in 1 .. n)
        <5> HIDE DEF n
        <5> QED
          BY <2>1, <3>2
      <4>3. j = root \/ Less(Key(j), Key(root))
        BY <2>2, <4>1
      <4>2. Key(j) \in keys /\ Key(root) \in keys
        BY <2>1
      <4> QED
        BY <2>3, <2>5, <4>3, <4>2
    <3>3. CASE n = root
      <4>1. RangeIn(root + 1, n, n + 1, k) = <<n + 1, n + 1>>
        BY <2>1, <3>3 DEF RangeIn
      <4> QED
        BY <2>1, <2>4, <3>1, <3>2, <3>3, <4>1
    <3>4. CASE n = root + 1
      <4>1. n = root + 1 /\ ~ (root + 1 > n)
        BY <2>1, <3>4
      <4>2. CASE Key(n) = k
        <5>1. RangeIn(root + 1, n, n + 1, k) = <<n, n + 1>>
          BY <2>1, <2>3, <4>1, <4>2 DEF RangeIn
        <5> QED
          BY <2>8, <3>1, <3>4, <4>2, <5>1, <2>1
      <4>3. CASE Key(n) # k
        <5>1. RangeIn(root + 1, n, n + 1, k)[1] = RangeIn(root + 1, n, n + 1, k)[2]
          BY <2>1, <2>3, <4>1, <4>3 DEF RangeIn
        <5>2. k \notin Stored
          BY <2>1, <2>4, <3>2, <3>4, <4>3
        <5> QED
          BY <3>1, <5>1, <5>2
      <4> QED
        BY <4>2, <4>3
    <3> QED
      BY <2>8, <3>3, <3>4
  <2>6. CASE Less(k, Key(root)) /\ ~ Less(Key(root), k)
    BY <2>1, <2>2, <2>3, <2>4, <2>6 DEF EqualRange, RangeIn
  <2>7. CASE k = Key(root)
    <3>1. LowerIn(1, root - 1, root, k) = root
      <4>1. CASE root = 1
        BY <4>1 DEF LowerIn
      <4>2. CASE root = 2
        <5>1. Less(Key(1), k)
          BY <2>1, <2>2, <2>7, <4>2
        <5> QED
          BY <4>2, <5>1 DEF LowerIn
      <4> QED
        BY <2>8, <4>1, <4>2
    <3>2. UpperIn(root + 1, n, End, k) = root + 1
      <4>1. CASE n = root
        BY <2>1, <4>1 DEF UpperIn
      <4>2. CASE n = root + 1
        <5>1. Less(k, Key(n))
          BY <2>1, <2>2, <2>7, <4>2
        <5> QED
          BY <2>1, <4>2, <5>1 DEF UpperIn
      <4> QED
        BY <2>8, <4>1, <4>2
    <3> QED
      BY <2>1, <2>3, <2>7, <3>1, <3>2 DEF EqualRange
  <2> QED
    BY <2>1, <2>3, <2>5, <2>6, <2>7
<1> QED
  BY <1>0, <1>1

\* A descent changes nothing but the answer; insert and erase keep the type, the
\* shape and the order.
LEMMA FindKeeps ==
    ASSUME MapInv, NEW k \in keys, Find(k), keys' = keys
    PROVE  MapInv'
<1>1. answer' \in Values \union {Missing}
  <2>1. CASE FindPos(k) = End
    BY <2>1 DEF Find
  <2>2. CASE FindPos(k) # End
    <3>1. FindPos(k) \in 1 .. Len(nodes)
      BY <2>2, LowerBoundStops, Positions DEF FindPos, MapInv
    <3> QED
      BY <2>2, <3>1, Positions DEF Find, MapInv
  <2> QED
    BY <2>1, <2>2
<1> QED
  BY <1>1 DEF Find, MapInv, TypeOK, Shape, Sorted, Key

\* The gap that insert takes.
LEMMA GapBounds ==
    ASSUME TypeOK, Shape, NEW k
    PROVE  UniqueGap(k) \in 1 .. Len(nodes) + 1
  BY Positions DEF UniqueGap, UpperBound, UpperIn

\* A new node goes between the nodes that are less than its key and those that it
\* is less than.
LEMMA InsertGap ==
    ASSUME MapInv, Ordered(keys), NEW k \in keys, Fits(UniqueGap(k), k)
    PROVE  /\ \A a \in 1 .. Len(nodes) : a < UniqueGap(k) => Less(Key(a), k)
           /\ \A a \in 1 .. Len(nodes) : a >= UniqueGap(k) => Less(k, Key(a))
<1> DEFINE g == UniqueGap(k)
           n == Len(nodes)
<1>1. \A a, b \in 1 .. n : a < b => Less(Key(a), Key(b))
  BY Positions DEF MapInv, Sorted
<1>2. /\ \A a, b, c \in keys : Less(a, b) /\ Less(b, c) => Less(a, c)
      /\ \A a \in 1 .. n : Key(a) \in keys
  BY OrderOfKeys, Positions DEF MapInv
<1>3. g \in 1 .. n + 1 /\ n \in Nat
  BY GapBounds, Positions DEF MapInv
<1>4. \A a \in 1 .. n : a >= g => Less(k, Key(a))
  BY <1>3, UpperBoundSplits DEF UniqueGap
<1>5. ASSUME NEW a \in 1 .. n, a < g PROVE Less(Key(a), k)
  <2>1. Less(Key(g - 1), k) /\ g - 1 \in 1 .. n
    BY <1>3, <1>5 DEF Fits
  <2>2. a = g - 1 \/ a < g - 1
    BY <1>3, <1>5
  <2> QED
    BY <1>1, <1>2, <2>1, <2>2
<1> QED
  BY <1>4, <1>5

\* The nodes that insert leaves.
LEMMA InsertNodes ==
    ASSUME MapInv, NEW k \in keys, NEW v \in Values, Insert(k, v), Fits(UniqueGap(k), k)
    PROVE  Inserts([key : keys, val : Values], nodes, UniqueGap(k), [key |-> k, val |-> v], nodes')
<1> DEFINE g == UniqueGap(k)
           S == [key : keys, val : Values]
           e == [key |-> k, val |-> v]
<1>1. nodes' = Inserted(nodes, g, e)
  BY DEF Insert, InsertAt, Inserted
<1>2. g \in 1 .. Len(nodes) + 1 /\ nodes \in Seq(S) /\ e \in S
  BY GapBounds DEF MapInv, TypeOK
<1> HIDE DEF g, S, e
<1> QED
  BY <1>1, <1>2, InsertElements DEF g, S, e

\* The nodes that erase leaves.
LEMMA EraseNodes ==
    ASSUME MapInv, NEW k \in keys, Erase(k)
    PROVE  Erases([key : keys, val : Values], nodes, EqualRange(k)[1], EqualRange(k)[2], nodes')
<1> DEFINE a == EqualRange(k)[1]
           b == EqualRange(k)[2]
           S == [key : keys, val : Values]
<1>1. nodes' = Erased(nodes, a, b)
  BY DEF Erase, Erased
<1>2. a \in 1 .. Len(nodes) + 1 /\ b \in a .. Len(nodes) + 1 /\ nodes \in Seq(S)
  BY RangeBounds DEF MapInv, TypeOK
<1> HIDE DEF a, b, S
<1> QED
  BY <1>1, <1>2, EraseElements DEF a, b, S

\* insert keeps the invariant.
LEMMA InsertKeeps ==
    ASSUME MapInv, NEW k \in keys, NEW v \in Values, Insert(k, v), keys' = keys
    PROVE  MapInv'
<1> DEFINE g == UniqueGap(k)
           n == Len(nodes)
           S == [key : keys, val : Values]
           e == [key |-> k, val |-> v]
<1>1. CASE ~ Fits(g, k)
  BY <1>1 DEF Insert, MapInv, TypeOK, Shape, Sorted, Key
<1>2. CASE Fits(g, k)
  <2>1. /\ n < 3 /\ answer' = answer
        /\ nodes' = SubSeq(nodes, 1, g - 1) \o <<e>> \o SubSeq(nodes, g, n)
        /\ root' = CASE n = 0 -> 1
                     [] n = 1 -> IF g = 1 THEN 2 ELSE 1
                     [] OTHER -> 2
    BY <1>2 DEF Insert, InsertAt, MapCapacity
  <2>2. g \in 1 .. n + 1 /\ n \in Nat /\ nodes \in Seq(S) /\ e \in S
    BY GapBounds DEF MapInv, TypeOK
  <2>3. /\ nodes' \in Seq(S) /\ Len(nodes') = n + 1
        /\ \A i \in 1 .. n + 1 :
              nodes'[i] = IF i < g THEN nodes[i] ELSE IF i = g THEN e ELSE nodes[i - 1]
    <3>1. Inserts(S, nodes, g, e, nodes')
      BY <1>2, InsertNodes
    <3> HIDE DEF g, n, S, e
    <3> QED
      BY <2>2, <3>1 DEF Inserts, n
  <2>4. TypeOK' /\ Shape'
    <3>1. root' \in 1 .. 2 /\ root' <= n + 1 /\ n + 1 <= root' + 1
      <4> HIDE DEF n, g
      <4> QED
        BY <2>1, <2>2
    <3>2. Len(nodes') \in 0 .. 3
      BY <2>1, <2>2, <2>3
    <3> QED
      BY <2>1, <2>2, <2>3, <3>1, <3>2 DEF MapInv, TypeOK, Shape, MapCapacity
  <2>5. Sorted'
    <3> SUFFICES ASSUME Ordered(keys), NEW i \in 1 .. n + 1, NEW j \in 1 .. n + 1, i < j
                 PROVE  Less(nodes'[i].key, nodes'[j].key)
      BY <2>2, <2>3 DEF Sorted, Key
    <3>1. \A a, b \in 1 .. n : a < b => Less(Key(a), Key(b))
      BY Positions DEF MapInv, Sorted
    <3>2. /\ \A a, b, c \in keys : Less(a, b) /\ Less(b, c) => Less(a, c)
          /\ \A a \in 1 .. n : Key(a) \in keys
      BY OrderOfKeys, Positions DEF MapInv
    <3>3. \A a \in 1 .. n : a >= g => Less(k, Key(a))
      BY <1>2, InsertGap
    <3>4. \A a \in 1 .. n : a < g => Less(Key(a), k)
      BY <1>2, InsertGap
    <3>5. /\ \A a \in 1 .. n + 1 : a < g => nodes'[a].key = Key(a)
          /\ nodes'[g].key = k
          /\ \A a \in 1 .. n + 1 : a > g => nodes'[a].key = Key(a - 1)
      <4>1. e.key = k /\ g \in 1 .. n + 1
        BY <2>2
      <4> HIDE DEF e, n, g
      <4>2. nodes'[g].key = k
        BY <2>2, <2>3, <4>1
      <4> QED
        BY <2>2, <2>3, <4>2 DEF Key
    <3> HIDE DEF n, g
    <3>6. CASE j < g
      <4>1. i < g /\ i \in 1 .. n /\ j \in 1 .. n
        BY <2>2, <3>6
      <4> QED
        BY <3>1, <3>5, <3>6, <4>1
    <3>7. CASE j = g
      <4>1. i < g /\ i \in 1 .. n
        BY <2>2, <3>7
      <4> QED
        BY <3>4, <3>5, <3>7, <4>1
    <3>8. CASE i = g
      <4>1. j > g /\ j - 1 \in 1 .. n /\ j - 1 >= g
        BY <2>2, <3>8
      <4> QED
        BY <3>3, <3>5, <3>8, <4>1
    <3>9. CASE i < g /\ j > g
      <4>1. i \in 1 .. n /\ j - 1 \in 1 .. n /\ i < j - 1
        BY <2>2, <3>9
      <4> QED
        BY <3>1, <3>5, <3>9, <4>1
    <3>10. CASE i > g
      <4>1. j > g /\ i - 1 \in 1 .. n /\ j - 1 \in 1 .. n /\ i - 1 < j - 1
        BY <2>2, <3>10
      <4> QED
        BY <3>1, <3>5, <3>10, <4>1
    <3> QED
      BY <2>2, <3>6, <3>7, <3>8, <3>9, <3>10
  <2> QED
    BY <2>4, <2>5 DEF MapInv
<1> QED
  BY <1>1, <1>2

\* erase keeps it.
LEMMA EraseKeeps ==
    ASSUME MapInv, NEW k \in keys, Erase(k), keys' = keys
    PROVE  MapInv'
<1> DEFINE a == EqualRange(k)[1]
           b == EqualRange(k)[2]
           n == Len(nodes)
           S == [key : keys, val : Values]
<1>1. /\ nodes' = SubSeq(nodes, 1, a - 1) \o SubSeq(nodes, b, n)
      /\ root' = IF a = b THEN root ELSE IF Len(nodes') = 2 /\ a # 1 THEN 2 ELSE 1
      /\ answer' = answer
  BY DEF Erase
<1>2. a \in 1 .. n + 1 /\ b \in a .. n + 1 /\ n \in 0 .. 3 /\ nodes \in Seq(S)
  BY RangeBounds DEF MapInv, TypeOK, MapCapacity
<1>3. /\ nodes' \in Seq(S) /\ Len(nodes') = n - (b - a)
      /\ \A i \in 1 .. n - (b - a) : nodes'[i] = IF i < a THEN nodes[i] ELSE nodes[i + (b - a)]
  <2>1. Erases(S, nodes, a, b, nodes')
    BY EraseNodes
  <2> HIDE DEF a, b, n, S
  <2> QED
    BY <1>2, <2>1 DEF Erases, n
<1>4. TypeOK' /\ Shape'
  <2>1. Len(nodes') \in 0 .. 3 /\ (a # b => Len(nodes') \in 0 .. 2) /\ (a = b => Len(nodes') = n)
    <3> HIDE DEF a, b, n
    <3> QED
      BY <1>2, <1>3
  <2>2. CASE a = b
    <3>1. root' = root
      BY <1>1, <2>2
    <3>2. nodes' # <<>> => nodes # <<>>
      BY <1>2, <1>3, <2>1, <2>2
    <3> QED
      BY <1>1, <1>3, <2>1, <2>2, <3>1, <3>2 DEF MapInv, TypeOK, Shape, MapCapacity
  <2>3. CASE a # b
    <3>1. Len(nodes') \in 0 .. 2
      BY <2>1, <2>3
    <3>2. root' = IF Len(nodes') = 2 /\ a # 1 THEN 2 ELSE 1
      BY <1>1, <2>3
    <3>4. root' \in 1 .. 2 /\ (Len(nodes') # 0 => root' <= Len(nodes') /\ Len(nodes') <= root' + 1)
      <4>1. Len(nodes') = 0 \/ Len(nodes') = 1 \/ Len(nodes') = 2
        BY <3>1
      <4>2. CASE Len(nodes') = 2
        BY <3>2, <4>2
      <4>3. CASE Len(nodes') # 2
        BY <3>2, <4>1, <4>3
      <4> QED
        BY <4>2, <4>3
    <3>3. nodes' # <<>> => Len(nodes') # 0
      BY <1>3
    <3> QED
      BY <1>1, <1>3, <2>1, <3>4, <3>3 DEF MapInv, TypeOK, Shape, MapCapacity
  <2> QED
    BY <2>2, <2>3
<1>5. Sorted'
  <2> SUFFICES ASSUME Ordered(keys), NEW i \in 1 .. Len(nodes'), NEW j \in 1 .. Len(nodes'), i < j
               PROVE  Less(nodes'[i].key, nodes'[j].key)
    BY <1>3 DEF Sorted, Key
  <2>1. \A c, d \in 1 .. n : c < d => Less(Key(c), Key(d))
    BY Positions DEF MapInv, Sorted
  <2> DEFINE From(m) == IF m < a THEN m ELSE m + (b - a)
  <2>2. /\ From(i) \in 1 .. n /\ From(j) \in 1 .. n /\ From(i) < From(j)
        /\ i \in 1 .. n - (b - a) /\ j \in 1 .. n - (b - a)
    <3> HIDE DEF a, b, n
    <3> QED
      BY <1>2, <1>3
  <2>3. nodes'[i] = nodes[From(i)] /\ nodes'[j] = nodes[From(j)]
    BY <1>3, <2>2
  <2> QED
    BY <2>1, <2>2, <2>3 DEF Key
<1> QED
  BY <1>4, <1>5 DEF MapInv

\* Every step keeps the invariant.
LEMMA MapInvNext == MapInv /\ [MapNext]_mapVars => MapInv'
<1>1. CASE UNCHANGED mapVars
  BY <1>1 DEF mapVars, MapInv, TypeOK, Shape, Sorted, Key
<1> QED
  BY <1>1, FindKeeps, InsertKeeps, EraseKeeps DEF MapNext

\* The type.
THEOREM MapTypeCorrect == MapSpec => []TypeOK
<1>1. MapInv => TypeOK
  BY DEF MapInv
<1> QED
  BY <1>1, MapInvInit, MapInvNext, PTL DEF MapSpec

\* Whatever the keys are, crossing ones too, the record that find answers with
\* (endpoint.cpp:85) is that of the key asked for, after any inserts and erases.
THEOREM FindIsAlwaysSound == MapSpec => []FindIsSound
<1>1. MapInv => FindIsSound
  BY FindSound DEF MapInv
<1> QED
  BY <1>1, MapInvInit, MapInvNext, PTL DEF MapSpec

\* When no two keys cross, std::map finds every key that is stored although all it
\* knows of them is operator< (connectionentry.h:47-48, connectionentry.cpp:26).
THEOREM FindIsAlwaysComplete == MapSpec => []FindIsComplete
  BY FindComplete, MapInvInit, MapInvNext, PTL DEF MapSpec

-----------------------------------------------------------------------------
(* The tree implements the map. *)

\* On keys that do not cross, the nodes are a function of their keys.
LEMMA TableAt ==
    ASSUME MapInv, Ordered(keys), NEW i \in 1 .. Len(nodes)
    PROVE  /\ Key(i) \in Stored
           /\ Table[Key(i)] = nodes[i].val
<1>1. DOMAIN nodes = 1 .. Len(nodes)
  BY Positions DEF MapInv
<1>2. ASSUME NEW j \in DOMAIN nodes, Key(j) = Key(i) PROVE j = i
  BY <1>1, <1>2, FindPosition
<1>3. (CHOOSE j \in DOMAIN nodes : Key(j) = Key(i)) = i
  BY <1>1, <1>2
<1>4. Key(i) \in Stored
  BY <1>1 DEF Stored, Key
<1> QED
  BY <1>3, <1>4 DEF Table

\* The table has the keys that are stored.
LEMMA TableDomain == DOMAIN Table = Stored
  BY DEF Table

\* The function that the nodes ns stand for, and when a function is it.
TableOf(ns) ==
    [k \in {ns[i].key : i \in DOMAIN ns} |-> ns[CHOOSE i \in DOMAIN ns : ns[i].key = k].val]

\* Table is that function, before a step and after it.
LEMMA TableOfNodes == Table = TableOf(nodes) /\ Table' = TableOf(nodes')
  BY DEF Table, TableOf, Stored, Key

\* A function with the values of the nodes, whose keys differ, is their table.
LEMMA SameTable ==
    ASSUME NEW ns, NEW D, NEW f, f = [x \in D |-> f[x]],
           \A i, j \in DOMAIN ns : ns[i].key = ns[j].key => i = j,
           D = {ns[i].key : i \in DOMAIN ns},
           \A i \in DOMAIN ns : f[ns[i].key] = ns[i].val
    PROVE  f = TableOf(ns)
<1>1. ASSUME NEW x \in D PROVE f[x] = ns[CHOOSE i \in DOMAIN ns : ns[i].key = x].val
  <2>1. PICK i \in DOMAIN ns : ns[i].key = x
    OBVIOUS
  <2>2. (CHOOSE j \in DOMAIN ns : ns[j].key = x) = i
    BY <2>1
  <2> QED
    BY <2>1, <2>2
<1>2. \A x \in D : f[x] = TableOf(ns)[x]
  BY <1>1 DEF TableOf
<1>3. TableOf(ns) = [x \in D |-> TableOf(ns)[x]]
  BY DEF TableOf
<1> QED
  BY <1>2, <1>3

\* On keys that do not cross, the nodes of a state that keeps the invariant have
\* different keys.
LEMMA KeysDiffer ==
    ASSUME MapInv', keys' = keys, Ordered(keys)
    PROVE  \A i, j \in DOMAIN nodes' : nodes'[i].key = nodes'[j].key => i = j
<1>1. nodes' \in Seq([key : keys, val : Values]) /\ keys \subseteq Entry
  BY KeysAssumption DEF MapInv, TypeOK, Keys
<1>2. \A i, j \in DOMAIN nodes' : i < j => Less(nodes'[i].key, nodes'[j].key)
  BY DEF MapInv, Sorted, Key
<1>3. \A a \in keys : ~ Less(a, a)
  BY <1>1 DEF Less, Entry
<1>4. DOMAIN nodes' = 1 .. Len(nodes') /\ Len(nodes') \in Nat
  BY <1>1
<1>5. ASSUME NEW i \in 1 .. Len(nodes') PROVE nodes'[i].key \in keys
  <2> DEFINE s == nodes'
             S == [key : keys, val : Values]
  <2>1. s \in Seq(S) /\ i \in 1 .. Len(s)
    BY <1>1, <1>5
  <2>2. s[i] \in S
    <3> HIDE DEF s, S
    <3> QED
      BY <2>1, SeqElement
  <2> QED
    BY <2>2
<1> SUFFICES ASSUME NEW i \in 1 .. Len(nodes'), NEW j \in 1 .. Len(nodes'),
                    nodes'[i].key = nodes'[j].key
             PROVE  i = j
  BY <1>4
<1>6. ~ (i < j) /\ ~ (j < i)
  BY <1>2, <1>3, <1>4, <1>5
<1> QED
  BY <1>4, <1>6

\* The empty tree is the empty map.
LEMMA MapImplInit == MapInit => AsMap!Init
<1> SUFFICES ASSUME MapInit PROVE AsMap!Init
  OBVIOUS
<1>1. DOMAIN nodes = {} /\ answer = Missing
  BY DEF MapInit
<1>2. Stored = {}
  BY <1>1 DEF Stored
<1>3. Table = <<>>
  BY <1>2 DEF Table
<1> QED
  BY <1>1, <1>3 DEF AsMap!Init

\* A find of the tree is a find of the map.
LEMMA MapFind ==
    ASSUME MapInv, Ordered(keys), keys' = keys, NEW k \in keys, Find(k)
    PROVE  AsMap!Find(k)
<1>1. Table' = Table /\ nodes' = nodes
  BY DEF Find, Table, Stored, Key
<1>2. answer' = IF k \in Stored THEN Table[k] ELSE Missing
  <2>1. CASE k \in Stored
    <3>1. PICK i \in DOMAIN nodes : k = Key(i)
      BY <2>1 DEF Stored, Key
    <3>2. i \in 1 .. Len(nodes) /\ i # End
      BY <3>1, Positions DEF MapInv
    <3>3. FindPos(k) = i
      BY <3>1, <3>2, FindPosition
    <3> QED
      BY <2>1, <3>1, <3>2, <3>3, TableAt DEF Find
  <2>2. CASE k \notin Stored
    <3>1. FindPos(k) = End
      <4> SUFFICES ASSUME FindPos(k) # End PROVE FALSE
        OBVIOUS
      <4>1. Same(Key(FindPos(k)), k)
        BY FindSound DEF MapInv, FindIsSound
      <4>2. FindPos(k) \in 1 .. Len(nodes)
        BY LowerBoundStops, Positions DEF FindPos, MapInv
      <4>3. Key(FindPos(k)) = k
        BY <4>1, <4>2, Positions, SameIsEqual DEF MapInv
      <4> QED
        BY <2>2, <4>2, <4>3, Positions DEF MapInv, Stored, Key
    <3> QED
      BY <2>2, <3>1 DEF Find
  <2> QED
    BY <2>1, <2>2
<1> QED
  BY <1>1, <1>2, TableDomain DEF AsMap!Find

\* An insert in the tree is an insert in the map.
LEMMA MapInsert ==
    ASSUME MapInv, MapInv', Ordered(keys), keys' = keys,
           NEW k \in keys, NEW v \in Values, Insert(k, v)
    PROVE  AsMap!Insert(k, v)
<1> DEFINE g == UniqueGap(k)
           n == Len(nodes)
           e == [key |-> k, val |-> v]
           f == [x \in Stored \union {k} |-> IF x \in Stored THEN Table[x] ELSE v]
<1>1. g \in 1 .. n + 1 /\ n \in Nat /\ DOMAIN nodes = 1 .. n
  BY GapBounds, Positions DEF MapInv
<1>2. CASE ~ Fits(g, k)
  <2>1. Key(g - 1) = k
    <3>1. g - 1 \in 1 .. n /\ g - 1 < g /\ ~ Less(Key(g - 1), k)
      BY <1>1, <1>2 DEF Fits
    <3>2. ~ Less(k, Key(g - 1)) /\ Key(g - 1) \in keys
      BY <3>1, UpperBoundSplits, Positions DEF MapInv, UniqueGap
    <3> QED
      BY <3>1, <3>2, OrderOfKeys DEF MapInv
  <2>2. k \in Stored
    BY <1>1, <1>2, <2>1 DEF Fits, Stored, Key
  <2>3. nodes' = nodes
    BY <1>2 DEF Insert
  <2>4. Table' = Table
    BY <2>3 DEF Table, Stored, Key
  <2>5. f = Table
    BY <2>2 DEF Table
  <2> QED
    BY <2>4, <2>5, TableDomain DEF AsMap!Insert, Insert
<1>3. CASE Fits(g, k)
  <2>1. k \notin Stored
    <3>1. \A a \in 1 .. n : Less(Key(a), k) \/ Less(k, Key(a))
      BY <1>1, <1>3, InsertGap
    <3>2. ~ Less(k, k)
      BY OrderOfKeys DEF MapInv
    <3> QED
      BY <1>1, <3>1, <3>2 DEF Stored, Key
  <2>2. /\ Len(nodes') = n + 1 /\ nodes' \in Seq([key : keys, val : Values])
        /\ \A i \in 1 .. n + 1 :
              nodes'[i] = IF i < g THEN nodes[i] ELSE IF i = g THEN e ELSE nodes[i - 1]
    BY <1>3, InsertNodes DEF Inserts
  <2>3. DOMAIN nodes' = 1 .. n + 1
    BY <1>1, <2>2
  <2>4. \A a \in 1 .. n : Key(a) \in Stored /\ Table[Key(a)] = nodes[a].val
    BY TableAt
  <2>5. e.key = k /\ e.val = v
    OBVIOUS
  <2>6. ASSUME NEW i \in DOMAIN nodes'
        PROVE  nodes'[i].key \in Stored \union {k} /\ f[nodes'[i].key] = nodes'[i].val
    <3> DEFINE m == IF i < g THEN i ELSE i - 1
    <3>1. CASE i = g
      BY <2>1, <2>2, <2>3, <2>5, <2>6, <3>1
    <3>2. CASE i # g
      <4>1. m \in 1 .. n
        <5> HIDE DEF n, g
        <5> QED
          BY <1>1, <2>3, <3>2
      <4>2. nodes'[i] = nodes[m]
        BY <2>2, <2>3, <3>2
      <4>3. nodes'[i].key \in Stored /\ Table[nodes'[i].key] = nodes'[i].val
        BY <2>4, <4>1, <4>2 DEF Key
      <4> QED
        BY <4>3
    <3> QED
      BY <3>1, <3>2
  <2>7. ASSUME NEW x \in Stored \union {k} PROVE \E i \in DOMAIN nodes' : nodes'[i].key = x
    <3>1. CASE x = k
      <4>1. nodes'[g] = e
        BY <1>1, <2>2
      <4> QED
        BY <1>1, <2>3, <2>5, <3>1, <4>1
    <3>2. CASE x \in Stored
      <4>1. PICK a \in 1 .. n : nodes[a].key = x
        BY <1>1, <3>2 DEF Stored
      <4> DEFINE i == IF a < g THEN a ELSE a + 1
      <4>2. i \in 1 .. n + 1 /\ nodes'[i] = nodes[a]
        BY <1>1, <2>2
      <4> QED
        BY <2>3, <4>1, <4>2
    <3> QED
      BY <3>1, <3>2
  <2>8. Table' = f
    <3> DEFINE D == Stored \union {k}
               ns == nodes'
    <3>1. f = [x \in D |-> f[x]]
      OBVIOUS
    <3>2. D = {ns[i].key : i \in DOMAIN ns}
      BY <2>6, <2>7
    <3>3. \A i, j \in DOMAIN ns : ns[i].key = ns[j].key => i = j
      BY KeysDiffer
    <3>4. \A i \in DOMAIN ns : f[ns[i].key] = ns[i].val
      BY <2>6
    <3>5. f = TableOf(ns)
      <4> HIDE DEF f, D, ns
      <4> QED
        BY <3>1, <3>2, <3>3, <3>4, SameTable
    <3> QED
      BY <3>5, TableOfNodes
  <2> QED
    BY <2>8, TableDomain DEF AsMap!Insert, Insert
<1> QED
  BY <1>2, <1>3

\* An erase of the tree is an erase of the map.
LEMMA MapErase ==
    ASSUME MapInv, MapInv', Ordered(keys), keys' = keys, NEW k \in keys, Erase(k)
    PROVE  AsMap!Erase(k)
<1> DEFINE a == EqualRange(k)[1]
           b == EqualRange(k)[2]
           n == Len(nodes)
           f == [x \in Stored \ {k} |-> Table[x]]
<1>1. a \in 1 .. n + 1 /\ b \in a .. n + 1 /\ n \in Nat /\ DOMAIN nodes = 1 .. n
  BY RangeBounds, Positions DEF MapInv
<1>2. /\ Len(nodes') = n - (b - a) /\ nodes' \in Seq([key : keys, val : Values])
      /\ \A i \in 1 .. n - (b - a) : nodes'[i] = IF i < a THEN nodes[i] ELSE nodes[i + (b - a)]
  BY EraseNodes DEF Erases
<1>3. \/ b = a /\ k \notin Stored
      \/ b = a + 1 /\ a \in 1 .. n /\ Key(a) = k
  BY RangeIsNode
<1>4. \A i \in 1 .. n : Key(i) \in Stored /\ Table[Key(i)] = nodes[i].val
  BY TableAt
<1>5. DOMAIN nodes' = 1 .. n - (b - a)
  <2> HIDE DEF n, a, b
  <2> QED
    BY <1>1, <1>2
<1>6. \A i \in 1 .. n : Key(i) = k => i = a /\ b = a + 1
  <2> SUFFICES ASSUME NEW i \in 1 .. n, Key(i) = k PROVE i = a /\ b = a + 1
    OBVIOUS
  <2>1. b = a + 1 /\ a \in 1 .. n /\ Key(a) = k
    BY <1>3, <1>4
  <2>2. FindPos(Key(i)) = i /\ FindPos(Key(a)) = a
    BY <2>1, FindPosition
  <2> QED
    BY <2>1, <2>2
<1>7. ASSUME NEW i \in DOMAIN nodes'
      PROVE  nodes'[i].key \in Stored \ {k} /\ f[nodes'[i].key] = nodes'[i].val
  <2> DEFINE m == IF i < a THEN i ELSE i + (b - a)
  <2>1. m \in 1 .. n /\ (b = a + 1 => m # a)
    <3> HIDE DEF n, a, b
    <3> QED
      BY <1>1, <1>5
  <2>2. nodes'[i] = nodes[m]
    BY <1>2, <1>5
  <2>3. Key(m) \in Stored /\ Key(m) # k /\ Table[Key(m)] = nodes[m].val
    BY <1>4, <1>6, <2>1
  <2> QED
    BY <2>2, <2>3 DEF Key
<1>8. ASSUME NEW x \in Stored \ {k} PROVE \E i \in DOMAIN nodes' : nodes'[i].key = x
  <2>1. PICK c \in 1 .. n : nodes[c].key = x
    BY <1>1 DEF Stored
  <2>2. c # a \/ b = a
    BY <1>3, <2>1 DEF Key
  <2> DEFINE i == IF c < a THEN c ELSE c - (b - a)
  <2>3. i \in 1 .. n - (b - a) /\ (IF i < a THEN i ELSE i + (b - a)) = c
    <3>1. b = a \/ b = a + 1
      BY <1>3
    <3> HIDE DEF n, a, b
    <3> QED
      BY <1>1, <2>2, <3>1
  <2>4. nodes'[i] = nodes[c]
    BY <1>2, <2>3
  <2> QED
    BY <1>5, <2>1, <2>3, <2>4
<1>9. Table' = f
  <2> DEFINE D == Stored \ {k}
             ns == nodes'
  <2>1. f = [x \in D |-> f[x]]
    OBVIOUS
  <2>2. D = {ns[i].key : i \in DOMAIN ns}
    <3>1. \A i \in DOMAIN ns : ns[i].key \in D
      BY <1>7
    <3>2. \A x \in D : \E i \in DOMAIN ns : ns[i].key = x
      BY <1>8
    <3> HIDE DEF f, D, ns, n, a, b
    <3> QED
      BY <3>1, <3>2
  <2>3. \A i, j \in DOMAIN ns : ns[i].key = ns[j].key => i = j
    BY KeysDiffer
  <2>4. \A i \in DOMAIN ns : f[ns[i].key] = ns[i].val
    BY <1>7
  <2>5. f = TableOf(ns)
    <3> HIDE DEF f, D, ns
    <3> QED
      BY <2>1, <2>2, <2>3, <2>4, SameTable
  <2> QED
    BY <2>5, TableOfNodes
<1> QED
  BY <1>9, TableDomain DEF AsMap!Erase, Erase

\* Every step of the tree is a step of the map or leaves it as it is.
LEMMA MapImplNext == MapInv /\ MapInv' /\ [MapNext]_mapVars => [AsMap!Next]_(AsMap!vars)
<1> SUFFICES ASSUME MapInv, MapInv', [MapNext]_mapVars PROVE [AsMap!Next]_(AsMap!vars)
  OBVIOUS
<1>1. keys' = keys /\ keys \subseteq Keys
  BY DEF MapNext, mapVars, MapInv, TypeOK, Keys
<1>2. CASE UNCHANGED mapVars
  <2>1. Table' = Table
    BY <1>2 DEF mapVars, Table, Stored, Key
  <2> QED
    BY <1>2, <2>1 DEF mapVars, AsMap!vars
<1>3. CASE ~ Ordered(keys)
  BY <1>1, <1>3 DEF AsMap!vars
<1>4. CASE Ordered(keys) /\ MapNext
  <2>1. PICK k \in keys : Find(k) \/ Erase(k) \/ \E v \in Values : Insert(k, v)
    BY <1>4 DEF MapNext
  <2>2. AsMap!Find(k) \/ AsMap!Erase(k) \/ \E v \in Values : AsMap!Insert(k, v)
    BY <1>1, <1>4, <2>1, MapFind, MapErase, MapInsert
  <2> QED
    BY <1>1, <2>2 DEF AsMap!Next
<1> QED
  BY <1>2, <1>3, <1>4

\* std::map over ordered connection entries, with the comparison of
\* connectionentry.cpp:26, implements the map that the endpoints' models use.
THEOREM MapImplemented == MapSpec => ImplementsStdMap
  BY MapInvInit, MapInvNext, MapImplInit, MapImplNext, PTL DEF MapSpec, ImplementsStdMap, AsMap!Spec

-----------------------------------------------------------------------------
(* The proxy. *)

\* The lemmas about the two halves, with the names that the proxy gives to their
\* state.
EgP == INSTANCE EgressUdpProofs WITH
    FlowOf <- PacketFlow, proc <- eproc, pc <- epc, conn <- econn,
    strangers <- estrangers, tangled <- etangled,
    remote <- [f \in Flows |-> {}], roulette <- {}, kept <- {}
InP == INSTANCE IngressUdpProofs WITH
    proc <- iproc, pc <- ipc, conn <- iconn, strangers <- istrangers, tangled <- itangled

\* A thread of the egress handles a packet that the ingress has sent.
PacketsWereSent == \A p \in Packets : epc[p] # "idle" => DatagramOf[p] \in chain

\* A thread of the egress that got past sendto has sent its packet.
AfterSend == {"update", "insert", "recv", "classify", "route", "forward"}
SentWhenPast == \A p \in Packets : epc[p] \in AfterSend => p \in sent

\* What is on the way back was returned by a thread that has ended.
ReturnedIsOver == \A x \in returned : x.thread \in sent /\ epc[x.thread] = "done"

\* The thread of a reply was brought what the egress has returned, and the flow
\* in its SFC header does not change.
CarriedWasReturned ==
    /\ carried \in [Replies -> returned \union {None}]
    /\ \A r \in Replies :
          /\ ipc[r] = "idle" => rflow[r] = None
          /\ rflow[r] # None => /\ carried[r] \in returned
                                /\ PacketFlow[carried[r].thread] = rflow[r]

\* An answer was delivered for the flow of its reply, to the address of a
\* datagram of the flow.
DeliveredToSource ==
    \A x \in delivered :
        /\ rflow[x.reply] = x.flow
        /\ \E d \in Datagrams : FlowOf[d] = x.flow /\ AddrOf[d] = x.addr /\ ipc[d] # "idle"

\* map_to_remote holds the ids of the flow's own entries.
RemoteOwnsId == \A f \in Flows : \A d \in remote[f] : d \in Datagrams => FlowOf[d] = f

\* An entry has left roulette only when a reply of its flow has come.
GoneAfterReply ==
    /\ roulette \subseteq created /\ created \subseteq Datagrams
    /\ \A d \in created \ roulette : \E r \in Replies : rflow[r] = FlowOf[d]

\* The inductive invariant: those of the two halves, and what relates them.
IInv ==
    /\ EgP!AInv /\ EgP!EInv /\ InP!RInv
    /\ PacketsWereSent /\ SentWhenPast /\ ReturnedIsOver /\ CarriedWasReturned
    /\ DeliveredToSource /\ RemoteOwnsId /\ GoneAfterReply

-----------------------------------------------------------------------------
(* The halves. *)

\* The constants of the egress are what its module assumes.
LEMMA EgressAssumptions ==
    /\ Flows \subseteq EgP!Entry /\ Strangers \subseteq EgP!Entry /\ Flows \intersect Strangers = {}
    /\ PacketFlow \in [Packets -> Flows] /\ None \notin Packets
    /\ MaxAnswers \in Nat /\ MaxOthers \in Nat
<1>1. Flows \subseteq EgP!Entry /\ Strangers \subseteq EgP!Entry /\ Flows \intersect Strangers = {}
  BY FlowsAssumption DEF In!Entry, EgP!Entry, In!Fields, EgP!Fields
<1> QED
  BY <1>1, DatagramOfAssumption, DatagramsAssumption, NoneAssumption, BoundsAssumption DEF PacketFlow

\* The constants of the ingress are what its module assumes.
LEMMA IngressAssumptions ==
    /\ Flows \subseteq InP!Entry /\ Strangers \subseteq InP!Entry /\ Flows \intersect Strangers = {}
    /\ Datagrams \intersect Replies = {}
    /\ FlowOf \in [Datagrams -> Flows] /\ AddrOf \in [Datagrams -> Addrs]
    /\ Classified \subseteq Datagrams
    /\ None \notin Addrs \union Datagrams \union {NoId} \union Flows
    /\ NoId \notin Datagrams
    /\ MaxRestarts \in Nat
<1>1. Flows \subseteq InP!Entry /\ Strangers \subseteq InP!Entry /\ Flows \intersect Strangers = {}
  BY FlowsAssumption DEF In!Entry, InP!Entry, In!Fields, InP!Fields
<1> QED
  BY <1>1, ThreadsAssumption, DatagramsAssumption, NoneAssumption, NoIdAssumption, BoundsAssumption

\* A step of the egress is one of the module that the lemmas are about.
LEMMA EgressNext == Eg!Next => EgP!Next
<1>1. \A p \in Packets : /\ Eg!FromChain(p) => EgP!FromChain(p)
                         /\ Eg!Lookup(p) => EgP!Lookup(p)
                         /\ Eg!Open(p) => EgP!Open(p)
  BY Zenon
     DEF Eg!FromChain, Eg!Lookup, Eg!Open, Eg!Arrive, Eg!Arrivals, Eg!Incoming, Eg!Other,
         Eg!Goto, Eg!Die, Eg!tables, Eg!maps, Eg!opened, EgP!FromChain, EgP!Lookup, EgP!Open,
         EgP!Arrive, EgP!Arrivals, EgP!Incoming, EgP!Other, EgP!Goto, EgP!Die, EgP!tables,
         EgP!maps, EgP!opened
<1>2. \A p \in Packets : /\ Eg!Send(p) => EgP!Send(p)
                         /\ Eg!Update(p) => EgP!Update(p)
                         /\ Eg!Insert(p) => EgP!Insert(p)
  BY Zenon
     DEF Eg!Send, Eg!Update, Eg!Insert, Eg!AddLocal, Eg!File, Eg!Found, Eg!Stored, Eg!Crossing,
         Eg!Less, Eg!Fields, Eg!Goto, Eg!Die, Eg!tables, Eg!maps, Eg!opened, EgP!Send, EgP!Update,
         EgP!Insert, EgP!AddLocal, EgP!File, EgP!Found, EgP!Stored, EgP!Crossing, EgP!Less, EgP!Fields,
         EgP!Goto, EgP!Die, EgP!tables, EgP!maps, EgP!opened
<1>3. \A p \in Packets : /\ Eg!Recv(p) => EgP!Recv(p)
                         /\ Eg!Classify(p) => EgP!Classify(p)
                         /\ Eg!Route(p) => EgP!Route(p)
  BY Zenon
     DEF Eg!Recv, Eg!Classify, Eg!Route, Eg!Goto, Eg!Die, Eg!tables, Eg!maps, Eg!opened,
         EgP!Recv, EgP!Classify, EgP!Route, EgP!Goto, EgP!Die, EgP!tables, EgP!maps, EgP!opened
<1>4. \A p \in Packets : /\ Eg!Forward(p) => EgP!Forward(p)
                         /\ Eg!Answer(p) => EgP!Answer(p)
  BY Zenon
     DEF Eg!Forward, Eg!Answer, Eg!Arrive, Eg!Goto, Eg!Die, Eg!tables, Eg!maps, Eg!opened,
         EgP!Forward, EgP!Answer, EgP!Arrive, EgP!Goto, EgP!Die, EgP!tables, EgP!maps,
         EgP!opened
<1>5. Eg!Disturb => EgP!Disturb
  BY Zenon
     DEF Eg!Disturb, Eg!Arrive, Eg!Other, Eg!Goto, Eg!Die, Eg!tables, Eg!maps, Eg!opened,
         EgP!Disturb, EgP!Arrive, EgP!Other, EgP!Goto, EgP!Die, EgP!tables, EgP!maps,
         EgP!opened
<1>6. Eg!Race => EgP!Race
  BY Zenon
     DEF Eg!Race, Eg!Conflict, Eg!Writes, Eg!Reads, Eg!Goto, Eg!Die, Eg!tables, Eg!maps,
         Eg!opened, EgP!Race, EgP!Conflict, EgP!Writes, EgP!Reads, EgP!Goto, EgP!Die,
         EgP!tables, EgP!maps, EgP!opened
<1>7. Eg!Neighbour => EgP!Neighbour
  BY Zenon
     DEF Eg!Neighbour, Eg!OtherFiles, Eg!Stored, Eg!Erased, Eg!Crossing, Eg!Less, Eg!Fields, Eg!Goto,
         Eg!Die, Eg!tables, Eg!maps, Eg!opened, EgP!Neighbour, EgP!OtherFiles, EgP!Stored,
         EgP!Erased, EgP!Crossing, EgP!Less, EgP!Fields, EgP!Goto, EgP!Die, EgP!tables, EgP!maps,
         EgP!opened
<1> QED
  BY <1>1, <1>2, <1>3, <1>4, <1>5, <1>6, <1>7, Zenon
     DEF Eg!Next, Eg!Handle, EgP!Next, EgP!Handle

\* A step of the ingress is one of the module that the lemmas are about.
LEMMA IngressNext == In!Next => InP!Next
<1>1. \A d \in Datagrams : /\ In!Receive(d) => InP!Receive(d)
                           /\ In!Classify(d) => InP!Classify(d)
                           /\ In!Insert(d) => InP!Insert(d)
  BY Zenon
     DEF In!Receive, In!Classify, In!Insert, In!AddLocal, In!File, In!Found, In!Stored,
         In!Crossing, In!Less, In!Fields, In!Goto, In!Die, In!tables, In!maps, InP!Receive, InP!Classify,
         InP!Insert, InP!AddLocal, InP!File, InP!Found, InP!Stored, InP!Crossing, InP!Less, InP!Fields,
         InP!Goto, InP!Die, InP!tables, InP!maps
<1>2. \A d \in Datagrams : /\ In!Create(d) => InP!Create(d)
                           /\ In!Remember(d) => InP!Remember(d)
  BY Zenon
     DEF In!Create, In!Remember, In!CreateRemote, In!CreateUnnamed, In!SetRemote, In!File,
         In!Found, In!Stored, In!Crossing, In!Less, In!Fields, In!Goto, In!Die, In!tables, In!maps,
         InP!Create, InP!Remember, InP!CreateRemote, InP!CreateUnnamed, InP!SetRemote,
         InP!File, InP!Found, InP!Stored, InP!Crossing, InP!Less, InP!Fields, InP!Goto, InP!Die,
         InP!tables, InP!maps
<1>3. \A d \in Datagrams : /\ In!Route(d) => InP!Route(d)
                           /\ In!Send(d) => InP!Send(d)
  BY Zenon
     DEF In!Route, In!Send, In!Goto, In!Die, In!tables, In!maps, InP!Route, InP!Send, InP!Goto,
         InP!Die, InP!tables, InP!maps
<1>4. \A r \in Replies : /\ In!FromChain(r) => InP!FromChain(r)
                         /\ In!Lookup(r) => InP!Lookup(r)
  BY Zenon
     DEF In!FromChain, In!Lookup, In!Found, In!Goto, In!Die, In!tables, In!maps, InP!FromChain,
         InP!Lookup, InP!Found, InP!Goto, InP!Die, InP!tables, InP!maps
<1>5. \A r \in Replies : /\ In!Deliver(r) => InP!Deliver(r)
                         /\ In!DelFind(r) => InP!DelFind(r)
                         /\ In!DelErase(r) => InP!DelErase(r)
  BY Zenon
     DEF In!Deliver, In!DelFind, In!DelErase, In!Found, In!EraseLocal, In!Erased, In!Goto,
         In!Die, In!tables, In!maps, InP!Deliver, InP!DelFind, InP!DelErase, InP!Found,
         InP!EraseLocal, InP!Erased, InP!Goto, InP!Die, InP!tables, InP!maps
<1>6. \A r \in Replies : In!DelRemote(r) => InP!DelRemote(r)
  BY Zenon
     DEF In!DelRemote, In!RemoteIds, In!ReadRemote, In!Found, In!File, In!Stored, In!Crossing,
         In!Less, In!Fields, In!Deleted, In!Refused, In!Lost, In!Goto, In!Die, In!tables, In!maps,
         InP!DelRemote, InP!RemoteIds, InP!ReadRemote, InP!Found, InP!File, InP!Stored,
         InP!Crossing, InP!Less, InP!Fields, InP!Deleted, InP!Refused, InP!Lost, InP!Goto, InP!Die,
         InP!tables, InP!maps
<1>7. \A r \in Replies : In!DelForget(r) => InP!DelForget(r)
  BY Zenon
     DEF In!DelForget, In!EraseRemote, In!Erased, In!Goto, In!Die, In!tables, In!maps,
         InP!DelForget, InP!EraseRemote, InP!Erased, InP!Goto, InP!Die, InP!tables, InP!maps
<1>8. In!Race => InP!Race
  BY Zenon
     DEF In!Race, In!Threads, In!Conflict, In!Writes, In!Reads, In!Goto, In!Die, In!tables,
         In!maps, InP!Race, InP!Threads, InP!Conflict, InP!Writes, InP!Reads, InP!Goto,
         InP!Die, InP!tables, InP!maps
<1>9. In!Signal => InP!Signal
  BY Zenon
     DEF In!Signal, In!Die, In!tables, In!maps, InP!Signal, InP!Die, InP!tables, InP!maps
<1>10. In!Restart => InP!Restart
  BY Zenon
     DEF In!Restart, In!Threads, In!ClearMaps, In!EmptyMap, InP!Restart, InP!Threads,
         InP!ClearMaps, InP!EmptyMap
<1>11. In!Neighbour => InP!Neighbour
  BY Zenon
     DEF In!Neighbour, In!OtherFiles, In!OtherErases, In!Stored, In!Erased, In!Crossing, In!Less, In!Fields, In!Goto,
         In!Die, In!tables, In!maps, InP!Neighbour, InP!OtherFiles, InP!OtherErases, InP!Stored, InP!Erased,
         InP!Crossing, InP!Less, InP!Fields, InP!Goto, InP!Die, InP!tables, InP!maps
<1> QED
  BY <1>1, <1>2, <1>3, <1>4, <1>5, <1>6, <1>7, <1>8, <1>9, <1>10, <1>11, Zenon
     DEF In!Next, In!DatagramStep, In!ReplyStep, InP!Next, InP!DatagramStep, InP!ReplyStep

\* What a half does not do leaves it as it was.
LEMMA EgressStutters == UNCHANGED egressVars => UNCHANGED EgP!vars
  BY DEF egressVars, EgP!vars, EgP!opened, EgP!tables, EgP!maps

\* The same of the ingress.
LEMMA IngressStutters == UNCHANGED ingressVars => UNCHANGED InP!vars
  BY DEF ingressVars, InP!vars, InP!tables, InP!maps

\* The initial states of the proxy are initial states of the halves.
LEMMA HalvesInit == Init => EgP!AInv /\ EgP!EInv /\ InP!RInv
<1>1. Eg!Init => EgP!Init
  BY DEF Eg!Init, EgP!Init, Eg!EndpointInit, EgP!EndpointInit, Eg!EmptyMap, EgP!EmptyMap,
         Eg!Incoming, EgP!Incoming, Eg!Other, EgP!Other
<1>2. In!Init => InP!Init
  BY DEF In!Init, InP!Init, In!EndpointInit, InP!EndpointInit, In!EmptyMap, InP!EmptyMap,
         In!Threads, InP!Threads
<1>3. EgP!Init => EgP!AInv
  BY EgressAssumptions, EgP!AInvInit
<1>4. EgP!Init => EgP!EInv
  BY EgressAssumptions, EgP!EInvInit
<1>5. InP!Init => InP!RInv
  BY IngressAssumptions, InP!RInvInit
<1> QED
  BY <1>1, <1>2, <1>3, <1>4, <1>5 DEF Init

\* Every step keeps the invariants of the halves.
LEMMA HalvesNext ==
    ASSUME EgP!AInv, EgP!EInv, InP!RInv, [Next]_vars
    PROVE  (EgP!AInv /\ EgP!EInv /\ InP!RInv)'
<1>1. [EgP!Next]_(EgP!vars) /\ [InP!Next]_(InP!vars)
  BY EgressNext, IngressNext, EgressStutters, IngressStutters
     DEF Next, EgressStep, IngressStep, vars
<1>2. EgP!AInv'
  BY <1>1, EgressAssumptions, EgP!AInvNext
<1>3. EgP!EInv'
  BY <1>1, EgressAssumptions, EgP!EInvNext
<1>4. InP!RInv'
  BY <1>1, IngressAssumptions, InP!RInvNext
<1> QED
  BY <1>2, <1>3, <1>4

\* The types of the halves are conjuncts of their invariants.
LEMMA Types == IInv => EgP!TypeOK /\ InP!TypeOK
  BY DEF IInv, EgP!AInv, InP!RInv, InP!IInv, InP!TInv

-----------------------------------------------------------------------------
(* What a step of one half does to the state that the facts are about. *)

\* A step of the egress: nothing is unsent, a thread that has ended stays where
\* it is, and what a thread returns it returns as its last step.
LEMMA EgressMoves ==
    ASSUME EgP!TypeOK, EgP!Next
    PROVE  /\ sent \subseteq sent'
           /\ \A p \in Packets : epc[p] = "done" => epc'[p] = "done"
           /\ \A p \in Packets : epc'[p] \in AfterSend => epc[p] \in AfterSend \/ p \in sent'
           /\ \A x \in returned' \ returned :
                 /\ x.thread \in Packets /\ epc'[x.thread] = "done"
                 /\ epc[x.thread] = "forward"
<1> DEFINE Goal ==
        /\ sent \subseteq sent'
        /\ \A p \in Packets : epc[p] = "done" => epc'[p] = "done"
        /\ \A p \in Packets : epc'[p] \in AfterSend => epc[p] \in AfterSend \/ p \in sent'
        /\ \A x \in returned' \ returned :
              /\ x.thread \in Packets /\ epc'[x.thread] = "done"
              /\ epc[x.thread] = "forward"
<1> USE DEF EgP!TypeOK, EgP!Goto, EgP!Die, EgP!opened, AfterSend
<1>1. ASSUME NEW p \in Packets, EgP!FromChain(p) \/ EgP!Answer(p) \/ EgP!Lookup(p) \/ EgP!Open(p)
      PROVE  Goal
  BY <1>1 DEF EgP!FromChain, EgP!Answer, EgP!Lookup, EgP!Open
<1>2. ASSUME NEW p \in Packets, EgP!Send(p) PROVE Goal
  BY <1>2 DEF EgP!Send
<1>3. ASSUME NEW p \in Packets, EgP!Update(p) \/ EgP!Insert(p) PROVE Goal
  BY <1>3 DEF EgP!Update, EgP!Insert
<1>4. ASSUME NEW p \in Packets, EgP!Recv(p) PROVE Goal
  BY <1>4 DEF EgP!Recv
<1>5. ASSUME NEW p \in Packets, EgP!Classify(p) PROVE Goal
  BY <1>5 DEF EgP!Classify
<1>6. ASSUME NEW p \in Packets, EgP!Route(p) PROVE Goal
  BY <1>6 DEF EgP!Route
<1>7. ASSUME NEW p \in Packets, EgP!Forward(p) PROVE Goal
  BY <1>7 DEF EgP!Forward
<1>8. CASE EgP!Disturb
  BY <1>8 DEF EgP!Disturb
<1>9. CASE EgP!Race \/ EgP!Neighbour
  BY <1>9 DEF EgP!Race, EgP!Neighbour
<1> QED
  BY <1>1, <1>2, <1>3, <1>4, <1>5, <1>6, <1>7, <1>8, <1>9 DEF EgP!Next, EgP!Handle

\* What a step of the ingress does not undo.
IngressKeeps ==
    /\ chain \subseteq chain'
    /\ \A t \in Datagrams \union Replies : ipc'[t] = "idle" => ipc[t] = "idle"
    /\ \A r \in Replies : rflow'[r] # rflow[r] => ipc[r] = "idle" /\ ipc'[r] # "idle"
    /\ \A x \in delivered' \ delivered :
          /\ x.reply \in Replies /\ ipc[x.reply] = "deliver" /\ sock[x.reply] # None
          /\ x.flow = rflow[x.reply] /\ x.addr = sock[x.reply] /\ rflow' = rflow

\* What a step of the ingress does to the entries of roulette: each id is filed
\* under its flow, and is taken out by a reply of its flow.
EntriesMove ==
    /\ \A f \in Flows : \A d \in remote'[f] :
          d \in Datagrams => d \in remote[f] \/ FlowOf[d] = f
    /\ roulette' \subseteq Datagrams
    /\ \A d \in roulette \ roulette' : \E r \in Replies :
          rflow[r] \in Flows /\ d \in remote[rflow[r]] /\ rflow'[r] = rflow[r]

\* A step of a datagram's thread.
LEMMA DatagramMoves ==
    ASSUME InP!TypeOK, NEW d \in Datagrams, InP!DatagramStep(d)
    PROVE  IngressKeeps /\ EntriesMove
<1> USE ThreadsAssumption, DatagramsAssumption, NoneAssumption, NoIdAssumption
<1> USE DEF IngressKeeps, EntriesMove, InP!TypeOK, InP!Goto, InP!Die, InP!Threads, InP!tables, InP!maps
<1>1. CASE InP!Receive(d) \/ InP!Classify(d) \/ InP!Route(d) \/ InP!Send(d)
  BY <1>1 DEF InP!Receive, InP!Classify, InP!Route, InP!Send
<1>2. CASE InP!Insert(d)
  BY <1>2 DEF InP!Insert, InP!AddLocal
<1>3. CASE InP!Create(d)
  BY <1>3 DEF InP!Create, InP!CreateRemote, InP!CreateUnnamed
<1>4. CASE InP!Remember(d)
  BY <1>4 DEF InP!Remember, InP!SetRemote
<1> QED
  BY <1>1, <1>2, <1>3, <1>4 DEF InP!DatagramStep

\* A step of a reply's thread.
LEMMA ReplyMoves ==
    ASSUME InP!TypeOK, NEW r \in Replies, InP!ReplyStep(r)
    PROVE  IngressKeeps /\ EntriesMove
<1> USE ThreadsAssumption, DatagramsAssumption, NoneAssumption, NoIdAssumption
<1> USE DEF IngressKeeps, EntriesMove, InP!TypeOK, InP!Goto, InP!Die, InP!Threads, InP!tables, InP!maps
<1>1. CASE InP!FromChain(r)
  BY <1>1 DEF InP!FromChain
<1>2. CASE InP!Lookup(r)
  BY <1>2 DEF InP!Lookup
<1>3. CASE InP!Deliver(r)
  BY <1>3 DEF InP!Deliver
<1>4. CASE InP!DelFind(r) \/ InP!DelErase(r)
  BY <1>4 DEF InP!DelFind, InP!DelErase, InP!EraseLocal
<1>5. CASE InP!DelRemote(r)
  BY <1>5 DEF InP!DelRemote, InP!RemoteIds, InP!ReadRemote, InP!Deleted, InP!Refused, InP!Lost
<1>6. CASE InP!DelForget(r)
  BY <1>6 DEF InP!DelForget, InP!EraseRemote, InP!Erased
<1> QED
  BY <1>1, <1>2, <1>3, <1>4, <1>5, <1>6 DEF InP!ReplyStep

\* A step of the ingress.
LEMMA IngressMoves ==
    ASSUME InP!TypeOK, InP!Next
    PROVE  IngressKeeps /\ EntriesMove
<1>1. CASE InP!Race \/ InP!Signal
  BY <1>1 DEF InP!Race, InP!Signal, InP!Die, InP!tables, InP!maps, IngressKeeps, EntriesMove, InP!TypeOK
<1>2. CASE InP!Restart
  BY <1>2, NoneAssumption
     DEF InP!Restart, InP!ClearMaps, InP!EmptyMap, InP!Threads, IngressKeeps, EntriesMove, InP!TypeOK
<1>3. CASE InP!Neighbour
  BY <1>3 DEF InP!Neighbour, InP!OtherFiles, InP!OtherErases, InP!Erased, IngressKeeps, EntriesMove, InP!TypeOK
<1> QED
  BY <1>1, <1>2, <1>3, DatagramMoves, ReplyMoves DEF InP!Next

-----------------------------------------------------------------------------
(* The facts that relate the halves. *)

Linked ==
    /\ PacketsWereSent /\ SentWhenPast /\ ReturnedIsOver /\ CarriedWasReturned
    /\ DeliveredToSource /\ RemoteOwnsId /\ GoneAfterReply

\* Initially nothing has happened.
LEMMA InvInit == Init => IInv
<1> SUFFICES ASSUME Init PROVE Linked
  BY HalvesInit DEF IInv, Linked
<1> QED
  BY NoneAssumption
     DEF Init, In!Init, Eg!Init, In!EndpointInit, In!EmptyMap, Linked, PacketsWereSent, SentWhenPast,
         AfterSend, ReturnedIsOver, CarriedWasReturned, DeliveredToSource, RemoteOwnsId, GoneAfterReply

\* A step of the egress keeps what relates it to the ingress.
LEMMA LinkedEgress == ASSUME IInv, EgressStep PROVE Linked'
<1>1. /\ EgP!TypeOK /\ EgP!Next
      /\ UNCHANGED ingressVars /\ UNCHANGED <<carried, created>>
  BY Types, EgressNext DEF EgressStep
<1>2. PacketsWereSent'
  BY <1>1 DEF EgressStep, IInv, PacketsWereSent, ingressVars
<1>3. SentWhenPast'
  BY <1>1, EgressMoves DEF IInv, SentWhenPast
<1>4. ReturnedIsOver'
  <2> SUFFICES ASSUME NEW x \in returned'
               PROVE  x.thread \in sent' /\ epc'[x.thread] = "done"
    BY DEF ReturnedIsOver
  <2>1. CASE x \in returned
    <3>1. x.thread \in Packets /\ x.thread \in sent /\ epc[x.thread] = "done"
      BY <1>1, <2>1 DEF IInv, ReturnedIsOver, EgP!TypeOK
    <3> QED
      BY <1>1, <3>1, EgressMoves
  <2>2. CASE x \notin returned
    <3>1. /\ x.thread \in Packets /\ epc[x.thread] = "forward" /\ epc'[x.thread] = "done"
          /\ sent \subseteq sent'
      BY <1>1, <2>2, EgressMoves
    <3> QED
      BY <3>1 DEF IInv, SentWhenPast, AfterSend
  <2> QED
    BY <2>1, <2>2
<1>5. CarriedWasReturned'
  <2>1. returned \subseteq returned'
    BY <1>1 DEF EgP!Next, EgP!Handle, EgP!FromChain, EgP!Answer, EgP!Lookup, EgP!Open, EgP!Send,
           EgP!Update, EgP!Insert, EgP!Recv, EgP!Classify, EgP!Route, EgP!Forward, EgP!Disturb, EgP!Race,
           EgP!Neighbour
  <2> QED
    BY <1>1, <2>1 DEF IInv, CarriedWasReturned, ingressVars
<1>6. DeliveredToSource' /\ RemoteOwnsId' /\ GoneAfterReply'
  BY <1>1 DEF IInv, DeliveredToSource, RemoteOwnsId, GoneAfterReply, ingressVars
<1> QED
  BY <1>2, <1>3, <1>4, <1>5, <1>6 DEF Linked

\* A step of the ingress keeps what relates it to the egress.
LEMMA LinkedIngress == ASSUME IInv, IngressStep PROVE Linked'
<1>1. /\ InP!TypeOK /\ EgP!TypeOK /\ IngressKeeps /\ EntriesMove
      /\ UNCHANGED egressVars /\ created' = created \union roulette'
  BY Types, IngressNext, IngressMoves DEF IngressStep
<1> USE DEF egressVars
<1>2. PacketsWereSent' /\ SentWhenPast' /\ ReturnedIsOver'
  BY <1>1 DEF IInv, PacketsWereSent, SentWhenPast, ReturnedIsOver, IngressKeeps
<1>3. CarriedWasReturned'
  <2>1. \A r \in Replies : ipc'[r] = "idle" => rflow'[r] = None
    BY <1>1 DEF IInv, CarriedWasReturned, IngressKeeps
  <2>2. \A r \in Replies : rflow'[r] # None =>
            carried'[r] \in returned /\ PacketFlow[carried'[r].thread] = rflow'[r]
    <3>1. CASE rflow' = rflow /\ UNCHANGED carried
      BY <3>1 DEF IInv, CarriedWasReturned
    <3>2. ASSUME NEW q \in Replies, NEW x \in returned,
                 rflow' = [rflow EXCEPT ![q] = PacketFlow[x.thread]],
                 carried' = [carried EXCEPT ![q] = x]
          PROVE  \A r \in Replies : rflow'[r] # None =>
                    carried'[r] \in returned /\ PacketFlow[carried'[r].thread] = rflow'[r]
      BY <1>1, <3>2 DEF IInv, CarriedWasReturned, InP!TypeOK
    <3> QED
      BY <3>1, <3>2 DEF IngressStep
  <2>3. carried' \in [Replies -> returned \union {None}]
    BY <1>1 DEF IngressStep, IInv, CarriedWasReturned
  <2> QED
    BY <1>1, <2>1, <2>2, <2>3 DEF CarriedWasReturned
<1>4. DeliveredToSource'
  <2> SUFFICES ASSUME NEW x \in delivered'
               PROVE  /\ rflow'[x.reply] = x.flow
                      /\ \E d \in Datagrams : /\ FlowOf[d] = x.flow /\ AddrOf[d] = x.addr
                                              /\ ipc'[d] # "idle"
    BY DEF DeliveredToSource
  <2>1. CASE x \in delivered
    <3>1. x.reply \in Replies /\ ipc[x.reply] # "idle"
      BY <1>1, <2>1 DEF IInv, InP!RInv, InP!DeliveredIsPast, InP!TypeOK
    <3> QED
      BY <1>1, <2>1, <3>1 DEF IInv, DeliveredToSource, IngressKeeps
  <2>2. CASE x \notin delivered
    <3>1. /\ x.reply \in Replies /\ ipc[x.reply] = "deliver" /\ sock[x.reply] # None
          /\ x.flow = rflow[x.reply] /\ x.addr = sock[x.reply] /\ rflow' = rflow
      BY <1>1, <2>2 DEF IngressKeeps
    <3>2. PICK d \in Datagrams : ipc[d] # "idle" /\ FlowOf[d] = x.flow /\ AddrOf[d] = x.addr
      BY <3>1 DEF IInv, InP!RInv, InP!LookedUpIsUsed, InP!UsedFrom
    <3> QED
      BY <1>1, <3>1, <3>2 DEF IngressKeeps
  <2> QED
    BY <2>1, <2>2
<1>5. RemoteOwnsId'
  BY <1>1 DEF IInv, RemoteOwnsId, EntriesMove
<1>6. GoneAfterReply'
  <2>1. roulette' \subseteq created' /\ created' \subseteq Datagrams
    BY <1>1 DEF IInv, GoneAfterReply, EntriesMove
  <2>2. ASSUME NEW d \in created' \ roulette'
        PROVE  \E r \in Replies : rflow'[r] = FlowOf[d]
    <3>1. d \in created /\ d \in Datagrams /\ FlowOf[d] \in Flows
      BY <1>1, <2>1, DatagramsAssumption
    <3>2. CASE d \in roulette
      <4>1. PICK r \in Replies : rflow[r] \in Flows /\ d \in remote[rflow[r]] /\ rflow'[r] = rflow[r]
        BY <1>1, <2>2, <3>2 DEF EntriesMove
      <4> QED
        BY <3>1, <4>1 DEF IInv, RemoteOwnsId
    <3>3. CASE d \notin roulette
      <4>1. PICK r \in Replies : rflow[r] = FlowOf[d]
        BY <3>1, <3>3 DEF IInv, GoneAfterReply
      <4>2. rflow'[r] = rflow[r]
        BY <1>1, <3>1, <4>1, NoneAssumption DEF IInv, CarriedWasReturned, IngressKeeps
      <4> QED
        BY <4>1, <4>2
    <3> QED
      BY <3>2, <3>3
  <2> QED
    BY <2>1, <2>2 DEF GoneAfterReply
<1> QED
  BY <1>2, <1>3, <1>4, <1>5, <1>6 DEF Linked

\* Every step keeps the inductive invariant.
LEMMA InvNext == IInv /\ [Next]_vars => IInv'
<1> SUFFICES ASSUME IInv, [Next]_vars PROVE Linked'
  BY HalvesNext DEF IInv, Linked
<1>1. CASE UNCHANGED vars
  BY <1>1 DEF vars, ingressVars, egressVars, IInv, Linked, PacketsWereSent, SentWhenPast, ReturnedIsOver,
         CarriedWasReturned, DeliveredToSource, RemoteOwnsId, GoneAfterReply
<1> QED
  BY <1>1, LinkedEgress, LinkedIngress DEF Next

-----------------------------------------------------------------------------
\* An answer that a client is given went all the way through the egress: its
\* reply was brought what a thread of the egress returned after it had sent a
\* packet of the flow, a datagram that the ingress had sent.
THEOREM DeliveriesHaveTheirRoundTrip == Spec => []DeliveryHasItsRoundTrip
<1>1. IInv => DeliveryHasItsRoundTrip
  <2> SUFFICES ASSUME IInv, NEW x \in delivered
               PROVE  LET c == carried[x.reply] IN
                        /\ c \in returned
                        /\ c.thread \in sent /\ PacketFlow[c.thread] = x.flow
                        /\ DatagramOf[c.thread] \in chain
                        /\ \E d \in Datagrams : /\ FlowOf[d] = x.flow /\ AddrOf[d] = x.addr
                                                /\ ipc[d] # "idle"
                        /\ Eg!CameSince(c.thread, c.datagram)
    BY DEF DeliveryHasItsRoundTrip
  <2> DEFINE c == carried[x.reply]
  <2>1. x.reply \in Replies /\ x.flow \in Flows
    BY Types DEF InP!TypeOK
  <2>2. /\ rflow[x.reply] = x.flow
        /\ \E d \in Datagrams : FlowOf[d] = x.flow /\ AddrOf[d] = x.addr /\ ipc[d] # "idle"
    BY DEF IInv, DeliveredToSource
  <2>3. c \in returned /\ PacketFlow[c.thread] = x.flow
    BY <2>1, <2>2, NoneAssumption DEF IInv, CarriedWasReturned
  <2>4. c.thread \in Packets /\ c.thread \in sent /\ epc[c.thread] = "done"
    BY <2>3, Types DEF IInv, ReturnedIsOver, EgP!TypeOK
  <2>5. DatagramOf[c.thread] \in chain
    BY <2>4 DEF IInv, PacketsWereSent
  <2>6. EgP!CameSince(c.thread, c.datagram)
    BY <2>3 DEF IInv, EgP!EInv, EgP!ForeignAnswerIsExplained
  <2>7. Eg!CameSince(c.thread, c.datagram)
    BY <2>6 DEF Eg!CameSince, EgP!CameSince, Eg!Arrivals, EgP!Arrivals, Eg!Other, EgP!Other
  <2> QED
    BY <2>2, <2>3, <2>4, <2>5, <2>7
<1> QED
  BY <1>1, InvInit, InvNext, PTL DEF Spec

\* The egress updates an entry of roulette that is still there, unless an answer
\* to another packet of the flow has come back first.
THEOREM EntriesAwaitEgress == Spec => []EntryAwaitsEgress
<1>1. IInv => EntryAwaitsEgress
  <2> SUFFICES ASSUME IInv, NEW p \in Packets, epc[p] = "update", DatagramOf[p] \in created,
                      DatagramOf[p] \notin roulette
               PROVE  \E r \in Replies :
                         rflow[r] = FlowOf[DatagramOf[p]] /\ carried[r].thread # p
    BY DEF EntryAwaitsEgress
  <2>1. PICK r \in Replies : rflow[r] = FlowOf[DatagramOf[p]]
    BY DEF IInv, GoneAfterReply
  <2>2. rflow[r] # None
    BY <2>1, DatagramOfAssumption, DatagramsAssumption, NoneAssumption
  <2>3. epc[carried[r].thread] = "done"
    BY <2>2 DEF IInv, CarriedWasReturned, ReturnedIsOver
  <2> QED
    BY <2>1, <2>3
<1> QED
  BY <1>1, InvInit, InvNext, PTL DEF Spec

=============================================================================
