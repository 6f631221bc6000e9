----------------------------- MODULE StdMapTree -----------------------------
(***************************************************************************)
(* std::map<ConnectionEntry, V> as libstdc++ builds it (a red-black tree), *)
(* exact up to MapCapacity nodes, under the operator< of the program.      *)
(* A tree of so few nodes is its in-order sequence and the position of its *)
(* root: the subtrees of the root of three nodes are leaves, and a tree of *)
(* two nodes has its root first or last.                                   *)
(*                                                                         *)
(* Every search descends from the root by comparisons with operator< alone *)
(* (never operator==), so what it finds depends on where earlier keys went *)
(* when operator< is not an order of the keys.                             *)
(*                                                                         *)
(* The operations are those that endpoint.cpp applies to connection_map.   *)
(***************************************************************************)
EXTENDS ConnectionEntry, Sequences

CONSTANTS KeySets,      \* the sets of keys of which one map uses one
          Values,       \* the mapped values
          Missing       \* the answer of find when it returns end()

Keys == UNION KeySets

ASSUME KeysAssumption == Keys \subseteq Entry
ASSUME MissingAssumption == Missing \notin Values

MapCapacity == 3        \* bound: the largest tree the model represents

VARIABLES keys,         \* the keys that are used with the map
          nodes,        \* the nodes in order: a sequence of [key, val]
          root,         \* the position of the root in nodes
          answer        \* what the last find returned

mapVars == <<keys, nodes, root, answer>>

Stored == {nodes[i].key : i \in DOMAIN nodes}
Key(i) == nodes[i].key

End == Len(nodes) + 1

\* The descents in a subtree of the root, lo .. hi, which has at most one node:
\* to the left child where the node is not less than k, or where k is less than
\* the node.  They end at the last node from which they went left, or y.
LowerIn(lo, hi, y, k) == IF lo <= hi /\ ~ Less(Key(lo), k) THEN lo ELSE y
UpperIn(lo, hi, y, k) == IF lo <= hi /\ Less(k, Key(lo)) THEN lo ELSE y

\* std::_Rb_tree::_M_lower_bound, from the root
LowerBound(k) ==
    IF nodes = <<>> THEN End
    ELSE IF Less(Key(root), k) THEN LowerIn(root + 1, Len(nodes), End, k)
                               ELSE LowerIn(1, root - 1, root, k)

\* The descent of _M_upper_bound and of _M_get_insert_unique_pos.  It ends in
\* the gap before the position it returns.
UpperBound(k) ==
    IF nodes = <<>> THEN End
    ELSE IF Less(k, Key(root)) THEN UpperIn(1, root - 1, root, k)
                               ELSE UpperIn(root + 1, Len(nodes), End, k)

\* Faulty: the lower bound of k is taken for k's node
FindLowerBound(k) == LowerBound(k)

\* map::find
FindPos(k) ==
    LET p == LowerBound(k)
    IN  IF p = End \/ Less(k, Key(p)) THEN End ELSE p

\* The new node goes in the gap before g unless the node before the gap is not
\* less than k: then that node is taken for k's own.
UniqueGap(k) == UpperBound(k)
Fits(g, k) == g = 1 \/ Less(Key(g - 1), k)

\* Faulty: the new node is appended, whatever the gap
InsertLast(g, k, v) ==
    /\ nodes' = Append(nodes, [key |-> k, val |-> v])
    /\ root' = IF Len(nodes) < 2 THEN 1 ELSE 2

\* A third node makes the middle one the root, by a rotation where needed.
InsertAt(g, k, v) ==
    /\ nodes' = SubSeq(nodes, 1, g - 1) \o <<[key |-> k, val |-> v]>>
                    \o SubSeq(nodes, g, Len(nodes))
    /\ root' = CASE Len(nodes) = 0 -> 1
                 [] Len(nodes) = 1 -> IF g = 1 THEN 2 ELSE 1
                 [] OTHER          -> 2

\* Faulty: an insert that replaces the value of a key that is there
InsertOrAssign(k, v) ==
    /\ IF Fits(UniqueGap(k), k)
       THEN Len(nodes) < MapCapacity /\ InsertAt(UniqueGap(k), k, v)
       ELSE nodes' = [nodes EXCEPT ![UniqueGap(k) - 1].val = v] /\ UNCHANGED root
    /\ UNCHANGED answer

\* map::insert
Insert(k, v) ==
    /\ IF Fits(UniqueGap(k), k)
       THEN Len(nodes) < MapCapacity /\ InsertAt(UniqueGap(k), k, v)
       ELSE UNCHANGED <<nodes, root>>
    /\ UNCHANGED answer

\* Faulty: the caller reads the key (it->first) for the mapped value
FindKey(k) ==
    /\ answer' = IF FindPos(k) = End THEN Missing ELSE nodes[FindPos(k)].key
    /\ UNCHANGED <<nodes, root>>

\* map::find, and the mapped value that the caller reads through its result
Find(k) ==
    /\ answer' = IF FindPos(k) = End THEN Missing ELSE nodes[FindPos(k)].val
    /\ UNCHANGED <<nodes, root>>

\* equal_range in a subtree of the root
RangeIn(lo, hi, y, k) ==
    IF lo > hi \/ Less(Key(lo), k) THEN <<y, y>>
    ELSE IF Less(k, Key(lo)) THEN <<lo, lo>> ELSE <<lo, y>>

\* The positions that map::erase(k) removes, equal_range(k): from the first of
\* the pair up to the second.  The descent stops at the first equivalent node
\* and then looks for the bounds in its two subtrees.
EqualRange(k) ==
    IF nodes = <<>> THEN <<End, End>>
    ELSE IF Less(Key(root), k) THEN RangeIn(root + 1, Len(nodes), End, k)
    ELSE IF Less(k, Key(root)) THEN RangeIn(1, root - 1, root, k)
    ELSE <<LowerIn(1, root - 1, root, k), UpperIn(root + 1, Len(nodes), End, k)>>

\* map::erase(key)
Erase(k) ==
    LET first == EqualRange(k)[1]
        last  == EqualRange(k)[2]
    IN  /\ nodes' = SubSeq(nodes, 1, first - 1) \o SubSeq(nodes, last, Len(nodes))
        /\ root' = IF first = last THEN root
                   ELSE IF Len(nodes') = 2 /\ first # 1 THEN 2 ELSE 1
        /\ UNCHANGED answer

MapInit == keys \in KeySets /\ nodes = <<>> /\ root = 1 /\ answer = Missing

MapNext ==
    /\ \E k \in keys : \/ Find(k)
                       \/ Erase(k)
                       \/ \E v \in Values : Insert(k, v)
    /\ UNCHANGED keys

MapSpec == MapInit /\ [][MapNext]_mapVars

-----------------------------------------------------------------------------
\* The nodes, the root and the answer have the shapes the model gives them.
TypeOK ==
    /\ keys \in KeySets
    /\ nodes \in Seq([key : keys, val : Values])
    /\ Len(nodes) \in 0 .. MapCapacity
    /\ root \in 1 .. MapCapacity
    /\ answer \in Values \union {Missing}

\* Whatever the keys are, the record that find answers with (endpoint.cpp:85)
\* is the record of the very key that was asked for.
FindIsSound == \A k \in keys : FindPos(k) # End => Same(Key(FindPos(k)), k)

\* ConnectionEntry's operator< lets it be used with std::map
\* (connectionentry.h:47-48) as long as the keys do not cross: a key that is
\* stored is then found.
FindIsComplete == Ordered(keys) => \A k \in Stored : FindPos(k) # End

\* The map of endpoint.cpp as a function of its keys.
Table == [k \in Stored |-> nodes[CHOOSE i \in DOMAIN nodes : Key(i) = k].val]

AsMap == INSTANCE StdMap WITH
    table  <- IF Ordered(keys) THEN Table ELSE <<>>,
    answer <- IF Ordered(keys) THEN answer ELSE Missing

\* On keys that operator< orders, the tree is the map the endpoint relies on.
\* On other keys nothing is claimed: the instance stutters.
ImplementsStdMap == AsMap!Spec

=============================================================================
