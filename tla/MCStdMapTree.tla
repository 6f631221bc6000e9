---------------------------- MODULE MCStdMapTree ----------------------------
(***************************************************************************)
(* Instances of StdMapTree.  A key is <<prt, ip_src, ip_dst, port_src,     *)
(* port_dst, sfcid>>, each field by its rank.                              *)
(***************************************************************************)
EXTENDS StdMapTree

\* Three connections of one client to one server from growing ports.
SamePairKeys == {<<1, 1, 1, 1, 1, 1>>, <<1, 1, 1, 2, 1, 1>>, <<1, 1, 1, 3, 1, 1>>}

\* Two clients to two servers: no field of a later connection is below.
GrowingKeys == {<<1, 1, 1, 1, 1, 1>>, <<1, 2, 1, 1, 2, 1>>, <<1, 2, 2, 1, 2, 1>>}

\* Three clients: the one with the larger address has the smaller port, and the
\* third one is above both.
ThreeClientKeys == {<<1, 1, 1, 2, 1, 1>>, <<1, 2, 1, 1, 1, 1>>, <<1, 3, 1, 3, 1, 1>>}

\* Three connections each pair of which cross.
CrossingKeys == {<<1, 1, 1, 3, 1, 1>>, <<1, 2, 1, 2, 1, 1>>, <<1, 3, 1, 1, 1, 1>>}

AllKeySets == {SamePairKeys, GrowingKeys, ThreeClientKeys, CrossingKeys}
=============================================================================
