--------------------------- MODULE ConnectionEntry ---------------------------
(***************************************************************************)
(* The key of both maps of an endpoint (endpoint/connectionentry.cpp): six *)
(* fields, each of a totally ordered type.  Only the order of the fields   *)
(* matters to the program, so a field is its rank: a natural number.       *)
(* The fields are 1: prt, 2: ip_src, 3: ip_dst, 4: port_src, 5: port_dst   *)
(* and 6: sfcid.                                                           *)
(***************************************************************************)
EXTENDS Naturals

Fields == 1 .. 6

Entry == [Fields -> Nat]

\* ConnectionEntry::operator==
Same(a, b) == \A i \in Fields : a[i] = b[i]

\* ConnectionEntry::operator<: a disjunction of the six comparisons, not the
\* lexicographic order of the six fields.
Less(a, b) == \E i \in Fields : a[i] < b[i]

\* What std::map takes for "the same key".
Equivalent(a, b) == ~ Less(a, b) /\ ~ Less(b, a)

\* Two keys each of which is "less" than the other: std::map may file either
\* one on either side of the other.
Crossing(a, b) == Less(a, b) /\ Less(b, a)

\* A set of keys that std::map can hold as the standard requires.
Ordered(S) == \A a, b \in S : ~ Crossing(a, b)

=============================================================================
