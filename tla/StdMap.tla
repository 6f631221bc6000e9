------------------------------- MODULE StdMap -------------------------------
(***************************************************************************)
(* What endpoint/endpoint.cpp relies on when it keeps its connections in a *)
(* std::map: a finite function of keys, changed by insert and erase, and   *)
(* read by find.                                                           *)
(***************************************************************************)
CONSTANTS Keys,         \* the keys of the map
          Values,       \* the mapped values
          Missing       \* the answer of find when it returns end()

VARIABLES table,        \* the map
          answer        \* what the last find returned

vars == <<table, answer>>

Init == table = <<>> /\ answer = Missing

\* map::insert leaves the mapped value of a key that is already there alone
Insert(k, v) ==
    /\ table' = [x \in DOMAIN table \union {k} |->
                    IF x \in DOMAIN table THEN table[x] ELSE v]
    /\ UNCHANGED answer

Find(k) ==
    /\ answer' = IF k \in DOMAIN table THEN table[k] ELSE Missing
    /\ UNCHANGED table

Erase(k) ==
    /\ table' = [x \in DOMAIN table \ {k} |-> table[x]]
    /\ UNCHANGED answer

Next == \E k \in Keys : \/ Find(k)
                        \/ Erase(k)
                        \/ \E v \in Values : Insert(k, v)

Spec == Init /\ [][Next]_vars

=============================================================================
