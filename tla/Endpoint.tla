------------------------------ MODULE Endpoint ------------------------------
(***************************************************************************)
(* What the ingress and the egress share (endpoint/endpoint.cpp): the map  *)
(* of the connections, the map of the ids that roulette gave them, and     *)
(* roulette itself, with the steps of add_entry and delete_entry that      *)
(* another thread can see.  Neither map has a lock.                        *)
(*                                                                         *)
(* A map gives each flow the set of its records.  While operator< orders   *)
(* the keys of a map, that set has one element at most, as std::map        *)
(* promises.  Once two keys that cross (connectionentry.cpp:23-31) were in *)
(* a map together, its tree may be out of order for the rest of the run:   *)
(* it is `tangled', and then an access may miss a record that is there, an *)
(* insert may file a second one, and an erase may take too little or, with *)
(* its range, too much.  What an access hits is a record of the very key   *)
(* that was asked for, always (module StdMapTree).                         *)
(***************************************************************************)
EXTENDS ConnectionEntry

CONSTANTS Flows,        \* the connection entries of this half of the endpoint, TCP or UDP
          Strangers,    \* those of the other half, which uses the same maps
          None,         \* no record in a map
          NoId          \* the empty string, for an id that is not there

ASSUME FlowsAssumption ==
    Flows \subseteq Entry /\ Strangers \subseteq Entry /\ Flows \intersect Strangers = {}

VARIABLES conn,         \* connection_map: what a flow is answered through
          remote,       \* map_to_remote: the roulette id of a flow
          strangers,    \* the keys of the other half in the two maps
          tangled,      \* two keys that cross were in a map together in this run
          roulette,     \* the ids of the entries that roulette holds
          kept          \* those that it refused to delete, or gave no id for

tables == <<conn, remote, strangers, tangled>>
maps == <<tables, roulette, kept>>

EmptyMap == [f \in Flows |-> {}]

EndpointInit ==
    /\ conn = EmptyMap /\ remote = EmptyMap /\ strangers = {} /\ tangled = FALSE
    /\ roulette = {} /\ kept = {}

\* Faulty: the maps outlive the process
KeepMaps == UNCHANGED maps

\* A new process: its maps are empty, roulette has not changed
ClearMaps ==
    /\ conn' = EmptyMap /\ remote' = EmptyMap /\ strangers' = {} /\ tangled' = FALSE
    /\ UNCHANGED <<roulette, kept>>

-----------------------------------------------------------------------------
(* std::map *)

\* The keys in map m
Stored(m) == {f \in Flows : m[f] # {}} \union strangers

\* Key f comes to map m, whose keys may cross it
File(f, m) == tangled' = (tangled \/ \E g \in Stored(m) : Crossing(f, g))

\* What find may hit in map m: a record of f, or nothing
Found(m, f) == m[f] \union (IF tangled \/ m[f] = {} THEN {None} ELSE {})

\* What may be left of map m after erase(f).  The range that is erased from a
\* tangled map may hold neighbours of f, or nothing.
Erased(m, f) ==
    IF tangled THEN {n \in [Flows -> SUBSET UNION {m[g] : g \in Flows}] :
                        \A g \in Flows : n[g] \subseteq m[g]}
               ELSE {[g \in Flows |-> IF g = f THEN {} ELSE m[g]]}

\* The other half of the endpoint files one of its keys
OtherFiles ==
    /\ \E k \in Strangers \ strangers :
          /\ strangers' = strangers \union {k}
          /\ tangled' = (tangled \/ \E g \in Stored(conn) \union Stored(remote) : Crossing(k, g))
    /\ UNCHANGED <<conn, remote, roulette, kept>>

\* It erases one, which only an ingress does
OtherErases ==
    /\ \E k \in strangers :
          /\ strangers' = strangers \ {k}
          /\ conn' \in Erased(conn, k) /\ remote' \in Erased(remote, k)
    /\ UNCHANGED <<tangled, roulette, kept>>

-----------------------------------------------------------------------------
(* add_entry and delete_entry *)

\* Faulty: only the entry of a flow that has one is written
AddIfPresent(f, v) ==
    /\ \E old \in Found(conn, f) :
          conn' = [conn EXCEPT ![f] = IF old = None THEN @ ELSE {v}]
    /\ File(f, conn) /\ UNCHANGED <<remote, strangers, roulette, kept>>

\* add_entry: insert leaves a record that it finds as it is
AddLocal(f, v) ==
    /\ \E old \in Found(conn, f) :
          conn' = [conn EXCEPT ![f] = IF old = None THEN @ \union {v} ELSE @]
    /\ File(f, conn) /\ UNCHANGED <<remote, strangers, roulette, kept>>

\* DBQuery::create_entry with a fresh id: applied by roulette, or not; and
\* applied, but with an empty id in the answer
CreateRemote(id) == roulette' = roulette \union {id} /\ UNCHANGED <<tables, kept>>
CreateUnnamed(id) ==
    roulette' = roulette \union {id} /\ kept' = kept \union {id} /\ UNCHANGED tables

\* add_entry: map_to_remote[ce] = response
SetRemote(f, id) ==
    /\ \E old \in Found(remote, f) : remote' = [remote EXCEPT ![f] = (@ \ {old}) \union {id}]
    /\ File(f, remote) /\ UNCHANGED <<conn, strangers, roulette, kept>>

\* Faulty: connection_map.clear
EraseAll(f) == conn' = EmptyMap /\ UNCHANGED <<remote, strangers, tangled, roulette, kept>>

\* delete_entry: connection_map.erase
EraseLocal(f) ==
    conn' \in Erased(conn, f) /\ UNCHANGED <<remote, strangers, tangled, roulette, kept>>

\* delete_entry: operator[] reads an id, and files the empty one when it finds
\* none
ReadRemote(f, id) ==
    /\ \/ id \in remote[f] /\ UNCHANGED <<remote, tangled>>
       \/ /\ id = NoId /\ None \in Found(remote, f)
          /\ remote' = [remote EXCEPT ![f] = @ \union {NoId}]
          /\ File(f, remote)
    /\ UNCHANGED <<conn, strangers>>

RemoteIds(f) == remote[f] \union {NoId}

\* Faulty: the path of the request names no id, and roulette deletes all
DeletedAll(id) == roulette' = {} /\ UNCHANGED kept

\* DBQuery::delete_entry: applied by roulette; refused; or lost on the way
Deleted(id) == roulette' = roulette \ {id} /\ UNCHANGED kept
Refused(id) == kept' = kept \union ({id} \ {NoId}) /\ UNCHANGED roulette
Lost == UNCHANGED <<roulette, kept>>

\* delete_entry: map_to_remote.erase
EraseRemote(f) ==
    remote' \in Erased(remote, f) /\ UNCHANGED <<conn, strangers, tangled, roulette, kept>>

-----------------------------------------------------------------------------

\* The shared std::map that a thread at l is about to use, and how.  The two
\* kinds of thread use the same names for the steps of an operation.
Writes(l) == CASE l = "classify"                                  -> {"sfc_map"}
               [] l \in {"insert", "del_erase"}                   -> {"connection_map"}
               [] l \in {"remember", "del_remote", "del_forget"}  -> {"map_to_remote"}
               [] OTHER                                           -> {}
Reads(l) == IF l \in {"lookup", "del_find"} THEN {"connection_map"} ELSE {}

\* Two threads, at k and at l, use one std::map at the same time and one of them
\* changes it: undefined behaviour.
Conflict(k, l) == Writes(k) \intersect (Writes(l) \union Reads(l)) # {}

=============================================================================
