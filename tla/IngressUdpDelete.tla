-------------------------- MODULE IngressUdpDelete --------------------------
(***************************************************************************)
(* IngressUdp with a history variable, for what endpoint.h says of         *)
(* delete_entry: which calls of add_entry had returned when it began.      *)
(***************************************************************************)
EXTENDS IngressUdp

VARIABLE added      \* the datagrams whose add_entry had returned when the
                    \* delete_entry of a reply of their flow found the flow

\* add_entry has run for d and returned
Added(d) == pc[d] \in {"route", "send", "done"}

Record ==
    added' = [r \in Replies |->
                 IF pc[r] = "del_find" /\ pc'[r] = "del_erase"
                 THEN {d \in Datagrams : FlowOf[d] = rflow[r] /\ Added(d)} ELSE added[r]]

DeleteInit == Init /\ added = [r \in Replies |-> {}]
DeleteNext == Next /\ Record
DeleteSpec == DeleteInit /\ [][DeleteNext]_<<vars, added>>

\* "To delete a connection to local map and to remote roulette" (endpoint.h:81):
\* when delete_entry has found a flow and returned, and add_entry ran for each
\* datagram of the flow that was received and had returned before delete_entry
\* began, roulette has no entry of the flow except those that it refused to delete
\* or gave no id for.
DeleteReachesRoulette ==
    \A r \in Replies : LET own == {d \in Datagrams : FlowOf[d] = rflow[r]} IN
        proc = "up" /\ pc[r] = "done" /\ added[r] # {} /\ ~ tangled
            /\ (\A d \in own : pc[d] = "idle" \/ d \in added[r])
            => (roulette \ kept) \intersect own = {}

=============================================================================
