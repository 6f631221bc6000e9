----------------------------- MODULE RemoteCall -----------------------------
(***************************************************************************)
(* What a request to roulette promises its caller (dbquery.h:64-74): a     *)
(* request that was answered "ok" has been carried out, one that was       *)
(* refused is never carried out, and of one that threw nothing is known,   *)
(* not even later.  None is carried out twice.                             *)
(***************************************************************************)
CONSTANT Calls

VARIABLES answer,       \* what the caller knows of each request
          applied       \* the requests that roulette has carried out

vars == <<answer, applied>>

Init == answer = [c \in Calls |-> "none"] /\ applied = {}

Ask(c) ==
    /\ answer[c] = "none"
    /\ answer' = [answer EXCEPT ![c] = "asked"]
    /\ UNCHANGED applied

Apply(c) ==
    /\ answer[c] \in {"asked", "thrown"} /\ c \notin applied
    /\ applied' = applied \union {c}
    /\ UNCHANGED answer

Answer(c, a) ==
    /\ answer[c] = "asked"
    /\ a = "true" => c \in applied
    /\ a = "false" => c \notin applied
    /\ answer' = [answer EXCEPT ![c] = a]
    /\ UNCHANGED applied

Next == \E c \in Calls : Ask(c) \/ Apply(c) \/ \E a \in {"true", "false", "thrown"} : Answer(c, a)

Spec == Init /\ [][Next]_vars

=============================================================================
