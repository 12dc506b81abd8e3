--------------------------- MODULE RequestChannel ---------------------------
(***************************************************************************)
(* What a produce pipeline promises to the callers that share it, without  *)
(* its queues, tasks and sockets.  Every call ends at most once:           *)
(*                                                                         *)
(*   "ok"        with the answer to its own request, which the node served *)
(*   "failed"    nothing is known: the node may have served the request,   *)
(*               and may still serve it after the caller has given up      *)
(*   "rejected"  the node has not served the request and never will        *)
(*                                                                         *)
(* and the node serves a request at most once, whatever the caller saw.    *)
(***************************************************************************)
CONSTANTS
    Requests,  \* the calls made through the channel, one request each
    None       \* no answer

VARIABLES
    phase,     \* [Requests -> Phases]: what the caller knows
    answer,    \* [Requests -> Requests \cup {None}]: whose answer it was given
    served     \* the requests the node has served

vars == <<phase, answer, served>>

Phases == {"new", "pending", "ok", "failed", "rejected"}

Init ==
    /\ phase = [r \in Requests |-> "new"]
    /\ answer = [r \in Requests |-> None]
    /\ served = {}

Submit(r) ==
    /\ phase[r] = "new"
    /\ phase' = [phase EXCEPT ![r] = "pending"]
    /\ UNCHANGED <<answer, served>>

(* A request is served once, after it was submitted, also when its caller  *)
(* has already given up, but never when its caller was told "rejected".    *)
Serve(r) ==
    /\ phase[r] \in {"pending", "failed"}
    /\ r \notin served
    /\ served' = served \cup {r}
    /\ UNCHANGED <<phase, answer>>

Succeed(r) ==
    /\ phase[r] = "pending"
    /\ r \in served
    /\ phase' = [phase EXCEPT ![r] = "ok"]
    /\ answer' = [answer EXCEPT ![r] = r]
    /\ UNCHANGED served

(* One failure of the connection settles several calls in one step.        *)
Fail(S) ==
    /\ \A r \in S : phase[r] = "pending"
    /\ \E lost \in SUBSET S :
         /\ \A r \in S \ lost : r \notin served
         /\ phase' = [r \in Requests |->
                        IF r \in lost THEN "failed"
                        ELSE IF r \in S THEN "rejected"
                        ELSE phase[r]]
    /\ UNCHANGED <<answer, served>>

Next ==
    \/ \E r \in Requests : Submit(r) \/ Serve(r) \/ Succeed(r)
    \/ \E S \in SUBSET Requests : Fail(S)

Spec == Init /\ [][Next]_vars
=============================================================================
