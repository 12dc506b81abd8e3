------------------------------- MODULE Routing ------------------------------
(***************************************************************************)
(* The arithmetic of call, call_pipelined and SubscriptionTask::run: which *)
(* node an attempt goes to, and how many attempts a call has.              *)
(***************************************************************************)
EXTENDS Integers

CONSTANTS
    NumNodes,  \* the length of the list of nodes given to connect
    NoNode     \* no node: an empty leader address, or one not in the list

ASSUME NodesAssumption ==
    /\ NumNodes \in Nat \ {0}  \* connect refuses an empty list
    /\ NoNode \notin Int

Nodes == 0 .. NumNodes - 1

Attempts == IF 3 * NumNodes > 3 THEN 3 * NumNodes ELSE 3

(* The node an attempt with this index goes to.                            *)
Wrap(idx) == idx % NumNodes

(* Seeded fault: the next attempt goes to the node that failed.            *)
AfterStays(i) == i

(* The next index after a failure of node i, and after its redirection to  *)
(* a leader: peer_index(leader_addr).unwrap_or(i + 1).                     *)
After(i) == i + 1
Redirect(i, leader) == IF leader = NoNode THEN After(i) ELSE leader
=============================================================================
