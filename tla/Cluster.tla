------------------------------- MODULE Cluster ------------------------------
(***************************************************************************)
(* The hermesmqd cluster as far as a client can tell (external): the nodes *)
(* that run, the one that leads, and the leader each node would name to a  *)
(* client it redirects.  A belief may be stale after an election, and is   *)
(* empty after a restart.                                                  *)
(***************************************************************************)
EXTENDS Routing

VARIABLES up, leads, knows

clusterVars == <<up, leads, knows>>

ClusterTypeOK ==
    /\ up \subseteq Nodes
    /\ leads \in up \cup {NoNode}
    /\ knows \in [Nodes -> Nodes \cup {NoNode}]

ClusterInit ==
    /\ up = Nodes
    /\ leads \in Nodes
    /\ knows = [n \in Nodes |-> leads]

(* The leader_addr of a not_leader error of node n.                        *)
Hint(n) == IF knows[n] = n THEN NoNode ELSE knows[n]

NewLeader(n) ==
    /\ n \in up /\ n # leads
    /\ leads' = n
    /\ knows' = [knows EXCEPT ![n] = n]
    /\ UNCHANGED up

LearnLeader(n) ==
    /\ n \in up /\ leads # NoNode /\ knows[n] # leads
    /\ knows' = [knows EXCEPT ![n] = leads]
    /\ UNCHANGED <<up, leads>>

NodeCrash(n) ==
    /\ n \in up
    /\ up' = up \ {n}
    /\ leads' = IF leads = n THEN NoNode ELSE leads
    /\ UNCHANGED knows

NodeRestart(n) ==
    /\ n \notin up
    /\ up' = up \cup {n}
    /\ knows' = [knows EXCEPT ![n] = NoNode]
    /\ UNCHANGED leads

(* A leader is in office, and every running node that names one names it.  *)
Settled ==
    /\ leads # NoNode
    /\ \A n \in up : knows[n] \in {leads, NoNode}
=============================================================================
