---------------------------- MODULE ClientLemmas ----------------------------
(***************************************************************************)
(* What the proofs about the operations of a client share: the arithmetic  *)
(* of nodes and attempts, the types of the cluster, and how the number of  *)
(* elements of a set changes.                                              *)
(***************************************************************************)
EXTENDS Cluster, QueueLemmas, FiniteSetTheorems

-----------------------------------------------------------------------------
(* Routing.  Every index is taken to a node, and the index after a failure *)
(* or a redirection is one that can be taken to a node again.              *)

LEMMA WrapType == \A i \in Nat : Wrap(i) \in Nodes
BY NodesAssumption DEF Wrap, Nodes

LEMMA AttemptsType == Attempts \in Nat /\ Attempts >= 3
BY NodesAssumption DEF Attempts

LEMMA NodesType ==
    /\ 0 \in Nodes /\ NoNode \notin Nodes
    /\ Nodes \subseteq 0 .. NumNodes /\ 0 .. NumNodes \subseteq Nat
BY NodesAssumption DEF Nodes

LEMMA NextIndexType ==
    \A n \in Nodes : /\ After(n) \in 0 .. NumNodes
                     /\ \A hint \in Nodes \cup {NoNode} : Redirect(n, hint) \in 0 .. NumNodes
BY NodesAssumption DEF Nodes, After, Redirect

(* The node after a node is the next one, and after the last the first.    *)
LEMMA NextNode ==
    \A n \in Nodes : Wrap(After(n)) = IF n + 1 = NumNodes THEN 0 ELSE n + 1
<1> SUFFICES ASSUME NEW n \in Nodes
             PROVE  Wrap(After(n)) = IF n + 1 = NumNodes THEN 0 ELSE n + 1
  OBVIOUS
<1>1. NumNodes \in Nat /\ NumNodes > 0 /\ n \in Nat /\ n + 1 <= NumNodes
  BY NodesAssumption DEF Nodes
<1>2. CASE n + 1 = NumNodes
  BY <1>1, <1>2 DEF Wrap, After
<1>3. CASE n + 1 < NumNodes
  BY <1>1, <1>3 DEF Wrap, After
<1> QED
  BY <1>1, <1>2, <1>3

(* A round of NumNodes attempts that fail, none of them redirected, visits *)
(* every node (call, call_pipelined and SubscriptionTask::run go on to the *)
(* next index), and a call has three rounds: no node that would serve it   *)
(* is passed over.                                                         *)
THEOREM EveryNodeIsTried ==
    ASSUME NEW v \in [Nodes -> Nodes],
           \A k \in Nodes : k + 1 \in Nodes => v[k + 1] = Wrap(After(v[k]))
    PROVE  {v[k] : k \in Nodes} = Nodes /\ Attempts >= 3 * NumNodes
<1> DEFINE At(k) == IF v[0] + k < NumNodes THEN v[0] + k ELSE v[0] + k - NumNodes
           Wrong == {k \in Nodes : v[k] # At(k)}
<1>1. NumNodes \in Nat /\ NumNodes > 0 /\ 0 \in Nodes /\ v[0] \in Nat /\ v[0] < NumNodes
  BY NodesAssumption, NodesType DEF Nodes
<1>2. Wrong = {}
  <2> SUFFICES ASSUME Wrong # {} PROVE FALSE
    OBVIOUS
  <2>1. Wrong \subseteq Nat
    BY NodesType DEF Nodes
  <2>2. PICK k \in Wrong : \A l \in Wrong : k <= l
    BY <2>1, MinIsLeast
  <2>3. k \in Nodes /\ v[k] # At(k) /\ k \in Nat /\ k < NumNodes
    BY <1>1, <2>2 DEF Nodes
  <2>4. k # 0
    BY <1>1, <2>3
  <2>5. k - 1 \in Nodes /\ (k - 1) + 1 = k
    BY <1>1, <2>3, <2>4 DEF Nodes
  <2>6. k - 1 \notin Wrong
    BY <2>2, <2>3
  <2>7. v[k - 1] = At(k - 1)
    BY <2>5, <2>6
  <2>8. v[k] = IF v[k - 1] + 1 = NumNodes THEN 0 ELSE v[k - 1] + 1
    BY <2>3, <2>5, NextNode
  <2>9. v[k] = At(k)
    BY <1>1, <2>3, <2>4, <2>7, <2>8
  <2> QED
    BY <2>3, <2>9
<1>3. ASSUME NEW n \in Nodes PROVE \E k \in Nodes : v[k] = n
  <2> DEFINE k == IF v[0] <= n THEN n - v[0] ELSE n - v[0] + NumNodes
  <2>1. n \in Nat /\ n < NumNodes
    BY <1>1 DEF Nodes
  <2>2. k \in Nat /\ k < NumNodes /\ At(k) = n
    BY <1>1, <2>1
  <2> HIDE DEF k
  <2>3. k \in Nodes
    BY <1>1, <2>2 DEF Nodes
  <2> QED
    BY <1>2, <2>2, <2>3
<1>4. Attempts >= 3 * NumNodes
  BY <1>1 DEF Attempts
<1> QED
  BY <1>3, <1>4

(* A node never names itself to a client it redirects, nor anything but a  *)
(* node or nobody.                                                         *)
LEMMA HintType ==
    ASSUME ClusterTypeOK, NEW n \in Nodes
    PROVE  Hint(n) \in Nodes \cup {NoNode} /\ Hint(n) # n
BY NodesType DEF Hint, ClusterTypeOK

LEMMA ClusterInitType == ClusterInit => ClusterTypeOK
BY DEF ClusterInit, ClusterTypeOK

LEMMA ClusterStepType ==
    ASSUME ClusterTypeOK, NEW n \in Nodes,
           NewLeader(n) \/ LearnLeader(n) \/ NodeCrash(n) \/ NodeRestart(n)
    PROVE  ClusterTypeOK'
<1>1. CASE NewLeader(n)
  BY <1>1 DEF NewLeader, ClusterTypeOK
<1>2. CASE LearnLeader(n)
  BY <1>2 DEF LearnLeader, ClusterTypeOK
<1>3. CASE NodeCrash(n)
  BY <1>3 DEF NodeCrash, ClusterTypeOK
<1>4. CASE NodeRestart(n)
  BY <1>4 DEF NodeRestart, ClusterTypeOK
<1> QED
  BY <1>1, <1>2, <1>3, <1>4
-----------------------------------------------------------------------------
(* A set that gains one element at most has at most one more.              *)
LEMMA OneMore ==
    ASSUME NEW S, IsFiniteSet(S), NEW x, NEW T \in SUBSET (S \cup {x})
    PROVE  IsFiniteSet(T) /\ Cardinality(T) \in Nat /\ Cardinality(S) \in Nat
           /\ Cardinality(T) <= Cardinality(S) + 1
<1>1. /\ IsFiniteSet(S \cup {x})
      /\ Cardinality(S \cup {x}) = Cardinality(S) \/ Cardinality(S \cup {x}) = Cardinality(S) + 1
  BY FS_AddElement
<1>2. IsFiniteSet(T) /\ Cardinality(T) <= Cardinality(S \cup {x})
  BY <1>1, FS_Subset
<1>3. Cardinality(S) \in Nat /\ Cardinality(T) \in Nat /\ Cardinality(S \cup {x}) \in Nat
  BY <1>1, <1>2, FS_CardinalityType
<1> QED
  BY <1>1, <1>2, <1>3

LEMMA NoMore ==
    ASSUME NEW S, IsFiniteSet(S), NEW T \in SUBSET S
    PROVE  IsFiniteSet(T) /\ Cardinality(T) \in Nat /\ Cardinality(S) \in Nat
           /\ Cardinality(T) <= Cardinality(S)
BY FS_Subset, FS_CardinalityType

LEMMA OneLess ==
    ASSUME NEW S, IsFiniteSet(S), NEW x \in S
    PROVE  IsFiniteSet(S \ {x}) /\ Cardinality(S \ {x}) \in Nat
           /\ Cardinality(S \ {x}) + 1 = Cardinality(S)
<1>1. IsFiniteSet(S \ {x}) /\ Cardinality(S \ {x}) = Cardinality(S) - 1
  BY FS_RemoveElement
<1>2. Cardinality(S) \in Nat
  BY FS_CardinalityType
<1>3. Cardinality(S \ {x}) \in Nat
  BY <1>1, FS_CardinalityType
<1> QED
  BY <1>1, <1>2, <1>3
=============================================================================
