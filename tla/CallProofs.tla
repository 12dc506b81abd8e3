----------------------------- MODULE CallProofs -----------------------------
(***************************************************************************)
(* Theorems about module CallClient, for any number of nodes, operations   *)
(* and streams, any size of the pools and any amount of trouble.           *)
(***************************************************************************)
EXTENDS CallClient, ClientLemmas, SequenceTheorems

-----------------------------------------------------------------------------
(* The invariant.                                                          *)

RequestType == [caller : Callers, step : Nat]

ReplyType == [to : RequestType, kind : {"ok", "error", "not_leader"},
              leader : Nodes \cup {NoNode}]

DataInv ==
    /\ pc \in [Callers -> {"start", "attempt", "pooled", "connect", "fresh", "done"}]
    /\ step \in [Callers -> Nat] /\ \A c \in Callers : step[c] >= 1 /\ step[c] <= Requests[c]
    /\ attempt \in [Callers -> 0 .. Attempts - 1]
    /\ idx \in [Callers -> 0 .. NumNodes]
    /\ stream \in [Callers -> Streams \cup {NoStream}]
    /\ result \in [Callers -> {"none", "ok", "error"}]
    /\ leader \in Nodes
    /\ peer \in [Streams -> Nodes]
    /\ alive \in [Streams -> BOOLEAN]
    /\ sent \in [Streams -> Seq(RequestType)]
    /\ replies \in [Streams -> Seq(ReplyType)]
    /\ ClusterTypeOK
    /\ applied \subseteq RequestType
    /\ faults \in 0 .. MaxFaults

(* No stream is twice in a pool, and a pool is within its limit and has    *)
(* streams to its node.                                                    *)
PoolsInv ==
    /\ pools \in [Nodes -> Seq(Streams)]
    /\ \A i \in Nodes : Len(pools[i]) <= MaxIdlePerNode
    /\ \A i \in Nodes : \A k, l \in 1 .. Len(pools[i]) : pools[i][k] = pools[i][l] => k = l
    /\ \A i \in Nodes : \A k \in 1 .. Len(pools[i]) : peer[pools[i][k]] = i

(* A parked stream is idle, and nobody has it.                             *)
ParkedInv ==
    \A i \in Nodes : \A k \in 1 .. Len(pools[i]) :
        /\ sent[pools[i][k]] = <<>> /\ replies[pools[i][k]] = <<>>
        /\ \A c \in Callers : stream[c] # pools[i][k]

(* An operation has a stream, its own, while it is in request_on and at no *)
(* other time; and a stream that nobody has is closed.                     *)
HoldInv ==
    /\ \A c \in Callers : Waiting(c) <=> stream[c] # NoStream
    /\ \A c \in Callers : Waiting(c) => peer[stream[c]] = Node(c)
    /\ \A c, d \in Callers : stream[c] = stream[d] /\ stream[c] # NoStream => c = d
    /\ \A s \in Streams : alive[s] \/ replies[s] # <<>> =>
         \/ \E i \in Nodes : \E k \in 1 .. Len(pools[i]) : pools[i][k] = s
         \/ \E c \in Callers : stream[c] = s

(* One request at a time is on a stream; on the one of an operation it is  *)
(* the request the operation waits for, or the response to it is there.    *)
PairInv ==
    /\ \A s \in Streams : Len(sent[s]) <= 1 /\ Len(replies[s]) <= 1
    /\ \A c \in Callers : Waiting(c) =>
         /\ sent[stream[c]] # <<>> =>
              Head(sent[stream[c]]) = Request(c) /\ replies[stream[c]] = <<>>
         /\ replies[stream[c]] # <<>> => Head(replies[stream[c]]).to = Request(c)

(* Whatever was sent, even on a stream dropped since, was the request of a *)
(* step the operation has come to; a good response comes after the request *)
(* is carried out, and an operation goes on after a good response.         *)
StepInv ==
    /\ \A s \in Streams : sent[s] # <<>> =>
         Head(sent[s]).step <= step[Head(sent[s]).caller]
    /\ \A s \in Streams : replies[s] # <<>> /\ Head(replies[s]).kind = "ok" =>
         Head(replies[s]).to \in applied
    /\ \A r \in applied : r.step <= step[r.caller]
    /\ \A c \in Callers : \A j \in Nat :
         1 <= j /\ j < step[c] => [caller |-> c, step |-> j] \in applied
    /\ \A c \in Callers : result[c] = "ok" => [caller |-> c, step |-> Requests[c]] \in applied

IInv == DataInv /\ PoolsInv /\ ParkedInv /\ HoldInv /\ PairInv /\ StepInv
-----------------------------------------------------------------------------
(* Pools.                                                                  *)

LEMMA InPoolType ==
    ASSUME PoolsInv, NEW i \in Nodes, NEW k \in 1 .. Len(pools[i])
    PROVE  pools[i][k] \in Streams
BY ElementOfSeq DEF PoolsInv

LEMMA PopEffect ==
    ASSUME PoolsInv, NEW i \in Nodes, pools[i] # <<>>,
           pools' = [pools EXCEPT ![i] = SubSeq(pools[i], 1, Len(pools[i]) - 1)], peer' = peer
    PROVE  /\ PoolsInv'
           /\ pools[i][Len(pools[i])] \in Streams /\ Len(pools[i]) \in 1 .. Len(pools[i])
           /\ peer[pools[i][Len(pools[i])]] = i
           /\ \A j \in Nodes : \A k \in 1 .. Len(pools'[j]) :
                /\ k \in 1 .. Len(pools[j]) /\ pools'[j][k] = pools[j][k]
                /\ pools'[j][k] # pools[i][Len(pools[i])]
           /\ \A j \in Nodes : \A k \in 1 .. Len(pools[j]) :
                pools[j][k] # pools[i][Len(pools[i])] =>
                  k \in 1 .. Len(pools'[j]) /\ pools'[j][k] = pools[j][k]
<1> DEFINE n == Len(pools[i])
<1>1. pools[i] \in Seq(Streams) /\ n \in Nat /\ n # 0
  BY LenProperties, EmptySeq DEF PoolsInv
<1>2. /\ n - 1 \in Nat /\ n \in 1 .. n /\ pools[i][n] \in Streams /\ peer[pools[i][n]] = i
  BY <1>1, ElementOfSeq DEF PoolsInv
<1>3. /\ pools'[i] \in Seq(Streams) /\ Len(pools'[i]) = n - 1
      /\ \A k \in 1 .. n - 1 : pools'[i][k] = pools[i][k]
  <2>1. pools'[i] = SubSeq(pools[i], 1, n - 1)
    BY DEF PoolsInv
  <2>2. \A k \in 1 .. n - 1 : pools[i][k] \in Streams
    BY <1>1, <1>2, ElementOfSeq
  <2>3. /\ SubSeq(pools[i], 1, n - 1) \in Seq(Streams)
        /\ Len(SubSeq(pools[i], 1, n - 1)) = n - 1
        /\ \A k \in 1 .. n - 1 : SubSeq(pools[i], 1, n - 1)[k] = pools[i][k]
    <3> HIDE DEF n
    <3> QED
      BY <1>1, <1>2, <2>2, SubSeqProperties
  <2> QED
    BY <2>1, <2>3
<1>4. \A j \in Nodes \ {i} : pools'[j] = pools[j]
  BY DEF PoolsInv
<1>5. pools' \in [Nodes -> Seq(Streams)] /\ \A j \in Nodes : Len(pools[j]) \in Nat
  BY <1>3, <1>4, LenProperties DEF PoolsInv
<1>6. ASSUME NEW j \in Nodes, NEW k \in 1 .. Len(pools'[j])
      PROVE  /\ k \in 1 .. Len(pools[j]) /\ pools'[j][k] = pools[j][k]
             /\ pools'[j][k] # pools[i][n]
  <2>1. CASE j = i
    <3>1. k \in 1 .. n - 1 /\ k \in 1 .. n /\ k # n
      BY <1>1, <1>3, <1>6, <2>1
    <3> QED
      BY <1>2, <1>3, <2>1, <3>1 DEF PoolsInv
  <2>2. CASE j # i
    BY <1>2, <1>4, <1>6, <2>2 DEF PoolsInv
  <2> QED
    BY <2>1, <2>2
<1>7. \A j \in Nodes : Len(pools'[j]) <= MaxIdlePerNode
  BY <1>1, <1>3, <1>4, CallAssumption DEF PoolsInv
<1>8. PoolsInv'
  BY <1>5, <1>6, <1>7 DEF PoolsInv
<1>9. ASSUME NEW j \in Nodes, NEW k \in 1 .. Len(pools[j]), pools[j][k] # pools[i][n]
      PROVE  k \in 1 .. Len(pools'[j]) /\ pools'[j][k] = pools[j][k]
  BY <1>1, <1>3, <1>4, <1>9
<1> QED
  BY <1>2, <1>6, <1>8, <1>9

LEMMA PushEffect ==
    ASSUME PoolsInv, NEW i \in Nodes, NEW s \in Streams, Len(pools[i]) < MaxIdlePerNode,
           \A j \in Nodes : \A k \in 1 .. Len(pools[j]) : pools[j][k] # s,
           pools' = [pools EXCEPT ![i] = Append(pools[i], s)], peer' = peer, peer[s] = i
    PROVE  /\ PoolsInv'
           /\ \A j \in Nodes : \A k \in 1 .. Len(pools'[j]) :
                \/ k \in 1 .. Len(pools[j]) /\ pools'[j][k] = pools[j][k]
                \/ j = i /\ k = Len(pools[i]) + 1 /\ pools'[j][k] = s
           /\ \A j \in Nodes : \A k \in 1 .. Len(pools[j]) :
                k \in 1 .. Len(pools'[j]) /\ pools'[j][k] = pools[j][k]
           /\ Len(pools[i]) + 1 \in 1 .. Len(pools'[i]) /\ pools'[i][Len(pools[i]) + 1] = s
<1> DEFINE n == Len(pools[i])
<1>1. pools[i] \in Seq(Streams) /\ n \in Nat
  BY LenProperties DEF PoolsInv
<1>2. /\ pools'[i] \in Seq(Streams) /\ Len(pools'[i]) = n + 1
      /\ \A k \in 1 .. n : pools'[i][k] = pools[i][k]
      /\ pools'[i][n + 1] = s
  BY <1>1, AppendProperties DEF PoolsInv
<1>3. \A j \in Nodes \ {i} : pools'[j] = pools[j]
  BY DEF PoolsInv
<1>4. pools' \in [Nodes -> Seq(Streams)] /\ \A j \in Nodes : Len(pools[j]) \in Nat
  BY <1>2, <1>3, LenProperties DEF PoolsInv
<1>5. ASSUME NEW j \in Nodes, NEW k \in 1 .. Len(pools'[j])
      PROVE  \/ k \in 1 .. Len(pools[j]) /\ pools'[j][k] = pools[j][k]
             \/ j = i /\ k = n + 1 /\ pools'[j][k] = s
  BY <1>1, <1>2, <1>3, <1>5
<1>6. ASSUME NEW j \in Nodes, NEW k \in 1 .. Len(pools[j])
      PROVE  k \in 1 .. Len(pools'[j]) /\ pools'[j][k] = pools[j][k]
  BY <1>1, <1>2, <1>3, <1>6
<1>7. n + 1 \in 1 .. Len(pools'[i])
  BY <1>1, <1>2
<1>8. \A j \in Nodes : Len(pools'[j]) <= MaxIdlePerNode
  BY <1>1, <1>2, <1>3, CallAssumption DEF PoolsInv
<1>9. ASSUME NEW j \in Nodes, NEW k \in 1 .. Len(pools'[j]), NEW l \in 1 .. Len(pools'[j]),
             pools'[j][k] = pools'[j][l]
      PROVE  k = l
  BY <1>5, <1>9 DEF PoolsInv
<1>10. PoolsInv'
  BY <1>4, <1>5, <1>8, <1>9 DEF PoolsInv
<1> QED
  BY <1>2, <1>5, <1>6, <1>7, <1>10
-----------------------------------------------------------------------------
(* Streams hold one request or one response.                               *)

LEMMA OneInSeq ==
    ASSUME NEW S, NEW q \in Seq(S), q # <<>>, Len(q) <= 1
    PROVE  Len(q) = 1 /\ Tail(q) = <<>> /\ Head(q) \in S
<1>1. Len(q) \in Nat /\ Len(q) # 0
  BY LenProperties, EmptySeq
<1>2. Len(q) = 1
  BY <1>1
<1>3. Tail(q) \in Seq(S) /\ Len(Tail(q)) = 0 /\ Head(q) \in S
  BY <1>2, HeadTailProperties
<1> QED
  BY <1>2, <1>3, EmptySeq

LEMMA OneAppended ==
    ASSUME NEW S, NEW x \in S
    PROVE  /\ <<x>> \in Seq(S) /\ <<x>> # <<>> /\ Len(<<x>>) = 1 /\ Head(<<x>>) = x
           /\ Append(<<>>, x) = <<x>>
<1>1. <<>> \in Seq(S) /\ Len(<<>>) = 0
  BY EmptySeq
<1>2. <<x>> = Append(<<>>, x)
  OBVIOUS
<1> QED
  BY <1>1, <1>2, AppendProperties

LEMMA NodeType ==
    ASSUME DataInv, NEW c \in Callers
    PROVE  Node(c) \in Nodes /\ After(Node(c)) \in 0 .. NumNodes /\ Request(c) \in RequestType
<1>1. idx[c] \in Nat /\ step[c] \in Nat
  BY NodesType DEF DataInv
<1> QED
  BY <1>1, WrapType, NextIndexType DEF Node, Request, RequestType

LEMMA HeldType ==
    ASSUME DataInv, HoldInv, NEW c \in Callers, Waiting(c)
    PROVE  /\ stream[c] \in Streams /\ stream[c] # NoStream /\ peer[stream[c]] = Node(c)
           /\ \A d \in Callers \ {c} : stream[d] # stream[c]
BY DEF DataInv, HoldInv

LEMMA NextAttemptEffect ==
    ASSUME DataInv, NEW c \in Callers, NEW next \in 0 .. NumNodes, NextAttempt(c, next)
    PROVE  /\ pc' \in [Callers -> {"start", "attempt", "pooled", "connect", "fresh", "done"}]
           /\ attempt' \in [Callers -> 0 .. Attempts - 1]
           /\ idx' \in [Callers -> 0 .. NumNodes]
           /\ result' \in [Callers -> {"none", "ok", "error"}]
           /\ step' = step
           /\ \A d \in Callers \ {c} :
                pc'[d] = pc[d] /\ idx'[d] = idx[d] /\ result'[d] = result[d]
           /\ pc'[c] \in {"attempt", "done"} /\ result'[c] \in {result[c], "error"}
<1>1. attempt[c] \in Nat /\ Attempts \in Nat
  BY AttemptsType DEF DataInv
<1>2. CASE attempt[c] + 1 < Attempts
  <2>1. /\ idx' = [idx EXCEPT ![c] = next] /\ attempt' = [attempt EXCEPT ![c] = attempt[c] + 1]
        /\ pc' = [pc EXCEPT ![c] = "attempt"] /\ result' = result /\ step' = step
    BY <1>2 DEF NextAttempt
  <2>2. attempt[c] + 1 \in 0 .. Attempts - 1
    BY <1>1, <1>2
  <2> QED
    BY <2>1, <2>2 DEF DataInv
<1>3. CASE ~(attempt[c] + 1 < Attempts)
  <2>1. /\ idx' = [idx EXCEPT ![c] = next] /\ attempt' = attempt /\ step' = step
        /\ pc' = [pc EXCEPT ![c] = "done"] /\ result' = [result EXCEPT ![c] = "error"]
    BY <1>3 DEF NextAttempt
  <2> QED
    BY <2>1 DEF DataInv
<1> QED
  BY <1>2, <1>3
-----------------------------------------------------------------------------
(* The invariant is preserved, one kind of step at a time.                 *)

(* An operation moves between its requests and connections.                *)
LEMMA MovesStep ==
    ASSUME IInv, NEW c \in Callers, Start(c) \/ PoolIsEmpty(c) \/ FreshFails(c)
    PROVE  IInv'
<1> USE DEF innerVars, streamVars, clusterVars
<1>0. Node(c) \in Nodes /\ After(Node(c)) \in 0 .. NumNodes
  BY NodeType DEF IInv
<1>1. /\ UNCHANGED <<step, stream, leader, pools, peer, alive, sent, replies, up, leads, knows,
              applied>>
      /\ faults' \in 0 .. MaxFaults
      /\ pc[c] \in {"start", "attempt", "connect"}
      /\ pc'[c] \in {"attempt", "connect", "done"} /\ result'[c] \in {result[c], "error"}
      /\ \A d \in Callers \ {c} : pc'[d] = pc[d] /\ idx'[d] = idx[d] /\ result'[d] = result[d]
      /\ pc' \in [Callers -> {"start", "attempt", "pooled", "connect", "fresh", "done"}]
      /\ attempt' \in [Callers -> 0 .. Attempts - 1]
      /\ idx' \in [Callers -> 0 .. NumNodes]
      /\ result' \in [Callers -> {"none", "ok", "error"}]
  <2>1. CASE Start(c)
    <3>1. leader \in 0 .. NumNodes /\ 0 \in 0 .. Attempts - 1
      BY NodesType, AttemptsType DEF IInv, DataInv
    <3> QED
      BY <2>1, <3>1 DEF Start, IInv, DataInv
  <2>2. CASE PoolIsEmpty(c)
    BY <2>2 DEF PoolIsEmpty, IInv, DataInv
  <2>3. CASE FreshFails(c)
    <3>1. faults' \in 0 .. MaxFaults
      BY <2>3, CallAssumption DEF FreshFails, Trouble, IInv, DataInv
    <3> QED
      BY <1>0, <2>3, <3>1, NextAttemptEffect DEF FreshFails, IInv
  <2> QED
    BY <2>1, <2>2, <2>3
<1>2. DataInv' /\ PoolsInv' /\ ParkedInv'
  <2>1. DataInv'
    BY <1>1 DEF IInv, DataInv, ClusterTypeOK
  <2>2. PoolsInv' /\ ParkedInv'
    BY <1>1 DEF IInv, PoolsInv, ParkedInv
  <2> QED
    BY <2>1, <2>2
<1>3. \A d \in Callers : /\ Waiting(d)' <=> Waiting(d)
                         /\ Waiting(d) => Node(d)' = Node(d)
                         /\ Request(d)' = Request(d)
  BY <1>1 DEF Waiting, Node, Request
<1>4. HoldInv'
  BY <1>1, <1>3 DEF IInv, HoldInv
<1>5. PairInv'
  BY <1>1, <1>3 DEF IInv, PairInv
<1>6. StepInv'
  BY <1>1 DEF IInv, StepInv
<1> QED
  BY <1>2, <1>4, <1>5, <1>6 DEF IInv

(* request_on with the stream that was parked last.                        *)
LEMMA TakeStep ==
    ASSUME IInv, NEW c \in Callers, TakePooled(c)
    PROVE  IInv'
<1> USE DEF clusterVars
<1> DEFINE i == Node(c)
           n == Len(pools[i])
           s == pools[i][n]
<1>0. i \in Nodes /\ Request(c) \in RequestType
  BY NodeType DEF IInv
<1>1. /\ pc[c] = "attempt" /\ pools[i] # <<>>
      /\ pools' = [pools EXCEPT ![i] = SubSeq(pools[i], 1, n - 1)]
      /\ stream' = [stream EXCEPT ![c] = s]
      /\ sent' = IF alive[s] THEN [sent EXCEPT ![s] = Append(sent[s], Request(c))] ELSE sent
      /\ pc' = [pc EXCEPT ![c] = "pooled"]
      /\ UNCHANGED <<step, attempt, idx, result, leader, peer, alive, replies, up, leads, knows,
              applied, faults>>
  BY DEF TakePooled
<1>2. /\ PoolsInv' /\ s \in Streams /\ n \in 1 .. n /\ peer[s] = i
      /\ \A j \in Nodes : \A k \in 1 .. Len(pools'[j]) :
           k \in 1 .. Len(pools[j]) /\ pools'[j][k] = pools[j][k] /\ pools'[j][k] # s
      /\ \A j \in Nodes : \A k \in 1 .. Len(pools[j]) :
           pools[j][k] # s => k \in 1 .. Len(pools'[j]) /\ pools'[j][k] = pools[j][k]
  BY <1>0, <1>1, PopEffect DEF IInv
<1>3. /\ sent[s] = <<>> /\ replies[s] = <<>>
      /\ \A d \in Callers : stream[d] # s
  BY <1>0, <1>2 DEF IInv, ParkedInv
<1> HIDE DEF s, n
<1>4. /\ sent' \in [Streams -> Seq(RequestType)]
      /\ \A t \in Streams \ {s} : sent'[t] = sent[t]
      /\ Len(sent'[s]) <= 1
      /\ sent'[s] # <<>> => Head(sent'[s]) = Request(c)
  <2>1. /\ <<Request(c)>> \in Seq(RequestType) /\ Len(<<Request(c)>>) = 1
        /\ Head(<<Request(c)>>) = Request(c) /\ Append(<<>>, Request(c)) = <<Request(c)>>
    BY <1>0, OneAppended
  <2>2. Len(<<>>) = 0
    BY EmptySeq
  <2> QED
    BY <1>1, <1>2, <1>3, <2>1, <2>2 DEF IInv, DataInv
<1>5. DataInv'
  BY <1>1, <1>2, <1>4 DEF IInv, DataInv, ClusterTypeOK
<1>6. /\ stream'[c] = s /\ \A d \in Callers \ {c} : stream'[d] = stream[d]
      /\ pc'[c] = "pooled" /\ \A d \in Callers \ {c} : pc'[d] = pc[d]
      /\ \A d \in Callers : Node(d)' = Node(d) /\ Request(d)' = Request(d)
  BY <1>1 DEF IInv, DataInv, Node, Request
<1>7. ~Waiting(c) /\ Waiting(c)' /\ \A d \in Callers \ {c} : Waiting(d)' <=> Waiting(d)
  BY <1>1, <1>6 DEF Waiting
<1>8. ParkedInv'
  <2>1. ASSUME NEW j \in Nodes, NEW k \in 1 .. Len(pools'[j])
        PROVE  /\ sent'[pools'[j][k]] = <<>> /\ replies'[pools'[j][k]] = <<>>
               /\ \A d \in Callers : stream'[d] # pools'[j][k]
    <3>1. k \in 1 .. Len(pools[j]) /\ pools'[j][k] = pools[j][k] /\ pools[j][k] # s
      BY <1>2, <2>1
    <3>2. pools[j][k] \in Streams
      BY <3>1, InPoolType DEF IInv
    <3>3. /\ sent[pools[j][k]] = <<>> /\ replies[pools[j][k]] = <<>>
          /\ \A d \in Callers : stream[d] # pools[j][k]
      BY <3>1 DEF IInv, ParkedInv
    <3> QED
      BY <1>1, <1>4, <1>6, <3>1, <3>2, <3>3
  <2> QED
    BY <2>1 DEF ParkedInv
<1>9. HoldInv'
  <2>1. \A d \in Callers : Waiting(d)' <=> stream'[d] # NoStream
    BY <1>2, <1>6, <1>7, CallAssumption DEF IInv, HoldInv
  <2>2. \A d \in Callers : Waiting(d)' => peer'[stream'[d]] = Node(d)'
    BY <1>1, <1>2, <1>6, <1>7 DEF IInv, HoldInv
  <2>3. \A d, e \in Callers : stream'[d] = stream'[e] /\ stream'[d] # NoStream => d = e
    BY <1>3, <1>6 DEF IInv, HoldInv
  <2>4. \A t \in Streams : alive'[t] \/ replies'[t] # <<>> =>
          \/ \E j \in Nodes : \E k \in 1 .. Len(pools'[j]) : pools'[j][k] = t
          \/ \E d \in Callers : stream'[d] = t
    <3> SUFFICES ASSUME NEW t \in Streams, alive[t] \/ replies[t] # <<>>, t # s
                 PROVE  \/ \E j \in Nodes : \E k \in 1 .. Len(pools'[j]) : pools'[j][k] = t
                        \/ \E d \in Callers : stream'[d] = t
      BY <1>1, <1>6
    <3>1. CASE \E d \in Callers : stream[d] = t
      <4>1. PICK d \in Callers : stream[d] = t
        BY <3>1
      <4>2. d # c
        BY <1>7, <4>1, CallAssumption DEF IInv, HoldInv
      <4> QED
        BY <1>6, <4>1, <4>2
    <3>2. CASE \E j \in Nodes : \E k \in 1 .. Len(pools[j]) : pools[j][k] = t
      BY <1>2, <3>2
    <3> QED
      BY <3>1, <3>2 DEF IInv, HoldInv
  <2> QED
    BY <2>1, <2>2, <2>3, <2>4 DEF HoldInv
<1>10. PairInv'
  <2>1. \A d \in Callers \ {c} : Waiting(d) => stream[d] \in Streams \ {s}
    BY <1>3, HeldType DEF IInv
  <2> QED
    BY <1>1, <1>3, <1>4, <1>6, <1>7, <2>1 DEF IInv, PairInv
<1>11. StepInv'
  <2>1. Request(c).step = step[c] /\ Request(c).caller = c /\ step[c] \in Nat
    BY DEF Request, IInv, DataInv
  <2> QED
    BY <1>1, <1>4, <2>1 DEF IInv, StepInv
<1> QED
  BY <1>2, <1>5, <1>8, <1>9, <1>10, <1>11 DEF IInv

(* request_on with a stream that has just been connected.                  *)
LEMMA FreshStep ==
    ASSUME IInv, NEW c \in Callers, Fresh(c)
    PROVE  IInv'
<1> USE DEF innerVars, clusterVars
<1> DEFINE i == Node(c)
           s == Min(Free)
<1>0. i \in Nodes /\ Request(c) \in RequestType
  BY NodeType DEF IInv
<1>1. /\ pc[c] = "connect" /\ Free # {}
      /\ stream' = [stream EXCEPT ![c] = s]
      /\ peer' = [peer EXCEPT ![s] = i]
      /\ alive' = [alive EXCEPT ![s] = TRUE]
      /\ sent' = [sent EXCEPT ![s] = <<Request(c)>>]
      /\ replies' = [replies EXCEPT ![s] = <<>>]
      /\ pc' = [pc EXCEPT ![c] = "fresh"]
      /\ UNCHANGED <<step, attempt, idx, result, leader, pools, up, leads, knows, applied, faults>>
  BY DEF Fresh
<1>2. s \in Free
  <2>1. Free \subseteq Streams /\ Free \in SUBSET Nat
    BY CallAssumption DEF Free
  <2> QED
    BY <1>1, <2>1, MinIsLeast
<1>3. /\ s \in Streams
      /\ \A d \in Callers : stream[d] # s
      /\ \A j \in Nodes : \A k \in 1 .. Len(pools[j]) : pools[j][k] # s
  <2>1. s \in Streams /\ s \notin Range(stream) /\ ~Parked(s)
    BY <1>2 DEF Free
  <2>2. \A j \in Nodes : DOMAIN pools[j] = 1 .. Len(pools[j])
    BY LenProperties DEF IInv, PoolsInv
  <2> QED
    BY <2>1, <2>2 DEF Parked, Range, IInv, DataInv
<1> HIDE DEF s
<1>4. /\ <<Request(c)>> \in Seq(RequestType) /\ Len(<<Request(c)>>) = 1
      /\ <<>> \in Seq(ReplyType) /\ Len(<<>>) = 0
      /\ Head(<<Request(c)>>) = Request(c) /\ <<Request(c)>> # <<>>
  BY <1>0, OneAppended, EmptySeq
<1>5. DataInv'
  BY <1>0, <1>1, <1>3, <1>4 DEF IInv, DataInv, ClusterTypeOK
<1>6. /\ stream'[c] = s /\ \A d \in Callers \ {c} : stream'[d] = stream[d]
      /\ pc'[c] = "fresh" /\ \A d \in Callers \ {c} : pc'[d] = pc[d]
      /\ \A d \in Callers : Node(d)' = Node(d) /\ Request(d)' = Request(d)
      /\ peer'[s] = i /\ alive'[s] = TRUE /\ sent'[s] = <<Request(c)>> /\ replies'[s] = <<>>
      /\ \A t \in Streams \ {s} : peer'[t] = peer[t] /\ alive'[t] = alive[t]
                                  /\ sent'[t] = sent[t] /\ replies'[t] = replies[t]
  BY <1>1, <1>3 DEF IInv, DataInv, Node, Request
<1>7. ~Waiting(c) /\ Waiting(c)' /\ \A d \in Callers \ {c} : Waiting(d)' <=> Waiting(d)
  BY <1>1, <1>6 DEF Waiting
<1>8. PoolsInv' /\ ParkedInv'
  <2>1. ASSUME NEW j \in Nodes, NEW k \in 1 .. Len(pools[j])
        PROVE  /\ peer'[pools[j][k]] = j
               /\ sent'[pools[j][k]] = <<>> /\ replies'[pools[j][k]] = <<>>
               /\ \A d \in Callers : stream'[d] # pools[j][k]
    <3>1. pools[j][k] \in Streams \ {s}
      BY <1>3, InPoolType DEF IInv
    <3>2. /\ peer[pools[j][k]] = j
          /\ sent[pools[j][k]] = <<>> /\ replies[pools[j][k]] = <<>>
          /\ \A d \in Callers : stream[d] # pools[j][k]
      BY DEF IInv, PoolsInv, ParkedInv
    <3> QED
      BY <1>6, <3>1, <3>2
  <2> QED
    BY <1>1, <2>1 DEF IInv, PoolsInv, ParkedInv
<1>9. HoldInv'
  <2>1. \A d \in Callers : Waiting(d)' <=> stream'[d] # NoStream
    BY <1>3, <1>6, <1>7, CallAssumption DEF IInv, HoldInv
  <2>2. \A d \in Callers : Waiting(d)' => peer'[stream'[d]] = Node(d)'
    BY <1>3, <1>6, <1>7, HeldType DEF IInv
  <2>3. \A d, e \in Callers : stream'[d] = stream'[e] /\ stream'[d] # NoStream => d = e
    BY <1>3, <1>6 DEF IInv, HoldInv
  <2>4. \A t \in Streams : alive'[t] \/ replies'[t] # <<>> =>
          \/ \E j \in Nodes : \E k \in 1 .. Len(pools'[j]) : pools'[j][k] = t
          \/ \E d \in Callers : stream'[d] = t
    <3> SUFFICES ASSUME NEW t \in Streams, alive[t] \/ replies[t] # <<>>, t # s
                 PROVE  \/ \E j \in Nodes : \E k \in 1 .. Len(pools[j]) : pools[j][k] = t
                        \/ \E d \in Callers : stream'[d] = t
      BY <1>1, <1>6
    <3>1. CASE \E d \in Callers : stream[d] = t
      <4>1. PICK d \in Callers : stream[d] = t
        BY <3>1
      <4>2. d # c
        BY <1>7, <4>1, CallAssumption DEF IInv, HoldInv
      <4> QED
        BY <1>6, <4>1, <4>2
    <3> QED
      BY <3>1 DEF IInv, HoldInv
  <2> QED
    BY <2>1, <2>2, <2>3, <2>4 DEF HoldInv
<1>10. PairInv'
  <2>1. \A d \in Callers \ {c} : Waiting(d) => stream[d] \in Streams \ {s}
    BY <1>3, HeldType DEF IInv
  <2>2. ASSUME NEW t \in Streams
        PROVE  Len(sent'[t]) <= 1 /\ Len(replies'[t]) <= 1
    <3>1. sent'[s] = <<Request(c)>> /\ replies'[s] = <<>>
      BY <1>6
    <3>2. CASE t = s
      <4>1. Len(sent'[s]) = 1 /\ Len(replies'[s]) = 0
        BY <1>4, <3>1
      <4>2. 1 <= 1 /\ 0 <= 1
        OBVIOUS
      <4>3. Len(sent'[s]) <= 1 /\ Len(replies'[s]) <= 1
        BY <4>1, <4>2
      <4> QED
        BY <3>2, <4>3
    <3>3. CASE t # s
      <4>1. Len(sent[t]) <= 1 /\ Len(replies[t]) <= 1
        BY DEF IInv, PairInv
      <4>2. sent'[t] = sent[t] /\ replies'[t] = replies[t]
        BY <1>6, <3>3
      <4> QED
        BY <4>1, <4>2
    <3> QED
      BY <3>2, <3>3
  <2>3. ASSUME NEW d \in Callers \ {c}, Waiting(d)
        PROVE  /\ sent'[stream[d]] # <<>> =>
                    Head(sent'[stream[d]]) = Request(d) /\ replies'[stream[d]] = <<>>
               /\ replies'[stream[d]] # <<>> => Head(replies'[stream[d]]).to = Request(d)
    BY <1>6, <2>1, <2>3 DEF IInv, PairInv
  <2> QED
    BY <1>4, <1>6, <1>7, <2>2, <2>3 DEF PairInv
<1>11. StepInv'
  <2>1. Request(c).step = step[c] /\ Request(c).caller = c /\ step[c] \in Nat
    BY DEF Request, IInv, DataInv
  <2> QED
    BY <1>1, <1>4, <1>6, <2>1 DEF IInv, StepInv
<1> QED
  BY <1>5, <1>8, <1>9, <1>10, <1>11 DEF IInv

LEMMA ConcludeEffect ==
    ASSUME DataInv, NEW c \in Callers, NEW kind \in {"ok", "error"}, Conclude(c, kind)
    PROVE  /\ pc' \in [Callers -> {"start", "attempt", "pooled", "connect", "fresh", "done"}]
           /\ step' \in [Callers -> Nat] /\ \A d \in Callers : step'[d] >= 1 /\ step'[d] <= Requests[d]
           /\ result' \in [Callers -> {"none", "ok", "error"}]
           /\ leader' \in Nodes /\ UNCHANGED <<attempt, idx>>
           /\ \A d \in Callers \ {c} :
                pc'[d] = pc[d] /\ step'[d] = step[d] /\ result'[d] = result[d]
           /\ pc'[c] \in {"start", "done"}
           /\ \/ step'[c] = step[c]
              \/ step'[c] = step[c] + 1 /\ kind = "ok"
           /\ result'[c] = "ok" =>
                \/ result[c] = "ok"
                \/ kind = "ok" /\ Requests[c] = step[c]
<1>a. Requests[c] \in 1 .. 3
  BY CallAssumption
<1>0. Node(c) \in Nodes /\ step[c] \in Nat /\ Requests[c] \in Nat
      /\ step[c] >= 1 /\ step[c] <= Requests[c]
  BY <1>a, NodeType DEF DataInv
<1>1. CASE kind = "ok" /\ step[c] < Requests[c]
  <2>1. /\ pc' = [pc EXCEPT ![c] = "start"] /\ step' = [step EXCEPT ![c] = step[c] + 1]
        /\ result' = result /\ leader' = Node(c) /\ UNCHANGED <<attempt, idx>>
    BY <1>1 DEF Conclude
  <2>2. step[c] + 1 \in Nat /\ step[c] + 1 >= 1 /\ step[c] + 1 <= Requests[c]
    BY <1>0, <1>1
  <2> QED
    BY <1>0, <1>1, <2>1, <2>2 DEF DataInv
<1>2. CASE ~(kind = "ok" /\ step[c] < Requests[c])
  <2>1. /\ pc' = [pc EXCEPT ![c] = "done"] /\ step' = step
        /\ result' = [result EXCEPT ![c] = kind] /\ leader' = Node(c) /\ UNCHANGED <<attempt, idx>>
    BY <1>2 DEF Conclude
  <2>2. kind = "ok" => Requests[c] = step[c]
    BY <1>0, <1>2
  <2> QED
    BY <1>0, <2>1, <2>2 DEF DataInv
<1> QED
  BY <1>1, <1>2

(* The response is read, and the stream is parked or closed.               *)
LEMMA ReceiveStep ==
    ASSUME IInv, NEW c \in Callers, Receive(c)
    PROVE  IInv'
<1> USE DEF clusterVars
<1> DEFINE i == Node(c)
           s == stream[c]
           x == Head(replies[s])
<1>0. i \in Nodes /\ Request(c) \in RequestType
  BY NodeType DEF IInv
<1>1. /\ Waiting(c) /\ replies[s] # <<>>
      /\ UNCHANGED <<peer, sent, up, leads, knows, applied, faults>>
      /\ replies' = [replies EXCEPT ![s] = Tail(replies[s])]
      /\ stream' = [stream EXCEPT ![c] = NoStream]
  BY DEF Receive, Park
<1>2. \/ /\ Len(pools[i]) < MaxIdlePerNode
         /\ pools' = [pools EXCEPT ![i] = Append(pools[i], s)] /\ alive' = alive
      \/ alive' = [alive EXCEPT ![s] = FALSE] /\ pools' = pools
  BY DEF Receive, Park
<1>3. /\ s \in Streams /\ s # NoStream /\ peer[s] = i
      /\ \A d \in Callers \ {c} : stream[d] # s
  BY <1>1, HeldType DEF IInv
<1>4. /\ sent[s] = <<>> /\ x \in ReplyType /\ x.to = Request(c) /\ Tail(replies[s]) = <<>>
      /\ x.kind = "ok" => x.to \in applied
  <2>1. replies[s] \in Seq(ReplyType) /\ Len(replies[s]) <= 1
    BY <1>3 DEF IInv, DataInv, PairInv
  <2>2. Tail(replies[s]) = <<>> /\ x \in ReplyType
    BY <1>1, <2>1, OneInSeq
  <2>3. sent[s] = <<>> /\ x.to = Request(c)
    BY <1>1 DEF IInv, PairInv
  <2>4. x.kind = "ok" => x.to \in applied
    BY <1>1, <1>3 DEF IInv, StepInv
  <2> QED
    BY <2>2, <2>3, <2>4
<1>5. /\ pc' \in [Callers -> {"start", "attempt", "pooled", "connect", "fresh", "done"}]
      /\ step' \in [Callers -> Nat] /\ \A d \in Callers : step'[d] >= 1 /\ step'[d] <= Requests[d]
      /\ attempt' \in [Callers -> 0 .. Attempts - 1]
      /\ idx' \in [Callers -> 0 .. NumNodes]
      /\ result' \in [Callers -> {"none", "ok", "error"}]
      /\ leader' \in Nodes
      /\ \A d \in Callers \ {c} :
           pc'[d] = pc[d] /\ idx'[d] = idx[d] /\ step'[d] = step[d] /\ result'[d] = result[d]
      /\ pc'[c] \notin {"pooled", "fresh"}
      /\ \/ step'[c] = step[c]
         \/ step'[c] = step[c] + 1 /\ x.kind = "ok"
      /\ result'[c] = "ok" =>
           \/ result[c] = "ok"
           \/ x.kind = "ok" /\ Requests[c] = step[c]
  <2>1. CASE x.kind = "not_leader"
    <3>1. NextAttempt(c, Redirect(Node(c), x.leader)) /\ leader' = leader
      BY <2>1 DEF Receive
    <3>2. Redirect(Node(c), x.leader) \in 0 .. NumNodes
      BY <1>0, <1>4, NextIndexType DEF ReplyType
    <3> QED
      BY <3>1, <3>2, NextAttemptEffect DEF IInv, DataInv
  <2>2. CASE x.kind # "not_leader"
    <3>1. Conclude(c, x.kind) /\ x.kind \in {"ok", "error"}
      BY <1>4, <2>2 DEF Receive, ReplyType
    <3>2. attempt' = attempt /\ idx' = idx
      BY <3>1 DEF Conclude
    <3>3. attempt \in [Callers -> 0 .. Attempts - 1] /\ idx \in [Callers -> 0 .. NumNodes]
      BY DEF IInv, DataInv
    <3>4. DataInv
      BY DEF IInv
    <3> HIDE DEF x
    <3> QED
      BY <3>1, <3>2, <3>3, <3>4, ConcludeEffect
  <2> QED
    BY <2>1, <2>2
<1> HIDE DEF s, x
<1>6. /\ stream'[c] = NoStream /\ \A d \in Callers \ {c} : stream'[d] = stream[d]
      /\ replies'[s] = <<>> /\ \A t \in Streams \ {s} : replies'[t] = replies[t]
      /\ \A d \in Callers \ {c} : Node(d)' = Node(d) /\ Request(d)' = Request(d)
      /\ ~Waiting(c)' /\ \A d \in Callers \ {c} : Waiting(d)' <=> Waiting(d)
      /\ \A d \in Callers \ {c} : Waiting(d) => stream[d] \in Streams \ {s}
  <2>1. \A d \in Callers \ {c} : Waiting(d) => stream[d] \in Streams \ {s}
    BY <1>3, HeldType DEF IInv
  <2> QED
    BY <1>1, <1>3, <1>4, <1>5, <2>1 DEF IInv, DataInv, Node, Request, Waiting
<1>7. DataInv'
  <2>1. <<>> \in Seq(ReplyType)
    BY EmptySeq
  <2>2. replies' \in [Streams -> Seq(ReplyType)]
    BY <1>1, <1>4, <2>1 DEF IInv, DataInv
  <2>3. alive' \in [Streams -> BOOLEAN] /\ stream' \in [Callers -> Streams \cup {NoStream}]
    BY <1>1, <1>2 DEF IInv, DataInv
  <2> QED
    BY <1>1, <1>5, <2>2, <2>3 DEF IInv, DataInv, ClusterTypeOK
<1>8. \A j \in Nodes : \A k \in 1 .. Len(pools[j]) : pools[j][k] # s
  <2>1. s = stream[c]
    BY DEF s
  <2> QED
    BY <2>1 DEF IInv, ParkedInv
<1>9. /\ PoolsInv'
      /\ \A j \in Nodes : \A k \in 1 .. Len(pools'[j]) :
           \/ k \in 1 .. Len(pools[j]) /\ pools'[j][k] = pools[j][k]
           \/ pools'[j][k] = s
      /\ \A j \in Nodes : \A k \in 1 .. Len(pools[j]) :
           k \in 1 .. Len(pools'[j]) /\ pools'[j][k] = pools[j][k]
      /\ alive'[s] => \E j \in Nodes : \E k \in 1 .. Len(pools'[j]) : pools'[j][k] = s
      /\ \A t \in Streams \ {s} : alive'[t] = alive[t]
  <2>1. CASE /\ Len(pools[i]) < MaxIdlePerNode
             /\ pools' = [pools EXCEPT ![i] = Append(pools[i], s)] /\ alive' = alive
    <3>1. PoolsInv /\ peer' = peer /\ peer[s] = i
      BY <1>1, <1>3 DEF IInv
    <3>2. /\ PoolsInv'
          /\ \A j \in Nodes : \A k \in 1 .. Len(pools'[j]) :
               \/ k \in 1 .. Len(pools[j]) /\ pools'[j][k] = pools[j][k]
               \/ j = i /\ k = Len(pools[i]) + 1 /\ pools'[j][k] = s
          /\ \A j \in Nodes : \A k \in 1 .. Len(pools[j]) :
               k \in 1 .. Len(pools'[j]) /\ pools'[j][k] = pools[j][k]
          /\ Len(pools[i]) + 1 \in 1 .. Len(pools'[i]) /\ pools'[i][Len(pools[i]) + 1] = s
      <4> HIDE DEF i
      <4> QED
        BY <1>0, <1>3, <1>8, <2>1, <3>1, PushEffect
    <3> QED
      BY <1>0, <2>1, <3>2
  <2>2. CASE alive' = [alive EXCEPT ![s] = FALSE] /\ pools' = pools
    BY <1>1, <1>3, <2>2 DEF IInv, PoolsInv, DataInv
  <2> QED
    BY <1>2, <2>1, <2>2 DEF s
<1>10. ParkedInv'
  <2>1. ASSUME NEW j \in Nodes, NEW k \in 1 .. Len(pools'[j])
        PROVE  /\ sent'[pools'[j][k]] = <<>> /\ replies'[pools'[j][k]] = <<>>
               /\ \A d \in Callers : stream'[d] # pools'[j][k]
    <3>1. CASE pools'[j][k] = s
      BY <1>1, <1>3, <1>4, <1>6, <3>1, CallAssumption DEF s
    <3>2. CASE pools'[j][k] # s
      <4>1. k \in 1 .. Len(pools[j]) /\ pools'[j][k] = pools[j][k]
        BY <1>9, <2>1, <3>2
      <4>2. pools[j][k] \in Streams \ {s}
        BY <3>2, <4>1, InPoolType DEF IInv
      <4>3. /\ sent[pools[j][k]] = <<>> /\ replies[pools[j][k]] = <<>>
            /\ \A d \in Callers : stream[d] # pools[j][k]
        BY <4>1 DEF IInv, ParkedInv
      <4> QED
        BY <1>1, <1>6, <4>1, <4>2, <4>3, CallAssumption
    <3> QED
      BY <3>1, <3>2
  <2> QED
    BY <2>1 DEF ParkedInv
<1>11. HoldInv'
  <2>1. \A d \in Callers : Waiting(d)' <=> stream'[d] # NoStream
    BY <1>6 DEF IInv, HoldInv
  <2>2. \A d \in Callers : Waiting(d)' => peer'[stream'[d]] = Node(d)'
    BY <1>1, <1>6 DEF IInv, HoldInv
  <2>3. \A d, e \in Callers : stream'[d] = stream'[e] /\ stream'[d] # NoStream => d = e
    BY <1>6 DEF IInv, HoldInv
  <2>4. \A t \in Streams : alive'[t] \/ replies'[t] # <<>> =>
          \/ \E j \in Nodes : \E k \in 1 .. Len(pools'[j]) : pools'[j][k] = t
          \/ \E d \in Callers : stream'[d] = t
    <3> SUFFICES ASSUME NEW t \in Streams, alive[t] \/ replies[t] # <<>>, t # s
                 PROVE  \/ \E j \in Nodes : \E k \in 1 .. Len(pools'[j]) : pools'[j][k] = t
                        \/ \E d \in Callers : stream'[d] = t
      BY <1>6, <1>9
    <3>1. CASE \E d \in Callers : stream[d] = t
      <4>1. PICK d \in Callers : stream[d] = t
        BY <3>1
      <4>2. d # c
        BY <4>1 DEF s
      <4> QED
        BY <1>6, <4>1, <4>2
    <3>2. CASE \E j \in Nodes : \E k \in 1 .. Len(pools[j]) : pools[j][k] = t
      BY <1>9, <3>2
    <3> QED
      BY <3>1, <3>2 DEF IInv, HoldInv
  <2> QED
    BY <2>1, <2>2, <2>3, <2>4 DEF HoldInv
<1>12. PairInv'
  <2>1. ASSUME NEW t \in Streams
        PROVE  Len(sent'[t]) <= 1 /\ Len(replies'[t]) <= 1
    <3>1. Len(<<>>) <= 1
      BY EmptySeq
    <3>2. Len(sent[t]) <= 1 /\ Len(replies[t]) <= 1
      BY DEF IInv, PairInv
    <3> QED
      BY <1>1, <1>6, <3>1, <3>2
  <2>2. ASSUME NEW d \in Callers \ {c}, Waiting(d)
        PROVE  /\ sent'[stream[d]] # <<>> =>
                    Head(sent'[stream[d]]) = Request(d) /\ replies'[stream[d]] = <<>>
               /\ replies'[stream[d]] # <<>> => Head(replies'[stream[d]]).to = Request(d)
    BY <1>1, <1>6, <2>2 DEF IInv, PairInv
  <2> QED
    BY <1>6, <2>1, <2>2 DEF PairInv
<1>13. StepInv'
  <2>1. /\ Request(c) = [caller |-> c, step |-> step[c]] /\ step[c] \in Nat
        /\ x.kind = "ok" => Request(c) \in applied
    BY <1>4 DEF Request, IInv, DataInv
  <2>2. ASSUME NEW d \in Callers
        PROVE  step[d] \in Nat /\ step'[d] \in Nat /\ step[d] <= step'[d]
    <3>1. step[d] \in Nat /\ step'[d] \in Nat
      BY <1>5 DEF IInv, DataInv
    <3>2. step'[d] = step[d] \/ step'[d] = step[d] + 1
      BY <1>5
    <3> QED
      BY <3>1, <3>2
  <2>3. \A t \in Streams : sent'[t] # <<>> =>
          Head(sent'[t]).step <= step'[Head(sent'[t]).caller]
    <3> SUFFICES ASSUME NEW t \in Streams, sent[t] # <<>>
                 PROVE  Head(sent[t]).step <= step'[Head(sent[t]).caller]
      BY <1>1
    <3>1. Head(sent[t]) \in RequestType
      BY OneInSeq DEF IInv, DataInv, PairInv
    <3>2. Head(sent[t]).step <= step[Head(sent[t]).caller]
      BY DEF IInv, StepInv
    <3>3. Head(sent[t]).step \in Nat /\ Head(sent[t]).caller \in Callers
      BY <3>1 DEF RequestType
    <3> QED
      BY <2>2, <3>2, <3>3
  <2>4. \A t \in Streams : replies'[t] # <<>> /\ Head(replies'[t]).kind = "ok" =>
          Head(replies'[t]).to \in applied
    BY <1>6 DEF IInv, StepInv
  <2>5. ASSUME NEW r \in applied
        PROVE  r.step <= step'[r.caller]
    <3>1. r.step \in Nat /\ r.caller \in Callers /\ r.step <= step[r.caller]
      BY DEF IInv, DataInv, StepInv, RequestType
    <3> QED
      BY <2>2, <3>1
  <2>6. ASSUME NEW d \in Callers, NEW j \in Nat, 1 <= j, j < step'[d]
        PROVE  [caller |-> d, step |-> j] \in applied
    <3>1. CASE j < step[d]
      BY <2>6, <3>1 DEF IInv, StepInv
    <3>2. CASE ~(j < step[d])
      <4>1. d = c /\ step'[c] = step[c] + 1 /\ x.kind = "ok"
        BY <1>5, <2>2, <2>6, <3>2
      <4>2. j = step[c]
        BY <2>1, <2>6, <3>2, <4>1
      <4> QED
        BY <2>1, <4>1, <4>2
    <3> QED
      BY <3>1, <3>2
  <2>7. ASSUME NEW d \in Callers, result'[d] = "ok"
        PROVE  [caller |-> d, step |-> Requests[d]] \in applied
    BY <1>5, <2>1, <2>7 DEF IInv, StepInv
  <2> QED
    BY <1>1, <2>3, <2>4, <2>5, <2>6, <2>7 DEF StepInv
<1> QED
  BY <1>7, <1>9, <1>10, <1>11, <1>12, <1>13 DEF IInv

(* A failed stream is dropped, with what may still be on its way to the    *)
(* node.                                                                   *)
LEMMA GiveUpStep ==
    ASSUME IInv, NEW c \in Callers, RequestFails(c) \/ RequestTimesOut(c)
    PROVE  IInv'
<1> USE DEF clusterVars, innerVars
<1> DEFINE s == stream[c]
<1>0. Node(c) \in Nodes /\ After(Node(c)) \in 0 .. NumNodes
  BY NodeType DEF IInv
<1>1. /\ Waiting(c)
      /\ UNCHANGED <<leader, pools, peer, sent, up, leads, knows, applied>>
      /\ stream' = [stream EXCEPT ![c] = NoStream]
      /\ alive' = [alive EXCEPT ![s] = FALSE]
      /\ replies' = [replies EXCEPT ![s] = <<>>]
  BY DEF RequestFails, RequestTimesOut, GiveUp
<1>2. faults' \in 0 .. MaxFaults
  BY CallAssumption DEF RequestFails, RequestTimesOut, Trouble, IInv, DataInv
<1>3. /\ s \in Streams /\ s # NoStream
      /\ \A d \in Callers \ {c} : stream[d] # s
      /\ \A j \in Nodes : \A k \in 1 .. Len(pools[j]) : pools[j][k] # s
  BY <1>1, HeldType DEF IInv, ParkedInv
<1>4. /\ pc' \in [Callers -> {"start", "attempt", "pooled", "connect", "fresh", "done"}]
      /\ attempt' \in [Callers -> 0 .. Attempts - 1]
      /\ idx' \in [Callers -> 0 .. NumNodes]
      /\ result' \in [Callers -> {"none", "ok", "error"}]
      /\ step' = step
      /\ \A d \in Callers \ {c} : pc'[d] = pc[d] /\ idx'[d] = idx[d] /\ result'[d] = result[d]
      /\ pc'[c] \in {"attempt", "connect", "done"} /\ result'[c] \in {result[c], "error"}
  <2>1. CASE pc[c] = "pooled"
    <3>1. pc' = [pc EXCEPT ![c] = "connect"] /\ UNCHANGED <<step, attempt, idx, result>>
      BY <2>1 DEF RequestFails, RequestTimesOut, GiveUp
    <3> QED
      BY <3>1 DEF IInv, DataInv
  <2>2. CASE pc[c] # "pooled"
    <3>1. NextAttempt(c, After(Node(c)))
      BY <2>2 DEF RequestFails, RequestTimesOut, GiveUp
    <3> QED
      BY <1>0, <3>1, NextAttemptEffect DEF IInv
  <2> QED
    BY <2>1, <2>2
<1> HIDE DEF s
<1>5. /\ stream'[c] = NoStream /\ \A d \in Callers \ {c} : stream'[d] = stream[d]
      /\ replies'[s] = <<>> /\ \A t \in Streams \ {s} : replies'[t] = replies[t]
      /\ alive'[s] = FALSE /\ \A t \in Streams \ {s} : alive'[t] = alive[t]
      /\ \A d \in Callers \ {c} : Node(d)' = Node(d) /\ Request(d)' = Request(d)
      /\ ~Waiting(c)' /\ \A d \in Callers \ {c} : Waiting(d)' <=> Waiting(d)
  BY <1>1, <1>3, <1>4 DEF IInv, DataInv, Node, Request, Waiting
<1>6. DataInv'
  <2>1. <<>> \in Seq(ReplyType)
    BY EmptySeq
  <2>2. /\ replies' \in [Streams -> Seq(ReplyType)] /\ alive' \in [Streams -> BOOLEAN]
        /\ stream' \in [Callers -> Streams \cup {NoStream}]
    BY <1>1, <2>1 DEF IInv, DataInv
  <2> QED
    BY <1>1, <1>2, <1>4, <2>2 DEF IInv, DataInv, ClusterTypeOK
<1>7. PoolsInv'
  BY <1>1 DEF IInv, PoolsInv
<1>8. ParkedInv'
  <2>1. ASSUME NEW j \in Nodes, NEW k \in 1 .. Len(pools[j])
        PROVE  /\ sent'[pools[j][k]] = <<>> /\ replies'[pools[j][k]] = <<>>
               /\ \A d \in Callers : stream'[d] # pools[j][k]
    <3>1. pools[j][k] \in Streams \ {s}
      BY <1>3, InPoolType DEF IInv
    <3>2. /\ sent[pools[j][k]] = <<>> /\ replies[pools[j][k]] = <<>>
          /\ \A d \in Callers : stream[d] # pools[j][k]
      BY DEF IInv, ParkedInv
    <3> QED
      BY <1>1, <1>5, <3>1, <3>2, CallAssumption
  <2> QED
    BY <1>1, <2>1 DEF ParkedInv
<1>9. HoldInv'
  <2>1. \A d \in Callers : Waiting(d)' <=> stream'[d] # NoStream
    BY <1>5 DEF IInv, HoldInv
  <2>2. \A d \in Callers : Waiting(d)' => peer'[stream'[d]] = Node(d)'
    BY <1>1, <1>5 DEF IInv, HoldInv
  <2>3. \A d, e \in Callers : stream'[d] = stream'[e] /\ stream'[d] # NoStream => d = e
    BY <1>5 DEF IInv, HoldInv
  <2>4. ASSUME NEW t \in Streams, alive'[t] \/ replies'[t] # <<>>
        PROVE  \/ \E j \in Nodes : \E k \in 1 .. Len(pools'[j]) : pools'[j][k] = t
               \/ \E d \in Callers : stream'[d] = t
    <3>1. t # s /\ (alive[t] \/ replies[t] # <<>>)
      BY <1>5, <2>4
    <3>2. \/ \E j \in Nodes : \E k \in 1 .. Len(pools[j]) : pools[j][k] = t
          \/ \E d \in Callers \ {c} : stream[d] = t
      BY <3>1 DEF IInv, HoldInv, s
    <3> QED
      BY <1>1, <1>5, <3>2
  <2> QED
    BY <2>1, <2>2, <2>3, <2>4 DEF HoldInv
<1>10. PairInv'
  <2>1. ASSUME NEW t \in Streams
        PROVE  Len(sent'[t]) <= 1 /\ Len(replies'[t]) <= 1
    <3>1. Len(<<>>) <= 1
      BY EmptySeq
    <3>2. Len(sent[t]) <= 1 /\ Len(replies[t]) <= 1
      BY DEF IInv, PairInv
    <3> QED
      BY <1>1, <1>5, <3>1, <3>2
  <2>2. ASSUME NEW d \in Callers \ {c}, Waiting(d)
        PROVE  /\ sent'[stream[d]] # <<>> =>
                    Head(sent'[stream[d]]) = Request(d) /\ replies'[stream[d]] = <<>>
               /\ replies'[stream[d]] # <<>> => Head(replies'[stream[d]]).to = Request(d)
    <3>1. stream[d] \in Streams \ {s}
      BY <1>3, <2>2, HeldType DEF IInv
    <3> QED
      BY <1>1, <1>5, <2>2, <3>1 DEF IInv, PairInv
  <2> QED
    BY <1>5, <2>1, <2>2 DEF PairInv
<1>11. StepInv'
  BY <1>1, <1>4, <1>5 DEF IInv, StepInv
<1> QED
  BY <1>6, <1>7, <1>8, <1>9, <1>10, <1>11 DEF IInv

(* Something is closed or lost, by the client, a node or the network: no   *)
(* stream changes hands, except for those of pools that are emptied.       *)
LEMMA LossStep ==
    ASSUME IInv, UNCHANGED <<callVars, leader, peer, applied>>,
           ClusterTypeOK', faults' \in 0 .. MaxFaults,
           \/ pools' = pools
           \/ /\ pools' = [i \in Nodes |-> <<>>]
              /\ \A i \in Nodes : \A k \in 1 .. Len(pools[i]) : ~alive'[pools[i][k]],
           alive' \in [Streams -> BOOLEAN], \A s \in Streams : alive'[s] => alive[s],
           sent' \in [Streams -> Seq(RequestType)],
           \A s \in Streams : sent'[s] = sent[s] \/ sent'[s] = <<>>,
           replies' \in [Streams -> Seq(ReplyType)],
           \A s \in Streams : replies'[s] = replies[s] \/ replies'[s] = <<>>
    PROVE  IInv'
<1>1. UNCHANGED <<pc, step, attempt, idx, stream, result>>
  BY DEF callVars
<1>2. Len(<<>>) = 0 /\ <<>> \in Seq(Streams)
  BY EmptySeq
<1>3. DataInv'
  BY <1>1 DEF IInv, DataInv
<1>4. \A d \in Callers : Node(d)' = Node(d) /\ Request(d)' = Request(d)
                         /\ (Waiting(d)' <=> Waiting(d))
  BY <1>1 DEF Node, Request, Waiting
<1>5. ASSUME pools' = pools
      PROVE  PoolsInv' /\ ParkedInv' /\ HoldInv'
  <2>1. PoolsInv'
    BY <1>5 DEF IInv, PoolsInv
  <2>2. ASSUME NEW j \in Nodes, NEW k \in 1 .. Len(pools[j])
        PROVE  sent'[pools[j][k]] = <<>> /\ replies'[pools[j][k]] = <<>>
    <3>1. pools[j][k] \in Streams
      BY InPoolType DEF IInv
    <3> QED
      BY <3>1 DEF IInv, ParkedInv
  <2>3. ParkedInv'
    BY <1>1, <1>5, <2>2 DEF IInv, ParkedInv
  <2>4. \A t \in Streams : alive'[t] \/ replies'[t] # <<>> =>
          \/ \E i \in Nodes : \E k \in 1 .. Len(pools[i]) : pools[i][k] = t
          \/ \E d \in Callers : stream[d] = t
    BY DEF IInv, HoldInv
  <2>5. HoldInv'
    BY <1>1, <1>4, <1>5, <2>4 DEF IInv, HoldInv
  <2> QED
    BY <2>1, <2>3, <2>5
<1>6. ASSUME pools' # pools
      PROVE  PoolsInv' /\ ParkedInv' /\ HoldInv'
  <2>1. \A i \in Nodes : pools'[i] = <<>> /\ Len(pools'[i]) = 0
    BY <1>2, <1>6
  <2>2. PoolsInv'
    <3>1. pools' \in [Nodes -> Seq(Streams)]
      BY <1>2, <1>6
    <3>2. 0 <= MaxIdlePerNode
      BY CallAssumption
    <3> QED
      BY <2>1, <3>1, <3>2 DEF PoolsInv
  <2>3. ParkedInv'
    BY <2>1 DEF ParkedInv
  <2>4. ASSUME NEW t \in Streams, alive'[t] \/ replies'[t] # <<>>
        PROVE  \E d \in Callers : stream[d] = t
    <3>1. alive[t] \/ replies[t] # <<>>
      BY <2>4
    <3>2. \A i \in Nodes : \A k \in 1 .. Len(pools[i]) : pools[i][k] # t
      <4> SUFFICES ASSUME NEW i \in Nodes, NEW k \in 1 .. Len(pools[i]), pools[i][k] = t
                   PROVE  FALSE
        OBVIOUS
      <4>1. ~alive'[t] /\ replies[t] = <<>>
        BY <1>6 DEF IInv, ParkedInv
      <4> QED
        BY <2>4, <4>1
    <3> QED
      BY <3>1, <3>2 DEF IInv, HoldInv
  <2>5. HoldInv'
    BY <1>1, <1>4, <2>4 DEF IInv, HoldInv
  <2> QED
    BY <2>2, <2>3, <2>5
<1>7. PairInv'
  <2>1. ASSUME NEW t \in Streams
        PROVE  Len(sent'[t]) <= 1 /\ Len(replies'[t]) <= 1
    <3>1. Len(<<>>) <= 1
      BY <1>2
    <3>2. Len(sent[t]) <= 1 /\ Len(replies[t]) <= 1
      BY DEF IInv, PairInv
    <3>3. (sent'[t] = sent[t] \/ sent'[t] = <<>>) /\ (replies'[t] = replies[t] \/ replies'[t] = <<>>)
      OBVIOUS
    <3> QED
      BY <3>1, <3>2, <3>3
  <2>2. ASSUME NEW d \in Callers, Waiting(d)
        PROVE  /\ sent'[stream[d]] # <<>> =>
                    Head(sent'[stream[d]]) = Request(d) /\ replies'[stream[d]] = <<>>
               /\ replies'[stream[d]] # <<>> => Head(replies'[stream[d]]).to = Request(d)
    <3>1. stream[d] \in Streams
      BY <2>2, HeldType DEF IInv
    <3>2. /\ sent'[stream[d]] = sent[stream[d]] \/ sent'[stream[d]] = <<>>
          /\ replies'[stream[d]] = replies[stream[d]] \/ replies'[stream[d]] = <<>>
      BY <3>1
    <3> QED
      BY <2>2, <3>2 DEF IInv, PairInv
  <2> QED
    BY <1>1, <1>4, <2>1, <2>2 DEF PairInv
<1>8. StepInv'
  BY <1>1 DEF IInv, StepInv
<1> QED
  BY <1>3, <1>5, <1>6, <1>7, <1>8 DEF IInv

LEMMA WorldStep ==
    ASSUME IInv, \/ Close
                 \/ \E s \in Streams : Break(s)
                 \/ \E n \in Nodes : Elect(n) \/ Learn(n) \/ Crash(n) \/ Restart(n)
    PROVE  IInv'
<1> USE DEF innerVars, streamVars, clusterVars
<1>0. /\ \A kind : Trouble(kind) => faults' \in 0 .. MaxFaults
      /\ faults \in 0 .. MaxFaults
      /\ ClusterTypeOK /\ alive \in [Streams -> BOOLEAN]
      /\ sent \in [Streams -> Seq(RequestType)] /\ replies \in [Streams -> Seq(ReplyType)]
  BY CallAssumption DEF Trouble, IInv, DataInv
<1>1. <<>> \in Seq(RequestType) /\ <<>> \in Seq(ReplyType)
  BY EmptySeq
<1>2. CASE Close
  <2>1. /\ UNCHANGED <<callVars, leader, peer, applied, sent, replies, up, leads, knows>>
        /\ faults' \in 0 .. MaxFaults
        /\ pools' = [i \in Nodes |-> <<>>]
        /\ alive' = [s \in Streams |-> alive[s] /\ ~Parked(s)]
    BY <1>0, <1>2 DEF Close
  <2>2. ASSUME NEW i \in Nodes, NEW k \in 1 .. Len(pools[i])
        PROVE  ~alive'[pools[i][k]]
    <3>1. pools[i][k] \in Streams /\ pools[i] \in Seq(Streams)
      BY InPoolType DEF IInv, PoolsInv
    <3>2. Parked(pools[i][k])
      BY <3>1, LenProperties DEF Parked, Range
    <3> QED
      BY <2>1, <3>1, <3>2
  <2>3. ClusterTypeOK'
    BY <1>0, <2>1 DEF ClusterTypeOK
  <2>4. alive' \in [Streams -> BOOLEAN] /\ \A s \in Streams : alive'[s] => alive[s]
    BY <1>0, <2>1
  <2>5. /\ sent' \in [Streams -> Seq(RequestType)] /\ replies' \in [Streams -> Seq(ReplyType)]
        /\ \A t \in Streams : sent'[t] = sent[t] /\ replies'[t] = replies[t]
    BY <1>0, <2>1
  <2>6. UNCHANGED <<callVars, leader, peer, applied>> /\ pools' = [i \in Nodes |-> <<>>]
        /\ faults' \in 0 .. MaxFaults
    BY <2>1
  <2> QED
    BY <2>2, <2>3, <2>4, <2>5, <2>6, LossStep
<1>3. ASSUME NEW s \in Streams, Break(s)
      PROVE  IInv'
  <2>1. /\ UNCHANGED <<callVars, leader, peer, applied, pools, up, leads, knows>>
        /\ faults' \in 0 .. MaxFaults
        /\ alive' = [alive EXCEPT ![s] = FALSE]
        /\ sent' = sent \/ sent' = [sent EXCEPT ![s] = <<>>]
        /\ replies' = replies \/ replies' = [replies EXCEPT ![s] = <<>>]
    BY <1>0, <1>3 DEF Break
  <2>2. ClusterTypeOK'
    BY <1>0, <2>1 DEF ClusterTypeOK
  <2>3. alive' \in [Streams -> BOOLEAN] /\ \A t \in Streams : alive'[t] => alive[t]
    BY <1>0, <2>1
  <2>4. sent' \in [Streams -> Seq(RequestType)]
        /\ \A t \in Streams : sent'[t] = sent[t] \/ sent'[t] = <<>>
    BY <1>0, <1>1, <2>1
  <2>5. replies' \in [Streams -> Seq(ReplyType)]
        /\ \A t \in Streams : replies'[t] = replies[t] \/ replies'[t] = <<>>
    BY <1>0, <1>1, <2>1
  <2>6. UNCHANGED <<callVars, leader, peer, applied>> /\ pools' = pools
        /\ faults' \in 0 .. MaxFaults
    BY <2>1
  <2> QED
    BY <2>2, <2>3, <2>4, <2>5, <2>6, LossStep
<1>4. ASSUME NEW n \in Nodes, Elect(n) \/ Learn(n) \/ Crash(n) \/ Restart(n)
      PROVE  IInv'
  <2>1. ClusterTypeOK'
    BY <1>0, <1>4, ClusterStepType DEF Elect, Learn, Crash, Restart
  <2>2. UNCHANGED <<callVars, leader, peer, applied, pools, replies>> /\ faults' \in 0 .. MaxFaults
    BY <1>0, <1>4 DEF Elect, Learn, Crash, Restart
  <2>3. \/ alive' = alive /\ sent' = sent
        \/ /\ alive' = [s \in Streams |-> alive[s] /\ peer[s] # n]
           /\ sent' = [s \in Streams |-> IF peer[s] = n THEN <<>> ELSE sent[s]]
    BY <1>4 DEF Elect, Learn, Crash, Restart
  <2>4. alive' \in [Streams -> BOOLEAN] /\ \A t \in Streams : alive'[t] => alive[t]
    BY <1>0, <2>3
  <2>5. sent' \in [Streams -> Seq(RequestType)]
        /\ \A t \in Streams : sent'[t] = sent[t] \/ sent'[t] = <<>>
    BY <1>0, <1>1, <2>3
  <2> QED
    BY <1>0, <2>1, <2>2, <2>4, <2>5, LossStep
<1> QED
  BY <1>2, <1>3, <1>4

(* A node answers the one request of a stream; the response can be read if *)
(* the stream still has an operation to read it.                           *)
LEMMA ServeStep ==
    ASSUME IInv, NEW s \in Streams, Serve(s)
    PROVE  IInv'
<1> USE DEF clusterVars, innerVars
<1> DEFINE r == Head(sent[s])
<1>1. /\ UNCHANGED <<pc, step, attempt, idx, stream, result, leader, pools, peer, alive,
              up, leads, knows>>
      /\ sent[s] # <<>> /\ sent' = [sent EXCEPT ![s] = Tail(sent[s])]
  BY DEF Serve, callVars
<1>2. /\ r \in RequestType /\ Tail(sent[s]) = <<>>
      /\ r.step <= step[r.caller]
  BY <1>1, OneInSeq DEF IInv, DataInv, PairInv, StepInv
<1> HIDE DEF r
<1>3. \E kind \in {"ok", "error", "not_leader"} : \E hint \in Nodes \cup {NoNode} :
        /\ replies' = IF alive[s]
                      THEN [replies EXCEPT ![s] =
                              Append(replies[s], [to |-> r, kind |-> kind, leader |-> hint])]
                      ELSE replies
        /\ applied \subseteq applied' /\ applied' \subseteq applied \cup {r}
        /\ kind = "ok" => r \in applied'
        /\ faults' \in 0 .. MaxFaults
  <2>1. peer[s] \in Nodes /\ faults \in 0 .. MaxFaults /\ ClusterTypeOK
    BY DEF IInv, DataInv
  <2>2. CASE Redirects(s)
    <3>1. Hint(peer[s]) \in Nodes \cup {NoNode}
      BY <2>1, HintType
    <3> QED
      BY <2>1, <2>2, <3>1 DEF Redirects, Answer, r
  <2>3. CASE Accepts(s)
    BY <2>1, <2>3 DEF Accepts, Answer, r
  <2>4. CASE Refuses(s)
    <3>1. faults' \in 0 .. MaxFaults
      BY <2>1, <2>4, CallAssumption DEF Refuses, Trouble
    <3> QED
      BY <2>1, <2>4, <3>1 DEF Refuses, Answer, r
  <2> QED
    BY <2>2, <2>3, <2>4 DEF Serve
<1>4. PICK kind \in {"ok", "error", "not_leader"}, hint \in Nodes \cup {NoNode} :
        /\ replies' = IF alive[s]
                      THEN [replies EXCEPT ![s] =
                              Append(replies[s], [to |-> r, kind |-> kind, leader |-> hint])]
                      ELSE replies
        /\ applied \subseteq applied' /\ applied' \subseteq applied \cup {r}
        /\ kind = "ok" => r \in applied'
        /\ faults' \in 0 .. MaxFaults
  BY <1>3
<1> DEFINE x == [to |-> r, kind |-> kind, leader |-> hint]
<1>5. x \in ReplyType /\ x.to = r /\ x.kind = kind
  BY <1>2 DEF ReplyType
<1>6. \A j \in Nodes : \A k \in 1 .. Len(pools[j]) : pools[j][k] # s
  BY <1>1 DEF IInv, ParkedInv
<1>7. ASSUME alive[s]
      PROVE  \E c \in Callers : stream[c] = s /\ Waiting(c) /\ r = Request(c) /\ replies[s] = <<>>
  <2>1. PICK c \in Callers : stream[c] = s
    BY <1>6, <1>7 DEF IInv, HoldInv
  <2>2. Waiting(c)
    BY <2>1, CallAssumption DEF IInv, HoldInv
  <2> QED
    BY <1>1, <2>1, <2>2 DEF IInv, PairInv, r
<1> HIDE DEF x
<1>8. /\ sent'[s] = <<>> /\ \A t \in Streams \ {s} : sent'[t] = sent[t]
      /\ \A t \in Streams \ {s} : replies'[t] = replies[t]
      /\ alive[s] => replies'[s] = <<x>> /\ Head(replies'[s]) = x
      /\ ~alive[s] => replies'[s] = replies[s]
      /\ replies' \in [Streams -> Seq(ReplyType)] /\ sent' \in [Streams -> Seq(RequestType)]
  <2>1. <<>> \in Seq(RequestType)
    BY EmptySeq
  <2>2. <<x>> \in Seq(ReplyType) /\ Append(<<>>, x) = <<x>> /\ Head(<<x>>) = x
    BY <1>5, OneAppended
  <2>3. sent \in [Streams -> Seq(RequestType)] /\ replies \in [Streams -> Seq(ReplyType)]
    BY DEF IInv, DataInv
  <2>4. replies' = IF alive[s] THEN [replies EXCEPT ![s] = <<x>>] ELSE replies
    BY <1>4, <1>7, <2>2 DEF x
  <2> QED
    BY <1>1, <1>2, <2>1, <2>2, <2>3, <2>4
<1>9. DataInv'
  BY <1>1, <1>2, <1>4, <1>8 DEF IInv, DataInv, ClusterTypeOK
<1>10. \A d \in Callers : Node(d)' = Node(d) /\ Request(d)' = Request(d)
                          /\ (Waiting(d)' <=> Waiting(d))
  BY <1>1 DEF Node, Request, Waiting
<1>11. PoolsInv'
  BY <1>1 DEF IInv, PoolsInv
<1>12. ParkedInv'
  <2>1. ASSUME NEW j \in Nodes, NEW k \in 1 .. Len(pools[j])
        PROVE  sent'[pools[j][k]] = <<>> /\ replies'[pools[j][k]] = <<>>
    <3>1. pools[j][k] \in Streams \ {s}
      BY <1>6, InPoolType DEF IInv
    <3> QED
      BY <1>8, <3>1 DEF IInv, ParkedInv
  <2> QED
    BY <1>1, <2>1 DEF IInv, ParkedInv
<1>13. HoldInv'
  <2>1. ASSUME NEW t \in Streams, alive[t] \/ replies'[t] # <<>>
        PROVE  \/ \E i \in Nodes : \E k \in 1 .. Len(pools[i]) : pools[i][k] = t
               \/ \E d \in Callers : stream[d] = t
    BY <1>7, <1>8, <2>1 DEF IInv, HoldInv
  <2> QED
    BY <1>1, <1>10, <2>1 DEF IInv, HoldInv
<1>14. PairInv'
  <2>1. ASSUME NEW t \in Streams
        PROVE  Len(sent'[t]) <= 1 /\ Len(replies'[t]) <= 1
    <3>1. Len(<<>>) <= 1 /\ Len(<<x>>) <= 1
      BY <1>5, EmptySeq, OneAppended
    <3>2. Len(sent[t]) <= 1 /\ Len(replies[t]) <= 1
      BY DEF IInv, PairInv
    <3>3. (sent'[t] = sent[t] \/ sent'[t] = <<>>) /\ (replies'[t] = replies[t] \/ replies'[t] = <<x>>)
      BY <1>8
    <3> QED
      BY <3>1, <3>2, <3>3
  <2>2. ASSUME NEW d \in Callers, Waiting(d)
        PROVE  /\ sent'[stream[d]] # <<>> =>
                    Head(sent'[stream[d]]) = Request(d) /\ replies'[stream[d]] = <<>>
               /\ replies'[stream[d]] # <<>> => Head(replies'[stream[d]]).to = Request(d)
    <3>0. stream[d] \in Streams /\ \A c \in Callers : stream[c] = stream[d] => c = d
      BY <2>2, HeldType DEF IInv
    <3>1. CASE stream[d] # s
      BY <1>8, <2>2, <3>0, <3>1 DEF IInv, PairInv
    <3>2. CASE stream[d] = s /\ alive[s]
      <4>1. r = Request(d)
        BY <1>7, <3>0, <3>2
      <4> QED
        BY <1>5, <1>8, <3>2, <4>1
    <3>3. CASE stream[d] = s /\ ~alive[s]
      BY <1>8, <2>2, <3>3 DEF IInv, PairInv
    <3> QED
      BY <3>1, <3>2, <3>3
  <2> QED
    BY <1>1, <1>10, <2>1, <2>2 DEF PairInv
<1>15. StepInv'
  <2>1. \A t \in Streams : sent'[t] # <<>> => Head(sent'[t]).step <= step[Head(sent'[t]).caller]
    BY <1>8 DEF IInv, StepInv
  <2>2. ASSUME NEW t \in Streams, replies'[t] # <<>>, Head(replies'[t]).kind = "ok"
        PROVE  Head(replies'[t]).to \in applied'
    <3>1. CASE t = s /\ alive[s]
      BY <1>4, <1>5, <1>8, <2>2, <3>1
    <3>2. CASE t # s \/ ~alive[s]
      BY <1>4, <1>8, <2>2, <3>2 DEF IInv, StepInv
    <3> QED
      BY <3>1, <3>2
  <2>3. \A q \in applied' : q.step <= step[q.caller]
    BY <1>2, <1>4 DEF IInv, StepInv
  <2> QED
    BY <1>1, <1>4, <2>1, <2>2, <2>3 DEF IInv, StepInv
<1> QED
  BY <1>9, <1>11, <1>12, <1>13, <1>14, <1>15 DEF IInv
-----------------------------------------------------------------------------
(* The invariant holds.                                                    *)

LEMMA InvInit == Init => IInv
<1> SUFFICES ASSUME Init PROVE IInv
  OBVIOUS
<1>1. /\ 0 \in 0 .. Attempts - 1 /\ 0 \in 0 .. NumNodes /\ 0 \in Nodes /\ 0 \in 0 .. MaxFaults
      /\ 0 <= MaxIdlePerNode
  BY AttemptsType, NodesType, CallAssumption, NodesAssumption
<1>2. Len(<<>>) = 0 /\ <<>> \in Seq(Streams) /\ <<>> \in Seq(RequestType) /\ <<>> \in Seq(ReplyType)
  BY EmptySeq
<1>3. \A c \in Callers : Requests[c] >= 1
  BY CallAssumption
<1>4. DataInv
  <2>1. ClusterTypeOK
    BY ClusterInitType DEF Init
  <2> QED
    BY <1>1, <1>2, <1>3, <2>1 DEF Init, DataInv
<1>5. PoolsInv
  BY <1>1, <1>2 DEF Init, PoolsInv
<1>6. ParkedInv
  BY <1>2 DEF Init, ParkedInv
<1>7. HoldInv
  BY DEF Init, HoldInv, Waiting
<1>8. PairInv
  BY <1>2 DEF Init, PairInv, Waiting
<1>9. StepInv
  BY DEF Init, StepInv
<1> QED
  BY <1>4, <1>5, <1>6, <1>7, <1>8, <1>9 DEF IInv

LEMMA StutterStep ==
    ASSUME IInv, Finished \/ UNCHANGED vars
    PROVE  IInv'
<1>1. UNCHANGED <<callVars, innerVars, streamVars, clusterVars, applied, faults>>
  BY DEF Finished, vars
<1>2. /\ UNCHANGED <<callVars, leader, peer, applied>> /\ pools' = pools
      /\ sent' = sent /\ replies' = replies /\ alive' = alive
      /\ faults' \in 0 .. MaxFaults /\ ClusterTypeOK'
  BY <1>1 DEF innerVars, streamVars, clusterVars, ClusterTypeOK, IInv, DataInv
<1>3. /\ alive' \in [Streams -> BOOLEAN]
      /\ sent' \in [Streams -> Seq(RequestType)] /\ replies' \in [Streams -> Seq(ReplyType)]
      /\ \A s \in Streams : sent'[s] = sent[s] /\ replies'[s] = replies[s]
      /\ \A s \in Streams : alive'[s] => alive[s]
  BY <1>2 DEF IInv, DataInv
<1> QED
  BY <1>2, <1>3, LossStep

(* Types and pools, who has which stream, what is under way on it and what *)
(* has been carried out: together they are kept by every step.             *)
THEOREM Invariance == Spec => []IInv
<1>1. IInv /\ [Next]_vars => IInv'
  <2> SUFFICES ASSUME IInv, [Next]_vars PROVE IInv'
    OBVIOUS
  <2>1. ASSUME NEW c \in Callers, Caller(c) \/ RequestTimesOut(c)
        PROVE  IInv'
    BY <2>1, MovesStep, TakeStep, FreshStep, ReceiveStep, GiveUpStep DEF Caller
  <2> QED
    BY <2>1, WorldStep, ServeStep, StutterStep DEF Next, Servers
<1> QED
  BY <1>1, InvInit, PTL DEF Spec

LEMMA PoolRange ==
    ASSUME PoolsInv, NEW i \in Nodes
    PROVE  /\ DOMAIN pools[i] = 1 .. Len(pools[i])
           /\ \A s \in Range(pools[i]) : \E k \in 1 .. Len(pools[i]) : pools[i][k] = s
<1>1. DOMAIN pools[i] = 1 .. Len(pools[i])
  BY LenProperties DEF PoolsInv
<1> QED
  BY <1>1 DEF Range

(* The types: a step the operation has, an attempt below the limit, and a  *)
(* pool within MAX_IDLE_PER_NODE that has streams to its node only.        *)
THEOREM TypeCorrect == Spec => []TypeOK
<1>1. ASSUME IInv PROVE TypeOK
  <2>1. \A c \in Callers : step[c] \in 1 .. Requests[c]
    <3>1. \A c \in Callers : Requests[c] \in 1 .. 3
      BY CallAssumption
    <3> QED
      BY <1>1, <3>1 DEF IInv, DataInv
  <2>2. \A i \in Nodes : \A s \in Range(pools[i]) : peer[s] = i
    BY <1>1, PoolRange DEF IInv, PoolsInv
  <2> QED
    BY <1>1, <2>1, <2>2 DEF TypeOK, IInv, DataInv, PoolsInv
<1> QED
  BY <1>1, Invariance, PTL

(* request_on takes the next frame of its stream for its response, and it  *)
(* is: no response outlives the operation it was meant for on a stream     *)
(* that is parked and taken again.                                         *)
THEOREM ResponseIsOwn == Spec => []OwnResponse
<1>1. IInv => OwnResponse
  BY DEF IInv, PairInv, OwnResponse
<1> QED
  BY <1>1, Invariance, PTL

(* park and the pop of call_node hand every stream to one owner at a time, *)
(* and what is parked has nothing under way.                               *)
THEOREM OneOwnerPerStream == Spec => []StreamsAreExclusive
<1>1. ASSUME IInv PROVE StreamsAreExclusive
  <2>1. \A i \in Nodes : \A k, l \in DOMAIN pools[i] : pools[i][k] = pools[i][l] => k = l
    BY <1>1, PoolRange DEF IInv, PoolsInv
  <2>2. ASSUME NEW s \in Streams, Parked(s)
        PROVE  sent[s] = <<>> /\ replies[s] = <<>> /\ s \notin Range(stream)
    <3>0. PICK i \in Nodes : s \in Range(pools[i])
      BY <2>2 DEF Parked
    <3>1. PICK k \in 1 .. Len(pools[i]) : pools[i][k] = s
      BY <1>1, <3>0, PoolRange DEF IInv
    <3>2. DOMAIN stream = Callers
      BY <1>1 DEF IInv, DataInv
    <3> QED
      BY <1>1, <3>1, <3>2 DEF IInv, ParkedInv, Range
  <2>3. \A c, d \in Callers : stream[c] = stream[d] /\ stream[c] # NoStream => c = d
    BY <1>1 DEF IInv, HoldInv
  <2> QED
    BY <2>1, <2>2, <2>3 DEF StreamsAreExclusive
<1> QED
  BY <1>1, Invariance, PTL

(* createTopic goes to its next request after the last one was carried     *)
(* out, and resolves after all of them were, however often a request is    *)
(* sent again and whatever is still served of a stream dropped since.      *)
THEOREM OneStepAfterTheOther == Spec => []StepsInOrder
<1>1. ASSUME IInv, NEW c \in Callers
      PROVE  /\ \A k \in 1 .. Requests[c] :
                  [caller |-> c, step |-> k] \in applied =>
                    /\ k <= step[c]
                    /\ \A j \in 1 .. k - 1 : [caller |-> c, step |-> j] \in applied
             /\ result[c] = "ok" => [caller |-> c, step |-> Requests[c]] \in applied
  <2>1. Requests[c] \in 1 .. 3 /\ step[c] \in Nat
    BY <1>1, CallAssumption DEF IInv, DataInv
  <2>2. ASSUME NEW k \in 1 .. Requests[c], [caller |-> c, step |-> k] \in applied
        PROVE  k <= step[c]
    BY <1>1, <2>2 DEF IInv, StepInv
  <2>3. ASSUME NEW k \in 1 .. Requests[c], [caller |-> c, step |-> k] \in applied,
               NEW j \in 1 .. k - 1
        PROVE  [caller |-> c, step |-> j] \in applied
    <3>1. j \in Nat /\ 1 <= j /\ j < step[c]
      BY <2>1, <2>2, <2>3
    <3> QED
      BY <1>1, <3>1 DEF IInv, StepInv
  <2> QED
    BY <1>1, <2>2, <2>3 DEF IInv, StepInv
<1>2. IInv => StepsInOrder
  BY <1>1 DEF StepsInOrder
<1> QED
  BY <1>2, Invariance, PTL
=============================================================================
