---------------------------- MODULE ProduceProofs ---------------------------
(***************************************************************************)
(* Theorems about module ProduceClient, for any number of nodes, calls and *)
(* pipelines and any amount of trouble.                                    *)
(***************************************************************************)
EXTENDS ProduceClient, ClientLemmas, SequenceTheorems

-----------------------------------------------------------------------------
(* The invariant.                                                          *)

Entries == [caller : Callers, seq : {0, 1}]

RequestType == [caller : Callers, attempt : Nat, pipe : Pipes, seq : {0, 1}]

ResponseType ==
    [caller : Callers, attempt : Nat, kind : {"not_leader", "offset", "error"},
     offset : Nat, leader : Nodes \cup {NoNode}]

DataInv ==
    /\ TypeOK
    /\ log \in Seq(Entries)
    /\ requests \subseteq RequestType /\ IsFiniteSet(requests)
    /\ responses \subseteq ResponseType

(* An attempt waits on a pipeline to the node of its index, and a call     *)
(* holds none while it connects, before its first attempt and at its end.  *)
(* A malformed call never gets to the attempts.                            *)
ControlInv ==
    \A c \in Callers :
        /\ pc[c] = "wait" => pipe[c] # NoPipe /\ target[pipe[c]] = Node(c)
        /\ pc[c] \in {"idle", "connect", "done"} => pipe[c] = NoPipe
        /\ c \in Malformed => pc[c] \in {"idle", "done"}

(* Whatever is in the log, on its way there or on its way back carries the *)
(* sequence number of its call, and an offset under way is the one of a    *)
(* message of the call it is for.                                          *)
LogInv ==
    /\ \A k \in DOMAIN log : log[k].seq = Seq1(log[k].caller)
    /\ \A q \in requests : q.seq = Seq1(q.caller) /\ q.caller \notin Malformed
    /\ \A x \in responses :
         /\ x.offset <= Len(log)
         /\ x.kind = "offset" => x.offset # 0 /\ log[x.offset].caller = x.caller

(* The requests of a call that may still be served.                        *)
Pending(c) == {q \in requests : q.caller = c}

(* Each attempt sends one request, which is under way or in the log once.  *)
AttemptsSent(c) == attempt[c] + (IF pc[c] \in {"wait", "done"} THEN 1 ELSE 0)

CopiesInv ==
    \A c \in Callers :
        /\ Cardinality(Copies(c)) + Cardinality(Pending(c)) <= AttemptsSent(c)
        /\ c \in Idempotent => \A k, l \in Copies(c) : k = l
        /\ c \in Malformed => Copies(c) = {}

IInv ==
    /\ DataInv /\ ControlInv
    /\ NoSecondTry
    /\ LogInv /\ OffsetIsOwn
    /\ CopiesInv
-----------------------------------------------------------------------------
(* What the operators the actions are made of do.                          *)

LEMMA NodeType ==
    ASSUME TypeOK, NEW c \in Callers
    PROVE  Node(c) \in Nodes
BY WrapType, NodesType DEF TypeOK, Node

LEMMA SeqType == \A c \in Callers : Seq1(c) \in {0, 1}
BY DEF Seq1

(* A pipeline that is free is one nobody refers to.                        *)
LEMMA FreeType ==
    ASSUME Free # {}
    PROVE  Min(Free) \in Pipes /\ ~Referred(Min(Free)) /\ Min(Free) # NoPipe
<1>1. Free \subseteq Pipes /\ Free \in SUBSET Nat
  BY ProduceAssumption DEF Free
<1>2. Min(Free) \in Free
  BY <1>1, MinIsLeast
<1> QED
  BY <1>1, <1>2, ProduceAssumption DEF Free

LEMMA SendEffect ==
    ASSUME DataInv, NEW c \in Callers, NEW p \in Pipes, Send(c, p)
    PROVE  /\ pc' \in [Callers -> {"idle", "lookup", "connect", "wait", "done"}]
           /\ pipe' \in [Callers -> Pipes \cup {NoPipe}]
           /\ pc'[c] = "wait" /\ pipe'[c] = p
           /\ \A d \in Callers \ {c} : pc'[d] = pc[d] /\ pipe'[d] = pipe[d]
           /\ requests' \subseteq RequestType /\ IsFiniteSet(requests')
<1>1. attempt[c] \in Nat /\ Seq1(c) \in {0, 1}
  BY SeqType, AttemptsType DEF DataInv, TypeOK
<1>2. [caller |-> c, attempt |-> attempt[c], pipe |-> p, seq |-> Seq1(c)] \in RequestType
  BY <1>1 DEF RequestType
<1>3. requests' \subseteq RequestType
  BY <1>2 DEF Send, DataInv
<1>4. IsFiniteSet(requests')
  BY FS_AddElement DEF Send, DataInv
<1> QED
  BY <1>3, <1>4 DEF Send, DataInv, TypeOK

LEMMA NextAttemptEffect ==
    ASSUME TypeOK, NEW c \in Callers, NEW next \in 0 .. NumNodes, NextAttempt(c, next)
    PROVE  /\ pc' \in [Callers -> {"idle", "lookup", "connect", "wait", "done"}]
           /\ attempt' \in [Callers -> 0 .. Attempts - 1]
           /\ idx' \in [Callers -> 0 .. NumNodes]
           /\ pipe' \in [Callers -> Pipes \cup {NoPipe}]
           /\ result' \in [Callers -> {"none", "ok", "error"}]
           /\ offset' = offset
           /\ \A d \in Callers \ {c} :
                /\ pc'[d] = pc[d] /\ attempt'[d] = attempt[d] /\ idx'[d] = idx[d]
                /\ pipe'[d] = pipe[d] /\ result'[d] = result[d]
           /\ \/ /\ pc'[c] = "lookup" /\ attempt'[c] = attempt[c] + 1
                 /\ pipe'[c] = pipe[c] /\ result'[c] = result[c]
              \/ /\ pc'[c] = "done" /\ attempt'[c] = attempt[c]
                 /\ pipe'[c] = NoPipe /\ result'[c] = "error"
<1>1. attempt[c] \in Nat /\ Attempts \in Nat
  BY AttemptsType DEF TypeOK
<1>2. CASE attempt[c] + 1 < Attempts
  <2>1. /\ idx' = [idx EXCEPT ![c] = next] /\ attempt' = [attempt EXCEPT ![c] = attempt[c] + 1]
        /\ pc' = [pc EXCEPT ![c] = "lookup"] /\ pipe' = pipe /\ result' = result /\ offset' = offset
    BY <1>2 DEF NextAttempt
  <2>2. attempt[c] + 1 \in 0 .. Attempts - 1
    BY <1>1, <1>2
  <2> QED
    BY <2>1, <2>2 DEF TypeOK
<1>3. CASE ~(attempt[c] + 1 < Attempts)
  <2>1. /\ idx' = [idx EXCEPT ![c] = next] /\ attempt' = attempt
        /\ pc' = [pc EXCEPT ![c] = "done"] /\ result' = [result EXCEPT ![c] = "error"]
        /\ pipe' = [pipe EXCEPT ![c] = NoPipe] /\ offset' = offset
    BY <1>3 DEF NextAttempt
  <2> QED
    BY <2>1 DEF TypeOK
<1> QED
  BY <1>2, <1>3

LEMMA DropPipelineType ==
    ASSUME TypeOK, NEW i \in Nodes, DropPipeline(i)
    PROVE  /\ slots' \in [Nodes -> Pipes \cup {NoPipe}]
           /\ slots'[i] = NoPipe
           /\ \A j \in Nodes \ {i} : slots'[j] = slots[j]
BY DEF DropPipeline, TypeOK
-----------------------------------------------------------------------------
(* Types.                                                                  *)

LEMMA DataInit == Init => DataInv
<1> SUFFICES ASSUME Init PROVE DataInv
  OBVIOUS
<1>1. 0 \in 0 .. Attempts - 1 /\ 0 \in 0 .. NumNodes /\ 0 \in Nodes /\ 0 \in 0 .. MaxFaults
  BY AttemptsType, NodesAssumption, ProduceAssumption DEF Nodes
<1>2. <<>> \in Seq(Entries) /\ Len(<<>>) = 0 /\ IsFiniteSet({})
  BY EmptySeq, FS_EmptySet
<1>3. ClusterTypeOK
  BY ClusterInitType DEF Init
<1> QED
  BY <1>1, <1>2, <1>3, ProduceAssumption DEF Init, DataInv, TypeOK

(* The steps of call_pipelined.                                            *)
LEMMA DataCaller ==
    ASSUME DataInv, LogInv, NEW c \in Callers, Caller(c) \/ RequestTimesOut(c)
    PROVE  DataInv'
<1> USE DEF callVars, innerVars, pipeVars, worldVars, clusterVars
<1>0. Node(c) \in Nodes /\ After(Node(c)) \in 0 .. NumNodes
  BY NodeType, NextIndexType DEF DataInv
<1>1. CASE Refuse(c)
  BY <1>1 DEF Refuse, DataInv, TypeOK, ClusterTypeOK
<1>2. CASE Start(c)
  <2>1. idx' \in [Callers -> 0 .. NumNodes]
    BY <1>2, NodesType DEF Start, DataInv, TypeOK
  <2> QED
    BY <1>2, <2>1 DEF Start, DataInv, TypeOK, ClusterTypeOK
<1>3. CASE LookupHit(c) \/ ConnectLate(c)
  <2>1. slots[Node(c)] \in Pipes
    BY <1>0, <1>3 DEF LookupHit, ConnectLate, Usable, DataInv, TypeOK
  <2>2. Send(c, slots[Node(c)]) /\ UNCHANGED <<attempt, idx, result, offset, leader, slots, target,
              health, responses, up, leads, knows, log, faults>>
    BY <1>3 DEF LookupHit, ConnectLate
  <2> QED
    BY <2>1, <2>2, SendEffect DEF DataInv, TypeOK, ClusterTypeOK
<1>4. CASE LookupMiss(c)
  BY <1>4 DEF LookupMiss, DataInv, TypeOK, ClusterTypeOK
<1>5. CASE Connect(c)
  <2> DEFINE p == Min(Free)
  <2>1. p \in Pipes /\ ~Referred(p) /\ p # NoPipe
    BY <1>5, FreeType DEF Connect
  <2>2. /\ Send(c, p)
        /\ slots' = [slots EXCEPT ![Node(c)] = p]
        /\ target' = [target EXCEPT ![p] = Node(c)]
        /\ health' = [health EXCEPT ![p] = "up"]
        /\ UNCHANGED <<attempt, idx, result, offset, leader, responses, up, leads, knows, log, faults>>
    BY <1>5 DEF Connect
  <2> HIDE DEF p
  <2>3. \A i \in Nodes : slots[i] # p
    BY <2>1 DEF Referred, Range, DataInv, TypeOK
  <2>4. \A i \in Nodes : slots'[i] # NoPipe => target'[slots'[i]] = i
    BY <1>0, <2>1, <2>2, <2>3 DEF DataInv, TypeOK
  <2>5. /\ slots' \in [Nodes -> Pipes \cup {NoPipe}] /\ target' \in [Pipes -> Nodes]
        /\ health' \in [Pipes -> {"up", "down", "closed"}]
    BY <1>0, <2>1, <2>2 DEF DataInv, TypeOK
  <2> QED
    BY <2>1, <2>2, <2>4, <2>5, SendEffect DEF DataInv, TypeOK, ClusterTypeOK
<1>6. CASE ConnectFails(c)
  <2>1. NextAttempt(c, After(Node(c)))
        /\ UNCHANGED <<leader, slots, target, health, requests, responses, up, leads, knows, log>>
    BY <1>6 DEF ConnectFails
  <2>2. faults' \in 0 .. MaxFaults
    BY <1>6, ProduceAssumption DEF ConnectFails, Trouble, DataInv, TypeOK
  <2> QED
    BY <1>0, <2>1, <2>2, NextAttemptEffect DEF DataInv, TypeOK, ClusterTypeOK
<1>7. CASE ReceiveAnswer(c)
  <2>1. PICK x \in Replies(c) :
          /\ result' = [result EXCEPT ![c] = IF x.kind = "offset" THEN "ok" ELSE "error"]
          /\ offset' = [offset EXCEPT ![c] = x.offset]
          /\ responses' = responses \ {x}
    BY <1>7 DEF ReceiveAnswer
  <2>2. x \in responses /\ x.offset \in Nat
    BY DEF Replies, DataInv, ResponseType
  <2>3. x.offset \in 0 .. Len(log)
    BY <2>2 DEF LogInv
  <2>4. result' \in [Callers -> {"none", "ok", "error"}] /\ offset' \in [Callers -> 0 .. Len(log)]
    BY <2>1, <2>3 DEF DataInv, TypeOK
  <2> QED
    BY <1>0, <1>7, <2>1, <2>4 DEF ReceiveAnswer, DataInv, TypeOK, ClusterTypeOK
<1>8. ASSUME NEW next \in 0 .. NumNodes, NextAttempt(c, next), DropPipeline(Node(c)),
             responses' \subseteq responses, faults' \in 0 .. MaxFaults,
             UNCHANGED <<leader, target, health, requests, up, leads, knows, log>>
      PROVE  DataInv'
  <2>1. /\ slots' \in [Nodes -> Pipes \cup {NoPipe}]
        /\ \A i \in Nodes : slots'[i] # NoPipe => target[slots'[i]] = i
    BY <1>0, <1>8, DropPipelineType DEF DataInv, TypeOK
  <2> QED
    BY <1>8, <2>1, NextAttemptEffect DEF DataInv, TypeOK, ClusterTypeOK
<1>9. CASE ReceiveNotLeader(c)
  <2>1. PICK x \in Replies(c) : /\ responses' = responses \ {x}
                                /\ NextAttempt(c, Redirect(Node(c), x.leader))
    BY <1>9 DEF ReceiveNotLeader
  <2>2. Redirect(Node(c), x.leader) \in 0 .. NumNodes
    BY <1>0, <2>1, NextIndexType DEF Replies, DataInv, ResponseType
  <2> QED
    BY <1>8, <1>9, <2>1, <2>2 DEF ReceiveNotLeader, DataInv, TypeOK
<1>10. CASE RequestFails(c)
  BY <1>0, <1>8, <1>10 DEF RequestFails, DataInv, TypeOK
<1>11. CASE RequestTimesOut(c)
  <2>1. faults' \in 0 .. MaxFaults
    BY <1>11, ProduceAssumption DEF RequestTimesOut, Trouble, DataInv, TypeOK
  <2> QED
    BY <1>0, <1>8, <1>11, <2>1 DEF RequestTimesOut
<1> QED
  BY <1>1, <1>2, <1>3, <1>4, <1>5, <1>6, <1>7, <1>9, <1>10, <1>11 DEF Caller

(* A reply is the one record it is made of, or none.                       *)
LEMMA ReplyEffect ==
    ASSUME DataInv, NEW q \in requests, NEW kind \in {"not_leader", "offset", "error"},
           NEW ofs \in Nat, NEW hint \in Nodes \cup {NoNode}, Reply(q, kind, ofs, hint)
    PROVE  /\ responses' \subseteq ResponseType
           /\ \A x \in responses' \ responses :
                x.caller = q.caller /\ x.kind = kind /\ x.offset = ofs
<1> DEFINE x == [caller |-> q.caller, attempt |-> q.attempt, kind |-> kind,
                 offset |-> ofs, leader |-> hint]
<1>1. x \in ResponseType
  BY DEF DataInv, RequestType, ResponseType
<1>2. responses' \subseteq responses \cup {x}
  BY DEF Reply
<1> QED
  BY <1>1, <1>2 DEF DataInv

(* What a node does with a request: at most a reply and an entry.          *)
LEMMA ServeEffect ==
    ASSUME DataInv, LogInv, NEW q \in requests, Serve(q)
    PROVE  /\ UNCHANGED <<callVars, innerVars, target, health, clusterVars>>
           /\ requests' = requests \ {q} /\ faults' \in 0 .. MaxFaults
           /\ q.caller \in Callers /\ q.seq \in {0, 1}
           /\ responses' \subseteq ResponseType
           /\ \/ /\ log' = log
                 /\ \A x \in responses' \ responses :
                      /\ x.caller = q.caller /\ x.offset \in 0 .. Len(log)
                      /\ x.kind = "offset" =>
                           x.offset # 0 /\ log[x.offset].caller = q.caller
              \/ /\ Earlier(q) = {}
                 /\ log' = Append(log, [caller |-> q.caller, seq |-> q.seq])
                 /\ \A x \in responses' \ responses :
                      x.caller = q.caller /\ x.offset = Len(log) + 1
<1>0. Len(log) \in Nat
  BY LenProperties DEF DataInv
<1>1. q \in RequestType /\ q.caller \in Callers /\ q.seq \in {0, 1} /\ target[q.pipe] \in Nodes
  BY DEF DataInv, TypeOK, RequestType
<1>2. UNCHANGED <<callVars, innerVars, target, health, clusterVars>> /\ requests' = requests \ {q}
  BY DEF Serve
<1>3. CASE Redirects(q)
  <2>1. Hint(target[q.pipe]) \in Nodes \cup {NoNode}
    BY <1>1, HintType DEF DataInv, TypeOK
  <2>2. /\ Reply(q, "not_leader", 0, Hint(target[q.pipe]))
        /\ log' = log /\ faults' \in 0 .. MaxFaults
    BY <1>3 DEF Redirects, DataInv, TypeOK
  <2>3. /\ responses' \subseteq ResponseType
        /\ \A x \in responses' \ responses :
             x.caller = q.caller /\ x.kind = "not_leader" /\ x.offset = 0
    BY <2>1, <2>2, ReplyEffect
  <2>4. \A x \in responses' \ responses :
          x.caller = q.caller /\ x.offset \in 0 .. Len(log) /\ x.kind # "offset"
    BY <1>0, <2>3
  <2> QED
    BY <1>1, <1>2, <2>2, <2>3, <2>4
<1>4. CASE Refuses(q)
  <2>1. faults' \in 0 .. MaxFaults
    BY <1>4, ProduceAssumption DEF Refuses, Trouble, DataInv, TypeOK
  <2>2. Reply(q, "error", 0, NoNode) /\ log' = log
    BY <1>4 DEF Refuses
  <2>3. /\ responses' \subseteq ResponseType
        /\ \A x \in responses' \ responses :
             x.caller = q.caller /\ x.kind = "error" /\ x.offset = 0
    BY <2>2, ReplyEffect
  <2>4. \A x \in responses' \ responses :
          x.caller = q.caller /\ x.offset \in 0 .. Len(log) /\ x.kind # "offset"
    BY <1>0, <2>3
  <2> QED
    BY <1>1, <1>2, <2>1, <2>2, <2>3, <2>4
<1>5. CASE Accepts(q) /\ Earlier(q) # {}
  <2>1. Earlier(q) \in SUBSET Nat /\ DOMAIN log \subseteq Nat
    BY LenProperties DEF Earlier, DataInv
  <2>2. Min(Earlier(q)) \in Earlier(q)
    BY <1>5, <2>1, MinIsLeast
  <2>3. /\ Min(Earlier(q)) \in 1 .. Len(log) /\ Min(Earlier(q)) \in Nat
        /\ log[Min(Earlier(q))].caller = q.caller
    BY <2>1, <2>2, LenProperties DEF Earlier, DataInv
  <2>4. Reply(q, "offset", Min(Earlier(q)), NoNode) /\ log' = log /\ faults' = faults
    BY <1>5 DEF Accepts
  <2>5. /\ responses' \subseteq ResponseType
        /\ \A x \in responses' \ responses :
             x.caller = q.caller /\ x.kind = "offset" /\ x.offset = Min(Earlier(q))
    BY <2>3, <2>4, ReplyEffect
  <2>6. \A x \in responses' \ responses :
          /\ x.caller = q.caller /\ x.offset \in 0 .. Len(log)
          /\ x.offset # 0 /\ log[x.offset].caller = q.caller
    BY <1>0, <2>3, <2>5
  <2> QED
    BY <1>1, <1>2, <2>4, <2>5, <2>6 DEF DataInv, TypeOK
<1>6. CASE Accepts(q) /\ Earlier(q) = {}
  <2>1. Len(log) + 1 \in Nat
    BY LenProperties DEF DataInv
  <2>2. /\ log' = Append(log, [caller |-> q.caller, seq |-> q.seq]) /\ faults' = faults
        /\ Reply(q, "offset", Len(log) + 1, NoNode)
    BY <1>6 DEF Accepts
  <2> QED
    BY <1>1, <1>2, <1>6, <2>1, <2>2, ReplyEffect DEF DataInv, TypeOK
<1> QED
  BY <1>3, <1>4, <1>5, <1>6 DEF Serve

(* The steps of everybody else.                                            *)
LEMMA DataWorld ==
    ASSUME DataInv, LogInv, Close \/ (\E p \in Pipes : Break(p) \/ ChannelCloses(p)) \/ Servers
    PROVE  DataInv'
<1> USE DEF callVars, innerVars, pipeVars, worldVars, clusterVars
<1>0. \A kind : Trouble(kind) => faults' \in 0 .. MaxFaults
  BY ProduceAssumption DEF Trouble, DataInv, TypeOK
<1>1. CASE Close
  BY <1>0, <1>1 DEF Close, DataInv, TypeOK, ClusterTypeOK
<1>2. ASSUME NEW p \in Pipes, Break(p)
      PROVE  DataInv'
  <2>1. requests' \subseteq requests /\ IsFiniteSet(requests')
    BY <1>2, FS_Subset DEF Break, DataInv
  <2>2. health' \in [Pipes -> {"up", "down", "closed"}] /\ faults' \in 0 .. MaxFaults
    BY <1>0, <1>2 DEF Break, DataInv, TypeOK
  <2> QED
    BY <1>2, <2>1, <2>2 DEF Break, DataInv, TypeOK, ClusterTypeOK
<1>3. ASSUME NEW p \in Pipes, ChannelCloses(p)
      PROVE  DataInv'
  BY <1>3 DEF ChannelCloses, DataInv, TypeOK, ClusterTypeOK
<1>4. ASSUME NEW q \in requests, Serve(q)
      PROVE  DataInv'
  <2>1. IsFiniteSet(requests') /\ requests' \subseteq RequestType
    BY <1>4, ServeEffect, FS_RemoveElement DEF DataInv
  <2>2. log' \in Seq(Entries) /\ Len(log) <= Len(log')
    <3>1. [caller |-> q.caller, seq |-> q.seq] \in Entries
      BY <1>4, ServeEffect DEF Entries
    <3>2. log' = log \/ log' = Append(log, [caller |-> q.caller, seq |-> q.seq])
      BY <1>4, ServeEffect
    <3>3. Len(log) \in Nat /\ log \in Seq(Entries)
      BY LenProperties DEF DataInv
    <3> QED
      BY <3>1, <3>2, <3>3, AppendProperties
  <2>3. offset' \in [Callers -> 0 .. Len(log')]
    <3>1. offset' = offset
      BY <1>4, ServeEffect
    <3>2. Len(log) \in Nat /\ Len(log') \in Nat
      BY <2>2 DEF DataInv
    <3>3. 0 .. Len(log) \subseteq 0 .. Len(log')
      BY <2>2, <3>2
    <3> QED
      BY <3>1, <3>3 DEF DataInv, TypeOK
  <2> QED
    BY <1>4, <2>1, <2>2, <2>3, ServeEffect DEF DataInv, TypeOK, ClusterTypeOK
<1>5. ASSUME NEW n \in Nodes, Elect(n) \/ Learn(n) \/ Crash(n) \/ Restart(n)
      PROVE  DataInv'
  <2>1. ClusterTypeOK'
    BY <1>5, ClusterStepType DEF Elect, Learn, Crash, Restart, DataInv, TypeOK
  <2>2. CASE Elect(n) \/ Learn(n) \/ Restart(n)
    <3>1. faults' \in 0 .. MaxFaults
      BY <1>0, <2>2 DEF Elect, Learn, Restart, DataInv, TypeOK
    <3> QED
      BY <2>1, <2>2, <3>1 DEF Elect, Learn, Restart, DataInv, TypeOK
  <2>3. CASE Crash(n)
    <3>1. requests' \subseteq requests /\ IsFiniteSet(requests')
      BY <2>3, FS_Subset DEF Crash, DataInv
    <3>2. health' \in [Pipes -> {"up", "down", "closed"}] /\ faults' \in 0 .. MaxFaults
      BY <1>0, <2>3 DEF Crash, DataInv, TypeOK
    <3> QED
      BY <2>1, <2>3, <3>1, <3>2 DEF Crash, DataInv, TypeOK
  <2> QED
    BY <1>5, <2>2, <2>3
<1> QED
  BY <1>1, <1>2, <1>3, <1>4, <1>5 DEF Servers

LEMMA DataStep == DataInv /\ LogInv /\ [Next]_vars => DataInv'
<1> SUFFICES ASSUME DataInv, LogInv, [Next]_vars PROVE DataInv'
  OBVIOUS
<1>1. CASE Finished \/ UNCHANGED vars
  BY <1>1 DEF Finished, vars, callVars, innerVars, pipeVars, worldVars, clusterVars, DataInv,
     TypeOK, ClusterTypeOK
<1> QED
  BY <1>1, DataCaller, DataWorld DEF Next
-----------------------------------------------------------------------------
(* What the other invariants need to know of a step: a call moves alone,   *)
(* and nobody else changes its data.                                       *)

LEMMA WorldFrame ==
    ASSUME Close \/ (\E p \in Pipes : Break(p) \/ ChannelCloses(p)) \/ Servers
    PROVE  UNCHANGED <<pc, attempt, idx, pipe, result, offset, leader, target>>
BY DEF Close, Break, ChannelCloses, Servers, Serve, Elect, Learn, Crash, Restart, callVars,
   innerVars, pipeVars, worldVars, clusterVars

(* An attempt that fails leaves the slot of its node empty, or has held no *)
(* pipeline, and its request where it is.                                  *)
Fails(c, next) ==
    /\ NextAttempt(c, next)
    /\ \/ pc[c] = "connect" /\ UNCHANGED slots
       \/ pc[c] = "wait" /\ DropPipeline(Node(c))
    /\ responses' \subseteq responses
    /\ UNCHANGED <<leader, target, requests, log>>

LEMMA FailsStep ==
    ASSUME DataInv, NEW c \in Callers,
           ConnectFails(c) \/ ReceiveNotLeader(c) \/ RequestFails(c) \/ RequestTimesOut(c)
    PROVE  \E next \in 0 .. NumNodes : Fails(c, next)
<1>0. Node(c) \in Nodes /\ After(Node(c)) \in 0 .. NumNodes
  BY NodeType, NextIndexType DEF DataInv
<1>1. CASE ConnectFails(c)
  BY <1>0, <1>1 DEF ConnectFails, Fails, innerVars, pipeVars, worldVars
<1>2. CASE ReceiveNotLeader(c)
  <2>1. PICK x \in Replies(c) : /\ responses' = responses \ {x}
                                /\ NextAttempt(c, Redirect(Node(c), x.leader))
    BY <1>2 DEF ReceiveNotLeader
  <2>2. Redirect(Node(c), x.leader) \in 0 .. NumNodes
    BY <1>0, <2>1, NextIndexType DEF Replies, DataInv, ResponseType
  <2> QED
    BY <1>2, <2>1, <2>2 DEF ReceiveNotLeader, Fails, worldVars
<1>3. CASE RequestFails(c)
  BY <1>0, <1>3 DEF RequestFails, Fails, worldVars
<1>4. CASE RequestTimesOut(c)
  BY <1>0, <1>4 DEF RequestTimesOut, Fails, worldVars
<1> QED
  BY <1>1, <1>2, <1>3, <1>4

(* Sending on the pipeline of the slot, an old one or a new one.           *)
Sends(c, p) ==
    /\ Send(c, p) /\ pc[c] \in {"lookup", "connect"}
    /\ p \in Pipes /\ p # NoPipe /\ slots'[Node(c)] = p /\ target'[p] = Node(c)
    /\ \A i \in Nodes \ {Node(c)} : slots'[i] = slots[i]
    /\ slots[Node(c)] # p => \A d \in Callers : pipe[d] # p
    /\ \A r \in Pipes \ {p} : target'[r] = target[r]
    /\ slots[Node(c)] = p => target' = target
    /\ UNCHANGED <<attempt, idx, result, offset, leader, responses, log>>

LEMMA SendsStep ==
    ASSUME DataInv, NEW c \in Callers, LookupHit(c) \/ ConnectLate(c) \/ Connect(c)
    PROVE  \E p \in Pipes : Sends(c, p)
<1>0. Node(c) \in Nodes
  BY NodeType DEF DataInv
<1>1. CASE LookupHit(c) \/ ConnectLate(c)
  <2>1. slots[Node(c)] \in Pipes /\ slots[Node(c)] # NoPipe /\ target[slots[Node(c)]] = Node(c)
    BY <1>0, <1>1 DEF LookupHit, ConnectLate, Usable, DataInv, TypeOK
  <2>2. Sends(c, slots[Node(c)])
    BY <1>1, <2>1 DEF LookupHit, ConnectLate, Sends, innerVars, worldVars
  <2> QED
    BY <2>1, <2>2
<1>2. CASE Connect(c)
  <2> DEFINE p == Min(Free)
  <2>1. p \in Pipes /\ ~Referred(p) /\ p # NoPipe
    BY <1>2, FreeType DEF Connect
  <2>2. /\ Send(c, p) /\ pc[c] = "connect"
        /\ slots' = [slots EXCEPT ![Node(c)] = p]
        /\ target' = [target EXCEPT ![p] = Node(c)]
        /\ UNCHANGED <<attempt, idx, result, offset, leader, responses, log>>
    BY <1>2 DEF Connect, worldVars
  <2> HIDE DEF p
  <2>3. /\ \A i \in Nodes : slots[i] # p
        /\ \A d \in Callers : pipe[d] # p
    BY <2>1 DEF Referred, Range, DataInv, TypeOK
  <2>4. Sends(c, p)
    BY <1>0, <2>1, <2>2, <2>3 DEF Sends, DataInv, TypeOK
  <2> QED
    BY <2>1, <2>4
<1> QED
  BY <1>1, <1>2

(* Everybody else moves no call, and at most loses requests and empties    *)
(* slots.                                                                  *)
Others ==
    /\ UNCHANGED <<pc, attempt, idx, pipe, result, offset, leader, target, responses, log>>
    /\ requests' \subseteq requests
    /\ slots' = slots \/ slots' = [i \in Nodes |-> NoPipe]

LEMMA OthersStep ==
    ASSUME \/ Close \/ Finished \/ UNCHANGED vars
           \/ \E p \in Pipes : Break(p) \/ ChannelCloses(p)
           \/ \E n \in Nodes : Elect(n) \/ Learn(n) \/ Crash(n) \/ Restart(n)
    PROVE  Others
<1> USE DEF vars, callVars, innerVars, pipeVars, worldVars, clusterVars
<1>1. CASE Close \/ Finished \/ UNCHANGED vars
  BY <1>1 DEF Close, Finished, Others
<1>2. ASSUME NEW p \in Pipes, Break(p) \/ ChannelCloses(p)
      PROVE  Others
  BY <1>2 DEF Break, ChannelCloses, Others
<1>3. ASSUME NEW n \in Nodes, Elect(n) \/ Learn(n) \/ Crash(n) \/ Restart(n)
      PROVE  Others
  BY <1>3 DEF Elect, Learn, Crash, Restart, Others
<1> QED
  BY <1>1, <1>2, <1>3

CallStep(c) ==
    \/ Refuse(c) \/ Start(c) \/ LookupMiss(c) \/ ReceiveAnswer(c)
    \/ \E p \in Pipes : Sends(c, p)
    \/ \E next \in 0 .. NumNodes : Fails(c, next)

(* Every step is one of these.                                             *)
LEMMA StepCases ==
    ASSUME DataInv, [Next]_vars
    PROVE  \/ \E c \in Callers : CallStep(c)
           \/ \E q \in requests : Serve(q)
           \/ Others
<1>1. ASSUME NEW c \in Callers, Caller(c) \/ RequestTimesOut(c)
      PROVE  CallStep(c)
  BY <1>1, SendsStep, FailsStep DEF Caller, CallStep
<1> QED
  BY <1>1, OthersStep DEF Next, Servers
-----------------------------------------------------------------------------
(* The invariant is preserved, one part at a time.                         *)

LEMMA ControlStep ==
    ASSUME DataInv, DataInv', ControlInv, [Next]_vars
    PROVE  ControlInv'
<1> SUFFICES ASSUME NEW d \in Callers
             PROVE  /\ pc'[d] = "wait" => pipe'[d] # NoPipe /\ target'[pipe'[d]] = Node(d)'
                    /\ pc'[d] \in {"idle", "connect", "done"} => pipe'[d] = NoPipe
                    /\ d \in Malformed => pc'[d] \in {"idle", "done"}
  BY DEF ControlInv
<1> USE DEF Node
<1>0. /\ pc[d] = "wait" => pipe[d] # NoPipe /\ target[pipe[d]] = Node(d)
      /\ pc[d] \in {"idle", "connect", "done"} => pipe[d] = NoPipe
      /\ d \in Malformed => pc[d] \in {"idle", "done"}
  BY DEF ControlInv
<1>1. ASSUME NEW c \in Callers, Refuse(c) \/ Start(c) \/ LookupMiss(c) \/ ReceiveAnswer(c),
             c = d
      PROVE  /\ pc'[c] \in {"lookup", "connect", "done"}
             /\ pc'[c] # "lookup" => pipe'[c] = NoPipe
             /\ pc'[c] # "done" => c \notin Malformed
  BY <1>0, <1>1 DEF Refuse, Start, LookupMiss, ReceiveAnswer, WellFormed, innerVars, pipeVars,
     DataInv, TypeOK
<1>2. ASSUME NEW c \in Callers, Refuse(c) \/ Start(c) \/ LookupMiss(c) \/ ReceiveAnswer(c),
             c # d
      PROVE  /\ pc'[d] = pc[d] /\ pipe'[d] = pipe[d] /\ idx'[d] = idx[d] /\ target' = target
  BY <1>2 DEF Refuse, Start, LookupMiss, ReceiveAnswer, innerVars, pipeVars, DataInv, TypeOK
<1>3. ASSUME NEW c \in Callers, NEW p \in Pipes, Sends(c, p)
      PROVE  /\ pc'[d] = "wait" => pipe'[d] # NoPipe /\ target'[pipe'[d]] = Node(d)'
             /\ pc'[d] \in {"idle", "connect", "done"} => pipe'[d] = NoPipe
             /\ d \in Malformed => pc'[d] \in {"idle", "done"}
  <2>1. /\ pc'[c] = "wait" /\ pipe'[c] = p /\ pc[c] \in {"lookup", "connect"}
        /\ p # NoPipe /\ target'[p] = Node(c) /\ idx' = idx
    BY <1>3, SendEffect DEF Sends
  <2>2. CASE c = d
    BY <1>0, <2>1, <2>2
  <2>3. CASE c # d
    <3>1. pc'[d] = pc[d] /\ pipe'[d] = pipe[d]
      BY <1>3, <2>3, SendEffect DEF Sends
    <3>2. pipe[d] \in Pipes => target'[pipe[d]] = target[pipe[d]]
      BY <1>3 DEF Sends
    <3>3. pipe[d] \in Pipes \cup {NoPipe}
      BY DEF DataInv, TypeOK
    <3> QED
      BY <1>0, <2>1, <3>1, <3>2, <3>3
  <2> QED
    BY <2>2, <2>3
<1>4. ASSUME NEW c \in Callers, NEW next \in 0 .. NumNodes, Fails(c, next)
      PROVE  /\ pc'[d] = "wait" => pipe'[d] # NoPipe /\ target'[pipe'[d]] = Node(d)'
             /\ pc'[d] \in {"idle", "connect", "done"} => pipe'[d] = NoPipe
             /\ d \in Malformed => pc'[d] \in {"idle", "done"}
  <2>1. NextAttempt(c, next) /\ target' = target /\ pc[c] \in {"connect", "wait"}
    BY <1>4 DEF Fails
  <2>2. CASE c = d
    BY <1>0, <2>1, <2>2, NextAttemptEffect DEF DataInv
  <2>3. CASE c # d
    <3>1. pc'[d] = pc[d] /\ pipe'[d] = pipe[d] /\ idx'[d] = idx[d]
      BY <2>1, <2>3, NextAttemptEffect DEF DataInv
    <3> QED
      BY <1>0, <2>1, <3>1
  <2> QED
    BY <2>2, <2>3
<1>5. ASSUME NEW q \in requests, Serve(q)
      PROVE  UNCHANGED <<pc, pipe, idx, target>>
  BY <1>5 DEF Serve, callVars
<1>6. CASE Others
  BY <1>0, <1>6 DEF Others
<1> QED
  BY <1>0, <1>1, <1>2, <1>3, <1>4, <1>5, <1>6, StepCases DEF CallStep

(* The pipeline of an attempt that failed was the one of its slot, if it   *)
(* was in any, and that slot is emptied.                                   *)
LEMMA NoSecondTryStep ==
    ASSUME DataInv, DataInv', ControlInv, NoSecondTry, [Next]_vars
    PROVE  NoSecondTry'
<1> SUFFICES ASSUME NEW d \in Callers, pc'[d] = "lookup", pipe'[d] # NoPipe,
                    NEW i \in Nodes, slots'[i] = pipe'[d]
             PROVE  FALSE
  BY DEF NoSecondTry, Range, DataInv, TypeOK
<1>0. /\ pc[d] = "lookup" /\ pipe[d] # NoPipe => slots[i] # pipe[d]
      /\ pc[d] \in {"idle", "connect", "done"} => pipe[d] = NoPipe
  BY DEF NoSecondTry, ControlInv, Range, DataInv, TypeOK
<1>1. ASSUME NEW c \in Callers, Refuse(c) \/ Start(c) \/ LookupMiss(c) \/ ReceiveAnswer(c)
      PROVE  FALSE
  <2>1. CASE c = d
    BY <1>0, <1>1, <2>1 DEF Refuse, Start, LookupMiss, ReceiveAnswer, DataInv, TypeOK
  <2>2. CASE c # d
    BY <1>0, <1>1, <2>2 DEF Refuse, Start, LookupMiss, ReceiveAnswer, innerVars, DataInv, TypeOK
  <2> QED
    BY <2>1, <2>2
<1>2. ASSUME NEW c \in Callers, NEW p \in Pipes, Sends(c, p)
      PROVE  FALSE
  <2>1. pc'[c] = "wait" /\ Node(c) \in Nodes
    BY <1>2, SendEffect, NodeType DEF Sends, DataInv
  <2>2. pc'[d] = pc[d] /\ pipe'[d] = pipe[d] /\ c # d
    BY <1>2, <2>1, SendEffect DEF Sends
  <2>3. CASE i # Node(c)
    BY <1>0, <1>2, <2>2, <2>3 DEF Sends
  <2>4. CASE i = Node(c)
    <3>1. pipe[d] = p
      BY <1>2, <2>2, <2>4 DEF Sends
    <3>2. slots[i] = p
      BY <1>2, <2>4, <3>1 DEF Sends
    <3> QED
      BY <1>0, <2>2, <3>1, <3>2
  <2> QED
    BY <2>3, <2>4
<1>3. ASSUME NEW c \in Callers, NEW next \in 0 .. NumNodes, Fails(c, next)
      PROVE  FALSE
  <2>0. slots'[i] # slots[i] => slots'[i] = NoPipe
    BY <1>3, DropPipelineType, NodeType DEF Fails, DataInv
  <2>1. CASE c # d
    BY <1>0, <1>3, <2>0, <2>1, NextAttemptEffect DEF Fails, DataInv
  <2>2. CASE c = d
    <3>1. pipe'[c] = pipe[c]
      BY <1>3, <2>2, NextAttemptEffect DEF Fails, DataInv
    <3>2. pc[c] = "wait" /\ DropPipeline(Node(c)) /\ target[pipe[c]] = Node(c)
      BY <1>0, <1>3, <2>2, <3>1 DEF Fails, ControlInv
    <3>3. slots[i] = pipe[c] /\ slots[i] # NoPipe
      BY <2>0, <2>2, <3>1
    <3>4. target[slots[i]] = i
      BY <3>3 DEF DataInv, TypeOK
    <3> QED
      BY <2>2, <3>1, <3>2, <3>3, <3>4, DropPipelineType, NodeType DEF DataInv
  <2> QED
    BY <2>1, <2>2
<1>4. ASSUME NEW q \in requests, Serve(q)
      PROVE  FALSE
  BY <1>0, <1>4 DEF Serve, callVars, innerVars
<1>5. CASE Others
  BY <1>0, <1>5 DEF Others
<1> QED
  BY <1>1, <1>2, <1>3, <1>4, <1>5, StepCases DEF CallStep

(* Only a node writes the log or makes a reply.                            *)
LEMMA CallFrame ==
    ASSUME DataInv, ControlInv, NEW c \in Callers, CallStep(c)
    PROVE  /\ log' = log /\ responses' \subseteq responses
           /\ \A q \in requests' \ requests :
                q.caller = c /\ q.seq = Seq1(c) /\ c \notin Malformed
<1>1. CASE Refuse(c) \/ Start(c) \/ LookupMiss(c) \/ ReceiveAnswer(c)
  BY <1>1 DEF Refuse, Start, LookupMiss, ReceiveAnswer, pipeVars, worldVars
<1>2. ASSUME NEW p \in Pipes, Sends(c, p)
      PROVE  /\ log' = log /\ responses' = responses
             /\ requests' = requests \cup
                  {[caller |-> c, attempt |-> attempt[c], pipe |-> p, seq |-> Seq1(c)]}
             /\ c \notin Malformed
  BY <1>2 DEF Sends, Send, ControlInv
<1>3. ASSUME NEW next \in 0 .. NumNodes, Fails(c, next)
      PROVE  log' = log /\ responses' \subseteq responses /\ requests' = requests
  BY <1>3 DEF Fails
<1> QED
  BY <1>1, <1>2, <1>3 DEF CallStep

LEMMA LogStep ==
    ASSUME DataInv, ControlInv, LogInv, [Next]_vars
    PROVE  LogInv'
<1> USE DEF Seq1
<1>1. ASSUME log' = log, responses' \subseteq responses,
             \A q \in requests' \ requests : q.seq = Seq1(q.caller) /\ q.caller \notin Malformed
      PROVE  LogInv'
  BY <1>1 DEF LogInv
<1>2. ASSUME NEW c \in Callers, CallStep(c)
      PROVE  LogInv'
  BY <1>1, <1>2, CallFrame
<1>3. CASE Others
  BY <1>1, <1>3 DEF Others
<1>4. ASSUME NEW q \in requests, Serve(q)
      PROVE  LogInv'
  <2> DEFINE e == [caller |-> q.caller, seq |-> q.seq]
  <2>1. Len(log) \in Nat /\ e \in Entries /\ q.seq = Seq1(q.caller)
    BY <1>4, ServeEffect, LenProperties DEF DataInv, LogInv, Entries
  <2>2. requests' \subseteq requests
    BY <1>4, ServeEffect
  <2>3. CASE log' = log
    <3>1. \A x \in responses' \ responses :
            /\ x.caller = q.caller /\ x.offset \in 0 .. Len(log)
            /\ x.kind = "offset" => x.offset # 0 /\ log[x.offset].caller = q.caller
      <4>1. log' # Append(log, e)
        BY <2>1, <2>3, AppendProperties DEF DataInv
      <4> QED
        BY <1>4, <4>1, ServeEffect
    <3> QED
      BY <2>1, <2>2, <2>3, <3>1 DEF LogInv
  <2>4. CASE log' # log
    <3>1. /\ log' = Append(log, e)
          /\ \A x \in responses' \ responses : x.caller = q.caller /\ x.offset = Len(log) + 1
      BY <1>4, <2>4, ServeEffect
    <3>2. /\ Len(log') = Len(log) + 1 /\ DOMAIN log' = 1 .. Len(log) + 1
          /\ DOMAIN log = 1 .. Len(log)
          /\ \A k \in 1 .. Len(log) : log'[k] = log[k]
          /\ log'[Len(log) + 1] = e
      BY <2>1, <3>1, AppendProperties, LenProperties DEF DataInv
    <3>3. \A k \in DOMAIN log' : log'[k].seq = Seq1(log'[k].caller)
      BY <2>1, <3>2 DEF LogInv
    <3>4. \A x \in responses : x.offset \in Nat
      BY DEF DataInv, ResponseType
    <3>5. ASSUME NEW x \in responses'
          PROVE  /\ x.offset <= Len(log')
                 /\ x.kind = "offset" => x.offset # 0 /\ log'[x.offset].caller = x.caller
      <4>1. CASE x \in responses
        <5>1. x.offset <= Len(log) /\ x.offset \in Nat
          BY <3>4, <4>1 DEF LogInv
        <5>2. x.kind = "offset" => x.offset # 0 /\ log[x.offset].caller = x.caller
          BY <4>1 DEF LogInv
        <5> QED
          BY <2>1, <3>2, <5>1, <5>2
      <4>2. CASE x \notin responses
        BY <2>1, <3>1, <3>2, <4>2
      <4> QED
        BY <4>1, <4>2
    <3> QED
      BY <2>2, <3>3, <3>5 DEF LogInv
  <2> QED
    BY <2>3, <2>4
<1> QED
  BY <1>2, <1>3, <1>4, StepCases

(* The entry of an offset does not change.                                 *)
LEMMA OffsetStep ==
    ASSUME DataInv, ControlInv, LogInv, OffsetIsOwn, [Next]_vars
    PROVE  OffsetIsOwn'
<1> SUFFICES ASSUME NEW d \in Callers, result'[d] = "ok"
             PROVE  offset'[d] # 0 /\ log'[offset'[d]] = [caller |-> d, seq |-> Seq1(d)]
  BY DEF OffsetIsOwn, Seq1
<1>0. result[d] = "ok" => offset[d] # 0 /\ log[offset[d]] = [caller |-> d, seq |-> Seq1(d)]
  BY DEF OffsetIsOwn
<1>1. ASSUME NEW c \in Callers, Refuse(c) \/ Start(c) \/ LookupMiss(c)
      PROVE  result[d] = "ok" /\ offset' = offset /\ log' = log
  BY <1>1 DEF Refuse, Start, LookupMiss, worldVars, DataInv, TypeOK
<1>2. ASSUME NEW c \in Callers, ReceiveAnswer(c)
      PROVE  offset'[d] # 0 /\ log'[offset'[d]] = [caller |-> d, seq |-> Seq1(d)]
  <2>0. log' = log
    BY <1>2 DEF ReceiveAnswer, worldVars
  <2>1. PICK x \in Replies(c) :
          /\ result' = [result EXCEPT ![c] = IF x.kind = "offset" THEN "ok" ELSE "error"]
          /\ offset' = [offset EXCEPT ![c] = x.offset]
    BY <1>2 DEF ReceiveAnswer
  <2>2. CASE c # d
    BY <1>0, <2>0, <2>1, <2>2 DEF DataInv, TypeOK
  <2>3. CASE c = d
    <3>1. x.kind = "offset" /\ offset'[d] = x.offset /\ x \in responses /\ x.caller = d
      BY <2>1, <2>3 DEF Replies, DataInv, TypeOK
    <3>2. /\ x.offset \in Nat /\ x.offset # 0 /\ x.offset <= Len(log)
          /\ log[x.offset].caller = d
      BY <3>1 DEF LogInv, DataInv, ResponseType
    <3>3. x.offset \in 1 .. Len(log) /\ DOMAIN log = 1 .. Len(log)
      BY <3>2, LenProperties DEF DataInv
    <3>4. log[x.offset] \in Entries /\ log[x.offset].seq = Seq1(d)
      BY <3>2, <3>3, ElementOfSeq DEF DataInv, LogInv
    <3>5. log[x.offset] = [caller |-> d, seq |-> Seq1(d)]
      BY <3>2, <3>4 DEF Entries
    <3> QED
      BY <2>0, <3>1, <3>2, <3>5
  <2> QED
    BY <2>2, <2>3
<1>3. ASSUME NEW c \in Callers, NEW p \in Pipes, Sends(c, p)
      PROVE  result' = result /\ offset' = offset /\ log' = log
  BY <1>3 DEF Sends
<1>4. ASSUME NEW c \in Callers, NEW next \in 0 .. NumNodes, Fails(c, next)
      PROVE  result[d] = "ok" /\ offset' = offset /\ log' = log
  BY <1>4, NextAttemptEffect DEF Fails, DataInv
<1>5. ASSUME NEW q \in requests, Serve(q)
      PROVE  offset'[d] # 0 /\ log'[offset'[d]] = [caller |-> d, seq |-> Seq1(d)]
  <2>1. result' = result /\ offset' = offset
    BY <1>5 DEF Serve, callVars
  <2>2. offset[d] \in 0 .. Len(log) /\ Len(log) \in Nat
    BY LenProperties DEF DataInv, TypeOK
  <2>3. offset[d] \in 1 .. Len(log)
    BY <1>0, <2>1, <2>2
  <2>4. log' = log \/ log' = Append(log, [caller |-> q.caller, seq |-> q.seq])
    BY <1>5, ServeEffect
  <2>5. [caller |-> q.caller, seq |-> q.seq] \in Entries
    BY <1>5, ServeEffect DEF Entries
  <2>6. log'[offset[d]] = log[offset[d]]
    BY <2>2, <2>3, <2>4, <2>5, AppendProperties DEF DataInv
  <2> QED
    BY <1>0, <2>1, <2>6
<1>6. CASE Others
  BY <1>0, <1>6 DEF Others
<1> QED
  BY <1>0, <1>1, <1>2, <1>3, <1>4, <1>5, <1>6, StepCases DEF CallStep

LEMMA CountsType ==
    ASSUME DataInv, NEW c \in Callers
    PROVE  /\ IsFiniteSet(Copies(c)) /\ Cardinality(Copies(c)) \in Nat
           /\ IsFiniteSet(Pending(c)) /\ Cardinality(Pending(c)) \in Nat
           /\ AttemptsSent(c) \in Nat /\ AttemptsSent(c) <= attempt[c] + 1
<1>1. Len(log) \in Nat /\ DOMAIN log = 1 .. Len(log) /\ IsFiniteSet(1 .. Len(log))
  BY LenProperties, FS_Interval DEF DataInv
<1>2. Copies(c) \subseteq 1 .. Len(log) /\ Pending(c) \subseteq requests
  BY <1>1 DEF Copies, Pending
<1>3. attempt[c] \in Nat
  BY AttemptsType DEF DataInv, TypeOK
<1>4. AttemptsSent(c) \in Nat /\ AttemptsSent(c) <= attempt[c] + 1
  BY <1>3 DEF AttemptsSent
<1> QED
  BY <1>1, <1>2, <1>4, NoMore DEF DataInv

(* A call that takes a step sends a request at most, and then it counts    *)
(* one attempt more.                                                       *)
LEMMA SentByCall ==
    ASSUME DataInv, NEW c \in Callers, CallStep(c), NEW d \in Callers
    PROVE  /\ Pending(d)' \subseteq Pending(d) /\ AttemptsSent(d) <= AttemptsSent(d)'
           \/ /\ \E q : Pending(d)' \subseteq Pending(d) \cup {q}
              /\ AttemptsSent(d)' = AttemptsSent(d) + 1
<1>0. attempt[d] \in Nat
  BY AttemptsType DEF DataInv, TypeOK
<1>1. CASE Refuse(c) \/ Start(c) \/ LookupMiss(c) \/ ReceiveAnswer(c)
  <2>1. /\ requests' = requests /\ attempt' = attempt
        /\ pc[d] \in {"wait", "done"} => pc'[d] \in {"wait", "done"}
    BY <1>1 DEF Refuse, Start, LookupMiss, ReceiveAnswer, pipeVars, DataInv, TypeOK
  <2> QED
    BY <1>0, <2>1 DEF Pending, AttemptsSent
<1>2. ASSUME NEW p \in Pipes, Sends(c, p)
      PROVE  /\ Pending(d)' \subseteq Pending(d) /\ AttemptsSent(d) <= AttemptsSent(d)'
             \/ /\ \E q : Pending(d)' \subseteq Pending(d) \cup {q}
                /\ AttemptsSent(d)' = AttemptsSent(d) + 1
  <2> DEFINE r == [caller |-> c, attempt |-> attempt[c], pipe |-> p, seq |-> Seq1(c)]
  <2>1. /\ requests' = requests \cup {r} /\ attempt' = attempt /\ r.caller = c
        /\ pc' = [pc EXCEPT ![c] = "wait"] /\ pc[c] \in {"lookup", "connect"}
    BY <1>2 DEF Sends, Send
  <2> HIDE DEF r
  <2>2. CASE c = d
    <3>1. pc'[d] = "wait" /\ pc[d] \notin {"wait", "done"} /\ attempt'[d] = attempt[d]
      BY <2>1, <2>2 DEF DataInv, TypeOK
    <3>2. AttemptsSent(d)' = AttemptsSent(d) + 1
      BY <1>0, <3>1 DEF AttemptsSent
    <3>3. Pending(d)' \subseteq Pending(d) \cup {r}
      BY <2>1 DEF Pending
    <3> QED
      BY <3>2, <3>3
  <2>3. CASE c # d
    BY <1>0, <2>1, <2>3 DEF Pending, AttemptsSent, DataInv, TypeOK
  <2> QED
    BY <2>2, <2>3
<1>3. ASSUME NEW next \in 0 .. NumNodes, Fails(c, next)
      PROVE  Pending(d)' \subseteq Pending(d) /\ AttemptsSent(d) <= AttemptsSent(d)'
  <2>1. /\ requests' = requests /\ NextAttempt(c, next)
        /\ pc[c] \in {"connect", "wait"}
    BY <1>3 DEF Fails
  <2>2. CASE c # d
    <3>1. pc'[d] = pc[d] /\ attempt'[d] = attempt[d]
      BY <2>1, <2>2, NextAttemptEffect DEF DataInv
    <3> QED
      BY <1>0, <2>1, <3>1 DEF Pending, AttemptsSent
  <2>3. CASE c = d
    <3>1. \/ pc'[d] = "lookup" /\ attempt'[d] = attempt[d] + 1
          \/ pc'[d] = "done" /\ attempt'[d] = attempt[d]
      BY <2>1, <2>3, NextAttemptEffect DEF DataInv
    <3> QED
      BY <1>0, <2>1, <2>3, <3>1 DEF Pending, AttemptsSent
  <2> QED
    BY <2>2, <2>3
<1> QED
  BY <1>1, <1>2, <1>3 DEF CallStep

(* What a node does with a request turns it into a copy of the message or  *)
(* into nothing.  A message with a sequence number has no copy before.     *)
LEMMA CopyOfRequest ==
    ASSUME DataInv, LogInv, NEW q \in requests, Serve(q), NEW d \in Callers
    PROVE  /\ Pending(d)' = Pending(d) \ {q}
           /\ \/ Copies(d)' = Copies(d)
              \/ /\ q \in Pending(d) /\ d \notin Malformed
                 /\ Copies(d)' = Copies(d) \cup {Len(log) + 1}
                 /\ d \in Idempotent => Copies(d) = {}
<1> DEFINE e == [caller |-> q.caller, seq |-> q.seq]
<1>1. /\ requests' = requests \ {q} /\ e \in Entries /\ q.caller \in Callers
      /\ Len(log) \in Nat /\ DOMAIN log = 1 .. Len(log)
      /\ q.seq = Seq1(q.caller) /\ q.caller \notin Malformed
  BY ServeEffect, LenProperties DEF Entries, DataInv, LogInv
<1>2. Pending(d)' = Pending(d) \ {q}
  BY <1>1 DEF Pending
<1>3. CASE log' = log
  BY <1>2, <1>3 DEF Copies
<1>4. CASE log' # log
  <2>1. Earlier(q) = {} /\ log' = Append(log, e)
    BY <1>4, ServeEffect
  <2>2. /\ DOMAIN log' = 1 .. Len(log) + 1
        /\ \A k \in 1 .. Len(log) : log'[k] = log[k]
        /\ log'[Len(log) + 1] = e
    BY <1>1, <2>1, AppendProperties, LenProperties DEF DataInv
  <2>3. DOMAIN log' = DOMAIN log \cup {Len(log) + 1} /\ Len(log) + 1 \notin DOMAIN log
    BY <1>1, <2>2
  <2>4. CASE q.caller # d
    <3>1. Copies(d)' = Copies(d)
      BY <1>1, <2>2, <2>3, <2>4 DEF Copies
    <3> QED
      BY <1>2, <3>1
  <2>5. CASE q.caller = d
    <3>1. Copies(d)' = Copies(d) \cup {Len(log) + 1}
      BY <1>1, <2>2, <2>3, <2>5 DEF Copies
    <3>2. ASSUME d \in Idempotent, NEW k \in Copies(d)
          PROVE  FALSE
      <4>1. /\ k \in 1 .. Len(log) /\ k \in DOMAIN log
            /\ log[k].caller = d /\ log[k].seq = Seq1(d)
        BY <1>1, <3>2 DEF Copies, LogInv
      <4>2. log[k] \in Entries
        BY <4>1, ElementOfSeq DEF DataInv
      <4>3. log[k] = e
        BY <1>1, <2>5, <4>1, <4>2 DEF Entries
      <4>4. q.seq # 0
        BY <1>1, <2>5, <3>2 DEF Seq1
      <4> QED
        BY <2>1, <4>1, <4>3, <4>4 DEF Earlier
    <3>3. q \in Pending(d)
      BY <2>5 DEF Pending
    <3> QED
      BY <1>1, <1>2, <2>5, <3>1, <3>2, <3>3
  <2> QED
    BY <2>4, <2>5
<1> QED
  BY <1>3, <1>4

LEMMA CopiesStep ==
    ASSUME IInv, DataInv', [Next]_vars
    PROVE  CopiesInv'
<1> SUFFICES ASSUME NEW d \in Callers
             PROVE  /\ Cardinality(Copies(d)') + Cardinality(Pending(d)') <= AttemptsSent(d)'
                    /\ d \in Idempotent => \A k, l \in Copies(d)' : k = l
                    /\ d \in Malformed => Copies(d)' = {}
  BY DEF CopiesInv
<1>0. /\ Cardinality(Copies(d)) + Cardinality(Pending(d)) <= AttemptsSent(d)
      /\ d \in Idempotent => \A k, l \in Copies(d) : k = l
      /\ d \in Malformed => Copies(d) = {}
      /\ IsFiniteSet(Copies(d)) /\ Cardinality(Copies(d)) \in Nat
      /\ IsFiniteSet(Pending(d)) /\ Cardinality(Pending(d)) \in Nat
      /\ AttemptsSent(d) \in Nat
  BY CountsType DEF IInv, CopiesInv
<1>a. AttemptsSent(d)' \in Nat /\ Cardinality(Pending(d)') \in Nat
  <2>1. attempt'[d] \in Nat /\ IsFiniteSet(requests')
    BY AttemptsType DEF DataInv, TypeOK
  <2>2. Pending(d)' \in SUBSET requests'
    BY DEF Pending
  <2> QED
    BY <2>1, <2>2, NoMore DEF AttemptsSent
<1>1. ASSUME NEW c \in Callers, CallStep(c)
      PROVE  /\ Copies(d)' = Copies(d)
             /\ Cardinality(Copies(d)) + Cardinality(Pending(d)') <= AttemptsSent(d)'
  <2>1. Copies(d)' = Copies(d)
    BY <1>1, CallFrame DEF Copies, IInv
  <2>2. CASE Pending(d)' \subseteq Pending(d) /\ AttemptsSent(d) <= AttemptsSent(d)'
    <3>1. Cardinality(Pending(d)') <= Cardinality(Pending(d))
      BY <1>0, <2>2, NoMore
    <3> QED
      BY <1>0, <1>a, <2>1, <2>2, <3>1
  <2>3. ASSUME NEW q, Pending(d)' \subseteq Pending(d) \cup {q},
               AttemptsSent(d)' = AttemptsSent(d) + 1
        PROVE  Cardinality(Copies(d)) + Cardinality(Pending(d)') <= AttemptsSent(d)'
    <3>1. Cardinality(Pending(d)') <= Cardinality(Pending(d)) + 1
      BY <1>0, <2>3, OneMore
    <3> QED
      BY <1>0, <1>a, <2>3, <3>1
  <2> QED
    BY <1>1, <2>1, <2>2, <2>3, SentByCall DEF IInv
<1>2. ASSUME NEW q \in requests, Serve(q)
      PROVE  /\ Cardinality(Copies(d)') + Cardinality(Pending(d)') <= AttemptsSent(d)'
             /\ d \in Idempotent => \A k, l \in Copies(d)' : k = l
             /\ d \in Malformed => Copies(d)' = {}
  <2>1. AttemptsSent(d)' = AttemptsSent(d) /\ Pending(d)' = Pending(d) \ {q}
    BY <1>2, CopyOfRequest DEF AttemptsSent, Serve, callVars, IInv
  <2>2. CASE Copies(d)' = Copies(d)
    <3>1. Cardinality(Pending(d)') <= Cardinality(Pending(d))
      BY <1>0, <2>1, NoMore
    <3> QED
      BY <1>0, <1>a, <2>1, <2>2, <3>1
  <2>3. CASE Copies(d)' # Copies(d)
    <3>1. /\ q \in Pending(d) /\ d \notin Malformed
          /\ Copies(d)' = Copies(d) \cup {Len(log) + 1}
          /\ d \in Idempotent => Copies(d) = {}
      BY <1>2, <2>3, CopyOfRequest DEF IInv
    <3>2. Cardinality(Pending(d)') + 1 = Cardinality(Pending(d))
      BY <1>0, <2>1, <3>1, OneLess
    <3>3. Cardinality(Copies(d)') <= Cardinality(Copies(d)) + 1 /\ Cardinality(Copies(d)') \in Nat
      BY <1>0, <3>1, OneMore
    <3>4. Cardinality(Copies(d)') + Cardinality(Pending(d)') <= AttemptsSent(d)'
      BY <1>0, <1>a, <2>1, <3>2, <3>3
    <3> QED
      BY <3>1, <3>4
  <2> QED
    BY <2>2, <2>3
<1>3. CASE Others
  <2>1. /\ Copies(d)' = Copies(d) /\ Pending(d)' \subseteq Pending(d)
        /\ AttemptsSent(d)' = AttemptsSent(d)
    BY <1>3 DEF Others, Copies, Pending, AttemptsSent
  <2>2. Cardinality(Pending(d)') <= Cardinality(Pending(d))
    BY <1>0, <2>1, NoMore
  <2> QED
    BY <1>0, <1>a, <2>1, <2>2
<1> QED
  BY <1>0, <1>1, <1>2, <1>3, StepCases DEF IInv
-----------------------------------------------------------------------------
(* The invariant holds.                                                    *)

LEMMA InvInit == Init => IInv
<1> SUFFICES ASSUME Init PROVE IInv
  OBVIOUS
<1>1. DataInv
  BY DataInit
<1>2. DOMAIN log = {} /\ requests = {} /\ responses = {}
  BY LenProperties, EmptySeq DEF Init
<1>3. ControlInv /\ NoSecondTry /\ OffsetIsOwn
  BY DEF Init, ControlInv, NoSecondTry, OffsetIsOwn
<1>4. LogInv
  BY <1>2 DEF LogInv
<1>5. CopiesInv
  <2>1. \A c \in Callers : Copies(c) = {} /\ Pending(c) = {} /\ AttemptsSent(c) = 0
    BY <1>2 DEF Copies, Pending, AttemptsSent, Init
  <2>2. Cardinality({}) = 0
    BY FS_EmptySet
  <2> QED
    BY <2>1, <2>2 DEF CopiesInv
<1> QED
  BY <1>1, <1>3, <1>4, <1>5 DEF IInv

(* Types, where the calls are, what is under way, what is in the log and   *)
(* how many copies there can be: together they are kept by every step.     *)
THEOREM Invariance == Spec => []IInv
<1>1. IInv /\ [Next]_vars => IInv'
  BY DataStep, ControlStep, NoSecondTryStep, LogStep, OffsetStep, CopiesStep DEF IInv
<1> QED
  BY <1>1, InvInit, PTL DEF Spec

(* The types: an attempt number below the limit, an index that is a node's *)
(* or one past, an offset the log has, and in the slot of a node only a    *)
(* pipeline to that node.                                                  *)
THEOREM TypeCorrect == Spec => []TypeOK
<1>1. IInv => TypeOK
  BY DEF IInv, DataInv
<1> QED
  BY <1>1, Invariance, PTL

(* call_pipelined drops the pipeline of an attempt that failed from its    *)
(* slot, whatever the slot holds by then: no attempt takes it again.       *)
THEOREM FailedPipelineIsNotRetried == Spec => []NoSecondTry
<1>1. IInv => NoSecondTry
  BY DEF IInv
<1> QED
  BY <1>1, Invariance, PTL

(* produce resolves with the offset at which the message of this very call *)
(* is in the log, whichever attempt it is the answer to.                   *)
THEOREM OffsetOfOwnMessage == Spec => []OffsetIsOwn
<1>1. IInv => OffsetIsOwn
  BY DEF IInv
<1> QED
  BY <1>1, Invariance, PTL

(* However its attempts fail, time out or are redirected, a call leaves at *)
(* most one copy of its message per attempt, one with a producerId and a   *)
(* seq, and none when produce_request refuses it.                          *)
THEOREM RetriesBounded == Spec => []CopiesBounded
<1>1. ASSUME IInv PROVE CopiesBounded
  <2> SUFFICES ASSUME NEW c \in Callers
               PROVE  /\ Cardinality(Copies(c)) <= attempt[c] + 1
                      /\ c \in Idempotent => Cardinality(Copies(c)) <= 1
                      /\ c \in Malformed => Copies(c) = {}
    BY DEF CopiesBounded
  <2>1. /\ IsFiniteSet(Copies(c)) /\ Cardinality(Copies(c)) \in Nat
        /\ Cardinality(Pending(c)) \in Nat /\ attempt[c] \in Nat
        /\ AttemptsSent(c) \in Nat /\ AttemptsSent(c) <= attempt[c] + 1
    BY <1>1, CountsType, AttemptsType DEF IInv, DataInv, TypeOK
  <2>2. /\ Cardinality(Copies(c)) + Cardinality(Pending(c)) <= AttemptsSent(c)
        /\ c \in Idempotent => \A k, l \in Copies(c) : k = l
        /\ c \in Malformed => Copies(c) = {}
    BY <1>1 DEF IInv, CopiesInv
  <2>3. Cardinality(Copies(c)) <= attempt[c] + 1
    BY <2>1, <2>2
  <2>4. ASSUME c \in Idempotent PROVE Cardinality(Copies(c)) <= 1
    <3>1. CASE Copies(c) = {}
      BY <3>1, FS_EmptySet
    <3>2. ASSUME NEW k \in Copies(c) PROVE Cardinality(Copies(c)) <= 1
      <4>1. Copies(c) = {k}
        BY <2>2, <2>4
      <4> QED
        BY <4>1, FS_Singleton
    <3> QED
      BY <3>1, <3>2
  <2> QED
    BY <2>2, <2>3, <2>4
<1> QED
  BY <1>1, Invariance, PTL

(* Inner::pipeline looks at the slot again after it has connected, so that *)
(* no pipeline with an open channel is ever replaced.                      *)
THEOREM OpenSlotIsKept == Spec => OpenSlotKept
<1>1. ASSUME IInv, [Next]_vars, NEW i \in Nodes, slots'[i] # slots[i], slots'[i] # NoPipe
      PROVE  ~Usable(slots[i])
  <2>1. ASSUME NEW c \in Callers, Connect(c)
        PROVE  ~Usable(slots[i])
    <3>1. Node(c) \in Nodes
      BY <1>1, NodeType DEF IInv, DataInv
    <3>2. /\ \A j \in Nodes \ {Node(c)} : slots'[j] = slots[j]
          /\ ~Usable(slots[Node(c)])
      BY <1>1, <2>1 DEF Connect, IInv, DataInv, TypeOK
    <3> QED
      BY <1>1, <3>1, <3>2
  <2>2. ASSUME NEW c \in Callers, Caller(c) \/ RequestTimesOut(c), ~Connect(c)
        PROVE  slots'[i] \in {slots[i], NoPipe}
    <3>1. CASE Refuse(c) \/ Start(c) \/ LookupHit(c) \/ LookupMiss(c) \/ ConnectLate(c)
                 \/ ConnectFails(c) \/ ReceiveAnswer(c)
      BY <3>1 DEF Refuse, Start, LookupHit, LookupMiss, ConnectLate, ConnectFails, ReceiveAnswer,
         innerVars
    <3>2. CASE ReceiveNotLeader(c) \/ RequestFails(c) \/ RequestTimesOut(c)
      BY <1>1, <3>2, NodeType DEF ReceiveNotLeader, RequestFails, RequestTimesOut, DropPipeline, IInv,
         DataInv, TypeOK
    <3> QED
      BY <2>2, <3>1, <3>2 DEF Caller
  <2>3. ASSUME NEW q \in requests, Serve(q)
        PROVE  slots' = slots
    BY <2>3 DEF Serve, innerVars
  <2>4. CASE Others
    BY <1>1, <2>4 DEF Others
  <2> QED
    BY <1>1, <2>1, <2>2, <2>3, <2>4, OthersStep DEF Next, Servers
<1>2. IInv /\ [Next]_vars =>
        [\A i \in Nodes : slots'[i] # slots[i] /\ slots'[i] # NoPipe => ~Usable(slots[i])]_vars
  BY <1>1
<1> QED
  BY <1>2, Invariance, PTL DEF Spec, OpenSlotKept
=============================================================================
