-------------------------- MODULE SubscriptionProofs -------------------------
(***************************************************************************)
(* Theorems about module Subscription: for any number of nodes, messages,  *)
(* connections and leases, any prefetch and any amount of trouble.         *)
(***************************************************************************)
EXTENDS Subscription, ClientLemmas, SequenceTheorems

-----------------------------------------------------------------------------
(* The invariant.                                                          *)

FrameType ==
    [kind : {"none", "polled", "not_leader", "error", "garbage"},
     items : SUBSET Deliveries, leader : Nodes \cup {NoNode}]

DataInv ==
    /\ pc \in {"top", "connect", "read", "frame", "batch", "failed", "sleep", "ended"}
    /\ idx \in 0 .. NumNodes
    /\ failures \in 0 .. Cap /\ reported \in 0 .. Cap
    /\ conn \in Conns \cup {NoConn}
    /\ frame \in FrameType /\ batch \subseteq Deliveries
    /\ leader \in Nodes
    /\ ackMode \in AckModes /\ stop \in {"no", "stored", "aborted"}
    /\ queued \subseteq Deliveries /\ handlers \subseteq Deliveries
    /\ reports \subseteq [delivery : Deliveries, ok : BOOLEAN]
    /\ started \in [Msgs -> 0 .. 2] /\ handled \subseteq Msgs
    /\ peer \in [Conns -> Nodes]
    /\ network \in [Conns -> {"up", "down"}]
    /\ frames \in [Conns -> Seq(FrameType)]
    /\ consumer \in [Conns -> {"none", "asked", "subscribed"}]
    /\ state \in [Msgs -> {"ready", "leased", "acked"}]
    /\ lease \in [Msgs -> Leases \cup {NoLease}]
    /\ holder \in [Msgs -> Conns \cup {NoConn}]
    /\ ClusterTypeOK
    /\ faults \in 0 .. MaxFaults

LeaseInv ==
    /\ \A m \in Msgs : /\ state[m] = "leased" <=> lease[m] # NoLease
                       /\ state[m] = "leased" <=> holder[m] # NoConn
    /\ \A k \in Conns : Cardinality(Held(k)) <= Prefetch

OfConn(items, k) == \A d \in items : d.conn = k

(* The task has deliveries in its hands from its connection only, and only *)
(* at two of its points.                                                   *)
TaskInv ==
    /\ conn # NoConn <=> pc \in {"read", "frame", "batch"}
    /\ pc # "batch" => batch = {}
    /\ pc # "frame" => frame.items = {}
    /\ OfConn(batch, conn) /\ OfConn(frame.items, conn)

(* What is under way to the client is on the connection it reads, each     *)
(* delivery in one frame, and not in the hands of the task as well.        *)
FramesInv ==
    /\ \A k \in Conns : k # conn => frames[k] = <<>>
    /\ \A k \in Conns : \A j \in 1 .. Len(frames[k]) :
         /\ OfConn(frames[k][j].items, k)
         /\ frames[k][j].items \cap (batch \cup frame.items) = {}
    /\ \A k \in Conns : \A i, j \in 1 .. Len(frames[k]) :
         i # j => frames[k][i].items \cap frames[k][j].items = {}

(* A handler that runs was called, and a good report is of a message that  *)
(* a handler has dealt with.                                               *)
AppInv ==
    /\ \A d \in handlers : started[d.msg] > 0
    /\ \A r \in reports : r.ok => r.delivery.msg \in handled

(* The deliveries whose handler is not called yet.                         *)
Waiting == Undispatched \cup queued

(* In auto mode a message is acked as it is delivered, is delivered once,  *)
(* and was not handed on before.                                           *)
AutoInv ==
    AutoAck =>
        /\ handlers = {} /\ reports = {}
        /\ \A d \in Waiting : state[d.msg] = "acked" /\ started[d.msg] = 0
        /\ \A d, e \in Waiting : d.msg = e.msg => d = e
        /\ \A m \in Msgs : state[m] # "leased" /\ (state[m] = "ready" => started[m] = 0)

IInv ==
    /\ DataInv /\ LeaseInv /\ TaskInv /\ FramesInv
    /\ OneReportPerLease
    /\ AppInv /\ AutoInv
-----------------------------------------------------------------------------
(* Deliveries under way.                                                   *)

LEMMA FrameAt ==
    ASSUME DataInv, NEW k \in Conns
    PROVE  /\ Len(frames[k]) \in Nat /\ DOMAIN frames[k] = 1 .. Len(frames[k])
           /\ \A j \in 1 .. Len(frames[k]) : frames[k][j] \in FrameType
BY LenProperties, ElementOfSeq DEF DataInv

LEMMA InFramesAt ==
    ASSUME NEW F \in [Conns -> Seq(FrameType)], NEW d
    PROVE  d \in UNION {UNION {F[k][j].items : j \in DOMAIN F[k]} : k \in Conns} <=>
             \E k \in Conns : \E j \in 1 .. Len(F[k]) : d \in F[k][j].items
<1>1. \A k \in Conns : DOMAIN F[k] = 1 .. Len(F[k])
  BY LenProperties
<1> QED
  BY <1>1

LEMMA UndispatchedAt ==
    DataInv =>
      \A d : d \in Undispatched <=>
               \/ \E k \in Conns : \E j \in 1 .. Len(frames[k]) : d \in frames[k][j].items
               \/ d \in frame.items \/ d \in batch
BY InFramesAt DEF DataInv, Undispatched, InFrames

LEMMA UndispatchedType == DataInv => Undispatched \subseteq Deliveries
<1> SUFFICES ASSUME DataInv, NEW d \in Undispatched PROVE d \in Deliveries
  OBVIOUS
<1>1. CASE d \in frame.items \/ d \in batch
  BY <1>1 DEF DataInv, FrameType
<1>2. ASSUME NEW k \in Conns, NEW j \in 1 .. Len(frames[k]), d \in frames[k][j].items
      PROVE  d \in Deliveries
  BY <1>2, FrameAt DEF FrameType
<1> QED
  BY <1>1, <1>2, UndispatchedAt

LEMMA UndispatchedNextAt ==
    DataInv' =>
      \A d : d \in Undispatched' <=>
               \/ \E k \in Conns : \E j \in 1 .. Len(frames'[k]) : d \in frames'[k][j].items
               \/ d \in frame'.items \/ d \in batch'
BY InFramesAt DEF DataInv, Undispatched, InFrames

LEMMA NoFrameType ==
    /\ NoFrame \in FrameType /\ NoFrame.items = {}
    /\ \A hint \in Nodes \cup {NoNode} : NotLeader(hint) \in FrameType /\ NotLeader(hint).items = {}
    /\ OtherError \in FrameType /\ OtherError.items = {}
    /\ Garbage \in FrameType /\ Garbage.items = {}
    /\ Polled({}) \in FrameType /\ Polled({}).items = {}
BY DEF NoFrame, NotLeader, OtherError, Garbage, Polled, FrameType

LEMMA NodeType == DataInv => Node \in Nodes /\ After(Node) \in 0 .. NumNodes
BY WrapType, NodesType, NextIndexType DEF DataInv, Node

LEMMA CountedType == \A n \in 0 .. Cap : Counted(n) \in 0 .. Cap
BY SubscriptionAssumption DEF Counted

(* A step that moves no delivery on, and drops some at most, keeps what is *)
(* said of deliveries.                                                     *)
LEMMA NothingMoves ==
    ASSUME OneReportPerLease, AppInv, AutoInv, Undispatched' \subseteq Undispatched,
           queued' \subseteq queued, handlers' \subseteq handlers, reports' \subseteq reports,
           UNCHANGED <<handled, started, ackMode>>, ~AutoAck \/ state' = state
    PROVE  OneReportPerLease' /\ AppInv' /\ AutoInv'
<1>1. Reporting' \subseteq Reporting
  BY DEF Reporting
<1>2. OneReportPerLease'
  BY <1>1 DEF OneReportPerLease
<1>3. AppInv'
  BY DEF AppInv
<1>4. AutoInv'
  <2>1. CASE ~AutoAck
    BY <2>1 DEF AutoInv, AutoAck
  <2>2. CASE state' = state
    BY <2>2 DEF AutoInv, AutoAck, Waiting
  <2> QED
    BY <2>1, <2>2
<1> QED
  BY <1>2, <1>3, <1>4
-----------------------------------------------------------------------------
(* The invariant is preserved, one kind of step at a time.                 *)

(* once returns, or the task is aborted: what it held is dropped.          *)
LEMMA LeaveStep ==
    ASSUME IInv, Leave, pc' \in {"failed", "ended"},
           idx' \in 0 .. NumNodes, failures' \in 0 .. Cap, reported' \in 0 .. Cap,
           leader' = leader, faults' \in 0 .. MaxFaults,
           UNCHANGED <<subVars, jsVars, brokerVars, clusterVars>>
    PROVE  IInv'
<1> USE DEF subVars, jsVars, brokerVars, clusterVars
<1>0. <<>> \in Seq(FrameType) /\ Len(<<>>) = 0 /\ NoFrame \in FrameType /\ NoFrame.items = {}
  BY EmptySeq, NoFrameType
<1>1. conn' = NoConn /\ frame' = NoFrame /\ batch' = {} /\ peer' = peer /\ network' = network
  BY DEF Leave
<1>2. /\ frames' \in [Conns -> Seq(FrameType)]
      /\ \A k \in Conns : frames'[k] = <<>>
  <2>1. frames \in [Conns -> Seq(FrameType)] /\ conn \in Conns \cup {NoConn}
        /\ \A k \in Conns : k # conn => frames[k] = <<>>
    BY DEF IInv, DataInv, FramesInv
  <2>2. CASE conn = NoConn
    BY <2>1, <2>2, SubscriptionAssumption DEF Leave
  <2>3. CASE conn # NoConn
    <3>1. frames' = [frames EXCEPT ![conn] = <<>>]
      BY <2>3 DEF Leave
    <3> QED
      BY <3>1, <2>1, <1>0
  <2> QED
    BY <2>2, <2>3
<1>3. DataInv'
  BY <1>0, <1>1, <1>2 DEF IInv, DataInv, ClusterTypeOK
<1>4. LeaseInv'
  BY DEF IInv, LeaseInv, Held
<1>5. TaskInv'
  BY <1>0, <1>1 DEF TaskInv, OfConn
<1>6. FramesInv'
  BY <1>0, <1>2 DEF FramesInv
<1>7. Undispatched' \subseteq Undispatched
  BY <1>0, <1>1, <1>2, <1>3, UndispatchedNextAt
<1>8. OneReportPerLease' /\ AppInv' /\ AutoInv'
  BY <1>7, NothingMoves DEF IInv
<1> QED
  BY <1>3, <1>4, <1>5, <1>6, <1>8 DEF IInv

(* The task, the client or a node moves and leaves every delivery where it *)
(* is; leases can only end.                                                *)
LEMMA QuietStep ==
    ASSUME IInv, DataInv', UNCHANGED <<frame, batch, frames, conn, ackMode, queued, handlers, reports,
                                       handled, started, state, lease, holder>>,
           \/ pc' = pc
           \/ /\ pc \in {"top", "connect", "failed", "sleep"}
              /\ pc' \in {"top", "connect", "failed", "sleep", "ended"}
    PROVE  IInv'
<1>1. Undispatched' = Undispatched
  BY DEF Undispatched, InFrames
<1>2. OneReportPerLease' /\ AppInv' /\ AutoInv'
  BY <1>1, NothingMoves DEF IInv
<1>3. LeaseInv'
  BY DEF IInv, LeaseInv, Held
<1>4. TaskInv'
  BY DEF IInv, TaskInv
<1>5. FramesInv'
  BY DEF IInv, FramesInv
<1> QED
  BY <1>2, <1>3, <1>4, <1>5 DEF IInv

LEMMA TroubleType ==
    ASSUME faults \in 0 .. MaxFaults, NEW kind, Trouble(kind)
    PROVE  faults' \in 0 .. MaxFaults
BY SubscriptionAssumption DEF Trouble

LEMMA FailedStep ==
    ASSUME IInv, Failed, faults' \in 0 .. MaxFaults,
           UNCHANGED <<subVars, jsVars, brokerVars, clusterVars>>
    PROVE  IInv'
<1>1. failures' \in 0 .. Cap /\ reported' \in 0 .. Cap
  BY CountedType DEF IInv, DataInv, Failed
<1>2. idx' \in 0 .. NumNodes
  BY NodeType DEF IInv, Failed
<1> QED
  BY <1>1, <1>2, LeaveStep DEF Failed

LEMMA EndsStep ==
    ASSUME IInv, Ends, faults' \in 0 .. MaxFaults,
           UNCHANGED <<subVars, jsVars, brokerVars, clusterVars>>
    PROVE  IInv'
<1>1. failures' \in 0 .. Cap /\ reported' \in 0 .. Cap /\ idx' \in 0 .. NumNodes
  BY DEF IInv, DataInv, Ends
<1> QED
  BY <1>1, LeaveStep DEF Ends

LEMMA RedirectedStep ==
    ASSUME IInv, Redirected(frame.leader), UNCHANGED <<subVars, jsVars, brokerVars, clusterVars, faults>>
    PROVE  IInv'
<1>1. failures' \in 0 .. Cap /\ reported' \in 0 .. Cap /\ faults' \in 0 .. MaxFaults
  BY CountedType DEF IInv, DataInv, Redirected
<1>2. frame.leader \in Nodes \cup {NoNode}
  BY DEF IInv, DataInv, FrameType
<1>3. idx' \in 0 .. NumNodes
  BY <1>2, NodeType, NextIndexType DEF IInv, Redirected
<1> QED
  BY <1>1, <1>3, LeaveStep DEF Redirected

LEMMA LoopStep == IInv /\ (Top \/ AfterOnce \/ Wakes) => IInv'
<1> SUFFICES ASSUME IInv, Top \/ AfterOnce \/ Wakes PROVE IInv'
  OBVIOUS
<1> USE DEF Top, AfterOnce, Wakes, subVars, jsVars, connVars, brokerVars, clusterVars
<1>1. DataInv'
  BY DEF IInv, DataInv, ClusterTypeOK
<1> QED
  BY <1>1, QuietStep

LEMMA ConnectFailsStep == IInv /\ ConnectFails => IInv'
<1> SUFFICES ASSUME IInv, ConnectFails PROVE IInv'
  OBVIOUS
<1>1. faults' \in 0 .. MaxFaults
  BY TroubleType DEF ConnectFails, IInv, DataInv
<1> QED
  BY <1>1, FailedStep DEF ConnectFails

LEMMA ReadEndsStep == IInv /\ ReadEnds => IInv'
<1> SUFFICES ASSUME IInv, ReadEnds PROVE IInv'
  OBVIOUS
<1>1. faults' \in 0 .. MaxFaults
  BY TroubleType DEF ReadEnds, IInv, DataInv
<1> QED
  BY <1>1, FailedStep, EndsStep DEF ReadEnds

LEMMA AbortedStep == IInv /\ Aborted => IInv'
BY EndsStep DEF Aborted, IInv, DataInv

LEMMA UnsubscribeStep == IInv /\ Unsubscribe => IInv'
<1> SUFFICES ASSUME IInv, Unsubscribe PROVE IInv'
  OBVIOUS
<1> USE DEF Unsubscribe, taskVars, jsVars, connVars, brokerVars, clusterVars
<1>1. DataInv'
  BY DEF IInv, DataInv, ClusterTypeOK
<1> QED
  BY <1>1, QuietStep

LEMMA ForgetsStep == ASSUME IInv, NEW k \in Conns, Forgets(k) PROVE IInv'
<1> USE DEF Forgets, taskVars, subVars, jsVars, connVars, brokerVars, clusterVars
<1>1. DataInv'
  BY DEF IInv, DataInv, ClusterTypeOK
<1> QED
  BY <1>1, QuietStep

LEMMA ClusterStep ==
    ASSUME IInv, NEW n \in Nodes, Elect(n) \/ Learn(n) \/ Crash(n) \/ Restart(n)
    PROVE  IInv'
<1> USE DEF Elect, Learn, Crash, Restart, taskVars, subVars, jsVars, connVars, brokerVars
<1>1. ClusterTypeOK'
  BY ClusterStepType DEF IInv, DataInv
<1>2. faults' \in 0 .. MaxFaults
  BY TroubleType DEF IInv, DataInv
<1>3. network' \in [Conns -> {"up", "down"}]
  BY DEF IInv, DataInv
<1>4. DataInv'
  BY <1>1, <1>2, <1>3 DEF IInv, DataInv
<1> QED
  BY <1>4, QuietStep
-----------------------------------------------------------------------------
(* The broker's leases.                                                    *)

(* Ending the lease of a message: what the broker holds for a connection   *)
(* does not grow.                                                          *)
LEMMA ReleaseStep ==
    ASSUME DataInv, LeaseInv, NEW m \in Msgs, NEW to \in {"ready", "acked"}, Release(m, to)
    PROVE  /\ state' \in [Msgs -> {"ready", "leased", "acked"}]
           /\ lease' \in [Msgs -> Leases \cup {NoLease}]
           /\ holder' \in [Msgs -> Conns \cup {NoConn}]
           /\ LeaseInv'
<1> USE DEF Release
<1>1. /\ state' \in [Msgs -> {"ready", "leased", "acked"}]
      /\ lease' \in [Msgs -> Leases \cup {NoLease}]
      /\ holder' \in [Msgs -> Conns \cup {NoConn}]
  BY DEF DataInv
<1>2. ASSUME NEW q \in Msgs
      PROVE  /\ state'[q] = "leased" <=> lease'[q] # NoLease
             /\ state'[q] = "leased" <=> holder'[q] # NoConn
  <2>1. CASE q = m
    BY <2>1 DEF DataInv
  <2>2. CASE q # m
    BY <2>2 DEF DataInv, LeaseInv
  <2> QED
    BY <2>1, <2>2
<1>3. ASSUME NEW k \in Conns
      PROVE  Cardinality(Held(k)') <= Prefetch
  <2>1. Held(k)' \subseteq Held(k)
    <3>1. k # NoConn
      BY SubscriptionAssumption
    <3> QED
      BY <3>1 DEF Held, DataInv
  <2>2. IsFiniteSet(Held(k)) /\ Cardinality(Held(k)) <= Prefetch
    BY FS_Subset, SubscriptionAssumption DEF Held, LeaseInv
  <2> QED
    BY <2>1, <2>2, NoMore, SubscriptionAssumption
<1> QED
  BY <1>1, <1>2, <1>3 DEF LeaseInv

LEMMA ExpiresStep == ASSUME IInv, NEW m \in Msgs, Expires(m) PROVE IInv'
<1> USE DEF Expires, taskVars, subVars, jsVars, connVars, clusterVars
<1>1. /\ state' \in [Msgs -> {"ready", "leased", "acked"}]
      /\ lease' \in [Msgs -> Leases \cup {NoLease}]
      /\ holder' \in [Msgs -> Conns \cup {NoConn}]
      /\ LeaseInv'
  BY ReleaseStep DEF IInv
<1>2. faults' \in 0 .. MaxFaults
  BY TroubleType DEF IInv, DataInv
<1>3. DataInv'
  BY <1>1, <1>2 DEF IInv, DataInv, ClusterTypeOK
<1>4. Undispatched' = Undispatched
  BY DEF Undispatched, InFrames
<1>5. ~AutoAck
  BY DEF IInv, AutoInv
<1>6. OneReportPerLease' /\ AppInv' /\ AutoInv'
  BY <1>4, <1>5, NothingMoves DEF IInv
<1>7. TaskInv' /\ FramesInv'
  BY DEF IInv, TaskInv, FramesInv
<1> QED
  BY <1>1, <1>3, <1>6, <1>7 DEF IInv
-----------------------------------------------------------------------------
(* Frames on the way to the client.                                        *)

(* The broker sends a frame of new deliveries, or of none.                 *)
LEMMA SendsStep ==
    ASSUME IInv, NEW k \in Conns, NEW f \in FrameType, Sends(k, f),
           OfConn(f.items, k), f.items \cap Undispatched = {},
           UNCHANGED <<pc, conn, frame, batch>>
    PROVE  /\ frames' \in [Conns -> Seq(FrameType)]
           /\ TaskInv' /\ FramesInv'
           /\ DataInv' => \A d \in Undispatched' : d \in Undispatched \cup f.items
<1>1. TaskInv'
  BY DEF IInv, TaskInv
<1>2. frames \in [Conns -> Seq(FrameType)]
  BY DEF IInv, DataInv
<1>3. CASE k # conn
  BY <1>1, <1>2, <1>3 DEF Sends, IInv, FramesInv, Undispatched, InFrames
<1>4. CASE k = conn
  <2>1. frames' = [frames EXCEPT ![k] = Append(frames[k], f)]
    BY <1>4 DEF Sends
  <2>2. /\ Append(frames[k], f) \in Seq(FrameType) /\ Len(frames[k]) \in Nat
        /\ Len(Append(frames[k], f)) = Len(frames[k]) + 1
        /\ \A j \in 1 .. Len(frames[k]) : Append(frames[k], f)[j] = frames[k][j]
        /\ Append(frames[k], f)[Len(frames[k]) + 1] = f
    BY <1>2, AppendProperties, LenProperties
  <2> DEFINE n == Len(frames[k])
  <2>3. /\ frames' \in [Conns -> Seq(FrameType)] /\ n \in Nat
        /\ \A q \in Conns \ {k} : frames'[q] = frames[q]
        /\ Len(frames'[k]) = n + 1 /\ frames'[k][n + 1] = f
        /\ \A j \in 1 .. n : frames'[k][j] = frames[k][j]
    BY <1>2, <2>1, <2>2
  <2>4. \A j \in 1 .. n : frames[k][j].items \subseteq Undispatched
    BY UndispatchedAt DEF IInv
  <2>5. batch \cup frame.items \subseteq Undispatched
    BY DEF Undispatched
  <2>6. ASSUME NEW j \in 1 .. n + 1
        PROVE  j \in 1 .. n \/ j = n + 1
    BY <2>3
  <2> HIDE DEF n
  <2>7. \A q \in Conns : q # conn => frames'[q] = <<>>
    BY <1>4, <2>3 DEF IInv, FramesInv
  <2>8. \A q \in Conns : \A j \in 1 .. Len(frames'[q]) :
          /\ OfConn(frames'[q][j].items, q)
          /\ frames'[q][j].items \cap (batch \cup frame.items) = {}
    <3> SUFFICES ASSUME NEW q \in Conns, NEW j \in 1 .. Len(frames'[q])
                 PROVE  /\ OfConn(frames'[q][j].items, q)
                        /\ frames'[q][j].items \cap (batch \cup frame.items) = {}
      OBVIOUS
    <3>1. CASE q # k
      BY <3>1, <2>3 DEF IInv, FramesInv
    <3>2. CASE q = k /\ j \in 1 .. n
      BY <3>2, <2>3 DEF IInv, FramesInv, n
    <3>3. CASE q = k /\ j = n + 1
      BY <3>3, <2>3, <2>5
    <3> QED
      BY <3>1, <3>2, <3>3, <2>3, <2>6
  <2>9. \A q \in Conns : \A i, j \in 1 .. Len(frames'[q]) :
          i # j => frames'[q][i].items \cap frames'[q][j].items = {}
    <3> SUFFICES ASSUME NEW q \in Conns, NEW i \in 1 .. Len(frames'[q]),
                        NEW j \in 1 .. Len(frames'[q]), i # j
                 PROVE  frames'[q][i].items \cap frames'[q][j].items = {}
      OBVIOUS
    <3>1. CASE q # k
      BY <3>1, <2>3 DEF IInv, FramesInv
    <3>2. CASE q = k /\ i \in 1 .. n /\ j \in 1 .. n
      BY <3>2, <2>3 DEF IInv, FramesInv, n
    <3>3. CASE q = k /\ i \in 1 .. n /\ j = n + 1
      BY <3>3, <2>3, <2>4
    <3>4. CASE q = k /\ j \in 1 .. n /\ i = n + 1
      BY <3>4, <2>3, <2>4
    <3> QED
      BY <3>1, <3>2, <3>3, <3>4, <2>3, <2>6
  <2>10. FramesInv'
    BY <2>7, <2>8, <2>9 DEF FramesInv
  <2>11. DataInv' => \A d \in Undispatched' : d \in Undispatched \cup f.items
    <3> SUFFICES ASSUME DataInv', NEW d \in Undispatched', d \notin f.items
                 PROVE  d \in Undispatched
      OBVIOUS
    <3>1. CASE d \in frame'.items \/ d \in batch'
      BY <3>1, <2>5
    <3>2. ASSUME NEW q \in Conns, NEW j \in 1 .. Len(frames'[q]), d \in frames'[q][j].items
          PROVE  \E i \in 1 .. Len(frames[q]) : d \in frames[q][i].items
      <4>1. CASE q # k
        BY <4>1, <3>2, <2>3
      <4>2. CASE q = k
        <5>1. j \in 1 .. n
          BY <4>2, <3>2, <2>3, <2>6
        <5> QED
          BY <5>1, <4>2, <3>2, <2>3 DEF n
      <4> QED
        BY <4>1, <4>2
    <3> QED
      BY <3>1, <3>2, UndispatchedNextAt, UndispatchedAt DEF IInv
  <2> QED
    BY <1>1, <2>3, <2>10, <2>11
<1> QED
  BY <1>3, <1>4

(* The same for a frame that carries no message.                           *)
LEMMA SendsEmptyStep ==
    ASSUME IInv, NEW k \in Conns, NEW f \in FrameType, f.items = {},
           Sends(k, f) \/ frames' = frames, UNCHANGED <<pc, conn, frame, batch>>
    PROVE  /\ frames' \in [Conns -> Seq(FrameType)]
           /\ TaskInv' /\ FramesInv'
           /\ DataInv' => Undispatched' \subseteq Undispatched
<1>1. CASE frames' = frames
  BY <1>1 DEF IInv, DataInv, TaskInv, FramesInv, Undispatched, InFrames
<1>2. CASE Sends(k, f)
  BY <1>2, SendsStep DEF OfConn
<1> QED
  BY <1>1, <1>2

LEMMA AnswersStep ==
    ASSUME IInv, NEW k \in Conns, Subscribes(k) \/ Deposed(k) \/ SendsOther(k)
    PROVE  IInv'
<1> USE DEF Subscribes, Deposed, SendsOther, taskVars, subVars, jsVars, brokerVars, clusterVars
<1>1. PICK f \in FrameType : f.items = {} /\ (Sends(k, f) \/ frames' = frames)
  <2>1. CASE Subscribes(k) \/ Deposed(k)
    <3>1. Hint(peer[k]) \in Nodes \cup {NoNode}
      BY HintType DEF IInv, DataInv
    <3> QED
      BY <2>1, <3>1, NoFrameType
  <2>2. CASE SendsOther(k)
    BY <2>2, NoFrameType
  <2> QED
    BY <2>1, <2>2
<1>2. /\ frames' \in [Conns -> Seq(FrameType)]
      /\ TaskInv' /\ FramesInv'
      /\ DataInv' => Undispatched' \subseteq Undispatched
  BY <1>1, SendsEmptyStep
<1>3. consumer' \in [Conns -> {"none", "asked", "subscribed"}] /\ faults' \in 0 .. MaxFaults
  BY TroubleType DEF IInv, DataInv
<1>4. DataInv'
  BY <1>2, <1>3 DEF IInv, DataInv, ClusterTypeOK
<1>5. OneReportPerLease' /\ AppInv' /\ AutoInv'
  BY <1>2, <1>4, NothingMoves DEF IInv
<1>6. LeaseInv'
  BY DEF IInv, LeaseInv, Held
<1> QED
  BY <1>2, <1>4, <1>5, <1>6 DEF IInv

(* A connection breaks, with what was on its way or without.               *)
LEMMA BreakStep == ASSUME IInv, NEW k \in Conns, Break(k) PROVE IInv'
<1> USE DEF Break, taskVars, subVars, jsVars, brokerVars, clusterVars
<1>1. <<>> \in Seq(FrameType) /\ Len(<<>>) = 0
  BY EmptySeq
<1>2. frames \in [Conns -> Seq(FrameType)]
  BY DEF IInv, DataInv
<1>3. /\ frames' \in [Conns -> Seq(FrameType)]
      /\ \A q \in Conns : frames'[q] = frames[q] \/ frames'[q] = <<>>
  BY <1>1, <1>2
<1>4. faults' \in 0 .. MaxFaults
  BY TroubleType DEF IInv, DataInv
<1>5. DataInv'
  BY <1>3, <1>4 DEF IInv, DataInv, ClusterTypeOK
<1>6. FramesInv'
  <2>1. \A q \in Conns : q # conn => frames'[q] = <<>>
    BY <1>3 DEF IInv, FramesInv
  <2>2. ASSUME NEW q \in Conns, NEW j \in 1 .. Len(frames'[q])
        PROVE  frames'[q] = frames[q]
    BY <1>1, <1>3
  <2> QED
    BY <2>1, <2>2 DEF IInv, FramesInv
<1>7. Undispatched' \subseteq Undispatched
  BY <1>1, <1>3, <1>5, UndispatchedAt, UndispatchedNextAt DEF IInv
<1>8. OneReportPerLease' /\ AppInv' /\ AutoInv'
  BY <1>7, NothingMoves DEF IInv
<1>9. LeaseInv' /\ TaskInv'
  BY DEF IInv, LeaseInv, Held, TaskInv
<1> QED
  BY <1>5, <1>6, <1>8, <1>9 DEF IInv
-----------------------------------------------------------------------------
(* Reports.                                                                *)

LEMMA ReportIsLostStep == ASSUME IInv, NEW r \in reports, ReportIsLost(r) PROVE IInv'
<1> USE DEF ReportIsLost, taskVars, subVars, connVars, brokerVars, clusterVars
<1>1. DataInv'
  BY DEF IInv, DataInv, ClusterTypeOK
<1>2. Undispatched' = Undispatched
  BY DEF Undispatched, InFrames
<1>3. OneReportPerLease' /\ AppInv' /\ AutoInv'
  BY <1>2, NothingMoves DEF IInv
<1>4. LeaseInv' /\ TaskInv' /\ FramesInv'
  BY DEF IInv, LeaseInv, Held, TaskInv, FramesInv
<1> QED
  BY <1>1, <1>3, <1>4 DEF IInv

LEMMA ReportArrivesStep == ASSUME IInv, NEW r \in reports, ReportArrives(r) PROVE IInv'
<1> USE DEF taskVars, subVars, clusterVars
<1> DEFINE d == r.delivery
<1>1. /\ UNCHANGED <<taskVars, subVars, queued, handlers, handled, started, peer, network, consumer,
                     clusterVars, faults>>
      /\ reports' = reports \ {r}
  BY DEF ReportArrives
<1>2. d \in Deliveries /\ d.msg \in Msgs /\ d.conn \in Conns
  BY DEF IInv, DataInv, Deliveries
<1> HIDE DEF d
<1>3. /\ state' \in [Msgs -> {"ready", "leased", "acked"}]
      /\ lease' \in [Msgs -> Leases \cup {NoLease}]
      /\ holder' \in [Msgs -> Conns \cup {NoConn}]
      /\ LeaseInv'
  <2>1. \/ Release(d.msg, "acked") \/ Release(d.msg, "ready")
        \/ UNCHANGED <<state, lease, holder>>
    BY DEF ReportArrives, d
  <2>2. CASE UNCHANGED <<state, lease, holder>>
    BY <2>2 DEF IInv, DataInv, LeaseInv, Held
  <2> QED
    BY <1>2, <2>1, <2>2, ReleaseStep DEF IInv
<1>4. Sends(d.conn, OtherError) \/ frames' = frames
  BY DEF ReportArrives, d
<1>5. /\ frames' \in [Conns -> Seq(FrameType)]
      /\ TaskInv' /\ FramesInv'
      /\ DataInv' => Undispatched' \subseteq Undispatched
  BY <1>1, <1>2, <1>4, SendsEmptyStep, NoFrameType
<1>6. DataInv'
  BY <1>1, <1>3, <1>5 DEF IInv, DataInv, ClusterTypeOK
<1>7. ~AutoAck
  BY DEF IInv, AutoInv
<1>8. OneReportPerLease' /\ AppInv' /\ AutoInv'
  BY <1>1, <1>5, <1>6, <1>7, NothingMoves DEF IInv
<1> QED
  BY <1>3, <1>5, <1>6, <1>8 DEF IInv

(* A handler ends: its delivery goes from the handlers to the reports.     *)
LEMMA HandlerStep ==
    ASSUME IInv, NEW d \in handlers, HandlerReturns(d) \/ HandlerThrows(d)
    PROVE  IInv'
<1> USE DEF taskVars, subVars, connVars, brokerVars, clusterVars
<1>1. PICK ok \in BOOLEAN : /\ Report(d, ok)
                            /\ handled' = IF ok THEN handled \cup {d.msg} ELSE handled
  BY DEF HandlerReturns, HandlerThrows
<1>2. UNCHANGED <<taskVars, subVars, queued, started, connVars, brokerVars, clusterVars>>
  BY DEF HandlerReturns, HandlerThrows
<1>3. faults' \in 0 .. MaxFaults
  BY TroubleType DEF HandlerReturns, HandlerThrows, IInv, DataInv
<1>4. d \in Deliveries /\ d.msg \in Msgs
  BY DEF IInv, DataInv, Deliveries
<1> DEFINE new == [delivery |-> d, ok |-> ok]
<1>5. /\ handlers' = handlers \ {d} /\ reports' = reports \cup {new}
      /\ new.delivery = d /\ new.ok = ok
      /\ new \in [delivery : Deliveries, ok : BOOLEAN]
  BY <1>1, <1>4 DEF Report
<1> HIDE DEF new
<1>6. DataInv'
  BY <1>1, <1>2, <1>3, <1>4, <1>5 DEF IInv, DataInv, ClusterTypeOK
<1>7. Undispatched' = Undispatched
  BY <1>2 DEF Undispatched, InFrames
<1>8. Reporting' = Reporting \cup {d}
  BY <1>5 DEF Reporting
<1>9. OneReportPerLease'
  <2>1. d \notin Undispatched /\ d \notin queued /\ d \notin Reporting
    BY DEF IInv, OneReportPerLease
  <2>2. \A e \in queued' : e \notin Undispatched'
    BY <1>2, <1>7 DEF IInv, OneReportPerLease
  <2>3. /\ \A e \in handlers' : e \notin Undispatched' \cup queued'
        /\ \A e \in Reporting' : e \notin Undispatched' \cup queued' \cup handlers'
    BY <1>2, <1>5, <1>7, <1>8, <2>1 DEF IInv, OneReportPerLease
  <2>4. \A r, q \in reports' : r.delivery = q.delivery => r = q
    <3>1. \A r \in reports : r.delivery # d
      BY <2>1 DEF Reporting
    <3> QED
      BY <3>1, <1>5 DEF IInv, OneReportPerLease
  <2> QED
    BY <2>2, <2>3, <2>4 DEF OneReportPerLease
<1>10. AppInv'
  BY <1>1, <1>2, <1>5 DEF IInv, AppInv
<1>11. AutoInv'
  BY <1>2 DEF IInv, AutoInv, AutoAck
<1>12. LeaseInv' /\ TaskInv' /\ FramesInv'
  BY <1>2 DEF IInv, LeaseInv, Held, TaskInv, FramesInv
<1> QED
  BY <1>6, <1>9, <1>10, <1>11, <1>12 DEF IInv
-----------------------------------------------------------------------------
(* The task.                                                               *)

LEMMA FreeConnsType ==
    ASSUME DataInv, FreeConns # {}
    PROVE  Min(FreeConns) \in FreeConns /\ Min(FreeConns) \in Conns
BY MinIsLeast, SubscriptionAssumption DEF FreeConns

(* The new connection has nothing on its way.                              *)
LEMMA ConnectStep == IInv /\ Connect => IInv'
<1> SUFFICES ASSUME IInv, Connect PROVE IInv'
  OBVIOUS
<1> USE DEF subVars, jsVars, clusterVars
<1>1. PICK k \in Conns : /\ conn' = k
                         /\ peer' = [peer EXCEPT ![k] = Node]
                         /\ network' = [network EXCEPT ![k] = "up"]
                         /\ consumer' = [consumer EXCEPT ![k] = "asked"]
  BY FreeConnsType DEF Connect, IInv
<1>2. /\ pc = "connect" /\ pc' = "read"
      /\ UNCHANGED <<idx, failures, frame, batch, reported, leader, subVars, jsVars, frames,
                     state, lease, holder, clusterVars, faults>>
  BY DEF Connect
<1>3. DataInv'
  BY <1>1, <1>2, NodeType DEF IInv, DataInv, ClusterTypeOK
<1>4. Undispatched' = Undispatched
  BY <1>2 DEF Undispatched, InFrames
<1>5. OneReportPerLease' /\ AppInv' /\ AutoInv'
  BY <1>2, <1>4, NothingMoves DEF IInv
<1>6. LeaseInv'
  BY <1>2 DEF IInv, LeaseInv, Held
<1>7. conn = NoConn /\ batch = {} /\ frame.items = {} /\ k # NoConn
  BY <1>2, SubscriptionAssumption DEF IInv, TaskInv
<1>8. TaskInv'
  BY <1>1, <1>2, <1>7 DEF OfConn, TaskInv
<1>9. FramesInv'
  <2>1. \A q \in Conns : frames[q] = <<>> /\ Len(frames[q]) = 0
    BY <1>7, EmptySeq, SubscriptionAssumption DEF IInv, FramesInv
  <2> QED
    BY <1>2, <2>1 DEF FramesInv
<1> QED
  BY <1>3, <1>5, <1>6, <1>8, <1>9 DEF IInv

(* The frame that is read goes from the connection into the task's hands.  *)
LEMMA ReadFrameStep == IInv /\ ReadFrame => IInv'
<1> SUFFICES ASSUME IInv, ReadFrame PROVE IInv'
  OBVIOUS
<1> USE DEF subVars, jsVars, brokerVars, clusterVars
<1>1. /\ pc = "read" /\ pc' = "frame" /\ conn \in Conns /\ conn # NoConn /\ frames[conn] # <<>>
      /\ frame' = Head(frames[conn])
      /\ frames' = [frames EXCEPT ![conn] = Tail(frames[conn])]
      /\ UNCHANGED <<idx, failures, conn, batch, reported, leader, subVars, jsVars, peer, network,
                     brokerVars, clusterVars, faults>>
  BY DEF ReadFrame, IInv, TaskInv, DataInv
<1>2. batch = {} /\ frame.items = {}
  BY <1>1 DEF IInv, TaskInv
<1> DEFINE n == Len(frames[conn])
<1>3. frames \in [Conns -> Seq(FrameType)] /\ frames[conn] \in Seq(FrameType)
  BY <1>1 DEF IInv, DataInv
<1>4. /\ n \in Nat /\ n >= 1
      /\ frame' = frames[conn][1] /\ frames[conn][1] \in FrameType
      /\ Tail(frames[conn]) \in Seq(FrameType) /\ Len(Tail(frames[conn])) = n - 1
      /\ \A j \in 1 .. n - 1 : Tail(frames[conn])[j] = frames[conn][j + 1]
  <2>1. n \in Nat /\ n # 0
    BY <1>1, <1>3, LenProperties, EmptySeq
  <2> QED
    BY <1>1, <1>3, <2>1, HeadTailProperties, ElementOfSeq
<1>5. /\ frames' \in [Conns -> Seq(FrameType)]
      /\ Len(frames'[conn]) = n - 1
      /\ \A j \in 1 .. n - 1 : frames'[conn][j] = frames[conn][j + 1]
      /\ \A q \in Conns \ {conn} : frames'[q] = frames[q]
  BY <1>1, <1>3, <1>4
<1>6. \A j \in 1 .. n - 1 : j + 1 \in 1 .. n /\ j + 1 # 1
  BY <1>4
<1>7. 1 \in 1 .. n
  BY <1>4
<1>8. /\ \A j \in 1 .. n : OfConn(frames[conn][j].items, conn)
      /\ \A i, j \in 1 .. n : i # j => frames[conn][i].items \cap frames[conn][j].items = {}
      /\ \A q \in Conns : q # conn => frames[q] = <<>>
  BY <1>1 DEF IInv, FramesInv
<1> HIDE DEF n
<1>9. DataInv'
  BY <1>1, <1>4, <1>5 DEF IInv, DataInv, ClusterTypeOK
<1>10. TaskInv'
  BY <1>1, <1>2, <1>4, <1>7, <1>8 DEF OfConn, TaskInv
<1>11. FramesInv'
  <2>1. \A q \in Conns : q # conn => frames'[q] = <<>>
    BY <1>5, <1>8
  <2>2. \A q \in Conns : \A j \in 1 .. Len(frames'[q]) : q = conn /\ j \in 1 .. n - 1
    BY <2>1, <1>5, EmptySeq
  <2>3. \A j \in 1 .. n - 1 :
          /\ OfConn(frames'[conn][j].items, conn)
          /\ frames'[conn][j].items \cap (batch' \cup frame'.items) = {}
    BY <1>1, <1>2, <1>4, <1>5, <1>6, <1>7, <1>8
  <2>4. \A i, j \in 1 .. n - 1 : i # j => frames'[conn][i].items \cap frames'[conn][j].items = {}
    <3>1. \A i, j \in 1 .. n - 1 : i # j => i + 1 # j + 1
      BY <1>4
    <3> QED
      BY <3>1, <1>5, <1>6, <1>8
  <2> QED
    BY <1>1, <2>1, <2>2, <2>3, <2>4 DEF FramesInv
<1>12. Undispatched' \subseteq Undispatched
  <2> SUFFICES ASSUME NEW d \in Undispatched' PROVE d \in Undispatched
    OBVIOUS
  <2>1. CASE d \in frame'.items \/ d \in batch'
    BY <2>1, <1>1, <1>2, <1>4, <1>7, UndispatchedAt DEF IInv, n
  <2>2. ASSUME NEW q \in Conns, NEW j \in 1 .. Len(frames'[q]), d \in frames'[q][j].items
        PROVE  \E i \in 1 .. Len(frames[q]) : d \in frames[q][i].items
    <3>1. CASE q # conn
      BY <3>1, <2>2, <1>5
    <3>2. CASE q = conn
      BY <3>2, <2>2, <1>5, <1>6 DEF n
    <3> QED
      BY <3>1, <3>2
  <2> QED
    BY <2>1, <2>2, <1>9, UndispatchedNextAt, UndispatchedAt DEF IInv
<1>13. OneReportPerLease' /\ AppInv' /\ AutoInv'
  BY <1>1, <1>12, NothingMoves DEF IInv
<1>14. LeaseInv'
  BY <1>1 DEF IInv, LeaseInv, Held
<1> QED
  BY <1>9, <1>10, <1>11, <1>13, <1>14 DEF IInv

(* The items of a frame are the next batch, or the frame is passed over.   *)
LEMMA HandleFrameStep == IInv /\ HandleFrame => IInv'
<1> SUFFICES ASSUME IInv, HandleFrame PROVE IInv'
  OBVIOUS
<1>1. pc = "frame" /\ UNCHANGED <<subVars, jsVars, brokerVars, clusterVars, faults>>
  BY DEF HandleFrame
<1>2. CASE stop # "no"
  BY <1>1, <1>2, EndsStep DEF HandleFrame, IInv, DataInv
<1>3. CASE Redirected(frame.leader)
  BY <1>1, <1>3, RedirectedStep
<1>4. CASE Failed
  BY <1>1, <1>4, FailedStep DEF IInv, DataInv
<1>5. ASSUME stop = "no", UNCHANGED <<idx, conn, reported, connVars>>, frame' = NoFrame,
             failures' \in 0 .. Cap, leader' \in Nodes,
             \/ batch' = frame.items /\ pc' = IF frame.items = {} THEN "read" ELSE "batch"
             \/ batch' = batch /\ pc' = "read"
      PROVE  IInv'
  <2> USE DEF subVars, jsVars, connVars, brokerVars, clusterVars
  <2>1. batch = {} /\ NoFrame \in FrameType /\ NoFrame.items = {}
    BY <1>1, NoFrameType DEF IInv, TaskInv
  <2>2. batch' \subseteq frame.items
    BY <1>5, <2>1
  <2>3. DataInv'
    BY <1>1, <1>5, <2>1 DEF IInv, DataInv, FrameType, ClusterTypeOK
  <2>4. OfConn(batch', conn) /\ (batch' # {} => pc' = "batch") /\ pc' \in {"read", "batch"}
    BY <1>5, <2>1 DEF OfConn, IInv, TaskInv
  <2>5. TaskInv'
    BY <1>1, <1>5, <2>1, <2>4 DEF OfConn, IInv, TaskInv
  <2>6. FramesInv'
    BY <1>5, <2>1, <2>2 DEF IInv, FramesInv
  <2>7. Undispatched' \subseteq Undispatched
    BY <1>5, <2>1, <2>2 DEF Undispatched, InFrames
  <2>8. OneReportPerLease' /\ AppInv' /\ AutoInv'
    BY <1>1, <2>7, NothingMoves DEF IInv
  <2>9. LeaseInv'
    BY <1>1 DEF IInv, LeaseInv, Held
  <2> QED
    BY <2>3, <2>5, <2>6, <2>8, <2>9 DEF IInv
<1>6. CASE stop = "no" /\ Interpret
  <2>1. 0 \in 0 .. Cap /\ failures \in 0 .. Cap /\ leader \in Nodes /\ Node \in Nodes
    BY NodeType, SubscriptionAssumption DEF IInv, DataInv
  <2> QED
    BY <1>3, <1>4, <1>5, <1>6, <2>1 DEF Interpret
<1> QED
  BY <1>1, <1>2, <1>6 DEF HandleFrame

(* A delivery leaves the batch for good, and is on its way to its handler. *)
LEMMA DispatchStep == ASSUME IInv, NEW d \in batch, Dispatch(d) PROVE IInv'
<1> USE DEF subVars, connVars, brokerVars, clusterVars
<1>1. /\ pc = "batch" /\ batch' = batch \ {d}
      /\ pc' = IF batch' = {} THEN "read" ELSE "batch"
      /\ queued' = queued \cup {d}
      /\ UNCHANGED <<idx, failures, conn, frame, reported, leader, subVars, handlers, reports,
                     started, handled, connVars, brokerVars, clusterVars, faults>>
  BY DEF Dispatch
<1>2. d \in Deliveries /\ frame.items = {}
  BY <1>1 DEF IInv, DataInv, TaskInv
<1>3. DataInv'
  BY <1>1, <1>2 DEF IInv, DataInv, ClusterTypeOK
<1>4. LeaseInv' /\ TaskInv' /\ FramesInv'
  BY <1>1 DEF IInv, LeaseInv, Held, TaskInv, FramesInv, OfConn
<1>5. /\ Undispatched' \subseteq Undispatched /\ d \in Undispatched /\ d \notin Undispatched'
      /\ Waiting' \subseteq Waiting
  <2>1. Undispatched' \subseteq Undispatched /\ d \in Undispatched
    BY <1>1 DEF Undispatched, InFrames
  <2>2. \A k \in Conns : \A j \in 1 .. Len(frames[k]) : d \notin frames[k][j].items
    BY DEF IInv, FramesInv
  <2>3. d \notin Undispatched'
    BY <1>1, <1>2, <1>3, <2>2, UndispatchedNextAt
  <2> QED
    BY <1>1, <2>1, <2>3 DEF Waiting
<1>6. OneReportPerLease'
  <2>1. Reporting' = Reporting /\ handlers' = handlers /\ reports' = reports
    BY <1>1 DEF Reporting
  <2> QED
    BY <1>1, <1>5, <2>1 DEF IInv, OneReportPerLease
<1>7. AppInv' /\ AutoInv'
  BY <1>1, <1>5 DEF IInv, AppInv, AutoInv, AutoAck
<1> QED
  BY <1>3, <1>4, <1>6, <1>7 DEF IInv

(* A handler is called; in manual mode the delivery is its from now on.    *)
LEMMA CalledStep == ASSUME IInv, NEW d \in queued, HandlerCalled(d) PROVE IInv'
<1> USE DEF taskVars, subVars, connVars, brokerVars, clusterVars
<1>1. /\ queued' = queued \ {d}
      /\ started' = [started EXCEPT ![d.msg] = IF @ < 2 THEN @ + 1 ELSE 2]
      /\ handlers' = IF AutoAck THEN handlers ELSE handlers \cup {d}
      /\ UNCHANGED <<taskVars, subVars, reports, handled, connVars, brokerVars, clusterVars, faults>>
  BY DEF HandlerCalled
<1>2. d \in Deliveries /\ d.msg \in Msgs
  BY DEF IInv, DataInv, Deliveries
<1>3. /\ started' \in [Msgs -> 0 .. 2] /\ started'[d.msg] > 0
      /\ \A m \in Msgs : /\ m # d.msg => started'[m] = started[m]
                         /\ started[m] > 0 => started'[m] > 0
  <2>1. started \in [Msgs -> 0 .. 2]
    BY DEF IInv, DataInv
  <2> DEFINE n == IF started[d.msg] < 2 THEN started[d.msg] + 1 ELSE 2
  <2>2. n \in 0 .. 2 /\ n > 0
    BY <1>2, <2>1
  <2>3. started' = [started EXCEPT ![d.msg] = n]
    BY <1>1
  <2> HIDE DEF n
  <2>4. /\ started' \in [Msgs -> 0 .. 2] /\ started'[d.msg] = n
        /\ \A m \in Msgs : m # d.msg => started'[m] = started[m]
    BY <1>2, <2>1, <2>2, <2>3
  <2> QED
    BY <2>2, <2>4
<1>4. DataInv'
  BY <1>1, <1>2, <1>3 DEF IInv, DataInv, ClusterTypeOK
<1>5. LeaseInv' /\ TaskInv' /\ FramesInv'
  BY <1>1 DEF IInv, LeaseInv, Held, TaskInv, FramesInv
<1>6. Undispatched' = Undispatched /\ Reporting' = Reporting /\ Waiting' = Waiting \ {d}
  <2>1. Undispatched' = Undispatched /\ Reporting' = Reporting
    BY <1>1 DEF Undispatched, InFrames, Reporting
  <2>2. d \notin Undispatched
    BY DEF IInv, OneReportPerLease
  <2> QED
    BY <1>1, <2>1, <2>2 DEF Waiting
<1>7. OneReportPerLease'
  <2>1. handlers' \subseteq handlers \cup {d}
    BY <1>1
  <2>2. d \notin Undispatched /\ d \notin Reporting
    BY DEF IInv, OneReportPerLease
  <2> QED
    BY <1>1, <1>6, <2>1, <2>2 DEF IInv, OneReportPerLease
<1>8. AppInv'
  <2>1. \A e \in handlers : e.msg \in Msgs
    BY DEF IInv, DataInv, Deliveries
  <2> QED
    BY <1>1, <1>3, <2>1 DEF IInv, AppInv
<1>9. AutoInv'
  <2>1. CASE ~AutoAck
    BY <1>1, <2>1 DEF AutoInv, AutoAck
  <2>2. CASE AutoAck
    <3>1. handlers' = {} /\ reports' = {} /\ d \in Waiting /\ state[d.msg] = "acked"
      BY <1>1, <2>2 DEF IInv, AutoInv, Waiting
    <3>2. ASSUME NEW e \in Waiting'
          PROVE  state'[e.msg] = "acked" /\ started'[e.msg] = 0
      <4>1. e \in Waiting /\ e # d /\ e.msg # d.msg
        BY <1>6, <2>2, <3>1 DEF IInv, AutoInv
      <4>2. e.msg \in Msgs
        BY <4>1, UndispatchedType DEF IInv, DataInv, Waiting, Deliveries
      <4> QED
        BY <1>1, <1>3, <2>2, <4>1, <4>2 DEF IInv, AutoInv
    <3>3. ASSUME NEW m \in Msgs
          PROVE  state'[m] # "leased" /\ (state'[m] = "ready" => started'[m] = 0)
      BY <1>1, <1>3, <2>2, <3>1 DEF IInv, AutoInv
    <3>4. \A e, f \in Waiting' : e.msg = f.msg => e = f
      BY <1>6, <2>2 DEF IInv, AutoInv
    <3> QED
      BY <3>1, <3>2, <3>3, <3>4 DEF AutoInv
  <2> QED
    BY <2>1, <2>2
<1> QED
  BY <1>4, <1>5, <1>7, <1>8, <1>9 DEF IInv

(* The deliveries of some messages, each with its new lease.               *)
ItemsOf(msgs, new, k) == {[msg |-> m, lease |-> new[m], conn |-> k] : m \in msgs}

LEMMA ItemsOfType ==
    ASSUME NEW k \in Conns, NEW msgs \in SUBSET Msgs, NEW new \in [msgs -> Leases]
    PROVE  /\ ItemsOf(msgs, new, k) \subseteq Deliveries
           /\ OfConn(ItemsOf(msgs, new, k), k)
           /\ \A d \in ItemsOf(msgs, new, k) : d.msg \in msgs /\ d.lease = new[d.msg]
           /\ \A d, e \in ItemsOf(msgs, new, k) : d.msg = e.msg => d = e
BY DEF ItemsOf, Deliveries, OfConn

(* The broker delivers messages under leases nothing under way has.        *)
LEMMA PushStep == ASSUME IInv, NEW k \in Conns, Push(k) PROVE IInv'
<1> USE DEF taskVars, subVars, jsVars, clusterVars
<1>1. PICK msgs \in SUBSET {m \in Msgs : state[m] = "ready" /\ FreeLeases(m) # {}} :
        LET new == [m \in msgs |-> Min(FreeLeases(m))] IN
          /\ Cardinality(msgs) + Cardinality(Held(k)) <= Prefetch
          /\ Sends(k, Polled({[msg |-> m, lease |-> new[m], conn |-> k] : m \in msgs}))
          /\ IF AutoAck
             THEN /\ state' = [m \in Msgs |-> IF m \in msgs THEN "acked" ELSE state[m]]
                  /\ UNCHANGED <<lease, holder>>
             ELSE /\ state' = [m \in Msgs |-> IF m \in msgs THEN "leased" ELSE state[m]]
                  /\ lease' = [m \in Msgs |-> IF m \in msgs THEN new[m] ELSE lease[m]]
                  /\ holder' = [m \in Msgs |-> IF m \in msgs THEN k ELSE holder[m]]
  BY DEF Push
<1> DEFINE new == [m \in msgs |-> Min(FreeLeases(m))]
           D == ItemsOf(msgs, new, k)
<1>2. UNCHANGED <<taskVars, subVars, jsVars, peer, network, consumer, clusterVars, faults>>
  BY DEF Push
<1>3. msgs \in SUBSET Msgs /\ \A m \in msgs : state[m] = "ready"
  OBVIOUS
<1>4. \A m \in msgs : new[m] \in Leases /\ new[m] \in FreeLeases(m)
  <2> SUFFICES ASSUME NEW m \in msgs PROVE Min(FreeLeases(m)) \in FreeLeases(m)
    BY DEF FreeLeases
  <2>1. FreeLeases(m) # {} /\ FreeLeases(m) \subseteq Nat
    BY SubscriptionAssumption DEF FreeLeases
  <2> QED
    BY <2>1, MinIsLeast
<1>5. /\ Cardinality(msgs) + Cardinality(Held(k)) <= Prefetch
      /\ Sends(k, Polled(D))
      /\ AutoAck =>
           /\ state' = [m \in Msgs |-> IF m \in msgs THEN "acked" ELSE state[m]]
           /\ UNCHANGED <<lease, holder>>
      /\ ~AutoAck =>
           /\ state' = [m \in Msgs |-> IF m \in msgs THEN "leased" ELSE state[m]]
           /\ lease' = [m \in Msgs |-> IF m \in msgs THEN new[m] ELSE lease[m]]
           /\ holder' = [m \in Msgs |-> IF m \in msgs THEN k ELSE holder[m]]
  BY <1>1 DEF ItemsOf
<1>6. /\ IsFiniteSet(msgs) /\ Cardinality(msgs) \in Nat
      /\ \A q \in Conns : IsFiniteSet(Held(q)) /\ Cardinality(Held(q)) \in Nat
      /\ Cardinality(msgs) <= Prefetch
  <2>1. /\ IsFiniteSet(msgs) /\ Cardinality(msgs) \in Nat
        /\ \A q \in Conns : IsFiniteSet(Held(q)) /\ Cardinality(Held(q)) \in Nat
    BY <1>3, FS_Subset, FS_CardinalityType, SubscriptionAssumption DEF Held
  <2> QED
    BY <1>5, <2>1, SubscriptionAssumption
<1> HIDE DEF new
<1>7. new \in [msgs -> Leases]
  BY <1>4 DEF new
<1> HIDE DEF D
<1>8. /\ D \subseteq Deliveries /\ OfConn(D, k)
      /\ \A d \in D : d.msg \in msgs /\ d.lease = new[d.msg]
      /\ \A d, e \in D : d.msg = e.msg => d = e
  BY <1>3, <1>6, <1>7, ItemsOfType DEF D
<1>9. D \cap (Undispatched \cup queued \cup handlers \cup Reporting) = {}
  BY <1>4, <1>8 DEF FreeLeases, InHand
<1>10. Polled(D) \in FrameType /\ Polled(D).items = D
  BY <1>8 DEF Polled, FrameType
<1>11. /\ frames' \in [Conns -> Seq(FrameType)]
       /\ TaskInv' /\ FramesInv'
       /\ DataInv' => \A d \in Undispatched' : d \in Undispatched \cup D
  <2>1. OfConn(Polled(D).items, k) /\ Polled(D).items \cap Undispatched = {}
    BY <1>8, <1>9, <1>10
  <2>2. UNCHANGED <<pc, conn, frame, batch>>
    BY <1>2
  <2> HIDE DEF D
  <2> QED
    BY <1>5, <1>10, <2>1, <2>2, SendsStep
<1>12. /\ state' \in [Msgs -> {"ready", "leased", "acked"}]
       /\ lease' \in [Msgs -> Leases \cup {NoLease}]
       /\ holder' \in [Msgs -> Conns \cup {NoConn}]
  <2>1. /\ state \in [Msgs -> {"ready", "leased", "acked"}]
        /\ lease \in [Msgs -> Leases \cup {NoLease}]
        /\ holder \in [Msgs -> Conns \cup {NoConn}]
    BY DEF IInv, DataInv
  <2>2. CASE AutoAck
    BY <1>5, <2>1, <2>2
  <2>3. CASE ~AutoAck
    BY <1>5, <1>7, <2>1, <2>3
  <2> QED
    BY <2>2, <2>3
<1>13. DataInv'
  BY <1>2, <1>11, <1>12 DEF IInv, DataInv, ClusterTypeOK
<1>14. \A d \in Undispatched' : d \in Undispatched \cup D
  BY <1>11, <1>13
<1>15. LeaseInv'
  <2>1. CASE AutoAck
    <3>1. \A m \in Msgs : lease[m] = NoLease /\ holder[m] = NoConn /\ state'[m] # "leased"
      BY <1>5, <2>1 DEF IInv, AutoInv, LeaseInv
    <3>2. \A q \in Conns : Held(q)' = Held(q)
      BY <1>5, <2>1 DEF Held
    <3> QED
      BY <1>5, <2>1, <3>1, <3>2 DEF IInv, LeaseInv
  <2>2. CASE ~AutoAck
    <3>1. ASSUME NEW m \in Msgs
          PROVE  /\ state'[m] = "leased" <=> lease'[m] # NoLease
                 /\ state'[m] = "leased" <=> holder'[m] # NoConn
      <4>1. CASE m \in msgs
        <5>1. new[m] \in Leases /\ new[m] # NoLease /\ k # NoConn
          BY <4>1, <1>7, SubscriptionAssumption
        <5> QED
          BY <1>5, <2>2, <4>1, <5>1
      <4>2. CASE m \notin msgs
        BY <1>5, <2>2, <4>2 DEF IInv, LeaseInv
      <4> QED
        BY <4>1, <4>2
    <3>2. ASSUME NEW q \in Conns
          PROVE  Cardinality(Held(q)') <= Prefetch
      <4>1. Cardinality(Held(q)) <= Prefetch
        BY DEF IInv, LeaseInv
      <4>2. CASE q # k
        <5>1. Held(q)' \subseteq Held(q)
          BY <1>5, <2>2, <4>2 DEF Held
        <5> QED
          BY <1>6, <4>1, <5>1, NoMore, SubscriptionAssumption
      <4>3. CASE q = k
        <5>1. Held(k)' \subseteq Held(k) \cup msgs
          BY <1>5, <2>2 DEF Held
        <5>2. /\ IsFiniteSet(Held(k) \cup msgs)
              /\ Cardinality(Held(k) \cup msgs) =
                   Cardinality(Held(k)) + Cardinality(msgs) - Cardinality(Held(k) \cap msgs)
          BY <1>6, FS_Union
        <5>3. Cardinality(Held(k) \cap msgs) \in Nat
          BY <1>6, FS_Intersection, FS_CardinalityType
        <5>4. Cardinality(Held(k) \cup msgs) <= Prefetch
          BY <1>5, <1>6, <5>2, <5>3, SubscriptionAssumption
        <5> QED
          BY <4>3, <5>1, <5>2, <5>4, NoMore, SubscriptionAssumption
      <4> QED
        BY <4>2, <4>3
    <3> QED
      BY <3>1, <3>2 DEF LeaseInv
  <2> QED
    BY <2>1, <2>2
<1>16. OneReportPerLease'
  <2>1. Reporting' = Reporting
    BY <1>2 DEF Reporting
  <2> QED
    BY <1>2, <1>9, <1>14, <2>1 DEF IInv, OneReportPerLease
<1>17. AppInv'
  BY <1>2 DEF IInv, AppInv
<1>18. AutoInv'
  <2>1. CASE ~AutoAck
    BY <1>2, <2>1 DEF AutoInv, AutoAck
  <2>2. CASE AutoAck
    <3>1. handlers' = {} /\ reports' = {}
      BY <1>2, <2>2 DEF IInv, AutoInv
    <3>0. \A d \in Waiting' : d \in Waiting \cup D
      BY <1>2, <1>14 DEF Waiting
    <3>2. /\ \A d \in Waiting : d.msg \in Msgs /\ state[d.msg] = "acked" /\ d.msg \notin msgs
          /\ \A d \in D : state'[d.msg] = "acked"
      <4>1. \A d \in Waiting : d.msg \in Msgs /\ state[d.msg] = "acked"
        BY <2>2, UndispatchedType DEF IInv, DataInv, AutoInv, Waiting, Deliveries
      <4> QED
        BY <1>3, <1>5, <1>8, <2>2, <4>1
    <3>3. \A d \in Waiting' : state'[d.msg] = "acked" /\ started'[d.msg] = 0
      <4>1. \A d \in Waiting : state'[d.msg] = "acked" /\ started[d.msg] = 0
        BY <1>5, <2>2, <3>2 DEF IInv, AutoInv
      <4>2. \A d \in D : started[d.msg] = 0
        BY <1>3, <1>8, <2>2 DEF IInv, AutoInv
      <4> QED
        BY <1>2, <3>0, <3>2, <4>1, <4>2
    <3>4. \A d, e \in Waiting' : d.msg = e.msg => d = e
      BY <1>8, <3>0, <2>2, <3>2 DEF IInv, AutoInv
    <3>5. \A m \in Msgs : state'[m] # "leased" /\ (state'[m] = "ready" => started'[m] = 0)
      BY <1>2, <1>5, <2>2 DEF IInv, AutoInv
    <3> QED
      BY <3>1, <3>3, <3>4, <3>5 DEF AutoInv
  <2> QED
    BY <2>1, <2>2
<1> QED
  BY <1>11, <1>13, <1>15, <1>16, <1>17, <1>18 DEF IInv
-----------------------------------------------------------------------------
(* The theorems.                                                           *)

LEMMA InvInit == Init => IInv
<1> SUFFICES ASSUME Init PROVE IInv
  OBVIOUS
<1>1. /\ <<>> \in Seq(FrameType) /\ Len(<<>>) = 0
      /\ NoFrame \in FrameType /\ NoFrame.items = {}
  BY EmptySeq, NoFrameType
<1>2. \A k \in Conns : frames[k] = <<>>
  BY DEF Init
<1>3. DataInv
  <2>1. Nodes \subseteq 0 .. NumNodes /\ 0 \in Nodes
    BY NodesType
  <2> QED
    BY <1>1, <2>1, ClusterInitType, SubscriptionAssumption DEF Init, DataInv
<1>4. Undispatched = {} /\ Reporting = {} /\ Waiting = {}
  <2>1. Undispatched = {}
    BY <1>1, <1>2, <1>3, UndispatchedAt DEF Init
  <2> QED
    BY <2>1 DEF Init, Reporting, Waiting
<1>5. Cardinality({}) = 0
  BY FS_EmptySet
<1>6. LeaseInv
  <2>1. \A k \in Conns : Held(k) = {}
    BY SubscriptionAssumption DEF Init, Held
  <2>2. \A m \in Msgs : state[m] = "ready" /\ lease[m] = NoLease /\ holder[m] = NoConn
    BY DEF Init
  <2>3. 0 <= Prefetch
    BY SubscriptionAssumption
  <2> QED
    BY <1>5, <2>1, <2>2, <2>3 DEF LeaseInv
<1>7. TaskInv
  BY <1>1 DEF OfConn, Init, TaskInv
<1>8. FramesInv
  BY <1>1, <1>2 DEF FramesInv
<1>9. OneReportPerLease /\ AppInv /\ AutoInv
  BY <1>4 DEF Init, OneReportPerLease, AppInv, AutoInv
<1> QED
  BY <1>3, <1>6, <1>7, <1>8, <1>9 DEF IInv

LEMMA StutterStep == IInv /\ UNCHANGED vars => IInv'
<1> SUFFICES ASSUME IInv, UNCHANGED vars PROVE IInv'
  OBVIOUS
<1> USE DEF vars, taskVars, subVars, jsVars, connVars, brokerVars, clusterVars
<1>1. DataInv'
  BY DEF IInv, DataInv, ClusterTypeOK
<1> QED
  BY <1>1, QuietStep

LEMMA InvNext == IInv /\ [Next]_vars => IInv'
<1> SUFFICES ASSUME IInv, [Next]_vars PROVE IInv'
  OBVIOUS
<1>1. CASE Task
  BY <1>1, LoopStep, ConnectStep, ConnectFailsStep, ReadFrameStep, HandleFrameStep, DispatchStep,
     AbortedStep DEF Task
<1>2. CASE ReadEnds
  BY <1>2, ReadEndsStep
<1>3. CASE Writer
  BY <1>3, ReportArrivesStep, ReportIsLostStep DEF Writer
<1>4. CASE Broker
  BY <1>4, AnswersStep, PushStep, ForgetsStep, ExpiresStep DEF Broker
<1>5. CASE Servers
  BY <1>5, AnswersStep, BreakStep, ClusterStep DEF Servers
<1>6. CASE Unsubscribe
  BY <1>6, UnsubscribeStep
<1>7. CASE \E d \in handlers : HandlerReturns(d) \/ HandlerThrows(d)
  BY <1>7, HandlerStep
<1>8. CASE \E d \in queued : HandlerCalled(d)
  BY <1>8, CalledStep
<1>9. CASE Finished \/ UNCHANGED vars
  BY <1>9, StutterStep DEF Finished
<1> QED
  BY <1>1, <1>2, <1>3, <1>4, <1>5, <1>6, <1>7, <1>8, <1>9 DEF Next

(* The invariant of the proofs, of every behaviour of a subscription.      *)
THEOREM Invariance == Spec => []IInv
<1>1. Init => IInv
  BY InvInit
<1>2. IInv /\ [Next]_vars => IInv'
  BY InvNext
<1> QED
  BY <1>1, <1>2, PTL DEF Spec

(* The task, the connections, the handlers and the broker stay in the      *)
(* states they can be in: the task reads of its own connection only, no    *)
(* connection has more leases than the prefetch, and an auto subscription  *)
(* has neither handlers nor reports to wait for.                           *)
THEOREM TypeCorrect == Spec => []TypeOK
<1>1. IInv => TypeOK
  <2> SUFFICES ASSUME IInv PROVE TypeOK
    OBVIOUS
  <2>1. Undispatched \cup InHand \subseteq Deliveries
    BY UndispatchedType DEF IInv, DataInv, InHand, Reporting
  <2>2. \A d \in batch \cup frame.items : d.conn = conn
    BY DEF IInv, TaskInv, OfConn
  <2>3. \A k \in Conns : Cardinality({m \in Msgs : holder[m] = k}) <= Prefetch
    BY DEF IInv, LeaseInv, Held
  <2>4. AutoAck => handlers = {} /\ reports = {}
    BY DEF IInv, AutoInv
  <2> QED
    BY <2>1, <2>2, <2>3, <2>4 DEF IInv, DataInv, LeaseInv, TaskInv, TypeOK
<1> QED
  BY <1>1, Invariance, PTL

(* A delivery is in one place, so each lease is reported once.             *)
THEOREM ReportedOnce == Spec => []OneReportPerLease
<1>1. IInv => OneReportPerLease
  BY DEF IInv
<1> QED
  BY <1>1, Invariance, PTL

(* Once unsubscribe has set the flag, nothing more is taken out of a frame *)
(* to be handed to the application, in whatever state the task is: what is *)
(* left on its way to a handler then is all that reaches one.              *)
THEOREM TakesNoMore == Spec => NothingTakenAfterUnsubscribe
<1>1. [Next]_vars => (stop # "no" => (batch \cup queued)' \subseteq batch \cup queued)
  <2> SUFFICES ASSUME [Next]_vars, stop # "no"
               PROVE  (batch \cup queued)' \subseteq batch \cup queued
    OBVIOUS
  <2> USE DEF taskVars, subVars, jsVars, connVars, brokerVars, clusterVars
  <2>1. CASE Task
    <3>1. ASSUME NEW d \in batch, Dispatch(d)
          PROVE  (batch \cup queued)' \subseteq batch \cup queued
      BY <3>1 DEF Dispatch
    <3>2. CASE HandleFrame
      BY <3>2 DEF HandleFrame, Ends, Leave
    <3>3. CASE Top \/ Connect \/ ReadFrame \/ AfterOnce \/ Wakes
      BY <3>3 DEF Top, Connect, ReadFrame, AfterOnce, Wakes
    <3>4. CASE ConnectFails \/ Aborted
      BY <3>4 DEF ConnectFails, Aborted, Failed, Ends, Leave
    <3> QED
      BY <2>1, <3>1, <3>2, <3>3, <3>4 DEF Task
  <2>2. CASE ReadEnds
    BY <2>2 DEF ReadEnds, Ends, Leave
  <2>3. CASE Writer
    BY <2>3 DEF Writer, ReportArrives, ReportIsLost
  <2>4. CASE Broker
    <3>1. ASSUME NEW k \in Conns, Subscribes(k) \/ Push(k) \/ Deposed(k) \/ Forgets(k)
          PROVE  UNCHANGED <<batch, queued>>
      BY <3>1 DEF Subscribes, Push, Deposed, Forgets
    <3> QED
      BY <2>4, <3>1 DEF Broker, Expires
  <2>5. CASE Servers
    BY <2>5 DEF Servers, SendsOther, Break, Elect, Learn, Crash, Restart
  <2>6. CASE Unsubscribe \/ Finished \/ UNCHANGED vars
    BY <2>6 DEF Unsubscribe, Finished, vars
  <2>7. CASE \E d \in queued : HandlerCalled(d)
    BY <2>7 DEF HandlerCalled
  <2>8. CASE \E d \in handlers : HandlerReturns(d) \/ HandlerThrows(d)
    BY <2>8 DEF HandlerReturns, HandlerThrows
  <2> QED
    BY <2>1, <2>2, <2>3, <2>4, <2>5, <2>6, <2>7, <2>8 DEF Next
<1> QED
  BY <1>1, PTL DEF Spec, NothingTakenAfterUnsubscribe
-----------------------------------------------------------------------------
(* A subscription implements the queue of leases.                          *)

LEMMA QueueStutter ==
    ASSUME UNCHANGED <<ackMode, state, started, handled>>
    PROVE  UNCHANGED Queue!queueVars
BY DEF Queue!queueVars

LEMMA ReleaseRefines ==
    ASSUME DataInv, LeaseInv, NEW m \in Msgs, state[m] = "leased",
           NEW to \in {"ready", "acked"}, Release(m, to),
           to = "acked" => m \in handled, UNCHANGED <<ackMode, started, handled>>
    PROVE  Queue!QueueNext
<1>1. Queue!Becomes({m}, "leased", to)
  BY DEF Release, DataInv, Queue!Becomes
<1>2. CASE to = "acked"
  BY <1>1, <1>2 DEF Queue!QueueAck, Queue!QueueNext
<1>3. CASE to = "ready"
  BY <1>1, <1>3 DEF Queue!QueueReturn, Queue!QueueNext
<1> QED
  BY <1>2, <1>3

LEMMA PushRefines == ASSUME IInv, NEW k \in Conns, Push(k) PROVE Queue!QueueNext
<1>1. UNCHANGED <<ackMode, started, handled>>
  BY DEF Push, subVars, jsVars
<1>2. PICK msgs \in SUBSET {m \in Msgs : state[m] = "ready" /\ FreeLeases(m) # {}} :
        IF AutoAck
        THEN state' = [m \in Msgs |-> IF m \in msgs THEN "acked" ELSE state[m]]
        ELSE state' = [m \in Msgs |-> IF m \in msgs THEN "leased" ELSE state[m]]
  BY DEF Push
<1>3. msgs \in SUBSET Msgs /\ \A m \in msgs : state[m] = "ready"
  OBVIOUS
<1>4. Queue!QueueLease(msgs)
  <2>1. CASE AutoAck
    BY <1>1, <1>2, <1>3, <2>1 DEF Queue!QueueLease, Queue!Becomes, AutoAck
  <2>2. CASE ~AutoAck
    BY <1>1, <1>2, <1>3, <2>2 DEF Queue!QueueLease, Queue!Becomes, AutoAck
  <2> QED
    BY <2>1, <2>2
<1> QED
  BY <1>3, <1>4 DEF Queue!QueueNext

LEMMA CalledRefines == ASSUME IInv, NEW d \in queued, HandlerCalled(d) PROVE Queue!QueueNext
<1>1. /\ UNCHANGED <<ackMode, state, handled>>
      /\ started' = [started EXCEPT ![d.msg] = IF started[d.msg] < 2 THEN started[d.msg] + 1 ELSE 2]
  BY DEF HandlerCalled, subVars, brokerVars
<1>2. d.msg \in Msgs /\ d \in Waiting
  BY DEF IInv, DataInv, Deliveries, Waiting
<1>3. state[d.msg] # "absent" /\ (AutoAck => state[d.msg] = "acked" /\ started[d.msg] = 0)
  BY <1>2 DEF IInv, DataInv, AutoInv
<1>4. started' = [m \in Msgs |-> IF m \in {d.msg} /\ started[m] < 2
                                 THEN started[m] + 1 ELSE started[m]]
  <2>1. started \in [Msgs -> 0 .. 2]
    BY DEF IInv, DataInv
  <2>2. ~(started[d.msg] < 2) => started[d.msg] = 2
    BY <1>2, <2>1
  <2>3. started' = [m \in Msgs |-> IF m = d.msg
                                   THEN IF started[m] < 2 THEN started[m] + 1 ELSE 2
                                   ELSE started[m]]
    BY <1>1, <2>1
  <2> QED
    BY <2>2, <2>3
<1>5. Queue!QueueHand({d.msg})
  BY <1>1, <1>3, <1>4 DEF Queue!QueueHand, AutoAck
<1> QED
  BY <1>2, <1>5 DEF Queue!QueueNext

LEMMA ReturnsRefines == ASSUME IInv, NEW d \in handlers, HandlerReturns(d) PROVE Queue!QueueNext
<1>1. d.msg \in Msgs /\ started[d.msg] > 0
  BY DEF IInv, DataInv, Deliveries, AppInv
<1>2. Queue!QueueHandle({d.msg})
  BY <1>1 DEF HandlerReturns, subVars, brokerVars, Queue!QueueHandle
<1> QED
  BY <1>1, <1>2 DEF Queue!QueueNext

LEMMA ArrivesRefines ==
    ASSUME IInv, NEW r \in reports, ReportArrives(r)
    PROVE  Queue!QueueNext \/ UNCHANGED Queue!queueVars
<1>1. UNCHANGED <<ackMode, started, handled>>
  BY DEF ReportArrives, subVars
<1> DEFINE d == r.delivery
<1>2. d.msg \in Msgs /\ d.lease \in Leases /\ d.lease # NoLease
  BY SubscriptionAssumption DEF IInv, DataInv, Deliveries
<1>3. CASE lease[d.msg] = d.lease /\ Release(d.msg, IF r.ok THEN "acked" ELSE "ready")
  <2>1. state[d.msg] = "leased"
    BY <1>2, <1>3 DEF IInv, LeaseInv
  <2>2. r.ok => d.msg \in handled
    BY DEF IInv, AppInv
  <2> QED
    BY <1>1, <1>2, <1>3, <2>1, <2>2, ReleaseRefines DEF IInv
<1>4. CASE UNCHANGED state
  BY <1>1, <1>4, QueueStutter
<1> QED
  BY <1>3, <1>4 DEF ReportArrives

LEMMA RefinementStep == IInv /\ [Next]_vars => [Queue!QueueNext]_Queue!queueVars
<1> SUFFICES ASSUME IInv, [Next]_vars
             PROVE  Queue!QueueNext \/ UNCHANGED Queue!queueVars
  OBVIOUS
<1> USE DEF taskVars, subVars, jsVars, connVars, brokerVars
<1>1. ASSUME NEW k \in Conns, Push(k)
      PROVE  Queue!QueueNext
  BY <1>1, PushRefines
<1>2. ASSUME NEW d \in queued, HandlerCalled(d)
      PROVE  Queue!QueueNext
  BY <1>2, CalledRefines
<1>3. ASSUME NEW d \in handlers, HandlerReturns(d)
      PROVE  Queue!QueueNext
  BY <1>3, ReturnsRefines
<1>4. ASSUME NEW r \in reports, ReportArrives(r)
      PROVE  Queue!QueueNext \/ UNCHANGED Queue!queueVars
  BY <1>4, ArrivesRefines
<1>5. ASSUME NEW m \in Msgs, Expires(m)
      PROVE  Queue!QueueNext
  <2>1. state[m] = "leased" /\ Release(m, "ready") /\ UNCHANGED <<ackMode, started, handled>>
    BY <1>5 DEF Expires
  <2> QED
    BY <2>1, ReleaseRefines DEF IInv
<1>6. ASSUME \/ Top \/ Connect \/ ConnectFails \/ ReadFrame \/ HandleFrame
             \/ AfterOnce \/ Wakes \/ Aborted \/ ReadEnds \/ Unsubscribe
             \/ Finished \/ UNCHANGED vars \/ \E d \in batch : Dispatch(d)
      PROVE  UNCHANGED Queue!queueVars
  BY <1>6, QueueStutter DEF Top, Connect, ConnectFails, ReadFrame, HandleFrame, Dispatch, AfterOnce,
     Wakes, Aborted, ReadEnds, Unsubscribe, Finished, vars
<1>7. ASSUME NEW k \in Conns, \/ Subscribes(k) \/ Deposed(k) \/ Forgets(k) \/ SendsOther(k)
                              \/ Break(k)
      PROVE  UNCHANGED Queue!queueVars
  BY <1>7, QueueStutter DEF Subscribes, Deposed, Forgets, SendsOther, Break
<1>8. ASSUME NEW n \in Nodes, Elect(n) \/ Learn(n) \/ Crash(n) \/ Restart(n)
      PROVE  UNCHANGED Queue!queueVars
  BY <1>8, QueueStutter DEF Elect, Learn, Crash, Restart
<1>9. ASSUME NEW r \in reports, ReportIsLost(r)
      PROVE  UNCHANGED Queue!queueVars
  BY <1>9, QueueStutter DEF ReportIsLost
<1>10. ASSUME NEW d \in handlers, HandlerThrows(d)
       PROVE  UNCHANGED Queue!queueVars
  BY <1>10, QueueStutter DEF HandlerThrows
<1>11. CASE Task
  BY <1>6, <1>11 DEF Task
<1>12. CASE Writer
  BY <1>4, <1>9, <1>12 DEF Writer
<1>13. CASE Broker
  BY <1>1, <1>5, <1>7, <1>13 DEF Broker
<1>14. CASE Servers
  BY <1>7, <1>8, <1>14 DEF Servers
<1> QED
  BY <1>2, <1>3, <1>6, <1>10, <1>11, <1>12, <1>13, <1>14 DEF Next

(* README, "Push": a message is acked for good, in manual mode only when a *)
(* handler has dealt with it, in auto mode as it is delivered, and then    *)
(* handed on at most once, whatever is redelivered, lost or redirected.    *)
THEOREM ImplementsLeaseQueue == Spec => QueueSpec
<1>1. Init => Queue!QueueInit
  BY SubscriptionAssumption DEF Init, Queue!QueueInit
<1>2. IInv /\ [Next]_vars => [Queue!QueueNext]_Queue!queueVars
  BY RefinementStep
<1> QED
  BY <1>1, <1>2, Invariance, PTL DEF Spec, QueueSpec, Queue!QueueBehaviour
=============================================================================
