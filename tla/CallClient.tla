------------------------------ MODULE CallClient ----------------------------
(***************************************************************************)
(* The operations of one client that are not produces: bootstrap, stats,   *)
(* poll, ack, nack (one request) and createTopic (up to three, one after   *)
(* the other).  Each request is a run of call: attempts of call_node over  *)
(* the streams parked in Inner.pools or a fresh one, with request_on, and  *)
(* the leader hint Inner.leader.                                           *)
(***************************************************************************)
EXTENDS Cluster, Sequences, FiniteSets, FiniteSetsExt, Functions

CONSTANTS
    Callers,        \* the operations
    Requests,       \* [Callers -> 1 .. 3], how many requests each one makes
    Local,          \* the operations that any node answers: stats
    Streams,        \* identities of connections, 1..k, reused when unreferenced
    NoStream,
    MaxIdlePerNode, \* MAX_IDLE_PER_NODE
    Faults,         \* the kinds of trouble a run allows, of FaultKinds
    MaxFaults       \* bound on the trouble of a behaviour

FaultKinds == {"connect", "timeout", "close", "break", "refuse", "elect", "crash"}

ASSUME CallAssumption ==
    /\ Requests \in [Callers -> 1 .. 3]
    /\ Local \subseteq Callers
    /\ Streams \subseteq Nat \ {0}
    /\ NoStream \notin Streams
    /\ MaxIdlePerNode \in Nat
    /\ Faults \subseteq FaultKinds
    /\ MaxFaults \in Nat
-----------------------------------------------------------------------------
VARIABLES
    (* the operations: call and call_node                                  *)
    pc,       \* "start" of call, "attempt", "pooled", "connect", "fresh", "done"
    step,     \* the request the operation is at
    attempt, idx,
    stream,   \* the stream of request_on
    result,   \* "none", "ok" or "error"
    (* Inner                                                               *)
    leader,   \* the leader hint
    pools,    \* [Nodes -> Seq(Streams)], stacks
    (* the streams                                                         *)
    peer,     \* the node at the other end
    alive,    \* FALSE once either end has closed it
    sent,     \* the requests on their way, or received and not yet served
    replies,  \* the responses that can be read
    (* the cluster                                                         *)
    applied,  \* the requests a leader, or for Local any node, has carried out
    faults

callVars == <<pc, step, attempt, idx, stream, result>>
innerVars == <<leader, pools>>
streamVars == <<peer, alive, sent, replies>>
vars == <<callVars, innerVars, streamVars, clusterVars, applied, faults>>

Request(c) == [caller |-> c, step |-> step[c]]

Parked(s) == \E i \in Nodes : s \in Range(pools[i])

Free == {s \in Streams : s \notin Range(stream) /\ ~Parked(s) /\ sent[s] = <<>>}

Trouble(kind) ==
    /\ kind \in Faults
    /\ faults < MaxFaults /\ faults' = faults + 1

TypeOK ==
    /\ pc \in [Callers -> {"start", "attempt", "pooled", "connect", "fresh", "done"}]
    /\ \A c \in Callers : step[c] \in 1 .. Requests[c]
    /\ attempt \in [Callers -> 0 .. Attempts - 1]
    /\ idx \in [Callers -> 0 .. NumNodes]
    /\ stream \in [Callers -> Streams \cup {NoStream}]
    /\ result \in [Callers -> {"none", "ok", "error"}]
    /\ leader \in Nodes
    /\ DOMAIN pools = Nodes
    /\ \A i \in Nodes : Len(pools[i]) <= MaxIdlePerNode
    /\ peer \in [Streams -> Nodes]
    /\ \A i \in Nodes : \A s \in Range(pools[i]) : peer[s] = i
    /\ ClusterTypeOK
    /\ faults \in 0 .. MaxFaults

Init ==
    /\ pc = [c \in Callers |-> "start"]
    /\ step = [c \in Callers |-> 1]
    /\ attempt = [c \in Callers |-> 0]
    /\ idx = [c \in Callers |-> 0]
    /\ stream = [c \in Callers |-> NoStream]
    /\ result = [c \in Callers |-> "none"]
    /\ leader = 0
    /\ pools = [i \in Nodes |-> <<>>]
    /\ peer = [s \in Streams |-> 0]
    /\ alive = [s \in Streams |-> FALSE]
    /\ sent = [s \in Streams |-> <<>>]
    /\ replies = [s \in Streams |-> <<>>]
    /\ ClusterInit
    /\ applied = {}
    /\ faults = 0
-----------------------------------------------------------------------------
(* call: the leader hint is read once, before the first attempt.           *)

Node(c) == Wrap(idx[c])

Start(c) ==
    /\ pc[c] = "start"
    /\ pc' = [pc EXCEPT ![c] = "attempt"]
    /\ attempt' = [attempt EXCEPT ![c] = 0]
    /\ idx' = [idx EXCEPT ![c] = leader]
    /\ UNCHANGED <<step, stream, result, innerVars, streamVars, clusterVars, applied, faults>>

(* Seeded fault: the stream is read, and not popped.                       *)
TakePooledKeeps(c) ==
    /\ pc[c] = "attempt" /\ pools[Node(c)] # <<>>
    /\ LET s == Head(pools[Node(c)]) IN
         /\ stream' = [stream EXCEPT ![c] = s]
         /\ sent' = IF alive[s] THEN [sent EXCEPT ![s] = Append(@, Request(c))] ELSE sent
    /\ pc' = [pc EXCEPT ![c] = "pooled"]
    /\ UNCHANGED <<step, attempt, idx, result, innerVars, peer, alive, replies, clusterVars,
                   applied, faults>>

(* request_on writes the frame; a stream whose other end has closed takes  *)
(* it all the same, and the read that follows finds out.                   *)
TakePooled(c) ==
    /\ pc[c] = "attempt" /\ pools[Node(c)] # <<>>
    /\ LET pool == pools[Node(c)]
           s == pool[Len(pool)] IN
         /\ pools' = [pools EXCEPT ![Node(c)] = SubSeq(pool, 1, Len(pool) - 1)]
         /\ stream' = [stream EXCEPT ![c] = s]
         /\ sent' = IF alive[s] THEN [sent EXCEPT ![s] = Append(@, Request(c))] ELSE sent
    /\ pc' = [pc EXCEPT ![c] = "pooled"]
    /\ UNCHANGED <<step, attempt, idx, result, leader, peer, alive, replies, clusterVars,
                   applied, faults>>

PoolIsEmpty(c) ==
    /\ pc[c] = "attempt" /\ pools[Node(c)] = <<>>
    /\ pc' = [pc EXCEPT ![c] = "connect"]
    /\ UNCHANGED <<step, attempt, idx, stream, result, innerVars, streamVars, clusterVars,
                   applied, faults>>

Fresh(c) ==
    /\ pc[c] = "connect" /\ Node(c) \in up /\ Free # {}
    /\ LET s == Min(Free) IN
         /\ stream' = [stream EXCEPT ![c] = s]
         /\ peer' = [peer EXCEPT ![s] = Node(c)]
         /\ alive' = [alive EXCEPT ![s] = TRUE]
         /\ sent' = [sent EXCEPT ![s] = <<Request(c)>>]
         /\ replies' = [replies EXCEPT ![s] = <<>>]
    /\ pc' = [pc EXCEPT ![c] = "fresh"]
    /\ UNCHANGED <<step, attempt, idx, result, innerVars, clusterVars, applied, faults>>

(* The end of an attempt that did not succeed, its backoff included.       *)
NextAttempt(c, next) ==
    /\ idx' = [idx EXCEPT ![c] = next]
    /\ IF attempt[c] + 1 < Attempts
       THEN /\ attempt' = [attempt EXCEPT ![c] = @ + 1]
            /\ pc' = [pc EXCEPT ![c] = "attempt"]
            /\ UNCHANGED result
       ELSE /\ pc' = [pc EXCEPT ![c] = "done"]
            /\ result' = [result EXCEPT ![c] = "error"]
            /\ UNCHANGED attempt
    /\ UNCHANGED step

(* The node is not there, or is not reached in time.                       *)
FreshFails(c) ==
    /\ pc[c] = "connect"
    /\ IF Node(c) \in up THEN Trouble("connect") ELSE UNCHANGED faults
    /\ NextAttempt(c, After(Node(c)))
    /\ UNCHANGED <<stream, innerVars, streamVars, clusterVars, applied>>

Waiting(c) == pc[c] \in {"pooled", "fresh"}

(* Seeded fault: the pool has no limit.                                    *)
ParkAlways(c) ==
    /\ replies' = [replies EXCEPT ![stream[c]] = Tail(@)]
    /\ pools' = [pools EXCEPT ![Node(c)] = Append(@, stream[c])]
    /\ stream' = [stream EXCEPT ![c] = NoStream]
    /\ UNCHANGED <<peer, sent, alive>>

(* park keeps the stream unless the pool is full, then it is closed.       *)
Park(c) ==
    LET s == stream[c]  i == Node(c) IN
    /\ replies' = [replies EXCEPT ![s] = Tail(@)]
    /\ IF Len(pools[i]) < MaxIdlePerNode
       THEN pools' = [pools EXCEPT ![i] = Append(@, s)] /\ UNCHANGED alive
       ELSE alive' = [alive EXCEPT ![s] = FALSE] /\ UNCHANGED pools
    /\ stream' = [stream EXCEPT ![c] = NoStream]
    /\ UNCHANGED <<peer, sent>>

(* Seeded fault: an error does not keep the operation from going on.       *)
ConcludeAnyway(c, kind) ==
    /\ IF step[c] < Requests[c]
       THEN /\ pc' = [pc EXCEPT ![c] = "start"]
            /\ step' = [step EXCEPT ![c] = @ + 1]
            /\ UNCHANGED result
       ELSE /\ pc' = [pc EXCEPT ![c] = "done"]
            /\ result' = [result EXCEPT ![c] = kind]
            /\ UNCHANGED step
    /\ leader' = Node(c)
    /\ UNCHANGED <<attempt, idx>>

(* expect_ok and its likes: an error ends the operation, a good answer     *)
(* leads to its next request, if it has one.                               *)
Conclude(c, kind) ==
    /\ IF kind = "ok" /\ step[c] < Requests[c]
       THEN /\ pc' = [pc EXCEPT ![c] = "start"]
            /\ step' = [step EXCEPT ![c] = @ + 1]
            /\ UNCHANGED result
       ELSE /\ pc' = [pc EXCEPT ![c] = "done"]
            /\ result' = [result EXCEPT ![c] = kind]
            /\ UNCHANGED step
    /\ leader' = Node(c)
    /\ UNCHANGED <<attempt, idx>>

Receive(c) ==
    /\ Waiting(c) /\ replies[stream[c]] # <<>>
    /\ Park(c)
    /\ LET x == Head(replies[stream[c]]) IN
       IF x.kind = "not_leader"
       THEN NextAttempt(c, Redirect(Node(c), x.leader)) /\ UNCHANGED leader
       ELSE Conclude(c, x.kind)
    /\ UNCHANGED <<clusterVars, applied, faults>>

(* Seeded faults: the stream is parked after all; a pooled stream that     *)
(* fails is an attempt that fails.                                         *)
GiveUpParks(c) ==
    /\ stream' = [stream EXCEPT ![c] = NoStream]
    /\ pools' = [pools EXCEPT ![Node(c)] =
                    IF Len(@) < MaxIdlePerNode THEN Append(@, stream[c]) ELSE @]
    /\ IF pc[c] = "pooled"
       THEN pc' = [pc EXCEPT ![c] = "connect"] /\ UNCHANGED <<step, attempt, idx, result>>
       ELSE NextAttempt(c, After(Node(c)))
    /\ UNCHANGED <<leader, peer, alive, sent, replies, clusterVars, applied>>

GiveUpAttempt(c) ==
    /\ stream' = [stream EXCEPT ![c] = NoStream]
    /\ alive' = [alive EXCEPT ![stream[c]] = FALSE]
    /\ replies' = [replies EXCEPT ![stream[c]] = <<>>]
    /\ NextAttempt(c, After(Node(c)))
    /\ UNCHANGED <<innerVars, peer, sent, clusterVars, applied>>

(* request_on failed: its stream is dropped, whatever is still under way   *)
(* on it.  After a pooled stream call_node tries a fresh one.              *)
GiveUp(c) ==
    /\ stream' = [stream EXCEPT ![c] = NoStream]
    /\ alive' = [alive EXCEPT ![stream[c]] = FALSE]
    /\ replies' = [replies EXCEPT ![stream[c]] = <<>>]
    /\ IF pc[c] = "pooled"
       THEN pc' = [pc EXCEPT ![c] = "connect"] /\ UNCHANGED <<step, attempt, idx, result>>
       ELSE NextAttempt(c, After(Node(c)))
    /\ UNCHANGED <<innerVars, peer, sent, clusterVars, applied>>

RequestFails(c) ==
    /\ Waiting(c) /\ ~alive[stream[c]] /\ replies[stream[c]] = <<>>
    /\ GiveUp(c)
    /\ UNCHANGED faults

RequestTimesOut(c) ==
    /\ Waiting(c) /\ alive[stream[c]] /\ replies[stream[c]] = <<>>
    /\ Trouble("timeout")
    /\ GiveUp(c)

(* Client::close empties the pools; calls under way park their streams     *)
(* after it as before.                                                     *)
Close ==
    /\ \E i \in Nodes : pools[i] # <<>>
    /\ Trouble("close")
    /\ alive' = [s \in Streams |-> alive[s] /\ ~Parked(s)]
    /\ pools' = [i \in Nodes |-> <<>>]
    /\ UNCHANGED <<callVars, leader, peer, sent, replies, clusterVars, applied>>
-----------------------------------------------------------------------------
(* The cluster.                                                            *)

(* The other end or the network closes the stream: what was on its way in  *)
(* either direction may be lost, and a request may still be served.        *)
Break(s) ==
    /\ alive[s] /\ Trouble("break")
    /\ alive' = [alive EXCEPT ![s] = FALSE]
    /\ sent' \in {sent, [sent EXCEPT ![s] = <<>>]}
    /\ replies' \in {replies, [replies EXCEPT ![s] = <<>>]}
    /\ UNCHANGED <<callVars, innerVars, peer, clusterVars, applied>>

Answer(s, kind, hint) ==
    replies' = IF alive[s]
               THEN [replies EXCEPT ![s] = Append(@, [to |-> Head(sent[s]), kind |-> kind,
                                                      leader |-> hint])]
               ELSE replies

Redirects(s) ==
    /\ peer[s] # leads /\ Head(sent[s]).caller \notin Local
    /\ Answer(s, "not_leader", Hint(peer[s]))
    /\ UNCHANGED <<applied, faults>>

Accepts(s) ==
    /\ peer[s] = leads \/ Head(sent[s]).caller \in Local
    /\ Answer(s, "ok", NoNode)
    /\ applied' = applied \cup {Head(sent[s])}
    /\ UNCHANGED faults

Refuses(s) ==
    /\ peer[s] = leads /\ Trouble("refuse")
    /\ Answer(s, "error", NoNode)
    /\ UNCHANGED applied

Serve(s) ==
    /\ sent[s] # <<>> /\ peer[s] \in up
    /\ Redirects(s) \/ Accepts(s) \/ Refuses(s)
    /\ sent' = [sent EXCEPT ![s] = Tail(@)]
    /\ UNCHANGED <<callVars, innerVars, peer, alive, clusterVars>>

Elect(n) ==
    /\ NewLeader(n)
    /\ IF leads = NoNode THEN UNCHANGED faults ELSE Trouble("elect")
    /\ UNCHANGED <<callVars, innerVars, streamVars, applied>>

Learn(n) ==
    /\ LearnLeader(n)
    /\ UNCHANGED <<callVars, innerVars, streamVars, applied, faults>>

Crash(n) ==
    /\ NodeCrash(n) /\ Trouble("crash")
    /\ alive' = [s \in Streams |-> alive[s] /\ peer[s] # n]
    /\ sent' = [s \in Streams |-> IF peer[s] = n THEN <<>> ELSE sent[s]]
    /\ UNCHANGED <<callVars, innerVars, peer, replies, applied>>

Restart(n) ==
    /\ NodeRestart(n)
    /\ UNCHANGED <<callVars, innerVars, streamVars, applied, faults>>

Finished ==
    /\ \A c \in Callers : pc[c] = "done"
    /\ UNCHANGED vars
-----------------------------------------------------------------------------
Caller(c) ==
    \/ Start(c) \/ TakePooled(c) \/ PoolIsEmpty(c) \/ Fresh(c) \/ FreshFails(c)
    \/ Receive(c) \/ RequestFails(c)

Servers ==
    \/ \E s \in Streams : Break(s) \/ Serve(s)
    \/ \E n \in Nodes : Elect(n) \/ Learn(n) \/ Crash(n) \/ Restart(n)

Next ==
    \/ \E c \in Callers : Caller(c) \/ RequestTimesOut(c)
    \/ Close
    \/ Servers
    \/ Finished

Spec == Init /\ [][Next]_vars

(* The runtime polls every operation, a node serves what it receives, and  *)
(* one of the nodes is elected when nobody leads.                          *)
Fairness ==
    /\ \A c \in Callers : WF_vars(Caller(c))
    /\ \A s \in Streams : WF_vars(Serve(s))
    /\ WF_vars(\E n \in Nodes : leads = NoNode /\ Elect(n))

LiveSpec == Spec /\ Fairness
-----------------------------------------------------------------------------
(* What an operation reads is the response to the request it has written,  *)
(* though streams pass from one operation to another: request_on takes the *)
(* next frame on trust.                                                    *)
OwnResponse ==
    \A c \in Callers : Waiting(c) /\ replies[stream[c]] # <<>> =>
        Head(replies[stream[c]]).to = Request(c)

(* A stream is in one pool, or with one operation, and a parked stream has *)
(* nothing under way.                                                      *)
StreamsAreExclusive ==
    /\ \A i \in Nodes : \A k, l \in DOMAIN pools[i] : pools[i][k] = pools[i][l] => k = l
    /\ \A s \in Streams : Parked(s) =>
         sent[s] = <<>> /\ replies[s] = <<>> /\ s \notin Range(stream)
    /\ \A c, d \in Callers : stream[c] = stream[d] /\ stream[c] # NoStream => c = d

(* createTopic sets the rate limit after the topic exists and the          *)
(* retention after the rate limit, stops at the first error, and resolves  *)
(* only when every request has been carried out.  A failure may leave the  *)
(* topic with the first of its settings, never with the later ones alone.  *)
StepsInOrder ==
    \A c \in Callers :
        /\ \A k \in 1 .. Requests[c] :
             [caller |-> c, step |-> k] \in applied =>
               k <= step[c] /\ \A j \in 1 .. k - 1 : [caller |-> c, step |-> j] \in applied
        /\ result[c] = "ok" => [caller |-> c, step |-> Requests[c]] \in applied

Stable == Settled /\ faults = MaxFaults

(* In a settled cluster an operation that is at its first attempt ends     *)
(* well, whatever is parked in the pools and whoever the hint names.       *)
StableSucceeds ==
    \A c \in Callers :
        Stable /\ pc[c] = "attempt" /\ attempt[c] = 0 ~> result[c] = "ok"

(* A parked stream that has died costs no attempt: with the hint at the    *)
(* leader, a request succeeds at the first.                                *)
DeadStreamCostsNothing ==
    \A c \in Callers : Requests[c] = 1 =>
        (Stable /\ pc[c] = "attempt" /\ attempt[c] = 0 /\ Node(c) = leads
           ~> result[c] = "ok" /\ attempt[c] = 0)
=============================================================================
