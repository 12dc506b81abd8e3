---------------------------- MODULE ProduceClient ---------------------------
(***************************************************************************)
(* Concurrent calls of produce (or the items of one produceMany) on one    *)
(* client: call_pipelined with its attempts, the slots of Inner.pipes that *)
(* hold a pipeline per node, and the leader hint Inner.leader.             *)
(*                                                                         *)
(* A pipeline is here what module RequestChannel promises of it: a request *)
(* is answered, or it fails and may have been, or may yet be, served.  The *)
(* cluster is modelled by what the client sees of it: a leader that may    *)
(* change, other nodes that redirect to the node they believe to lead, and *)
(* a log of messages in which a producer's sequence number is unique.      *)
(***************************************************************************)
EXTENDS Cluster, Sequences, FiniteSets, FiniteSetsExt, Functions

CONSTANTS
    Callers,     \* the calls, one per message
    Idempotent,  \* the calls that give a producerId and a seq
    Malformed,   \* the calls with a producerId and no seq, or a negative seq
    Pipes,       \* identities of pipelines, 1..k, reused when nobody refers to them
    NoPipe,
    Faults,      \* the kinds of trouble a run allows, of FaultKinds
    MaxFaults    \* bound on the trouble of a behaviour

FaultKinds == {"connect", "timeout", "close", "break", "refuse", "elect", "crash"}

ASSUME ProduceAssumption ==
    /\ Idempotent \subseteq Callers
    /\ Malformed \subseteq Callers
    /\ Pipes \subseteq Nat \ {0}
    /\ NoPipe \notin Pipes
    /\ Faults \subseteq FaultKinds
    /\ MaxFaults \in Nat
-----------------------------------------------------------------------------
VARIABLES
    (* the calls, in call_pipelined                                        *)
    pc,        \* "idle", "lookup" (after the backoff), "connect", "wait", "done"
    attempt, idx,
    pipe,      \* the handle the attempt holds, through its backoff
    result,    \* "none", "ok" or "error"
    offset,    \* the offset the call returned, 0 for none
    (* Inner                                                               *)
    leader,    \* the leader hint
    slots,     \* [Nodes -> Pipes \cup {NoPipe}], Inner.pipes
    (* the pipelines                                                       *)
    target,    \* the node a pipeline is connected to
    health,    \* "up"; "down": broken, and its channel still open; "closed"
    requests,  \* [caller, attempt, pipe, seq]: sent and not yet served
    responses, \* [caller, attempt, kind, offset, leader]: served, not yet received
    log,       \* of the cluster: the messages, as [caller, seq]
    faults

callVars == <<pc, attempt, idx, pipe, result, offset>>
innerVars == <<leader, slots>>
pipeVars == <<target, health, requests, responses>>
worldVars == <<clusterVars, log>>
vars == <<callVars, innerVars, pipeVars, worldVars, faults>>

Referred(p) ==
    \/ p \in Range(slots) \cup Range(pipe)
    \/ \E q \in requests : q.pipe = p

Trouble(kind) ==
    /\ kind \in Faults
    /\ faults < MaxFaults /\ faults' = faults + 1

Free == {p \in Pipes : ~Referred(p)}

TypeOK ==
    /\ pc \in [Callers -> {"idle", "lookup", "connect", "wait", "done"}]
    /\ attempt \in [Callers -> 0 .. Attempts - 1]
    /\ idx \in [Callers -> 0 .. NumNodes]
    /\ pipe \in [Callers -> Pipes \cup {NoPipe}]
    /\ result \in [Callers -> {"none", "ok", "error"}]
    /\ offset \in [Callers -> 0 .. Len(log)]
    /\ leader \in Nodes
    /\ slots \in [Nodes -> Pipes \cup {NoPipe}]
    /\ \A i \in Nodes : slots[i] # NoPipe => target[slots[i]] = i
    /\ target \in [Pipes -> Nodes]
    /\ health \in [Pipes -> {"up", "down", "closed"}]
    /\ ClusterTypeOK
    /\ faults \in 0 .. MaxFaults

Init ==
    /\ pc = [c \in Callers |-> "idle"]
    /\ attempt = [c \in Callers |-> 0]
    /\ idx = [c \in Callers |-> 0]
    /\ pipe = [c \in Callers |-> NoPipe]
    /\ result = [c \in Callers |-> "none"]
    /\ offset = [c \in Callers |-> 0]
    /\ leader = 0
    /\ slots = [i \in Nodes |-> NoPipe]
    /\ target = [p \in Pipes |-> 0]
    /\ health = [p \in Pipes |-> "closed"]
    /\ requests = {} /\ responses = {}
    /\ ClusterInit
    /\ log = <<>>
    /\ faults = 0
-----------------------------------------------------------------------------
(* call_pipelined.                                                         *)

Node(c) == Wrap(idx[c])

(* produce_request refuses a malformed call before anything is sent.       *)
WellFormed(c) == c \notin Malformed

Refuse(c) ==
    /\ pc[c] = "idle" /\ ~WellFormed(c)
    /\ pc' = [pc EXCEPT ![c] = "done"]
    /\ result' = [result EXCEPT ![c] = "error"]
    /\ UNCHANGED <<attempt, idx, pipe, offset, innerVars, pipeVars, worldVars, faults>>

Start(c) ==
    /\ pc[c] = "idle" /\ WellFormed(c)
    /\ pc' = [pc EXCEPT ![c] = "lookup"]
    /\ idx' = [idx EXCEPT ![c] = leader]
    /\ UNCHANGED <<attempt, pipe, result, offset, innerVars, pipeVars, worldVars, faults>>

Usable(p) == p # NoPipe /\ health[p] # "closed"

(* Seeded fault: every attempt takes a sequence number of its own.         *)
SeqPerAttempt(c) == attempt[c] + 1

(* pipe.request with a clone of the handle of p: the same request at every *)
(* attempt, its sequence number included.                                  *)
Seq1(c) == IF c \in Idempotent THEN 1 ELSE 0

Send(c, p) ==
    /\ pc' = [pc EXCEPT ![c] = "wait"]
    /\ pipe' = [pipe EXCEPT ![c] = p]
    /\ requests' = requests \cup
         {[caller |-> c, attempt |-> attempt[c], pipe |-> p, seq |-> Seq1(c)]}

(* Inner::pipeline: the slot's pipeline, unless its channel is closed.     *)
LookupHit(c) ==
    /\ pc[c] = "lookup" /\ Usable(slots[Node(c)])
    /\ Send(c, slots[Node(c)])
    /\ UNCHANGED <<attempt, idx, result, offset, innerVars, target, health, responses,
                   worldVars, faults>>

LookupMiss(c) ==
    /\ pc[c] = "lookup" /\ ~Usable(slots[Node(c)])
    /\ pc' = [pc EXCEPT ![c] = "connect"]
    /\ pipe' = [pipe EXCEPT ![c] = NoPipe]
    /\ UNCHANGED <<attempt, idx, result, offset, innerVars, pipeVars, worldVars, faults>>

(* After the connection the slot is looked at again: another call may have *)
(* filled it meanwhile, and then the new connection is dropped.            *)
ConnectLate(c) ==
    /\ pc[c] = "connect" /\ Node(c) \in up /\ Usable(slots[Node(c)])
    /\ Send(c, slots[Node(c)])
    /\ UNCHANGED <<attempt, idx, result, offset, innerVars, target, health, responses,
                   worldVars, faults>>

(* Seeded fault: the slot is not looked at again.                          *)
ConnectBlind(c) ==
    /\ pc[c] = "connect" /\ Node(c) \in up /\ Free # {}
    /\ LET p == Min(Free) IN
         /\ Send(c, p)
         /\ slots' = [slots EXCEPT ![Node(c)] = p]
         /\ target' = [target EXCEPT ![p] = Node(c)]
         /\ health' = [health EXCEPT ![p] = "up"]
    /\ UNCHANGED <<attempt, idx, result, offset, leader, responses, worldVars, faults>>

Connect(c) ==
    /\ pc[c] = "connect" /\ Node(c) \in up /\ ~Usable(slots[Node(c)])
    /\ Free # {}
    /\ LET p == Min(Free) IN
         /\ Send(c, p)
         /\ slots' = [slots EXCEPT ![Node(c)] = p]
         /\ target' = [target EXCEPT ![p] = Node(c)]
         /\ health' = [health EXCEPT ![p] = "up"]
    /\ UNCHANGED <<attempt, idx, result, offset, leader, responses, worldVars, faults>>

(* Seeded fault: one attempt too many.                                     *)
NextAttemptExtra(c, next) ==
    /\ idx' = [idx EXCEPT ![c] = next]
    /\ attempt' = [attempt EXCEPT ![c] = @ + 1]
    /\ pc' = [pc EXCEPT ![c] = IF attempt[c] < Attempts THEN "lookup" ELSE "done"]
    /\ result' = [result EXCEPT ![c] = IF attempt[c] < Attempts THEN "none" ELSE "error"]
    /\ UNCHANGED <<pipe, offset>>

(* The end of an attempt that did not succeed: the next index, and the     *)
(* backoff before the next attempt, if there is one.                       *)
NextAttempt(c, next) ==
    /\ idx' = [idx EXCEPT ![c] = next]
    /\ IF attempt[c] + 1 < Attempts
       THEN /\ attempt' = [attempt EXCEPT ![c] = @ + 1]
            /\ pc' = [pc EXCEPT ![c] = "lookup"]
            /\ UNCHANGED <<pipe, result>>
       ELSE /\ pc' = [pc EXCEPT ![c] = "done"]
            /\ result' = [result EXCEPT ![c] = "error"]
            /\ pipe' = [pipe EXCEPT ![c] = NoPipe]
            /\ UNCHANGED attempt
    /\ UNCHANGED offset

(* The node is not there, or is not reached in time.                       *)
ConnectFails(c) ==
    /\ pc[c] = "connect"
    /\ IF Node(c) \in up THEN Trouble("connect") ELSE UNCHANGED faults
    /\ NextAttempt(c, After(Node(c)))
    /\ UNCHANGED <<innerVars, pipeVars, worldVars>>

(* Seeded fault: the slot keeps the pipeline that failed.                  *)
DropNothing(i) == UNCHANGED slots

(* drop_pipeline: whatever the slot holds now.                             *)
DropPipeline(i) == slots' = [slots EXCEPT ![i] = NoPipe]

(* Seeded fault: whichever reply comes next.                               *)
RepliesOfAny(c) == {x \in responses : x.attempt = attempt[c]}

(* The reply to this attempt, if it is there.                              *)
Replies(c) == {x \in responses : x.caller = c /\ x.attempt = attempt[c]}

(* Any other answer ends the call, and its sender becomes the hint.        *)
ReceiveAnswer(c) ==
    /\ pc[c] = "wait"
    /\ \E x \in Replies(c) :
         /\ x.kind # "not_leader"
         /\ result' = [result EXCEPT ![c] = IF x.kind = "offset" THEN "ok" ELSE "error"]
         /\ offset' = [offset EXCEPT ![c] = x.offset]
         /\ responses' = responses \ {x}
    /\ leader' = Node(c)
    /\ pc' = [pc EXCEPT ![c] = "done"]
    /\ pipe' = [pipe EXCEPT ![c] = NoPipe]
    /\ UNCHANGED <<attempt, idx, slots, target, health, requests, worldVars, faults>>

ReceiveNotLeader(c) ==
    /\ pc[c] = "wait"
    /\ \E x \in Replies(c) :
         /\ x.kind = "not_leader"
         /\ responses' = responses \ {x}
         /\ NextAttempt(c, Redirect(Node(c), x.leader))
    /\ DropPipeline(Node(c))
    /\ UNCHANGED <<leader, target, health, requests, worldVars, faults>>

(* pipe.request returns an error: the pipeline is closed or broken.        *)
RequestFails(c) ==
    /\ pc[c] = "wait" /\ health[pipe[c]] # "up"
    /\ NextAttempt(c, After(Node(c)))
    /\ DropPipeline(Node(c))
    /\ responses' = responses \ Replies(c)
    /\ UNCHANGED <<leader, target, health, requests, worldVars, faults>>

(* The response of a healthy pipeline comes too late.                      *)
RequestTimesOut(c) ==
    /\ pc[c] = "wait" /\ health[pipe[c]] = "up"
    /\ Trouble("timeout")
    /\ NextAttempt(c, After(Node(c)))
    /\ DropPipeline(Node(c))
    /\ responses' = responses \ Replies(c)
    /\ UNCHANGED <<leader, target, health, requests, worldVars>>

(* Client::close: every slot is emptied; calls under way are not told.     *)
Close ==
    /\ slots # [i \in Nodes |-> NoPipe]
    /\ Trouble("close")
    /\ slots' = [i \in Nodes |-> NoPipe]
    /\ UNCHANGED <<callVars, leader, pipeVars, worldVars>>
-----------------------------------------------------------------------------
(* The pipelines.                                                          *)

(* The connection breaks: the node may still serve some of what was sent.  *)
Break(p) ==
    /\ p \in Range(slots) \cup Range(pipe) /\ health[p] = "up"
    /\ Trouble("break")
    /\ health' = [health EXCEPT ![p] = "down"]
    /\ \E lost \in SUBSET {q \in requests : q.pipe = p} : requests' = requests \ lost
    /\ UNCHANGED <<callVars, innerVars, target, responses, worldVars>>

(* run_pipeline closes the channel of a broken pipeline.                   *)
ChannelCloses(p) ==
    /\ p \in Range(slots) \cup Range(pipe) /\ health[p] = "down"
    /\ health' = [health EXCEPT ![p] = "closed"]
    /\ UNCHANGED <<callVars, innerVars, target, requests, responses, worldVars, faults>>
-----------------------------------------------------------------------------
(* The cluster.                                                            *)

(* The entry a produce with this sequence number already has, if it has.   *)
Earlier(q) == {k \in DOMAIN log : q.seq # 0 /\ log[k] = [caller |-> q.caller, seq |-> q.seq]}

(* The reply reaches the call if the attempt is still waiting for it.      *)
Reply(q, kind, ofs, hint) ==
    responses' =
        IF health[q.pipe] = "up" /\ pc[q.caller] = "wait" /\ attempt[q.caller] = q.attempt
        THEN responses \cup
               {[caller |-> q.caller, attempt |-> q.attempt, kind |-> kind,
                 offset |-> ofs, leader |-> hint]}
        ELSE responses

Redirects(q) ==
    /\ target[q.pipe] # leads
    /\ Reply(q, "not_leader", 0, Hint(target[q.pipe]))
    /\ UNCHANGED <<log, faults>>

Accepts(q) ==
    /\ target[q.pipe] = leads
    /\ IF Earlier(q) # {}
       THEN Reply(q, "offset", Min(Earlier(q)), NoNode) /\ UNCHANGED log
       ELSE /\ log' = Append(log, [caller |-> q.caller, seq |-> q.seq])
            /\ Reply(q, "offset", Len(log) + 1, NoNode)
    /\ UNCHANGED faults

(* Any other error: an unknown topic, a rate limit.                        *)
Refuses(q) ==
    /\ target[q.pipe] = leads
    /\ Trouble("refuse")
    /\ Reply(q, "error", 0, NoNode)
    /\ UNCHANGED log

Serve(q) ==
    /\ target[q.pipe] \in up
    /\ Redirects(q) \/ Accepts(q) \/ Refuses(q)
    /\ requests' = requests \ {q}
    /\ UNCHANGED <<callVars, innerVars, target, health, clusterVars>>

(* An election: forced by a fault, or free when nobody leads.              *)
Elect(n) ==
    /\ NewLeader(n)
    /\ IF leads = NoNode THEN UNCHANGED faults ELSE Trouble("elect")
    /\ UNCHANGED <<callVars, innerVars, pipeVars, log>>

Learn(n) ==
    /\ LearnLeader(n)
    /\ UNCHANGED <<callVars, innerVars, pipeVars, log, faults>>

Crash(n) ==
    /\ NodeCrash(n) /\ Trouble("crash")
    /\ health' = [p \in Pipes |->
                    IF target[p] = n /\ health[p] = "up" THEN "down" ELSE health[p]]
    /\ requests' = {q \in requests : target[q.pipe] # n}
    /\ UNCHANGED <<callVars, innerVars, target, responses, log>>

Restart(n) ==
    /\ NodeRestart(n)
    /\ UNCHANGED <<callVars, innerVars, pipeVars, log, faults>>

Finished ==
    /\ \A c \in Callers : pc[c] = "done"
    /\ UNCHANGED vars
-----------------------------------------------------------------------------
Caller(c) ==
    \/ Refuse(c) \/ Start(c) \/ LookupHit(c) \/ LookupMiss(c)
    \/ ConnectLate(c) \/ Connect(c) \/ ConnectFails(c)
    \/ ReceiveAnswer(c) \/ ReceiveNotLeader(c) \/ RequestFails(c)

Servers ==
    \/ \E q \in requests : Serve(q)
    \/ \E n \in Nodes : Elect(n) \/ Learn(n) \/ Crash(n) \/ Restart(n)

Next ==
    \/ \E c \in Callers : Caller(c) \/ RequestTimesOut(c)
    \/ Close
    \/ \E p \in Pipes : Break(p) \/ ChannelCloses(p)
    \/ Servers
    \/ Finished

Spec == Init /\ [][Next]_vars

(* The runtime polls every call; a node serves what it receives, learns of *)
(* the leader, and one of the nodes is elected when nobody leads.          *)
Fairness ==
    /\ \A c \in Callers : WF_vars(Caller(c))
    /\ WF_vars(\E q \in requests : Serve(q))
    /\ WF_vars(\E n \in Nodes : leads = NoNode /\ Elect(n))

LiveSpec == Spec /\ Fairness
-----------------------------------------------------------------------------
(* The slot is looked at before the connection is made and again after it: *)
(* calls that connect at the same time end up with one pipeline, and a     *)
(* pipeline with an open channel is never replaced in its slot.            *)
OpenSlotKept ==
    [][\A i \in Nodes :
          slots'[i] # slots[i] /\ slots'[i] # NoPipe => ~Usable(slots[i])]_vars

(* README.md:78: "All produces from one client share a single pipelined    *)
(* connection to the leader".                                              *)
Carrying(i) ==
    {p \in Pipes : target[p] = i /\ health[p] = "up" /\
                     \E c \in Callers : pc[c] = "wait" /\ pipe[c] = p}

SinglePipeline == \A i \in Nodes : Cardinality(Carrying(i)) <= 1

(* A call in its backoff still holds the pipeline on which its attempt has *)
(* failed or was redirected.  No slot holds it any more, so that neither   *)
(* this call nor a later one tries it again.                               *)
NoSecondTry ==
    \A c \in Callers : pc[c] = "lookup" /\ pipe[c] # NoPipe => pipe[c] \notin Range(slots)

(* produce resolves with the offset of its own message: at least once.     *)
OffsetIsOwn ==
    \A c \in Callers : result[c] = "ok" =>
        offset[c] # 0 /\ log[offset[c]] = [caller |-> c, seq |-> Seq1(c)]

(* A call adds at most one copy of its message per attempt, and only one   *)
(* with a producerId and a seq: the README's "produce retries safe".  A    *)
(* malformed call adds none.                                               *)
Copies(c) == {k \in DOMAIN log : log[k].caller = c}

CopiesBounded ==
    \A c \in Callers :
        /\ Cardinality(Copies(c)) <= attempt[c] + 1
        /\ c \in Idempotent => Cardinality(Copies(c)) <= 1
        /\ c \in Malformed => Copies(c) = {}

Stable == Settled /\ faults = MaxFaults

(* The attempts of a call are enough: one at its first attempt in a        *)
(* settled cluster never fails, whichever nodes are down, whatever dead or *)
(* misplaced pipelines the slots hold and whoever the hint names, and      *)
(* whatever another call does to both meanwhile.  No fairness is needed.   *)
SettledNeverFails ==
    \A c \in Callers :
        [](Stable /\ pc[c] = "lookup" /\ attempt[c] = 0 => [](result[c] # "error"))

(* A call that starts in a settled cluster succeeds within its attempts,   *)
(* whatever pipelines another call or a fault has left in the slots, and   *)
(* whoever the hint names.                                                 *)
StableSucceeds ==
    \A c \in Callers :
        Stable /\ pc[c] = "lookup" /\ attempt[c] = 0 ~> result[c] = "ok"
=============================================================================
