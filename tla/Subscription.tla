----------------------------- MODULE Subscription ---------------------------
(***************************************************************************)
(* A push subscription: SubscriptionTask (run, once, dispatch), the writer *)
(* task of each connection, the handlers of messages in JavaScript, and    *)
(* unsubscribe, with the broker that leases the messages (external).       *)
(*                                                                         *)
(* A connection outlives the attempt that made it: its reading half goes   *)
(* with once, its writing half stays with the writer task until the last   *)
(* handler that was given a message of it has sent its report.  Until then *)
(* the broker takes it for a consumer.                                     *)
(***************************************************************************)
EXTENDS Cluster, Sequences, FiniteSets, FiniteSetsExt

CONSTANTS
    Msgs,      \* the messages of the topic
    AckModes,  \* the values of ackMode a run allows: "manual", "auto"
    Prefetch,  \* how many leases the broker gives a connection at a time
    Conns,     \* identities of connections, 1..k, reused when unreferenced
    NoConn,
    Leases,    \* identities of leases of one message, reused when unreferenced
    NoLease,
    Cap,       \* bound on the counters failures and reported
    Faults,    \* the kinds of trouble a run allows, of FaultKinds
    MaxFaults  \* bound on the trouble of a behaviour

FaultKinds ==
    {"connect", "throw", "slow", "timeout", "break", "error", "elect", "crash", "garbage"}

ASSUME SubscriptionAssumption ==
    /\ IsFiniteSet(Msgs)
    /\ AckModes \subseteq {"manual", "auto"}
    /\ Prefetch \in Nat \ {0}
    /\ Conns \subseteq Nat \ {0} /\ NoConn \notin Conns
    /\ Leases \subseteq Nat \ {0} /\ NoLease \notin Leases
    /\ Cap \in Nat \ {0}
    /\ Faults \subseteq FaultKinds
    /\ MaxFaults \in Nat
-----------------------------------------------------------------------------
VARIABLES
    (* SubscriptionTask                                                    *)
    pc,        \* "top" of the loop of run, "connect", "read", "frame",
               \* "batch", "failed" (once has returned), "sleep", "ended"
    idx, failures,
    conn,      \* the connection of once
    frame,     \* the frame that has been read
    batch,     \* the deliveries of p.items that are not yet dispatched
    reported,  \* how often on_error has been called
    leader,    \* the leader hint of Inner
    (* Subscription                                                        *)
    ackMode,
    stop,      \* "no"; "stored": the flag is set; "aborted": so is the abort
    (* the handlers and the writer tasks                                   *)
    queued,    \* the deliveries that are dispatched, until JavaScript calls their handler
    handlers,  \* the deliveries whose handler is called and has not ended
    reports,   \* [delivery, ok]: in the channel of the writer, or on the wire
    started,   \* [Msgs -> 0 .. 2], how often the handler of a message was called
    handled,   \* the messages of which a handler has ended well
    (* the connections                                                     *)
    peer,
    network,   \* "up" or "down"
    frames,    \* broker to client
    (* the broker                                                          *)
    consumer,  \* "none", "asked" (the request is under way) or "subscribed"
    state,     \* of each message: "ready", "leased" or "acked"
    lease,     \* its current lease
    holder,    \* the connection it is leased to
    faults

taskVars == <<pc, idx, failures, conn, frame, batch, reported, leader>>
subVars == <<ackMode, stop>>
jsVars == <<queued, handlers, reports, started, handled>>
connVars == <<peer, network, frames>>
brokerVars == <<consumer, state, lease, holder>>
vars == <<taskVars, subVars, jsVars, connVars, brokerVars, clusterVars, faults>>

AutoAck == ackMode = "auto"

Deliveries == [msg : Msgs, lease : Leases, conn : Conns]

NoFrame == [kind |-> "none", items |-> {}, leader |-> NoNode]
Polled(items) == [kind |-> "polled", items |-> items, leader |-> NoNode]
NotLeader(hint) == [kind |-> "not_leader", items |-> {}, leader |-> hint]
OtherError == [kind |-> "error", items |-> {}, leader |-> NoNode]
Garbage == [kind |-> "garbage", items |-> {}, leader |-> NoNode]

InFrames == UNION {UNION {frames[k][j].items : j \in DOMAIN frames[k]} : k \in Conns}
Undispatched == InFrames \cup frame.items \cup batch
Reporting == {r.delivery : r \in reports}

(* The deliveries the client has dispatched and not dealt with to the end. *)
InHand == queued \cup handlers \cup Reporting

(* The client holds a half of the connection: the task the reading half,   *)
(* the writer task the other while a handler may still send it a report.   *)
HeldOpen(k) ==
    \/ k = conn
    \/ ~AutoAck /\ \E d \in InHand : d.conn = k

FreeConns == {k \in Conns : ~HeldOpen(k) /\ consumer[k] = "none"}
FreeLeases(m) ==
    {l \in Leases : lease[m] # l /\
        ~\E d \in Undispatched \cup InHand : d.msg = m /\ d.lease = l}

Trouble(kind) ==
    /\ kind \in Faults
    /\ faults < MaxFaults /\ faults' = faults + 1

TypeOK ==
    /\ pc \in {"top", "connect", "read", "frame", "batch", "failed", "sleep", "ended"}
    /\ idx \in 0 .. NumNodes
    /\ failures \in 0 .. Cap /\ reported \in 0 .. Cap
    /\ conn \in Conns \cup {NoConn}
    /\ conn # NoConn <=> pc \in {"read", "frame", "batch"}
    /\ batch # {} => pc = "batch"
    /\ leader \in Nodes
    /\ ackMode \in AckModes
    /\ stop \in {"no", "stored", "aborted"}
    /\ Undispatched \cup InHand \subseteq Deliveries
    /\ \A d \in batch \cup frame.items : d.conn = conn
    /\ AutoAck => handlers = {} /\ reports = {}
    /\ handled \subseteq Msgs
    /\ network \in [Conns -> {"up", "down"}]
    /\ consumer \in [Conns -> {"none", "asked", "subscribed"}]
    /\ \A m \in Msgs :
         /\ state[m] \in {"ready", "leased", "acked"}
         /\ state[m] = "leased" <=> lease[m] # NoLease
         /\ state[m] = "leased" <=> holder[m] # NoConn
    /\ \A k \in Conns : Cardinality({m \in Msgs : holder[m] = k}) <= Prefetch
    /\ ClusterTypeOK
    /\ faults \in 0 .. MaxFaults

Init ==
    /\ pc = "top"
    /\ leader \in Nodes /\ idx = leader
    /\ failures = 0 /\ reported = 0
    /\ conn = NoConn /\ frame = NoFrame /\ batch = {}
    /\ ackMode \in AckModes /\ stop = "no"
    /\ queued = {} /\ handlers = {} /\ reports = {} /\ handled = {}
    /\ started = [m \in Msgs |-> 0]
    /\ peer = [k \in Conns |-> 0]
    /\ network = [k \in Conns |-> "down"]
    /\ frames = [k \in Conns |-> <<>>]
    /\ consumer = [k \in Conns |-> "none"]
    /\ state = [m \in Msgs |-> "ready"]
    /\ lease = [m \in Msgs |-> NoLease]
    /\ holder = [m \in Msgs |-> NoConn]
    /\ ClusterInit
    /\ faults = 0
-----------------------------------------------------------------------------
(* SubscriptionTask::run and once.                                         *)

Node == Wrap(idx)

(* once returns: the reading half is dropped, and what it has not read.    *)
Leave ==
    /\ conn' = NoConn /\ frame' = NoFrame /\ batch' = {}
    /\ frames' = IF conn = NoConn THEN frames ELSE [frames EXCEPT ![conn] = <<>>]
    /\ UNCHANGED <<peer, network>>

Ends == pc' = "ended" /\ Leave /\ UNCHANGED <<idx, failures, reported, leader>>

Counted(n) == IF n < Cap THEN n + 1 ELSE Cap

(* Seeded fault: the task tries the same node again.                       *)
FailedStays ==
    /\ pc' = "failed" /\ Leave
    /\ reported' = Counted(reported)
    /\ failures' = Counted(failures)
    /\ UNCHANGED <<idx, leader>>

(* SubEnd::Failed and SubEnd::NotLeader, as run takes them.                *)
Failed ==
    /\ pc' = "failed" /\ Leave
    /\ reported' = Counted(reported)
    /\ failures' = Counted(failures)
    /\ idx' = After(Node)
    /\ UNCHANGED leader

Redirected(hint) ==
    /\ pc' = "failed" /\ Leave
    /\ failures' = Counted(failures)
    /\ idx' = Redirect(Node, hint)
    /\ UNCHANGED <<reported, leader>>

Top ==
    /\ pc = "top"
    /\ pc' = IF stop = "no" THEN "connect" ELSE "ended"
    /\ UNCHANGED <<idx, failures, conn, frame, batch, reported, leader, subVars, jsVars, connVars,
                   brokerVars, clusterVars, faults>>

(* The connection is made and the Subscribe request written.               *)
Connect ==
    /\ pc = "connect" /\ Node \in up /\ FreeConns # {}
    /\ LET k == Min(FreeConns) IN
         /\ conn' = k
         /\ peer' = [peer EXCEPT ![k] = Node]
         /\ network' = [network EXCEPT ![k] = "up"]
         /\ consumer' = [consumer EXCEPT ![k] = "asked"]
    /\ pc' = "read"
    /\ UNCHANGED <<idx, failures, frame, batch, reported, leader, subVars, jsVars, frames,
                   state, lease, holder, clusterVars, faults>>

(* The node is not there, or is not reached in time.                       *)
ConnectFails ==
    /\ pc = "connect"
    /\ IF Node \in up THEN Trouble("connect") ELSE UNCHANGED faults
    /\ Failed
    /\ UNCHANGED <<subVars, jsVars, brokerVars, clusterVars>>

ReadFrame ==
    /\ pc = "read" /\ frames[conn] # <<>>
    /\ pc' = "frame"
    /\ frame' = Head(frames[conn])
    /\ frames' = [frames EXCEPT ![conn] = Tail(@)]
    /\ UNCHANGED <<idx, failures, conn, batch, reported, leader, subVars, jsVars, peer, network,
                   brokerVars, clusterVars, faults>>

(* The read fails, or no frame comes in time.                              *)
ReadEnds ==
    /\ pc = "read" /\ frames[conn] = <<>>
    /\ IF network[conn] = "down" THEN UNCHANGED faults ELSE Trouble("timeout")
    /\ IF stop = "no" THEN Failed ELSE Ends
    /\ UNCHANGED <<subVars, jsVars, brokerVars, clusterVars>>

(* What once does with a frame, after it has looked at the flag.           *)
Interpret ==
    \/ /\ frame.kind = "polled"
       /\ failures' = 0
       /\ leader' = Node
       /\ batch' = frame.items
       /\ pc' = IF frame.items = {} THEN "read" ELSE "batch"
       /\ frame' = NoFrame
       /\ UNCHANGED <<idx, conn, reported, connVars>>
    \/ frame.kind = "not_leader" /\ Redirected(frame.leader)
    \/ frame.kind = "error" /\ Failed
    \/ /\ frame.kind = "garbage"
       /\ pc' = "read" /\ frame' = NoFrame
       /\ UNCHANGED <<idx, failures, conn, batch, reported, leader, connVars>>

(* Seeded fault: the flag is not looked at after a frame has been read.    *)
HandleFrameAnyway ==
    /\ pc = "frame"
    /\ Interpret
    /\ UNCHANGED <<subVars, jsVars, brokerVars, clusterVars, faults>>

HandleFrame ==
    /\ pc = "frame"
    /\ IF stop = "no" THEN Interpret ELSE Ends
    /\ UNCHANGED <<subVars, jsVars, brokerVars, clusterVars, faults>>

(* Seeded fault: the message is acked when it is handed to its handler.    *)
DispatchAcks(d) ==
    /\ pc = "batch" /\ d \in batch
    /\ batch' = batch \ {d}
    /\ pc' = IF batch' = {} THEN "read" ELSE "batch"
    /\ queued' = queued \cup {d}
    /\ reports' = reports \cup {[delivery |-> d, ok |-> TRUE]}
    /\ UNCHANGED <<idx, failures, conn, frame, reported, leader, subVars, handlers, handled, started,
                   connVars, brokerVars, clusterVars, faults>>

(* dispatch only sends the message on: in auto mode to the queue of the    *)
(* JavaScript thread, in manual mode to a task that has it called there.   *)
Dispatch(d) ==
    /\ pc = "batch" /\ d \in batch
    /\ batch' = batch \ {d}
    /\ pc' = IF batch' = {} THEN "read" ELSE "batch"
    /\ queued' = queued \cup {d}
    /\ UNCHANGED <<idx, failures, conn, frame, reported, leader, subVars, handlers, reports, started,
                   handled, connVars, brokerVars, clusterVars, faults>>

(* run looks at the flag before the backoff, and again after it.           *)
AfterOnce ==
    /\ pc = "failed"
    /\ pc' = IF stop = "no" THEN "sleep" ELSE "ended"
    /\ UNCHANGED <<idx, failures, conn, frame, batch, reported, leader, subVars, jsVars, connVars,
                   brokerVars, clusterVars, faults>>

Wakes ==
    /\ pc = "sleep"
    /\ pc' = "top"
    /\ UNCHANGED <<idx, failures, conn, frame, batch, reported, leader, subVars, jsVars, connVars,
                   brokerVars, clusterVars, faults>>

(* Seeded fault: the abort leaves the reading half with the task.          *)
AbortedKeeps ==
    /\ stop = "aborted" /\ pc \in {"connect", "read", "sleep"}
    /\ pc' = "ended"
    /\ UNCHANGED <<idx, failures, conn, frame, batch, reported, leader, subVars, jsVars, connVars,
                   brokerVars, clusterVars, faults>>

(* The abort takes the task at a point where it waits.                     *)
Aborted ==
    /\ stop = "aborted" /\ pc \in {"connect", "read", "sleep"}
    /\ Ends
    /\ UNCHANGED <<subVars, jsVars, brokerVars, clusterVars, faults>>
-----------------------------------------------------------------------------
(* JavaScript: unsubscribe, and the handlers.                              *)

Unsubscribe ==
    /\ stop # "aborted"
    /\ stop' = IF stop = "no" THEN "stored" ELSE "aborted"
    /\ UNCHANGED <<ackMode, taskVars, jsVars, connVars, brokerVars, clusterVars, faults>>

(* unsubscribe runs on the JavaScript thread, and nothing else meanwhile.  *)
JsThreadFree == stop # "stored"

(* In auto mode the outcome of the handler is of no interest.              *)
HandlerCalled(d) ==
    /\ JsThreadFree
    /\ queued' = queued \ {d}
    /\ started' = [started EXCEPT ![d.msg] = IF @ < 2 THEN @ + 1 ELSE 2]
    /\ handlers' = IF AutoAck THEN handlers ELSE handlers \cup {d}
    /\ UNCHANGED <<taskVars, subVars, reports, handled, connVars, brokerVars, clusterVars, faults>>

(* Seeded fault: a handler that throws is reported like one that returns.  *)
ReportOk(d, ok) ==
    /\ handlers' = handlers \ {d}
    /\ reports' = reports \cup {[delivery |-> d, ok |-> TRUE]}

Report(d, ok) ==
    /\ handlers' = handlers \ {d}
    /\ reports' = reports \cup {[delivery |-> d, ok |-> ok]}

HandlerReturns(d) ==
    /\ JsThreadFree
    /\ Report(d, TRUE)
    /\ handled' = handled \cup {d.msg}
    /\ UNCHANGED <<taskVars, subVars, queued, started, connVars, brokerVars, clusterVars, faults>>

HandlerThrows(d) ==
    /\ JsThreadFree /\ Trouble("throw")
    /\ Report(d, FALSE)
    /\ UNCHANGED <<taskVars, subVars, queued, handled, started, connVars, brokerVars, clusterVars>>
-----------------------------------------------------------------------------
(* The broker, and the writer task of a connection.                        *)

(* A frame the client reads, if it still reads this connection.            *)
Sends(k, f) ==
    frames' = IF k = conn THEN [frames EXCEPT ![k] = Append(@, f)] ELSE frames

Release(m, to) ==
    /\ state' = [state EXCEPT ![m] = to]
    /\ lease' = [lease EXCEPT ![m] = NoLease]
    /\ holder' = [holder EXCEPT ![m] = NoConn]

(* A report of a lease that is not the message's any more changes nothing, *)
(* and may be answered with an error on the subscription's connection.     *)
ReportArrives(r) ==
    LET d == r.delivery IN
    /\ network[d.conn] = "up"
    /\ reports' = reports \ {r}
    /\ IF leads = peer[d.conn] /\ lease[d.msg] = d.lease
       THEN Release(d.msg, IF r.ok THEN "acked" ELSE "ready") /\ UNCHANGED frames
       ELSE /\ UNCHANGED <<state, lease, holder>>
            /\ UNCHANGED frames \/ Sends(d.conn, OtherError)
    /\ UNCHANGED <<taskVars, subVars, queued, handlers, handled, started, peer, network, consumer,
                   clusterVars, faults>>

ReportIsLost(r) ==
    /\ network[r.delivery.conn] = "down"
    /\ reports' = reports \ {r}
    /\ UNCHANGED <<taskVars, subVars, queued, handlers, handled, started, connVars, brokerVars,
                   clusterVars, faults>>

Subscribes(k) ==
    /\ consumer[k] = "asked" /\ network[k] = "up"
    /\ IF leads = peer[k]
       THEN consumer' = [consumer EXCEPT ![k] = "subscribed"] /\ UNCHANGED frames
       ELSE consumer' = [consumer EXCEPT ![k] = "none"] /\ Sends(k, NotLeader(Hint(peer[k])))
    /\ UNCHANGED <<taskVars, subVars, jsVars, peer, network, state, lease, holder, clusterVars, faults>>

Serving(k) == consumer[k] = "subscribed" /\ network[k] = "up" /\ leads = peer[k]

Held(k) == {m \in Msgs : holder[m] = k}

Push(k) ==
    /\ Serving(k)
    /\ \E items \in SUBSET {m \in Msgs : state[m] = "ready" /\ FreeLeases(m) # {}} \ {{}} :
         LET new == [m \in items |-> Min(FreeLeases(m))] IN
         /\ Cardinality(items) + Cardinality(Held(k)) <= Prefetch
         /\ Sends(k, Polled({[msg |-> m, lease |-> new[m], conn |-> k] : m \in items}))
         /\ IF AutoAck
            THEN /\ state' = [m \in Msgs |-> IF m \in items THEN "acked" ELSE state[m]]
                 /\ UNCHANGED <<lease, holder>>
            ELSE /\ state' = [m \in Msgs |-> IF m \in items THEN "leased" ELSE state[m]]
                 /\ lease' = [m \in Msgs |-> IF m \in items THEN new[m] ELSE lease[m]]
                 /\ holder' = [m \in Msgs |-> IF m \in items THEN k ELSE holder[m]]
    /\ UNCHANGED <<taskVars, subVars, jsVars, peer, network, consumer, clusterVars, faults>>

(* A frame without a message: a sign of life, an error, or one that the    *)
(* client cannot decode.                                                   *)
SendsOther(k) ==
    /\ Serving(k) /\ k = conn /\ frames[k] = <<>>
    /\ \/ Sends(k, Polled({})) /\ UNCHANGED faults
       \/ Sends(k, OtherError) /\ Trouble("error")
       \/ Sends(k, Garbage) /\ Trouble("garbage")
    /\ UNCHANGED <<taskVars, subVars, jsVars, peer, network, brokerVars, clusterVars>>

(* The node does not lead any more.                                        *)
Deposed(k) ==
    /\ consumer[k] = "subscribed" /\ network[k] = "up" /\ leads # peer[k]
    /\ consumer' = [consumer EXCEPT ![k] = "none"]
    /\ Sends(k, NotLeader(Hint(peer[k])))
    /\ UNCHANGED <<taskVars, subVars, jsVars, peer, network, state, lease, holder, clusterVars, faults>>

(* The node finds the connection closed or broken.                         *)
Forgets(k) ==
    /\ consumer[k] # "none" /\ (network[k] = "down" \/ ~HeldOpen(k))
    /\ consumer' = [consumer EXCEPT ![k] = "none"]
    /\ UNCHANGED <<taskVars, subVars, jsVars, connVars, state, lease, holder, clusterVars, faults>>

(* The visibility timeout: of a delivery that is lost, or before the       *)
(* report of one that is not.                                              *)
UnderWay(m) ==
    \E d \in Undispatched \cup InHand : d.msg = m /\ d.lease = lease[m]

Expires(m) ==
    /\ state[m] = "leased"
    /\ IF UnderWay(m) THEN Trouble("slow") ELSE UNCHANGED faults
    /\ Release(m, "ready")
    /\ UNCHANGED <<taskVars, subVars, jsVars, connVars, consumer, clusterVars>>

Break(k) ==
    /\ network[k] = "up" /\ HeldOpen(k)
    /\ Trouble("break")
    /\ network' = [network EXCEPT ![k] = "down"]
    /\ frames' \in {frames, [frames EXCEPT ![k] = <<>>]}
    /\ UNCHANGED <<taskVars, subVars, jsVars, peer, brokerVars, clusterVars>>

Elect(n) ==
    /\ NewLeader(n)
    /\ IF leads = NoNode THEN UNCHANGED faults ELSE Trouble("elect")
    /\ UNCHANGED <<taskVars, subVars, jsVars, connVars, brokerVars>>

Learn(n) ==
    /\ LearnLeader(n)
    /\ UNCHANGED <<taskVars, subVars, jsVars, connVars, brokerVars, faults>>

Crash(n) ==
    /\ NodeCrash(n) /\ Trouble("crash")
    /\ network' = [k \in Conns |-> IF peer[k] = n THEN "down" ELSE network[k]]
    /\ UNCHANGED <<taskVars, subVars, jsVars, peer, frames, brokerVars>>

Restart(n) ==
    /\ NodeRestart(n)
    /\ UNCHANGED <<taskVars, subVars, jsVars, connVars, brokerVars, faults>>

Finished == pc = "ended" /\ UNCHANGED vars
-----------------------------------------------------------------------------
Task ==
    \/ Top \/ Connect \/ ConnectFails \/ ReadFrame \/ HandleFrame
    \/ \E d \in batch : Dispatch(d)
    \/ AfterOnce \/ Wakes \/ Aborted

Writer == \E r \in reports : ReportArrives(r) \/ ReportIsLost(r)

Broker ==
    \/ \E k \in Conns : Subscribes(k) \/ Push(k) \/ Deposed(k) \/ Forgets(k)
    \/ \E m \in Msgs : Expires(m)

Servers ==
    \/ \E k \in Conns : SendsOther(k) \/ Break(k)
    \/ \E n \in Nodes : Elect(n) \/ Learn(n) \/ Crash(n) \/ Restart(n)

Next ==
    \/ Task \/ ReadEnds \/ Writer \/ Broker \/ Servers
    \/ Unsubscribe
    \/ \E d \in queued : HandlerCalled(d)
    \/ \E d \in handlers : HandlerReturns(d) \/ HandlerThrows(d)
    \/ Finished

Spec == Init /\ [][Next]_vars

(* The runtime polls the tasks, the JavaScript thread calls what is queued *)
(* on it, a handler ends, the broker does what it is there for, and the    *)
(* cluster does not stay without a running node or without a leader.       *)
Fairness ==
    /\ WF_vars(Task) /\ WF_vars(ReadEnds) /\ WF_vars(Writer)
    /\ WF_vars(\E d \in queued : HandlerCalled(d))
    /\ WF_vars(\E d \in handlers : HandlerReturns(d))
    /\ \A k \in Conns :
         WF_vars(Subscribes(k)) /\ WF_vars(Push(k)) /\ WF_vars(Deposed(k)) /\ WF_vars(Forgets(k))
    /\ \A m \in Msgs : WF_vars(~UnderWay(m) /\ Expires(m))
    /\ WF_vars(\E n \in Nodes : leads = NoNode /\ Elect(n))
    /\ WF_vars(\E n \in Nodes : up = {} /\ Restart(n))
    /\ \A n \in Nodes : WF_vars(Learn(n))

LiveSpec == Spec /\ Fairness
-----------------------------------------------------------------------------
(* README, "Push": whatever connections, redeliveries and unsubscribes do  *)
(* meanwhile, a message is acked for good, in manual mode only when a      *)
(* handler has dealt with it, and in auto mode as it is delivered, and     *)
(* then handed on at most once.                                            *)
Queue == INSTANCE LeaseQueue
           WITH ackMode <- ackMode, state <- state, handed <- started, handled <- handled

QueueSpec == Queue!QueueBehaviour

(* A delivery is in one place: to be dispatched, on its way to its         *)
(* handler, with it, or in its report, so that each lease is reported      *)
(* once, ack or nack.                                                      *)
OneReportPerLease ==
    /\ \A d \in queued : d \notin Undispatched
    /\ \A d \in handlers : d \notin Undispatched \cup queued
    /\ \A d \in Reporting : d \notin Undispatched \cup queued \cup handlers
    /\ \A r, q \in reports : r.delivery = q.delivery => r = q

(* Handlers are called after unsubscribe has returned, of as many frames   *)
(* as the JavaScript thread is behind, but of none that the task looks at  *)
(* once unsubscribe has set the flag: from then on, what is still to be    *)
(* handed to the application only gets less.                               *)
NothingTakenAfterUnsubscribe ==
    [][stop # "no" => (batch \cup queued)' \subseteq batch \cup queued]_vars

(* README: "the optional onError callback reports each failed attempt".    *)
FailuresReported == failures <= reported

(* A subscription that is not ended handles every message in the end, and  *)
(* the broker learns of it: through redirections, failures and lost        *)
(* reports.                                                                *)
EveryMessageIsAcked == \A m \in Msgs : <>(stop # "no" \/ state[m] = "acked")

(* unsubscribe ends the task, and with its handlers the connections.       *)
UnsubscribeEnds ==
    stop = "aborted" ~> pc = "ended" /\ \A k \in Conns : consumer[k] = "none"
=============================================================================
