----------------------------- MODULE SmokeTests -----------------------------
(***************************************************************************)
(* The end-to-end tests, one to a behaviour: smoke.mjs, compose-smoke.mjs, *)
(* consume-check.mjs, pipeline-smoke.mjs and subscribe-smoke.mjs, each a   *)
(* script of calls to a client, most of them with a daemon of their own.   *)
(* A call is what modules ProduceClient and CallClient make of it, seen    *)
(* from its caller: copies of a request, of which any number may reach the *)
(* broker, some after the call has ended, and one answer or an error.  The *)
(* broker is external.                                                     *)
(***************************************************************************)
EXTENDS Daemon, Sequences, FiniteSets, FiniteSetsExt

CONSTANTS
    SerialN, BulkN, BurstN,  \* pipeline-smoke: 100, 2000 and 200
    PollMax,                 \* its max: 1024, less than there are messages
    PushN,                   \* subscribe-smoke: 5
    MaxLog                   \* bound on the messages of the broker

ASSUME SmokeAssumption ==
    /\ {SerialN, BulkN, BurstN, PollMax, PushN} \subseteq Nat \ {0}
    /\ MaxLog \in Nat \ {0}

(* The messages, by their sequence numbers where they have one.            *)
Bulk == SerialN + 1 .. SerialN + BulkN
Burst == SerialN + BulkN + 1 .. SerialN + BulkN + BurstN
Pushed == 1 .. PushN
Retry == PushN + 1
Stale == 0  \* one that was there before the test

Produced(t) ==
    CASE t = "pipeline" -> 1 .. SerialN \cup Bulk \cup Burst
      [] t = "subscribe" -> Pushed \cup {Retry}
      [] OTHER -> {1}

Offsets == 1 .. MaxLog
-----------------------------------------------------------------------------
(* The scripts: what is awaited, one step after the other.                 *)

Step(kind, msgs) == [kind |-> kind, msgs |-> msgs]
Do(kind) == Step(kind, {})
OneByOne(n) == [m \in 1 .. n |-> Step("produce", {m})]

Smoke == <<Do("setup"), Do("setup"), Step("produce", {1}), Do("poll"), Do("ackFirst"),
           Do("pollAgain"), Do("stats")>>

Compose == <<Do("setup"), Do("setup"), Step("produce", {1}), Do("poll"), Do("ackFirst"),
             Do("stats")>>

Consume == <<Step("produce", {1}), Do("poll"), Do("ackEach"), Do("stats")>>

(* A sequence number that has been used, 200 produces at once, a producer  *)
(* without a sequence number, and everything polled and acked.             *)
Pipelined ==
    <<Do("setup"), Do("setup")>> \o OneByOne(SerialN)
      \o <<Step("produceMany", Bulk), Step("repeat", {SerialN + BulkN}), Step("produce", Burst),
           Do("malformed"), Do("drain")>>

Subscribe ==
    <<Do("setup"), Do("setup"), Step("subscribe", Pushed)>> \o OneByOne(PushN)
      \o <<Step("await", Pushed), Do("unsubscribe"), Do("pollAgain"),
           Do("setup"), Step("subscribe", {Retry}), Step("produce", {Retry}),
           Step("await", {Retry}), Do("unsubscribe")>>

Script(t) ==
    CASE t = "smoke" -> Smoke
      [] t = "compose" -> Compose
      [] t = "consume" -> Consume
      [] t = "pipeline" -> Pipelined
      [] t = "subscribe" -> Subscribe

OwnDaemon == {"smoke", "pipeline", "subscribe"}
Tests == OwnDaemon \cup {"compose", "consume"}
-----------------------------------------------------------------------------
VARIABLES
    (* the test                                                            *)
    test,
    pc,        \* "start", "run", "finally", "end"
    at,        \* the step it is at
    ok,
    calls,     \* the calls it waits for
    made,      \* how many times it has made calls
    (* what it has been told                                               *)
    offset,    \* [Produced -> offset, or 0]
    msgs,      \* the deliveries of the last poll
    todo,      \* those of them that are not acked yet
    left,      \* how many the poll found that should find none
    drained,
    repeated, rejected, leader,  \* the checks of single steps
    (* subscribe-smoke                                                     *)
    topic,     \* the messages it is subscribed to, if any
    inbox,     \* deliveries pushed and not handled
    received,  \* the deliveries that were handled well, each of them once
    failedOnce,
    (* the broker, and what is under way to it                             *)
    wire,      \* [call, copy]
    log,       \* the messages in the order they were appended
    state,     \* of each of the log: "ready", "leased", "acked"
    lease,     \* the lease of each, numbered in the order they were given
    leases

toldVars == <<offset, msgs, todo, left, drained, repeated, rejected, leader>>
pushVars == <<topic, inbox, received, failedOnce>>
brokerVars == <<log, state, lease, leases>>
testVars == <<pc, at, ok, calls, made>>
vars == <<test, testVars, toldVars, pushVars, wire, brokerVars, daemonVars, faults>>

Deliveries == [entry : Offsets, lease : Nat]

TypeOK ==
    /\ DaemonTypeOK
    /\ pc \in {"start", "run", "finally", "end"}
    /\ at \in 0 .. Len(Script(test))
    /\ calls # {} => pc = "run"
    /\ \A m \in Produced(test) : offset[m] \in 0 .. Len(log)
    /\ todo \subseteq msgs
    /\ msgs \cup inbox \cup received \subseteq Deliveries
    /\ \A d \in msgs \cup inbox \cup received :
         d.entry <= Len(log) /\ d.lease <= lease[d.entry]
    /\ DOMAIN state = DOMAIN log /\ DOMAIN lease = DOMAIN log
    /\ \A o \in DOMAIN log :
         /\ state[o] \in {"ready", "leased", "acked"}
         /\ lease[o] \in 0 .. leases

Init ==
    /\ DaemonInit
    /\ test \in IF startup = "none" THEN Tests \ OwnDaemon ELSE OwnDaemon
    /\ pc = "start" /\ at = 0 /\ ok = FALSE
    /\ calls = {} /\ made = 0 /\ wire = {}
    /\ offset = [m \in Produced(test) |-> 0]
    /\ msgs = {} /\ todo = {} /\ left = 0 /\ drained = 0
    /\ repeated = FALSE /\ rejected = FALSE /\ leader = FALSE
    /\ topic = {} /\ inbox = {} /\ received = {} /\ failedOnce = FALSE
    /\ log \in IF startup = "none" THEN {<<>>, <<Stale>>} ELSE {<<>>}
    /\ state = [o \in DOMAIN log |-> "ready"]
    /\ lease = [o \in DOMAIN log |-> 0] /\ leases = 0
-----------------------------------------------------------------------------
(* The client.                                                             *)

NoDelivery == [entry |-> 0, lease |-> 0]
Call(kind, m, d) == [kind |-> kind, msg |-> m, delivery |-> d, no |-> made + 1]
Ack(d) == Call("ack", Stale, d)
Ask(kind) == Call(kind, Stale, NoDelivery)

Make(S) ==
    /\ calls' = S
    /\ wire' = wire \cup {[call |-> c, copy |-> 0] : c \in S}
    /\ made' = made + 1

Kind == IF at = 0 THEN "none" ELSE Script(test)[at].kind

Throws == pc' = "finally" /\ calls' = {} /\ UNCHANGED <<at, ok, made>>

(* A call ends with an error; produceMany reports it with the others.      *)
Rejects(c) ==
    IF Kind = "produceMany"
    THEN calls' = calls \ {c} /\ UNCHANGED <<pc, at, ok, made>>
    ELSE Throws

Copies(c) == {w.copy : w \in {v \in wire : v.call = c}}

(* No answer in time.  The call is repeated, or is given up.  There is     *)
(* nobody to answer, or the answer is lost, or it would have come later.   *)
TimesOut(c) ==
    /\ IF Copies(c) # {} /\ Listening THEN Trouble("timeout") ELSE UNCHANGED faults
    /\ \/ /\ Copies(c) = {} \/ Listening
          /\ wire' = wire \cup {[call |-> c, copy |-> Min(0 .. MaxFaults \ Copies(c))]}
          /\ UNCHANGED testVars
       \/ Rejects(c) /\ UNCHANGED wire
    /\ UNCHANGED <<test, toldVars, pushVars, brokerVars, daemonVars>>

(* An answer, to a call that may not wait for it any more, or be lost.     *)
Heard(w) == w.call \in calls /\ calls' = calls \ {w.call} /\ UNCHANGED <<pc, at, ok, made, faults>>
Unheard(w) ==
    /\ IF w.call \in calls THEN Trouble("lost") ELSE UNCHANGED faults
    /\ UNCHANGED <<testVars, toldVars>>
-----------------------------------------------------------------------------
(* The broker, and what a test makes of its answers.                       *)

(* Deduplication is by producer and sequence number.                       *)
Known(m) == {o \in DOMAIN log : log[o] = m /\ test = "pipeline"}

Appends(m) ==
    /\ Len(log) < MaxLog
    /\ log' = Append(log, m)
    /\ state' = Append(state, "ready")
    /\ lease' = Append(lease, 0)
    /\ UNCHANGED leases

(* Seeded fault: the offset after the one of the message.                  *)
ToldNextOffset(m, o) ==
    /\ IF Kind = "repeat"
       THEN repeated' = (o = offset[m]) /\ UNCHANGED offset
       ELSE offset' = [offset EXCEPT ![m] = o + 1] /\ UNCHANGED repeated
    /\ UNCHANGED <<msgs, todo, left, drained, rejected, leader>>

ToldOffset(m, o) ==
    /\ IF Kind = "repeat"
       THEN repeated' = (o = offset[m]) /\ UNCHANGED offset
       ELSE offset' = [offset EXCEPT ![m] = o] /\ UNCHANGED repeated
    /\ UNCHANGED <<msgs, todo, left, drained, rejected, leader>>

ProduceArrives(w) ==
    LET m == w.call.msg IN
    /\ w.call.kind = "produce"
    /\ IF Known(m) = {} THEN Appends(m) ELSE UNCHANGED brokerVars
    /\ \/ Heard(w) /\ ToldOffset(m, IF Known(m) = {} THEN Len(log) + 1 ELSE Min(Known(m)))
       \/ Unheard(w)

Ready(topicMsgs) == {o \in DOMAIN log : state[o] = "ready" /\ log[o] \in topicMsgs}

Grants(S) ==
    /\ leases' = leases + 1
    /\ state' = [o \in DOMAIN log |-> IF o \in S THEN "leased" ELSE state[o]]
    /\ lease' = [o \in DOMAIN log |-> IF o \in S THEN leases' ELSE lease[o]]
    /\ UNCHANGED log

(* What a poll is for: subscribe-smoke polls the first of its topics.      *)
Polled == IF test = "subscribe" THEN Pushed ELSE Produced(test) \cup {Stale}

PollLimit == IF test = "pipeline" THEN PollMax ELSE MaxLog

ToldMessages(D) ==
    /\ IF Kind = "pollAgain"
       THEN left' = Cardinality(D) /\ UNCHANGED <<msgs, todo>>
       ELSE msgs' = D /\ todo' = D /\ UNCHANGED left
    /\ drained' = IF Kind = "drain" THEN drained + Cardinality(D) ELSE drained
    /\ UNCHANGED <<offset, repeated, rejected, leader>>

PollArrives(w) ==
    /\ w.call.kind = "poll"
    /\ \E S \in SUBSET Ready(Polled) :
         /\ Cardinality(S) = Min({PollLimit, Cardinality(Ready(Polled))})
         /\ Grants(S)
         /\ \/ Heard(w) /\ ToldMessages({[entry |-> o, lease |-> leases'] : o \in S})
            \/ Unheard(w)

Current(d) == state[d.entry] = "leased" /\ lease[d.entry] = d.lease

Released(d, to) == state' = [state EXCEPT ![d.entry] = to] /\ UNCHANGED <<log, lease, leases>>

(* The ack of a lease that is over may be refused.                         *)
AckArrives(w) ==
    LET d == w.call.delivery IN
    /\ w.call.kind = "ack"
    /\ IF Current(d) THEN Released(d, "acked") ELSE UNCHANGED brokerVars
    /\ \/ Heard(w) /\ todo' = todo \ {d}
         /\ UNCHANGED <<offset, msgs, left, drained, repeated, rejected, leader>>
       \/ ~Current(d) /\ w.call \in calls /\ Throws /\ UNCHANGED <<toldVars, faults>>
       \/ Unheard(w)

(* connect with bootstrap, createTopic; stats, whose leader may be missing. *)
SetupArrives(w) ==
    /\ w.call.kind = "setup"
    /\ (Heard(w) /\ UNCHANGED toldVars) \/ Unheard(w)
    /\ UNCHANGED brokerVars

StatsArrive(w) ==
    /\ w.call.kind = "stats"
    /\ \/ /\ Heard(w) /\ leader' = TRUE
          /\ UNCHANGED <<offset, msgs, todo, left, drained, repeated, rejected>>
       \/ /\ w.call \in calls /\ calls' = calls \ {w.call}
          /\ Trouble("elect")
          /\ UNCHANGED <<pc, at, ok, made, toldVars>>
       \/ Unheard(w)
    /\ UNCHANGED brokerVars

Arrives(w) ==
    /\ Listening
    /\ wire' = wire \ {w}
    /\ \/ ProduceArrives(w) \/ PollArrives(w) \/ AckArrives(w) \/ SetupArrives(w)
       \/ StatsArrive(w)
    /\ UNCHANGED <<test, pushVars, daemonVars>>

(* Nobody has a delivery with this lease, or may have one soon.            *)
UnderWay(o) ==
    \E d \in msgs \cup inbox : d.entry = o /\ d.lease = lease[o]

(* The visibility timeout is the same for all the leases a test waits for: *)
(* they end in the order they were given.                                  *)
Expires(o) ==
    /\ Listening /\ state[o] = "leased"
    /\ \A p \in DOMAIN log : state[p] = "leased" => lease[p] >= lease[o]
    /\ IF UnderWay(o) THEN Trouble("slow") ELSE UNCHANGED faults
    /\ Released([entry |-> o], "ready")
    /\ UNCHANGED <<test, testVars, toldVars, pushVars, wire, daemonVars>>
-----------------------------------------------------------------------------
(* The subscriptions, as module Subscription has them in detail.           *)

Pushes(o) ==
    /\ Listening /\ o \in Ready(topic)
    /\ Grants({o})
    /\ inbox' = inbox \cup {[entry |-> o, lease |-> leases']}
    /\ UNCHANGED <<test, testVars, toldVars, topic, received, failedOnce, wire, daemonVars, faults>>

(* The handler of the second subscription throws the first time.  It is    *)
(* acked or nacked, if the report gets there.                              *)
Handles(d) ==
    LET m == log[d.entry]
        fails == m = Retry /\ ~failedOnce IN
    /\ inbox' = inbox \ {d}
    /\ received' = IF fails THEN received ELSE received \cup {d}
    /\ failedOnce' = (failedOnce \/ fails)
    /\ \/ Listening /\ Current(d)
         /\ Released(d, IF fails THEN "ready" ELSE "acked") /\ UNCHANGED faults
       \/ /\ IF Listening /\ Current(d) THEN Trouble("lost") ELSE UNCHANGED faults
          /\ UNCHANGED brokerVars
    /\ UNCHANGED <<test, testVars, toldVars, topic, wire, daemonVars>>
-----------------------------------------------------------------------------
(* The test.                                                               *)

Starts ==
    /\ pc = "start" /\ startup \in {"none", "up"}
    /\ pc' = "run"
    /\ UNCHANGED <<test, at, ok, calls, made, toldVars, pushVars, wire, brokerVars, daemonVars, faults>>

(* How often the messages were received.                                   *)
Times(S) == Cardinality({d \in received : log[d.entry] \in S})

(* Seeded fault: one poll is taken for all there is.                       *)
EnoughAtOnce ==
    /\ Kind = "await" => Times(Script(test)[at].msgs) >= Cardinality(Script(test)[at].msgs)
    /\ Kind = "ackEach" => todo = {}
    /\ Kind = "drain" => drained > 0 /\ todo = {}

(* What is awaited is there: enough messages, or nothing left to do.       *)
Enough ==
    /\ Kind = "await" => Times(Script(test)[at].msgs) >= Cardinality(Script(test)[at].msgs)
    /\ Kind = "ackEach" => todo = {}
    /\ Kind = "drain" => msgs = {}

(* The deadline of the loop that waits for the messages.                   *)
Patience == IF Enough THEN UNCHANGED faults
            ELSE Kind = "await" /\ IF Listening THEN Trouble("slow") ELSE UNCHANGED faults

(* The next step begins: with a call, or several at once, or without any.  *)
Asks(s) ==
    /\ \/ s.kind \in {"setup", "stats"} /\ Make({Ask(s.kind)})
       \/ s.kind \in {"poll", "pollAgain", "drain"} /\ Make({Ask("poll")})
       \/ s.kind \in {"produce", "produceMany", "repeat"}
            /\ Make({Call("produce", m, NoDelivery) : m \in s.msgs})
       \/ s.kind = "ackFirst" /\ \E d \in msgs : Make({Ack(d)})
    /\ UNCHANGED <<toldVars, pushVars>>

Local(s) ==
    /\ \/ s.kind = "malformed" /\ rejected' = TRUE /\ UNCHANGED <<topic, inbox>>
       \/ /\ s.kind = "subscribe"
          /\ topic' = s.msgs
          /\ UNCHANGED <<rejected, inbox>>
       \/ s.kind = "unsubscribe" /\ topic' = {} /\ inbox' \in {inbox, {}} /\ UNCHANGED rejected
       \/ s.kind \in {"await", "ackEach"} /\ UNCHANGED <<rejected, topic, inbox>>
    /\ UNCHANGED <<calls, made, wire, offset, msgs, todo, left, drained, repeated, leader,
                   received, failedOnce>>

Running == pc = "run" /\ calls = {}

(* consume-check.mjs: consumed is set when each message has been acked.    *)
Begins ==
    /\ Running /\ at < Len(Script(test)) /\ Patience
    /\ Asks(Script(test)[at + 1]) \/ Local(Script(test)[at + 1])
    /\ at' = at + 1
    /\ ok' = (ok \/ (Kind = "ackEach" /\ msgs # {}))
    /\ UNCHANGED <<test, pc, brokerVars, daemonVars>>

(* msgs[0] of an empty poll is undefined.                                  *)
NothingToAck ==
    /\ Running /\ at < Len(Script(test)) /\ Script(test)[at + 1].kind = "ackFirst" /\ msgs = {}
    /\ Throws
    /\ UNCHANGED <<test, toldVars, pushVars, wire, brokerVars, daemonVars, faults>>

(* The loops: acks one after the other, or polls and acks at once.         *)
Repeats ==
    /\ Running /\ ~Enough
    /\ \/ Kind = "ackEach" /\ \E d \in todo : Make({Ack(d)})
       \/ Kind = "drain" /\ Make(IF todo # {} THEN {Ack(d) : d \in todo} ELSE {Ask("poll")})
    /\ UNCHANGED <<test, pc, at, ok, toldVars, pushVars, brokerVars, daemonVars, faults>>

OneMessage == Cardinality(msgs) = 1 /\ \A d \in msgs : log[d.entry] = 1

SmokePasses == OneMessage /\ left = 0 /\ leader

ComposePasses == OneMessage /\ leader

Distinct(S) == Cardinality({offset[m] : m \in S}) = Cardinality(S)

(* Seeded fault: what has been drained is not counted.                     *)
PipelineUncounted ==
    /\ \A m \in Bulk : offset[m] # 0
    /\ Distinct(Bulk) /\ Distinct(Burst)
    /\ repeated /\ rejected

PipelinePasses ==
    /\ \A m \in Bulk : offset[m] # 0
    /\ Distinct(Bulk) /\ Distinct(Burst)
    /\ repeated /\ rejected
    /\ drained = SerialN + BulkN + BurstN

SubscribePasses ==
    /\ \A m \in Produced(test) : Times({m}) = 1
    /\ left = 0 /\ failedOnce

Passes ==
    CASE test = "smoke" -> SmokePasses
      [] test = "compose" -> ComposePasses
      [] test = "consume" -> ok
      [] test = "pipeline" -> PipelinePasses
      [] test = "subscribe" -> SubscribePasses

(* pipeline-smoke compares two rates as well.                              *)
Concludes ==
    /\ Running /\ at = Len(Script(test))
    /\ \/ Patience /\ ok' = Passes
       \/ test = "pipeline" /\ Enough /\ Trouble("slow") /\ ok' = FALSE
    /\ pc' = "finally"
    /\ UNCHANGED <<test, at, calls, made, toldVars, pushVars, wire, brokerVars, daemonVars>>

StopsDaemon ==
    /\ pc = "finally" /\ startup = "up"
    /\ Stop
    /\ UNCHANGED <<test, testVars, toldVars, pushVars, wire, brokerVars, faults>>

(* process.exit, or the error of startDaemon.                              *)
Exits ==
    /\ \/ pc = "finally" /\ (startup = "none" \/ stopping = "stopped")
       \/ pc = "start" /\ startup = "failed" /\ stopping = "stopped"
    /\ pc' = "end"
    /\ UNCHANGED <<test, at, ok, calls, made, toldVars, pushVars, wire, brokerVars, daemonVars, faults>>

Finished == (pc = "end" \/ startup = "crashed" \/ Stuck) /\ UNCHANGED vars
-----------------------------------------------------------------------------
Others == UNCHANGED <<test, testVars, toldVars, pushVars, wire, brokerVars>>
DaemonSteps == DaemonNext /\ Others

TestSteps == Starts \/ Begins \/ NothingToAck \/ Repeats \/ Concludes \/ StopsDaemon \/ Exits

Broker ==
    \/ \E w \in wire : Arrives(w)
    \/ \E o \in DOMAIN log : Pushes(o) \/ Expires(o)
    \/ \E d \in inbox : Handles(d)

Next ==
    \/ DaemonSteps \/ TestSteps
    \/ pc # "end" /\ Broker
    \/ \E c \in calls : TimesOut(c)
    \/ Finished

Spec == Init /\ [][Next]_vars

(* Node runs the test, its timers and the events of the daemon; the        *)
(* operating system runs the daemon, and carries out a signal; the broker  *)
(* answers, and pushes what is ready.                                      *)
Fairness ==
    /\ WF_vars(TestSteps /\ UNCHANGED faults)
    /\ WF_vars(\E c \in calls : TimesOut(c) /\ UNCHANGED faults)
    /\ WF_vars(pc # "end" /\ Broker /\ UNCHANGED faults)
    /\ WF_vars(Waits /\ Others) /\ WF_vars(ExitEvent /\ Others)
    /\ WF_vars(Boots /\ Others) /\ WF_vars(Killed /\ Others)
    /\ WF_vars(DeadlinePasses /\ Others /\ UNCHANGED faults)

LiveSpec == Spec /\ Fairness
-----------------------------------------------------------------------------
Messages(m) == {o \in DOMAIN log : log[o] = m}

(* A single trouble never makes a test pass that should not.  smoke: the   *)
(* message is acked; compose and consume: no message they were given is    *)
(* left leased; pipeline: each message was appended once, retries and      *)
(* concurrent calls included, and is acked; subscribe: each message was    *)
(* pushed, and is acked unless its report was lost.                        *)
VerdictIsTrue ==
    pc = "end" /\ ok /\ faults <= 1 =>
        CASE test = "smoke" -> \E o \in Messages(1) : state[o] = "acked"
          [] test \in {"compose", "consume"} -> msgs # {} /\ \A d \in msgs : ~Current(d)
          [] test = "pipeline" -> \A m \in Produced(test) :
               Cardinality(Messages(m)) = 1 /\ \A o \in Messages(m) : state[o] = "acked"
          [] test = "subscribe" -> \A m \in Produced(test) : \E o \in Messages(m) :
               lease[o] > 0 /\ (faults = 0 => state[o] = "acked")

(* Without trouble every test passes, whatever the order in which the      *)
(* calls made at once arrive, the items of produceMany among them; only    *)
(* compose-smoke wants a topic without an older message.                   *)
HealthyPasses ==
    pc = "end" /\ faults = 0 /\ (Messages(Stale) = {} \/ test = "consume") => ok

(* The data directory is not removed from under a daemon that still runs,  *)
(* and a test that ends leaves neither behind.                             *)
StopIsClean ==
    /\ startup # "none" /\ ~dataDir => child \in Gone
    /\ pc = "end" => ~dataDir

(* Whatever happens to the daemon, the test comes to an end; but for a     *)
(* program that is not there, and for a daemon that a signal has ended     *)
(* before stop, which then waits for an event that has already been.       *)
EndsCleanly ==
    <>(pc = "end" \/ startup = "crashed" \/ (child = "killed" /\ Stuck))
=============================================================================
