----------------------------- MODULE SmokeProofs ----------------------------
(***************************************************************************)
(* Theorems about module SmokeTests, and with it Daemon: for any number of *)
(* messages and any amount of trouble.                                     *)
(***************************************************************************)
EXTENDS SmokeTests, QueueLemmas, FiniteSetTheorems

-----------------------------------------------------------------------------
(* The invariant.                                                          *)

(* The daemon's process is gone before its directory is.                   *)
DaemonInv ==
    /\ DaemonTypeOK
    /\ startup # "none" /\ ~dataDir => child \in Gone
    /\ pc = "end" => ~dataDir

TestInv ==
    /\ test \in Tests
    /\ pc \in {"start", "run", "finally", "end"}
    /\ at \in 0 .. Len(Script(test))
    /\ calls # {} => pc = "run"

(* What is produced, at once or repeated, is of the messages of the test.  *)
CallsInv ==
    \A c \in calls \cup {w.call : w \in wire} : c.kind = "produce" => c.msg \in Produced(test)

BrokerInv ==
    /\ log \in Seq(Nat) /\ Len(log) <= MaxLog
    /\ leases \in Nat
    /\ state \in [1 .. Len(log) -> {"ready", "leased", "acked"}]
    /\ lease \in [1 .. Len(log) -> 0 .. leases]

OffsetInv == offset \in [Produced(test) -> 0 .. Len(log)]

(* A delivery is of an entry of the log, under its lease or an earlier one. *)
Given(d) ==
    d \in Deliveries /\ d.entry <= Len(log) /\ 0 < d.lease /\ d.lease <= lease[d.entry]

DeliveredInv == todo \subseteq msgs /\ \A d \in msgs \cup inbox \cup received : Given(d)

IInv == DaemonInv /\ TestInv /\ CallsInv /\ BrokerInv /\ OffsetInv /\ DeliveredInv
-----------------------------------------------------------------------------
(* The scripts.                                                            *)

Kinds ==
    {"setup", "produce", "produceMany", "repeat", "poll", "pollAgain", "drain", "ackFirst",
     "ackEach", "stats", "malformed", "subscribe", "await", "unsubscribe"}

StepsOf(t) == [kind : Kinds, msgs : SUBSET Produced(t)]

LEMMA ProducedType ==
    /\ \A t \in Tests : Produced(t) \subseteq Nat
    /\ 1 .. SerialN \cup Bulk \cup Burst \cup {SerialN + BulkN} \subseteq Produced("pipeline")
    /\ Pushed \cup {Retry} \subseteq Produced("subscribe")
    /\ \A t \in Tests \ {"pipeline", "subscribe"} : Produced(t) = {1}
BY SmokeAssumption DEF Tests, OwnDaemon, Produced, Bulk, Burst, Pushed, Retry

LEMMA StepType ==
    ASSUME NEW t, NEW kind \in Kinds, NEW S \in SUBSET Produced(t)
    PROVE  Step(kind, S) \in StepsOf(t) /\ Do(kind) \in StepsOf(t)
BY DEF Step, Do, StepsOf

LEMMA OneByOneType ==
    ASSUME NEW t, NEW n \in Nat, 1 .. n \subseteq Produced(t)
    PROVE  OneByOne(n) \in Seq(StepsOf(t))
<1>1. \A m \in 1 .. n : Step("produce", {m}) \in StepsOf(t)
  BY StepType DEF Kinds
<1> QED
  BY <1>1 DEF OneByOne

LEMMA ScriptType ==
    ASSUME NEW t \in Tests
    PROVE  /\ Len(Script(t)) \in Nat
           /\ \A i \in 1 .. Len(Script(t)) : Script(t)[i].msgs \subseteq Produced(t)
<1>1. Script(t) \in Seq(StepsOf(t))
  <2>1. /\ Do("setup") \in StepsOf(t) /\ Do("poll") \in StepsOf(t)
        /\ Do("ackFirst") \in StepsOf(t) /\ Do("pollAgain") \in StepsOf(t)
        /\ Do("stats") \in StepsOf(t) /\ Do("ackEach") \in StepsOf(t)
        /\ Do("malformed") \in StepsOf(t) /\ Do("drain") \in StepsOf(t)
        /\ Do("unsubscribe") \in StepsOf(t)
    BY StepType DEF Kinds
  <2>2. CASE t = "smoke"
    <3>1. Step("produce", {1}) \in StepsOf(t)
      BY <2>2, ProducedType, StepType DEF Kinds, Tests, OwnDaemon
    <3> QED
      BY <2>1, <2>2, <3>1 DEF Script, Smoke
  <2>3. CASE t = "compose"
    <3>1. Step("produce", {1}) \in StepsOf(t)
      BY <2>3, ProducedType, StepType DEF Kinds, Tests, OwnDaemon
    <3> QED
      BY <2>1, <2>3, <3>1 DEF Script, Compose
  <2>4. CASE t = "consume"
    <3>1. Step("produce", {1}) \in StepsOf(t)
      BY <2>4, ProducedType, StepType DEF Kinds, Tests, OwnDaemon
    <3> QED
      BY <2>1, <2>4, <3>1 DEF Script, Consume
  <2>5. CASE t = "pipeline"
    <3>1. OneByOne(SerialN) \in Seq(StepsOf(t))
      BY <2>5, ProducedType, OneByOneType, SmokeAssumption
    <3>2. <<Do("setup"), Do("setup")>> \in Seq(StepsOf(t))
      BY <2>1
    <3>3. /\ Step("produceMany", Bulk) \in StepsOf(t)
          /\ Step("repeat", {SerialN + BulkN}) \in StepsOf(t)
          /\ Step("produce", Burst) \in StepsOf(t)
      BY <2>5, ProducedType, StepType DEF Kinds
    <3>4. <<Step("produceMany", Bulk), Step("repeat", {SerialN + BulkN}), Step("produce", Burst),
            Do("malformed"), Do("drain")>> \in Seq(StepsOf(t))
      BY <2>1, <3>3
    <3> QED
      BY <2>5, <3>1, <3>2, <3>4, ConcatProperties DEF Script, Pipelined
  <2>6. CASE t = "subscribe"
    <3>1. OneByOne(PushN) \in Seq(StepsOf(t))
      BY <2>6, ProducedType, OneByOneType, SmokeAssumption DEF Pushed
    <3>2. /\ Step("subscribe", Pushed) \in StepsOf(t) /\ Step("await", Pushed) \in StepsOf(t)
          /\ Step("subscribe", {Retry}) \in StepsOf(t) /\ Step("await", {Retry}) \in StepsOf(t)
          /\ Step("produce", {Retry}) \in StepsOf(t)
      BY <2>6, ProducedType, StepType DEF Kinds
    <3>3. <<Do("setup"), Do("setup"), Step("subscribe", Pushed)>> \in Seq(StepsOf(t))
      BY <2>1, <3>2
    <3>4. <<Step("await", Pushed), Do("unsubscribe"), Do("pollAgain"),
            Do("setup"), Step("subscribe", {Retry}), Step("produce", {Retry}),
            Step("await", {Retry}), Do("unsubscribe")>> \in Seq(StepsOf(t))
      BY <2>1, <3>2
    <3> QED
      BY <2>6, <3>1, <3>3, <3>4, ConcatProperties DEF Script, Subscribe
  <2> QED
    BY <2>2, <2>3, <2>4, <2>5, <2>6 DEF Tests, OwnDaemon
<1>2. Len(Script(t)) \in Nat /\ \A i \in 1 .. Len(Script(t)) : Script(t)[i] \in StepsOf(t)
  BY <1>1, LenProperties, ElementOfSeq
<1> QED
  BY <1>2 DEF StepsOf
-----------------------------------------------------------------------------
(* The broker.                                                             *)

(* Entries stay where they are in the log, and acked once they are; their  *)
(* leases only go up, and each lease is a new one.                         *)
Grown ==
    /\ Len(log) <= Len(log') /\ leases <= leases'
    /\ \A o \in 1 .. Len(log) :
         /\ log'[o] = log[o] /\ lease[o] <= lease'[o]
         /\ state[o] = "acked" => state'[o] = "acked"
         /\ state'[o] = "leased" =>
              (state[o] = "leased" /\ lease'[o] = lease[o]) \/ leases < lease'[o]

LEMMA LogLength == BrokerInv => Len(log) \in Nat /\ DOMAIN log = 1 .. Len(log)
BY LenProperties DEF BrokerInv

LEMMA ReadyType == BrokerInv => \A T : Ready(T) \subseteq Ready(Nat) \cap 1 .. Len(log)
BY LogLength, ElementOfSeq DEF BrokerInv, Ready

LEMMA UnchangedStep ==
    BrokerInv /\ UNCHANGED brokerVars => BrokerInv' /\ Grown
<1> SUFFICES ASSUME BrokerInv, UNCHANGED brokerVars PROVE BrokerInv' /\ Grown
  OBVIOUS
<1>1. \A o \in 1 .. Len(log) : lease[o] \in Nat
  BY DEF BrokerInv
<1>2. Len(log) \in Nat /\ leases \in Nat
  BY LogLength DEF BrokerInv
<1> QED
  BY <1>1, <1>2 DEF brokerVars, BrokerInv, Grown

LEMMA AppendToArray ==
    ASSUME NEW S, NEW n \in Nat, NEW s \in [1 .. n -> S], NEW e \in S
    PROVE  /\ Append(s, e) \in [1 .. n + 1 -> S]
           /\ \A i \in 1 .. n : Append(s, e)[i] = s[i]
           /\ Append(s, e)[n + 1] = e
<1>1. s \in Seq(S) /\ Len(s) = n
  OBVIOUS
<1>2. /\ Append(s, e) \in Seq(S) /\ Len(Append(s, e)) = n + 1
      /\ \A i \in 1 .. n : Append(s, e)[i] = s[i]
      /\ Append(s, e)[n + 1] = e
  BY <1>1, AppendProperties
<1> QED
  BY <1>2, LenProperties

LEMMA AppendsStep ==
    ASSUME BrokerInv, NEW m \in Nat, Appends(m)
    PROVE  /\ BrokerInv' /\ Grown /\ Len(log') = Len(log) + 1
           /\ log'[Len(log) + 1] = m /\ state'[Len(log) + 1] = "ready"
           /\ \A o \in 1 .. Len(log) : state'[o] = state[o] /\ lease'[o] = lease[o]
<1> DEFINE n == Len(log)
<1>1. /\ n \in Nat /\ n < MaxLog /\ log \in Seq(Nat) /\ leases' = leases /\ leases \in Nat
      /\ state \in [1 .. n -> {"ready", "leased", "acked"}] /\ lease \in [1 .. n -> 0 .. leases]
      /\ log' = Append(log, m) /\ state' = Append(state, "ready") /\ lease' = Append(lease, 0)
  BY LogLength DEF BrokerInv, Appends
<1>2. log' \in Seq(Nat) /\ Len(log') = n + 1
  BY <1>1, AppendProperties
<1>3. 0 \in 0 .. leases /\ 0 .. leases \subseteq Nat
  BY <1>1
<1>4. \A o \in 1 .. n : lease[o] \in Nat
  BY <1>1, <1>3
<1>5. /\ state' \in [1 .. n + 1 -> {"ready", "leased", "acked"}]
  BY <1>1, AppendToArray
<1>6. /\ lease' \in [1 .. n + 1 -> 0 .. leases]
      /\ \A o \in 1 .. n : lease'[o] = lease[o] /\ lease[o] \in Nat
  <2>1. 0 .. leases' = 0 .. leases
    BY <1>1
  <2>2. /\ Append(lease, 0) \in [1 .. n + 1 -> 0 .. leases]
        /\ \A o \in 1 .. n : Append(lease, 0)[o] = lease[o]
    <3> DEFINE L == 0 .. leases
    <3>1. n \in Nat /\ lease \in [1 .. n -> L] /\ 0 \in L
      BY <1>1, <1>3
    <3> HIDE DEF L, n
    <3>2. Append(lease, 0) \in [1 .. n + 1 -> L]
      BY <3>1, AppendToArray
    <3>3. \A o \in 1 .. n : Append(lease, 0)[o] = lease[o]
      BY <3>1, AppendToArray
    <3> QED
      BY <3>2, <3>3 DEF L
  <2> QED
    BY <1>1, <1>4, <2>1, <2>2
<1>7. n <= n + 1 /\ n + 1 <= MaxLog
  BY <1>1, SmokeAssumption
<1>8. BrokerInv'
  BY <1>1, <1>2, <1>5, <1>6, <1>7 DEF BrokerInv
<1>9. \A o \in 1 .. n : log'[o] = log[o] /\ state'[o] = state[o]
  <2>1. \A o \in 1 .. n : Append(log, m)[o] = log[o]
    BY <1>1, AppendProperties
  <2>2. \A o \in 1 .. n : Append(state, "ready")[o] = state[o]
    BY <1>1, AppendToArray
  <2> QED
    BY <1>1, <2>1, <2>2
<1>10. Grown
  BY <1>1, <1>2, <1>6, <1>7, <1>9 DEF Grown
<1>11. log'[n + 1] = m /\ state'[n + 1] = "ready"
  BY <1>1, AppendProperties, AppendToArray
<1> QED
  BY <1>2, <1>6, <1>8, <1>9, <1>10, <1>11

LEMMA GrantsStep ==
    ASSUME BrokerInv, NEW S \in SUBSET Ready(Nat), Grants(S)
    PROVE  /\ BrokerInv' /\ Grown /\ log' = log
           /\ leases' = leases + 1 /\ leases' \in Nat
           /\ \A o \in S : o \in 1 .. Len(log) /\ lease'[o] = leases' /\ state'[o] = "leased"
           /\ \A o \in 1 .. Len(log) : o \notin S => lease'[o] = lease[o] /\ state'[o] = state[o]
<1>1. /\ Len(log) \in Nat /\ DOMAIN log = 1 .. Len(log) /\ log' = log
      /\ leases \in Nat /\ leases' = leases + 1
  BY LogLength DEF BrokerInv, Grants
<1>2. \A o \in 1 .. Len(log) : lease[o] \in 0 .. leases
  BY DEF BrokerInv
<1>3. /\ lease' = [o \in 1 .. Len(log) |-> IF o \in S THEN leases' ELSE lease[o]]
      /\ state' = [o \in 1 .. Len(log) |-> IF o \in S THEN "leased" ELSE state[o]]
  BY <1>1 DEF Grants
<1>4. state' \in [1 .. Len(log) -> {"ready", "leased", "acked"}]
  BY <1>3 DEF BrokerInv
<1>5. \A o \in 1 .. Len(log) : lease'[o] \in 0 .. leases' /\ lease[o] <= lease'[o]
  BY <1>1, <1>2, <1>3
<1>6. lease' \in [1 .. Len(log) -> 0 .. leases']
  BY <1>3, <1>5
<1>7. BrokerInv'
  BY <1>1, <1>3, <1>4, <1>5, <1>6 DEF BrokerInv
<1>8. \A o \in S : o \in 1 .. Len(log) /\ state[o] = "ready"
  BY <1>1 DEF Ready
<1>9. \A o \in S : lease'[o] = leases' /\ state'[o] = "leased"
  BY <1>3, <1>8
<1>10. \A o \in 1 .. Len(log) : o \notin S => lease'[o] = lease[o] /\ state'[o] = state[o]
  BY <1>3
<1>11. Grown
  <2> SUFFICES ASSUME NEW o \in 1 .. Len(log)
               PROVE  /\ lease[o] <= lease'[o]
                      /\ state[o] = "acked" => state'[o] = "acked"
                      /\ state'[o] = "leased" =>
                           (state[o] = "leased" /\ lease'[o] = lease[o]) \/ leases < lease'[o]
    BY <1>1 DEF Grown
  <2>1. leases < leases'
    BY <1>1
  <2> QED
    BY <1>5, <1>8, <1>9, <1>10, <2>1
<1> QED
  BY <1>1, <1>7, <1>8, <1>9, <1>10, <1>11

LEMMA ReleasedStep ==
    ASSUME BrokerInv, NEW d, NEW to \in {"ready", "acked"}, Released(d, to),
           state[d.entry] = "leased"
    PROVE  /\ BrokerInv' /\ Grown /\ UNCHANGED <<log, lease, leases>>
           /\ \A o \in 1 .. Len(log) : state'[o] = IF o = d.entry THEN to ELSE state[o]
<1>1. UNCHANGED <<log, lease, leases>> /\ state' = [state EXCEPT ![d.entry] = to]
  BY DEF Released
<1>2. state' \in [1 .. Len(log) -> {"ready", "leased", "acked"}]
  BY <1>1 DEF BrokerInv
<1>3. /\ Len(log) \in Nat /\ leases \in Nat
      /\ \A o \in 1 .. Len(log) : lease[o] \in Nat
  BY LogLength DEF BrokerInv
<1>4. \A o \in 1 .. Len(log) : state'[o] = IF o = d.entry THEN to ELSE state[o]
  BY <1>1 DEF BrokerInv
<1> QED
  BY <1>1, <1>2, <1>3, <1>4 DEF BrokerInv, Grown

LEMMA GivenStays ==
    ASSUME BrokerInv, BrokerInv', Grown, NEW d, Given(d)
    PROVE  /\ Given(d)' /\ d.entry \in 1 .. Len(log) /\ d.entry \in 1 .. Len(log')
           /\ log'[d.entry] = log[d.entry]
           /\ ~Current(d) => ~Current(d)'
           /\ state[d.entry] = "acked" => state'[d.entry] = "acked"
<1>1. d.entry \in Nat /\ d.entry >= 1 /\ d.lease \in Nat
  BY DEF Given, Deliveries, Offsets
<1>2. Len(log) \in Nat /\ Len(log') \in Nat
  BY LogLength, LenProperties DEF BrokerInv
<1>3. d.entry \in 1 .. Len(log) /\ d.entry \in 1 .. Len(log')
  BY <1>1, <1>2 DEF Given, Grown
<1>4. /\ lease[d.entry] \in Nat /\ lease'[d.entry] \in Nat /\ lease[d.entry] <= lease'[d.entry]
      /\ lease[d.entry] <= leases /\ leases \in Nat
  BY <1>3 DEF BrokerInv, Grown
<1>5. Given(d)'
  BY <1>1, <1>2, <1>3, <1>4 DEF Given
<1>6. Current(d)' => Current(d)
  BY <1>1, <1>3, <1>4 DEF Given, Grown, Current
<1> QED
  BY <1>3, <1>5, <1>6 DEF Grown
-----------------------------------------------------------------------------
(* What a step does to each part of the invariant.                         *)

LEMMA DaemonKept ==
    ASSUME DaemonInv, UNCHANGED daemonVars, faults' \in 0 .. MaxFaults,
           pc' = "end" => pc = "end" \/ ~dataDir
    PROVE  DaemonInv'
BY DEF DaemonInv, DaemonTypeOK, daemonVars, Gone

LEMMA FaultsType ==
    ASSUME DaemonInv
    PROVE  /\ faults' = faults => faults' \in 0 .. MaxFaults
           /\ \A kind : Trouble(kind) => faults' \in 0 .. MaxFaults
BY DaemonAssumption DEF DaemonInv, DaemonTypeOK, Trouble

(* A call that ends, with an answer or with an error that ends the test.   *)
LEMMA CallEnds ==
    ASSUME IInv, UNCHANGED <<test, at, daemonVars>>, faults' \in 0 .. MaxFaults,
           calls' \subseteq calls, wire' \subseteq wire,
           pc' = pc \/ (pc' = "finally" /\ calls' = {})
    PROVE  DaemonInv' /\ TestInv' /\ CallsInv'
<1>1. DaemonInv'
  BY DaemonKept DEF IInv
<1>2. TestInv'
  BY DEF IInv, TestInv
<1>3. CallsInv'
  BY DEF IInv, CallsInv
<1> QED
  BY <1>1, <1>2, <1>3

LEMMA CallsMade ==
    ASSUME CallsInv, test' = test, NEW S, Make(S),
           \A c \in S : c.kind = "produce" => c.msg \in Produced(test)
    PROVE  CallsInv'
<1>1. calls' = S /\ wire' = wire \cup {[call |-> c, copy |-> 0] : c \in S}
  BY DEF Make
<1>2. \A w \in wire' : w.call \in S \/ w \in wire
  BY <1>1
<1> QED
  BY <1>1, <1>2 DEF CallsInv

LEMMA OffsetKept ==
    ASSUME BrokerInv, BrokerInv', Grown, OffsetInv, UNCHANGED <<test, offset>>
    PROVE  OffsetInv'
<1>1. Len(log) \in Nat /\ Len(log') \in Nat /\ Len(log) <= Len(log')
  BY LogLength, LenProperties DEF BrokerInv, Grown
<1>2. 0 .. Len(log) \subseteq 0 .. Len(log')
  BY <1>1
<1> QED
  BY <1>2 DEF OffsetInv

(* The deliveries of the test are the old ones, less some, and new ones.   *)
LEMMA DeliveredKept ==
    ASSUME BrokerInv, BrokerInv', Grown, DeliveredInv, todo' \subseteq msgs',
           NEW D, \A d \in D : Given(d)',
           (msgs \cup inbox \cup received)' \subseteq msgs \cup inbox \cup received \cup D
    PROVE  DeliveredInv'
<1>1. \A d \in msgs \cup inbox \cup received : Given(d)'
  BY GivenStays DEF DeliveredInv
<1> QED
  BY <1>1 DEF DeliveredInv

LEMMA NothingDelivered ==
    ASSUME BrokerInv, BrokerInv', Grown, DeliveredInv, todo' \subseteq todo,
           UNCHANGED msgs, (inbox \cup received)' \subseteq inbox \cup received
    PROVE  DeliveredInv'
<1>1. \A d \in msgs \cup inbox \cup received : Given(d)'
  BY GivenStays DEF DeliveredInv
<1> QED
  BY <1>1 DEF DeliveredInv

LEMMA LeaseDelivery ==
    ASSUME BrokerInv, NEW S \in SUBSET Ready(Nat), Grants(S),
           NEW d \in {[entry |-> o, lease |-> leases'] : o \in S}
    PROVE  /\ Given(d)' /\ Current(d)' /\ d.entry \in S /\ d.lease = leases'
           /\ d = [entry |-> d.entry, lease |-> lease'[d.entry]]
<1>1. Len(log) \in Nat /\ Len(log) <= MaxLog /\ log' = log /\ MaxLog \in Nat
  BY LogLength, SmokeAssumption DEF BrokerInv, Grants
<1>2. PICK o \in S : d = [entry |-> o, lease |-> leases']
  OBVIOUS
<1>3. /\ leases' = leases + 1 /\ leases' \in Nat /\ leases \in Nat
      /\ o \in 1 .. Len(log) /\ lease'[o] = leases' /\ state'[o] = "leased"
  BY GrantsStep DEF BrokerInv
<1>4. o \in 1 .. MaxLog /\ o <= Len(log') /\ 0 < leases'
  BY <1>1, <1>3
<1> QED
  BY <1>2, <1>3, <1>4 DEF Given, Current, Deliveries, Offsets
-----------------------------------------------------------------------------
(* The broker's steps.                                                     *)

(* What is appended is at the end, what was known is where it was.         *)
LEMMA ProduceArrivesStep ==
    ASSUME IInv, NEW w \in wire, UNCHANGED <<test, inbox, received>>, ProduceArrives(w)
    PROVE  BrokerInv' /\ OffsetInv' /\ DeliveredInv' /\ Grown
<1> DEFINE m == w.call.msg
           o == IF Known(m) = {} THEN Len(log) + 1 ELSE Min(Known(m))
<1>1. m \in Produced(test) /\ m \in Nat
  BY ProducedType DEF IInv, TestInv, CallsInv, ProduceArrives
<1>2. /\ IF Known(m) = {} THEN Appends(m) ELSE UNCHANGED brokerVars
      /\ (Heard(w) /\ ToldOffset(m, o)) \/ Unheard(w)
  BY DEF ProduceArrives
<1>3. UNCHANGED <<msgs, todo>>
  BY <1>2 DEF ToldOffset, Unheard, toldVars
<1> HIDE DEF m, o
<1>4. BrokerInv' /\ Grown
  BY <1>1, <1>2, AppendsStep, UnchangedStep DEF IInv
<1>5. o \in 0 .. Len(log')
  <2>1. Len(log) \in Nat /\ Known(m) \subseteq 1 .. Len(log)
    BY LogLength DEF IInv, Known
  <2>2. CASE Known(m) = {}
    BY <1>1, <1>2, <2>1, <2>2, AppendsStep DEF IInv, o
  <2>3. CASE Known(m) # {}
    <3>1. Known(m) \in SUBSET Nat /\ log' = log
      BY <1>2, <2>1, <2>3 DEF brokerVars
    <3>2. Min(Known(m)) \in Known(m)
      BY <2>3, <3>1, MinIsLeast
    <3>3. o \in 1 .. Len(log)
      BY <2>1, <2>3, <3>2 DEF o
    <3> QED
      BY <2>1, <3>1, <3>3
  <2> QED
    BY <2>2, <2>3
<1>6. OffsetInv'
  <2>1. CASE UNCHANGED offset
    BY <1>4, <2>1, OffsetKept DEF IInv
  <2>2. CASE offset' = [offset EXCEPT ![m] = o]
    <3>1. offset \in [Produced(test) -> 0 .. Len(log')]
      <4>1. Len(log) \in Nat /\ Len(log') \in Nat /\ Len(log) <= Len(log')
        BY <1>4, LogLength, LenProperties DEF IInv, BrokerInv, Grown
      <4>2. 0 .. Len(log) \subseteq 0 .. Len(log')
        BY <4>1
      <4> QED
        BY <4>2 DEF IInv, OffsetInv
    <3> QED
      BY <1>5, <2>2, <3>1 DEF OffsetInv
  <2> QED
    BY <1>2, <2>1, <2>2 DEF ToldOffset, Unheard, toldVars
<1>7. DeliveredInv'
  BY <1>3, <1>4, NothingDelivered DEF IInv
<1> QED
  BY <1>4, <1>6, <1>7

LEMMA PollArrivesStep ==
    ASSUME IInv, NEW w \in wire, UNCHANGED <<test, inbox, received>>, PollArrives(w)
    PROVE  BrokerInv' /\ OffsetInv' /\ DeliveredInv' /\ Grown
<1>1. PICK S \in SUBSET Ready(Polled) :
        /\ Grants(S)
        /\ \/ Heard(w) /\ ToldMessages({[entry |-> o, lease |-> leases'] : o \in S})
           \/ Unheard(w)
  BY DEF PollArrives
<1> DEFINE D == {[entry |-> o, lease |-> leases'] : o \in S}
<1>2. S \in SUBSET Ready(Nat)
  BY ReadyType DEF IInv
<1>3. BrokerInv' /\ Grown
  BY <1>1, <1>2, GrantsStep DEF IInv
<1>4. \A d \in D : Given(d)'
  BY <1>1, <1>2, LeaseDelivery DEF IInv
<1> HIDE DEF D
<1>5. UNCHANGED offset /\ ((msgs' = D /\ todo' = D) \/ UNCHANGED <<msgs, todo>>)
  BY <1>1 DEF ToldMessages, Unheard, toldVars, D
<1>6. OffsetInv'
  BY <1>3, <1>5, OffsetKept DEF IInv
<1>7. /\ todo' \subseteq msgs'
      /\ (msgs \cup inbox \cup received)' \subseteq msgs \cup inbox \cup received \cup D
  BY <1>5 DEF IInv, DeliveredInv
<1>8. DeliveredInv'
  BY <1>3, <1>4, <1>7, DeliveredKept DEF IInv
<1> QED
  BY <1>3, <1>6, <1>8

LEMMA AckArrivesStep ==
    ASSUME IInv, NEW w \in wire, UNCHANGED <<test, inbox, received>>, AckArrives(w)
    PROVE  BrokerInv' /\ OffsetInv' /\ DeliveredInv' /\ Grown
<1>1. \/ Released(w.call.delivery, "acked") /\ state[w.call.delivery.entry] = "leased"
      \/ UNCHANGED brokerVars
  BY DEF AckArrives, Current
<1>2. BrokerInv' /\ Grown
  BY <1>1, ReleasedStep, UnchangedStep DEF IInv
<1>3. todo' \subseteq todo /\ UNCHANGED <<offset, msgs>>
  BY DEF AckArrives, Unheard, toldVars
<1>4. OffsetInv'
  BY <1>2, <1>3, OffsetKept DEF IInv
<1>5. DeliveredInv'
  BY <1>2, <1>3, NothingDelivered DEF IInv
<1> QED
  BY <1>2, <1>4, <1>5

LEMMA ArrivesStep ==
    ASSUME IInv, NEW w \in wire, Arrives(w)
    PROVE  IInv' /\ Grown
<1>1. UNCHANGED <<test, inbox, received, daemonVars>> /\ wire' \subseteq wire
  BY DEF Arrives, pushVars
<1>2. /\ at' = at /\ calls' \subseteq calls
      /\ pc' = pc \/ (pc' = "finally" /\ calls' = {})
  BY DEF Arrives, ProduceArrives, PollArrives, AckArrives, SetupArrives, StatsArrive,
         Heard, Unheard, Throws, testVars
<1>3. faults' = faults \/ \E kind : Trouble(kind)
  BY DEF Arrives, ProduceArrives, PollArrives, AckArrives, SetupArrives, StatsArrive,
         Heard, Unheard
<1>4. faults' \in 0 .. MaxFaults
  BY <1>3, FaultsType DEF IInv
<1>5. DaemonInv' /\ TestInv' /\ CallsInv'
  BY <1>1, <1>2, <1>4, CallEnds
<1>6. BrokerInv' /\ OffsetInv' /\ DeliveredInv' /\ Grown
  <2>1. CASE ProduceArrives(w) \/ PollArrives(w) \/ AckArrives(w)
    BY <1>1, <2>1, ProduceArrivesStep, PollArrivesStep, AckArrivesStep
  <2>2. CASE SetupArrives(w) \/ StatsArrive(w)
    <3>1. UNCHANGED <<offset, msgs, todo, brokerVars>>
      BY <2>2 DEF SetupArrives, StatsArrive, Unheard, toldVars
    <3>2. BrokerInv' /\ Grown
      BY <3>1, UnchangedStep DEF IInv
    <3> QED
      BY <1>1, <3>1, <3>2, OffsetKept, NothingDelivered DEF IInv
  <2> QED
    BY <2>1, <2>2 DEF Arrives
<1> QED
  BY <1>5, <1>6 DEF IInv

LEMMA PushesStep ==
    ASSUME IInv, NEW o \in DOMAIN log, Pushes(o)
    PROVE  IInv' /\ Grown
<1> DEFINE D == {[entry |-> o, lease |-> leases']}
<1>1. {o} \in SUBSET Ready(Nat) /\ Grants({o}) /\ inbox' = inbox \cup D
  BY ReadyType DEF Pushes, IInv
<1>2. BrokerInv' /\ Grown
  BY <1>1, GrantsStep DEF IInv
<1>3. \A d \in D : Given(d)'
  <2>1. D = {[entry |-> p, lease |-> leases'] : p \in {o}}
    OBVIOUS
  <2> QED
    BY <1>1, <2>1, LeaseDelivery DEF IInv
<1> HIDE DEF D
<1>4. UNCHANGED <<test, pc, at, calls, wire, offset, msgs, todo, received, daemonVars, faults>>
  BY DEF Pushes, testVars, toldVars
<1>5. DaemonInv' /\ TestInv' /\ CallsInv'
  BY <1>4, CallEnds, FaultsType DEF IInv
<1>6. /\ todo' \subseteq msgs'
      /\ (msgs \cup inbox \cup received)' \subseteq msgs \cup inbox \cup received \cup D
  BY <1>1, <1>4 DEF IInv, DeliveredInv
<1>7. DeliveredInv' /\ OffsetInv'
  BY <1>2, <1>3, <1>4, <1>6, DeliveredKept, OffsetKept DEF IInv
<1> QED
  BY <1>2, <1>5, <1>7 DEF IInv

(* A lease that ends by itself, or with the handler's report.              *)
LEMMA ReleaseStep ==
    ASSUME IInv,
           \/ \E o \in DOMAIN log : Expires(o)
           \/ \E d \in inbox : Handles(d)
    PROVE  IInv' /\ Grown
<1>1. /\ UNCHANGED <<test, pc, at, calls, wire, offset, msgs, todo, daemonVars>>
      /\ (inbox \cup received)' \subseteq inbox \cup received
  BY DEF Expires, Handles, testVars, toldVars, pushVars
<1>2. faults' = faults \/ \E kind : Trouble(kind)
  BY DEF Expires, Handles
<1>3. \/ \E d : state[d.entry] = "leased" /\ (Released(d, "ready") \/ Released(d, "acked"))
      \/ UNCHANGED brokerVars
  <2>1. CASE \E o \in DOMAIN log : Expires(o)
    <3>1. PICK o \in DOMAIN log : Expires(o)
      BY <2>1
    <3> DEFINE d == [entry |-> o]
    <3>2. state[d.entry] = "leased" /\ Released(d, "ready")
      BY <3>1 DEF Expires
    <3> QED
      BY <3>2
  <2>2. CASE \E d \in inbox : Handles(d)
    BY <2>2 DEF Handles, Current
  <2> QED
    BY <2>1, <2>2
<1>4. BrokerInv' /\ Grown
  BY <1>3, ReleasedStep, UnchangedStep DEF IInv
<1>5. DaemonInv' /\ TestInv' /\ CallsInv'
  BY <1>1, <1>2, CallEnds, FaultsType DEF IInv
<1>6. DeliveredInv' /\ OffsetInv'
  BY <1>1, <1>4, NothingDelivered, OffsetKept DEF IInv
<1> QED
  BY <1>4, <1>5, <1>6 DEF IInv
-----------------------------------------------------------------------------
(* The test's steps, and the daemon's.                                     *)

LEMMA TimesOutStep ==
    ASSUME IInv, NEW c \in calls, TimesOut(c)
    PROVE  IInv' /\ Grown
<1>1. /\ UNCHANGED <<test, offset, msgs, todo, inbox, received, brokerVars, daemonVars>>
      /\ faults' = faults \/ \E kind : Trouble(kind)
  BY DEF TimesOut, toldVars, pushVars
<1>2. at' = at /\ calls' \subseteq calls /\ (pc' = pc \/ (pc' = "finally" /\ calls' = {}))
  BY DEF TimesOut, testVars, Rejects, Throws
<1>3. faults' \in 0 .. MaxFaults
  BY <1>1, FaultsType DEF IInv
<1>4. DaemonInv'
  BY <1>1, <1>2, <1>3, DaemonKept DEF IInv
<1>5. TestInv'
  BY <1>1, <1>2 DEF IInv, TestInv
<1>6. CallsInv'
  <2>1. wire' = wire \/ \E n : wire' = wire \cup {[call |-> c, copy |-> n]}
    BY DEF TimesOut
  <2>2. \A w \in wire' : w.call \in calls \/ w \in wire
    BY <2>1
  <2> QED
    BY <1>1, <1>2, <2>2 DEF IInv, CallsInv
<1>7. BrokerInv' /\ Grown
  BY <1>1, UnchangedStep DEF IInv
<1>8. OffsetInv' /\ DeliveredInv'
  BY <1>1, <1>7, OffsetKept, NothingDelivered DEF IInv
<1> QED
  BY <1>4, <1>5, <1>6, <1>7, <1>8 DEF IInv

(* What a step of the script calls for is of the messages of the test.     *)
LEMMA BeginsCalls ==
    ASSUME IInv, Begins
    PROVE  /\ CallsInv'
           /\ UNCHANGED <<offset, msgs, todo, received>> /\ inbox' \subseteq inbox
<1> DEFINE s == Script(test)[at + 1]
<1>1. test \in Tests /\ at \in Nat /\ at + 1 \in 1 .. Len(Script(test)) /\ test' = test
  BY ScriptType DEF Begins, IInv, TestInv
<1>2. s.msgs \subseteq Produced(test)
  BY <1>1, ScriptType
<1>3. Asks(s) \/ Local(s)
  BY DEF Begins
<1> HIDE DEF s
<1>4. CASE Asks(s)
  <2>1. PICK S : /\ Make(S)
                 /\ \A c \in S : c.kind = "produce" => c.msg \in Produced(test)
    <3>1. \A kind : Ask(kind).kind = kind
      BY DEF Ask, Call
    <3>2. \A d : Ack(d).kind = "ack"
      BY DEF Ack, Call
    <3>3. \A c \in {Call("produce", m, NoDelivery) : m \in s.msgs} : c.msg \in Produced(test)
      BY <1>2 DEF Call
    <3>4. CASE s.kind \in {"setup", "stats"} /\ Make({Ask(s.kind)})
      BY <3>1, <3>4
    <3>5. CASE Make({Ask("poll")})
      BY <3>1, <3>5
    <3>6. CASE Make({Call("produce", m, NoDelivery) : m \in s.msgs})
      BY <3>3, <3>6
    <3>7. CASE \E d \in msgs : Make({Ack(d)})
      BY <3>2, <3>7
    <3> QED
      BY <1>4, <3>4, <3>5, <3>6, <3>7 DEF Asks
  <2>2. CallsInv'
    BY <1>1, <2>1, CallsMade DEF IInv
  <2> QED
    BY <1>4, <2>2 DEF Asks, toldVars, pushVars
<1>5. CASE Local(s)
  <2>1. UNCHANGED <<test, calls, wire, offset, msgs, todo, received>> /\ inbox' \subseteq inbox
    BY <1>1, <1>5 DEF Local
  <2> QED
    BY <2>1 DEF IInv, CallsInv
<1> QED
  BY <1>3, <1>4, <1>5

LEMMA RepeatsCalls ==
    ASSUME IInv, Repeats
    PROVE  CallsInv'
<1>1. PICK S : Make(S) /\ \A c \in S : c.kind # "produce"
  <2>1. Ask("poll").kind = "poll" /\ \A d : Ack(d).kind = "ack"
    BY DEF Ask, Ack, Call
  <2>2. CASE \E d \in todo : Make({Ack(d)})
    BY <2>1, <2>2
  <2>3. CASE Make({Ack(d) : d \in todo})
    BY <2>1, <2>3
  <2>4. CASE Make({Ask("poll")})
    BY <2>1, <2>4
  <2> QED
    BY <2>2, <2>3, <2>4 DEF Repeats
<1>2. test' = test
  BY DEF Repeats
<1> QED
  BY <1>1, <1>2, CallsMade DEF IInv

LEMMA TestStep ==
    ASSUME IInv, Starts \/ Begins \/ NothingToAck \/ Repeats \/ Concludes \/ Exits
    PROVE  IInv' /\ Grown
<1>1. UNCHANGED <<test, brokerVars, daemonVars>>
  BY DEF Starts, Begins, NothingToAck, Repeats, Concludes, Exits
<1>2. faults' \in 0 .. MaxFaults
  <2>1. faults' = faults \/ \E kind : Trouble(kind)
    BY DEF Starts, Begins, NothingToAck, Repeats, Concludes, Exits, Patience
  <2> QED
    BY <2>1, FaultsType DEF IInv
<1>3. UNCHANGED <<offset, msgs, todo, received>> /\ inbox' \subseteq inbox
  BY BeginsCalls DEF Starts, NothingToAck, Repeats, Concludes, Exits, toldVars, pushVars
<1>4. DaemonInv'
  <2>1. pc' = "end" => pc = "end" \/ ~dataDir
    BY DEF Starts, Begins, NothingToAck, Throws, Repeats, Concludes, Exits,
           IInv, DaemonInv, DaemonTypeOK
  <2> QED
    BY <1>1, <1>2, <2>1, DaemonKept DEF IInv
<1>5. TestInv'
  <2>1. pc' \in {"run", "finally", "end"} /\ (calls' # {} => pc' = "run")
    BY DEF Starts, Begins, NothingToAck, Throws, Repeats, Concludes, Exits, Running,
           IInv, TestInv
  <2>2. at' = at \/ (at < Len(Script(test)) /\ at' = at + 1)
    BY DEF Starts, Begins, NothingToAck, Throws, Repeats, Concludes, Exits
  <2>3. at \in 0 .. Len(Script(test)) /\ Len(Script(test)) \in Nat
    BY ScriptType DEF IInv, TestInv
  <2>4. at' \in 0 .. Len(Script(test))
    BY <2>2, <2>3
  <2> QED
    BY <1>1, <2>1, <2>4 DEF IInv, TestInv
<1>6. CallsInv'
  <2>1. CASE Starts \/ NothingToAck \/ Concludes \/ Exits
    <3>1. UNCHANGED <<test, wire>> /\ calls' \subseteq calls
      BY <2>1 DEF Starts, NothingToAck, Throws, Concludes, Exits
    <3> QED
      BY <3>1 DEF IInv, CallsInv
  <2> QED
    BY <2>1, BeginsCalls, RepeatsCalls
<1>7. BrokerInv' /\ Grown
  BY <1>1, UnchangedStep DEF IInv
<1>8. OffsetInv' /\ DeliveredInv'
  BY <1>1, <1>3, <1>7, OffsetKept, NothingDelivered DEF IInv
<1> QED
  BY <1>4, <1>5, <1>6, <1>7, <1>8 DEF IInv

(* The directory is removed when the exit event has been seen, or is seen. *)
LEMMA DaemonStep ==
    ASSUME IInv, DaemonSteps \/ StopsDaemon
    PROVE  IInv' /\ Grown
<1>1. UNCHANGED <<test, testVars, toldVars, pushVars, wire, brokerVars>>
  BY DEF DaemonSteps, Others, StopsDaemon
<1>2. DaemonInv'
  <2> USE DEF IInv, DaemonInv, DaemonTypeOK, Gone
  <2>1. UNCHANGED pc
    BY <1>1 DEF testVars
  <2>2. faults' \in 0 .. MaxFaults
    <3>1. faults' = faults \/ \E kind : Trouble(kind)
      BY DEF DaemonSteps, DaemonNext, Waits, SpawnFails, TestDeadline, TryConnect, WakeUp,
             StopAfterFailure, DeadlinePasses, ExitEvent, Boots, Killed, Dies, StopsDaemon
    <3> QED
      BY <3>1, FaultsType
  <2>3. CASE Waits
    BY <2>1, <2>2, <2>3 DEF Waits, SpawnFails, TestDeadline, TryConnect, WakeUp,
                            StopAfterFailure, Stop
  <2>4. CASE DeadlinePasses
    BY <2>1, <2>2, <2>4 DEF DeadlinePasses
  <2>5. CASE ExitEvent
    BY <2>1, <2>2, <2>5 DEF ExitEvent
  <2>6. CASE Boots
    BY <2>1, <2>2, <2>6 DEF Boots
  <2>7. CASE Killed
    BY <2>1, <2>2, <2>7 DEF Killed
  <2>8. CASE Dies
    BY <2>1, <2>2, <2>8 DEF Dies
  <2>9. CASE StopsDaemon
    BY <2>1, <2>2, <2>9 DEF StopsDaemon, Stop
  <2> QED
    BY <2>3, <2>4, <2>5, <2>6, <2>7, <2>8, <2>9 DEF DaemonSteps, DaemonNext
<1>3. TestInv' /\ CallsInv'
  BY <1>1 DEF testVars, IInv, TestInv, CallsInv
<1>4. BrokerInv' /\ Grown
  BY <1>1, UnchangedStep DEF IInv
<1>5. OffsetInv' /\ DeliveredInv'
  BY <1>1, <1>4, OffsetKept, NothingDelivered DEF toldVars, pushVars, IInv
<1> QED
  BY <1>2, <1>3, <1>4, <1>5 DEF IInv
-----------------------------------------------------------------------------
LEMMA InitInvariant == Init => IInv
<1> SUFFICES ASSUME Init PROVE IInv
  OBVIOUS
<1>1. test \in Tests /\ Len(Script(test)) \in Nat
  BY ScriptType DEF Init, Tests, OwnDaemon
<1>2. DaemonInv
  BY DaemonAssumption DEF Init, DaemonInit, DaemonStarts, NoDaemon, Spawned, ResolveDaemon,
                          DaemonInv, DaemonTypeOK, Gone
<1>3. TestInv /\ CallsInv /\ DeliveredInv
  BY <1>1 DEF Init, TestInv, CallsInv, DeliveredInv, Given
<1>4. BrokerInv /\ OffsetInv
  <2>1. log = <<>> \/ log = <<Stale>>
    BY DEF Init
  <2>2. log \in Seq(Nat) /\ Len(log) \in {0, 1} /\ DOMAIN log = 1 .. Len(log)
    <3>1. Stale \in Nat
      BY DEF Stale
    <3>2. <<>> \in Seq(Nat) /\ Len(<<>>) = 0
      OBVIOUS
    <3>3. <<Stale>> \in Seq(Nat) /\ Len(<<Stale>>) = 1
      BY <3>1
    <3>4. log \in Seq(Nat) /\ Len(log) \in {0, 1}
      BY <2>1, <3>2, <3>3
    <3> QED
      BY <3>4, LenProperties
  <2>3. Len(log) <= MaxLog /\ 0 \in 0 .. Len(log) /\ 0 \in 0 .. 0
    BY <2>2, SmokeAssumption
  <2> QED
    BY <2>2, <2>3 DEF Init, BrokerInv, OffsetInv
<1> QED
  BY <1>2, <1>3, <1>4 DEF IInv

LEMMA NextInvariant == IInv /\ [Next]_vars => IInv' /\ Grown
<1> SUFFICES ASSUME IInv, [Next]_vars PROVE IInv' /\ Grown
  OBVIOUS
<1>1. CASE DaemonSteps \/ TestSteps
  BY <1>1, DaemonStep, TestStep DEF TestSteps
<1>2. CASE Broker
  BY <1>2, ArrivesStep, PushesStep, ReleaseStep DEF Broker
<1>3. CASE \E c \in calls : TimesOut(c)
  BY <1>3, TimesOutStep
<1>4. CASE UNCHANGED vars
  <2>1. IInv'
    BY <1>4 DEF vars, testVars, toldVars, pushVars, brokerVars, daemonVars, IInv, DaemonInv,
                DaemonTypeOK, TestInv, CallsInv, BrokerInv, OffsetInv, DeliveredInv, Given
  <2>2. Grown
    BY <1>4, UnchangedStep DEF vars, IInv
  <2> QED
    BY <2>1, <2>2
<1> QED
  BY <1>1, <1>2, <1>3, <1>4 DEF Next, Finished

(* The types, and what they rest on, in every state a test can be in.      *)
THEOREM Invariance == Spec => []IInv
BY InitInvariant, NextInvariant, PTL DEF Spec

(* Every variable of the test, the broker and the daemon keeps its type:   *)
(* an offset it was told is one of the log, a delivery it holds is of an   *)
(* entry of the log, under the lease of the entry or an earlier one.       *)
THEOREM TypeCorrect == Spec => []TypeOK
<1>1. IInv => TypeOK
  <2> SUFFICES ASSUME IInv PROVE TypeOK
    OBVIOUS
  <2>1. DaemonTypeOK
    BY DEF IInv, DaemonInv
  <2>2. /\ pc \in {"start", "run", "finally", "end"}
        /\ at \in 0 .. Len(Script(test))
        /\ calls # {} => pc = "run"
    BY DEF IInv, TestInv
  <2>3. \A m \in Produced(test) : offset[m] \in 0 .. Len(log)
    BY DEF IInv, OffsetInv
  <2>4. /\ todo \subseteq msgs
        /\ msgs \cup inbox \cup received \subseteq Deliveries
        /\ \A d \in msgs \cup inbox \cup received :
             d.entry <= Len(log) /\ d.lease <= lease[d.entry]
    BY DEF IInv, DeliveredInv, Given
  <2>5. DOMAIN state = DOMAIN log /\ DOMAIN lease = DOMAIN log
    BY LogLength DEF IInv, BrokerInv
  <2>6. \A o \in DOMAIN log : state[o] \in {"ready", "leased", "acked"} /\ lease[o] \in 0 .. leases
    BY LogLength DEF IInv, BrokerInv
  <2> QED
    BY <2>1, <2>2, <2>3, <2>4, <2>5, <2>6 DEF TypeOK
<1> QED
  BY <1>1, Invariance, PTL

(* stop of daemon.mjs: the data directory is there as long as the process  *)
(* may still run, and is gone when the test has ended, whatever died, was  *)
(* late or failed in between.                                              *)
THEOREM DirectoryOutlivesProcess == Spec => []StopIsClean
<1>1. IInv => StopIsClean
  BY DEF IInv, DaemonInv, StopIsClean
<1> QED
  BY <1>1, Invariance, PTL

-----------------------------------------------------------------------------
(* The scripts: where in them the steps of each kind are.                  *)

(* Where in the scripts the steps of each kind are.                        *)
LEMMA ShortScripts ==
    /\ Len(Smoke) = 7 /\ Len(Compose) = 6 /\ Len(Consume) = 4
    /\ Smoke[1] = Do("setup") /\ Smoke[2] = Do("setup") /\ Smoke[3] = Step("produce", {1})
    /\ Smoke[4] = Do("poll") /\ Smoke[5] = Do("ackFirst") /\ Smoke[6] = Do("pollAgain")
    /\ Smoke[7] = Do("stats")
    /\ Compose[1] = Do("setup") /\ Compose[2] = Do("setup")
    /\ Compose[3] = Step("produce", {1}) /\ Compose[4] = Do("poll")
    /\ Compose[5] = Do("ackFirst") /\ Compose[6] = Do("stats")
    /\ Consume[1] = Step("produce", {1}) /\ Consume[2] = Do("poll") /\ Consume[3] = Do("ackEach")
    /\ Consume[4] = Do("stats")
BY DEF Smoke, Compose, Consume

(* Where the items of three sequences are in their concatenation.          *)
LEMMA ThreeParts ==
    ASSUME NEW S, NEW a \in Seq(S), NEW b \in Seq(S), NEW c \in Seq(S)
    PROVE  /\ Len(a \o b \o c) = Len(a) + Len(b) + Len(c)
           /\ \A i \in 1 .. Len(a) : (a \o b \o c)[i] = a[i]
           /\ \A i \in 1 .. Len(b) : (a \o b \o c)[Len(a) + i] = b[i]
           /\ \A i \in 1 .. Len(c) : (a \o b \o c)[Len(a) + Len(b) + i] = c[i]
OBVIOUS

(* produceSerial: one step of the script for each message.                 *)
LEMMA OneByOneSteps ==
    ASSUME NEW S, NEW n \in Nat, \A m \in 1 .. n : Step("produce", {m}) \in S
    PROVE  /\ OneByOne(n) \in Seq(S) /\ Len(OneByOne(n)) = n
           /\ \A m \in 1 .. n : OneByOne(n)[m] = Step("produce", {m})
BY DEF OneByOne

(* The script of pipeline-smoke.mjs, with its two setup calls, the         *)
(* messages one by one, the bulk, the repetition, the burst, the malformed *)
(* call and the drain.                                                     *)
LEMMA PipelinedSteps ==
    LET n == SerialN IN
    /\ Len(Pipelined) = n + 7
    /\ Pipelined[1] = Do("setup") /\ Pipelined[2] = Do("setup")
    /\ \A m \in 1 .. n : Pipelined[m + 2] = Step("produce", {m})
    /\ Pipelined[n + 3] = Step("produceMany", Bulk)
    /\ Pipelined[n + 4] = Step("repeat", {n + BulkN})
    /\ Pipelined[n + 5] = Step("produce", Burst)
    /\ Pipelined[n + 6] = Do("malformed") /\ Pipelined[n + 7] = Do("drain")
<1> DEFINE S == [kind : Kinds, msgs : SUBSET Nat]
           a == <<Do("setup"), Do("setup")>>
           b == OneByOne(SerialN)
           c == <<Step("produceMany", Bulk), Step("repeat", {SerialN + BulkN}),
                  Step("produce", Burst), Do("malformed"), Do("drain")>>
<1>1. Bulk \in SUBSET Nat /\ Burst \in SUBSET Nat /\ {SerialN + BulkN} \in SUBSET Nat /\ {} \in SUBSET Nat
  BY SmokeAssumption DEF Bulk, Burst
<1>2. \A m \in 1 .. SerialN : Step("produce", {m}) \in S
  BY SmokeAssumption DEF Step, Kinds
<1>3. b \in Seq(S) /\ Len(b) = SerialN /\ \A m \in 1 .. SerialN : b[m] = Step("produce", {m})
  <2> HIDE DEF S
  <2> QED
    BY <1>2, OneByOneSteps, SmokeAssumption
<1>4. /\ Do("setup") \in S /\ Do("malformed") \in S /\ Do("drain") \in S
      /\ Step("produceMany", Bulk) \in S /\ Step("repeat", {SerialN + BulkN}) \in S
      /\ Step("produce", Burst) \in S
  BY <1>1 DEF Do, Step, Kinds
<1>5. /\ a \in Seq(S) /\ Len(a) = 2 /\ a[1] = Do("setup") /\ a[2] = Do("setup")
      /\ c \in Seq(S) /\ Len(c) = 5 /\ c[1] = Step("produceMany", Bulk)
      /\ c[2] = Step("repeat", {SerialN + BulkN}) /\ c[3] = Step("produce", Burst)
      /\ c[4] = Do("malformed") /\ c[5] = Do("drain")
  BY <1>4
<1>6. Pipelined = a \o b \o c
  BY DEF Pipelined
<1> HIDE DEF S, a, b, c
<1>7. /\ Len(Pipelined) = 2 + SerialN + 5
      /\ \A i \in 1 .. 2 : Pipelined[i] = a[i]
      /\ \A i \in 1 .. SerialN : Pipelined[2 + i] = b[i]
      /\ \A i \in 1 .. 5 : Pipelined[2 + SerialN + i] = c[i]
  <2>0. a \in Seq(S) /\ b \in Seq(S) /\ c \in Seq(S)
    BY <1>3, <1>5
  <2>1. Len(a \o b \o c) = Len(a) + Len(b) + Len(c)
    BY <2>0, ThreeParts
  <2>2. \A i \in 1 .. Len(a) : (a \o b \o c)[i] = a[i]
    BY <2>0, ThreeParts
  <2>3. \A i \in 1 .. Len(b) : (a \o b \o c)[Len(a) + i] = b[i]
    BY <2>0, ThreeParts
  <2>4. \A i \in 1 .. Len(c) : (a \o b \o c)[Len(a) + Len(b) + i] = c[i]
    BY <2>0, ThreeParts
  <2> QED
    BY <1>3, <1>5, <1>6, <2>1, <2>2, <2>3, <2>4
<1>8. SerialN \in Nat
  BY SmokeAssumption
<1>9. /\ Pipelined[2 + SerialN + 1] = c[1] /\ Pipelined[2 + SerialN + 2] = c[2]
      /\ Pipelined[2 + SerialN + 3] = c[3] /\ Pipelined[2 + SerialN + 4] = c[4]
      /\ Pipelined[2 + SerialN + 5] = c[5] /\ Pipelined[1] = a[1] /\ Pipelined[2] = a[2]
  BY <1>7
<1>10. /\ 2 + SerialN + 1 = SerialN + 3 /\ 2 + SerialN + 2 = SerialN + 4
       /\ 2 + SerialN + 3 = SerialN + 5 /\ 2 + SerialN + 4 = SerialN + 6
       /\ 2 + SerialN + 5 = SerialN + 7 /\ \A m \in 1 .. SerialN : 2 + m = m + 2
  BY <1>8
<1> QED
  BY <1>3, <1>5, <1>7, <1>9, <1>10

(* The script of subscribe-smoke.mjs, with both of its subscriptions.      *)
LEMMA SubscribeSteps ==
    LET n == PushN IN
    /\ Len(Subscribe) = n + 11
    /\ Subscribe[1] = Do("setup") /\ Subscribe[2] = Do("setup")
    /\ Subscribe[3] = Step("subscribe", Pushed)
    /\ \A m \in 1 .. n : Subscribe[m + 3] = Step("produce", {m})
    /\ Subscribe[n + 4] = Step("await", Pushed) /\ Subscribe[n + 5] = Do("unsubscribe")
    /\ Subscribe[n + 6] = Do("pollAgain") /\ Subscribe[n + 7] = Do("setup")
    /\ Subscribe[n + 8] = Step("subscribe", {Retry}) /\ Subscribe[n + 9] = Step("produce", {Retry})
    /\ Subscribe[n + 10] = Step("await", {Retry}) /\ Subscribe[n + 11] = Do("unsubscribe")
<1> DEFINE S == [kind : Kinds, msgs : SUBSET Nat]
           a == <<Do("setup"), Do("setup"), Step("subscribe", Pushed)>>
           b == OneByOne(PushN)
           c == <<Step("await", Pushed), Do("unsubscribe"), Do("pollAgain"),
                  Do("setup"), Step("subscribe", {Retry}), Step("produce", {Retry}),
                  Step("await", {Retry}), Do("unsubscribe")>>
<1>1. Pushed \in SUBSET Nat /\ {Retry} \in SUBSET Nat /\ {} \in SUBSET Nat
  BY SmokeAssumption DEF Pushed, Retry
<1>2. \A m \in 1 .. PushN : Step("produce", {m}) \in S
  BY SmokeAssumption DEF Step, Kinds
<1>3. b \in Seq(S) /\ Len(b) = PushN /\ \A m \in 1 .. PushN : b[m] = Step("produce", {m})
  <2> HIDE DEF S
  <2> QED
    BY <1>2, OneByOneSteps, SmokeAssumption
<1>4. /\ Do("setup") \in S /\ Do("unsubscribe") \in S /\ Do("pollAgain") \in S
      /\ Step("subscribe", Pushed) \in S /\ Step("await", Pushed) \in S
      /\ Step("subscribe", {Retry}) \in S /\ Step("await", {Retry}) \in S
      /\ Step("produce", {Retry}) \in S
  BY <1>1 DEF Do, Step, Kinds
<1>5. /\ a \in Seq(S) /\ Len(a) = 3 /\ a[1] = Do("setup") /\ a[2] = Do("setup")
      /\ a[3] = Step("subscribe", Pushed)
  BY <1>4
<1>6. /\ c \in Seq(S) /\ Len(c) = 8 /\ c[1] = Step("await", Pushed)
      /\ c[2] = Do("unsubscribe") /\ c[3] = Do("pollAgain") /\ c[4] = Do("setup")
      /\ c[5] = Step("subscribe", {Retry}) /\ c[6] = Step("produce", {Retry})
      /\ c[7] = Step("await", {Retry}) /\ c[8] = Do("unsubscribe")
  BY <1>4
<1>7. Subscribe = a \o b \o c
  BY DEF Subscribe
<1> HIDE DEF S, a, b, c
<1>8. /\ Len(Subscribe) = 3 + PushN + 8
      /\ \A i \in 1 .. 3 : Subscribe[i] = a[i]
      /\ \A i \in 1 .. PushN : Subscribe[3 + i] = b[i]
      /\ \A i \in 1 .. 8 : Subscribe[3 + PushN + i] = c[i]
  <2>0. a \in Seq(S) /\ b \in Seq(S) /\ c \in Seq(S)
    BY <1>3, <1>5, <1>6
  <2>1. Len(a \o b \o c) = Len(a) + Len(b) + Len(c)
    BY <2>0, ThreeParts
  <2>2. \A i \in 1 .. Len(a) : (a \o b \o c)[i] = a[i]
    BY <2>0, ThreeParts
  <2>3. \A i \in 1 .. Len(b) : (a \o b \o c)[Len(a) + i] = b[i]
    BY <2>0, ThreeParts
  <2>4. \A i \in 1 .. Len(c) : (a \o b \o c)[Len(a) + Len(b) + i] = c[i]
    BY <2>0, ThreeParts
  <2> QED
    BY <1>3, <1>5, <1>6, <1>7, <2>1, <2>2, <2>3, <2>4
<1>9. PushN \in Nat
  BY SmokeAssumption
<1>10. /\ Subscribe[3 + PushN + 1] = c[1] /\ Subscribe[3 + PushN + 2] = c[2]
       /\ Subscribe[3 + PushN + 3] = c[3] /\ Subscribe[3 + PushN + 4] = c[4]
       /\ Subscribe[3 + PushN + 5] = c[5] /\ Subscribe[3 + PushN + 6] = c[6]
       /\ Subscribe[3 + PushN + 7] = c[7] /\ Subscribe[3 + PushN + 8] = c[8]
       /\ Subscribe[1] = a[1] /\ Subscribe[2] = a[2] /\ Subscribe[3] = a[3]
  BY <1>8
<1>11. /\ 3 + PushN + 1 = PushN + 4 /\ 3 + PushN + 2 = PushN + 5
       /\ 3 + PushN + 3 = PushN + 6 /\ 3 + PushN + 4 = PushN + 7
       /\ 3 + PushN + 5 = PushN + 8 /\ 3 + PushN + 6 = PushN + 9
       /\ 3 + PushN + 7 = PushN + 10 /\ 3 + PushN + 8 = PushN + 11
       /\ \A m \in 1 .. PushN : 3 + m = m + 3
  BY <1>9
<1> QED
  BY <1>3, <1>5, <1>6, <1>8, <1>10, <1>11

(* Which tests have a step of a kind, and where.                           *)
LEMMA ScriptPlaces ==
    ASSUME NEW t \in Tests, NEW i \in 1 .. Len(Script(t))
    PROVE  LET s == Script(t)[i] IN
           /\ s.kind = "poll" => (t \in {"smoke", "compose"} /\ i = 4) \/ (t = "consume" /\ i = 2)
           /\ s.kind = "ackFirst" => t \in {"smoke", "compose"} /\ i = 5
           /\ s.kind = "ackEach" => t = "consume" /\ i = 3
           /\ s.kind = "pollAgain" => (t = "smoke" /\ i = 6) \/ (t = "subscribe" /\ i = PushN + 6)
           /\ s.kind = "stats" => t \in {"smoke", "compose", "consume"}
           /\ s.kind = "produceMany" => t = "pipeline" /\ i = SerialN + 3
           /\ s.kind = "repeat" => t = "pipeline" /\ i = SerialN + 4
           /\ s.kind = "malformed" => t = "pipeline"
           /\ s.kind = "drain" => t = "pipeline" /\ i = SerialN + 7
           /\ s.kind \in {"subscribe", "unsubscribe", "await"} => t = "subscribe"
           /\ s.kind = "produce" =>
                \/ t \in {"smoke", "compose"} /\ i = 3
                \/ t = "consume" /\ i = 1
                \/ t = "pipeline"
                \/ t = "subscribe" /\ i \in 4 .. PushN + 3 /\ s.msgs = {i - 3}
                \/ t = "subscribe" /\ i = PushN + 9 /\ s.msgs = {Retry}
<1>1. CASE t = "smoke"
  <2>1. i \in 1 .. 7
    BY <1>1, ShortScripts DEF Script
  <2> QED
    BY <1>1, <2>1, ShortScripts DEF Script, Do, Step
<1>2. CASE t = "compose"
  <2>1. i \in 1 .. 6
    BY <1>2, ShortScripts DEF Script
  <2> QED
    BY <1>2, <2>1, ShortScripts DEF Script, Do, Step
<1>3. CASE t = "consume"
  <2>1. i \in 1 .. 4
    BY <1>3, ShortScripts DEF Script
  <2> QED
    BY <1>3, <2>1, ShortScripts DEF Script, Do, Step
<1>4. CASE t = "pipeline"
  <2>1. i \in 1 .. SerialN + 7 /\ Script(t) = Pipelined /\ SerialN \in Nat
    BY <1>4, PipelinedSteps, SmokeAssumption DEF Script
  <2>2. CASE i \in 1 .. 2 \/ i \in SerialN + 3 .. SerialN + 7
    <3>1. \/ i = 1 \/ i = 2 \/ i = SerialN + 3 \/ i = SerialN + 4 \/ i = SerialN + 5
          \/ i = SerialN + 6 \/ i = SerialN + 7
      BY <2>1, <2>2
    <3>2. \/ Pipelined[i].kind \in {"setup", "produce", "malformed"}
          \/ Pipelined[i].kind = "produceMany" /\ i = SerialN + 3
          \/ Pipelined[i].kind = "repeat" /\ i = SerialN + 4
          \/ Pipelined[i].kind = "drain" /\ i = SerialN + 7
      BY <3>1, PipelinedSteps DEF Do, Step
    <3> QED
      BY <1>4, <2>1, <3>2
  <2>3. CASE i \in 3 .. SerialN + 2
    <3>1. i - 2 \in 1 .. SerialN /\ (i - 2) + 2 = i
      BY <2>1, <2>3
    <3>2. Pipelined[i] = Step("produce", {i - 2})
      BY <3>1, PipelinedSteps
    <3> QED
      BY <1>4, <2>1, <3>2 DEF Step
  <2> QED
    BY <2>1, <2>2, <2>3
<1>5. CASE t = "subscribe"
  <2>1. i \in 1 .. PushN + 11 /\ Script(t) = Subscribe /\ PushN \in Nat
    BY <1>5, SubscribeSteps, SmokeAssumption DEF Script
  <2>2. CASE i \in 1 .. 3 \/ i \in PushN + 4 .. PushN + 11
    <3>1. \/ i = 1 \/ i = 2 \/ i = 3 \/ i = PushN + 4 \/ i = PushN + 5 \/ i = PushN + 6
          \/ i = PushN + 7 \/ i = PushN + 8 \/ i = PushN + 9 \/ i = PushN + 10 \/ i = PushN + 11
      BY <2>1, <2>2
    <3>2. \/ Subscribe[i].kind \in {"setup", "subscribe", "unsubscribe", "await"}
          \/ Subscribe[i].kind = "pollAgain" /\ i = PushN + 6
          \/ Subscribe[i].kind = "produce" /\ Subscribe[i].msgs = {Retry} /\ i = PushN + 9
      <4>1. \/ Subscribe[i] \in {Do("setup"), Do("unsubscribe")}
            \/ \E S : Subscribe[i] \in {Step("subscribe", S), Step("await", S)}
            \/ Subscribe[i] = Do("pollAgain") /\ i = PushN + 6
            \/ Subscribe[i] = Step("produce", {Retry}) /\ i = PushN + 9
        BY <3>1, SubscribeSteps
      <4> QED
        BY <4>1 DEF Do, Step
    <3> QED
      BY <1>5, <2>1, <3>2
  <2>3. CASE i \in 4 .. PushN + 3
    <3>1. i - 3 \in 1 .. PushN /\ (i - 3) + 3 = i
      BY <2>1, <2>3
    <3>2. Subscribe[i] = Step("produce", {i - 3})
      BY <3>1, SubscribeSteps
    <3> QED
      BY <1>5, <2>1, <2>3, <3>2 DEF Step
  <2> QED
    BY <2>1, <2>2, <2>3
<1> QED
  BY <1>1, <1>2, <1>3, <1>4, <1>5 DEF Tests, OwnDaemon

(* No script polls twice for what it takes, or twice for what is left, or  *)
(* produces a message in two steps.                                        *)
LEMMA ScriptOnce ==
    ASSUME NEW t \in Tests, NEW i \in 1 .. Len(Script(t)), NEW j \in 1 .. Len(Script(t)), i # j
    PROVE  LET s == Script(t)[i]
               u == Script(t)[j]
           IN  /\ ~(s.kind \in {"poll", "drain"} /\ u.kind \in {"poll", "drain"})
               /\ ~(s.kind = "pollAgain" /\ u.kind = "pollAgain")
               /\ ~(s.kind = "ackFirst" /\ u.kind = "ackFirst")
               /\ t # "pipeline" /\ s.kind = "produce" /\ u.kind = "produce" => s.msgs \cap u.msgs = {}
<1> DEFINE s == Script(t)[i]
           u == Script(t)[j]
<1>0. PushN \in Nat /\ SerialN \in Nat /\ i \in Int /\ j \in Int
  BY SmokeAssumption
<1>1. ~(s.kind \in {"poll", "drain"} /\ u.kind \in {"poll", "drain"})
  <2>1. /\ s.kind = "poll" => (t \in {"smoke", "compose"} /\ i = 4) \/ (t = "consume" /\ i = 2)
        /\ s.kind = "drain" => t = "pipeline" /\ i = SerialN + 7
    BY ScriptPlaces
  <2>2. /\ u.kind = "poll" => (t \in {"smoke", "compose"} /\ j = 4) \/ (t = "consume" /\ j = 2)
        /\ u.kind = "drain" => t = "pipeline" /\ j = SerialN + 7
    BY ScriptPlaces
  <2> HIDE DEF s, u
  <2> QED
    BY <2>1, <2>2
<1>2. ~(s.kind = "pollAgain" /\ u.kind = "pollAgain")
  <2>1. s.kind = "pollAgain" => (t = "smoke" /\ i = 6) \/ (t = "subscribe" /\ i = PushN + 6)
    BY ScriptPlaces
  <2>2. u.kind = "pollAgain" => (t = "smoke" /\ j = 6) \/ (t = "subscribe" /\ j = PushN + 6)
    BY ScriptPlaces
  <2> HIDE DEF s, u
  <2> QED
    BY <2>1, <2>2
<1>3. ~(s.kind = "ackFirst" /\ u.kind = "ackFirst")
  <2>1. s.kind = "ackFirst" => i = 5
    BY ScriptPlaces
  <2>2. u.kind = "ackFirst" => j = 5
    BY ScriptPlaces
  <2> QED
    BY <2>1, <2>2
<1>4. t # "pipeline" /\ s.kind = "produce" /\ u.kind = "produce" => s.msgs \cap u.msgs = {}
  <2>1. s.kind = "produce" =>
                \/ t \in {"smoke", "compose"} /\ i = 3
                \/ t = "consume" /\ i = 1
                \/ t = "pipeline"
                \/ t = "subscribe" /\ i \in 4 .. PushN + 3 /\ s.msgs = {i - 3}
                \/ t = "subscribe" /\ i = PushN + 9 /\ s.msgs = {Retry}
    BY ScriptPlaces
  <2>2. u.kind = "produce" =>
                \/ t \in {"smoke", "compose"} /\ j = 3
                \/ t = "consume" /\ j = 1
                \/ t = "pipeline"
                \/ t = "subscribe" /\ j \in 4 .. PushN + 3 /\ u.msgs = {j - 3}
                \/ t = "subscribe" /\ j = PushN + 9 /\ u.msgs = {Retry}
    BY ScriptPlaces
  <2> HIDE DEF s, u
  <2> QED
    BY <1>0, <2>1, <2>2 DEF Retry
<1> QED
  BY <1>1, <1>2, <1>3, <1>4

(* What a step needs has been done in a step before it.                    *)
LEMMA ScriptOrder ==
    ASSUME NEW t \in Tests, NEW i \in 1 .. Len(Script(t))
    PROVE  LET s == Script(t)[i]
               Before(kind) == \E j \in 1 .. i - 1 : Script(t)[j].kind = kind
           IN  /\ s.kind = "poll" =>
                    \E j \in 1 .. i - 1 : Script(t)[j].kind = "produce" /\ 1 \in Script(t)[j].msgs
               /\ s.kind \in {"ackFirst", "ackEach"} => Before("poll")
               /\ s.kind = "pollAgain" =>
                    \/ t = "smoke" /\ Before("ackFirst")
                    \/ t = "subscribe"
                         /\ \E j \in 1 .. i - 1 : Script(t)[j].kind = "await" /\ Script(t)[j].msgs = Pushed
               /\ s.kind = "drain" => i = Len(Script(t))
               /\ s.kind = "repeat" =>
                    \E j \in 1 .. i - 1 :
                        Script(t)[j].kind = "produceMany" /\ s.msgs \subseteq Script(t)[j].msgs
<1> DEFINE s == Script(t)[i]
<1>0. PushN \in Nat /\ SerialN \in Nat /\ BulkN \in Nat /\ BulkN > 0 /\ SerialN > 0
  BY SmokeAssumption
<1>1. s.kind = "poll" => \E j \in 1 .. i - 1 : Script(t)[j].kind = "produce" /\ 1 \in Script(t)[j].msgs
  <2>1. s.kind = "poll" => (t \in {"smoke", "compose"} /\ i = 4) \/ (t = "consume" /\ i = 2)
    BY ScriptPlaces
  <2>2. CASE t \in {"smoke", "compose"} /\ i = 4
    <3>1. 3 \in 1 .. i - 1 /\ Script(t)[3] = Step("produce", {1})
      BY <2>2, ShortScripts DEF Script
    <3> QED
      BY <3>1 DEF Step
  <2>3. CASE t = "consume" /\ i = 2
    <3>1. 1 \in 1 .. i - 1 /\ Script(t)[1] = Step("produce", {1})
      BY <2>3, ShortScripts DEF Script
    <3> QED
      BY <3>1 DEF Step
  <2> QED
    BY <2>1, <2>2, <2>3
<1>2. s.kind \in {"ackFirst", "ackEach"} => \E j \in 1 .. i - 1 : Script(t)[j].kind = "poll"
  <2>1. /\ s.kind = "ackFirst" => t \in {"smoke", "compose"} /\ i = 5
        /\ s.kind = "ackEach" => t = "consume" /\ i = 3
    BY ScriptPlaces
  <2>2. CASE t \in {"smoke", "compose"} /\ i = 5
    <3>1. 4 \in 1 .. i - 1 /\ Script(t)[4] = Do("poll")
      BY <2>2, ShortScripts DEF Script
    <3> QED
      BY <3>1 DEF Do, Step
  <2>3. CASE t = "consume" /\ i = 3
    <3>1. 2 \in 1 .. i - 1 /\ Script(t)[2] = Do("poll")
      BY <2>3, ShortScripts DEF Script
    <3> QED
      BY <3>1 DEF Do, Step
  <2> QED
    BY <2>1, <2>2, <2>3
<1>3. s.kind = "pollAgain" =>
        \/ t = "smoke" /\ \E j \in 1 .. i - 1 : Script(t)[j].kind = "ackFirst"
        \/ t = "subscribe"
             /\ \E j \in 1 .. i - 1 : Script(t)[j].kind = "await" /\ Script(t)[j].msgs = Pushed
  <2>1. s.kind = "pollAgain" => (t = "smoke" /\ i = 6) \/ (t = "subscribe" /\ i = PushN + 6)
    BY ScriptPlaces
  <2>2. CASE t = "smoke" /\ i = 6
    <3>1. 5 \in 1 .. i - 1 /\ Script(t)[5] = Do("ackFirst")
      BY <2>2, ShortScripts DEF Script
    <3> QED
      BY <2>2, <3>1 DEF Do, Step
  <2>3. CASE t = "subscribe" /\ i = PushN + 6
    <3>1. PushN + 4 \in 1 .. i - 1
      BY <1>0, <2>3
    <3>2. Script(t)[PushN + 4] = Step("await", Pushed)
      BY <2>3, SubscribeSteps DEF Script
    <3> QED
      BY <2>3, <3>1, <3>2 DEF Step
  <2> QED
    BY <2>1, <2>2, <2>3
<1>4. s.kind = "drain" => i = Len(Script(t))
  <2>1. s.kind = "drain" => t = "pipeline" /\ i = SerialN + 7
    BY ScriptPlaces
  <2> QED
    BY <2>1, PipelinedSteps DEF Script
<1>5. s.kind = "repeat" =>
        \E j \in 1 .. i - 1 :
                        Script(t)[j].kind = "produceMany" /\ s.msgs \subseteq Script(t)[j].msgs
  <2>1. SUFFICES ASSUME s.kind = "repeat"
                 PROVE  \E j \in 1 .. i - 1 :
                          Script(t)[j].kind = "produceMany" /\ s.msgs \subseteq Script(t)[j].msgs
    OBVIOUS
  <2>2. t = "pipeline" /\ i = SerialN + 4
    BY <2>1, ScriptPlaces
  <2>3. SerialN + 3 \in 1 .. i - 1
    BY <1>0, <2>2
  <2>4. Script(t)[SerialN + 3] = Step("produceMany", Bulk) /\ s = Step("repeat", {SerialN + BulkN})
    BY <2>2, PipelinedSteps DEF Script
  <2>5. SerialN + BulkN \in Bulk
    BY <1>0 DEF Bulk
  <2> HIDE DEF s
  <2> QED
    BY <2>3, <2>4, <2>5 DEF Step
<1> QED
  BY <1>1, <1>2, <1>3, <1>4, <1>5

(* What every test has done when it concludes.                             *)
LEMMA ScriptEnds ==
    LET Has(t, kind) == \E i \in 1 .. Len(Script(t)) : Script(t)[i].kind = kind IN
    /\ \A t \in {"smoke", "compose"} : Has(t, "poll") /\ Has(t, "ackFirst") /\ Has(t, "stats")
    /\ Has("smoke", "pollAgain")
    /\ \E i \in 1 .. Len(Consume) - 1 : Consume[i].kind = "ackEach"
    /\ \A m \in Produced("pipeline") : \E i \in 1 .. Len(Pipelined) :
         Pipelined[i].kind \in {"produce", "produceMany"} /\ m \in Pipelined[i].msgs
    /\ Has("pipeline", "repeat") /\ Has("pipeline", "malformed")
    /\ Pipelined[Len(Pipelined)].kind = "drain"
    /\ \A m \in Produced("subscribe") : \E i \in 1 .. Len(Subscribe) - 1 :
         Subscribe[i].kind = "await" /\ m \in Subscribe[i].msgs
<1>0. PushN \in Nat /\ SerialN \in Nat /\ BulkN \in Nat
  BY SmokeAssumption
<1>1. \A t \in {"smoke", "compose"} :
        /\ \E i \in 1 .. Len(Script(t)) : Script(t)[i].kind = "poll"
        /\ \E i \in 1 .. Len(Script(t)) : Script(t)[i].kind = "ackFirst"
        /\ \E i \in 1 .. Len(Script(t)) : Script(t)[i].kind = "stats"
  <2> SUFFICES ASSUME NEW t \in {"smoke", "compose"}
               PROVE  /\ \E i \in 1 .. Len(Script(t)) : Script(t)[i].kind = "poll"
                      /\ \E i \in 1 .. Len(Script(t)) : Script(t)[i].kind = "ackFirst"
                      /\ \E i \in 1 .. Len(Script(t)) : Script(t)[i].kind = "stats"
    OBVIOUS
  <2>1. /\ 4 \in 1 .. Len(Script(t)) /\ 5 \in 1 .. Len(Script(t))
        /\ Len(Script(t)) \in 1 .. Len(Script(t))
        /\ Script(t)[4] = Do("poll") /\ Script(t)[5] = Do("ackFirst")
        /\ Script(t)[Len(Script(t))] = Do("stats")
    <3>1. CASE t = "smoke"
      <4>1. Script(t) = Smoke /\ Len(Smoke) = 7
        BY <3>1, ShortScripts DEF Script
      <4> QED
        BY <4>1, ShortScripts
    <3>2. CASE t = "compose"
      <4>1. Script(t) = Compose /\ Len(Compose) = 6
        BY <3>2, ShortScripts DEF Script
      <4> QED
        BY <4>1, ShortScripts
    <3> QED
      BY <3>1, <3>2
  <2> QED
    BY <2>1 DEF Do, Step
<1>2. \E i \in 1 .. Len(Script("smoke")) : Script("smoke")[i].kind = "pollAgain"
  <2>1. 6 \in 1 .. Len(Script("smoke")) /\ Script("smoke")[6] = Do("pollAgain")
    <3>1. Script("smoke") = Smoke /\ Len(Smoke) = 7
      BY ShortScripts DEF Script
    <3> QED
      BY <3>1, ShortScripts
  <2> QED
    BY <2>1 DEF Do, Step
<1>3. \E i \in 1 .. Len(Consume) - 1 : Consume[i].kind = "ackEach"
  <2>1. 3 \in 1 .. Len(Consume) - 1 /\ Consume[3] = Do("ackEach")
    BY ShortScripts
  <2> QED
    BY <2>1 DEF Do, Step
<1>4. \A m \in Produced("pipeline") : \E i \in 1 .. Len(Pipelined) :
         Pipelined[i].kind \in {"produce", "produceMany"} /\ m \in Pipelined[i].msgs
  <2> SUFFICES ASSUME NEW m \in Produced("pipeline")
               PROVE  \E i \in 1 .. Len(Pipelined) :
                        Pipelined[i].kind \in {"produce", "produceMany"} /\ m \in Pipelined[i].msgs
    OBVIOUS
  <2>1. CASE m \in 1 .. SerialN
    <3>1. m + 2 \in 1 .. Len(Pipelined) /\ Pipelined[m + 2] = Step("produce", {m})
      BY <1>0, <2>1, PipelinedSteps
    <3> QED
      BY <3>1 DEF Step
  <2>2. CASE m \in Bulk
    <3>1. SerialN + 3 \in 1 .. Len(Pipelined) /\ Pipelined[SerialN + 3] = Step("produceMany", Bulk)
      BY <1>0, PipelinedSteps
    <3> QED
      BY <2>2, <3>1 DEF Step
  <2>3. CASE m \in Burst
    <3>1. SerialN + 5 \in 1 .. Len(Pipelined) /\ Pipelined[SerialN + 5] = Step("produce", Burst)
      BY <1>0, PipelinedSteps
    <3> QED
      BY <2>3, <3>1 DEF Step
  <2> QED
    BY <2>1, <2>2, <2>3 DEF Produced
<1>5. /\ \E i \in 1 .. Len(Script("pipeline")) : Script("pipeline")[i].kind = "repeat"
      /\ \E i \in 1 .. Len(Script("pipeline")) : Script("pipeline")[i].kind = "malformed"
      /\ Pipelined[Len(Pipelined)].kind = "drain"
  <2>1. /\ Script("pipeline") = Pipelined /\ SerialN + 4 \in 1 .. Len(Pipelined)
        /\ SerialN + 6 \in 1 .. Len(Pipelined) /\ Len(Pipelined) = SerialN + 7
    BY <1>0, PipelinedSteps DEF Script
  <2>2. /\ Pipelined[SerialN + 4] = Step("repeat", {SerialN + BulkN})
        /\ Pipelined[SerialN + 6] = Do("malformed") /\ Pipelined[SerialN + 7] = Do("drain")
    BY PipelinedSteps
  <2> QED
    BY <2>1, <2>2 DEF Do, Step
<1>6. \A m \in Produced("subscribe") : \E i \in 1 .. Len(Subscribe) - 1 :
         Subscribe[i].kind = "await" /\ m \in Subscribe[i].msgs
  <2>1. /\ PushN + 4 \in 1 .. Len(Subscribe) - 1 /\ PushN + 10 \in 1 .. Len(Subscribe) - 1
    BY <1>0, SubscribeSteps
  <2>2. /\ Subscribe[PushN + 4] = Step("await", Pushed)
        /\ Subscribe[PushN + 10] = Step("await", {Retry})
    BY SubscribeSteps
  <2> QED
    BY <2>1, <2>2 DEF Step, Produced
<1> QED
  BY <1>1, <1>2, <1>3, <1>4, <1>5, <1>6

-----------------------------------------------------------------------------
(* The steps of a test, and the calls they make.                           *)

(* The test has not come to its verdict; a step of its script is done.     *)
Live == pc \in {"start", "run"}
KindAt(i) == Script(test)[i].kind
Done(i) == i < at \/ (i = at /\ calls = {})

(* The calls the test waits for are those of its step, each of them once.  *)
KindInv ==
    \A c \in calls :
        /\ c.kind \in {"setup", "stats"} => Kind = c.kind
        /\ c.kind = "poll" => Kind \in {"poll", "pollAgain", "drain"} /\ calls = {c}
        /\ c.kind = "produce" =>
             /\ Kind \in {"produce", "produceMany", "repeat"} /\ c.msg \in Script(test)[at].msgs
             /\ \A e \in calls : e.kind = "produce" /\ e.msg = c.msg => e = c
        /\ c.kind = "ack" =>
             /\ Kind \in {"ackFirst", "ackEach", "drain"} /\ c.delivery \in msgs
             /\ \A e \in calls : e.kind = "ack" /\ e.delivery = c.delivery => e = c

(* A step of the test that says nothing to and hears nothing of the broker. *)
Idle ==
    /\ UNCHANGED <<test, at, toldVars, pushVars, wire, brokerVars>>
    /\ calls' \subseteq calls /\ (Live' => Live /\ calls' = calls)

(* A call is repeated, or sent for the first time to the daemon.           *)
Again(c) ==
    /\ UNCHANGED <<test, testVars, toldVars, pushVars, brokerVars>>
    /\ \E n : wire' = wire \cup {[call |-> c, copy |-> n]}
    /\ faults' = faults => Copies(c) = {}

(* allSettled of the bulk: a call fails, and the others go on.             *)
GivenUp(c) ==
    /\ Kind = "produceMany" /\ calls' = calls \ {c}
    /\ UNCHANGED <<test, pc, at, ok, made, toldVars, pushVars, wire, brokerVars>>
    /\ faults' = faults => Copies(c) = {} \/ ~Listening

(* A step of the test that makes the calls S.                              *)
Asked(S) ==
    /\ Running /\ Make(S)
    /\ at' \in {at, at + 1} /\ at' \in 1 .. Len(Script(test))
    /\ UNCHANGED <<test, pc, toldVars, pushVars, brokerVars>>

(* Starting, concluding and stopping leave the broker and its calls alone. *)
LEMMA IdleStep ==
    ASSUME IInv, DaemonSteps \/ Starts \/ NothingToAck \/ Concludes \/ StopsDaemon \/ Exits \/ UNCHANGED vars
    PROVE  Idle
<1>1. CASE DaemonSteps \/ StopsDaemon \/ UNCHANGED vars
  BY <1>1 DEF DaemonSteps, Others, StopsDaemon, vars, testVars, Idle, Live
<1>2. CASE Starts \/ NothingToAck \/ Concludes
  BY <1>2 DEF Starts, NothingToAck, Concludes, Throws, Running, Idle, Live
<1>3. CASE Exits
  BY <1>3 DEF Exits, Idle, Live
<1> QED
  BY <1>1, <1>2, <1>3

(* A step makes no trouble, or one more.                                   *)
LEMMA FaultsGrow ==
    ASSUME IInv, [Next]_vars
    PROVE  /\ faults' = faults \/ faults' = faults + 1
           /\ faults \in Nat /\ faults' \in Nat
<1>1. faults' = faults \/ \E kind : Trouble(kind)
  <2>1. CASE DaemonSteps
    BY <2>1 DEF DaemonSteps, DaemonNext, Waits, SpawnFails, TestDeadline, TryConnect, WakeUp,
               StopAfterFailure, DeadlinePasses, ExitEvent, Boots, Killed, Dies
  <2>2. CASE TestSteps
    BY <2>2 DEF TestSteps, Starts, Begins, NothingToAck, Repeats, Concludes, StopsDaemon, Exits, Patience
  <2>3. CASE \E w \in wire : Arrives(w)
    BY <2>3 DEF Arrives, ProduceArrives, PollArrives, AckArrives, SetupArrives, StatsArrive,
                Heard, Unheard
  <2>4. CASE \E o \in DOMAIN log : Pushes(o) \/ Expires(o)
    BY <2>4 DEF Pushes, Expires
  <2>5. CASE \E d \in inbox : Handles(d)
    BY <2>5 DEF Handles
  <2>6. CASE \E c \in calls : TimesOut(c)
    BY <2>6 DEF TimesOut
  <2>7. CASE UNCHANGED vars
    BY <2>7 DEF vars
  <2> QED
    BY <2>1, <2>2, <2>3, <2>4, <2>5, <2>6, <2>7 DEF Next, Broker, Finished
<1>2. faults' = faults \/ faults' = faults + 1
  BY <1>1 DEF Trouble
<1> QED
  BY <1>2, DaemonAssumption DEF IInv, DaemonInv, DaemonTypeOK

(* A deadline of the client repeats the call, gives it up or ends the      *)
(* test.                                                                   *)
LEMMA TimesOutCases ==
    ASSUME IInv, NEW c \in calls, TimesOut(c)
    PROVE  Idle \/ Again(c) \/ GivenUp(c)
<1>1. UNCHANGED <<test, toldVars, pushVars, brokerVars>>
  BY DEF TimesOut
<1>2. CASE /\ Copies(c) = {} \/ Listening
           /\ wire' = wire \cup {[call |-> c, copy |-> Min(0 .. MaxFaults \ Copies(c))]}
           /\ UNCHANGED testVars
  <2>1. faults' = faults => Copies(c) = {}
    <3>1. ~ \E kind : Trouble(kind) /\ faults' = faults
      BY DaemonAssumption DEF Trouble, IInv, DaemonInv, DaemonTypeOK
    <3> QED
      BY <1>2, <3>1 DEF TimesOut
  <2>2. \E n : wire' = wire \cup {[call |-> c, copy |-> n]}
    BY <1>2
  <2> QED
    BY <1>1, <1>2, <2>1, <2>2 DEF Again
<1>3. CASE Rejects(c) /\ UNCHANGED wire
  <2>1. faults' = faults => Copies(c) = {} \/ ~Listening
    <3>1. ~ \E kind : Trouble(kind) /\ faults' = faults
      BY DaemonAssumption DEF Trouble, IInv, DaemonInv, DaemonTypeOK
    <3> QED
      BY <3>1 DEF TimesOut
  <2> QED
    BY <1>1, <1>3, <2>1 DEF Rejects, Throws, GivenUp, Idle, Live
<1> QED
  BY <1>2, <1>3 DEF TimesOut

(* Every step but those that call, and the local ones.                     *)
LEMMA WaitsStep ==
    ASSUME IInv, KindInv,
           \/ Idle
           \/ \E c \in calls : Again(c) \/ GivenUp(c)
           \/ \E w \in wire : Arrives(w)
           \/ \E o \in DOMAIN log : Pushes(o) \/ Expires(o)
           \/ \E d \in inbox : Handles(d)
    PROVE  /\ UNCHANGED <<test, at>> /\ calls' \subseteq calls /\ (Live' => Live)
           /\ Kind' = Kind
           /\ msgs' = msgs \/ calls' = {}
           /\ KindInv'
<1>1. UNCHANGED <<test, at>> /\ calls' \subseteq calls /\ (Live' => Live)
  <2>1. CASE Idle \/ \E c \in calls : Again(c) \/ GivenUp(c)
    BY <2>1 DEF Idle, Again, GivenUp, testVars, Live
  <2>2. CASE \E w \in wire : Arrives(w)
    BY <2>2 DEF Arrives, ProduceArrives, PollArrives, AckArrives, SetupArrives, StatsArrive,
         Heard, Unheard, Throws, testVars, Live
  <2>3. CASE \/ \E o \in DOMAIN log : Pushes(o) \/ Expires(o)
             \/ \E d \in inbox : Handles(d)
    BY <2>3 DEF Pushes, Expires, Handles, testVars, Live
  <2> QED
    BY <2>1, <2>2, <2>3
<1>2. msgs' = msgs \/ calls' = {}
  <2>1. CASE Idle \/ \E c \in calls : Again(c) \/ GivenUp(c)
    BY <2>1 DEF Idle, Again, GivenUp, toldVars
  <2>2. CASE \E w \in wire : Arrives(w)
    <3>1. PICK w \in wire : Arrives(w)
      BY <2>2
    <3>2. CASE PollArrives(w)
      <4>1. msgs' = msgs \/ Heard(w)
        BY <3>2 DEF PollArrives, Unheard, toldVars
      <4>2. Heard(w) => calls' = {}
        BY <3>2 DEF Heard, PollArrives, KindInv
      <4> QED
        BY <4>1, <4>2
    <3>3. CASE ProduceArrives(w) \/ AckArrives(w) \/ SetupArrives(w) \/ StatsArrive(w)
      BY <3>3 DEF ProduceArrives, ToldOffset, AckArrives, SetupArrives, StatsArrive, Unheard, toldVars
    <3> QED
      BY <3>1, <3>2, <3>3 DEF Arrives
  <2>3. CASE \/ \E o \in DOMAIN log : Pushes(o) \/ Expires(o)
             \/ \E d \in inbox : Handles(d)
    BY <2>3 DEF Pushes, Expires, Handles, toldVars
  <2> QED
    BY <2>1, <2>2, <2>3
<1>3. Kind' = Kind
  BY <1>1 DEF Kind
<1>4. KindInv'
  <2> SUFFICES ASSUME NEW c \in calls'
               PROVE  /\ c.kind \in {"setup", "stats"} => Kind' = c.kind
                      /\ c.kind = "poll" => Kind' \in {"poll", "pollAgain", "drain"} /\ calls' = {c}
                      /\ c.kind = "produce" =>
                           /\ Kind' \in {"produce", "produceMany", "repeat"}
                           /\ c.msg \in Script(test')[at'].msgs
                           /\ \A e \in calls' : e.kind = "produce" /\ e.msg = c.msg => e = c
                      /\ c.kind = "ack" =>
                           /\ Kind' \in {"ackFirst", "ackEach", "drain"} /\ c.delivery \in msgs'
                           /\ \A e \in calls' : e.kind = "ack" /\ e.delivery = c.delivery => e = c
    BY DEF KindInv
  <2>1. c \in calls /\ msgs' = msgs
    BY <1>1, <1>2
  <2> QED
    BY <1>1, <1>3, <2>1 DEF KindInv
<1> QED
  BY <1>1, <1>2, <1>3, <1>4

(* No step of a script produces nothing.                                   *)
LEMMA ScriptProduces ==
    ASSUME NEW t \in Tests, NEW i \in 1 .. Len(Script(t)),
           Script(t)[i].kind \in {"produce", "produceMany", "repeat"}
    PROVE  Script(t)[i].msgs # {}
<1> DEFINE s == Script(t)[i]
<1>0. /\ PushN \in Nat /\ SerialN \in Nat /\ BulkN \in Nat /\ BurstN \in Nat
      /\ BulkN > 0 /\ BurstN > 0
  BY SmokeAssumption
<1>1. CASE t \in {"smoke", "compose"}
  <2>1. i = 3
    BY <1>1, ScriptPlaces
  <2>2. s = Step("produce", {1})
    BY <1>1, <2>1, ShortScripts DEF Script
  <2> QED
    BY <2>2 DEF Step
<1>2. CASE t = "consume"
  <2>1. i = 1
    BY <1>2, ScriptPlaces
  <2>2. s = Step("produce", {1})
    BY <1>2, <2>1, ShortScripts DEF Script
  <2> QED
    BY <2>2 DEF Step
<1>3. CASE t = "pipeline"
  <2>1. Script(t) = Pipelined /\ i \in 1 .. SerialN + 7
    BY <1>3, PipelinedSteps DEF Script
  <2>2. SerialN + 1 \in Bulk /\ SerialN + BulkN + 1 \in Burst
    BY <1>0 DEF Bulk, Burst
  <2>3. \/ i = 1 \/ i = 2 \/ (i - 2 \in 1 .. SerialN /\ i = (i - 2) + 2)
        \/ i = SerialN + 3 \/ i = SerialN + 4 \/ i = SerialN + 5
        \/ i = SerialN + 6 \/ i = SerialN + 7
    BY <1>0, <2>1
  <2>4. \/ s \in {Do("setup"), Do("malformed"), Do("drain")}
        \/ \E m : s = Step("produce", {m})
        \/ s = Step("produceMany", Bulk) \/ s = Step("produce", Burst)
        \/ \E m : s = Step("repeat", {m})
    BY <2>1, <2>3, PipelinedSteps
  <2> HIDE DEF s
  <2>5. s.kind \in {"produce", "produceMany", "repeat"}
    BY DEF s
  <2>6. s.msgs # {}
    <3>1. s \notin {Do("setup"), Do("malformed"), Do("drain")}
      BY <2>5 DEF Do, Step
    <3>0. \A kind, M : Step(kind, M).msgs = M
      BY DEF Step
    <3>2. \/ \E m : s.msgs = {m}
          \/ s.msgs = Bulk \/ s.msgs = Burst
      <4>1. CASE \E m : s = Step("produce", {m}) \/ s = Step("repeat", {m})
        <5>1. PICK m : s = Step("produce", {m}) \/ s = Step("repeat", {m})
          BY <4>1
        <5>2. s.msgs = {m}
          BY <3>0, <5>1
        <5> QED
          BY <5>2
      <4>2. CASE s = Step("produceMany", Bulk) \/ s = Step("produce", Burst)
        BY <3>0, <4>2
      <4> QED
        BY <2>4, <3>1, <4>1, <4>2
    <3> QED
      BY <2>2, <3>2
  <2> QED
    BY <2>6 DEF s
<1>4. CASE t = "subscribe"
  <2>1. \/ i \in 4 .. PushN + 3 /\ s.msgs = {i - 3}
        \/ i = PushN + 9 /\ s.msgs = {Retry}
    BY <1>4, ScriptPlaces
  <2> QED
    BY <2>1
<1> QED
  BY <1>1, <1>2, <1>3, <1>4 DEF Tests, OwnDaemon

(* A step of the system is one of these; the lemmas below go through them. *)
LEMMA StepCases ==
    ASSUME IInv, [Next]_vars
    PROVE  \/ Idle
           \/ \E c \in calls : Again(c) \/ GivenUp(c)
           \/ \E w \in wire : Arrives(w)
           \/ \E o \in DOMAIN log : Pushes(o) \/ Expires(o)
           \/ \E d \in inbox : Handles(d)
           \/ Repeats
           \/ Begins
<1>1. CASE DaemonSteps \/ Starts \/ NothingToAck \/ Concludes \/ StopsDaemon \/ Exits \/ UNCHANGED vars
  BY <1>1, IdleStep
<1>2. CASE \E c \in calls : TimesOut(c)
  BY <1>2, TimesOutCases
<1>3. CASE Broker
  BY <1>3 DEF Broker
<1> QED
  BY <1>1, <1>2, <1>3 DEF Next, TestSteps, Finished

(* The calls a step makes.                                                 *)
Fitting(S) ==
    /\ S # {}
    /\ \A c \in S :
         /\ c.kind = "poll" =>
              S = {c} /\ (at' = at + 1 \/ (at' = at /\ Kind = "drain" /\ todo = {}))
         /\ c.kind = "produce" => at' = at + 1
         /\ c.kind = "ack" =>
              \/ at' = at + 1 /\ Kind' = "ackFirst" /\ c.delivery \in msgs
              \/ at' = at /\ c.delivery \in todo
    /\ Kind' \in {"produce", "produceMany", "repeat"} =>
         /\ at' = at + 1
         /\ \A m \in Script(test)[at'].msgs : \E c \in S : c.kind = "produce" /\ c.msg = m

(* A step that calls the daemon makes the calls of its place in the        *)
(* script.                                                                 *)
LEMMA AskedStep ==
    ASSUME IInv, Repeats \/ (Begins /\ Asks(Script(test)[at + 1]))
    PROVE  \E S : Asked(S) /\ Fitting(S) /\ KindInv'
<1>1. /\ UNCHANGED <<test, pc, toldVars, pushVars, brokerVars>> /\ Running
      /\ test \in Tests /\ at \in Nat /\ Len(Script(test)) \in Nat /\ at <= Len(Script(test))
  BY ScriptType DEF Repeats, Begins, Asks, IInv, TestInv
<1>2. /\ \A kind : Ask(kind).kind = kind
      /\ \A d : Ack(d).kind = "ack" /\ Ack(d).delivery = d
      /\ \A m : Call("produce", m, NoDelivery).kind = "produce" /\ Call("produce", m, NoDelivery).msg = m
  BY DEF Ask, Ack, Call
<1>3. CASE Repeats
  <2>1. at' = at /\ Kind' = Kind /\ Kind \in {"ackEach", "drain"} /\ at # 0
    BY <1>3 DEF Repeats, Kind
  <2>2. PICK S : /\ Make(S)
                 /\ \/ \E d \in todo : S = {Ack(d)}
                    \/ Kind = "drain" /\ todo # {} /\ S = {Ack(d) : d \in todo}
                    \/ Kind = "drain" /\ todo = {} /\ S = {Ask("poll")}
    BY <1>3 DEF Repeats
  <2>3. Asked(S)
    BY <1>1, <2>1, <2>2 DEF Asked
  <2>4. Fitting(S)
    <3>1. S # {}
      BY <2>2
    <3>2. \A c \in S : \/ c.kind = "poll" /\ S = {c} /\ Kind = "drain" /\ todo = {}
                       \/ c.kind = "ack" /\ c.delivery \in todo
      BY <1>2, <2>2
    <3>3. Kind' \notin {"produce", "produceMany", "repeat"}
      BY <2>1
    <3> QED
      BY <2>1, <3>1, <3>2, <3>3 DEF Fitting
  <2>5. KindInv'
    <3>1. calls' = S /\ msgs' = msgs /\ todo \subseteq msgs
      BY <1>1, <2>2 DEF Make, toldVars, IInv, DeliveredInv
    <3>2. CASE Kind = "drain" /\ S = {Ask("poll")}
      BY <1>2, <2>1, <3>1, <3>2 DEF KindInv
    <3>3. CASE S \subseteq {Ack(d) : d \in todo}
      <4> SUFFICES ASSUME NEW c \in S
                   PROVE  c.kind = "ack" /\ c.delivery \in msgs
                          /\ \A e \in S : e.kind = "ack" /\ e.delivery = c.delivery => e = c
        BY <2>1, <3>1 DEF KindInv
      <4>1. \A e \in S : e = Ack(e.delivery) /\ e.delivery \in todo
        BY <1>2, <3>3
      <4> QED
        BY <1>2, <3>1, <4>1
    <3> QED
      BY <2>2, <3>2, <3>3
  <2> QED
    BY <2>3, <2>4, <2>5
<1>4. CASE Begins /\ Asks(Script(test)[at + 1])
  <2> DEFINE s == Script(test)[at + 1]
  <2>1. at' = at + 1 /\ at' \in 1 .. Len(Script(test)) /\ Kind' = s.kind /\ Script(test')[at'] = s
    BY <1>1, <1>4 DEF Begins, Kind
  <2>2. s.kind \in {"produce", "produceMany", "repeat"} => s.msgs # {}
    BY <1>1, <2>1, ScriptProduces
  <2>3. Asks(s)
    BY <1>4
  <2> HIDE DEF s
  <2>4. PICK S : /\ Make(S)
                 /\ \/ s.kind \in {"setup", "stats"} /\ S = {Ask(s.kind)}
                    \/ s.kind \in {"poll", "pollAgain", "drain"} /\ S = {Ask("poll")}
                    \/ s.kind \in {"produce", "produceMany", "repeat"}
                         /\ S = {Call("produce", m, NoDelivery) : m \in s.msgs}
                    \/ s.kind = "ackFirst" /\ \E d \in msgs : S = {Ack(d)}
    BY <2>3 DEF Asks
  <2>5. Asked(S)
    BY <1>1, <2>1, <2>4 DEF Asked
  <2>6. calls' = S /\ msgs' = msgs
    BY <1>1, <2>4 DEF Make, toldVars
  <2>7. CASE s.kind \in {"setup", "stats"} /\ S = {Ask(s.kind)}
    <3>1. \A c \in S : c.kind = s.kind
      BY <1>2, <2>7
    <3>2. Fitting(S)
      BY <2>1, <2>7, <3>1 DEF Fitting
    <3>3. KindInv'
      BY <2>1, <2>6, <2>7, <3>1 DEF KindInv
    <3> QED
      BY <2>5, <3>2, <3>3
  <2>8. CASE s.kind \in {"poll", "pollAgain", "drain"} /\ S = {Ask("poll")}
    <3>1. \A c \in S : c.kind = "poll" /\ S = {c}
      BY <1>2, <2>8
    <3>2. Fitting(S)
      BY <2>1, <2>8, <3>1 DEF Fitting
    <3>3. KindInv'
      BY <2>1, <2>6, <2>8, <3>1 DEF KindInv
    <3> QED
      BY <2>5, <3>2, <3>3
  <2>9. CASE s.kind \in {"produce", "produceMany", "repeat"}
             /\ S = {Call("produce", m, NoDelivery) : m \in s.msgs}
    <3>1. \A c \in S : /\ c.kind = "produce" /\ c.msg \in s.msgs
                       /\ c = Call("produce", c.msg, NoDelivery)
      BY <1>2, <2>9
    <3>2. \A m \in s.msgs : \E c \in S : c.kind = "produce" /\ c.msg = m
      BY <1>2, <2>9
    <3>3. S # {}
      BY <2>2, <2>9
    <3>4. Script(test)[at'] = s
      BY <2>1 DEF s
    <3>5. Fitting(S)
      BY <2>1, <3>1, <3>2, <3>3, <3>4 DEF Fitting
    <3>6. KindInv'
      BY <2>1, <2>6, <2>9, <3>1 DEF KindInv
    <3> QED
      BY <2>5, <3>5, <3>6
  <2>10. CASE s.kind = "ackFirst" /\ \E d \in msgs : S = {Ack(d)}
    <3>1. PICK d \in msgs : S = {Ack(d)}
      BY <2>10
    <3>2. \A c \in S : c.kind = "ack" /\ c.delivery \in msgs
      BY <1>2, <3>1
    <3>3. Fitting(S)
      BY <2>1, <2>10, <3>1, <3>2 DEF Fitting
    <3>4. KindInv'
      BY <2>1, <2>6, <2>10, <3>1, <3>2 DEF KindInv
    <3> QED
      BY <2>5, <3>3, <3>4
  <2> QED
    BY <2>4, <2>7, <2>8, <2>9, <2>10
<1> QED
  BY <1>3, <1>4

(* A step of the test that makes no call.                                  *)
Locally ==
    /\ Running /\ at' = at + 1 /\ at' \in 1 .. Len(Script(test))
    /\ UNCHANGED <<test, pc, calls, wire, offset, msgs, todo, left, drained, repeated, leader,
                   received, failedOnce, brokerVars>>
    /\ Kind' \in {"malformed", "subscribe", "unsubscribe", "await", "ackEach"}
    /\ Kind' = "malformed" => rejected'
    /\ Kind' # "malformed" => rejected' = rejected
    /\ Kind' \notin {"subscribe", "unsubscribe"} => UNCHANGED <<topic, inbox>>
    /\ inbox' \subseteq inbox

(* A step that calls nobody moves the test on, and may empty its inbox.    *)
LEMMA LocalStep ==
    ASSUME IInv, Begins /\ Local(Script(test)[at + 1])
    PROVE  Locally /\ KindInv'
<1> DEFINE s == Script(test)[at + 1]
<1>1. /\ Running /\ at' = at + 1 /\ UNCHANGED <<test, pc, brokerVars>>
      /\ at \in Nat /\ Len(Script(test)) \in Nat /\ at < Len(Script(test))
  BY ScriptType DEF Begins, IInv, TestInv
<1>2. at' \in 1 .. Len(Script(test)) /\ Kind' = s.kind
  BY <1>1 DEF Kind
<1>3. Local(s)
  OBVIOUS
<1> HIDE DEF s
<1>4. Locally
  BY <1>1, <1>2, <1>3 DEF Local, Locally
<1>5. calls' = {}
  BY <1>1, <1>3 DEF Running, Local
<1> QED
  BY <1>4, <1>5 DEF KindInv

-----------------------------------------------------------------------------
(* What an arrival does to the broker, and what it tells the test.         *)

(* What an arrival tells, if anything.                                     *)
ToldNothing(w) ==
    UNCHANGED <<testVars, toldVars>> /\ (faults' = faults => w.call \notin calls)

(* An answer nobody waits for changes nothing of the test.                 *)
LEMMA UnheardStep ==
    ASSUME IInv, NEW w, Unheard(w)
    PROVE  ToldNothing(w)
<1>1. ~ \E kind : Trouble(kind) /\ faults' = faults
  BY DaemonAssumption DEF Trouble, IInv, DaemonInv, DaemonTypeOK
<1> QED
  BY <1>1 DEF Unheard, ToldNothing

(* The answer of a produce, with offset o.                                 *)
ProduceTold(w, o) ==
    /\ Heard(w)
    /\ UNCHANGED <<msgs, todo, left, drained, rejected, leader>>
    /\ Kind = "repeat" => offset' = offset /\ repeated' = (o = offset[w.call.msg])
    /\ Kind # "repeat" => offset' = [offset EXCEPT ![w.call.msg] = o] /\ repeated' = repeated

(* What a produce does to the log, and what its answer does to the test.   *)
LEMMA ProduceEffect ==
    ASSUME IInv, NEW w \in wire, ProduceArrives(w)
    PROVE  LET m == w.call.msg IN
           /\ m \in Produced(test) /\ m \in Nat
           /\ (Known(m) = {} /\ Appends(m)) \/ (Known(m) # {} /\ UNCHANGED brokerVars)
           /\ \/ ToldNothing(w)
              \/ \E o \in 1 .. Len(log') :
                   /\ log'[o] = m /\ (Known(m) = {} => o = Len(log) + 1)
                   /\ ProduceTold(w, o)
<1> DEFINE m == w.call.msg
           o == IF Known(m) = {} THEN Len(log) + 1 ELSE Min(Known(m))
<1>1. m \in Produced(test) /\ m \in Nat
  BY ProducedType DEF IInv, TestInv, CallsInv, ProduceArrives
<1>2. /\ (Known(m) = {} /\ Appends(m)) \/ (Known(m) # {} /\ UNCHANGED brokerVars)
      /\ (Heard(w) /\ ToldOffset(m, o)) \/ Unheard(w)
  BY DEF ProduceArrives
<1>3. Heard(w) /\ ToldOffset(m, o) => ProduceTold(w, o)
  BY DEF ToldOffset, ProduceTold
<1> HIDE DEF m, o
<1>4. o \in 1 .. Len(log') /\ log'[o] = m /\ (Known(m) = {} => o = Len(log) + 1)
  <2>1. Len(log) \in Nat /\ DOMAIN log = 1 .. Len(log)
    BY LogLength DEF IInv
  <2>2. CASE Known(m) = {}
    BY <1>1, <1>2, <2>1, <2>2, AppendsStep DEF IInv, o
  <2>3. CASE Known(m) # {}
    <3>1. Known(m) \in SUBSET Nat /\ log' = log
      BY <1>2, <2>1, <2>3 DEF brokerVars, Known
    <3>2. Min(Known(m)) \in Known(m)
      BY <2>3, <3>1, MinIsLeast
    <3> QED
      BY <2>1, <2>3, <3>1, <3>2 DEF o, Known
  <2> QED
    BY <2>2, <2>3
<1>5. ToldNothing(w) \/ ProduceTold(w, o)
  BY <1>2, <1>3, UnheardStep
<1> QED
  BY <1>1, <1>2, <1>4, <1>5 DEF m

(* The poll's answer, with the leases of S.                                *)
Leased(S) == {[entry |-> o, lease |-> leases'] : o \in S}

PollTold(w, S) ==
    /\ Heard(w) /\ calls = {w.call} /\ calls' = {}
    /\ Kind \in {"poll", "pollAgain", "drain"}
    /\ Kind = "pollAgain" => left' = Cardinality(Leased(S)) /\ UNCHANGED <<msgs, todo>>
    /\ Kind # "pollAgain" => msgs' = Leased(S) /\ todo' = Leased(S) /\ UNCHANGED left
    /\ Kind = "drain" => drained' = drained + Cardinality(Leased(S))
    /\ Kind # "drain" => drained' = drained
    /\ UNCHANGED <<offset, repeated, rejected, leader>>

(* What a poll leases, and what its answer does to the test.               *)
LEMMA PollEffect ==
    ASSUME IInv, KindInv, NEW w \in wire, PollArrives(w)
    PROVE  \E S \in SUBSET Ready(Polled) :
             /\ S \in SUBSET Ready(Nat) /\ Grants(S)
             /\ Cardinality(S) = Min({PollLimit, Cardinality(Ready(Polled))})
             /\ ToldNothing(w) \/ PollTold(w, S)
<1>1. PICK S \in SUBSET Ready(Polled) :
        /\ Cardinality(S) = Min({PollLimit, Cardinality(Ready(Polled))})
        /\ Grants(S)
        /\ (Heard(w) /\ ToldMessages(Leased(S))) \/ Unheard(w)
  BY DEF PollArrives, Leased
<1>2. S \in SUBSET Ready(Nat)
  BY ReadyType DEF IInv
<1>3. Heard(w) /\ ToldMessages(Leased(S)) => PollTold(w, S)
  <2> SUFFICES ASSUME Heard(w), ToldMessages(Leased(S)) PROVE PollTold(w, S)
    OBVIOUS
  <2>1. calls = {w.call} /\ Kind \in {"poll", "pollAgain", "drain"} /\ calls' = {}
    BY DEF PollArrives, Heard, KindInv
  <2> QED
    BY <2>1 DEF ToldMessages, PollTold
<1> QED
  BY <1>1, <1>2, <1>3, UnheardStep

(* What an ack does to its entry, and what its answer does to the test.    *)
LEMMA AckEffect ==
    ASSUME IInv, NEW w \in wire, AckArrives(w)
    PROVE  LET d == w.call.delivery IN
           /\ UNCHANGED <<offset, msgs, left, drained, repeated, rejected, leader>>
           /\ (Current(d) /\ Released(d, "acked")) \/ (~Current(d) /\ UNCHANGED brokerVars)
           /\ \/ ToldNothing(w)
              \/ Heard(w) /\ todo' = todo \ {d}
              \/ ~Current(d) /\ w.call \in calls /\ Throws /\ todo' = todo
<1>1. \/ ToldNothing(w) /\ UNCHANGED toldVars
      \/ ~Unheard(w)
  BY UnheardStep DEF ToldNothing
<1> QED
  BY <1>1 DEF AckArrives, toldVars

(* Setting up a queue and the statistics leave the log alone.              *)
LEMMA OtherEffect ==
    ASSUME IInv, NEW w \in wire, SetupArrives(w) \/ StatsArrive(w)
    PROVE  /\ UNCHANGED <<offset, msgs, todo, left, drained, repeated, rejected, brokerVars>>
           /\ UNCHANGED <<pc, at, ok>>
           /\ \/ ToldNothing(w)
              \/ w.call \in calls /\ calls' = calls \ {w.call}
<1>1. \/ ToldNothing(w) /\ UNCHANGED <<toldVars, testVars>>
      \/ ~Unheard(w)
  BY UnheardStep DEF ToldNothing
<1> QED
  BY <1>1 DEF SetupArrives, StatsArrive, Heard, toldVars, testVars

(* Only the subscribe test is pushed messages, and it polls for none.      *)
PushInv ==
    /\ test # "subscribe" => topic = {} /\ inbox = {}
    /\ test = "subscribe" => msgs = {}

(* The step that makes calls is a step of the script.                      *)
LEMMA HereStep ==
    ASSUME IInv, calls # {}
    PROVE  /\ at \in 1 .. Len(Script(test)) \/ Kind = "none"
           /\ at \in 1 .. Len(Script(test)) => Kind = Script(test)[at].kind
BY ScriptType DEF IInv, TestInv, Kind

LEMMA PushStep ==
    ASSUME IInv, KindInv, PushInv, [Next]_vars
    PROVE  PushInv'
<1>1. test \in Tests
  BY DEF IInv, TestInv
<1>2. CASE Idle \/ \E c \in calls : Again(c) \/ GivenUp(c)
  BY <1>2 DEF Idle, Again, GivenUp, toldVars, pushVars, PushInv
<1>3. CASE \E w \in wire : Arrives(w)
  <2>1. PICK w \in wire : Arrives(w)
    BY <1>3
  <2>2. UNCHANGED <<test, topic, inbox>>
    BY <2>1 DEF Arrives, pushVars
  <2>3. CASE PollArrives(w)
    <3>1. PICK S : ToldNothing(w) \/ PollTold(w, S)
      BY <2>3, PollEffect
    <3>2. CASE ToldNothing(w)
      BY <2>2, <3>2 DEF ToldNothing, toldVars, PushInv
    <3>3. CASE PollTold(w, S)
      <4>1. test = "subscribe" => Kind = "pollAgain"
        <5>1. at \in 1 .. Len(Script(test)) /\ Kind = Script(test)[at].kind
          BY <3>3, HereStep DEF PollTold
        <5> QED
          BY <1>1, <3>3, <5>1, ScriptPlaces DEF PollTold
      <4> QED
        BY <2>2, <3>3, <4>1 DEF PollTold, PushInv
    <3> QED
      BY <3>1, <3>2, <3>3
  <2>4. CASE ProduceArrives(w) \/ AckArrives(w) \/ SetupArrives(w) \/ StatsArrive(w)
    <3>1. msgs' = msgs
      BY <2>4 DEF ProduceArrives, ToldOffset, AckArrives, SetupArrives, StatsArrive, Unheard, toldVars
    <3> QED
      BY <2>2, <3>1 DEF PushInv
  <2> QED
    BY <2>1, <2>3, <2>4 DEF Arrives
<1>4. CASE \E o \in DOMAIN log : Pushes(o)
  <2>1. topic # {}
    BY <1>4 DEF Pushes, Ready
  <2>2. test = "subscribe" /\ UNCHANGED <<test, msgs>>
    BY <1>4, <2>1 DEF PushInv, Pushes, toldVars
  <2> QED
    BY <2>2 DEF PushInv
<1>5. CASE \/ \E o \in DOMAIN log : Expires(o)
           \/ \E d \in inbox : Handles(d)
  BY <1>5 DEF Expires, Handles, toldVars, pushVars, PushInv
<1>6. CASE Repeats
  BY <1>6 DEF Repeats, toldVars, pushVars, PushInv
<1>7. CASE Begins
  <2>1. CASE Asks(Script(test)[at + 1])
    BY <1>7, <2>1 DEF Begins, Asks, toldVars, pushVars, PushInv
  <2>2. CASE Local(Script(test)[at + 1])
    <3>1. Locally
      BY <1>7, <2>2, LocalStep
    <3>2. test # "subscribe" => UNCHANGED <<topic, inbox>>
      <4>1. Kind' = Script(test)[at'].kind /\ at' \in 1 .. Len(Script(test)) /\ test' = test
        BY <1>7, <3>1, ScriptType DEF Locally, Kind, IInv, TestInv
      <4>2. Kind' \in {"subscribe", "unsubscribe"} => test = "subscribe"
        BY <1>1, <4>1, ScriptPlaces
      <4> QED
        BY <3>1, <4>2 DEF Locally
    <3> QED
      BY <3>1, <3>2 DEF Locally, PushInv
  <2> QED
    BY <1>7, <2>1, <2>2 DEF Begins
<1> QED
  BY <1>2, <1>3, <1>4, <1>5, <1>6, <1>7, StepCases

-----------------------------------------------------------------------------
(* Each step of a script is taken once.                                    *)

(* What a step still to come sets is not set yet.                          *)
ToCome(i) ==
    /\ KindAt(i) \in {"poll", "drain"} => msgs = {}
    /\ KindAt(i) = "pollAgain" => left = 0
    /\ KindAt(i) = "ackFirst" => todo = msgs
    /\ KindAt(i) = "produce" /\ test # "pipeline" => \A m \in Script(test)[i].msgs : offset[m] = 0

(* Each step of a script is taken once, and waits for its own answers.     *)
OnceInv ==
    /\ Live => \A i \in at + 1 .. Len(Script(test)) : ToCome(i)
    /\ \A c \in calls :
         /\ c.kind = "poll" /\ Kind = "poll" => msgs = {}
         /\ c.kind = "poll" /\ Kind = "drain" => todo = {}
         /\ c.kind = "poll" /\ Kind = "pollAgain" => left = 0
         /\ c.kind = "produce" /\ test # "pipeline" => offset[c.msg] = 0
    /\ test \notin {"smoke", "subscribe"} => left = 0

(* It holds on as long as the test does not go on.                         *)
LEMMA OnceKept ==
    ASSUME OnceInv, UNCHANGED <<test, at, offset, msgs, todo, left>>, calls' \subseteq calls,
           Live' => Live
    PROVE  OnceInv'
<1>1. Kind' = Kind
  BY DEF Kind
<1>2. \A i : ToCome(i) => ToCome(i)'
  BY DEF ToCome, KindAt
<1> QED
  BY <1>1, <1>2 DEF OnceInv

(* The step of a call that is waited for.                                  *)
LEMMA CallPlace ==
    ASSUME IInv, Kind # "none"
    PROVE  /\ at \in 1 .. Len(Script(test)) /\ Kind = Script(test)[at].kind
           /\ at \in Nat /\ Len(Script(test)) \in Nat /\ test \in Tests
BY ScriptType DEF IInv, TestInv, Kind

LEMMA OnceStep ==
    ASSUME IInv, KindInv, OnceInv, [Next]_vars
    PROVE  OnceInv'
<1>1. /\ test \in Tests /\ at \in Nat /\ Len(Script(test)) \in Nat /\ todo \subseteq msgs
      /\ offset \in [Produced(test) -> 0 .. Len(log)]
  BY ScriptType DEF IInv, TestInv, DeliveredInv, OffsetInv
<1>2. CASE Idle \/ \E c \in calls : Again(c) \/ GivenUp(c)
  <2>1. /\ UNCHANGED <<test, at, offset, msgs, todo, left>> /\ calls' \subseteq calls
        /\ Live' => Live
    BY <1>2 DEF Idle, Again, GivenUp, toldVars, testVars, Live
  <2> QED
    BY <2>1, OnceKept
<1>3. CASE \E w \in wire : Arrives(w)
  <2>1. PICK w \in wire : Arrives(w)
    BY <1>3
  <2>2. UNCHANGED <<test, at>> /\ calls' \subseteq calls /\ (Live' => Live) /\ Kind' = Kind
    BY <1>3, WaitsStep
  <2>3. CASE UNCHANGED <<offset, msgs, todo, left>>
    BY <2>2, <2>3, OnceKept
  <2>4. CASE ProduceArrives(w)
    <3>1. PICK o : ToldNothing(w) \/ ProduceTold(w, o)
      BY <2>4, ProduceEffect
    <3>2. CASE ToldNothing(w) \/ Kind = "repeat"
      BY <2>3, <3>1, <3>2 DEF ToldNothing, toldVars, ProduceTold
    <3>3. CASE ProduceTold(w, o) /\ Kind # "repeat"
      <4> DEFINE m == w.call.msg
      <4>1. /\ w.call \in calls /\ w.call.kind = "produce" /\ calls' = calls \ {w.call}
            /\ UNCHANGED <<msgs, todo, left>> /\ offset' = [offset EXCEPT ![m] = o]
        BY <2>4, <3>3 DEF ProduceArrives, ProduceTold, Heard
      <4>2. /\ Kind \in {"produce", "produceMany"} /\ m \in Script(test)[at].msgs
            /\ \A e \in calls : e.kind = "produce" /\ e.msg = m => e = w.call
        BY <3>3, <4>1 DEF KindInv
      <4>3. at \in 1 .. Len(Script(test)) /\ Kind = Script(test)[at].kind
        BY <4>2, CallPlace
      <4>4. test # "pipeline" => Kind = "produce"
        BY <1>1, <4>2, <4>3, ScriptPlaces
      <4> HIDE DEF m
      <4>5. \A n : n # m => offset'[n] = offset[n] \/ n \notin Produced(test)
        BY <1>1, <4>1
      <4>6. ASSUME Live', NEW i \in at + 1 .. Len(Script(test))
            PROVE  ToCome(i)'
        <5>1. ToCome(i) /\ i \in 1 .. Len(Script(test)) /\ i # at
          BY <1>1, <2>2, <4>6 DEF OnceInv
        <5>2. ASSUME KindAt(i) = "produce", test # "pipeline"
              PROVE  \A n \in Script(test)[i].msgs : offset'[n] = 0
          <6>1. Script(test)[i].msgs \cap Script(test)[at].msgs = {}
            BY <1>1, <4>3, <4>4, <5>1, <5>2, ScriptOnce DEF KindAt
          <6>2. Script(test)[i].msgs \subseteq Produced(test)
            BY <1>1, <5>1, ScriptType
          <6>3. \A n \in Script(test)[i].msgs : n # m /\ offset[n] = 0
            BY <4>2, <5>1, <5>2, <6>1 DEF ToCome
          <6> QED
            BY <4>5, <6>2, <6>3
        <5> QED
          BY <2>2, <4>1, <5>1, <5>2 DEF ToCome, KindAt
      <4>7. ASSUME NEW c \in calls'
            PROVE  /\ c.kind = "poll" /\ Kind' = "poll" => msgs' = {}
                   /\ c.kind = "poll" /\ Kind' = "drain" => todo' = {}
                   /\ c.kind = "poll" /\ Kind' = "pollAgain" => left' = 0
                   /\ c.kind = "produce" /\ test' # "pipeline" => offset'[c.msg] = 0
        <5>1. c \in calls /\ c # w.call
          BY <4>1
        <5>2. c.kind = "produce" => c.msg # m /\ c.msg \in Produced(test)
          BY <4>2, <5>1 DEF IInv, CallsInv
        <5> QED
          BY <2>2, <4>1, <4>5, <5>1, <5>2 DEF OnceInv
      <4> QED
        BY <2>2, <4>1, <4>6, <4>7 DEF OnceInv
    <3> QED
      BY <3>1, <3>2, <3>3
  <2>5. CASE PollArrives(w)
    <3>1. PICK S : ToldNothing(w) \/ PollTold(w, S)
      BY <2>5, PollEffect
    <3>2. CASE ToldNothing(w)
      BY <2>3, <3>2 DEF ToldNothing, toldVars
    <3>3. CASE PollTold(w, S)
      <4>1. /\ at \in 1 .. Len(Script(test)) /\ Kind = Script(test)[at].kind
            /\ calls' = {} /\ offset' = offset /\ Kind \in {"poll", "pollAgain", "drain"}
        BY <3>3, CallPlace DEF PollTold
      <4>2. Kind = "pollAgain" => test \in {"smoke", "subscribe"}
        BY <1>1, <4>1, ScriptPlaces
      <4>3. ASSUME Live', NEW i \in at + 1 .. Len(Script(test))
            PROVE  ToCome(i)'
        <5>1. ToCome(i) /\ i \in 1 .. Len(Script(test)) /\ i # at
          BY <1>1, <2>2, <4>3 DEF OnceInv
        <5>2. /\ ~(Kind \in {"poll", "drain"} /\ KindAt(i) \in {"poll", "drain"})
              /\ ~(Kind = "pollAgain" /\ KindAt(i) = "pollAgain")
          BY <1>1, <4>1, <5>1, ScriptOnce DEF KindAt
        <5>3. KindAt(i)' = KindAt(i)
          BY <2>2 DEF KindAt
        <5>4. CASE Kind = "pollAgain"
          <6>1. msgs' = msgs /\ todo' = todo
            BY <3>3, <5>4 DEF PollTold
          <6> QED
            BY <2>2, <4>1, <5>1, <5>2, <5>3, <5>4, <6>1 DEF ToCome
        <5>5. CASE Kind # "pollAgain"
          <6>1. msgs' = todo' /\ left' = left
            BY <3>3, <5>5 DEF PollTold
          <6> QED
            BY <2>2, <4>1, <5>1, <5>2, <5>3, <5>5, <6>1 DEF ToCome
        <5> QED
          BY <5>4, <5>5
      <4>4. test \notin {"smoke", "subscribe"} => left' = 0
        BY <3>3, <4>2 DEF PollTold, OnceInv
      <4> QED
        BY <2>2, <4>1, <4>3, <4>4 DEF OnceInv
    <3> QED
      BY <3>1, <3>2, <3>3
  <2>6. CASE AckArrives(w)
    <3>1. UNCHANGED <<offset, msgs, left>>
      BY <2>6, AckEffect
    <3>2. CASE todo' = todo
      BY <2>3, <3>1, <3>2
    <3>3. CASE todo' # todo
      <4>1. w.call \in calls /\ w.call.kind = "ack"
        BY <2>6, <3>3, AckEffect DEF Heard, ToldNothing, toldVars, AckArrives
      <4>2. Kind \in {"ackFirst", "ackEach", "drain"}
        BY <4>1 DEF KindInv
      <4>3. at \in 1 .. Len(Script(test)) /\ Kind = Script(test)[at].kind
        BY <4>2, CallPlace
      <4>4. \A c \in calls' : c.kind # "poll"
        BY <2>2, <4>1 DEF KindInv
      <4>5. ASSUME Live', NEW i \in at + 1 .. Len(Script(test))
            PROVE  ToCome(i)'
        <5>1. ToCome(i) /\ i \in 1 .. Len(Script(test)) /\ i # at
          BY <1>1, <2>2, <4>5 DEF OnceInv
        <5>2. KindAt(i) # "ackFirst"
          <6>1. /\ Kind = "ackEach" => test = "consume"
                /\ Kind = "drain" => test = "pipeline"
            BY <1>1, <4>3, ScriptPlaces
          <6>2. KindAt(i) = "ackFirst" => test \in {"smoke", "compose"} /\ Kind # "ackFirst"
            BY <1>1, <4>3, <5>1, ScriptPlaces, ScriptOnce DEF KindAt
          <6> QED
            BY <4>2, <6>1, <6>2
        <5> QED
          BY <2>2, <3>1, <5>1, <5>2 DEF ToCome, KindAt
      <4> QED
        BY <2>2, <3>1, <4>4, <4>5 DEF OnceInv
    <3> QED
      BY <3>2, <3>3
  <2>7. CASE SetupArrives(w) \/ StatsArrive(w)
    BY <2>3, <2>7, OtherEffect
  <2> QED
    BY <2>1, <2>4, <2>5, <2>6, <2>7 DEF Arrives
<1>4. CASE \/ \E o \in DOMAIN log : Pushes(o) \/ Expires(o)
           \/ \E d \in inbox : Handles(d)
  <2>1. UNCHANGED <<test, at, offset, msgs, todo, left, calls, pc>>
    BY <1>4 DEF Pushes, Expires, Handles, toldVars, testVars
  <2> QED
    BY <2>1, OnceKept DEF Live
<1>5. CASE Repeats \/ (Begins /\ Asks(Script(test)[at + 1]))
  <2>1. PICK S : Asked(S) /\ Fitting(S) /\ KindInv'
    BY <1>5, AskedStep
  <2>2. /\ UNCHANGED <<test, offset, msgs, todo, left>> /\ calls' = S /\ Live
        /\ at' \in {at, at + 1} /\ at' \in 1 .. Len(Script(test))
    BY <2>1 DEF Asked, Make, toldVars, Running, Live
  <2>3. \A i \in at + 1 .. Len(Script(test)) : ToCome(i) /\ ToCome(i)'
    BY <2>2 DEF OnceInv, ToCome, KindAt
  <2>4. \A i \in at' + 1 .. Len(Script(test)) : ToCome(i)'
    <3>1. at' + 1 .. Len(Script(test)) \subseteq at + 1 .. Len(Script(test))
      BY <1>1, <2>2
    <3> QED
      BY <2>3, <3>1
  <2>5. Kind' = Script(test)[at'].kind
    BY <1>1, <2>2 DEF Kind
  <2>6. ASSUME NEW c \in calls'
        PROVE  /\ c.kind = "poll" /\ Kind' = "poll" => msgs = {}
               /\ c.kind = "poll" /\ Kind' = "drain" => todo = {}
               /\ c.kind = "poll" /\ Kind' = "pollAgain" => left = 0
               /\ c.kind = "produce" /\ test # "pipeline" => offset[c.msg] = 0
    <3>1. CASE at' = at + 1
      <4>1. ToCome(at')
        BY <1>1, <2>2, <2>3, <3>1
      <4>2. /\ Kind' \in {"poll", "drain"} => msgs = {}
            /\ Kind' = "pollAgain" => left = 0
            /\ Kind' = "produce" /\ test # "pipeline" => \A m \in Script(test)[at'].msgs : offset[m] = 0
        BY <2>5, <4>1 DEF ToCome, KindAt
      <4>3. c.kind = "produce" =>
              Kind' \in {"produce", "produceMany", "repeat"} /\ c.msg \in Script(test)[at'].msgs
        BY <2>1, <2>2 DEF KindInv
      <4>4. Kind' \in {"produceMany", "repeat"} => test = "pipeline"
        BY <1>1, <2>2, <2>5, ScriptPlaces
      <4> QED
        BY <1>1, <4>2, <4>3, <4>4
    <3>2. CASE at' # at + 1
      <4>1. c.kind # "produce" /\ (c.kind = "poll" => Kind = "drain" /\ todo = {} /\ at' = at)
        BY <2>1, <2>2, <3>2 DEF Fitting
      <4>2. c.kind = "poll" => Kind' = "drain"
        BY <2>2, <4>1 DEF Kind
      <4> QED
        BY <4>1, <4>2
    <3> QED
      BY <3>1, <3>2
  <2> QED
    BY <2>2, <2>4, <2>6 DEF OnceInv
<1>6. CASE Begins /\ Local(Script(test)[at + 1])
  <2>1. /\ UNCHANGED <<test, offset, msgs, todo, left>> /\ calls' = {} /\ Live
        /\ at' = at + 1
    BY <1>6, LocalStep DEF Locally, Running, Live
  <2>2. \A i \in at + 1 .. Len(Script(test)) : ToCome(i)'
    BY <2>1 DEF OnceInv, ToCome, KindAt
  <2>3. \A i \in at' + 1 .. Len(Script(test)) : ToCome(i)'
    BY <1>1, <2>1, <2>2
  <2> QED
    BY <2>1, <2>3 DEF OnceInv
<1> QED
  BY <1>2, <1>3, <1>4, <1>5, <1>6, StepCases DEF Begins

-----------------------------------------------------------------------------
(* What is in the log, what is acked of it, and what is still to ack.      *)

(* What is in the log, and what is acked of it.                            *)
LEMMA LogChange ==
    ASSUME IInv, [Next]_vars
    PROVE  /\ test' = test
           /\ \/ UNCHANGED <<log, offset>>
              \/ \E w \in wire : Arrives(w) /\ ProduceArrives(w)
<1>1. CASE Idle \/ \E c \in calls : Again(c) \/ GivenUp(c)
  BY <1>1 DEF Idle, Again, GivenUp, toldVars, brokerVars
<1>2. CASE \E w \in wire : Arrives(w)
  <2>1. PICK w \in wire : Arrives(w)
    BY <1>2
  <2>2. CASE PollArrives(w)
    BY <2>1, <2>2 DEF Arrives, PollArrives, Grants, ToldMessages, Unheard, toldVars
  <2>3. CASE AckArrives(w)
    BY <2>1, <2>3 DEF Arrives, AckArrives, Released, Unheard, toldVars, brokerVars
  <2>4. CASE SetupArrives(w) \/ StatsArrive(w)
    BY <2>1, <2>4 DEF Arrives, SetupArrives, StatsArrive, Unheard, toldVars, brokerVars
  <2> QED
    BY <2>1, <2>2, <2>3, <2>4 DEF Arrives
<1>3. CASE \/ \E o \in DOMAIN log : Pushes(o) \/ Expires(o)
           \/ \E d \in inbox : Handles(d)
  BY <1>3 DEF Pushes, Expires, Handles, Grants, Released, toldVars, brokerVars
<1>4. CASE Repeats
  BY <1>4 DEF Repeats, toldVars, brokerVars
<1>5. CASE Begins
  BY <1>5 DEF Begins, Asks, Local, toldVars, brokerVars
<1> QED
  BY <1>1, <1>2, <1>3, <1>4, <1>5, StepCases

(* The log holds what was produced, or was there before: each message of a *)
(* pipeline at one place, and where the test was told.                     *)
SourceInv ==
    /\ \A o \in 1 .. Len(log) :
         log[o] \in Produced(test) \/ (log[o] = Stale /\ test \notin OwnDaemon)
    /\ \A m \in Produced(test) : offset[m] # 0 => log[offset[m]] = m
    /\ test = "pipeline" => \A o, p \in 1 .. Len(log) : log[o] = log[p] => o = p

LEMMA SourceStep ==
    ASSUME IInv, SourceInv, [Next]_vars
    PROVE  SourceInv'
<1>1. test' = test /\ IInv' /\ Grown
  BY LogChange, NextInvariant
<1>2. /\ Len(log) \in Nat /\ DOMAIN log = 1 .. Len(log)
      /\ offset \in [Produced(test) -> 0 .. Len(log)]
  BY LogLength DEF IInv, OffsetInv
<1>3. CASE UNCHANGED <<log, offset>>
  BY <1>1, <1>3 DEF SourceInv
<1>4. CASE \E w \in wire : Arrives(w) /\ ProduceArrives(w)
  <2>1. PICK w \in wire : ProduceArrives(w)
    BY <1>4
  <2> DEFINE m == w.call.msg
  <2>2. m \in Produced(test) /\ m \in Nat
    BY <2>1, ProduceEffect
  <2>3. (Known(m) = {} /\ Appends(m)) \/ (Known(m) # {} /\ UNCHANGED brokerVars)
    BY <2>1, ProduceEffect
  <2>4. \/ offset' = offset
        \/ \E o \in 1 .. Len(log') : log'[o] = m /\ offset' = [offset EXCEPT ![m] = o]
    BY <2>1, ProduceEffect DEF ToldNothing, toldVars, ProduceTold
  <2> HIDE DEF m
  <2>5. \/ Len(log') = Len(log) + 1 /\ log'[Len(log) + 1] = m /\ Known(m) = {}
        \/ log' = log
    BY <2>2, <2>3, AppendsStep DEF brokerVars, IInv
  <2>6. \A o \in 1 .. Len(log) : log'[o] = log[o]
    BY <1>1 DEF Grown
  <2>7. \A o \in 1 .. Len(log') : o \in 1 .. Len(log) \/ (log'[o] = m /\ o = Len(log) + 1 /\ Known(m) = {})
    BY <1>2, <2>5
  <2>8. \A o \in 1 .. Len(log') :
          log'[o] \in Produced(test) \/ (log'[o] = Stale /\ test \notin OwnDaemon)
    BY <2>2, <2>6, <2>7 DEF SourceInv
  <2>9. \A n \in Produced(test) : offset'[n] # 0 => log'[offset'[n]] = n
    BY <1>2, <2>2, <2>4, <2>6 DEF SourceInv
  <2>10. test = "pipeline" => \A o, p \in 1 .. Len(log') : log'[o] = log'[p] => o = p
    <3> SUFFICES ASSUME test = "pipeline", NEW o \in 1 .. Len(log'), NEW p \in 1 .. Len(log'),
                        log'[o] = log'[p]
                 PROVE  o = p
      OBVIOUS
    <3>1. Known(m) = {} => \A q \in 1 .. Len(log) : log[q] # m
      BY <1>2 DEF Known
    <3>2. CASE o \in 1 .. Len(log) /\ p \in 1 .. Len(log)
      BY <2>6, <3>2 DEF SourceInv
    <3>3. CASE o \notin 1 .. Len(log) \/ p \notin 1 .. Len(log)
      BY <2>6, <2>7, <3>1, <3>3
    <3> QED
      BY <3>2, <3>3
  <2> QED
    BY <1>1, <2>8, <2>9, <2>10 DEF SourceInv
<1> QED
  BY <1>3, <1>4, LogChange

(* What has become acked by a step has been by an ack, or by a handler.    *)
LEMMA NewlyAcked ==
    ASSUME IInv, [Next]_vars, NEW o \in 1 .. Len(log'), state'[o] = "acked"
    PROVE  \/ o \in 1 .. Len(log) /\ state[o] = "acked"
           \/ \E w \in wire : Arrives(w) /\ AckArrives(w) /\ Current(w.call.delivery) /\ o = w.call.delivery.entry
           \/ \E d \in inbox : Handles(d) /\ Current(d) /\ o = d.entry
<1>1. Len(log) \in Nat /\ DOMAIN log = 1 .. Len(log) /\ BrokerInv
  BY LogLength DEF IInv
<1>2. CASE UNCHANGED brokerVars
  BY <1>2 DEF brokerVars
<1>3. CASE \E w \in wire : Arrives(w)
  <2>1. PICK w \in wire : Arrives(w)
    BY <1>3
  <2>2. CASE ProduceArrives(w)
    <3>1. w.call.msg \in Nat /\ (Appends(w.call.msg) \/ UNCHANGED brokerVars)
      BY <2>2, ProduceEffect
    <3>2. CASE Appends(w.call.msg)
      <4>1. /\ Len(log') = Len(log) + 1 /\ state'[Len(log) + 1] = "ready"
            /\ \A p \in 1 .. Len(log) : state'[p] = state[p]
        BY <1>1, <3>1, <3>2, AppendsStep
      <4>2. o \in 1 .. Len(log) \/ o = Len(log) + 1
        BY <1>1, <4>1
      <4> QED
        BY <4>1, <4>2
    <3> QED
      BY <1>2, <3>1, <3>2
  <2>3. CASE PollArrives(w)
    <3>1. PICK S \in SUBSET Ready(Nat) : Grants(S)
      BY <2>3, ReadyType DEF PollArrives, IInv
    <3>2. /\ log' = log /\ \A p \in S : state'[p] = "leased"
          /\ \A p \in 1 .. Len(log) : p \notin S => state'[p] = state[p]
      BY <1>1, <3>1, GrantsStep
    <3> QED
      BY <3>2
  <2>4. CASE AckArrives(w)
    <3>1. CASE Current(w.call.delivery) /\ Released(w.call.delivery, "acked")
      <4>1. log' = log /\ \A p \in 1 .. Len(log) :
              state'[p] = IF p = w.call.delivery.entry THEN "acked" ELSE state[p]
        BY <1>1, <3>1, ReleasedStep DEF Current
      <4> QED
        BY <2>1, <2>4, <3>1, <4>1
    <3> QED
      BY <1>2, <2>4, <3>1 DEF AckArrives
  <2>5. CASE SetupArrives(w) \/ StatsArrive(w)
    BY <1>2, <2>5 DEF SetupArrives, StatsArrive
  <2> QED
    BY <2>1, <2>2, <2>3, <2>4, <2>5 DEF Arrives
<1>4. CASE \E p \in DOMAIN log : Pushes(p)
  <2>1. PICK p \in DOMAIN log : Pushes(p)
    BY <1>4
  <2>2. {p} \in SUBSET Ready(Nat) /\ Grants({p})
    BY <1>1, <2>1, ReadyType DEF Pushes
  <2>3. /\ log' = log /\ state'[p] = "leased"
        /\ \A q \in 1 .. Len(log) : q # p => state'[q] = state[q]
    BY <1>1, <2>2, GrantsStep
  <2> QED
    BY <2>3
<1>5. CASE \E p \in DOMAIN log : Expires(p)
  <2>1. PICK p \in DOMAIN log : Expires(p)
    BY <1>5
  <2> DEFINE d == [entry |-> p]
  <2>2. state[d.entry] = "leased" /\ Released(d, "ready")
    BY <2>1 DEF Expires
  <2>3. log' = log /\ \A q \in 1 .. Len(log) : state'[q] = IF q = d.entry THEN "ready" ELSE state[q]
    BY <1>1, <2>2, ReleasedStep
  <2> QED
    BY <2>3
<1>6. CASE \E d \in inbox : Handles(d)
  <2>1. PICK d \in inbox : Handles(d)
    BY <1>6
  <2>2. CASE Current(d) /\ \E to \in {"ready", "acked"} : Released(d, to)
    <3>1. PICK to \in {"ready", "acked"} : Released(d, to)
      BY <2>2
    <3>2. log' = log /\ \A q \in 1 .. Len(log) : state'[q] = IF q = d.entry THEN to ELSE state[q]
      BY <1>1, <2>2, <3>1, ReleasedStep DEF Current
    <3> QED
      BY <2>1, <2>2, <3>2
  <2> QED
    BY <1>2, <2>1, <2>2 DEF Handles
<1>7. CASE Idle \/ (\E c \in calls : Again(c) \/ GivenUp(c)) \/ Repeats \/ Begins
  BY <1>2, <1>7 DEF Idle, Again, GivenUp, Repeats, Begins
<1> QED
  BY <1>3, <1>4, <1>5, <1>6, <1>7, StepCases

LEMMA KindStep ==
    ASSUME IInv, KindInv, [Next]_vars
    PROVE  KindInv'
<1>1. CASE Begins
  BY <1>1, AskedStep, LocalStep DEF Begins
<1> QED
  BY <1>1, StepCases, WaitsStep, AskedStep

(* What changes the deliveries of the last poll, or those still to ack.    *)
LEMMA ToldChange ==
    ASSUME IInv, KindInv, [Next]_vars
    PROVE  \/ UNCHANGED <<msgs, todo>>
           \/ \E w \in wire, S \in SUBSET Ready(Polled) :
                /\ Arrives(w) /\ PollArrives(w) /\ S \in SUBSET Ready(Nat) /\ Grants(S)
                /\ Cardinality(S) = Min({PollLimit, Cardinality(Ready(Polled))})
                /\ PollTold(w, S) /\ Kind # "pollAgain"
           \/ \E w \in wire :
                /\ Arrives(w) /\ AckArrives(w) /\ Heard(w) /\ msgs' = msgs
                /\ todo' = todo \ {w.call.delivery}
<1>1. CASE Idle \/ \E c \in calls : Again(c) \/ GivenUp(c)
  BY <1>1 DEF Idle, Again, GivenUp, toldVars
<1>2. CASE \E w \in wire : Arrives(w)
  <2>1. PICK w \in wire : Arrives(w)
    BY <1>2
  <2>2. CASE ProduceArrives(w)
    BY <2>2 DEF ProduceArrives, ToldOffset, Unheard, toldVars
  <2>3. CASE PollArrives(w)
    <3>1. PICK S \in SUBSET Ready(Polled) :
             /\ S \in SUBSET Ready(Nat) /\ Grants(S)
             /\ Cardinality(S) = Min({PollLimit, Cardinality(Ready(Polled))})
             /\ ToldNothing(w) \/ PollTold(w, S)
      BY <2>3, PollEffect
    <3>2. CASE ToldNothing(w) \/ Kind = "pollAgain"
      BY <3>1, <3>2 DEF ToldNothing, PollTold, toldVars
    <3>3. CASE PollTold(w, S) /\ Kind # "pollAgain"
      BY <2>1, <2>3, <3>1, <3>3
    <3> QED
      BY <3>1, <3>2, <3>3
  <2>4. CASE AckArrives(w)
    BY <2>1, <2>4, AckEffect DEF ToldNothing, toldVars
  <2>5. CASE SetupArrives(w) \/ StatsArrive(w)
    BY <2>5, OtherEffect
  <2> QED
    BY <2>1, <2>2, <2>3, <2>4, <2>5 DEF Arrives
<1>3. CASE \/ \E o \in DOMAIN log : Pushes(o) \/ Expires(o)
           \/ \E d \in inbox : Handles(d)
  BY <1>3 DEF Pushes, Expires, Handles, toldVars
<1>4. CASE Repeats
  BY <1>4 DEF Repeats, toldVars
<1>5. CASE Begins
  BY <1>5 DEF Begins, Asks, Local, toldVars
<1> QED
  BY <1>1, <1>2, <1>3, <1>4, <1>5, StepCases

(* A lease of the test is over when it has been told so, or ends unheard.  *)
Owed(d) == Given(d) /\ (Current(d) => d \in todo)

AckInv ==
    /\ \A d \in msgs : Owed(d)
    /\ \A c \in calls \cup {w.call : w \in wire} : c.kind = "ack" => Owed(c.delivery)

(* The only acks a step adds are of deliveries of the last poll.           *)
LEMMA NewCalls ==
    ASSUME IInv, KindInv, [Next]_vars
    PROVE  \A c \in calls' \cup {w.call : w \in wire'} :
             \/ c \in calls \cup {w.call : w \in wire}
             \/ c.kind = "ack" => c.delivery \in msgs
<1>0. KindInv'
  BY KindStep
<1>1. CASE Idle \/ \E c \in calls : Again(c) \/ GivenUp(c)
  <2>1. calls' \subseteq calls
    BY <1>1 DEF Idle, Again, GivenUp, testVars
  <2>2. \A w \in wire' : w \in wire \/ w.call \in calls
    BY <1>1 DEF Idle, Again, GivenUp
  <2> QED
    BY <2>1, <2>2
<1>2. CASE \E w \in wire : Arrives(w)
  <2>1. calls' \subseteq calls
    BY <1>2, WaitsStep
  <2>2. wire' \subseteq wire
    BY <1>2 DEF Arrives
  <2> QED
    BY <2>1, <2>2
<1>3. CASE \/ \E o \in DOMAIN log : Pushes(o) \/ Expires(o)
           \/ \E d \in inbox : Handles(d)
  BY <1>3 DEF Pushes, Expires, Handles, testVars
<1>4. CASE Repeats \/ (Begins /\ Asks(Script(test)[at + 1]))
  <2>1. PICK S : Asked(S)
    BY <1>4, AskedStep
  <2>2. calls' = S /\ wire' = wire \cup {[call |-> c, copy |-> 0] : c \in S} /\ msgs' = msgs
    BY <2>1 DEF Asked, Make, toldVars
  <2>3. \A w \in wire' : w \in wire \/ w.call \in calls'
    BY <2>2
  <2>4. \A c \in calls' : c.kind = "ack" => c.delivery \in msgs
    BY <1>0, <2>2 DEF KindInv
  <2> QED
    BY <2>3, <2>4
<1>5. CASE Begins /\ Local(Script(test)[at + 1])
  BY <1>5, LocalStep DEF Locally
<1> QED
  BY <1>1, <1>2, <1>3, <1>4, <1>5, StepCases DEF Begins

LEMMA AckStep ==
    ASSUME IInv, KindInv, OnceInv, AckInv, [Next]_vars
    PROVE  AckInv'
<1>1. IInv' /\ BrokerInv /\ BrokerInv' /\ Grown
  BY NextInvariant DEF IInv
<1>2. \A c \in calls' \cup {w.call : w \in wire'} : c.kind = "ack" => Owed(c.delivery)
  BY NewCalls DEF AckInv
<1>3. \A d : Owed(d) => Given(d)' /\ (Current(d)' => Current(d))
  BY <1>1, GivenStays DEF Owed
<1>4. CASE UNCHANGED <<msgs, todo>>
  <2>1. \A d : Owed(d) => Owed(d)'
    BY <1>3, <1>4 DEF Owed
  <2> QED
    BY <1>2, <1>4, <2>1 DEF AckInv
<1>5. CASE \E w \in wire, S \in SUBSET Ready(Polled) :
                PollTold(w, S) /\ Kind # "pollAgain" /\ PollArrives(w)
  <2>1. PICK w \in wire, S \in SUBSET Ready(Polled) : PollTold(w, S) /\ Kind # "pollAgain" /\ PollArrives(w)
    BY <1>5
  <2>2. todo = {} /\ msgs' = todo'
    <3>1. w.call \in calls /\ w.call.kind = "poll" /\ Kind \in {"poll", "drain"} /\ todo \subseteq msgs
      BY <2>1 DEF PollTold, Heard, PollArrives, IInv, DeliveredInv
    <3>2. Kind = "poll" => msgs = {}
      BY <3>1 DEF OnceInv
    <3>3. Kind = "drain" => todo = {}
      BY <3>1 DEF OnceInv
    <3> QED
      BY <2>1, <3>1, <3>2, <3>3 DEF PollTold
  <2>3. \A d : Owed(d) => Owed(d)'
    BY <1>3, <2>2 DEF Owed
  <2>4. \A d \in msgs' : Owed(d)'
    BY <1>1, <2>2 DEF Owed, IInv, DeliveredInv
  <2> QED
    BY <1>2, <2>3, <2>4 DEF AckInv
<1>6. CASE \E w \in wire : /\ AckArrives(w) /\ Heard(w) /\ msgs' = msgs
                           /\ todo' = todo \ {w.call.delivery}
  <2>1. PICK w \in wire : /\ AckArrives(w) /\ Heard(w) /\ msgs' = msgs
                          /\ todo' = todo \ {w.call.delivery}
    BY <1>6
  <2> DEFINE d == w.call.delivery
  <2>2. Given(d) /\ Owed(d) /\ d.entry \in 1 .. Len(log)
    <3>1. Given(d) /\ Owed(d)
      BY <2>1 DEF AckArrives, AckInv, Owed
    <3> QED
      BY <1>1, <3>1, GivenStays
  <2> HIDE DEF d
  <2>3. ~Current(d)'
    <3>1. CASE Current(d)
      <4>1. Released(d, "acked") /\ state[d.entry] = "leased"
        BY <2>1, <3>1 DEF AckArrives, Current, d
      <4>2. state'[d.entry] = "acked"
        BY <1>1, <2>2, <4>1, ReleasedStep
      <4> QED
        BY <4>2 DEF Current
    <3>2. CASE ~Current(d)
      BY <1>3, <2>2, <3>2
    <3> QED
      BY <3>1, <3>2
  <2>4. \A e : Owed(e) => Owed(e)'
    BY <1>3, <2>1, <2>3 DEF Owed, d
  <2> QED
    BY <1>2, <2>1, <2>4 DEF AckInv
<1> QED
  BY <1>4, <1>5, <1>6, ToldChange

(* The poll that is told something new found nothing to ack before.        *)
LEMMA NewMessages ==
    ASSUME IInv, OnceInv, NEW w \in wire, NEW S, PollArrives(w), PollTold(w, S), Kind # "pollAgain"
    PROVE  /\ at \in 1 .. Len(Script(test)) /\ Kind = Script(test)[at].kind
           /\ (Kind = "poll" /\ msgs = {}) \/ (Kind = "drain" /\ test = "pipeline")
           /\ todo = {}
           /\ calls = {w.call} /\ calls' = {} /\ msgs' = Leased(S) /\ todo' = Leased(S)
<1>1. w.call \in calls /\ w.call.kind = "poll" /\ Kind \in {"poll", "drain"} /\ todo \subseteq msgs
  BY DEF PollTold, Heard, PollArrives, IInv, DeliveredInv
<1>2. at \in 1 .. Len(Script(test)) /\ Kind = Script(test)[at].kind /\ test \in Tests
  BY <1>1, CallPlace
<1>3. Kind = "drain" => test = "pipeline"
  BY <1>2, ScriptPlaces
<1>4. Kind = "poll" => msgs = {}
  BY <1>1 DEF OnceInv
<1>5. Kind = "drain" => todo = {}
  BY <1>1 DEF OnceInv
<1>6. calls = {w.call} /\ calls' = {} /\ msgs' = Leased(S) /\ todo' = Leased(S)
  BY DEF PollTold
<1> QED
  BY <1>1, <1>2, <1>3, <1>4, <1>5, <1>6

(* Outside the pipeline test only the first poll is told messages.         *)
LEMMA MessagesKept ==
    ASSUME IInv, KindInv, OnceInv, [Next]_vars, test # "pipeline", msgs # {}
    PROVE  msgs' = msgs /\ (todo' = todo \/ (todo' \subseteq todo))
BY ToldChange, NewMessages

(* Nothing is acked that has not been polled, without a subscription.      *)
AckedInv ==
    test \in {"smoke", "compose", "consume"} /\ msgs = {} => \A o \in 1 .. Len(log) : state[o] # "acked"

LEMMA AckedStep ==
    ASSUME IInv, KindInv, PushInv, OnceInv, AckInv, AckedInv, [Next]_vars
    PROVE  AckedInv'
<1> SUFFICES ASSUME test' \in {"smoke", "compose", "consume"}, msgs' = {},
                    NEW o \in 1 .. Len(log'), state'[o] = "acked"
             PROVE  FALSE
  BY DEF AckedInv
<1>1. test' = test /\ test # "pipeline" /\ inbox = {}
  BY LogChange DEF PushInv
<1>2. msgs = {}
  BY <1>1, MessagesKept
<1>3. ~(o \in 1 .. Len(log) /\ state[o] = "acked")
  BY <1>1, <1>2 DEF AckedInv
<1>4. \A w \in wire : AckArrives(w) => ~Current(w.call.delivery)
  BY <1>2 DEF AckInv, Owed, AckArrives, IInv, DeliveredInv
<1> QED
  BY <1>1, <1>3, <1>4, NewlyAcked

(* What a test has received has been through its handler.                  *)
LEMMA ReceivedChange ==
    ASSUME IInv, [Next]_vars
    PROVE  UNCHANGED <<received, failedOnce>> \/ \E d \in inbox : Handles(d)
<1>1. CASE Idle \/ \E c \in calls : Again(c) \/ GivenUp(c)
  BY <1>1 DEF Idle, Again, GivenUp, pushVars
<1>2. CASE (\E w \in wire : Arrives(w)) \/ \E o \in DOMAIN log : Pushes(o) \/ Expires(o)
  BY <1>2 DEF Arrives, Pushes, Expires, pushVars
<1>3. CASE Repeats \/ Begins
  BY <1>3 DEF Repeats, Begins, Asks, Local, pushVars
<1> QED
  BY <1>1, <1>2, <1>3, StepCases

(* The message whose first handling fails is received by its second.       *)
RetryInv == \A d \in received : log[d.entry] = Retry => failedOnce

LEMMA RetryStep ==
    ASSUME IInv, RetryInv, [Next]_vars
    PROVE  RetryInv'
<1>1. \A d \in inbox \cup received : log'[d.entry] = log[d.entry]
  BY NextInvariant, GivenStays DEF IInv, DeliveredInv
<1>2. CASE UNCHANGED <<received, failedOnce>>
  BY <1>1, <1>2 DEF RetryInv
<1>3. CASE \E d \in inbox : Handles(d)
  <2>1. PICK d \in inbox : Handles(d)
    BY <1>3
  <2> DEFINE fails == log[d.entry] = Retry /\ ~failedOnce
  <2>2. failedOnce' <=> failedOnce \/ fails
    BY <2>1 DEF Handles
  <2>3. received' = IF fails THEN received ELSE received \cup {d}
    BY <2>1 DEF Handles
  <2>4. \A e \in received' : e \in received \/ (e = d /\ ~fails)
    BY <2>3
  <2> SUFFICES ASSUME NEW e \in received', log'[e.entry] = Retry PROVE failedOnce'
    BY DEF RetryInv
  <2>5. CASE e \in received
    BY <1>1, <2>2, <2>5 DEF RetryInv
  <2>6. CASE e = d /\ ~fails
    BY <1>1, <2>1, <2>2, <2>6
  <2> QED
    BY <2>4, <2>5, <2>6
<1> QED
  BY <1>2, <1>3, ReceivedChange

(* How a call ends in a test that goes on.                                 *)
LEMMA CallEnded ==
    ASSUME IInv, KindInv, [Next]_vars, Live', NEW c \in calls, c \notin calls'
    PROVE  GivenUp(c) \/ \E w \in wire : Arrives(w) /\ w.call = c /\ calls' = calls \ {c}
<1>1. CASE Idle \/ \E e \in calls : Again(e) \/ GivenUp(e)
  BY <1>1 DEF Idle, Again, GivenUp, testVars
<1>2. CASE \E w \in wire : Arrives(w)
  <2>1. PICK w \in wire : Arrives(w)
    BY <1>2
  <2>2. calls' = calls \/ calls' = calls \ {w.call} \/ Throws
    BY <2>1 DEF Arrives, ProduceArrives, PollArrives, AckArrives, SetupArrives, StatsArrive,
                Heard, Unheard, testVars
  <2>3. ~Throws
    BY DEF Throws, Live
  <2> QED
    BY <2>1, <2>2, <2>3
<1>3. CASE \/ \E o \in DOMAIN log : Pushes(o) \/ Expires(o)
           \/ \E d \in inbox : Handles(d)
  BY <1>3 DEF Pushes, Expires, Handles, testVars
<1>4. CASE Repeats \/ Begins
  BY <1>4 DEF Repeats, Begins, Running
<1> QED
  BY <1>1, <1>2, <1>3, <1>4, StepCases

(* What is done after a step, but was not before it.                       *)
LEMMA NewlyDone ==
    ASSUME IInv, KindInv, [Next]_vars, Live', NEW i \in 1 .. Len(Script(test)), Done(i)'
    PROVE  /\ Live
           /\ \/ Done(i)
              \/ /\ i = at /\ Kind = KindAt(i) /\ at' = at /\ calls' = {}
                 /\ \E c \in calls : \/ GivenUp(c)
                                     \/ \E w \in wire : Arrives(w) /\ w.call = c /\ calls = {c}
              \/ i = at' /\ Locally /\ Kind' = KindAt(i)
<1>0. at \in Nat /\ test \in Tests /\ Len(Script(test)) \in Nat /\ i \in Nat
  BY ScriptType DEF IInv, TestInv
<1>1. CASE Repeats \/ (Begins /\ Asks(Script(test)[at + 1]))
  <2>1. PICK S : Asked(S) /\ Fitting(S)
    BY <1>1, AskedStep
  <2>2. calls' # {} /\ calls = {} /\ at' \in {at, at + 1} /\ Live
    BY <2>1 DEF Asked, Make, Fitting, Running, Live
  <2> QED
    BY <1>0, <2>2 DEF Done
<1>2. CASE Begins /\ Local(Script(test)[at + 1])
  <2>1. Locally /\ at' = at + 1 /\ calls = {} /\ Live /\ test' = test
    BY <1>2, LocalStep DEF Locally, Running, Live
  <2>2. Kind' = KindAt(at')
    BY <1>0, <2>1 DEF Kind, KindAt
  <2> QED
    BY <1>0, <2>1, <2>2 DEF Done
<1>3. CASE ~Begins /\ ~Repeats
  <2>1. UNCHANGED <<test, at>> /\ calls' \subseteq calls /\ Live
    BY <1>3, StepCases, WaitsStep
  <2>2. CASE Done(i)
    BY <2>1, <2>2
  <2>3. CASE ~Done(i)
    <3>1. i = at /\ calls' = {} /\ calls # {}
      BY <2>1, <2>3 DEF Done
    <3>2. Kind = KindAt(i)
      BY <1>0, <3>1 DEF Kind, KindAt
    <3>3. PICK c \in calls : c \notin calls'
      BY <3>1
    <3>4. GivenUp(c) \/ \E w \in wire : Arrives(w) /\ w.call = c /\ calls' = calls \ {c}
      BY <3>3, CallEnded
    <3> QED
      BY <2>1, <3>1, <3>2, <3>3, <3>4
  <2> QED
    BY <2>2, <2>3
<1> QED
  BY <1>1, <1>2, <1>3 DEF Begins

-----------------------------------------------------------------------------
(* What the steps that are done have left.                                 *)

(* The kind of a call says which arrival it is.                            *)
LEMMA ArrivalOf ==
    ASSUME NEW w, Arrives(w)
    PROVE  /\ w.call.kind = "produce" => ProduceArrives(w)
           /\ w.call.kind = "poll" => PollArrives(w)
           /\ w.call.kind = "ack" => AckArrives(w)
           /\ w.call.kind = "setup" => SetupArrives(w)
           /\ w.call.kind = "stats" => StatsArrive(w)
           /\ w.call.kind \in {"produce", "poll", "ack", "setup", "stats"}
BY DEF Arrives, ProduceArrives, PollArrives, AckArrives, SetupArrives, StatsArrive

(* An offset that has been told stays told.                                *)
LEMMA OffsetStays ==
    ASSUME IInv, [Next]_vars, NEW m \in Produced(test), offset[m] # 0
    PROVE  offset'[m] # 0
<1>1. CASE offset' = offset
  BY <1>1
<1>2. CASE \E w \in wire : ProduceArrives(w)
  <2>1. PICK w \in wire : ProduceArrives(w)
    BY <1>2
  <2>2. \/ offset' = offset
        \/ \E o \in 1 .. Len(log') : offset' = [offset EXCEPT ![w.call.msg] = o]
    BY <2>1, ProduceEffect DEF ToldNothing, toldVars, ProduceTold
  <2> QED
    BY <2>2 DEF IInv, OffsetInv
<1> QED
  BY <1>1, <1>2, LogChange

(* The test that has heard of a produce has been told an offset.           *)
LEMMA ProduceHeard ==
    ASSUME IInv, NEW w \in wire, Arrives(w), w.call.kind = "produce", Kind # "repeat",
           w.call \in calls, w.call \notin calls'
    PROVE  offset'[w.call.msg] # 0
<1>1. ProduceArrives(w)
  BY ArrivalOf
<1>2. PICK o \in 1 .. Len(log') : ProduceTold(w, o)
  BY <1>1, ProduceEffect DEF ToldNothing, testVars
<1>3. w.call.msg \in Produced(test)
  BY <1>1, ProduceEffect
<1> QED
  BY <1>2, <1>3 DEF ProduceTold, IInv, OffsetInv

(* The messages of the steps of these kinds have got an offset, or will.   *)
Answered(kinds) ==
    \A i \in 1 .. at : KindAt(i) \in kinds => \A m \in Script(test)[i].msgs :
        offset[m] # 0 \/ (i = at /\ \E c \in calls : c.kind = "produce" /\ c.msg = m)

LEMMA AnsweredStep ==
    ASSUME IInv, KindInv, [Next]_vars, Live', NEW kinds, kinds \subseteq {"produce", "produceMany"},
           Answered(kinds), "produceMany" \in kinds => ~ \E c \in calls : GivenUp(c)
    PROVE  Answered(kinds)'
<1>0. at \in Nat /\ test \in Tests /\ Len(Script(test)) \in Nat /\ at <= Len(Script(test))
  BY ScriptType DEF IInv, TestInv
<1>1. test' = test
  BY LogChange
<1>2. \A i \in 1 .. at : \A m \in Script(test)[i].msgs : m \in Produced(test)
  BY <1>0, ScriptType
<1>3. \A i \in 1 .. at : \A m \in Script(test)[i].msgs : offset[m] # 0 => offset'[m] # 0
  BY <1>2, OffsetStays
<1>4. CASE Repeats \/ (Begins /\ Asks(Script(test)[at + 1]))
  <2>1. PICK S : Asked(S) /\ Fitting(S)
    BY <1>4, AskedStep
  <2>2. calls' = S /\ calls = {} /\ at' \in {at, at + 1} /\ offset' = offset
    BY <2>1 DEF Asked, Make, Running, toldVars
  <2>3. ASSUME NEW i \in 1 .. at', KindAt(i)' \in kinds, NEW m \in Script(test')[i].msgs
        PROVE  offset'[m] # 0 \/ (i = at' /\ \E c \in calls' : c.kind = "produce" /\ c.msg = m)
    <3>1. KindAt(i)' = KindAt(i)
      BY <1>1 DEF KindAt
    <3>2. CASE i \in 1 .. at
      BY <1>1, <2>2, <2>3, <3>1, <3>2 DEF Answered
    <3>3. CASE i = at + 1 /\ at' = at + 1
      <4>1. Kind' = KindAt(i)
        BY <1>0, <1>1, <3>3 DEF Kind, KindAt
      <4> QED
        BY <1>1, <2>1, <2>2, <2>3, <3>1, <3>3, <4>1 DEF Fitting
    <3> QED
      BY <1>0, <2>2, <3>2, <3>3
  <2> QED
    BY <2>3 DEF Answered
<1>5. CASE Begins /\ Local(Script(test)[at + 1])
  <2>1. Locally
    BY <1>5, LocalStep
  <2>2. calls = {} /\ at' = at + 1 /\ offset' = offset
    BY <2>1 DEF Locally, Running
  <2>3. ASSUME NEW i \in 1 .. at', KindAt(i)' \in kinds, NEW m \in Script(test')[i].msgs
        PROVE  offset'[m] # 0
    <3>1. KindAt(i)' = KindAt(i)
      BY <1>1 DEF KindAt
    <3>2. CASE i \in 1 .. at
      BY <1>1, <2>2, <2>3, <3>1, <3>2 DEF Answered
    <3>3. CASE i = at + 1
      <4>1. Kind' = KindAt(i)
        BY <1>0, <1>1, <2>2, <3>3 DEF Kind, KindAt
      <4> QED
        BY <2>1, <2>3, <3>1, <4>1 DEF Locally
    <3> QED
      BY <1>0, <2>2, <3>2, <3>3
  <2> QED
    BY <2>3 DEF Answered
<1>6. CASE ~Begins /\ ~Repeats
  <2>1. UNCHANGED <<test, at>> /\ calls' \subseteq calls
    BY <1>6, StepCases, WaitsStep
  <2>2. ASSUME NEW i \in 1 .. at, KindAt(i) \in kinds, NEW m \in Script(test)[i].msgs
        PROVE  offset'[m] # 0 \/ (i = at /\ \E c \in calls' : c.kind = "produce" /\ c.msg = m)
    <3>1. CASE offset[m] # 0
      BY <1>3, <3>1
    <3>2. CASE i = at /\ \E c \in calls : c.kind = "produce" /\ c.msg = m
      <4>1. PICK c \in calls : c.kind = "produce" /\ c.msg = m
        BY <3>2
      <4>2. CASE c \in calls'
        BY <3>2, <4>1, <4>2
      <4>3. CASE c \notin calls'
        <5>1. Kind = KindAt(i)
          BY <1>0, <3>2 DEF Kind, KindAt
        <5>2. ~GivenUp(c) /\ Kind # "repeat"
          BY <2>2, <5>1 DEF GivenUp
        <5>3. PICK w \in wire : Arrives(w) /\ w.call = c
          BY <4>3, <5>2, CallEnded
        <5> QED
          BY <4>1, <4>3, <5>2, <5>3, ProduceHeard
      <4> QED
        BY <4>2, <4>3
    <3> QED
      BY <2>2, <3>1, <3>2 DEF Answered
  <2> QED
    BY <2>1, <2>2 DEF Answered, KindAt
<1> QED
  BY <1>4, <1>5, <1>6 DEF Begins

(* What the steps that are done have left.                                 *)
DoneInv == Live =>
    /\ Answered({"produce"})
    /\ \A i \in 1 .. Len(Script(test)) :
         /\ Done(i) /\ KindAt(i) = "ackFirst" => msgs \ todo # {}
         /\ Done(i) /\ KindAt(i) = "malformed" => rejected

LEMMA DoneStep ==
    ASSUME IInv, KindInv, OnceInv, DoneInv, [Next]_vars
    PROVE  DoneInv'
<1> SUFFICES ASSUME Live' PROVE DoneInv'
  BY DEF DoneInv
<1>0. at \in Nat /\ test \in Tests /\ Len(Script(test)) \in Nat /\ at <= Len(Script(test))
  BY ScriptType DEF IInv, TestInv
<1>1. test' = test
  BY LogChange
<1>2. Live
  <2>1. CASE Repeats \/ Begins
    BY <2>1 DEF Repeats, Begins, Running, Live
  <2>2. CASE ~Begins /\ ~Repeats
    BY <2>2, StepCases, WaitsStep
  <2> QED
    BY <2>1, <2>2
<1>3. Answered({"produce"})'
  <2>1. Answered({"produce"}) /\ {"produce"} \subseteq {"produce", "produceMany"}
    BY <1>2 DEF DoneInv
  <2> QED
    BY <2>1, AnsweredStep
<1>4. ASSUME NEW i \in 1 .. Len(Script(test)), Done(i)', KindAt(i) = "ackFirst"
      PROVE  msgs' \ todo' # {}
  <2>1. test # "pipeline"
    BY <1>0, <1>4, ScriptPlaces DEF KindAt
  <2>2. CASE Done(i)
    <3>1. msgs \ todo # {}
      BY <1>2, <1>4, <2>2 DEF DoneInv
    <3>2. msgs' = msgs /\ todo' \subseteq todo
      BY <2>1, <3>1, MessagesKept
    <3> QED
      BY <3>1, <3>2
  <2>3. CASE ~Done(i)
    <3>1. Kind = "ackFirst" /\ \E c \in calls, w \in wire : Arrives(w) /\ w.call = c /\ calls = {c} /\ calls' = {}
      BY <1>4, <2>3, NewlyDone DEF GivenUp, Locally
    <3>2. PICK w \in wire : Arrives(w) /\ w.call \in calls /\ calls' = {}
      BY <3>1
    <3>3. w.call.kind = "ack" /\ w.call.delivery \in msgs
      <4>1. w.call.kind \in {"produce", "poll", "ack", "setup", "stats"}
        BY <3>2, ArrivalOf
      <4> QED
        BY <3>1, <3>2, <4>1 DEF KindInv
    <3>4. AckArrives(w)
      BY <3>2, <3>3, ArrivalOf
    <3>5. msgs' = msgs /\ todo' = todo \ {w.call.delivery}
      BY <3>2, <3>4, AckEffect DEF ToldNothing, testVars, Throws, Live
    <3> QED
      BY <3>3, <3>5
  <2> QED
    BY <2>2, <2>3
<1>5. ASSUME NEW i \in 1 .. Len(Script(test)), Done(i)', KindAt(i) = "malformed"
      PROVE  rejected'
  <2>1. rejected => rejected'
    <3>1. CASE Idle \/ \E c \in calls : Again(c) \/ GivenUp(c)
      BY <3>1 DEF Idle, Again, GivenUp, toldVars
    <3>2. CASE \E w \in wire : Arrives(w)
      BY <3>2 DEF Arrives, ProduceArrives, ToldOffset, PollArrives, ToldMessages, AckArrives,
                 SetupArrives, StatsArrive, Unheard, toldVars
    <3>3. CASE \/ \E o \in DOMAIN log : Pushes(o) \/ Expires(o)
               \/ \E d \in inbox : Handles(d)
      BY <3>3 DEF Pushes, Expires, Handles, toldVars
    <3>4. CASE Repeats \/ Begins
      BY <3>4 DEF Repeats, Begins, Asks, Local, toldVars
    <3> QED
      BY <3>1, <3>2, <3>3, <3>4, StepCases
  <2>2. CASE Done(i)
    BY <1>2, <1>5, <2>1, <2>2 DEF DoneInv
  <2>3. CASE ~Done(i)
    <3>1. CASE Locally /\ Kind' = KindAt(i)
      BY <1>5, <3>1 DEF Locally
    <3>2. CASE Kind = KindAt(i) /\ calls # {}
      <4>1. PICK c \in calls, w \in wire : Arrives(w) /\ w.call = c
        BY <1>5, <2>3, <3>2, NewlyDone DEF GivenUp, Locally, Running
      <4>2. c.kind \in {"produce", "poll", "ack", "setup", "stats"}
        BY <4>1, ArrivalOf
      <4> QED
        BY <1>5, <3>2, <4>2 DEF KindInv
    <3> QED
      BY <1>5, <2>3, <3>1, <3>2, NewlyDone
  <2> QED
    BY <2>2, <2>3
<1> QED
  BY <1>1, <1>3, <1>4, <1>5 DEF DoneInv, KindAt

-----------------------------------------------------------------------------
(* What becomes leased, how leases end, and what polls count.              *)

(* What has become leased has been polled or pushed.                       *)
LEMMA NewlyLeased ==
    ASSUME IInv, KindInv, [Next]_vars, NEW o \in 1 .. Len(log'), state'[o] = "leased"
    PROVE  \/ o \in 1 .. Len(log) /\ state[o] = "leased" /\ lease'[o] = lease[o]
           \/ \E w \in wire, S \in SUBSET Ready(Polled) :
                /\ Arrives(w) /\ PollArrives(w) /\ S \in SUBSET Ready(Nat) /\ Grants(S) /\ o \in S
                /\ ToldNothing(w) \/ PollTold(w, S)
           \/ Pushes(o)
<1>1. Len(log) \in Nat /\ DOMAIN log = 1 .. Len(log) /\ BrokerInv
  BY LogLength DEF IInv
<1>2. CASE UNCHANGED brokerVars
  BY <1>2 DEF brokerVars
<1>3. CASE \E w \in wire : Arrives(w)
  <2>1. PICK w \in wire : Arrives(w)
    BY <1>3
  <2>2. CASE ProduceArrives(w)
    <3>1. w.call.msg \in Nat /\ (Appends(w.call.msg) \/ UNCHANGED brokerVars)
      BY <2>2, ProduceEffect
    <3>2. CASE Appends(w.call.msg)
      <4>1. /\ Len(log') = Len(log) + 1 /\ state'[Len(log) + 1] = "ready"
            /\ \A p \in 1 .. Len(log) : state'[p] = state[p] /\ lease'[p] = lease[p]
        BY <1>1, <3>1, <3>2, AppendsStep
      <4>2. o \in 1 .. Len(log) \/ o = Len(log) + 1
        BY <1>1, <4>1
      <4> QED
        BY <4>1, <4>2
    <3> QED
      BY <1>2, <3>1, <3>2
  <2>3. CASE PollArrives(w)
    <3>1. PICK S \in SUBSET Ready(Polled) :
             /\ S \in SUBSET Ready(Nat) /\ Grants(S)
             /\ ToldNothing(w) \/ PollTold(w, S)
      BY <2>3, PollEffect
    <3>2. /\ log' = log
          /\ \A p \in 1 .. Len(log) : p \notin S => state'[p] = state[p] /\ lease'[p] = lease[p]
      BY <1>1, <3>1, GrantsStep
    <3> QED
      BY <2>1, <2>3, <3>1, <3>2
  <2>4. CASE AckArrives(w)
    <3>1. CASE Current(w.call.delivery) /\ Released(w.call.delivery, "acked")
      <4>1. UNCHANGED <<log, lease>> /\ \A p \in 1 .. Len(log) :
              state'[p] = IF p = w.call.delivery.entry THEN "acked" ELSE state[p]
        BY <1>1, <3>1, ReleasedStep DEF Current
      <4> QED
        BY <4>1
    <3> QED
      BY <1>2, <2>4, <3>1 DEF AckArrives
  <2>5. CASE SetupArrives(w) \/ StatsArrive(w)
    BY <1>2, <2>5 DEF SetupArrives, StatsArrive
  <2> QED
    BY <2>1, <2>2, <2>3, <2>4, <2>5 DEF Arrives
<1>4. CASE \E p \in DOMAIN log : Pushes(p)
  <2>1. PICK p \in DOMAIN log : Pushes(p)
    BY <1>4
  <2>2. {p} \in SUBSET Ready(Nat) /\ Grants({p})
    BY <1>1, <2>1, ReadyType DEF Pushes
  <2>3. /\ log' = log
        /\ \A q \in 1 .. Len(log) : q # p => state'[q] = state[q] /\ lease'[q] = lease[q]
    BY <1>1, <2>2, GrantsStep
  <2> QED
    BY <2>1, <2>3
<1>5. CASE \E p \in DOMAIN log : Expires(p)
  <2>1. PICK p \in DOMAIN log : Expires(p)
    BY <1>5
  <2> DEFINE d == [entry |-> p]
  <2>2. state[d.entry] = "leased" /\ Released(d, "ready")
    BY <2>1 DEF Expires
  <2>3. UNCHANGED <<log, lease>>
        /\ \A q \in 1 .. Len(log) : state'[q] = IF q = d.entry THEN "ready" ELSE state[q]
    BY <1>1, <2>2, ReleasedStep
  <2> QED
    BY <2>3
<1>6. CASE \E d \in inbox : Handles(d)
  <2>1. PICK d \in inbox : Handles(d)
    BY <1>6
  <2>2. CASE Current(d) /\ \E to \in {"ready", "acked"} : Released(d, to)
    <3>1. PICK to \in {"ready", "acked"} : Released(d, to)
      BY <2>2
    <3>2. UNCHANGED <<log, lease>>
          /\ \A q \in 1 .. Len(log) : state'[q] = IF q = d.entry THEN to ELSE state[q]
      BY <1>1, <2>2, <3>1, ReleasedStep DEF Current
    <3> QED
      BY <3>2
  <2> QED
    BY <1>2, <2>1, <2>2 DEF Handles
<1>7. CASE Idle \/ (\E c \in calls : Again(c) \/ GivenUp(c)) \/ Repeats \/ Begins
  BY <1>2, <1>7 DEF Idle, Again, GivenUp, Repeats, Begins
<1> QED
  BY <1>3, <1>4, <1>5, <1>6, <1>7, StepCases

(* A lease ends with an ack, with the report of a handler, or by itself.   *)
LEMMA LeaseEnds ==
    ASSUME IInv, [Next]_vars, NEW o \in 1 .. Len(log), state[o] = "leased"
    PROVE  \/ state'[o] = "leased" /\ lease'[o] = lease[o]
           \/ state'[o] = "acked"
           \/ Expires(o)
           \/ \E d \in inbox : Handles(d) /\ Current(d) /\ d.entry = o
<1>1. Len(log) \in Nat /\ DOMAIN log = 1 .. Len(log) /\ BrokerInv
  BY LogLength DEF IInv
<1>2. CASE UNCHANGED brokerVars
  BY <1>2 DEF brokerVars
<1>3. CASE \E w \in wire : Arrives(w)
  <2>1. PICK w \in wire : Arrives(w)
    BY <1>3
  <2>2. CASE ProduceArrives(w)
    <3>1. w.call.msg \in Nat /\ (Appends(w.call.msg) \/ UNCHANGED brokerVars)
      BY <2>2, ProduceEffect
    <3>2. CASE Appends(w.call.msg)
      BY <1>1, <3>1, <3>2, AppendsStep
    <3> QED
      BY <1>2, <3>1, <3>2
  <2>3. CASE PollArrives(w)
    <3>1. PICK S \in SUBSET Ready(Nat) : Grants(S)
      BY <2>3, ReadyType DEF PollArrives, IInv
    <3>2. o \notin S
      BY <3>1 DEF Ready
    <3> QED
      BY <1>1, <3>1, <3>2, GrantsStep
  <2>4. CASE AckArrives(w)
    <3>1. CASE Current(w.call.delivery) /\ Released(w.call.delivery, "acked")
      <4>1. UNCHANGED lease /\ \A p \in 1 .. Len(log) :
              state'[p] = IF p = w.call.delivery.entry THEN "acked" ELSE state[p]
        BY <1>1, <3>1, ReleasedStep DEF Current
      <4> QED
        BY <4>1
    <3> QED
      BY <1>2, <2>4, <3>1 DEF AckArrives
  <2>5. CASE SetupArrives(w) \/ StatsArrive(w)
    BY <1>2, <2>5 DEF SetupArrives, StatsArrive
  <2> QED
    BY <2>1, <2>2, <2>3, <2>4, <2>5 DEF Arrives
<1>4. CASE \E p \in DOMAIN log : Pushes(p)
  <2>1. PICK p \in DOMAIN log : Pushes(p)
    BY <1>4
  <2>2. {p} \in SUBSET Ready(Nat) /\ Grants({p}) /\ o # p
    BY <1>1, <2>1, ReadyType DEF Pushes, Ready
  <2> QED
    BY <1>1, <2>2, GrantsStep
<1>5. CASE \E p \in DOMAIN log : Expires(p)
  <2>1. PICK p \in DOMAIN log : Expires(p)
    BY <1>5
  <2> DEFINE d == [entry |-> p]
  <2>2. state[d.entry] = "leased" /\ Released(d, "ready")
    BY <2>1 DEF Expires
  <2>3. UNCHANGED lease
        /\ \A q \in 1 .. Len(log) : state'[q] = IF q = d.entry THEN "ready" ELSE state[q]
    BY <1>1, <2>2, ReleasedStep
  <2> QED
    BY <2>1, <2>3
<1>6. CASE \E d \in inbox : Handles(d)
  <2>1. PICK d \in inbox : Handles(d)
    BY <1>6
  <2>2. CASE Current(d) /\ \E to \in {"ready", "acked"} : Released(d, to)
    <3>1. PICK to \in {"ready", "acked"} : Released(d, to)
      BY <2>2
    <3>2. UNCHANGED lease
          /\ \A q \in 1 .. Len(log) : state'[q] = IF q = d.entry THEN to ELSE state[q]
      BY <1>1, <2>2, <3>1, ReleasedStep DEF Current
    <3> QED
      BY <2>1, <2>2, <3>2
  <2> QED
    BY <1>2, <2>1, <2>2 DEF Handles
<1>7. CASE Idle \/ (\E c \in calls : Again(c) \/ GivenUp(c)) \/ Repeats \/ Begins
  BY <1>2, <1>7 DEF Idle, Again, GivenUp, Repeats, Begins
<1> QED
  BY <1>3, <1>4, <1>5, <1>6, <1>7, StepCases

(* The counts of what polls have found.                                    *)
LEMMA CountChange ==
    ASSUME IInv, KindInv, [Next]_vars
    PROVE  \/ UNCHANGED <<left, drained>>
           \/ \E w \in wire, S \in SUBSET Ready(Polled) :
                /\ Arrives(w) /\ PollArrives(w) /\ S \in SUBSET Ready(Nat) /\ Grants(S)
                /\ Cardinality(S) = Min({PollLimit, Cardinality(Ready(Polled))})
                /\ PollTold(w, S) /\ Kind \in {"pollAgain", "drain"}
<1>1. CASE Idle \/ \E c \in calls : Again(c) \/ GivenUp(c)
  BY <1>1 DEF Idle, Again, GivenUp, toldVars
<1>2. CASE \E w \in wire : Arrives(w)
  <2>1. PICK w \in wire : Arrives(w)
    BY <1>2
  <2>2. CASE ProduceArrives(w)
    BY <2>2 DEF ProduceArrives, ToldOffset, Unheard, toldVars
  <2>3. CASE PollArrives(w)
    <3>1. PICK S \in SUBSET Ready(Polled) :
             /\ S \in SUBSET Ready(Nat) /\ Grants(S)
             /\ Cardinality(S) = Min({PollLimit, Cardinality(Ready(Polled))})
             /\ ToldNothing(w) \/ PollTold(w, S)
      BY <2>3, PollEffect
    <3>2. CASE ToldNothing(w)
      BY <3>2 DEF ToldNothing, toldVars
    <3>3. CASE PollTold(w, S)
      BY <2>1, <2>3, <3>1, <3>3 DEF PollTold
    <3> QED
      BY <3>1, <3>2, <3>3
  <2>4. CASE AckArrives(w)
    BY <2>4, AckEffect
  <2>5. CASE SetupArrives(w) \/ StatsArrive(w)
    BY <2>5, OtherEffect
  <2> QED
    BY <2>1, <2>2, <2>3, <2>4, <2>5 DEF Arrives
<1>3. CASE \/ \E o \in DOMAIN log : Pushes(o) \/ Expires(o)
           \/ \E d \in inbox : Handles(d)
  BY <1>3 DEF Pushes, Expires, Handles, toldVars
<1>4. CASE Repeats \/ Begins
  BY <1>4 DEF Repeats, Begins, Asks, Local, toldVars
<1> QED
  BY <1>1, <1>2, <1>3, <1>4, StepCases

(* A set has as many members as a set it is mapped onto one to one.        *)
LEMMA ImageCount ==
    ASSUME NEW S, IsFiniteSet(S), NEW T, NEW f \in [S -> T], \A y \in T : \E x \in S : f[x] = y,
           \A x, y \in S : f[x] = f[y] => x = y
    PROVE  IsFiniteSet(T) /\ Cardinality(T) = Cardinality(S)
<1>1. f \in Surjection(S, T) /\ f \in Injection(S, T)
  <2>1. IsInjective(f)
    BY DEF IsInjective
  <2> QED
    BY <2>1 DEF Surjection, Injection
<1> QED
  BY <1>1, FS_Surjection

(* A poll is answered one delivery for each entry it has leased.           *)
LEMMA LeasedCount ==
    ASSUME BrokerInv, NEW S \in SUBSET Ready(Nat)
    PROVE  /\ IsFiniteSet(S) /\ Cardinality(S) \in Nat
           /\ IsFiniteSet(Leased(S)) /\ Cardinality(Leased(S)) = Cardinality(S)
           /\ Cardinality(S) = 0 => S = {}
           /\ \A d \in Leased(S) : d.entry \in S /\ d.lease = leases'
           /\ \A o \in S : [entry |-> o, lease |-> leases'] \in Leased(S)
<1>1. S \subseteq 1 .. Len(log) /\ Len(log) \in Nat
  BY ReadyType, LogLength
<1>2. IsFiniteSet(S) /\ Cardinality(S) \in Nat
  <2>1. IsFiniteSet(1 .. Len(log))
    BY <1>1, FS_Interval
  <2>2. IsFiniteSet(S)
    BY <1>1, <2>1, FS_Subset
  <2> QED
    BY <2>2, FS_CardinalityType
<1>3. /\ \A d \in Leased(S) : d.entry \in S /\ d.lease = leases'
      /\ \A o \in S : [entry |-> o, lease |-> leases'] \in Leased(S)
  BY DEF Leased
<1>4. IsFiniteSet(Leased(S)) /\ Cardinality(Leased(S)) = Cardinality(S)
  <2> DEFINE f == [o \in S |-> [entry |-> o, lease |-> leases']]
             T == Leased(S)
  <2>1. f \in [S -> T] /\ \A y \in T : \E x \in S : f[x] = y
    BY DEF Leased
  <2>2. \A x, y \in S : f[x] = f[y] => x = y
    <3> SUFFICES ASSUME NEW x \in S, NEW y \in S, f[x] = f[y] PROVE x = y
      OBVIOUS
    <3>1. f[x].entry = x /\ f[y].entry = y
      OBVIOUS
    <3> QED
      BY <3>1
  <2> HIDE DEF f, T
  <2>3. IsFiniteSet(T) /\ Cardinality(T) = Cardinality(S)
    BY <1>2, <2>1, <2>2, ImageCount
  <2> QED
    BY <2>3 DEF T
<1> QED
  BY <1>2, <1>3, <1>4, FS_EmptySet

-----------------------------------------------------------------------------
(* One trouble: an answer is lost or a lease ends, and never both.         *)

(* The delivery of an entry under its lease.                               *)
Delivery(o) == [entry |-> o, lease |-> lease[o]]

(* What a poll was answered is known to the test ...                       *)
Tracked ==
    /\ left = 0 => \A o \in 1 .. Len(log) : state[o] = "leased" => Delivery(o) \in todo
    /\ \A w \in wire : w.call.kind = "poll" =>
         w.call \in calls /\ \A v \in wire : v.call.kind = "poll" => v = w

(* What the pipeline test has been handed, as far as it counts.            *)
Handed == {o \in 1 .. Len(log) : state[o] = "acked" \/ (state[o] = "leased" /\ Delivery(o) \in todo)}

(* ... and no lease ends before its ack: one of the two, with one trouble. *)
Counted ==
    /\ \A d \in msgs : Current(d) \/ state[d.entry] = "acked"
    /\ test = "pipeline" => drained = Cardinality(Handed)

(* With no trouble both hold, and one trouble breaks one of them only:     *)
(* what takes an answer away is not what ends a lease.                     *)
TroubleInv == Live /\ test # "subscribe" =>
    /\ faults = 0 => Tracked /\ Counted
    /\ faults <= 1 => Tracked \/ Counted

(* A test that goes on has not ended before.                               *)
LEMMA LiveBefore ==
    ASSUME IInv, KindInv, [Next]_vars, Live'
    PROVE  Live /\ test' = test
<1>1. CASE Repeats \/ Begins
  BY <1>1, LogChange DEF Repeats, Begins, Running, Live
<1>2. CASE ~Begins /\ ~Repeats
  BY <1>2, StepCases, WaitsStep
<1> QED
  BY <1>1, <1>2

(* A delivery that is current is the one of the lease of its entry.        *)
LEMMA DeliveryCurrent ==
    ASSUME NEW d, Given(d)
    PROVE  /\ d = [entry |-> d.entry, lease |-> d.lease]
           /\ lease[d.entry] = d.lease => Delivery(d.entry) = d
           /\ Current(d) => Delivery(d.entry) = d /\ state[d.entry] = "leased"
BY DEF Given, Deliveries, Delivery, Current

(* A poll is made once as long as no trouble repeats it.                   *)
LEMMA PollsTracked ==
    ASSUME IInv, KindInv, Tracked, Live, Live', [Next]_vars, faults' = faults, test # "subscribe"
    PROVE  \A w \in wire' : w.call.kind = "poll" =>
             w.call \in calls' /\ \A v \in wire' : v.call.kind = "poll" => v = w
<1>1. \A w \in wire : w.call.kind = "poll" =>
         w.call \in calls /\ calls = {w.call} /\ \A v \in wire : v.call.kind = "poll" => v = w
  BY DEF Tracked, KindInv
<1>2. CASE \/ Idle \/ \E o \in DOMAIN log : Pushes(o) \/ Expires(o)
           \/ \E d \in inbox : Handles(d)
  <2>1. wire' = wire /\ calls' = calls
    BY <1>2 DEF Idle, Pushes, Expires, Handles, testVars
  <2> QED
    BY <1>1, <2>1
<1>3. CASE \E c \in calls : Again(c)
  <2>1. PICK c \in calls : Again(c)
    BY <1>3
  <2>2. PICK n : wire' = wire \cup {[call |-> c, copy |-> n]}
    BY <2>1 DEF Again
  <2>3. calls' = calls /\ \A w \in wire : w.call # c
    BY <2>1 DEF Again, testVars, Copies
  <2>4. \A w \in wire' : w \in wire \/ (w = [call |-> c, copy |-> n] /\ w.call = c)
    BY <2>2
  <2>5. c.kind = "poll" => calls = {c}
    BY DEF KindInv
  <2>6. c.kind = "poll" => \A w \in wire : w.call.kind # "poll"
    BY <1>1, <2>3, <2>5
  <2> QED
    BY <1>1, <2>3, <2>4, <2>6
<1>4. CASE \E c \in calls : GivenUp(c)
  <2>1. wire' = wire /\ Kind = "produceMany"
    BY <1>4 DEF GivenUp
  <2>2. \A c \in calls : c.kind # "poll"
    BY <2>1 DEF KindInv
  <2> QED
    BY <1>1, <2>1, <2>2
<1>5. CASE \E w \in wire : Arrives(w)
  <2>1. PICK w \in wire : Arrives(w)
    BY <1>5
  <2>2. wire' = wire \ {w}
    BY <2>1 DEF Arrives
  <2>3. w.call \in calls \/ calls' = calls
    BY <2>1 DEF Arrives, ProduceArrives, PollArrives, AckArrives, SetupArrives, StatsArrive,
                Heard, Unheard, testVars
  <2> SUFFICES ASSUME NEW v \in wire', v.call.kind = "poll"
               PROVE  v.call \in calls' /\ \A u \in wire' : u.call.kind = "poll" => u = v
    OBVIOUS
  <2>4. v \in wire /\ v # w
    BY <2>2
  <2>5. w.call \notin calls
    BY <1>1, <2>4
  <2> QED
    BY <1>1, <2>2, <2>3, <2>4, <2>5
<1>6. CASE Repeats \/ (Begins /\ Asks(Script(test)[at + 1]))
  <2>1. PICK S : Asked(S) /\ Fitting(S)
    BY <1>6, AskedStep
  <2>2. calls = {} /\ calls' = S /\ wire' = wire \cup {[call |-> c, copy |-> 0] : c \in S}
    BY <2>1 DEF Asked, Make, Running
  <2>3. \A w \in wire' : w \in wire \/ (w.call \in S /\ w = [call |-> w.call, copy |-> 0])
    BY <2>2
  <2>4. \A w \in wire : w.call.kind # "poll"
    BY <1>1, <2>2
  <2>5. \A c \in S : c.kind = "poll" => S = {c}
    BY <2>1 DEF Fitting
  <2> QED
    BY <2>2, <2>3, <2>4, <2>5
<1>7. CASE Begins /\ Local(Script(test)[at + 1])
  <2>1. wire' = wire /\ calls' = calls
    BY <1>7, LocalStep DEF Locally
  <2> QED
    BY <1>1, <2>1
<1> QED
  BY <1>2, <1>3, <1>4, <1>5, <1>6, <1>7, StepCases DEF Begins

(* A step without trouble leaves every lease known to the test.            *)
LEMMA TrackedStep ==
    ASSUME IInv, KindInv, PushInv, OnceInv, AckInv, Tracked, Live, Live', [Next]_vars,
           faults' = faults, test # "subscribe"
    PROVE  Tracked'
<1>1. test' = test /\ IInv' /\ Grown /\ AckInv'
  BY LogChange, NextInvariant, AckStep
<1>2. left' = 0 => left = 0
  <2>1. CASE UNCHANGED left
    BY <2>1
  <2>2. CASE \E w \in wire : \E S : PollArrives(w) /\ PollTold(w, S)
    BY <2>2 DEF PollTold, PollArrives, Heard, OnceInv
  <2> QED
    BY <2>1, <2>2, CountChange
<1> SUFFICES ASSUME left' = 0, NEW o \in 1 .. Len(log'), state'[o] = "leased"
             PROVE  Delivery(o)' \in todo'
  BY PollsTracked DEF Tracked
<1>3. CASE o \in 1 .. Len(log) /\ state[o] = "leased" /\ lease'[o] = lease[o]
  <2>1. Delivery(o)' = Delivery(o) /\ Delivery(o) \in todo
    BY <1>2, <1>3 DEF Tracked, Delivery
  <2>2. CASE UNCHANGED <<msgs, todo>>
    BY <2>1, <2>2
  <2>3. CASE \E w \in wire : \E S : PollArrives(w) /\ PollTold(w, S) /\ Kind # "pollAgain"
    BY <2>1, <2>3, NewMessages
  <2>4. CASE \E w \in wire : AckArrives(w) /\ Heard(w) /\ msgs' = msgs /\ todo' = todo \ {w.call.delivery}
    <3>1. PICK w \in wire : AckArrives(w) /\ Heard(w) /\ msgs' = msgs /\ todo' = todo \ {w.call.delivery}
      BY <2>4
    <3>2. w.call.delivery \in msgs
      BY <3>1 DEF AckArrives, Heard, KindInv
    <3>3. ~Current(w.call.delivery)'
      BY <1>1, <3>1, <3>2 DEF AckInv, Owed
    <3>4. Current(Delivery(o))'
      BY <1>3 DEF Current, Delivery
    <3>5. w.call.delivery # Delivery(o)
      BY <2>1, <3>3, <3>4
    <3> QED
      BY <2>1, <3>1, <3>5
  <2> QED
    BY <2>2, <2>3, <2>4, ToldChange
<1>4. ASSUME NEW w \in wire, NEW S \in SUBSET Ready(Polled),
             Arrives(w), PollArrives(w), S \in SUBSET Ready(Nat), Grants(S), o \in S,
             ToldNothing(w) \/ PollTold(w, S)
      PROVE  Delivery(o)' \in todo'
  <2>1. PollTold(w, S)
    <3>1. w.call \in calls
      BY <1>4 DEF Tracked, PollArrives
    <3> QED
      BY <1>4, <3>1 DEF ToldNothing
  <2>2. lease'[o] = leases' /\ [entry |-> o, lease |-> leases'] \in Leased(S)
    BY <1>4, GrantsStep, LeasedCount DEF IInv
  <2>3. CASE Kind = "pollAgain"
    <3>1. Cardinality(Leased(S)) = 0
      BY <2>1, <2>3 DEF PollTold
    <3> QED
      BY <1>4, <3>1, LeasedCount DEF IInv
  <2>4. CASE Kind # "pollAgain"
    BY <2>1, <2>2, <2>4 DEF PollTold, Delivery
  <2> QED
    BY <2>3, <2>4
<1>5. CASE Pushes(o)
  BY <1>5 DEF Pushes, Ready, PushInv
<1> QED
  BY <1>3, <1>4, <1>5, NewlyLeased

(* The lease of a delivery that was polled.                                *)
LEMMA DeliveryStep ==
    ASSUME IInv, PushInv, [Next]_vars, test # "subscribe", NEW d \in msgs, Current(d),
           \A o \in DOMAIN log : Expires(o) => ~UnderWay(o)
    PROVE  Current(d)' \/ state'[d.entry] = "acked"
<1>1. Given(d) /\ d.entry \in 1 .. Len(log)
  BY NextInvariant, GivenStays DEF IInv, DeliveredInv
<1>2. ~Expires(d.entry)
  BY <1>1, LogLength DEF UnderWay, Current, IInv
<1>3. inbox = {}
  BY DEF PushInv
<1> QED
  BY <1>1, <1>2, <1>3, LeaseEnds DEF Current

(* What has been handed to the pipeline test can be counted.               *)
LEMMA HandedCount ==
    ASSUME BrokerInv
    PROVE  IsFiniteSet(Handed) /\ Cardinality(Handed) \in Nat /\ Handed \subseteq 1 .. Len(log)
<1>1. Len(log) \in Nat /\ Handed \subseteq 1 .. Len(log)
  BY LogLength DEF Handed
<1>2. IsFiniteSet(1 .. Len(log))
  BY <1>1, FS_Interval
<1>3. IsFiniteSet(Handed)
  BY <1>1, <1>2, FS_Subset
<1> QED
  BY <1>1, <1>3, FS_CardinalityType

(* What has been handed to the pipeline test stays so.                     *)
LEMMA HandedStays ==
    ASSUME IInv, KindInv, PushInv, OnceInv, AckInv, [Next]_vars, test = "pipeline",
           \A d \in msgs : Current(d) \/ state[d.entry] = "acked",
           \A o \in DOMAIN log : Expires(o) => ~UnderWay(o)
    PROVE  Handed \subseteq Handed'
<1>1. IInv' /\ Grown /\ AckInv' /\ todo \subseteq msgs
  BY NextInvariant, AckStep DEF IInv, DeliveredInv
<1> SUFFICES ASSUME NEW o \in Handed PROVE o \in Handed'
  OBVIOUS
<1>2. o \in 1 .. Len(log) /\ o \in 1 .. Len(log')
  BY <1>1, LogLength, LenProperties DEF Handed, Grown, IInv, BrokerInv
<1>3. CASE state[o] = "acked"
  BY <1>1, <1>2, <1>3 DEF Grown, Handed
<1>4. CASE state[o] = "leased" /\ Delivery(o) \in todo
  <2>0. PICK d : d = Delivery(o)
    OBVIOUS
  <2>1. /\ d \in msgs /\ d \in todo /\ d = [entry |-> o, lease |-> lease[o]] /\ d.entry = o
        /\ d.lease = lease[o] /\ Current(d)
    BY <1>1, <1>4, <2>0 DEF Delivery, Current
  <2>2. Current(d)' \/ state'[o] = "acked"
    BY <2>1, DeliveryStep
  <2>3. CASE Current(d)'
    <3>1. d \in todo'
      <4>1. CASE UNCHANGED <<msgs, todo>>
        BY <2>1, <4>1
      <4>2. CASE \E w \in wire : \E S : PollArrives(w) /\ PollTold(w, S) /\ Kind # "pollAgain"
        BY <2>1, <4>2, NewMessages
      <4>3. CASE msgs' = msgs
        BY <1>1, <2>1, <2>3, <4>3 DEF AckInv, Owed
      <4> QED
        BY <4>1, <4>2, <4>3, ToldChange
    <3>2. d = Delivery(o)' /\ state'[o] = "leased"
      BY <2>1, <2>3 DEF Current, Delivery
    <3> QED
      BY <1>2, <3>1, <3>2 DEF Handed
  <2> QED
    BY <1>2, <2>2, <2>3 DEF Handed
<1> QED
  BY <1>3, <1>4 DEF Handed

(* Only a poll of the drain hands it more.                                 *)
LEMMA NewlyHanded ==
    ASSUME IInv, KindInv, PushInv, OnceInv, AckInv, [Next]_vars, test = "pipeline", NEW o \in Handed'
    PROVE  \/ o \in Handed
           \/ \E w \in wire, S \in SUBSET Ready(Polled) :
                /\ Arrives(w) /\ PollArrives(w) /\ S \in SUBSET Ready(Nat) /\ Grants(S) /\ o \in S
                /\ PollTold(w, S) /\ Kind # "pollAgain"
<1>1. IInv' /\ Grown /\ inbox = {} /\ topic = {} /\ todo \subseteq msgs /\ leases \in Nat
  BY NextInvariant DEF PushInv, IInv, DeliveredInv, BrokerInv
<1>2. o \in 1 .. Len(log')
  BY DEF Handed
<1>3. CASE state'[o] = "acked"
  <2>1. CASE o \in 1 .. Len(log) /\ state[o] = "acked"
    BY <2>1 DEF Handed
  <2>2. CASE \E w \in wire : AckArrives(w) /\ Current(w.call.delivery) /\ o = w.call.delivery.entry
    <3>1. PICK w \in wire : AckArrives(w) /\ Current(w.call.delivery) /\ o = w.call.delivery.entry
      BY <2>2
    <3> DEFINE d == w.call.delivery
    <3>2. Given(d) /\ d \in todo /\ Current(d)
      BY <3>1 DEF AckInv, Owed, AckArrives
    <3>3. d.entry \in 1 .. Len(log) /\ Delivery(d.entry) = d /\ state[d.entry] = "leased"
      BY <1>1, <3>2, GivenStays, DeliveryCurrent DEF IInv
    <3> QED
      BY <3>1, <3>2, <3>3 DEF Handed
  <2> QED
    BY <1>1, <1>2, <1>3, <2>1, <2>2, NewlyAcked
<1>4. CASE state'[o] = "leased" /\ Delivery(o)' \in todo'
  <2>1. CASE \E w \in wire, S \in SUBSET Ready(Polled) :
                /\ Arrives(w) /\ PollArrives(w) /\ S \in SUBSET Ready(Nat) /\ Grants(S)
                /\ PollTold(w, S) /\ Kind # "pollAgain"
    <3>1. PICK w \in wire, S \in SUBSET Ready(Polled) :
                /\ Arrives(w) /\ PollArrives(w) /\ S \in SUBSET Ready(Nat) /\ Grants(S)
                /\ PollTold(w, S) /\ Kind # "pollAgain"
      BY <2>1
    <3>2. Delivery(o)' \in Leased(S)
      BY <1>4, <3>1 DEF PollTold
    <3>3. Delivery(o)'.entry \in S /\ Delivery(o)'.entry = o
      BY <3>1, <3>2, LeasedCount DEF IInv, Delivery
    <3> QED
      BY <3>1, <3>3
  <2>2. CASE todo' \subseteq todo
    <3>1. Delivery(o)' \in todo /\ Delivery(o)'.entry = o /\ Delivery(o)'.lease = lease'[o]
      BY <1>4, <2>2 DEF Delivery
    <3>2. o \in 1 .. Len(log) /\ lease'[o] <= lease[o]
      <4>1. Given(Delivery(o)')
        BY <1>1, <3>1 DEF IInv, DeliveredInv
      <4>2. Delivery(o)'.entry \in 1 .. Len(log)
        BY <1>1, <4>1, GivenStays DEF IInv
      <4> QED
        BY <3>1, <4>1, <4>2 DEF Given
    <3>3. lease[o] \in Nat /\ lease'[o] \in Nat /\ lease[o] <= leases
      <4>1. lease[o] \in 0 .. leases /\ lease'[o] \in 0 .. leases'
        BY <1>1, <1>2, <3>2 DEF IInv, BrokerInv
      <4>2. leases' \in Nat
        BY <1>1 DEF IInv, BrokerInv
      <4> QED
        BY <1>1, <4>1, <4>2
    <3>4. state[o] = "leased" /\ lease'[o] = lease[o]
      BY <1>1, <1>4, <3>2, <3>3 DEF Grown
    <3> QED
      BY <3>1, <3>2, <3>4 DEF Handed, Delivery
  <2> QED
    BY <2>1, <2>2, ToldChange
<1> QED
  BY <1>3, <1>4 DEF Handed

(* As long as no lease under way ends, what is counted is what is handed.  *)
LEMMA CountedStep ==
    ASSUME IInv, KindInv, PushInv, OnceInv, AckInv, Counted, [Next]_vars, test # "subscribe",
           \A o \in DOMAIN log : Expires(o) => ~UnderWay(o)
    PROVE  Counted'
<1>1. IInv' /\ Grown /\ test' = test
  BY NextInvariant, LogChange
<1>2. ASSUME NEW d \in msgs' PROVE Current(d)' \/ state'[d.entry] = "acked"
  <2>1. CASE msgs' = msgs
    <3>1. Given(d) /\ (Current(d) \/ state[d.entry] = "acked")
      BY <1>2, <2>1 DEF Counted, IInv, DeliveredInv
    <3>2. state[d.entry] = "acked" => state'[d.entry] = "acked"
      BY <1>1, <3>1, GivenStays DEF IInv
    <3> QED
      BY <1>2, <2>1, <3>1, <3>2, DeliveryStep
  <2>2. CASE \E w \in wire, S \in SUBSET Ready(Nat) : Grants(S) /\ PollTold(w, S) /\ Kind # "pollAgain"
    <3>1. PICK w \in wire, S \in SUBSET Ready(Nat) : Grants(S) /\ PollTold(w, S) /\ Kind # "pollAgain"
      BY <2>2
    <3>2. d \in {[entry |-> o, lease |-> leases'] : o \in S}
      BY <1>2, <3>1 DEF PollTold, Leased
    <3> QED
      BY <3>1, <3>2, LeaseDelivery DEF IInv
  <2> QED
    BY <2>1, <2>2, ToldChange
<1>3. ASSUME test = "pipeline" PROVE drained' = Cardinality(Handed')
  <2>1. Handed \subseteq Handed' /\ drained = Cardinality(Handed)
    BY <1>3, HandedStays DEF Counted
  <2>2. CASE \E w \in wire, S \in SUBSET Ready(Polled) :
                /\ Arrives(w) /\ PollArrives(w) /\ S \in SUBSET Ready(Nat) /\ Grants(S)
                /\ PollTold(w, S) /\ Kind # "pollAgain"
    <3>1. PICK w \in wire, S \in SUBSET Ready(Polled) :
                /\ Arrives(w) /\ PollArrives(w) /\ S \in SUBSET Ready(Nat) /\ Grants(S)
                /\ PollTold(w, S) /\ Kind # "pollAgain"
      BY <2>2
    <3>2. Kind = "drain"
      <4>1. at \in 1 .. Len(Script(test)) /\ Kind = Script(test)[at].kind /\ test \in Tests
        BY <3>1, NewMessages DEF IInv, TestInv
      <4>2. Kind # "poll"
        BY <1>3, <4>1, ScriptPlaces
      <4> QED
        BY <3>1, <4>2 DEF PollTold
    <3>3. drained' = drained + Cardinality(S) /\ IsFiniteSet(S) /\ Cardinality(S) \in Nat
      BY <3>1, <3>2, LeasedCount DEF PollTold, IInv
    <3>4. Handed' = Handed \cup S
      <4>1. S \subseteq Handed'
        <5> SUFFICES ASSUME NEW o \in S PROVE o \in Handed'
          OBVIOUS
        <5>1. o \in 1 .. Len(log) /\ lease'[o] = leases' /\ state'[o] = "leased" /\ log' = log
          BY <3>1, GrantsStep DEF IInv
        <5>2. Delivery(o)' \in todo'
          BY <3>1, <5>1, LeasedCount DEF IInv, PollTold, Delivery
        <5> QED
          BY <5>1, <5>2 DEF Handed
      <4>2. Handed' \subseteq Handed \cup S
        <5> SUFFICES ASSUME NEW o \in Handed' PROVE o \in Handed \cup S
          OBVIOUS
        <5>1. CASE \E v \in wire, T \in SUBSET Ready(Nat) :
                     Grants(T) /\ o \in T /\ PollTold(v, T) /\ Kind # "pollAgain"
          <6>1. PICK v \in wire, T \in SUBSET Ready(Nat) :
                     Grants(T) /\ o \in T /\ PollTold(v, T) /\ Kind # "pollAgain"
            BY <5>1
          <6>2. Leased(T) = Leased(S)
            BY <3>1, <6>1 DEF PollTold
          <6>3. [entry |-> o, lease |-> leases'] \in Leased(S)
            BY <6>1, <6>2, LeasedCount DEF IInv
          <6>4. [entry |-> o, lease |-> leases'].entry \in S
            BY <3>1, <6>3, LeasedCount DEF IInv
          <6> QED
            BY <6>4
        <5> QED
          BY <1>3, <5>1, NewlyHanded
      <4> QED
        BY <2>1, <4>1, <4>2
    <3>5. Handed \cap S = {}
      BY <3>1 DEF Handed, Ready
    <3>6. IsFiniteSet(Handed) /\ Cardinality(Handed) \in Nat
      BY HandedCount DEF IInv
    <3>7. Cardinality(Handed \cup S) = Cardinality(Handed) + Cardinality(S)
      <4>1. Cardinality(Handed \cup S)
              = Cardinality(Handed) + Cardinality(S) - Cardinality(Handed \cap S)
        BY <3>3, <3>6, FS_Union
      <4>2. Cardinality(Handed \cap S) = 0
        BY <3>5, FS_EmptySet
      <4> QED
        BY <3>3, <3>6, <4>1, <4>2
    <3> QED
      BY <2>1, <3>3, <3>4, <3>7
  <2>3. CASE /\ drained' = drained
             /\ ~ \E w \in wire, S \in SUBSET Ready(Polled) :
                    /\ Arrives(w) /\ PollArrives(w) /\ S \in SUBSET Ready(Nat) /\ Grants(S)
                    /\ PollTold(w, S) /\ Kind # "pollAgain"
    <3>1. Handed' = Handed
      BY <1>3, <2>1, <2>3, NewlyHanded
    <3> QED
      BY <2>1, <2>3, <3>1
  <2>4. CASE \E w \in wire : \E S : Arrives(w) /\ PollArrives(w) /\ PollTold(w, S) /\ Kind = "pollAgain"
    <3>1. Kind = "pollAgain"
      BY <2>4
    <3>2. at \in 1 .. Len(Script(test)) /\ Kind = Script(test)[at].kind /\ test \in Tests
      BY <3>1, CallPlace
    <3> QED
      BY <1>3, <3>1, <3>2, ScriptPlaces
  <2> QED
    BY <2>2, <2>3, <2>4, CountChange
<1> QED
  BY <1>1, <1>2, <1>3 DEF Counted

(* A lease that ends by itself is still the only trouble.                  *)
LEMMA ExpiresTracked ==
    ASSUME IInv, Tracked, NEW o \in DOMAIN log, Expires(o)
    PROVE  Tracked'
<1>1. UNCHANGED <<left, todo, wire, calls, log, lease>>
  BY DEF Expires, testVars, toldVars, Released
<1>2. state[o] = "leased" /\ Released([entry |-> o], "ready")
  BY DEF Expires
<1>3. \A p \in 1 .. Len(log) : state'[p] = IF p = o THEN "ready" ELSE state[p]
  BY <1>2, ReleasedStep DEF IInv
<1>4. \A p \in 1 .. Len(log) : state'[p] = "leased" => state[p] = "leased"
  BY <1>3
<1> QED
  BY <1>1, <1>4 DEF Tracked, Delivery

(* The one trouble loses either an answer or a lease, and not both.        *)
LEMMA TroubleStep ==
    ASSUME IInv, KindInv, PushInv, OnceInv, AckInv, TroubleInv, [Next]_vars
    PROVE  TroubleInv'
<1> SUFFICES ASSUME Live', test' # "subscribe"
             PROVE  /\ faults' = 0 => Tracked' /\ Counted'
                    /\ faults' <= 1 => Tracked' \/ Counted'
  BY DEF TroubleInv
<1>1. Live /\ test' = test
  BY LiveBefore
<1>2. /\ faults = 0 => Tracked /\ Counted
      /\ faults <= 1 => Tracked \/ Counted
  BY <1>1 DEF TroubleInv
<1>3. /\ faults' = faults \/ faults' = faults + 1
      /\ faults \in Nat
  BY FaultsGrow
<1>4. CASE \E o \in DOMAIN log : Expires(o) /\ UnderWay(o)
  <2>1. PICK o \in DOMAIN log : Expires(o) /\ UnderWay(o)
    BY <1>4
  <2>2. faults' # faults
    BY <2>1, DaemonAssumption DEF Expires, Trouble, IInv, DaemonInv, DaemonTypeOK
  <2>3. Tracked => Tracked'
    BY <2>1, ExpiresTracked
  <2> QED
    BY <1>2, <1>3, <2>2, <2>3
<1>5. CASE \A o \in DOMAIN log : Expires(o) => ~UnderWay(o)
  <2>1. Counted => Counted'
    BY <1>1, <1>5, CountedStep
  <2>2. Tracked /\ faults' = faults => Tracked'
    BY <1>1, TrackedStep
  <2> QED
    BY <1>2, <1>3, <2>1, <2>2
<1> QED
  BY <1>4, <1>5

-----------------------------------------------------------------------------
(* What the last polls of a test show.                                     *)

(* There are finitely many deliveries.                                     *)
LEMMA DeliveriesFinite ==
    ASSUME BrokerInv, NEW D, \A d \in D : Given(d)
    PROVE  IsFiniteSet(D)
<1> DEFINE P == (1 .. Len(log)) \X (0 .. leases)
           f == [d \in D |-> <<d.entry, d.lease>>]
<1>1. Len(log) \in Nat /\ leases \in Nat
  BY LogLength DEF BrokerInv
<1>2. IsFiniteSet(P)
  <2>1. IsFiniteSet(1 .. Len(log)) /\ IsFiniteSet(0 .. leases)
    BY <1>1, FS_Interval
  <2> QED
    BY <2>1, FS_Product
<1>3. \A d \in D : /\ d = [entry |-> d.entry, lease |-> d.lease]
                   /\ d.entry \in 1 .. Len(log) /\ d.lease \in 0 .. leases
  <2> SUFFICES ASSUME NEW d \in D
               PROVE  /\ d = [entry |-> d.entry, lease |-> d.lease]
                      /\ d.entry \in 1 .. Len(log) /\ d.lease \in 0 .. leases
    OBVIOUS
  <2>1. Given(d) /\ d.entry \in 1 .. MaxLog /\ d.lease \in Nat
    BY DEF Given, Deliveries, Offsets
  <2>2. d.entry \in 1 .. Len(log) /\ d = [entry |-> d.entry, lease |-> d.lease]
    BY <1>1, <2>1 DEF Given, Deliveries
  <2>3. lease[d.entry] \in 0 .. leases
    BY <2>2 DEF BrokerInv
  <2> QED
    BY <1>1, <2>1, <2>2, <2>3 DEF Given
<1>4. f \in [D -> P]
  BY <1>3
<1>5. \A d, e \in D : f[d] = f[e] => d = e
  <2> SUFFICES ASSUME NEW d \in D, NEW e \in D, f[d] = f[e] PROVE d = e
    OBVIOUS
  <2>1. d.entry = e.entry /\ d.lease = e.lease
    OBVIOUS
  <2> QED
    BY <1>3, <2>1
<1> HIDE DEF f, P
<1>6. f \in Injection(D, P)
  <2>1. IsInjective(f)
    BY <1>4, <1>5 DEF IsInjective
  <2> QED
    BY <1>4, <2>1 DEF Injection
<1> QED
  BY <1>2, <1>6, FS_Injection

(* A poll that finds nothing leaves nothing that was ready.                *)
LEMMA EmptyPoll ==
    ASSUME IInv, SourceInv, test # "subscribe", NEW S \in SUBSET Ready(Polled), S \in SUBSET Ready(Nat),
           Cardinality(S) = Min({PollLimit, Cardinality(Ready(Polled))}), Cardinality(Leased(S)) = 0
    PROVE  S = {} /\ \A o \in 1 .. Len(log) : state[o] # "ready"
<1>1. S = {} /\ Cardinality(S) = 0
  BY LeasedCount DEF IInv
<1>2. PollLimit \in Nat \ {0}
  BY SmokeAssumption DEF PollLimit
<1>3. IsFiniteSet(Ready(Polled)) /\ Cardinality(Ready(Polled)) \in Nat
  <2>1. Ready(Polled) \in SUBSET Ready(Nat)
    BY ReadyType DEF IInv
  <2> QED
    BY <2>1, LeasedCount DEF IInv
<1>4. Cardinality(Ready(Polled)) = 0
  <2> DEFINE T == {PollLimit, Cardinality(Ready(Polled))}
  <2>1. T \in SUBSET Nat /\ T # {}
    BY <1>2, <1>3
  <2>2. Min(T) \in T
    BY <2>1, MinIsLeast
  <2> QED
    BY <1>1, <1>2, <2>2
<1>5. Ready(Polled) = {}
  BY <1>3, <1>4, FS_EmptySet
<1>6. \A o \in 1 .. Len(log) : log[o] \in Polled
  BY DEF SourceInv, Polled
<1>7. \A o \in 1 .. Len(log) : state[o] # "ready"
  BY <1>5, <1>6, LogLength DEF Ready, IInv
<1> QED
  BY <1>1, <1>7

(* What was told an offset is acked there.                                 *)
TellsAcked == \A m \in Produced(test) : offset[m] # 0 => state[offset[m]] = "acked"

(* With nothing ready and nothing still to ack, all of the log is acked.   *)
LEMMA EmptyTracked ==
    ASSUME IInv, Tracked, left = 0, todo = {}, \A o \in 1 .. Len(log) : state[o] # "ready"
    PROVE  \A o \in 1 .. Len(log) : state[o] = "acked"
<1>1. \A o \in 1 .. Len(log) : state[o] \in {"ready", "leased", "acked"}
  BY DEF IInv, BrokerInv
<1> QED
  BY <1>1 DEF Tracked

(* When the drain has found nothing more, what was told is acked, or every *)
(* lease that was given has been counted.                                  *)
DrainInv == Live /\ Kind = "drain" /\ calls = {} /\ msgs = {} =>
    /\ faults = 0 => TellsAcked
    /\ faults <= 1 => TellsAcked \/ Counted

LEMMA DrainStep ==
    ASSUME IInv, KindInv, PushInv, OnceInv, AckInv, SourceInv, TroubleInv, DrainInv, [Next]_vars
    PROVE  DrainInv'
<1> SUFFICES ASSUME Live', Kind' = "drain", calls' = {}, msgs' = {}
             PROVE  /\ faults' = 0 => TellsAcked'
                    /\ faults' <= 1 => TellsAcked' \/ Counted'
  BY DEF DrainInv
<1>1. Live /\ test' = test /\ IInv' /\ Grown
  BY LiveBefore, NextInvariant
<1>2. faults \in Nat /\ (faults' = faults \/ faults' = faults + 1)
  BY FaultsGrow
<1>3. ~Repeats /\ ~Begins
  <2>1. ASSUME Repeats \/ (Begins /\ Asks(Script(test)[at + 1])) PROVE FALSE
    <3>1. PICK S : Asked(S) /\ Fitting(S)
      BY <2>1, AskedStep
    <3> QED
      BY <3>1 DEF Asked, Make, Fitting
  <2>2. ASSUME Begins /\ Local(Script(test)[at + 1]) PROVE FALSE
    BY <2>2, LocalStep DEF Locally
  <2> QED
    BY <2>1, <2>2 DEF Begins
<1>4. Kind = "drain"
  BY <1>3, StepCases, WaitsStep
<1>5. at \in 1 .. Len(Script(test)) /\ Kind = Script(test)[at].kind /\ test \in Tests
  BY <1>4, CallPlace
<1>6. test = "pipeline" /\ inbox = {} /\ left = 0
  BY <1>4, <1>5, ScriptPlaces DEF PushInv, OnceInv
<1>7. CASE calls = {}
  <2>1. msgs = {}
    BY <1>4, <1>7, ToldChange DEF PollTold, Heard
  <2>2. offset' = offset
    <3>1. CASE \E w \in wire : ProduceArrives(w)
      <4>1. PICK w \in wire : ProduceArrives(w)
        BY <3>1
      <4>2. ToldNothing(w) \/ \E o : ProduceTold(w, o)
        BY <4>1, ProduceEffect
      <4> QED
        BY <1>7, <4>2 DEF ToldNothing, toldVars, ProduceTold, Heard
    <3> QED
      BY <3>1, LogChange
  <2>3. TellsAcked => TellsAcked'
    <3> SUFFICES ASSUME TellsAcked, NEW m \in Produced(test), offset[m] # 0
                 PROVE  state'[offset[m]] = "acked"
      BY <1>1, <2>2 DEF TellsAcked
    <3>1. offset[m] \in 1 .. Len(log) /\ state[offset[m]] = "acked"
      BY DEF IInv, OffsetInv, TellsAcked
    <3> QED
      BY <1>1, <3>1 DEF Grown
  <2>4. \A o \in DOMAIN log : ~UnderWay(o)
    BY <1>6, <2>1 DEF UnderWay
  <2>5. Counted => Counted'
    BY <1>6, <2>4, CountedStep
  <2> QED
    BY <1>1, <1>2, <1>4, <1>7, <2>1, <2>3, <2>5 DEF DrainInv
<1>8. CASE calls # {}
  <2>1. PICK c \in calls : c \notin calls'
    BY <1>8
  <2>2. PICK w \in wire : Arrives(w) /\ w.call = c /\ calls' = calls \ {c}
    BY <1>4, <2>1, CallEnded DEF GivenUp
  <2>3. c.kind \in {"poll", "ack"} /\ (c.kind = "ack" => c.delivery \in msgs)
    <3>1. c.kind \in {"produce", "poll", "ack", "setup", "stats"}
      BY <2>2, ArrivalOf
    <3> QED
      BY <1>4, <3>1 DEF KindInv
  <2>4. c.kind = "poll"
    <3>1. SUFFICES ASSUME c.kind = "ack" PROVE FALSE
      BY <2>3
    <3>2. msgs' = msgs
      BY <2>2, <3>1, ArrivalOf, AckEffect
    <3> QED
      BY <2>3, <3>1, <3>2
  <2>5. PollArrives(w)
    BY <2>2, <2>4, ArrivalOf
  <2>6. PICK S \in SUBSET Ready(Polled) :
             /\ S \in SUBSET Ready(Nat) /\ Grants(S)
             /\ Cardinality(S) = Min({PollLimit, Cardinality(Ready(Polled))})
             /\ PollTold(w, S)
    BY <2>1, <2>5, PollEffect DEF ToldNothing, testVars
  <2>7. Leased(S) = {} /\ todo = {} /\ faults' = faults /\ offset' = offset
    BY <1>4, <2>5, <2>6, NewMessages DEF PollTold, Heard
  <2>8. Cardinality(Leased(S)) = 0
    BY <2>7, FS_EmptySet
  <2>9. \A o \in 1 .. Len(log) : state[o] # "ready"
    BY <1>6, <2>6, <2>8, EmptyPoll
  <2>10. Tracked => TellsAcked'
    <3> SUFFICES ASSUME Tracked, NEW m \in Produced(test), offset[m] # 0
                 PROVE  state'[offset[m]] = "acked"
      BY <1>1, <2>7 DEF TellsAcked
    <3>1. offset[m] \in 1 .. Len(log)
      BY DEF IInv, OffsetInv
    <3>2. state[offset[m]] = "acked"
      BY <1>6, <2>7, <2>9, <3>1, EmptyTracked
    <3> QED
      BY <1>1, <3>1, <3>2 DEF Grown
  <2>11. \A o \in DOMAIN log : ~Expires(o)
    <3>1. \A o \in DOMAIN log : Expires(o) => calls' = calls
      BY DEF Expires, testVars
    <3> QED
      BY <2>1, <3>1
  <2>12. Counted => Counted'
    BY <1>6, <2>11, CountedStep
  <2> QED
    BY <1>1, <1>6, <2>7, <2>10, <2>12 DEF TroubleInv
<1> QED
  BY <1>7, <1>8

(* Before the second poll of smoke.mjs one message has been acked.         *)
LEMMA AckedFirst ==
    ASSUME IInv, DoneInv, Live, test = "smoke", NEW i \in 1 .. Len(Script(test)), i <= at,
           KindAt(i) = "pollAgain"
    PROVE  msgs \ todo # {}
<1>1. at \in Nat /\ test \in Tests /\ Len(Script(test)) \in Nat /\ at <= Len(Script(test))
  BY ScriptType DEF IInv, TestInv
<1>2. PICK j \in 1 .. i - 1 : Script(test)[j].kind = "ackFirst"
  BY <1>1, ScriptOrder DEF KindAt
<1>3. j \in 1 .. Len(Script(test)) /\ j < at
  BY <1>1, <1>2
<1> QED
  BY <1>2, <1>3 DEF DoneInv, Done, KindAt

(* The second poll of smoke.mjs finds nothing only after an ack: one       *)
(* answer lost, or one lease ended, is not enough to hide that none was.   *)
SmokeInv == Live /\ test = "smoke" /\ left = 0 /\ Cardinality(msgs) = 1 /\ faults <= 1 =>
    \A i \in 1 .. Len(Script(test)) : Done(i) /\ KindAt(i) = "pollAgain" =>
        \E o \in 1 .. Len(log) : state[o] = "acked"

LEMMA SmokeStep ==
    ASSUME IInv, KindInv, OnceInv, AckInv, SourceInv, DoneInv, TroubleInv, SmokeInv, [Next]_vars
    PROVE  SmokeInv'
<1> SUFFICES ASSUME Live', test' = "smoke", left' = 0, Cardinality(msgs') = 1, faults' <= 1,
                    NEW i \in 1 .. Len(Script(test')), Done(i)', KindAt(i)' = "pollAgain"
             PROVE  \E o \in 1 .. Len(log') : state'[o] = "acked"
  BY DEF SmokeInv
<1>1. Live /\ test' = test /\ IInv' /\ Grown /\ test \in Tests
  BY LiveBefore, NextInvariant DEF IInv, TestInv
<1>2. faults \in Nat /\ faults' \in Nat /\ (faults' = faults \/ faults' = faults + 1)
  BY FaultsGrow
<1>3. KindAt(i) = "pollAgain" /\ i \in 1 .. Len(Script(test)) /\ test = "smoke"
  BY <1>1 DEF KindAt
<1>4. at \in Nat /\ Len(Script(test)) \in Nat /\ at <= Len(Script(test)) /\ Len(log) \in Nat /\ Len(log') \in Nat
  BY <1>1, ScriptType, LogLength, LenProperties DEF IInv, TestInv, BrokerInv
<1>5. \A o \in 1 .. Len(log) : o \in 1 .. Len(log') /\ (state[o] = "acked" => state'[o] = "acked")
  BY <1>1, <1>4 DEF Grown
<1>6. i <= at
  BY <1>1, <1>3, <1>4, NewlyDone DEF Done, Locally
<1>7. msgs \ todo # {} /\ msgs' = msgs /\ faults <= 1
  <2>1. msgs \ todo # {}
    BY <1>1, <1>3, <1>6, AckedFirst
  <2> QED
    BY <1>2, <1>3, <2>1, MessagesKept
<1>8. CASE Done(i)
  <2>1. left = 0
    <3>1. CASE UNCHANGED left
      BY <3>1
    <3>2. CASE \E w \in wire : \E S : PollArrives(w) /\ PollTold(w, S)
      BY <3>2 DEF PollTold, PollArrives, Heard, OnceInv
    <3> QED
      BY <3>1, <3>2, CountChange
  <2>2. \E o \in 1 .. Len(log) : state[o] = "acked"
    BY <1>1, <1>3, <1>7, <1>8, <2>1 DEF SmokeInv
  <2> QED
    BY <1>5, <2>2
<1>9. CASE ~Done(i)
  <2>1. PICK w \in wire : Arrives(w) /\ w.call \in calls /\ Kind = "pollAgain" /\ calls' = {}
    BY <1>1, <1>3, <1>9, NewlyDone DEF GivenUp, Locally
  <2>2. w.call.kind = "poll"
    <3>1. w.call.kind \in {"produce", "poll", "ack", "setup", "stats"}
      BY <2>1, ArrivalOf
    <3> QED
      BY <2>1, <3>1 DEF KindInv
  <2>3. PollArrives(w)
    BY <2>1, <2>2, ArrivalOf
  <2>4. PICK S \in SUBSET Ready(Polled) :
             /\ S \in SUBSET Ready(Nat)
             /\ Cardinality(S) = Min({PollLimit, Cardinality(Ready(Polled))})
             /\ PollTold(w, S)
    BY <2>1, <2>3, PollEffect DEF ToldNothing, testVars
  <2>5. Cardinality(Leased(S)) = 0 /\ left = 0
    BY <2>1, <2>2, <2>4 DEF PollTold, OnceInv
  <2>6. \A o \in 1 .. Len(log) : state[o] # "ready"
    BY <1>3, <2>4, <2>5, EmptyPoll
  <2>7. PICK d \in msgs \ todo : todo \subseteq msgs
    BY <1>7 DEF IInv, DeliveredInv
  <2>8. msgs = {d} /\ todo = {}
    <3>1. IsFiniteSet(msgs)
      BY DeliveriesFinite DEF IInv, DeliveredInv
    <3>2. \E e : msgs = {e}
      BY <1>7, <3>1, FS_Singleton
    <3> QED
      BY <2>7, <3>2
  <2>9. Given(d) /\ d.entry \in 1 .. Len(log) /\ ~Current(d)
    <3>1. Given(d) /\ ~Current(d)
      BY <2>7 DEF AckInv, Owed
    <3> QED
      BY <1>1, <3>1, GivenStays DEF IInv
  <2>10. CASE Tracked
    <3>1. state[d.entry] = "acked"
      BY <2>5, <2>6, <2>8, <2>9, <2>10, EmptyTracked
    <3> QED
      BY <1>5, <2>9, <3>1
  <2>11. CASE Counted
    BY <1>5, <2>7, <2>9, <2>11 DEF Counted
  <2> QED
    BY <1>1, <1>3, <1>7, <2>10, <2>11 DEF TroubleInv
<1> QED
  BY <1>8, <1>9

-----------------------------------------------------------------------------
(* No trouble: the daemon serves, and every call is answered once.         *)

(* No call was late, lost or repeated, and no lease or process has ended.  *)
Healthy == faults = 0 /\ Live

(* A test without trouble so far had none before.                          *)
LEMMA HealthyBefore ==
    ASSUME IInv, KindInv, [Next]_vars, Healthy'
    PROVE  Healthy /\ test' = test /\ faults' = faults
BY LiveBefore, FaultsGrow DEF Healthy

(* A step that counts no trouble makes none.                               *)
LEMMA NoTrouble ==
    ASSUME IInv, faults' = faults
    PROVE  \A kind : ~Trouble(kind)
BY DaemonAssumption DEF Trouble, IInv, DaemonInv, DaemonTypeOK

(* Without trouble the daemon of a test serves it until it is stopped.     *)
ServedInv == Healthy =>
    /\ stopping = "no" /\ ~late /\ startup # "failed"
    /\ child \in Gone => occupied
    /\ startup = "up" => Listening
    /\ pc = "run" => startup \in {"none", "up"}
    /\ pc = "start" => topic = {} /\ inbox = {}

(* Whoever waits for an answer or a message waits for a daemon that        *)
(* listens.                                                                *)
LEMMA ServedHere ==
    ASSUME IInv, ServedInv, Healthy
    PROVE  /\ pc = "run" => Listening
           /\ calls # {} \/ inbox # {} \/ topic # {} => Listening /\ pc = "run"
BY DEF ServedInv, Healthy, Live, Listening, IInv, TestInv

LEMMA ServedStep ==
    ASSUME IInv, KindInv, PushInv, ServedInv, [Next]_vars
    PROVE  ServedInv'
<1> SUFFICES ASSUME Healthy' PROVE ServedInv'
  BY DEF ServedInv
<1>1. Healthy /\ faults' = faults
  BY HealthyBefore
<1>2. \A kind : ~Trouble(kind)
  BY <1>1, NoTrouble
<1>3. /\ stopping = "no" /\ ~late /\ startup # "failed"
      /\ child \in Gone => occupied
      /\ startup = "up" => Listening
      /\ pc = "run" => startup \in {"none", "up"}
      /\ pc = "start" => topic = {} /\ inbox = {}
      /\ pc \in {"start", "run"}
  BY <1>1 DEF ServedInv, Healthy, Live
<1>4. CASE DaemonSteps
  <2>1. UNCHANGED <<pc, topic, inbox>>
    BY <1>4 DEF DaemonSteps, Others, testVars, pushVars
  <2>2. CASE Waits
    BY <1>3, <2>1, <2>2 DEF Waits, SpawnFails, TestDeadline, TryConnect, WakeUp,
                            StopAfterFailure, Listening, ServedInv
  <2>3. CASE DeadlinePasses
    BY <1>2, <1>3, <2>3 DEF DeadlinePasses
  <2>4. CASE ExitEvent
    BY <1>3, <2>1, <2>4 DEF ExitEvent, Listening, ServedInv
  <2>5. CASE Boots
    BY <1>3, <2>1, <2>5 DEF Boots, Listening, ServedInv, Gone
  <2>6. CASE Killed \/ Dies
    BY <1>2, <1>3, <2>6 DEF Killed, Dies
  <2> QED
    BY <1>4, <2>2, <2>3, <2>4, <2>5, <2>6 DEF DaemonSteps, DaemonNext
<1>5. CASE StopsDaemon \/ Exits
  BY <1>3, <1>5 DEF StopsDaemon, Exits, Healthy, Live
<1>6. CASE UNCHANGED daemonVars
  <2>1. (startup \in {"none", "up"} /\ pc' = "run") \/ pc' = pc
    <3>1. CASE Starts
      BY <3>1 DEF Starts
    <3>2. CASE Begins \/ Repeats
      BY <3>2 DEF Begins, Repeats
    <3>3. CASE NothingToAck \/ Concludes \/ Throws
      BY <3>3 DEF NothingToAck, Concludes, Throws, Healthy, Live
    <3>4. CASE \E w \in wire : Arrives(w)
      BY <3>3, <3>4 DEF Arrives, ProduceArrives, PollArrives, AckArrives, SetupArrives, StatsArrive,
                Heard, Unheard, testVars
    <3>5. CASE \E o \in DOMAIN log : Pushes(o) \/ Expires(o)
      BY <3>5 DEF Pushes, Expires, testVars
    <3>6. CASE \E d \in inbox : Handles(d)
      BY <3>6 DEF Handles, testVars
    <3>7. CASE \E c \in calls : TimesOut(c)
      BY <3>3, <3>7 DEF TimesOut, Rejects, testVars
    <3>8. CASE UNCHANGED vars
      BY <3>8 DEF vars, testVars
    <3>9. CASE DaemonSteps
      BY <3>9 DEF DaemonSteps, Others, testVars
    <3>10. ~StopsDaemon /\ ~Exits
      BY <1>3 DEF StopsDaemon, Exits
    <3> QED
      BY <3>1, <3>2, <3>3, <3>4, <3>5, <3>6, <3>7, <3>8, <3>9, <3>10
         DEF Next, TestSteps, Broker, Finished
  <2>2. pc' = "start" => topic' = {} /\ inbox' = {}
    <3>1. ASSUME pc' = "start" PROVE pc = "start"
      BY <2>1, <3>1
    <3>2. ASSUME pc' = "start" PROVE topic' = {} /\ inbox' = {}
      <4>1. topic = {} /\ inbox = {} /\ pc = "start"
        BY <1>3, <3>1, <3>2
      <4>2. ~Begins /\ ~Repeats
        BY <4>1 DEF Begins, Repeats, Running
      <4>3. CASE Idle \/ \E c \in calls : Again(c) \/ GivenUp(c)
        BY <4>1, <4>3 DEF Idle, Again, GivenUp, pushVars
      <4>4. CASE (\E w \in wire : Arrives(w)) \/ \E o \in DOMAIN log : Pushes(o) \/ Expires(o)
        BY <4>1, <4>4 DEF Arrives, Pushes, Ready, Expires, pushVars
      <4> QED
        BY <4>1, <4>2, <4>3, <4>4, StepCases
    <3> QED
      BY <3>2
  <2> QED
    BY <1>3, <1>6, <2>1, <2>2 DEF daemonVars, Listening, ServedInv
<1>7. DaemonSteps \/ StopsDaemon \/ Exits \/ UNCHANGED daemonVars
  BY DEF Next, TestSteps, Starts, Begins, NothingToAck, Repeats, Concludes, Broker, Arrives, Pushes,
         Expires, Handles, TimesOut, Finished, vars
<1> QED
  BY <1>4, <1>5, <1>6, <1>7

(* Without trouble every call is under way once, and is answered.          *)
WireInv == Healthy =>
    /\ \A w \in wire : w.call \in calls /\ w = [call |-> w.call, copy |-> 0]
    /\ \A c \in calls : [call |-> c, copy |-> 0] \in wire

(* Without trouble no call is repeated or given up: it is still under way, *)
(* to a daemon that listens.                                               *)
LEMMA CallsOnce ==
    ASSUME IInv, ServedInv, WireInv, Healthy, faults' = faults, NEW c \in calls
    PROVE  ~Again(c) /\ ~GivenUp(c)
<1>1. Listening
  BY ServedHere
<1>2. [call |-> c, copy |-> 0] \in wire
  BY DEF WireInv
<1>3. Copies(c) # {}
  BY <1>2 DEF Copies
<1> QED
  BY <1>1, <1>3 DEF Again, GivenUp

(* An arrival is what the test waits for, and tells it.                    *)
LEMMA Answer ==
    ASSUME IInv, ServedInv, WireInv, Healthy, Live', faults' = faults, NEW w \in wire, Arrives(w)
    PROVE  w.call \in calls /\ ~ToldNothing(w) /\ calls' = calls \ {w.call}
<1>1. w.call \in calls
  BY DEF WireInv
<1>2. ~ToldNothing(w)
  BY <1>1 DEF ToldNothing
<1>3. ~Unheard(w)
  BY <1>2, UnheardStep
<1> QED
  BY <1>1, <1>2, <1>3 DEF Arrives, ProduceArrives, PollArrives, AckArrives, SetupArrives,
                          StatsArrive, Heard, Throws, Live

LEMMA WireStep ==
    ASSUME IInv, KindInv, ServedInv, WireInv, [Next]_vars
    PROVE  WireInv'
<1> SUFFICES ASSUME Healthy' PROVE WireInv'
  BY DEF WireInv
<1>1. Healthy /\ faults' = faults /\ Live'
  BY HealthyBefore DEF Healthy
<1>2. CASE \/ Idle \/ \E o \in DOMAIN log : Pushes(o) \/ Expires(o)
           \/ \E d \in inbox : Handles(d)
  <2>1. wire' = wire /\ calls' = calls
    BY <1>1, <1>2 DEF Idle, Pushes, Expires, Handles, testVars
  <2> QED
    BY <1>1, <2>1 DEF WireInv
<1>3. CASE \E w \in wire : Arrives(w)
  <2>1. PICK w \in wire : Arrives(w)
    BY <1>3
  <2>2. w.call \in calls /\ calls' = calls \ {w.call} /\ wire' = wire \ {w}
    BY <1>1, <2>1, Answer DEF Arrives
  <2>3. w = [call |-> w.call, copy |-> 0]
    BY <1>1 DEF WireInv
  <2>4. \A v \in wire' : v.call \in calls' /\ v = [call |-> v.call, copy |-> 0]
    BY <1>1, <2>2, <2>3 DEF WireInv
  <2>5. \A c \in calls' : [call |-> c, copy |-> 0] \in wire'
    <3> SUFFICES ASSUME NEW c \in calls' PROVE [call |-> c, copy |-> 0] \in wire'
      OBVIOUS
    <3>1. [call |-> c, copy |-> 0] \in wire /\ c # w.call
      BY <1>1, <2>2 DEF WireInv
    <3>2. [call |-> c, copy |-> 0].call = c
      OBVIOUS
    <3> QED
      BY <2>2, <3>1, <3>2
  <2> QED
    BY <2>4, <2>5 DEF WireInv
<1>4. CASE Repeats \/ (Begins /\ Asks(Script(test)[at + 1]))
  <2>1. PICK S : Asked(S)
    BY <1>4, AskedStep
  <2>2. calls = {} /\ calls' = S /\ wire' = wire \cup {[call |-> c, copy |-> 0] : c \in S}
    BY <2>1 DEF Asked, Make, Running
  <2>3. wire = {}
    BY <1>1, <2>2 DEF WireInv
  <2> QED
    BY <2>2, <2>3 DEF WireInv
<1>5. CASE Begins /\ Local(Script(test)[at + 1])
  <2>1. wire' = wire /\ calls' = calls
    BY <1>5, LocalStep DEF Locally
  <2> QED
    BY <1>1, <2>1 DEF WireInv
<1> QED
  BY <1>1, <1>2, <1>3, <1>4, <1>5, StepCases, CallsOnce DEF Begins

(* Without trouble the leases the test has to report are its own.          *)
LeaseInv == Healthy =>
    /\ \A d \in todo \cup inbox : Current(d)
    /\ \A c \in calls : c.kind = "ack" => c.delivery \in todo

(* Two current deliveries of an entry are the same.                        *)
LEMMA SameDelivery ==
    ASSUME NEW d, NEW e, Given(d), Given(e), Current(d), Current(e), d.entry = e.entry
    PROVE  d = e
<1>1. Delivery(d.entry) = d /\ Delivery(e.entry) = e
  BY DeliveryCurrent
<1> QED
  BY <1>1

(* What is in the inbox after a step was there or has just been pushed.    *)
LEMMA InboxChange ==
    ASSUME IInv, [Next]_vars, NEW d \in inbox'
    PROVE  \/ d \in inbox /\ ~Handles(d)
           \/ \E o \in DOMAIN log : Pushes(o) /\ d = [entry |-> o, lease |-> leases']
<1>1. inbox' \subseteq inbox \/ \E o \in DOMAIN log : Pushes(o)
  <2>1. CASE Idle \/ (\E c \in calls : Again(c) \/ GivenUp(c)) \/ Repeats
    BY <2>1 DEF Idle, Again, GivenUp, Repeats, pushVars
  <2>2. CASE (\E w \in wire : Arrives(w)) \/ (\E o \in DOMAIN log : Expires(o)) \/ \E e \in inbox : Handles(e)
    BY <2>2 DEF Arrives, Expires, Handles, pushVars
  <2>3. CASE Begins
    BY <2>3, BeginsCalls
  <2> QED
    BY <2>1, <2>2, <2>3, StepCases
<1>2. ~Handles(d)
  BY DEF Handles
<1> QED
  BY <1>1, <1>2 DEF Pushes

(* A lease the test has still to report does not end.                      *)
LEMMA LeaseKept ==
    ASSUME IInv, KindInv, PushInv, ServedInv, WireInv, LeaseInv, AckInv, OnceInv, [Next]_vars,
           Healthy, Healthy', NEW d \in (todo \cap todo') \cup (inbox \cap inbox')
    PROVE  Current(d)'
<1>1. faults' = faults /\ Live' /\ \A kind : ~Trouble(kind)
  BY NoTrouble DEF Healthy
<1>2. /\ Current(d) /\ Given(d) /\ d.entry \in 1 .. Len(log) /\ d.entry \in 1 .. Len(log')
      /\ state[d.entry] = "leased" /\ lease[d.entry] = d.lease
  <2>1. Current(d) /\ Given(d)
    BY DEF LeaseInv, IInv, DeliveredInv
  <2>2. d.entry \in 1 .. Len(log) /\ d.entry \in 1 .. Len(log')
    BY <2>1, NextInvariant, GivenStays DEF IInv
  <2> QED
    BY <2>1, <2>2 DEF Current
<1>3. ~Expires(d.entry)
  <2>1. UnderWay(d.entry)
    BY <1>2 DEF UnderWay, IInv, DeliveredInv
  <2> QED
    BY <1>1, <2>1 DEF Expires
<1>4. \A e \in inbox : Handles(e) /\ Current(e) => d.entry # e.entry
  <2> SUFFICES ASSUME NEW e \in inbox, Handles(e), Current(e), d.entry = e.entry PROVE FALSE
    OBVIOUS
  <2>1. d = e
    BY <1>2, SameDelivery DEF IInv, DeliveredInv
  <2>2. e \notin inbox'
    BY DEF Handles
  <2>3. todo = {}
    BY DEF PushInv, IInv, DeliveredInv
  <2> QED
    BY <2>1, <2>2, <2>3
<1>5. \A w \in wire : Arrives(w) /\ AckArrives(w) /\ Current(w.call.delivery) => d.entry # w.call.delivery.entry
  <2> SUFFICES ASSUME NEW w \in wire, Arrives(w), AckArrives(w), Current(w.call.delivery),
                      d.entry = w.call.delivery.entry
               PROVE  FALSE
    OBVIOUS
  <2>1. w.call \in calls /\ w.call.kind = "ack" /\ ~ToldNothing(w)
    BY <1>1, Answer DEF AckArrives
  <2>2. w.call.delivery \in todo /\ Given(w.call.delivery)
    BY <2>1 DEF LeaseInv, IInv, DeliveredInv
  <2>3. d = w.call.delivery
    BY <1>2, <2>2, SameDelivery
  <2>4. todo' = todo \ {d}
    BY <2>1, <2>3, AckEffect
  <2>5. inbox = {}
    BY <2>2 DEF PushInv, IInv, DeliveredInv
  <2> QED
    BY <2>4, <2>5
<1>6. state'[d.entry] # "acked"
  BY <1>2, <1>4, <1>5, NewlyAcked
<1>7. state'[d.entry] = "leased" /\ lease'[d.entry] = lease[d.entry]
  BY <1>2, <1>3, <1>4, <1>6, LeaseEnds
<1> QED
  BY <1>2, <1>7 DEF Current

LEMMA LeaseStep ==
    ASSUME IInv, KindInv, PushInv, ServedInv, WireInv, LeaseInv, AckInv, OnceInv, [Next]_vars
    PROVE  LeaseInv'
<1> SUFFICES ASSUME Healthy' PROVE LeaseInv'
  BY DEF LeaseInv
<1>1. Healthy /\ faults' = faults /\ Live' /\ test' = test
  BY HealthyBefore DEF Healthy
<1>2. ASSUME NEW d \in inbox' PROVE Current(d)'
  <2>1. CASE d \in inbox
    BY <1>1, <1>2, <2>1, LeaseKept
  <2>2. CASE \E o \in DOMAIN log : Pushes(o) /\ d = [entry |-> o, lease |-> leases']
    <3>1. PICK o \in DOMAIN log : Pushes(o) /\ d = [entry |-> o, lease |-> leases']
      BY <2>2
    <3>2. {o} \in SUBSET Ready(Nat) /\ Grants({o})
      BY <3>1, ReadyType DEF Pushes, IInv
    <3>3. d \in {[entry |-> p, lease |-> leases'] : p \in {o}}
      BY <3>1
    <3> QED
      BY <3>2, <3>3, LeaseDelivery DEF IInv
  <2> QED
    BY <1>2, <2>1, <2>2, InboxChange
<1>3. ASSUME NEW d \in todo' PROVE Current(d)'
  <2>1. CASE d \in todo
    BY <1>1, <1>3, <2>1, LeaseKept
  <2>2. CASE d \notin todo
    <3>1. PICK w \in wire, S \in SUBSET Ready(Nat) : Grants(S) /\ PollTold(w, S) /\ Kind # "pollAgain"
      BY <1>3, <2>2, ToldChange
    <3>2. d \in {[entry |-> o, lease |-> leases'] : o \in S}
      BY <1>3, <3>1 DEF PollTold, Leased
    <3> QED
      BY <3>1, <3>2, LeaseDelivery DEF IInv
  <2> QED
    BY <2>1, <2>2
<1>4. ASSUME NEW c \in calls', c.kind = "ack" PROVE c.delivery \in todo'
  <2>1. CASE Repeats \/ (Begins /\ Asks(Script(test)[at + 1]))
    <3>1. PICK S : Asked(S) /\ Fitting(S)
      BY <2>1, AskedStep
    <3>2. calls' = S /\ todo' = todo /\ msgs' = msgs
      BY <3>1 DEF Asked, Make, toldVars
    <3>3. CASE at' = at /\ c.delivery \in todo
      BY <3>2, <3>3
    <3>4. CASE at' = at + 1 /\ Kind' = "ackFirst" /\ c.delivery \in msgs
      <4>1. at + 1 \in 1 .. Len(Script(test)) /\ Kind' = KindAt(at + 1) /\ at \in Nat
            /\ Len(Script(test)) \in Nat
        BY <1>1, <3>1, <3>4, ScriptType DEF Asked, Kind, KindAt, IInv, TestInv
      <4>2. at + 1 \in at + 1 .. Len(Script(test))
        BY <4>1
      <4>3. ToCome(at + 1)
        BY <1>1, <4>2 DEF OnceInv, Healthy
      <4> QED
        BY <3>2, <3>4, <4>1, <4>3 DEF ToCome
    <3> QED
      BY <1>4, <3>1, <3>2, <3>3, <3>4 DEF Fitting
  <2>2. CASE Begins /\ Local(Script(test)[at + 1])
    <3>1. calls' = calls /\ todo' = todo
      BY <2>2, LocalStep DEF Locally
    <3> QED
      BY <1>1, <1>4, <3>1 DEF LeaseInv
  <2>3. CASE ~Begins /\ ~Repeats
    <3>1. calls' \subseteq calls
      BY <2>3, StepCases, WaitsStep
    <3>2. c.delivery \in todo /\ c \in calls
      BY <1>1, <1>4, <3>1 DEF LeaseInv
    <3>3. CASE UNCHANGED <<msgs, todo>>
      BY <3>2, <3>3
    <3>4. CASE \E w \in wire : \E S : PollTold(w, S)
      BY <1>4, <3>4 DEF PollTold
    <3>5. CASE \E w \in wire : AckArrives(w) /\ Heard(w) /\ todo' = todo \ {w.call.delivery}
      BY <1>4, <3>2, <3>5 DEF AckArrives, Heard, KindInv
    <3> QED
      BY <3>3, <3>4, <3>5, ToldChange
  <2> QED
    BY <2>1, <2>2, <2>3 DEF Begins
<1> QED
  BY <1>2, <1>3, <1>4 DEF LeaseInv

-----------------------------------------------------------------------------
(* No trouble: the test knows its messages, and receives each once.        *)

(* Without trouble the test is told where each of its messages is.         *)
ToldInv == Healthy =>
    /\ Answered({"produce", "produceMany"})
    /\ \A o \in 1 .. Len(log) : log[o] # Stale => offset[log[o]] = o

(* What a test produces is not what was there before it.                   *)
LEMMA NotStale ==
    ASSUME IInv
    PROVE  \A m \in Produced(test) : m \in Nat /\ m # Stale
<1>1. test \in Tests
  BY DEF IInv, TestInv
<1>2. CASE test = "pipeline"
  BY <1>2, SmokeAssumption DEF Produced, Bulk, Burst, Stale
<1>3. CASE test = "subscribe"
  BY <1>3, SmokeAssumption DEF Produced, Pushed, Retry, Stale
<1>4. CASE test \notin {"pipeline", "subscribe"}
  BY <1>4 DEF Produced, Stale
<1> QED
  BY <1>2, <1>3, <1>4

(* What is repeated has been produced before.                              *)
LEMMA RepeatKnown ==
    ASSUME IInv, KindInv, SourceInv, ToldInv, Healthy, Kind = "repeat",
           NEW c \in calls, c.kind = "produce"
    PROVE  /\ offset[c.msg] \in 1 .. Len(log) /\ log[offset[c.msg]] = c.msg
           /\ test = "pipeline" /\ Known(c.msg) # {}
<1>1. at \in 1 .. Len(Script(test)) /\ Kind = Script(test)[at].kind /\ test \in Tests
      /\ at \in Nat /\ Len(Script(test)) \in Nat
  BY CallPlace
<1>2. c.msg \in Script(test)[at].msgs /\ c.msg \in Produced(test)
  BY DEF KindInv, IInv, CallsInv
<1>3. PICK j \in 1 .. at - 1 : Script(test)[j].kind = "produceMany"
                                /\ Script(test)[at].msgs \subseteq Script(test)[j].msgs
  BY <1>1, ScriptOrder
<1>4. j \in 1 .. at /\ j # at
  BY <1>1
<1>5. offset[c.msg] # 0
  BY <1>2, <1>3, <1>4 DEF ToldInv, Answered, KindAt
<1>6. offset[c.msg] \in 1 .. Len(log) /\ log[offset[c.msg]] = c.msg
  BY <1>2, <1>5 DEF IInv, OffsetInv, SourceInv
<1>7. test = "pipeline"
  BY <1>1, ScriptPlaces
<1> QED
  BY <1>6, <1>7, LogLength DEF Known, IInv

LEMMA ToldStep ==
    ASSUME IInv, KindInv, OnceInv, SourceInv, ServedInv, WireInv, ToldInv, [Next]_vars
    PROVE  ToldInv'
<1> SUFFICES ASSUME Healthy' PROVE ToldInv'
  BY DEF ToldInv
<1>1. Healthy /\ faults' = faults /\ Live' /\ test' = test /\ Grown
  BY HealthyBefore, NextInvariant DEF Healthy
<1>2. Answered({"produce", "produceMany"})'
  <2>1. Answered({"produce", "produceMany"})
    BY <1>1 DEF ToldInv
  <2>2. ~ \E c \in calls : GivenUp(c)
    BY <1>1, CallsOnce
  <2> DEFINE K == {"produce", "produceMany"}
  <2>3. K \subseteq {"produce", "produceMany"}
    OBVIOUS
  <2>4. Answered(K)
    BY <2>1
  <2> HIDE DEF K
  <2>5. Answered(K)'
    BY <1>1, <2>2, <2>3, <2>4, AnsweredStep
  <2> QED
    BY <2>5 DEF K
<1>3. ASSUME NEW o \in 1 .. Len(log'), log'[o] # Stale PROVE offset'[log'[o]] = o
  <2>1. CASE UNCHANGED <<log, offset>>
    BY <1>1, <1>3, <2>1 DEF ToldInv
  <2>2. CASE \E w \in wire : Arrives(w) /\ ProduceArrives(w)
    <3>1. PICK w \in wire : Arrives(w) /\ ProduceArrives(w)
      BY <2>2
    <3> DEFINE m == w.call.msg
    <3>2. m \in Produced(test) /\ m \in Nat /\ m # Stale
      BY <3>1, ProduceEffect, NotStale
    <3>3. (Known(m) = {} /\ Appends(m)) \/ (Known(m) # {} /\ UNCHANGED brokerVars)
      BY <3>1, ProduceEffect
    <3>4. w.call \in calls /\ w.call.kind = "produce" /\ ~ToldNothing(w)
      BY <1>1, <3>1, Answer DEF ProduceArrives
    <3>5. PICK p \in 1 .. Len(log') : /\ log'[p] = m /\ (Known(m) = {} => p = Len(log) + 1)
                                      /\ ProduceTold(w, p)
      BY <3>1, <3>4, ProduceEffect
    <3>6. Len(log) \in Nat /\ DOMAIN log = 1 .. Len(log) /\ offset \in [Produced(test) -> 0 .. Len(log)]
      BY LogLength DEF IInv, OffsetInv
    <3>7. CASE Kind = "repeat"
      <4>1. Known(m) # {}
        BY <1>1, <3>4, <3>7, RepeatKnown
      <4> QED
        BY <1>1, <1>3, <3>3, <3>5, <3>7, <4>1 DEF ProduceTold, ToldInv, brokerVars
    <3>8. CASE Kind # "repeat"
      <4>1. offset' = [offset EXCEPT ![m] = p]
        BY <3>5, <3>8 DEF ProduceTold
      <4> HIDE DEF m
      <4>2. CASE o = p
        BY <3>2, <3>5, <3>6, <4>1, <4>2
      <4>3. CASE o # p
        <5>1. o \in 1 .. Len(log) /\ log'[o] = log[o] /\ log[o] # m
          <6>1. CASE Known(m) = {}
            <7>1. Len(log') = Len(log) + 1 /\ p = Len(log) + 1
              BY <3>2, <3>3, <3>5, <6>1, AppendsStep DEF IInv
            <7>2. o \in 1 .. Len(log) /\ log'[o] = log[o]
              BY <1>1, <3>6, <4>3, <7>1 DEF Grown
            <7>3. ASSUME log[o] = m PROVE FALSE
              <8>1. test # "pipeline"
                BY <3>6, <6>1, <7>2, <7>3 DEF Known
              <8>2. offset[m] = 0
                BY <3>4, <8>1 DEF OnceInv, m
              <8>3. offset[m] = o
                BY <1>1, <3>2, <7>2, <7>3 DEF ToldInv
              <8> QED
                BY <7>2, <8>2, <8>3
            <7> QED
              BY <7>2, <7>3
          <6>2. CASE Known(m) # {}
            <7>1. log' = log /\ test = "pipeline"
              BY <3>3, <6>2 DEF brokerVars, Known
            <7> QED
              BY <3>5, <4>3, <7>1 DEF SourceInv
          <6> QED
            BY <6>1, <6>2
        <5>2. offset[log[o]] = o /\ log[o] \in Produced(test)
          BY <1>1, <1>3, <5>1 DEF ToldInv, SourceInv
        <5> QED
          BY <3>6, <4>1, <5>1, <5>2
      <4> QED
        BY <4>2, <4>3
    <3> QED
      BY <3>7, <3>8
  <2> QED
    BY <2>1, <2>2, LogChange
<1> QED
  BY <1>2, <1>3 DEF ToldInv

(* Without trouble what has been received is acked, and received once.     *)
ReceivedInv == Healthy =>
    /\ \A d \in received : state[d.entry] = "acked"
    /\ \A d, e \in received : d.entry = e.entry => d = e

LEMMA ReceivedStep ==
    ASSUME IInv, KindInv, ServedInv, LeaseInv, ReceivedInv, [Next]_vars
    PROVE  ReceivedInv'
<1> SUFFICES ASSUME Healthy' PROVE ReceivedInv'
  BY DEF ReceivedInv
<1>1. Healthy /\ faults' = faults /\ Grown /\ \A kind : ~Trouble(kind)
  BY HealthyBefore, NextInvariant, NoTrouble
<1>2. \A d \in received : state'[d.entry] = "acked"
  <2> SUFFICES ASSUME NEW d \in received PROVE state'[d.entry] = "acked"
    OBVIOUS
  <2>1. Given(d) /\ state[d.entry] = "acked"
    BY <1>1 DEF ReceivedInv, IInv, DeliveredInv
  <2> QED
    BY <2>1, NextInvariant, GivenStays DEF IInv
<1>3. CASE UNCHANGED received
  BY <1>1, <1>2, <1>3 DEF ReceivedInv
<1>4. CASE \E d \in inbox : Handles(d)
  <2>1. PICK d \in inbox : Handles(d)
    BY <1>4
  <2>2. Listening /\ Current(d) /\ d.entry \in 1 .. Len(log)
    <3>1. Listening /\ Current(d) /\ Given(d)
      BY <1>1, ServedHere DEF LeaseInv, IInv, DeliveredInv
    <3> QED
      BY <3>1, NextInvariant, GivenStays DEF IInv
  <2> DEFINE fails == log[d.entry] = Retry /\ ~failedOnce
  <2>3. /\ Released(d, IF fails THEN "ready" ELSE "acked")
        /\ received' = IF fails THEN received ELSE received \cup {d}
    BY <1>1, <2>1, <2>2 DEF Handles
  <2>4. CASE fails
    BY <1>1, <1>2, <2>3, <2>4 DEF ReceivedInv
  <2>5. CASE ~fails
    <3>1. Released(d, "acked") /\ received' = received \cup {d} /\ state[d.entry] = "leased"
      BY <2>2, <2>3, <2>5 DEF Current
    <3>2. state'[d.entry] = "acked"
      BY <2>2, <3>1, ReleasedStep DEF IInv
    <3>3. \A e \in received : e.entry # d.entry
      BY <1>1, <3>1 DEF ReceivedInv
    <3> QED
      BY <1>1, <1>2, <3>1, <3>2, <3>3 DEF ReceivedInv
  <2> QED
    BY <2>4, <2>5
<1> QED
  BY <1>3, <1>4, ReceivedChange

-----------------------------------------------------------------------------
(* The verdict.                                                            *)

(* What a passed test has shown.                                           *)
Verdict ==
    /\ test = "smoke" => \E o \in Messages(1) : state[o] = "acked"
    /\ test \in {"compose", "consume"} => msgs # {} /\ \A d \in msgs : ~Current(d)
    /\ test = "pipeline" => \A m \in Produced(test) :
         Cardinality(Messages(m)) = 1 /\ \A o \in Messages(m) : state[o] = "acked"
    /\ test = "subscribe" => \A m \in Produced(test) : \E o \in Messages(m) :
         lease[o] > 0 /\ (faults = 0 => state[o] = "acked")

(* A test that has passed has shown what it says, and is over but for the  *)
(* cleanup; consume-check.mjs has passed when it has acked.                *)
VerdictInv == ok => (test # "consume" => ~Live) /\ (faults <= 1 => Verdict)

(* It stays true: no message is appended again, no lease begins anew.      *)
LEMMA VerdictKept ==
    ASSUME IInv, KindInv, OnceInv, SourceInv, [Next]_vars, Verdict,
           test \in {"smoke", "compose", "consume"} \/ ~Live
    PROVE  Verdict'
<1>1. test' = test /\ Grown /\ BrokerInv /\ BrokerInv' /\ test \in Tests
  BY LogChange, NextInvariant DEF IInv, TestInv
<1>2. /\ Len(log) \in Nat /\ DOMAIN log = 1 .. Len(log) /\ Len(log') \in Nat
      /\ DOMAIN log' = 1 .. Len(log') /\ Len(log) <= Len(log')
  BY <1>1, LogLength, LenProperties DEF BrokerInv, Grown
<1>3. \A o \in DOMAIN log : /\ o \in DOMAIN log' /\ log'[o] = log[o]
                            /\ state[o] = "acked" => state'[o] = "acked"
  BY <1>1, <1>2 DEF Grown
<1>4. \A m : \A o \in Messages(m) : o \in Messages(m)' /\ (state[o] = "acked" => state'[o] = "acked")
  BY <1>3 DEF Messages
<1>5. test' = "smoke" => \E o \in Messages(1)' : state'[o] = "acked"
  BY <1>1, <1>4 DEF Verdict
<1>6. test' \in {"compose", "consume"} => msgs' # {} /\ \A d \in msgs' : ~Current(d)'
  <2>1. \A d \in msgs : ~Current(d) => ~Current(d)'
    BY <1>1, GivenStays DEF IInv, DeliveredInv
  <2>2. test \in {"compose", "consume"} => msgs # {} /\ \A d \in msgs : ~Current(d)
    BY DEF Verdict
  <2>3. test \in {"compose", "consume"} => msgs' = msgs
    BY <2>2, MessagesKept
  <2> QED
    BY <1>1, <2>1, <2>2, <2>3
<1>7. ASSUME test' = "pipeline", NEW m \in Produced(test)'
      PROVE  Cardinality(Messages(m)') = 1 /\ \A o \in Messages(m)' : state'[o] = "acked"
  <2>1. test = "pipeline" /\ m \in Produced(test)
    BY <1>1, <1>7
  <2>2. log' = log
    <3>1. CASE \E w \in wire : Arrives(w) /\ ProduceArrives(w)
      <4>1. PICK w \in wire : ProduceArrives(w)
        BY <3>1
      <4>2. w.call.msg \in Produced(test)
        BY <4>1, ProduceEffect
      <4>3. Messages(w.call.msg) # {}
        BY <2>1, <4>2, FS_EmptySet DEF Verdict
      <4>4. Known(w.call.msg) # {}
        BY <2>1, <4>3 DEF Known, Messages
      <4> QED
        BY <4>1, <4>4, ProduceEffect DEF brokerVars
    <3> QED
      BY <3>1, LogChange
  <2>3. Messages(m)' = Messages(m)
    BY <2>2 DEF Messages
  <2>4. Cardinality(Messages(m)) = 1 /\ \A o \in Messages(m) : state[o] = "acked"
    BY <2>1 DEF Verdict
  <2> QED
    BY <1>4, <2>3, <2>4
<1>8. ASSUME test' = "subscribe", NEW m \in Produced(test)'
      PROVE  \E o \in Messages(m)' : lease'[o] > 0 /\ (faults' = 0 => state'[o] = "acked")
  <2>1. test = "subscribe" /\ m \in Produced(test)
    BY <1>1, <1>8
  <2>2. PICK o \in Messages(m) : lease[o] > 0 /\ (faults = 0 => state[o] = "acked")
    BY <2>1 DEF Verdict
  <2>3. o \in 1 .. Len(log) /\ o \in 1 .. Len(log')
    BY <1>2, <1>3 DEF Messages
  <2>4. lease[o] \in Nat /\ lease'[o] \in Nat /\ lease[o] <= lease'[o]
    <3>1. lease[o] \in 0 .. leases /\ leases \in Nat /\ lease[o] <= lease'[o]
      BY <1>1, <2>3 DEF BrokerInv, Grown
    <3>2. lease'[o] \in 0 .. leases' /\ leases' \in Nat
      BY <1>1, <2>3 DEF BrokerInv
    <3> QED
      BY <3>1, <3>2
  <2>5. faults' = 0 => faults = 0
    BY FaultsGrow
  <2> QED
    BY <1>4, <2>2, <2>4, <2>5
<1> QED
  BY <1>5, <1>6, <1>7, <1>8 DEF Verdict

(* Where a test comes to its verdict.                                      *)
LEMMA OkSteps ==
    ASSUME [Next]_vars
    PROVE  ok' = ok \/ Begins \/ Concludes
<1>1. CASE DaemonSteps \/ Starts \/ NothingToAck \/ Repeats \/ StopsDaemon \/ Exits
  BY <1>1 DEF DaemonSteps, Others, testVars, Starts, NothingToAck, Throws, Repeats, StopsDaemon, Exits
<1>2. CASE \E w \in wire : Arrives(w)
  BY <1>2 DEF Arrives, ProduceArrives, PollArrives, AckArrives, SetupArrives, StatsArrive,
              Heard, Unheard, Throws, testVars
<1>3. CASE (\E o \in DOMAIN log : Pushes(o) \/ Expires(o)) \/ \E d \in inbox : Handles(d)
  BY <1>3 DEF Pushes, Expires, Handles, testVars
<1>4. CASE \E c \in calls : TimesOut(c)
  BY <1>4 DEF TimesOut, Rejects, Throws, testVars
<1>5. CASE UNCHANGED vars
  BY <1>5 DEF vars, testVars
<1> QED
  BY <1>1, <1>2, <1>3, <1>4, <1>5 DEF Next, TestSteps, Broker, Finished

(* A test passes at its last step; consume-check.mjs decides at its acks.  *)
LEMMA OkChange ==
    ASSUME [Next]_vars, ok', ~ok
    PROVE  \/ Begins /\ Kind = "ackEach" /\ msgs # {}
           \/ Concludes /\ Patience /\ Passes
<1>1. CASE Begins
  BY <1>1 DEF Begins
<1>2. CASE Concludes
  BY <1>2 DEF Concludes
<1> QED
  BY <1>1, <1>2, OkSteps

(* What the checks of pipeline-smoke.mjs are worth after one trouble.      *)
LEMMA PipelineVerdict ==
    ASSUME IInv, SourceInv, OnceInv, DoneInv, DrainInv, test = "pipeline", Live, faults <= 1,
           Running, at = Len(Script(test)), msgs = {}, PipelinePasses
    PROVE  \A m \in Produced(test) :
             Cardinality(Messages(m)) = 1 /\ \A o \in Messages(m) : state[o] = "acked"
<1> DEFINE N == SerialN + BulkN + BurstN
<1>1. /\ Len(log) \in Nat /\ DOMAIN log = 1 .. Len(log) /\ offset \in [Produced(test) -> 0 .. Len(log)]
      /\ N \in Nat /\ calls = {} /\ Script(test) = Pipelined
  BY LogLength, SmokeAssumption DEF IInv, OffsetInv, Running, Script
<1>2. Produced(test) = 1 .. N
  BY SmokeAssumption DEF Produced, Bulk, Burst
<1>3. \A m \in Produced(test) : offset[m] # 0
  <2> SUFFICES ASSUME NEW m \in Produced(test), m \notin Bulk PROVE offset[m] # 0
    BY DEF PipelinePasses
  <2>1. PICK i \in 1 .. Len(Pipelined) : Pipelined[i].kind \in {"produce", "produceMany"} /\ m \in Pipelined[i].msgs
    BY ScriptEnds
  <2>2. ASSUME Pipelined[i].kind = "produceMany" PROVE FALSE
    <3>1. i = SerialN + 3
      BY <1>1, <2>2, ScriptPlaces DEF Tests, OwnDaemon
    <3>2. Pipelined[i] = Step("produceMany", Bulk)
      BY <3>1, PipelinedSteps
    <3> QED
      BY <2>1, <3>2 DEF Step
  <2>3. i \in 1 .. at /\ KindAt(i) = "produce" /\ m \in Script(test)[i].msgs
    BY <1>1, <2>1, <2>2 DEF KindAt
  <2> QED
    BY <1>1, <2>3 DEF DoneInv, Answered
<1>4. \A m \in Produced(test) : offset[m] \in 1 .. Len(log) /\ log[offset[m]] = m
  BY <1>1, <1>3 DEF SourceInv
<1>5. \A m \in Produced(test) : Messages(m) = {offset[m]}
  <2> SUFFICES ASSUME NEW m \in Produced(test) PROVE Messages(m) = {offset[m]}
    OBVIOUS
  <2>1. offset[m] \in 1 .. Len(log) /\ log[offset[m]] = m
    BY <1>4
  <2>2. \A o \in 1 .. Len(log) : log[o] = m => o = offset[m]
    BY <2>1 DEF SourceInv
  <2> QED
    BY <1>1, <2>1, <2>2 DEF Messages
<1>6. Kind = "drain"
  <2>1. at = SerialN + 7 /\ Pipelined[at] = Do("drain") /\ at # 0
    BY <1>1, PipelinedSteps, SmokeAssumption
  <2> QED
    BY <1>1, <2>1 DEF Kind, Do, Step
<1>7. TellsAcked \/ Counted
  BY <1>1, <1>6 DEF DrainInv
<1>8. \A m \in Produced(test) : state[offset[m]] = "acked"
  <2>1. CASE TellsAcked
    BY <1>3, <2>1 DEF TellsAcked
  <2>2. CASE Counted
    <3>1. Cardinality(Handed) = N /\ IsFiniteSet(Handed) /\ Handed \subseteq 1 .. Len(log)
      BY <2>2, HandedCount DEF Counted, PipelinePasses, IInv
    <3>2. Len(log) <= N
      <4> DEFINE f == [o \in 1 .. Len(log) |-> log[o]]
                 L == 1 .. Len(log)
                 P == 1 .. N
      <4>1. \A o \in L : log[o] \in P
        BY <1>2 DEF SourceInv, OwnDaemon
      <4>2. f \in [L -> P] /\ \A o, p \in L : f[o] = f[p] => o = p
        BY <4>1 DEF SourceInv
      <4>3. IsFiniteSet(P) /\ Cardinality(P) = N /\ Cardinality(L) = Len(log)
        <5>1. 1 \in Int /\ N \in Int /\ Len(log) \in Int
          BY <1>1
        <5>2. IsFiniteSet(P) /\ Cardinality(P) = IF 1 > N THEN 0 ELSE N - 1 + 1
          <6> HIDE DEF N
          <6> QED
            BY <5>1, FS_Interval
        <5>3. Cardinality(L) = IF 1 > Len(log) THEN 0 ELSE Len(log) - 1 + 1
          BY <5>1, FS_Interval
        <5> HIDE DEF N, L, P
        <5> QED
          BY <1>1, <5>2, <5>3
      <4> HIDE DEF f, L, P, N
      <4>4. f \in Injection(L, P)
        <5>1. IsInjective(f)
          BY <4>2 DEF IsInjective
        <5> QED
          BY <4>2, <5>1 DEF Injection
      <4>5. Cardinality(L) <= Cardinality(P)
        BY <4>3, <4>4, FS_Injection
      <4> QED
        BY <4>3, <4>5
    <3>3. Handed = 1 .. Len(log)
      <4>1. IsFiniteSet(1 .. Len(log)) /\ Cardinality(1 .. Len(log)) = Len(log)
        <5>0. 1 \in Int /\ Len(log) \in Int
          BY <1>1
        <5>1. Cardinality(1 .. Len(log)) = IF 1 > Len(log) THEN 0 ELSE Len(log) - 1 + 1
          BY <5>0, FS_Interval
        <5>2. IsFiniteSet(1 .. Len(log))
          BY <5>0, FS_Interval
        <5> QED
          BY <1>1, <5>1, <5>2
      <4>2. /\ Cardinality(Handed) <= Cardinality(1 .. Len(log))
            /\ Cardinality(1 .. Len(log)) = Cardinality(Handed) => 1 .. Len(log) = Handed
        BY <3>1, <4>1, FS_Subset
      <4> HIDE DEF N
      <4> QED
        BY <1>1, <3>1, <3>2, <4>1, <4>2
    <3>4. todo = {}
      BY DEF IInv, DeliveredInv
    <3> QED
      BY <1>4, <3>3, <3>4 DEF Handed
  <2> QED
    BY <1>7, <2>1, <2>2
<1> QED
  BY <1>5, <1>8, FS_Singleton

LEMMA VerdictStep ==
    ASSUME IInv, KindInv, OnceInv, AckInv, SourceInv, DoneInv, DrainInv, SmokeInv, ReceivedInv,
           VerdictInv, [Next]_vars
    PROVE  VerdictInv'
<1> SUFFICES ASSUME ok' PROVE (test' # "consume" => ~Live') /\ (faults' <= 1 => Verdict')
  BY DEF VerdictInv
<1>0. /\ test' = test /\ test \in Tests
      /\ faults \in Nat /\ faults' \in Nat /\ faults <= faults'
  BY LogChange, FaultsGrow DEF IInv, TestInv
<1>1. CASE ok
  <2>1. (test # "consume" => ~Live) /\ (faults' <= 1 => Verdict)
    BY <1>0, <1>1 DEF VerdictInv
  <2>2. test' # "consume" => ~Live'
    BY <1>0, <2>1, LiveBefore
  <2>3. faults' <= 1 => Verdict'
    BY <2>1, VerdictKept
  <2> QED
    BY <2>2, <2>3
<1>2. CASE ~ok /\ Begins /\ Kind = "ackEach" /\ msgs # {}
  <2>1. test = "consume"
    BY <1>2, CallPlace, ScriptPlaces
  <2>2. todo = {}
    BY <1>2 DEF Begins, Patience, Enough
  <2>3. \A d \in msgs : ~Current(d)
    BY <2>2 DEF AckInv, Owed
  <2>4. msgs' = msgs /\ UNCHANGED brokerVars
    BY <1>2 DEF Begins, Asks, Local, toldVars
  <2> QED
    BY <1>0, <1>2, <2>1, <2>3, <2>4 DEF Verdict, Current, brokerVars
<1>3. CASE ~ok /\ Concludes /\ Patience /\ Passes
  <2>1. /\ UNCHANGED <<test, msgs, brokerVars>> /\ pc' = "finally" /\ Running /\ at = Len(Script(test)) /\ Live
        /\ calls = {}
    BY <1>3 DEF Concludes, toldVars, Running, Live
  <2>2. ASSUME faults' <= 1 PROVE Verdict'
    <3>0. faults <= 1 /\ at \in Nat
      BY <1>0, <2>1, <2>2 DEF IInv, TestInv
    <3>1. CASE test = "smoke"
      <4>1. OneMessage /\ left = 0
        BY <1>3, <3>1 DEF Passes, SmokePasses
      <4>2. PICK i \in 1 .. Len(Script("smoke")) : Script("smoke")[i].kind = "pollAgain"
        BY ScriptEnds
      <4>3. Done(i) /\ KindAt(i) = "pollAgain"
        BY <2>1, <3>0, <3>1, <4>2 DEF Done, KindAt
      <4>4. PICK o \in 1 .. Len(log) : state[o] = "acked"
        BY <2>1, <3>0, <3>1, <4>1, <4>2, <4>3 DEF SmokeInv, OneMessage
      <4>5. log[o] = 1
        BY <3>1, ProducedType DEF SourceInv, OwnDaemon, Tests
      <4>6. o \in Messages(1)
        BY <4>5, LogLength DEF Messages, IInv
      <4> QED
        BY <2>1, <3>1, <4>4, <4>6 DEF Verdict, Messages, brokerVars
    <3>2. CASE test = "compose"
      <4>1. OneMessage
        BY <1>3, <3>2 DEF Passes, ComposePasses
      <4>2. PICK i \in 1 .. Len(Script("compose")) : Script("compose")[i].kind = "ackFirst"
        BY ScriptEnds
      <4>3. Done(i) /\ KindAt(i) = "ackFirst"
        BY <2>1, <3>0, <3>2, <4>2 DEF Done, KindAt
      <4>4. msgs \ todo # {}
        BY <2>1, <3>2, <4>2, <4>3 DEF DoneInv
      <4>5. IsFiniteSet(msgs) /\ Cardinality(msgs) = 1
        BY <4>1, DeliveriesFinite DEF OneMessage, IInv, DeliveredInv
      <4>6. PICK d : msgs = {d}
        BY <4>5, FS_Singleton
      <4>7. ~Current(d)
        BY <4>4, <4>6 DEF AckInv, Owed
      <4> QED
        BY <2>1, <3>2, <4>6, <4>7 DEF Verdict, Current, brokerVars
    <3>3. CASE test = "consume"
      BY <1>3, <3>3 DEF Passes
    <3>4. CASE test = "pipeline"
      <4>1. PipelinePasses
        BY <1>3, <3>4 DEF Passes
      <4>2. msgs = {}
        <5>1. Script(test) = Pipelined /\ at = SerialN + 7 /\ Pipelined[at] = Do("drain") /\ at # 0
          BY <2>1, <3>4, PipelinedSteps, SmokeAssumption DEF Script
        <5>2. Kind = "drain"
          BY <5>1 DEF Kind, Do, Step
        <5> QED
          BY <1>3, <5>2 DEF Patience, Enough
      <4>3. \A m \in Produced(test) :
              Cardinality(Messages(m)) = 1 /\ \A o \in Messages(m) : state[o] = "acked"
        BY <2>1, <3>0, <3>4, <4>1, <4>2, PipelineVerdict
      <4> QED
        BY <2>1, <3>4, <4>3 DEF Verdict, Messages, brokerVars
    <3>5. CASE test = "subscribe"
      <4> SUFFICES ASSUME NEW m \in Produced(test)
                   PROVE  \E o \in Messages(m) : lease[o] > 0 /\ (faults' = 0 => state[o] = "acked")
        BY <2>1, <3>5 DEF Verdict, Messages, brokerVars
      <4>1. Times({m}) = 1
        BY <1>3, <3>5 DEF Passes, SubscribePasses
      <4>2. PICK d \in received : log[d.entry] \in {m}
        <5>1. ASSUME {d \in received : log[d.entry] \in {m}} = {} PROVE FALSE
          BY <4>1, <5>1, FS_EmptySet DEF Times
        <5> QED
          BY <5>1
      <4>3. Given(d) /\ d.entry \in 1 .. Len(log) /\ Len(log) \in Nat
        <5>1. Given(d)
          BY DEF IInv, DeliveredInv
        <5> QED
          BY <5>1, NextInvariant, GivenStays, LogLength DEF IInv
      <4>4. d.entry \in Messages(m)
        BY <4>2, <4>3, LogLength DEF Messages, IInv
      <4>5. lease[d.entry] > 0
        <5>1. d.lease \in Nat /\ 0 < d.lease /\ d.lease <= lease[d.entry]
          BY <4>3 DEF Given, Deliveries
        <5>2. lease[d.entry] \in 0 .. leases /\ leases \in Nat
          BY <4>3 DEF IInv, BrokerInv
        <5> QED
          BY <5>1, <5>2
      <4>6. faults' = 0 => state[d.entry] = "acked"
        BY <1>0, <2>1 DEF ReceivedInv, Healthy
      <4> QED
        BY <4>4, <4>5, <4>6
    <3> QED
      BY <1>0, <3>1, <3>2, <3>3, <3>4, <3>5 DEF Tests, OwnDaemon
  <2> QED
    BY <2>1, <2>2 DEF Live
<1> QED
  BY <1>1, <1>2, <1>3, OkChange

-----------------------------------------------------------------------------
(* No trouble: every check of a script succeeds.                           *)

(* Without trouble each step of a script leaves what the verdict asks for. *)
PassInv == Healthy => \A i \in 1 .. Len(Script(test)) :
    /\ Done(i) /\ KindAt(i) = "poll" => msgs # {} /\ (Messages(Stale) = {} => OneMessage)
    /\ Done(i) /\ KindAt(i) = "stats" => leader
    /\ Done(i) /\ KindAt(i) = "repeat" => repeated
    /\ i < at /\ KindAt(i) = "await" => \A m \in Script(test)[i].msgs : \E d \in received : log[d.entry] = m
    /\ i < at /\ KindAt(i) = "ackEach" => ok

(* Without trouble nothing is polled once more.                            *)
LeftInv == Healthy => left = 0

(* The first poll finds the message, and what was there before it.         *)
LEMMA PollFinds ==
    ASSUME IInv, KindInv, OnceInv, SourceInv, AckedInv, DoneInv, TroubleInv, ToldInv, LeftInv, Healthy,
           NEW w \in wire, PollArrives(w), NEW S \in SUBSET Ready(Polled), S \in SUBSET Ready(Nat), Grants(S),
           Cardinality(S) = Min({PollLimit, Cardinality(Ready(Polled))}), PollTold(w, S), Kind = "poll",
           [Next]_vars
    PROVE  msgs' # {} /\ (Messages(Stale)' = {} => OneMessage')
<1>1. /\ test \in {"smoke", "compose", "consume"} /\ todo = {} /\ msgs = {} /\ msgs' = Leased(S)
      /\ at \in 1 .. Len(Script(test)) /\ Kind = Script(test)[at].kind
      /\ at \in Nat /\ Len(Script(test)) \in Nat
  <2>1. /\ at \in 1 .. Len(Script(test)) /\ Kind = Script(test)[at].kind /\ todo = {} /\ msgs = {}
        /\ msgs' = Leased(S)
    BY NewMessages
  <2> QED
    BY <2>1, CallPlace, ScriptPlaces
<1>2. Produced(test) = {1} /\ test # "subscribe" /\ test # "pipeline" /\ test \in Tests
  BY <1>1, ProducedType DEF Tests, OwnDaemon
<1>3. PICK j \in 1 .. at - 1 : Script(test)[j].kind = "produce" /\ 1 \in Script(test)[j].msgs
  <2>1. test \in Tests /\ at \in 1 .. Len(Script(test)) /\ Script(test)[at].kind = "poll"
    BY <1>1, <1>2
  <2> QED
    BY <2>1, ScriptOrder
<1>4. offset[1] # 0
  <2>1. j \in 1 .. at /\ j # at
    BY <1>1
  <2> QED
    BY <1>3, <2>1 DEF DoneInv, Healthy, Answered, KindAt
<1>5. offset[1] \in 1 .. Len(log) /\ log[offset[1]] = 1
  BY <1>2, <1>4 DEF IInv, OffsetInv, SourceInv
<1>6. state[offset[1]] = "ready"
  <2>1. state[offset[1]] # "acked"
    BY <1>1, <1>5 DEF AckedInv
  <2>2. Tracked /\ left = 0
    BY <1>2 DEF TroubleInv, LeftInv, Healthy
  <2>3. state[offset[1]] # "leased"
    BY <1>1, <1>5, <2>2 DEF Tracked
  <2> QED
    BY <1>5, <2>1, <2>3 DEF IInv, BrokerInv
<1>7. Leased(S) # {}
  <2>1. ASSUME Leased(S) = {} PROVE FALSE
    <3>1. Cardinality(Leased(S)) = 0
      BY <2>1, FS_EmptySet
    <3> QED
      BY <1>2, <1>5, <1>6, <3>1, EmptyPoll
  <2> QED
    BY <2>1
<1>8. ASSUME Messages(Stale)' = {} PROVE OneMessage'
  <2>1. log' = log /\ DOMAIN log = 1 .. Len(log) /\ S \subseteq 1 .. Len(log)
    BY LogLength, ReadyType DEF Grants, IInv
  <2>2. \A o \in 1 .. Len(log) : log[o] # Stale
    BY <1>8, <2>1 DEF Messages
  <2>3. \A o \in 1 .. Len(log) : log[o] = 1 /\ o = offset[1]
    <3> SUFFICES ASSUME NEW o \in 1 .. Len(log) PROVE log[o] = 1 /\ o = offset[1]
      OBVIOUS
    <3>1. log[o] = 1
      BY <1>2, <2>2 DEF SourceInv
    <3>2. offset[log[o]] = o
      BY <2>2 DEF ToldInv
    <3> QED
      BY <3>1, <3>2
  <2>4. S = {offset[1]}
    <3>1. S # {}
      BY <1>7 DEF Leased
    <3> QED
      BY <2>1, <2>3, <3>1
  <2>5. msgs' = {[entry |-> offset[1], lease |-> leases']}
    BY <1>1, <2>4 DEF Leased
  <2>6. Cardinality(msgs') = 1
    BY <2>5, FS_Singleton
  <2>7. \A d \in msgs' : log'[d.entry] = 1
    BY <1>5, <2>1, <2>5
  <2> QED
    BY <2>6, <2>7 DEF OneMessage
<1> QED
  BY <1>1, <1>7, <1>8

(* What is polled once more has been acked.                                *)
LEMMA NothingLeft ==
    ASSUME IInv, KindInv, AckInv, SourceInv, DoneInv, TroubleInv, ToldInv, ReceivedInv, PassInv, Healthy,
           Kind = "pollAgain"
    PROVE  Ready(Polled) = {}
<1>1. /\ at \in 1 .. Len(Script(test)) /\ Kind = Script(test)[at].kind /\ test \in Tests
      /\ at \in Nat /\ Len(Script(test)) \in Nat
  BY CallPlace
<1>2. \A o \in Ready(Polled) : o \in 1 .. Len(log) /\ state[o] = "ready" /\ log[o] \in Polled
  BY LogLength DEF Ready, IInv
<1>3. \A o \in 1 .. Len(log) : log[o] # Stale => offset[log[o]] = o
  BY DEF ToldInv
<1>4. CASE test = "smoke"
  <2>1. msgs \ todo # {}
    BY <1>1, <1>4, AckedFirst DEF Healthy, KindAt
  <2>2. PICK d \in msgs : d \notin todo
    BY <2>1
  <2>3. state[d.entry] = "acked"
    BY <1>4, <2>2 DEF AckInv, Owed, TroubleInv, Healthy, Counted
  <2>4. d.entry \in 1 .. Len(log)
    <3>1. Given(d) /\ Len(log) \in Nat
      BY LogLength DEF IInv, DeliveredInv
    <3> QED
      BY <3>1 DEF Given, Deliveries, Offsets
  <2>5. \A o \in 1 .. Len(log) : log[o] = 1
    BY <1>1, <1>4, ProducedType DEF SourceInv, OwnDaemon, Tests
  <2>6. \A o \in 1 .. Len(log) : offset[1] = o
    BY <1>3, <2>5 DEF Stale
  <2> QED
    BY <1>2, <2>3, <2>4, <2>6
<1>5. CASE test = "subscribe"
  <2>1. PICK j \in 1 .. at - 1 : Script(test)[j].kind = "await" /\ Script(test)[j].msgs = Pushed
    BY <1>1, <1>5, ScriptOrder
  <2>2. \A m \in Pushed : \E d \in received : log[d.entry] = m
    BY <1>1, <2>1 DEF PassInv, KindAt
  <2>3. \A d \in received : d.entry \in 1 .. Len(log) /\ state[d.entry] = "acked"
    <3> SUFFICES ASSUME NEW d \in received PROVE d.entry \in 1 .. Len(log)
      BY DEF ReceivedInv
    <3>1. Given(d) /\ Len(log) \in Nat
      BY LogLength DEF IInv, DeliveredInv
    <3> QED
      BY <3>1 DEF Given, Deliveries, Offsets
  <2>4. \A m \in Pushed : m # Stale
    BY SmokeAssumption DEF Pushed, Stale
  <2>5. ASSUME NEW o \in Ready(Polled) PROVE FALSE
    <3>1. o \in 1 .. Len(log) /\ state[o] = "ready" /\ log[o] \in Pushed
      BY <1>2, <1>5 DEF Polled
    <3>2. PICK d \in received : log[d.entry] = log[o]
      BY <2>2, <3>1
    <3>3. offset[log[o]] = o /\ offset[log[d.entry]] = d.entry
      BY <1>3, <2>3, <2>4, <3>1, <3>2
    <3> QED
      BY <2>3, <3>1, <3>2, <3>3
  <2> QED
    BY <2>5
<1> QED
  BY <1>1, <1>4, <1>5, ScriptOrder

LEMMA LeftStep ==
    ASSUME IInv, KindInv, AckInv, SourceInv, DoneInv, TroubleInv, ToldInv, ReceivedInv, PassInv, LeftInv,
           [Next]_vars
    PROVE  LeftInv'
<1> SUFFICES ASSUME Healthy' PROVE left' = 0
  BY DEF LeftInv
<1>1. Healthy /\ left = 0
  BY HealthyBefore DEF LeftInv
<1>2. CASE UNCHANGED <<left, drained>>
  BY <1>1, <1>2
<1>3. CASE \E w \in wire, S \in SUBSET Ready(Polled) : PollTold(w, S) /\ Kind \in {"pollAgain", "drain"}
  <2>1. PICK w \in wire, S \in SUBSET Ready(Polled) : PollTold(w, S) /\ Kind \in {"pollAgain", "drain"}
    BY <1>3
  <2>2. CASE Kind = "pollAgain"
    <3>1. Leased(S) = {}
      BY <1>1, <2>2, NothingLeft DEF Leased
    <3> QED
      BY <2>1, <2>2, <3>1, FS_EmptySet DEF PollTold
  <2> QED
    BY <1>1, <2>1, <2>2 DEF PollTold
<1> QED
  BY <1>2, <1>3, CountChange

(* The checks of single steps.                                             *)
LEMMA ChecksChange ==
    ASSUME IInv, KindInv, [Next]_vars
    PROVE  /\ leader => leader'
           /\ \/ repeated' = repeated
              \/ Kind = "repeat" /\ (\E w \in wire : Arrives(w) /\ ProduceArrives(w) /\ Heard(w))
<1>1. CASE Idle \/ \E c \in calls : Again(c) \/ GivenUp(c)
  BY <1>1 DEF Idle, Again, GivenUp, toldVars
<1>2. CASE \E w \in wire : Arrives(w)
  <2>1. PICK w \in wire : Arrives(w)
    BY <1>2
  <2>2. CASE ProduceArrives(w)
    BY <2>1, <2>2, ProduceEffect DEF ToldNothing, ProduceTold, toldVars
  <2>3. CASE PollArrives(w)
    BY <2>3, PollEffect DEF ToldNothing, PollTold, toldVars
  <2>4. CASE AckArrives(w)
    BY <2>4, AckEffect
  <2>5. CASE SetupArrives(w) \/ StatsArrive(w)
    <3>1. repeated' = repeated
      BY <2>5, OtherEffect
    <3>2. leader => leader'
      BY <2>5 DEF SetupArrives, StatsArrive, Unheard, toldVars
    <3> QED
      BY <3>1, <3>2
  <2> QED
    BY <2>1, <2>2, <2>3, <2>4, <2>5 DEF Arrives
<1>3. CASE \/ \E o \in DOMAIN log : Pushes(o) \/ Expires(o)
           \/ \E d \in inbox : Handles(d)
  <2>1. UNCHANGED toldVars
    BY <1>3 DEF Pushes, Expires, Handles
  <2> QED
    BY <2>1 DEF toldVars
<1>4. CASE Repeats
  BY <1>4 DEF Repeats, toldVars
<1>5. CASE Begins /\ Asks(Script(test)[at + 1])
  BY <1>5 DEF Asks, toldVars
<1>6. CASE Begins /\ Local(Script(test)[at + 1])
  BY <1>6, LocalStep DEF Locally
<1> QED
  BY <1>1, <1>2, <1>3, <1>4, <1>5, <1>6, StepCases DEF Begins

(* Without trouble a message is received once.                             *)
LEMMA ReceivedOnce ==
    ASSUME IInv, ToldInv, ReceivedInv, Healthy, NEW d \in received, NEW e \in received,
           log[d.entry] = log[e.entry], log[d.entry] # Stale
    PROVE  d = e
<1>1. d.entry \in 1 .. Len(log) /\ e.entry \in 1 .. Len(log)
  <2>1. Given(d) /\ Given(e) /\ Len(log) \in Nat
    BY LogLength DEF IInv, DeliveredInv
  <2> QED
    BY <2>1 DEF Given, Deliveries, Offsets
<1>2. offset[log[d.entry]] = d.entry /\ offset[log[e.entry]] = e.entry
  BY <1>1 DEF ToldInv
<1> QED
  BY <1>2 DEF ReceivedInv

(* Enough messages are all the messages.                                   *)
LEMMA EnoughReceived ==
    ASSUME IInv, ToldInv, ReceivedInv, Healthy, NEW M \in SUBSET Produced(test), test = "subscribe",
           Times(M) >= Cardinality(M)
    PROVE  \A m \in M : \E d \in received : log[d.entry] = m
<1> DEFINE R == {d \in received : log[d.entry] \in M}
           f == [d \in R |-> log[d.entry]]
<1>1. IsFiniteSet(M) /\ Cardinality(M) \in Nat
  <2>1. IsFiniteSet(Pushed)
    <3>1. 1 \in Int /\ PushN \in Int
      BY SmokeAssumption
    <3> QED
      BY <3>1, FS_Interval DEF Pushed
  <2>2. IsFiniteSet(Pushed \cup {Retry})
    BY <2>1, FS_AddElement
  <2>3. Produced(test) = Pushed \cup {Retry}
    BY DEF Produced
  <2> QED
    BY <2>2, <2>3, FS_Subset, FS_CardinalityType
<1>2. \A d, e \in R : f[d] = f[e] => d = e
  <2> SUFFICES ASSUME NEW d \in R, NEW e \in R, log[d.entry] = log[e.entry] PROVE d = e
    OBVIOUS
  <2>1. log[d.entry] # Stale
    BY NotStale
  <2> QED
    BY <2>1, ReceivedOnce
<1>3. f \in [R -> M] /\ Times(M) = Cardinality(R)
  BY DEF Times
<1> HIDE DEF f, R
<1>4. f \in Injection(R, M)
  <2>1. IsInjective(f)
    BY <1>2, <1>3 DEF IsInjective
  <2> QED
    BY <1>3, <2>1 DEF Injection
<1>5. /\ IsFiniteSet(R) /\ Cardinality(R) <= Cardinality(M)
      /\ Cardinality(R) = Cardinality(M) => f \in Surjection(R, M)
  BY <1>1, <1>4, FS_Injection
<1>6. Cardinality(R) = Cardinality(M)
  <2>1. Cardinality(R) \in Nat
    BY <1>5, FS_CardinalityType
  <2> QED
    BY <1>1, <1>3, <1>5, <2>1
<1>7. \A m \in M : \E d \in R : f[d] = m
  BY <1>5, <1>6 DEF Surjection
<1> QED
  BY <1>7 DEF f, R

LEMMA PassStep ==
    ASSUME IInv, KindInv, PushInv, OnceInv, SourceInv, AckedInv, DoneInv, TroubleInv, ServedInv, WireInv,
           ToldInv, ReceivedInv, LeftInv, PassInv, [Next]_vars
    PROVE  PassInv'
<1> SUFFICES ASSUME Healthy' PROVE PassInv'
  BY DEF PassInv
<1>0. /\ Healthy /\ Live /\ Live' /\ test' = test /\ faults' = faults /\ Grown /\ test \in Tests
      /\ at \in Nat /\ Len(Script(test)) \in Nat /\ at <= Len(Script(test)) /\ \A kind : ~Trouble(kind)
  BY HealthyBefore, NextInvariant, NoTrouble, ScriptType DEF Healthy, IInv, TestInv
<1>1. ASSUME NEW d \in msgs \cup received PROVE d.entry \in 1 .. Len(log) /\ log'[d.entry] = log[d.entry]
  <2>1. Given(d)
    BY <1>1 DEF IInv, DeliveredInv
  <2> QED
    BY <2>1, NextInvariant, GivenStays DEF IInv
<1> SUFFICES ASSUME NEW i \in 1 .. Len(Script(test))
             PROVE  /\ Done(i)' /\ KindAt(i) = "poll" => msgs' # {} /\ (Messages(Stale)' = {} => OneMessage')
                    /\ Done(i)' /\ KindAt(i) = "stats" => leader'
                    /\ Done(i)' /\ KindAt(i) = "repeat" => repeated'
                    /\ i < at' /\ KindAt(i) = "await" =>
                         \A m \in Script(test)[i].msgs : \E d \in received' : log'[d.entry] = m
                    /\ i < at' /\ KindAt(i) = "ackEach" => ok'
  BY <1>0 DEF PassInv, KindAt
(* The answer to the only call.                                            *)
<1>2. ASSUME Done(i)', KindAt(i) \in {"poll", "stats", "repeat"}, ~Done(i)
      PROVE  /\ i = at /\ Kind = KindAt(i)
             /\ \E w \in wire : Arrives(w) /\ calls = {w.call} /\ ~ToldNothing(w)
  <2>1. /\ i = at /\ Kind = KindAt(i)
        /\ \E c \in calls : GivenUp(c) \/ \E w \in wire : Arrives(w) /\ w.call = c /\ calls = {c}
    BY <1>0, <1>2, NewlyDone DEF Locally
  <2>2. \A c \in calls : ~GivenUp(c)
    BY <1>0, CallsOnce
  <2>3. PICK w \in wire : Arrives(w) /\ calls = {w.call}
    BY <2>1, <2>2
  <2> QED
    BY <1>0, <2>1, <2>3, Answer
<1>3. ASSUME Done(i)', KindAt(i) = "poll" PROVE msgs' # {} /\ (Messages(Stale)' = {} => OneMessage')
  <2>1. CASE Done(i)
    <3>1. msgs # {} /\ (Messages(Stale) = {} => OneMessage)
      BY <1>0, <1>3, <2>1 DEF PassInv
    <3>2. test # "pipeline"
      BY <1>0, <1>3, ScriptPlaces DEF KindAt
    <3>3. msgs' = msgs
      BY <3>1, <3>2, MessagesKept
    <3>4. Messages(Stale)' = {} => Messages(Stale) = {}
      <4>1. /\ DOMAIN log = 1 .. Len(log) /\ DOMAIN log' = 1 .. Len(log')
            /\ Len(log) \in Nat /\ Len(log') \in Nat
        BY NextInvariant, LogLength, LenProperties DEF IInv, BrokerInv
      <4> QED
        BY <1>0, <4>1 DEF Grown, Messages
    <3>5. OneMessage => OneMessage'
      BY <1>1, <3>3 DEF OneMessage
    <3> QED
      BY <3>1, <3>3, <3>4, <3>5
  <2>2. CASE ~Done(i)
    <3>1. PICK w \in wire : Arrives(w) /\ calls = {w.call} /\ ~ToldNothing(w)
      BY <1>2, <1>3, <2>2
    <3>2. w.call.kind = "poll" /\ Kind = "poll"
      BY <1>2, <1>3, <2>2, <3>1, ArrivalOf DEF KindInv
    <3>3. PollArrives(w)
      BY <3>1, <3>2, ArrivalOf
    <3>4. PICK S \in SUBSET Ready(Polled) :
             /\ S \in SUBSET Ready(Nat) /\ Grants(S)
             /\ Cardinality(S) = Min({PollLimit, Cardinality(Ready(Polled))})
             /\ PollTold(w, S)
      BY <3>1, <3>3, PollEffect
    <3> QED
      BY <1>0, <3>2, <3>3, <3>4, PollFinds
  <2> QED
    BY <2>1, <2>2
<1>4. ASSUME Done(i)', KindAt(i) = "stats" PROVE leader'
  <2>1. CASE Done(i)
    BY <1>0, <1>4, <2>1, ChecksChange DEF PassInv
  <2>2. CASE ~Done(i)
    <3>1. PICK w \in wire : Arrives(w) /\ calls = {w.call} /\ ~ToldNothing(w)
      BY <1>2, <1>4, <2>2
    <3>2. w.call.kind = "stats"
      BY <1>2, <1>4, <2>2, <3>1, ArrivalOf DEF KindInv
    <3>3. StatsArrive(w) /\ ~Unheard(w)
      BY <3>1, <3>2, ArrivalOf, UnheardStep
    <3> QED
      BY <1>0, <3>3 DEF StatsArrive
  <2> QED
    BY <2>1, <2>2
<1>5. ASSUME Done(i)', KindAt(i) = "repeat" PROVE repeated'
  <2>1. CASE Done(i)
    <3>1. repeated
      BY <1>0, <1>5, <2>1 DEF PassInv
    <3>2. ~(Kind = "repeat" /\ calls # {})
      <4> SUFFICES ASSUME Kind = "repeat", calls # {} PROVE FALSE
        OBVIOUS
      <4>1. at \in 1 .. Len(Script(test)) /\ Script(test)[at].kind = "repeat"
        BY CallPlace
      <4>2. at = SerialN + 4 /\ i = SerialN + 4
        BY <1>0, <1>5, <4>1, ScriptPlaces DEF KindAt
      <4> QED
        BY <1>0, <2>1, <4>2 DEF Done
    <3>3. repeated' = repeated
      BY <3>2, ChecksChange DEF Heard
    <3> QED
      BY <3>1, <3>3
  <2>2. CASE ~Done(i)
    <3>1. PICK w \in wire : Arrives(w) /\ calls = {w.call} /\ ~ToldNothing(w)
      BY <1>2, <1>5, <2>2
    <3>2. w.call.kind = "produce" /\ Kind = "repeat"
      BY <1>2, <1>5, <2>2, <3>1, ArrivalOf DEF KindInv
    <3>3. ProduceArrives(w)
      BY <3>1, <3>2, ArrivalOf
    <3>4. PICK o \in 1 .. Len(log') : log'[o] = w.call.msg /\ ProduceTold(w, o)
      BY <3>1, <3>3, ProduceEffect
    <3>5. /\ offset[w.call.msg] \in 1 .. Len(log) /\ log[offset[w.call.msg]] = w.call.msg
          /\ test = "pipeline" /\ Known(w.call.msg) # {}
      BY <1>0, <3>1, <3>2, RepeatKnown
    <3>6. log' = log
      BY <3>3, <3>5, ProduceEffect DEF brokerVars
    <3>7. o = offset[w.call.msg]
      BY <3>4, <3>5, <3>6 DEF SourceInv
    <3> QED
      BY <3>2, <3>4, <3>7 DEF ProduceTold
  <2> QED
    BY <2>1, <2>2
<1>6. i < at' => i < at \/ (i = at /\ Begins)
  <2>1. at' = at \/ (at' = at + 1 /\ Begins)
    <3>1. CASE Begins
      BY <3>1 DEF Begins
    <3>2. CASE Repeats
      BY <3>2 DEF Repeats
    <3>3. CASE ~Begins /\ ~Repeats
      BY <3>3, StepCases, WaitsStep
    <3> QED
      BY <3>1, <3>2, <3>3
  <2> QED
    BY <1>0, <2>1
<1>7. ASSUME i < at', KindAt(i) = "await", NEW m \in Script(test)[i].msgs
      PROVE  \E d \in received' : log'[d.entry] = m
  <2>1. \E d \in received : log[d.entry] = m
    <3>1. CASE i < at
      BY <1>0, <1>7, <3>1 DEF PassInv
    <3>2. CASE i = at /\ Begins
      <4>1. Kind = "await" /\ Running /\ Patience /\ Script(test)[at].msgs \subseteq Produced(test)
        BY <1>0, <1>7, <3>2, ScriptType DEF Begins, Kind, KindAt
      <4>2. Listening
        BY <1>0, <4>1, ServedHere DEF Running
      <4>3. Enough
        BY <1>0, <4>1, <4>2 DEF Patience
      <4>4. Times(Script(test)[at].msgs) >= Cardinality(Script(test)[at].msgs)
        BY <4>1, <4>3 DEF Enough
      <4>5. test = "subscribe"
        BY <1>0, <1>7, ScriptPlaces DEF KindAt
      <4> QED
        BY <1>0, <1>7, <3>2, <4>1, <4>4, <4>5, EnoughReceived
    <3> QED
      BY <1>6, <1>7, <3>1, <3>2
  <2>2. received \subseteq received'
    BY ReceivedChange DEF Handles
  <2> QED
    BY <1>1, <2>1, <2>2
<1>8. ASSUME i < at', KindAt(i) = "ackEach" PROVE ok'
  <2>1. CASE i < at
    <3>1. ok
      BY <1>0, <1>8, <2>1 DEF PassInv
    <3>2. ~Concludes
      BY <1>0 DEF Concludes, Live
    <3> QED
      BY <3>1, <3>2, OkSteps DEF Begins
  <2>2. CASE i = at /\ Begins
    <3>1. Kind = "ackEach"
      BY <1>0, <1>8, <2>2 DEF Kind, KindAt
    <3>2. PICK j \in 1 .. at - 1 : Script(test)[j].kind = "poll"
      BY <1>0, <1>8, <2>2, ScriptOrder DEF KindAt
    <3>3. j \in 1 .. Len(Script(test)) /\ Done(j) /\ KindAt(j) = "poll"
      BY <1>0, <3>2 DEF Done, KindAt
    <3>4. msgs # {}
      BY <1>0, <3>3 DEF PassInv
    <3> QED
      BY <2>2, <3>1, <3>4 DEF Begins
  <2> QED
    BY <1>6, <1>8, <2>1, <2>2
<1> QED
  BY <1>3, <1>4, <1>5, <1>7, <1>8

(* The checks of pipeline-smoke.mjs hold when nothing went wrong.          *)
LEMMA PipelineHealthy ==
    ASSUME IInv, SourceInv, DoneInv, TroubleInv, DrainInv, ToldInv, PassInv, Healthy, test = "pipeline",
           Running, at = Len(Script(test)), msgs = {}
    PROVE  PipelinePasses
<1> DEFINE N == SerialN + BulkN + BurstN
           P == 1 .. N
<1>1. /\ Len(log) \in Nat /\ offset \in [Produced(test) -> 0 .. Len(log)] /\ N \in Nat /\ calls = {}
      /\ Script(test) = Pipelined /\ at \in Nat
  BY LogLength, SmokeAssumption DEF IInv, OffsetInv, TestInv, Running, Script
<1>2. Produced(test) = P /\ Bulk \subseteq P /\ Burst \subseteq P
  BY SmokeAssumption DEF Produced, Bulk, Burst
<1>3. \A m \in P : offset[m] \in 1 .. Len(log) /\ log[offset[m]] = m
  <2> SUFFICES ASSUME NEW m \in Produced(test) PROVE offset[m] # 0
    BY <1>1, <1>2 DEF SourceInv
  <2>1. PICK i \in 1 .. Len(Pipelined) : Pipelined[i].kind \in {"produce", "produceMany"} /\ m \in Pipelined[i].msgs
    BY ScriptEnds
  <2>2. i \in 1 .. at /\ KindAt(i) \in {"produce", "produceMany"} /\ m \in Script(test)[i].msgs
    BY <1>1, <2>1 DEF KindAt
  <2> QED
    BY <1>1, <2>2 DEF ToldInv, Answered
<1>4. IsFiniteSet(P) /\ Cardinality(P) = N
  <2>1. 1 \in Int /\ N \in Int
    BY <1>1
  <2>2. IsFiniteSet(P) /\ Cardinality(P) = IF 1 > N THEN 0 ELSE N - 1 + 1
    <3> HIDE DEF N
    <3> QED
      BY <2>1, FS_Interval
  <2> HIDE DEF N, P
  <2> QED
    BY <1>1, <2>2
<1> HIDE DEF N, P
<1>5. ASSUME NEW S, S \subseteq P PROVE Distinct(S)
  <2> DEFINE T == {offset[m] : m \in S}
             f == [m \in S |-> offset[m]]
  <2>1. IsFiniteSet(S)
    BY <1>4, <1>5, FS_Subset
  <2>2. f \in [S -> T] /\ \A y \in T : \E x \in S : f[x] = y
    OBVIOUS
  <2>3. \A x, y \in S : f[x] = f[y] => x = y
    <3> SUFFICES ASSUME NEW x \in S, NEW y \in S, offset[x] = offset[y] PROVE x = y
      OBVIOUS
    <3> QED
      BY <1>3, <1>5
  <2> HIDE DEF f, T
  <2>4. Cardinality(T) = Cardinality(S)
    BY <2>1, <2>2, <2>3, ImageCount
  <2> QED
    BY <2>4 DEF T, Distinct
<1>6. repeated /\ rejected
  <2>1. PICK i \in 1 .. Len(Script("pipeline")) : Script("pipeline")[i].kind = "repeat"
    BY ScriptEnds
  <2>2. PICK j \in 1 .. Len(Script("pipeline")) : Script("pipeline")[j].kind = "malformed"
    BY ScriptEnds
  <2>3. Done(i) /\ KindAt(i) = "repeat" /\ Done(j) /\ KindAt(j) = "malformed"
    BY <1>1, <2>1, <2>2 DEF Done, KindAt
  <2>4. repeated
    BY <2>1, <2>3 DEF PassInv
  <2>5. rejected
    BY <2>2, <2>3 DEF DoneInv, Healthy
  <2> QED
    BY <2>4, <2>5
<1>7. drained = N
  <2>1. Kind = "drain"
    <3>1. at = SerialN + 7 /\ Pipelined[at] = Do("drain") /\ at # 0
      BY <1>1, PipelinedSteps, SmokeAssumption
    <3> QED
      BY <1>1, <3>1 DEF Kind, Do, Step
  <2>2. TellsAcked /\ Counted
    BY <1>1, <2>1 DEF DrainInv, TroubleInv, Healthy
  <2>3. \A m \in P : offset[m] \in Handed
    <3>1. \A m \in P : state[offset[m]] = "acked"
      <4>1. \A m \in P : offset[m] # 0
        BY <1>3
      <4> QED
        BY <1>2, <2>2, <4>1 DEF TellsAcked
    <3> QED
      BY <1>3, <3>1 DEF Handed
  <2>4. \A o \in Handed : \E m \in P : offset[m] = o
    <3> SUFFICES ASSUME NEW o \in Handed PROVE \E m \in P : offset[m] = o
      OBVIOUS
    <3>1. o \in 1 .. Len(log)
      BY DEF Handed
    <3>2. log[o] \in P /\ log[o] # Stale
      BY <1>2, <3>1, NotStale DEF SourceInv, OwnDaemon
    <3>3. offset[log[o]] = o
      BY <3>1, <3>2 DEF ToldInv
    <3> QED
      BY <3>2, <3>3
  <2> DEFINE f == [m \in P |-> offset[m]]
  <2>5. f \in [P -> Handed] /\ \A o \in Handed : \E m \in P : f[m] = o
    BY <2>3, <2>4
  <2>6. \A x, y \in P : f[x] = f[y] => x = y
    <3> SUFFICES ASSUME NEW x \in P, NEW y \in P, offset[x] = offset[y] PROVE x = y
      OBVIOUS
    <3> QED
      BY <1>3
  <2> HIDE DEF f
  <2>7. Cardinality(Handed) = N
    BY <1>4, <2>5, <2>6, ImageCount
  <2> QED
    BY <2>2, <2>7 DEF Counted
<1>8. \A m \in Bulk : offset[m] # 0
  BY <1>2, <1>3
<1> QED
  BY <1>2, <1>5, <1>6, <1>7, <1>8 DEF PipelinePasses, N

(* A test that has come to its end without trouble passes.                 *)
LEMMA PassesHealthy ==
    ASSUME IInv, SourceInv, RetryInv, DoneInv, TroubleInv, DrainInv, ToldInv, ReceivedInv, LeftInv, PassInv,
           Healthy, Running, at = Len(Script(test)), Kind = "drain" => msgs = {},
           Messages(Stale) = {} \/ test = "consume"
    PROVE  Passes
<1>1. test \in Tests /\ at \in Nat /\ calls = {} /\ left = 0
  BY DEF IInv, TestInv, Running, LeftInv
<1>2. \A i \in 1 .. Len(Script(test)) : Done(i)
  BY <1>1 DEF Done
<1>3. CASE test \in {"smoke", "compose"}
  <2>1. PICK i \in 1 .. Len(Script(test)) : Script(test)[i].kind = "poll"
    BY <1>3, ScriptEnds
  <2>2. PICK j \in 1 .. Len(Script(test)) : Script(test)[j].kind = "stats"
    BY <1>3, ScriptEnds
  <2>3. OneMessage
    BY <1>2, <1>3, <2>1 DEF PassInv, KindAt
  <2>4. leader
    BY <1>2, <2>2 DEF PassInv, KindAt
  <2> QED
    BY <1>1, <1>3, <2>3, <2>4 DEF Passes, SmokePasses, ComposePasses
<1>4. CASE test = "consume"
  <2>1. PICK i \in 1 .. Len(Consume) - 1 : Consume[i].kind = "ackEach"
    BY ScriptEnds
  <2>2. i \in 1 .. Len(Script(test)) /\ i < at /\ KindAt(i) = "ackEach"
    BY <1>1, <1>4, <2>1 DEF Script, KindAt
  <2>3. ok
    BY <2>2 DEF PassInv
  <2> QED
    BY <1>4, <2>3 DEF Passes
<1>5. CASE test = "pipeline"
  <2>1. Script(test) = Pipelined /\ at = SerialN + 7 /\ Pipelined[at] = Do("drain") /\ at # 0
    BY <1>5, PipelinedSteps, SmokeAssumption DEF Script
  <2>2. Kind = "drain"
    BY <2>1 DEF Kind, Do, Step
  <2>3. PipelinePasses
    BY <1>5, <2>2, PipelineHealthy
  <2> QED
    BY <1>5, <2>3 DEF Passes
<1>6. CASE test = "subscribe"
  <2>1. ASSUME NEW m \in Produced(test)
        PROVE  /\ Times({m}) = 1
               /\ \E d \in received : log[d.entry] = m
    <3>1. PICK i \in 1 .. Len(Subscribe) - 1 : Subscribe[i].kind = "await" /\ m \in Subscribe[i].msgs
      BY <1>6, <2>1, ScriptEnds
    <3>2. i \in 1 .. Len(Script(test)) /\ i < at /\ KindAt(i) = "await" /\ m \in Script(test)[i].msgs
      BY <1>1, <1>6, <3>1 DEF Script, KindAt
    <3>3. PICK d \in received : log[d.entry] = m
      BY <3>2 DEF PassInv
    <3>4. \A e \in received : log[e.entry] = m => e = d
      BY <2>1, <3>3, NotStale, ReceivedOnce
    <3>5. {e \in received : log[e.entry] \in {m}} = {d}
      BY <3>3, <3>4
    <3>6. Times({m}) = 1
      BY <3>5, FS_Singleton DEF Times
    <3> QED
      BY <3>3, <3>6
  <2>2. Retry \in Produced(test)
    BY <1>6 DEF Produced
  <2>3. failedOnce
    BY <2>1, <2>2 DEF RetryInv
  <2> QED
    BY <1>1, <1>6, <2>1, <2>3 DEF Passes, SubscribePasses
<1> QED
  BY <1>1, <1>3, <1>4, <1>5, <1>6 DEF Tests, OwnDaemon

(* Nothing but its verdict ends a test without trouble.                    *)
LEMMA HealthyEnds ==
    ASSUME IInv, KindInv, ServedInv, WireInv, LeaseInv, PassInv, Healthy, [Next]_vars, faults' = faults, ~Live'
    PROVE  Concludes /\ Patience /\ ok' = Passes
<1>1. \A kind : ~Trouble(kind)
  BY NoTrouble
<1>2. CASE Concludes
  BY <1>1, <1>2 DEF Concludes
<1>3. CASE NothingToAck
  <2>1. /\ at + 1 \in 1 .. Len(Script(test)) /\ test \in Tests /\ Script(test)[at + 1].kind = "ackFirst"
        /\ at \in Nat /\ Len(Script(test)) \in Nat /\ calls = {} /\ msgs = {}
    BY <1>3, ScriptType DEF NothingToAck, Running, IInv, TestInv
  <2>2. PICK j \in 1 .. (at + 1) - 1 : Script(test)[j].kind = "poll"
    BY <2>1, ScriptOrder
  <2>3. j \in 1 .. Len(Script(test)) /\ Done(j) /\ KindAt(j) = "poll"
    BY <2>1, <2>2 DEF Done, KindAt
  <2> QED
    BY <2>1, <2>3 DEF PassInv
<1>4. CASE \E w \in wire : Arrives(w)
  <2>1. PICK w \in wire : Arrives(w)
    BY <1>4
  <2>2. ~(AckArrives(w) /\ ~Current(w.call.delivery) /\ w.call \in calls)
    BY DEF AckArrives, LeaseInv
  <2>3. pc' = pc
    BY <2>1, <2>2 DEF Arrives, ProduceArrives, PollArrives, AckArrives, SetupArrives, StatsArrive,
                      Heard, Unheard, testVars
  <2> QED
    BY <2>3 DEF Live, Healthy
<1>5. CASE \E c \in calls : TimesOut(c)
  <2>1. PICK c \in calls : TimesOut(c)
    BY <1>5
  <2>2. Listening
    BY ServedHere
  <2>3. [call |-> c, copy |-> 0] \in wire
    BY DEF WireInv
  <2>4. Copies(c) # {}
    BY <2>3 DEF Copies
  <2> QED
    BY <1>1, <2>1, <2>2, <2>4 DEF TimesOut
<1>6. CASE Exits
  BY <1>6 DEF Exits, ServedInv, Healthy, Live
<1>7. CASE DaemonSteps \/ Starts \/ Begins \/ Repeats \/ StopsDaemon
  BY <1>7 DEF DaemonSteps, Others, Starts, Begins, Repeats, StopsDaemon, testVars, Live, Healthy
<1>8. CASE (\E o \in DOMAIN log : Pushes(o) \/ Expires(o)) \/ \E d \in inbox : Handles(d)
  BY <1>8 DEF Pushes, Expires, Handles, testVars, Live, Healthy
<1>9. CASE UNCHANGED vars
  BY <1>9 DEF vars, testVars, Live, Healthy
<1> QED
  BY <1>2, <1>3, <1>4, <1>5, <1>6, <1>7, <1>8, <1>9 DEF Next, TestSteps, Broker, Finished

(* A test that ends without trouble has passed, but for what older         *)
(* messages in a daemon that is not its own may upset.                     *)
HealthyInv == faults = 0 /\ ~Live /\ (Messages(Stale) = {} \/ test = "consume") => ok

LEMMA HealthyStep ==
    ASSUME IInv, KindInv, SourceInv, RetryInv, DoneInv, TroubleInv, DrainInv, ServedInv, WireInv, LeaseInv,
           ToldInv, ReceivedInv, LeftInv, PassInv, HealthyInv, [Next]_vars
    PROVE  HealthyInv'
<1> SUFFICES ASSUME faults' = 0, ~Live', Messages(Stale)' = {} \/ test' = "consume" PROVE ok'
  BY DEF HealthyInv
<1>1. faults = 0 /\ faults' = faults /\ test' = test
  BY FaultsGrow, LogChange
<1>2. Messages(Stale) = {} \/ test = "consume"
  <2>1. /\ DOMAIN log = 1 .. Len(log) /\ DOMAIN log' = 1 .. Len(log')
        /\ Len(log) \in Nat /\ Len(log') \in Nat /\ Grown
    BY NextInvariant, LogLength, LenProperties DEF IInv, BrokerInv
  <2>2. Messages(Stale) \subseteq Messages(Stale)'
    BY <2>1 DEF Grown, Messages
  <2> QED
    BY <1>1, <2>2
<1>3. CASE Live
  <2>1. Concludes /\ Patience /\ ok' = Passes
    BY <1>1, <1>3, HealthyEnds DEF Healthy
  <2>2. Running /\ at = Len(Script(test))
    BY <2>1 DEF Concludes
  <2>3. Kind = "drain" => msgs = {}
    BY <2>1 DEF Patience, Enough
  <2>4. Passes
    BY <1>1, <1>2, <1>3, <2>2, <2>3, PassesHealthy DEF Healthy
  <2> QED
    BY <2>1, <2>4
<1>4. CASE ~Live
  <2>1. ok
    BY <1>1, <1>2, <1>4 DEF HealthyInv
  <2>2. ~Begins /\ ~Concludes
    BY <1>4 DEF Begins, Concludes, Running, Live
  <2> QED
    BY <2>1, <2>2, OkSteps
<1> QED
  BY <1>3, <1>4

-----------------------------------------------------------------------------
(* The whole invariant, and what it says of a verdict.                     *)

(* The parts of the invariant that only hold of a test that is not over.   *)
ScriptInv == KindInv /\ PushInv /\ OnceInv /\ AckInv /\ SourceInv /\ AckedInv /\ RetryInv /\ DoneInv
OneTroubleInv == TroubleInv /\ DrainInv /\ SmokeInv
NoTroubleInv == ServedInv /\ WireInv /\ LeaseInv /\ ToldInv /\ ReceivedInv /\ LeftInv /\ PassInv

(* What is known of every state a test can be in, at its verdict too.      *)
FullInv == IInv /\ ScriptInv /\ OneTroubleInv /\ NoTroubleInv /\ VerdictInv /\ HealthyInv

(* All of it holds before the first step ...                               *)
LEMMA InitFull == Init => FullInv
<1> SUFFICES ASSUME Init PROVE FullInv
  OBVIOUS
<1>1. IInv
  BY InitInvariant
<1>2. /\ pc = "start" /\ at = 0 /\ calls = {} /\ wire = {} /\ msgs = {} /\ todo = {} /\ left = 0 /\ drained = 0
      /\ topic = {} /\ inbox = {} /\ received = {} /\ ~ok /\ test \in Tests
      /\ \A m \in Produced(test) : offset[m] = 0
      /\ Len(Script(test)) \in Nat /\ Kind = "none" /\ Live
  BY <1>1, ScriptType DEF Init, IInv, TestInv, Kind, Live
<1>3. /\ Len(log) \in Nat /\ \A o \in 1 .. Len(log) : state[o] = "ready"
  BY <1>1, LogLength DEF Init, IInv
<1>4. \A i \in 1 .. Len(Script(test)) : ~Done(i) /\ ~(i < at) /\ i # at
  BY <1>2 DEF Done
<1>5. \A kinds : Answered(kinds)
  BY <1>2 DEF Answered
<1>6. ScriptInv
  <2>1. KindInv /\ PushInv /\ AckInv /\ RetryInv /\ AckedInv
    BY <1>2, <1>3 DEF KindInv, PushInv, AckInv, RetryInv, AckedInv
  <2>2. OnceInv
    <3>1. \A i \in 1 .. Len(Script(test)) : ToCome(i)
      BY <1>2, ScriptType DEF ToCome, KindAt
    <3>2. at + 1 .. Len(Script(test)) = 1 .. Len(Script(test))
      BY <1>2
    <3> QED
      BY <1>2, <3>1, <3>2 DEF OnceInv
  <2>3. SourceInv
    <3>1. (test \in OwnDaemon /\ log = <<>>) \/ (test \notin OwnDaemon /\ log \in {<<>>, <<Stale>>})
      BY DEF Init
    <3>2. \A o \in 1 .. Len(log) : log[o] = Stale /\ test \notin OwnDaemon
      BY <3>1
    <3> QED
      BY <1>2, <3>2 DEF SourceInv, OwnDaemon
  <2>4. DoneInv
    BY <1>4, <1>5 DEF DoneInv
  <2> QED
    BY <2>1, <2>2, <2>3, <2>4 DEF ScriptInv
<1>7. OneTroubleInv
  <2>1. Tracked
    BY <1>2, <1>3 DEF Tracked
  <2>2. Counted
    <3>1. Handed = {}
      BY <1>3 DEF Handed
    <3> QED
      BY <1>2, <3>1, FS_EmptySet DEF Counted
  <2> QED
    BY <1>2, <1>4, <2>1, <2>2 DEF OneTroubleInv, TroubleInv, DrainInv, SmokeInv
<1>8. NoTroubleInv
  <2>1. ServedInv
    BY <1>2 DEF ServedInv, Init, DaemonInit, DaemonStarts, NoDaemon, Spawned, ResolveDaemon, Gone, Listening
  <2>2. ToldInv
    <3>1. \A o \in 1 .. Len(log) : log[o] = Stale
      BY DEF Init
    <3> QED
      BY <1>5, <3>1 DEF ToldInv
  <2>3. WireInv /\ LeaseInv /\ ReceivedInv /\ LeftInv /\ PassInv
    BY <1>2, <1>4 DEF WireInv, LeaseInv, ReceivedInv, LeftInv, PassInv
  <2> QED
    BY <2>1, <2>2, <2>3 DEF NoTroubleInv
<1>9. VerdictInv /\ HealthyInv
  BY <1>2 DEF VerdictInv, HealthyInv
<1> QED
  BY <1>1, <1>6, <1>7, <1>8, <1>9 DEF FullInv

(* ... and after every other.                                              *)
LEMMA NextFull == FullInv /\ [Next]_vars => FullInv'
<1> SUFFICES ASSUME FullInv, [Next]_vars PROVE FullInv'
  OBVIOUS
<1> USE DEF FullInv, ScriptInv, OneTroubleInv, NoTroubleInv
<1>1. IInv'
  BY NextInvariant
<1>2. KindInv' /\ PushInv' /\ OnceInv' /\ AckInv'
  BY KindStep, PushStep, OnceStep, AckStep
<1>3. SourceInv' /\ AckedInv' /\ RetryInv' /\ DoneInv'
  BY SourceStep, AckedStep, RetryStep, DoneStep
<1>4. TroubleInv' /\ DrainInv' /\ SmokeInv'
  BY TroubleStep, DrainStep, SmokeStep
<1>5. ServedInv' /\ WireInv' /\ LeaseInv' /\ ToldInv'
  BY ServedStep, WireStep, LeaseStep, ToldStep
<1>6. ReceivedInv' /\ LeftInv' /\ PassInv'
  BY ReceivedStep, LeftStep, PassStep
<1>7. VerdictInv' /\ HealthyInv'
  BY VerdictStep, HealthyStep
<1> QED
  BY <1>1, <1>2, <1>3, <1>4, <1>5, <1>6, <1>7

(* All of the invariant holds in every state: what the step a script is at *)
(* has done, what one trouble leaves true, what holds without any, and the *)
(* verdict.                                                                *)
THEOREM FullInvariance == Spec => []FullInv
BY InitFull, NextFull, PTL DEF Spec

(* What passes is true (the checks of the five scripts): when a test has   *)
(* passed with at most one trouble (a call repeated, lost or late, a lease *)
(* or a daemon that ended), its messages are in the log as it says and     *)
(* acked, whatever the order in which the broker, the daemon and the test  *)
(* took their steps.                                                       *)
THEOREM PassedIsTrue == Spec => []VerdictIsTrue
<1>1. FullInv => VerdictIsTrue
  <2> SUFFICES ASSUME FullInv, pc = "end", ok, faults <= 1
               PROVE  CASE test = "smoke" -> \E o \in Messages(1) : state[o] = "acked"
                        [] test \in {"compose", "consume"} -> msgs # {} /\ \A d \in msgs : ~Current(d)
                        [] test = "pipeline" -> \A m \in Produced(test) :
                             Cardinality(Messages(m)) = 1 /\ \A o \in Messages(m) : state[o] = "acked"
                        [] test = "subscribe" -> \A m \in Produced(test) : \E o \in Messages(m) :
                             lease[o] > 0 /\ (faults = 0 => state[o] = "acked")
    BY DEF VerdictIsTrue
  <2>1. Verdict /\ test \in Tests
    BY DEF FullInv, VerdictInv, IInv, TestInv
  <2> QED
    BY <2>1 DEF Verdict, Tests, OwnDaemon
<1> QED
  BY <1>1, FullInvariance, PTL

(* A test in which nothing goes wrong passes: once it has ended without    *)
(* trouble, none of its checks has failed, for any number of messages and  *)
(* in whatever order its calls arrived. Only compose-smoke.mjs wants a     *)
(* topic without an older message.                                         *)
THEOREM HealthyTestPasses == Spec => []HealthyPasses
<1>1. FullInv => HealthyPasses
  BY DEF FullInv, HealthyInv, HealthyPasses, Live
<1> QED
  BY <1>1, FullInvariance, PTL
=============================================================================
