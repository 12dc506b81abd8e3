# A TLA+ model of hermesmq-node

hermesmq-node is the Node.js client of the message queue hermesmq: a native addon in
Rust, `src/src/lib.rs`, the script that loads it, `src/index.js`, and five end-to-end tests,
`src/*.mjs`. This directory holds TLA+ specifications of all three, the TLC configurations
that check them, and TLAPS proofs about each of them: every invariant the passing runs check is a
theorem, and so are both step properties and both refinements; what is left to TLC alone is
liveness, and the safety property that stands for it where a node may be down (section 5). Line numbers refer to `src/src/lib.rs` unless a file is named.

## 1. The system

A `Client` holds one `Inner` (179-184), shared by all the operations that run on it and
by its subscriptions:

| state | what it is | who changes it |
|---|---|---|
| `nodes` | the nodes given to `connect`, fixed | - |
| `leader` | hint: the index the next operation starts with | `call`, `call_pipelined`, `once`, on an answer |
| `pools[i]` | up to 4 idle streams to node i | `pooled`, `park`, `close` |
| `pipes[i]` | at most one produce pipeline to node i | `pipeline`, `drop_pipeline`, `close` |

| component | code | state of its own | operations |
|---|---|---|---|
| produce pipeline | 186-261 | channel of jobs (1024), channel of reply senders (32), the halves of a connection | `PipelineHandle::request`; `run_pipeline` with its writer loop, reader task and epilogue |
| pipeline slots and produce calls | 350-372, 429-518, 803-836 | the slot of each node; per call: attempt, index, handle | `produce`, `produceMany`, `pipeline`, `drop_pipeline`, `close` |
| calls and pools | 304-427, 721-800, 839-971 | the pool of each node; per call: attempt, index, stream | `bootstrap`, `createTopic`, `poll`, `ack`, `nack`, `stats`, `close` |
| push subscription | 541-714, 866-906 | stop flag, index, failures, connection, channel of reports | `subscribe`, `unsubscribe`, `run`, `once`, `dispatch`, the handlers |
| framing, socket options | 268-302 | - | `write_frame`, `read_frame`, `set_keepalive` |
| validation and conversion | 38-171, 478-539 | - | `produce_request`, `err_response`, `expect_ok`, ... |
| addon loader | `index.js` | `nativeBinding`, `loadErrors`, during the first `require` | `isMusl`, `requireNative`, the WASI fallback |
| smoke tests | `smoke`, `compose-smoke`, `consume-check`, `pipeline-smoke`, `subscribe-smoke` (`.mjs`) | what the calls returned, the verdict | one script each |
| daemon helper | `daemon.mjs` | the child process, its data directory | `startDaemon`, `waitReachable`, `stop` |
| typings, build files | `index.d.ts`, `build.rs`, `Cargo.toml`, `package.json` | - | - |
| external | hermesmqd, tokio, napi | leader, log, leases | as the client sees them |

How they interact. A produce takes the pipeline of the node it believes to lead from the
slot, or connects and fills the slot; it hands its job to the writer task and waits for a
one-shot answer. The writer gives the reply sender to the reader task and writes the
frame; the reader pairs the frames that come back with the senders by position. Every
other operation takes a stream from the pool, or connects, writes, reads one frame and
parks the stream. Both go on to another node after an error and to the named leader after
`not_leader`, with 3 attempts per node. A subscription keeps a connection of its own,
gives each message to a JavaScript handler, and sends the ack or nack on the connection
the message came from.

Before all of it, `index.js` looks for the binary of the platform and throws if there is
none. A smoke test starts a daemon, makes calls one after the other or many at once, draws a
verdict from what they returned, stops the daemon and exits with the verdict.

What is hard: three tasks and any number of callers share a pipeline while calls time
out, handles are dropped and the connection breaks at any point; a slot is looked at,
left for a connection, and filled; a call keeps what it knew of a slot through its
backoff; a stream passes from one call to the next; a request is sent again that may
have been carried out; handlers of a message outlive the connection it came from; the
leader changes under all of it. A test sees only answers: requests that were carried out
without one, or twice, must not change its verdict; and the daemon may be slow, dead, or
not the one it started.

What makes each component correct:

- pipeline: every caller gets the answer to its own request, or an error that tells the
  truth about it; no reply sender is lost; the requests in flight are bounded; both tasks end.
- slots and produces: one pipeline per node; a failed pipeline is not tried again; the
  offset returned is the one of the caller's own message; duplicates only as documented;
  a settled cluster serves every produce within its attempts.
- calls and pools: a parked stream carries nothing; an operation reads its own response;
  the steps of createTopic happen in order; a dead parked stream costs no attempt.
- subscription: acked means handled; auto mode delivers at most once; every message is
  acked in the end; unsubscribe ends it, and takes nothing more from the broker.
- loader: a binary that fits is found whatever else is missing; a failure has a cause, and
  for causes all the candidates it is about; WASI is used when it is asked for, or as a last resort.
- smoke tests: they pass when nothing goes wrong, do not pass when the behaviour they test
  was not there, and leave neither a daemon nor a directory behind.

## 2. The modules

```
RequestChannel   what a pipeline promises              <--- implemented by
Pipeline         run_pipeline and its callers          ---+

Routing          attempts, the next index
  Cluster        leader, redirections, crashes (external)
    ProduceClient    call_pipelined, slots, leader hint    MCProduceClient
    CallClient       call, pools, createTopic              MCCallClient
    Subscription     run, once, dispatch, unsubscribe      MCSubscription   ---+
LeaseQueue       what a message of a topic may go through  <--- implemented by

AddonLoader      index.js                                  MCAddonLoader

Daemon           daemon.mjs
  SmokeTests       the five *.mjs scripts and the broker   MCSmokeTests

QueueLemmas      sequences used as queues, least elements
  PipelineProofs     about Pipeline
  SmokeProofs        about SmokeTests and Daemon
  ClientLemmas     routing (every node is tried), cluster, counting
    ProduceProofs, CallProofs, SubscriptionProofs
AddonProofs      about AddonLoader
```

**Pipeline.** One connection. `call` says how far each attempt has come in
`PipelineHandle::request` (`sending` and `permit` are the two halves of
`mpsc::Sender::send`: a place is reserved, then the job is pushed, which succeeds
whatever has become of the receiver). `writer` and `reader` are the places of the two
tasks in `run_pipeline`: `reserve`, `push` and `write` are lines 244 and 247, `join`,
`drain` and `done` the epilogue 253-260. `replies` are the outstanding reply senders, the
first of them in the reader's hands while it reads. A frame is the request it carries or
answers, so that "a frame of another request" is something the model can say. The link
may break at any time and lose any suffix of what is under way in each direction; the
node goes on with what it has received; a response may also be undecodable (`ReaderFails`
on a connection that is up).

**RequestChannel.** The pipeline without its tasks: a call ends at most once, with its own
answer, with "failed" (nothing is known) or with "rejected" (never served), and the node
serves each request at most once. `ProduceClient` builds on exactly this: its requests are
a set, served in any order, at most once, perhaps after their caller has gone.

**ProduceClient.** `pc` follows call_pipelined: `lookup` (436, first look at the slot),
`connect` (356), `wait` (447), with the backoff between `wait` and the next `lookup`. A
call holds its handle through the backoff, as `pipe` does in the code, until the next
look at the slot replaces it. `health` tells a broken pipeline with an open channel
("down", still offered by the slot) from a closed one. The log of the cluster keeps one
entry per producerId and seq. `Redirect` is `peer_index(..).unwrap_or(i + 1)`; `leader` is
not reduced but the index is, by `Wrap`, where the code does `idx % n`.

**CallClient.** `pc` follows call and call_node: `pooled` is request_on on a parked stream,
`connect` and `fresh` the second try. A stream carries its requests and replies in order
and is closed when it is dropped; what is under way on it may still be served. createTopic
is a caller with up to three requests, `stats` one that every node answers (so that the
hint may name a node that does not lead).

**Subscription.** `pc` follows run and once; `frame` and `batch` separate the look at the
stop flag (659) from the dispatch of each item (669), so that unsubscribe can come
between. `Dispatch` only queues a call of the handler: the JavaScript thread makes it later
(`HandlerCalled`), in any order with the task, which may take further frames meanwhile. It makes
none while it is inside unsubscribe, between the store of the flag and the abort (551-552,
`JsThreadFree`). What is `queued` reaches the handler whatever becomes of the task; in auto mode
there is no bound to it but the broker's. A connection lives as long as the task reads it or a handler may still report on
it. The broker leases messages, forgets a consumer whose connection is gone, and lets
leases expire at any time. A report of an expired lease may be answered by an error frame
or by nothing: the code does not say which, so both are allowed.

**LeaseQueue.** A message of a topic as an application may rely on it (`src/README.md`,
"Consuming"): absent, ready, leased or acked; handed on, handled; acked in manual mode only
once handled, in auto mode as it is delivered, and then handed on at most once. Connections,
leases, reports and redirections are gone. Subscription implements it under
`state, ackMode, handled` as they are and `started` for `handed`.

**AddonLoader.** A target is a platform, an architecture and a C library; `Plan` is the
sequence of candidates `requireNative` goes through on a host, a file and a package for each
target, and the error of a branch that knows no binary for the architecture. `disk` says
which exist and `Fits` which of them `require` can load: external. `isMusl` is a function of
its three sources, each of which may be silent; `Truthful` says that none of them lies, and
`MuslIsNamed` that on a musl the source that decides does say so. `errors` are `loadErrors`,
`wasiErrors` is `wasiBindingError` with its cause. The
tree of if and else of lines 63-524 becomes one definition to a platform.

**Daemon.** `startup` follows startDaemon and the loop of waitReachable, `stopping` the promise
of stop. `child` is the process, `exitSeen` that node has emitted its exit event, after which
`exitCode` is a number if it exited and null if a signal ended it. The address may be taken,
and the program missing.

**SmokeTests.** Each script is a sequence of steps, `Script`; `at` is the step the test waits
in, `calls` the calls it waits for. A call is what CallClient and ProduceClient make of it,
seen by its caller: copies of a request, of which any number may reach the broker, late ones
too, and one answer or an error. `offset`, `msgs`, `todo`, `left`, `drained` and the rest are the
script's variables, and what they were given; `received` is the set of deliveries that were
handled well, whose messages subscribe-smoke.mjs pushes on an array and counts (`Times`). The broker appends (once for a producer and
sequence number), leases, acks and expires leases in the order it gave them.

**Cluster, Routing.** The leader and the nodes' beliefs about it, as shown to clients; the
number of attempts and the index after a failure or a redirection.

Definitions named "Seeded fault" are not part of any specification. Each is a plausible
mistake in the operator it precedes, used to see that a property can fail.

## 3. The runs

| run | instance | what it shows |
|---|---|---|
| `pipeline_safety` | 3 attempts, Queue 2, Depth 1, symmetry | the invariants of a pipeline, and that it implements RequestChannel |
| `pipeline_liveness` | 2 attempts, Queue = Depth = 1 | a broken link settles its callers, an abandoned pipeline ends, every attempt ends |
| `pipeline_depth` | as the first | **violated**: PIPELINE_DEPTH + 1 requests in flight |
| `routing_safety` | 2 nodes, 2 produces, one idempotent, any one trouble | slots, retries, offsets, duplicates; the attempts of a produce are enough in a settled cluster, a node being down |
| `routing_liveness` | 2 nodes, 2 produces and a malformed one, any one trouble but a crash | a settled cluster serves every produce, beside others |
| `single_pipeline` | 1 node, 2 produces, one break | **violated**: two pipelines to one node carry requests |
| `calls` | 2 nodes, createTopic (3 requests) and stats, pool of 1, any one trouble | own responses, clean pools, order of the settings; operations succeed in a settled cluster; a dead parked stream costs no attempt |
| `subscription` | 2 nodes, 2 messages, prefetch 2, both ack modes, any one trouble, symmetry | one report per lease; nothing is taken after unsubscribe; client and broker implement LeaseQueue |
| `subscription_liveness` | 2 nodes, 1 message, prefetch 1, any one trouble | every message is acked; unsubscribe ends everything |
| `on_error` | 1 message | **violated**: a redirected attempt is a failure that onError does not report |
| `loader` | 18 hosts, every subset of their binaries, two versions, all settings | what fits is found; failures are named; the WASI flag |
| `smoke_tests` | the five scripts, any one trouble | verdicts are true; healthy runs pass; clean ends |

"Any one trouble" is one of the kinds in `Faults`: a timeout, a close, a broken
connection, an error from the server, an election, a crash, a connect that fails or times out
towards a node that runs (and for the subscription a
handler that throws, one that is slower than its lease, a frame that cannot be decoded).
Restarts, elections when nobody leads, and expiry of a lease whose delivery is lost are
free.

Bounds, and why they are enough.

- `Queue`, `Depth`: with three attempts, 2 and 1 fill both channels, so that every wait and
  every refusal happens. The proofs remove the bound.
- `MaxFaults` = 1: one trouble hits two calls that share a slot or a stream, which is where
  they can disturb each other; each call has 3 attempts per node anyway. Two troubles were
  checked once by hand for a single produce in a settled cluster (2 and 3 nodes) and the calls'
  safety (2 nodes, createTopic with 2 requests), without an error; they take too long for a regular run.
- The client starts with the hint at its node 0, as in the code (lib.rs:739); any node may
  lead, so that the hint is right in some initial states and wrong in the others.
- `Pipes`, `Streams`, `Conns`, `Leases`: identities are reused once nothing refers to them;
  there are more of them than can be referred to at a time, which the absence of deadlocks
  and the liveness runs confirm.
- A settled cluster is the subject of two runs, since one cannot hold it: `StableSucceeds`, which needs
  fairness, is out of TLC's reach with two calls and crashes. `routing_liveness` leaves crashes out
  and shows that each produce succeeds. `routing_safety` has them and checks `SettledNeverFails`, the
  half of it that needs no fairness. In both, the second call leaves stale and broken pipelines in
  the slots, and hints, for the first.
- Smoke tests: 1 serial, 2 bulk and 1 burst produce for 100, 2000 and 200, a poll of at most 2
  for 1024 and 2 pushed messages for 5: several calls at once and several polls to drain, which
  is what the loops can get wrong (`DrainTakesSeveralPolls`). `MaxLog` = 6 is never reached with
  one trouble. With a burst of 2 (701,140 states) the run passes too.
- Hosts: each platform with an architecture of each branch and one that is unknown; the
  architectures that share the shape of their branch are represented by one.
- `Cap` bounds the counters failures and reported; one failure is enough to compare them.
- Symmetry is used only in runs without liveness, over values that no formula tells apart.

Fairness. The tokio runtime polls every task that can go on, so the steps of tasks and
calls that do not wait for the network are weakly fair. A write is fair only once the
connection is known to be broken (`TaskFairness`); that a node reads, serves and closes is
a separate assumption (`NodeFairness`), named in the properties that need it. In the other
modules a node that runs serves what it has received, a leader is elected when there is
none, and in the subscription somebody runs, the JavaScript thread comes to the calls that are
queued for it, handlers end, and nodes learn of the leader.
The tests' own steps, their timers, the daemon's process and events, and a broker that listens
are weakly fair in the smoke tests. Troubles have no fairness. `StableSucceeds` additionally starts from `Settled`: a leader is
in office and no running node names another.

## 4. The findings

1. *33 requests in flight.* `src/README.md:78` says up to 32. The bound is the capacity of
   the channel of reply senders (219); the reader has taken one sender out while it waits for
   its frame.
2. *More than one pipeline.* `src/README.md:78` says a single pipelined connection.
   `drop_pipeline` (370) takes whatever the slot holds. Two calls wait on a pipeline that
   breaks; the first fails, reconnects and fills the slot; the second then fails (465),
   empties the slot of the new, healthy pipeline, and makes another. Both carry requests.
3. *Failures that onError does not see.* `src/README.md:155` says the callback reports each
   failed attempt. A `not_leader` answer counts in `failures` (692-695) and is not reported.

Remarks, on things that no property of a run contradicts:

- *After unsubscribe* (lib.rs:550-553): the handler may still be called, any number of times in
  auto mode, with messages of earlier frames that were queued for the JavaScript thread, and
  the rest of a frame that is being dispatched is queued as well. `NothingTakenAfterUnsubscribe` is what
  holds: nothing is added to these.
- *After close* (963-970): calls under way park their streams and fill their slots again. Nothing
  in the repository says that they do not.
- *A silent report* (index.js:46-51): a report that names neither C library counts as glibc, and
  `ldd --version` is not asked. On a musl whose /usr/bin/ldd cannot be read the loader then looks
  for the glibc binary and misses the other. `PresentIsFound` excludes this case by name
  (`MuslIsNamed`), and shows that it is the only one in which sources that do not lie mislead it.
- *What a failed require says*: "Cannot find native binding" does not name the WASI file, nor
  the WASI package unless WASI is forced (544-562), and the error of NAPI_RS_FORCE_WASI=error drops
  what the native candidates failed with (564-567). `EveryFailureIsNamed` is exact about all three.

- *What the tests cannot see.* `VerdictIsTrue` holds for one trouble. With two, smoke.mjs and
  pipeline-smoke.mjs pass wrongly: a second copy of a poll that timed out takes the message
  whose lease has expired, and "again" finds nothing; a lease expires before its ack, the
  redelivery's poll is lost, and `drained` has the expected value although a message is not acked.
  compose-smoke and consume-check do not see whether an ack was in time, subscribe-smoke's poll
  for leftovers does not tell acked from leased, and consume-check.mjs passes when stats throws
  (consumed is set before, line 23).
- *compose-smoke.mjs wants an empty topic*: a message of an earlier run makes it fail, and
  `HealthyPasses` excludes that.
- *stop may wait for ever* (daemon.mjs:57): `exitCode` is null for a daemon that was ended by a
  signal, and its exit event has been. `EndsCleanly` names the case. A program that cannot be
  spawned emits an error event without a listener: the test ends at once, its directory stays.
- *Somebody else's daemon* (daemon.mjs:21): waitReachable accepts whatever listens at the
  address, and the tests run against it; the directory is still cleaned up.
- *0.2.0* (index.js:80): the version the platform packages are compared with, when
  NAPI_RS_ENFORCE_VERSION_CHECK is set, is 0.2.0; package.json is at 0.3.1. The error says to
  reinstall, which brings 0.3.1 again.
- *macOS*: `src/README.md` lists prebuilt binaries for it, and `napi.targets` of package.json
  does not.

## 5. The proofs

Each theorem holds for every value of the constants that the assumptions of its module
allow. The assumptions say that the bounds are numbers, that the values for "none" are none
of the values, that there is a node, and beyond that:

- `Pipeline`: the capacities of both channels are positive.
- `CallClient`: an operation has one to three requests (createTopic has at most three).
- `Subscription`: the set of messages is finite, the prefetch positive. Without the first, a
  batch would have no number of elements to compare with the prefetch.
- `AddonLoader`: hosts are named with `Words`, which has the names index.js puts into a target.
- `SmokeTests`: the log of the broker has room for one message, as it may hold one initially.

| module | invariants | steps and refinements |
|---|---|---|
| `PipelineProofs` | every invariant of `pipeline_safety` | `ChannelSpec` |
| `ProduceProofs` | `TypeOK`, `NoSecondTry`, `OffsetIsOwn`, `CopiesBounded` | `OpenSlotKept` |
| `CallProofs` | `TypeOK`, `OwnResponse`, `StreamsAreExclusive`, `StepsInOrder` | |
| `SubscriptionProofs` | `TypeOK`, `OneReportPerLease` | `NothingTakenAfterUnsubscribe`, `QueueSpec` |
| `AddonProofs` | `TypeOK`, `EveryFailureIsNamed`, `WasiTriState`, `PresentIsFound` | |
| `SmokeProofs` | `TypeOK`, `StopIsClean`, `VerdictIsTrue`, `HealthyPasses` | |

The invariants `IInv` and `FullInv` below were checked by TLC on the instances of the runs before
they were proved. In every module, `InvInit` or its like proves it of the initial states, a lemma to an
action or to a group of them that it is preserved, and `Invariance` that it always holds.

**Pipeline.** `PipelineProofs` proves each safety property of `pipeline_safety`, two more that
only the argument needs (`Alignment`, `OnePlace`), and that `Pipeline` implements
`RequestChannel`.

No property is inductive alone. `OwnAnswer` needs that the reader's first sender is the one
of the next frame, `Alignment`, and that no request is on the wire twice, `OnePlace`;
`Alignment` needs that the writer pushes the sender of the job it then writes, and that on
a broken connection what can still be read is a prefix of the senders; `RejectedNeverServed`
follows from `CallInv`, which says what the caller of a request on its way or served can
have been told. `InFlightBound` counts, through `Alignment`, the frames by the senders, and
those by the capacity and the reserved place, `CapacityInv`. The invariant

    IInv == TypeOK, ControlInv, OnePlace, CallInv, Alignment, OwnAnswer, CapacityInv,
            InFlightBound, AtMostOneStranded, NoLostReply, RegisteredInv

is their conjunction; each conjunct is preserved by a lemma of its own, with one step per
action, under the conjuncts it needs. `QueueLemmas` holds what these lemmas need to know of
sequences without duplicates: what appending, removing the head and taking a prefix do to
range and order. The refinement maps `call` to `phase` and is shown step by step under
IInv: serving is `Serve`, a frame read for a waiting caller is `Succeed`, and every way a
caller can be failed, alone or several at once when the writer leaves its loop, is `Fail`.

**Produces.** drop_pipeline empties the slot of the node an attempt went to: that no slot holds
the pipeline of the attempt afterwards needs that the pipeline is one to that node (`ControlInv`) and
that a slot holds only pipelines to its own (`TypeOK`). `OffsetIsOwn` needs what is true of an offset before
it is returned: a response under way carries the offset of a message of its call, and what is
in the log, or on its way there, carries the sequence number of its call (`LogInv`).
`CopiesBounded` is not inductive, since a request may be served after its call has ended:
`CopiesInv` counts the copies in the log together with the requests that may still be served,
and compares them with the attempts made so far; for a call with a producer and sequence number
the copies are one entry. `OpenSlotKept` is a property of each step: only a call that has connected fills a
slot, and looks at it first.

    IInv == DataInv, ControlInv, NoSecondTry, LogInv, OffsetIsOwn, CopiesInv

**Calls.** A response is taken by position, so it is the right one only if a stream carries one
request at a time and never anybody else's: `PairInv` says what is on the stream of an operation,
`ParkedInv` that a parked stream carries nothing and belongs to nobody, `HoldInv` that a stream
has one owner, and that one without an owner is closed and delivers no response. `StepsInOrder`
has to hold although a request on a stream that was dropped may still be served: `StepInv` says
that whatever was sent is of a step its operation has come to, that a good response follows the
request's being carried out, and that all the steps before an operation's have been.

    IInv == DataInv, PoolsInv, ParkedInv, HoldInv, PairInv, StepInv

**Subscription.** A delivery is in one place, in a frame under way, in the hands of the task,
queued for its handler, with it or in a report, and that is why no lease is reported twice. It needs that what
is under way is on the connection the task reads (`FramesInv`), and that the task has
deliveries at two of its points only, of its own connection, and at most a prefetch of them (`TaskInv`),
since the broker leases no more than that to a connection (`LeaseInv`). `TakesNoMore` is a
property of each step: with the flag set, a frame ends the task (`HandleFrame`), and every
other step leaves batch and queue as they are or moves on what is in them. For the refinement, `AppInv` says that
a good report is of a handled message, and `AutoInv` that in auto mode a message on its way to the handler has
been acked already, is on its way once, and was not handed on before. Each step of a
subscription is then one of `LeaseQueue` or changes none of its variables.

    IInv == DataInv, LeaseInv, TaskInv, FramesInv, OneReportPerLease, AppInv, AutoInv

**Loader.** `PlanType` says that every branch of `requireNative` yields candidates, and at least
one: that is why no failure is without a cause. The inductive invariant says what `loadErrors`
is at each step: the candidates passed so far while `requireNative` runs, all of them when it has
found nothing, and those before anything the WASI block adds (`ErrorsInv`); what that block adds
to them and to wasiBindingError (`NamedInv`); and that the WASI
block, unless forced, is only entered without a binding, and forced, ends with one or without
any WASI build on disk (`WasiInv`). `PresentIsFound` needs that the plan of a host has the
binaries that fit it, for every host (`PlanCovers`), that isMusl finds the truth when its sources
do not lie and musl is named (`MuslIsTold`), and that a candidate that was passed was not there or could not
be loaded (`FoundInv`).

**Routing.** `EveryNodeIsTried`, in `ClientLemmas`: a round of NumNodes attempts that fail, none
of them redirected, visits every node, whatever node it starts with, and a call has at least three
rounds. The induction over the attempts is an argument about the first one that goes elsewhere.

**Smoke tests and the daemon.** The broker's log only grows, the lease of an entry only goes up,
and what is acked stays so (`Grown`): so an offset a test was told remains one of the log, and a
delivery it holds remains one under the lease of its entry or an earlier one, whatever is
appended, leased again or expires in the meantime. `ScriptType` says, for any numbers of messages,
that the scripts call only for messages of their tests. `StopIsClean` is kept because the
directory goes only with an exit event that was seen, and a test ends only after stop has.

    IInv == DaemonInv, TestInv, CallsInv, BrokerInv, OffsetInv, DeliveredInv

What a verdict is worth takes more. The verdict looks at what the calls returned, and its theorem
speaks of the log: each step of each script must be known to leave something in the log, and
that must survive one trouble at any later point.

    FullInv == IInv, ScriptInv, OneTroubleInv, NoTroubleInv, VerdictInv, HealthyInv

- The scripts, as sequences: `ScriptPlaces`, `ScriptOnce`, `ScriptOrder` and `ScriptEnds` say where
  the steps of a kind are, for any numbers of messages, which steps come once, which before
  others, and what has been done at the end. `StepCases` sorts the steps of the system into
  seven cases, and the `...Effect` lemmas say what each arrival does to the broker and what
  the test hears of it, if it does; everything below goes through them.
- `ScriptInv` holds whatever goes wrong. The calls a test waits for are those of its step, once
  each (`KindInv`); what a later step sets is not set (`OnceInv`); a lease the test has been
  given and that is current is still to ack (`AckInv`), also when its ack is on the wire; the log
  holds what was produced, at the offset that was told, and for pipeline-smoke.mjs once
  (`SourceInv`); what a step that is done has left (`DoneInv`).
- `OneTroubleInv` holds up to one trouble. Two things make a poll's answer mean what it says:
  every lease is known to the test (`Tracked`), which ends with a poll that is repeated or answered
  in vain; and no lease ends but by its ack, so that what was handed out is what was counted
  (`Counted`), which ends with an expiry. One trouble breaks one of them only, and either
  is enough: `DrainInv` for the drain of pipeline-smoke.mjs, `SmokeInv` for the second poll
  of smoke.mjs. That both can be broken by two troubles is the first remark of section 4.
- `NoTroubleInv` holds without any. The daemon serves until it is stopped (`ServedInv`), so every
  call is on the wire once and is heard (`WireInv`), so leases end with the reports they wait for
  (`LeaseInv`), so the test knows where each message is (`ToldInv`) and receives it once
  (`ReceivedInv`), so that nothing is left (`LeftInv`) and every check of a script succeeds when
  its step is done (`PassInv`).
- `VerdictInv` and `HealthyInv` carry both results over the end of the test: no step appends
  a message again, starts an old lease anew or changes the verdict.

All of these are of one inductive invariant, since they need each other: the check of a step
that nothing is left (`PassInv`) needs what is acked (`ReceivedInv`, `TroubleInv`), which needs that
leases do not end (`LeaseInv`), which needs that the daemon is there.

Model-checked only, because the prover has no reasoning about fairness: what pipelines and
calls come to in the end (`BreakSettlesCalls`, `AbandonedPipelineEnds`, `EveryAttemptEnds`),
`StableSucceeds`, `DeadStreamCostsNothing`, `EveryMessageIsAcked`, `UnsubscribeEnds` and `EndsCleanly`.
`SettledNeverFails` is a safety property, and could be proved by counting attempts against what the
other calls may still spoil; that is not done.

## 6. Not modelled

- Time: backoffs and timeouts are steps that may happen; their lengths do not matter to
  any property. A timeout may therefore come at any moment.
- The bytes: lengths of frames, encoding, contents of messages and DTO conversions, the
  validation of `ackMode` and lease ids.
- The internals of hermesmqd. The models are as liberal as the client must be prepared for.
- In the loader, the names of files and packages, and what a binary does once it is loaded.
- In the smoke tests, payloads and the rates pipeline-smoke.mjs compares (either may be the
  larger: `Concludes`), and the 300 ms subscribe-smoke.mjs waits before it unsubscribes. There a
  handler and its report are one step; a report that is still under way is one that is lost. The
  steps between the two are in Subscription.
- The typings and build files, which have no behaviour at run time.

## 7. Plan

Done, in this order: Pipeline; ProduceClient; CallClient; Subscription, and LeaseQueue, which it
implements; AddonLoader; Daemon and SmokeTests; and the proofs about each.

To come:

1. Framing: `write_frame` and `read_frame` with the width of the length and MAX_FRAME; lease
   ids and other numbers at their limits. Their widths call for proofs rather than runs.
2. Pull consumption by several clients: that CallClient's poll, ack and nack implement
   LeaseQueue as well.
3. A second subscription on the same client.
4. ProduceClient over Pipeline itself, for one slot, in place of its abstraction.
