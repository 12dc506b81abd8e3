------------------------------ MODULE Pipeline ------------------------------
(***************************************************************************)
(* One produce pipeline of the client: PipelineHandle::request, the        *)
(* callers' side, and run_pipeline, the writer and the reader task that    *)
(* share one TCP connection to a node.                                     *)
(*                                                                         *)
(*   caller --jobs--> writer --replies--> reader --one-shot--> caller      *)
(*                      |                   ^                              *)
(*                      +---- toServer, node, toClient ----+               *)
(*                                                                         *)
(* Nothing on the wire names the request a response belongs to: the reader *)
(* pairs the frames with the reply senders by position.  A frame is        *)
(* therefore modelled by the request it carries or answers.  A request is  *)
(* one attempt of one call; a caller that tries again is another request.  *)
(***************************************************************************)
EXTENDS Naturals, Sequences, FiniteSets, Functions

CONSTANTS
    Requests,  \* the attempts made through this pipeline
    Queue,     \* PIPELINE_QUEUE, the capacity of the channel of jobs
    Depth,     \* PIPELINE_DEPTH, the capacity of the channel of reply senders
    None       \* no request

ASSUME ConstantsAssumption ==
    /\ Queue \in Nat \ {0}
    /\ Depth \in Nat \ {0}
    /\ None \notin Requests
-----------------------------------------------------------------------------
VARIABLES
    (* the callers, in PipelineHandle::request                             *)
    call,      \* how far each request has come
    answer,    \* the request whose response the caller was given
    held,      \* the callers that hold a clone of the handle
    (* the client's slot for this node, Inner.pipes[idx]                   *)
    slot,      \* does it still hold a clone of the handle?
    (* the writer: the loop of run_pipeline, then its epilogue             *)
    jobs,      \* the channel of jobs
    jobsRx,    \* its receiving end: "open", "closed" or "dropped"
    writer, job,
    (* the reader task                                                     *)
    replies,   \* the outstanding reply senders; the reader holds the first
               \* one while it reads a frame, the others are in the channel
    reader,
    (* the connection and the node                                         *)
    toServer, toClient, link,
    served     \* the requests the node has served

callerVars == <<call, answer, held>>
writerVars == <<jobs, jobsRx, writer, job>>
readerVars == <<replies, reader>>
wireVars   == <<toServer, toClient, link, served>>
vars == <<callerVars, slot, writerVars, readerVars, wireVars>>

(* The five ways PipelineHandle::request returns:                          *)
(*   "ok"        a response                                                *)
(*   "timedout"  "response timed out"                                      *)
(*   "closed"    "produce pipeline is closed": the job was not accepted    *)
(*   "unsent"    the job was dropped before it was written                 *)
(*   "lost"      the reply sender was failed or dropped after the push     *)
Outcomes == {"ok", "timedout", "closed", "unsent", "lost"}

TypeOK ==
    /\ call \in [Requests -> {"idle", "sending", "permit", "waiting"} \cup Outcomes]
    /\ answer \in [Requests -> Requests \cup {None}]
    /\ held \subseteq Requests
    /\ slot \in BOOLEAN
    /\ jobs \in Seq(Requests)
    /\ jobsRx \in {"open", "closed", "dropped"}
    /\ writer \in {"idle", "reserve", "push", "write", "join", "drain", "done"}
    /\ job \in Requests \cup {None}
    /\ replies \in Seq(Requests)
    /\ reader \in {"idle", "read", "drain", "done"}
    /\ toServer \in Seq(Requests)
    /\ toClient \in Seq(Requests)
    /\ link \in {"up", "broken"}
    /\ served \subseteq Requests

Init ==
    /\ call = [r \in Requests |-> "idle"]
    /\ answer = [r \in Requests |-> None]
    /\ held = {}
    /\ slot = TRUE
    /\ jobs = <<>> /\ jobsRx = "open"
    /\ writer = "idle" /\ job = None
    /\ replies = <<>> /\ reader = "idle"
    /\ toServer = <<>> /\ toClient = <<>> /\ link = "up"
    /\ served = {}
-----------------------------------------------------------------------------
(* A one-shot sender: the result reaches the callers of R that still wait. *)
(* The receiver of a caller that timed out is gone and reply.send fails,   *)
(* which the code ignores.                                                 *)
Settle(R, outcome) ==
    call' = [r \in Requests |->
               IF r \in R /\ call[r] = "waiting" THEN outcome ELSE call[r]]

(* The reply senders in the channel, of which there are at most Depth.     *)
Queued == IF reader = "read" THEN Len(replies) - 1 ELSE Len(replies)

(* The callers that have a permit of the channel of jobs but have not yet  *)
(* pushed their job: mpsc::Sender::send is a reservation and then a push.  *)
Permits == {r \in Requests : call[r] = "permit"}

(* Seeded fault: drop(pending_tx) comes after reader.await.                *)
PendingTxDroppedLate == writer = "done"

PendingTxDropped == writer \in {"join", "drain", "done"}
-----------------------------------------------------------------------------
(* The callers.                                                            *)

(* Inner::pipeline hands out a clone of an open pipeline of the slot.      *)
AcquireHandle(r) ==
    /\ call[r] = "idle"
    /\ slot /\ jobsRx = "open"
    /\ call' = [call EXCEPT ![r] = "sending"]
    /\ held' = held \cup {r}
    /\ UNCHANGED <<answer, slot, writerVars, readerVars, wireVars>>

(* Seeded fault: one place of the channel is never given out.              *)
ReservePermitShort(r) ==
    /\ call[r] = "sending"
    /\ jobsRx = "open"
    /\ Len(jobs) + Cardinality(Permits) + 1 < Queue
    /\ call' = [call EXCEPT ![r] = "permit"]
    /\ UNCHANGED <<answer, held, slot, writerVars, readerVars, wireVars>>

(* tx.send(job).await, which no timeout covers.                            *)
ReservePermit(r) ==
    /\ call[r] = "sending"
    /\ jobsRx = "open"
    /\ Len(jobs) + Cardinality(Permits) < Queue
    /\ call' = [call EXCEPT ![r] = "permit"]
    /\ UNCHANGED <<answer, held, slot, writerVars, readerVars, wireVars>>

SendRefused(r) ==
    /\ call[r] = "sending"
    /\ jobsRx # "open"
    /\ call' = [call EXCEPT ![r] = "closed"]
    /\ UNCHANGED <<answer, held, slot, writerVars, readerVars, wireVars>>

(* The push of a reserved permit succeeds whatever became of the receiver. *)
Enqueue(r) ==
    /\ call[r] = "permit"
    /\ call' = [call EXCEPT ![r] = "waiting"]
    /\ jobs' = Append(jobs, r)
    /\ UNCHANGED <<answer, held, slot, jobsRx, writer, job, readerVars, wireVars>>

(* Seeded fault: the caller sends its job again and keeps waiting.         *)
TimeoutResends(r) ==
    /\ call[r] = "waiting" /\ jobsRx = "open"
    /\ Len(jobs) + Cardinality(Permits) < Queue
    /\ jobs' = Append(jobs, r)
    /\ UNCHANGED <<callerVars, slot, jobsRx, writer, job, readerVars, wireVars>>

(* timeout(read_timeout, rx): the caller goes, its job and its reply       *)
(* sender stay where they are.                                             *)
Timeout(r) ==
    /\ call[r] = "waiting"
    /\ call' = [call EXCEPT ![r] = "timedout"]
    /\ UNCHANGED <<answer, held, slot, writerVars, readerVars, wireVars>>

(* The attempt of call_pipelined is over, after its backoff: pipe goes out *)
(* of scope.                                                               *)
ReleaseHandle(r) ==
    /\ r \in held /\ call[r] \in Outcomes
    /\ held' = held \ {r}
    /\ UNCHANGED <<call, answer, slot, writerVars, readerVars, wireVars>>

(* drop_pipeline or close: by a caller whose attempt failed here or on an  *)
(* earlier pipeline of the same slot, or by the application.               *)
DropSlot ==
    /\ slot
    /\ slot' = FALSE
    /\ UNCHANGED <<callerVars, writerVars, readerVars, wireVars>>
-----------------------------------------------------------------------------
(* The writer.                                                             *)

(* Seeded fault: the frame is written before a place for the reply sender  *)
(* is reserved.                                                            *)
WriterRecvWrites ==
    /\ writer = "idle" /\ jobs # <<>>
    /\ job' = Head(jobs)
    /\ jobs' = Tail(jobs)
    /\ writer' = "reserve"
    /\ toServer' = IF link = "up" THEN Append(toServer, Head(jobs)) ELSE toServer
    /\ UNCHANGED <<callerVars, slot, jobsRx, readerVars, toClient, link, served>>

WriterRecv ==
    /\ writer = "idle" /\ jobs # <<>>
    /\ job' = Head(jobs)
    /\ jobs' = Tail(jobs)
    /\ writer' = "reserve"
    /\ UNCHANGED <<callerVars, slot, jobsRx, readerVars, wireVars>>

(* Seeded faults: the channel has a place too many; the end of the reader  *)
(* is not noticed; the job is let go before its sender is pushed.          *)
WriterReserveExtra ==
    /\ writer = "reserve"
    /\ reader # "done" /\ Queued <= Depth
    /\ writer' = "push"
    /\ UNCHANGED <<callerVars, slot, jobs, jobsRx, job, readerVars, wireVars>>

WriterReserveBlind ==
    /\ writer = "reserve"
    /\ reader = "done" \/ Queued < Depth
    /\ writer' = "push"
    /\ UNCHANGED <<callerVars, slot, jobs, jobsRx, job, readerVars, wireVars>>

WriterReserveForgets ==
    /\ writer = "reserve"
    /\ reader # "done" /\ Queued < Depth
    /\ writer' = "push" /\ job' = None
    /\ UNCHANGED <<callerVars, slot, jobs, jobsRx, readerVars, wireVars>>

(* Reservation of a place for the reply sender, before the request is      *)
(* written: pending_tx.send(job.reply).                                    *)
WriterReserve ==
    /\ writer = "reserve"
    /\ reader # "done" /\ Queued < Depth
    /\ writer' = "push"
    /\ UNCHANGED <<callerVars, slot, jobs, jobsRx, job, readerVars, wireVars>>

WriterPush ==
    /\ writer = "push"
    /\ replies' = Append(replies, job)
    /\ writer' = "write"
    /\ UNCHANGED <<callerVars, slot, jobs, jobsRx, job, reader, wireVars>>

(* Seeded fault: the job of a caller that has timed out is not written,    *)
(* although its reply sender is in the channel.                            *)
WriterWriteSkips ==
    /\ writer = "write"
    /\ toServer' = IF link = "up" /\ call[job] = "waiting"
                   THEN Append(toServer, job) ELSE toServer
    /\ writer' = "idle" /\ job' = None
    /\ UNCHANGED <<callerVars, slot, jobs, jobsRx, readerVars, toClient, link, served>>

(* write_frame.  A broken connection may still swallow a frame.            *)
WriterWrite ==
    /\ writer = "write"
    /\ toServer' = IF link = "up" THEN Append(toServer, job) ELSE toServer
    /\ writer' = "idle" /\ job' = None
    /\ UNCHANGED <<callerVars, slot, jobs, jobsRx, readerVars, toClient, link, served>>

(* What was pushed after the reader had dropped its end of the channel.    *)
Undeliverable == IF reader = "done" THEN Range(replies) ELSE {}

(* The end of the loop: drop(pending_tx), drop(write_half).  The senders    *)
(* nobody can receive are dropped now, and their callers learn "produce    *)
(* pipeline dropped the request".                                          *)
LeaveLoop(unsent) ==
    /\ writer' = "join" /\ job' = None
    /\ replies' = IF reader = "done" THEN <<>> ELSE replies
    /\ call' = [r \in Requests |->
                  IF call[r] = "waiting" /\ r \in unsent THEN "unsent"
                  ELSE IF call[r] = "waiting" /\ r \in Undeliverable THEN "lost"
                  ELSE call[r]]
    /\ UNCHANGED <<answer, held, slot, jobs, jobsRx, reader, wireVars>>

(* pending_tx.send fails: the reader has ended.                            *)
WriterNoReader ==
    /\ writer = "reserve" /\ reader = "done"
    /\ LeaveLoop({job})

WriterWriteFails ==
    /\ writer = "write" /\ link = "broken"
    /\ LeaveLoop({})

(* jobs.recv() is None: every clone of the handle is gone.                 *)
WriterSendersGone ==
    /\ writer = "idle" /\ jobs = <<>>
    /\ ~slot /\ held = {}
    /\ LeaveLoop({})

(* reader.await, which no timeout covers, and then jobs.close().           *)
WriterJoin ==
    /\ writer = "join" /\ reader = "done"
    /\ writer' = "drain" /\ jobsRx' = "closed"
    /\ UNCHANGED <<callerVars, slot, jobs, job, readerVars, wireVars>>

WriterDrain ==
    /\ writer = "drain" /\ jobs # <<>>
    /\ Settle({Head(jobs)}, "unsent")
    /\ jobs' = Tail(jobs)
    /\ UNCHANGED <<answer, held, slot, jobsRx, writer, job, readerVars, wireVars>>

WriterReturn ==
    /\ writer = "drain" /\ jobs = <<>>
    /\ writer' = "done" /\ jobsRx' = "dropped"
    /\ UNCHANGED <<callerVars, slot, jobs, job, readerVars, wireVars>>
-----------------------------------------------------------------------------
(* The reader.                                                             *)

ReaderRecv ==
    /\ reader = "idle" /\ replies # <<>>
    /\ reader' = "read"
    /\ UNCHANGED <<callerVars, slot, writerVars, replies, wireVars>>

(* pending_rx.recv() is None.                                              *)
ReaderWriterGone ==
    /\ reader = "idle" /\ replies = <<>> /\ PendingTxDropped
    /\ reader' = "drain"
    /\ UNCHANGED <<callerVars, slot, writerVars, replies, wireVars>>

ReaderGotFrame ==
    /\ reader = "read" /\ toClient # <<>>
    /\ Settle({Head(replies)}, "ok")
    /\ answer' = IF call[Head(replies)] = "waiting"
                 THEN [answer EXCEPT ![Head(replies)] = Head(toClient)]
                 ELSE answer
    /\ replies' = Tail(replies)
    /\ toClient' = Tail(toClient)
    /\ reader' = "idle"
    /\ UNCHANGED <<held, slot, writerVars, toServer, link, served>>

(* Seeded faults: the failed read is tried again; its caller gets nothing. *)
ReaderFailsRetries ==
    /\ reader = "read"
    /\ link = "broken" \/ toClient # <<>>
    /\ reader' = "idle"
    /\ UNCHANGED <<callerVars, slot, writerVars, replies, wireVars>>

ReaderFailsMute ==
    /\ reader = "read"
    /\ link = "broken" \/ toClient # <<>>
    /\ replies' = Tail(replies)
    /\ reader' = "drain"
    /\ UNCHANGED <<callerVars, slot, writerVars, wireVars>>

(* read_frame or Response::decode fails: the connection is broken and all  *)
(* it delivered is read, or a frame is too long or undecodable.            *)
ReaderFails ==
    /\ reader = "read"
    /\ link = "broken" \/ toClient # <<>>
    /\ Settle({Head(replies)}, "lost")
    /\ replies' = Tail(replies)
    /\ reader' = "drain"
    /\ UNCHANGED <<answer, held, slot, writerVars, wireVars>>

ReaderDrain ==
    /\ reader = "drain" /\ replies # <<>>
    /\ Settle({Head(replies)}, "lost")
    /\ replies' = Tail(replies)
    /\ UNCHANGED <<answer, held, slot, writerVars, reader, wireVars>>

ReaderReturn ==
    /\ reader = "drain" /\ replies = <<>>
    /\ reader' = "done"
    /\ UNCHANGED <<callerVars, slot, writerVars, replies, wireVars>>
-----------------------------------------------------------------------------
(* The node and the network.                                               *)

(* The node serves the frames of a connection in their order and answers   *)
(* each.  It goes on with what it has received when the connection breaks. *)
NodeServes ==
    /\ toServer # <<>>
    /\ served' = served \cup {Head(toServer)}
    /\ toServer' = Tail(toServer)
    /\ toClient' = IF link = "up" THEN Append(toClient, Head(toServer)) ELSE toClient
    /\ UNCHANGED <<callerVars, slot, writerVars, readerVars, link>>

(* The node sees the end of the client's stream and closes in turn.        *)
NodeCloses ==
    /\ PendingTxDropped
    /\ link = "up" /\ toServer = <<>>
    /\ link' = "broken"
    /\ UNCHANGED <<callerVars, slot, writerVars, readerVars, toServer, toClient, served>>

(* The connection breaks: what was still under way is lost in part or all. *)
LinkBreaks ==
    /\ link = "up"
    /\ link' = "broken"
    /\ \E m \in 0..Len(toServer) : toServer' = SubSeq(toServer, 1, m)
    /\ \E m \in 0..Len(toClient) : toClient' = SubSeq(toClient, 1, m)
    /\ UNCHANGED <<callerVars, slot, writerVars, readerVars, served>>

(* The task has returned and nobody uses the handle any more.              *)
Finished ==
    /\ writer = "done" /\ held = {}
    /\ \A r \in Requests : call[r] \in {"idle"} \cup Outcomes
    /\ UNCHANGED vars
-----------------------------------------------------------------------------
Caller(r) ==
    \/ AcquireHandle(r) \/ ReservePermit(r) \/ SendRefused(r) \/ Enqueue(r)
    \/ Timeout(r) \/ ReleaseHandle(r)

Writer ==
    \/ WriterRecv \/ WriterReserve \/ WriterPush \/ WriterWrite
    \/ WriterNoReader \/ WriterWriteFails \/ WriterSendersGone
    \/ WriterJoin \/ WriterDrain \/ WriterReturn

Reader ==
    \/ ReaderRecv \/ ReaderWriterGone \/ ReaderGotFrame \/ ReaderFails
    \/ ReaderDrain \/ ReaderReturn

Network == NodeServes \/ NodeCloses \/ LinkBreaks

Next ==
    \/ \E r \in Requests : Caller(r)
    \/ DropSlot
    \/ Writer
    \/ Reader
    \/ Network
    \/ Finished

Spec == Init /\ [][Next]_vars

(* Fairness.  The runtime polls every task that can run, so the steps the  *)
(* two tasks take without the network are fair; a write is, once the       *)
(* connection is known to be broken.  A caller pushes its job right after  *)
(* the reservation.                                                        *)
WriterRuns ==
    \/ WriterRecv \/ WriterReserve \/ WriterPush
    \/ link = "broken" /\ WriterWrite
    \/ WriterNoReader \/ WriterWriteFails \/ WriterSendersGone
    \/ WriterJoin \/ WriterDrain \/ WriterReturn

TaskFairness ==
    /\ WF_vars(WriterRuns)
    /\ WF_vars(Reader)
    /\ \A r \in Requests : WF_vars(Enqueue(r))

LiveSpec == Spec /\ TaskFairness

(* What a node that keeps reading, serving and closing adds, and what the  *)
(* callers' timers and the FIFO semaphore of the channel of jobs add.      *)
NodeFairness ==
    WF_vars(WriterWrite) /\ WF_vars(NodeServes) /\ WF_vars(NodeCloses)

CallerFairness ==
    \A r \in Requests :
        WF_vars(ReservePermit(r)) /\ WF_vars(SendRefused(r)) /\ WF_vars(Timeout(r))
-----------------------------------------------------------------------------
(* A caller that was given a response was given the one to its own request:*)
(* the pairing by position survives timeouts, failures and shutdown.       *)
OwnAnswer ==
    \A r \in Requests : answer[r] # None => answer[r] = r /\ r \in served

(* While the reader has not failed, its reply senders are in the order of  *)
(* the frames on the wire, those of callers that timed out included: all   *)
(* of them on a connection that is up, the ones still to be answered on    *)
(* one that is broken.                                                     *)
Wire == toClient \o toServer \o (IF writer = "write" THEN <<job>> ELSE <<>>)

Alignment ==
    reader \in {"idle", "read"} =>
        /\ link = "up" => replies = Wire
        /\ \E m \in 0..Len(replies) : toClient = SubSeq(replies, 1, m)

(* A caller that was told its job was not accepted, or was dropped before  *)
(* it was written, may send it again: no node has served it and none will. *)
RejectedNeverServed ==
    \A r \in Requests : call[r] \in {"closed", "unsent"} =>
        r \notin served \cup Range(toServer) \cup Range(jobs) \cup {job}

(* Until a waiting caller is answered, somebody holds its reply sender.    *)
NoLostReply ==
    \A r \in Requests : call[r] = "waiting" =>
        r \in Range(jobs) \cup Range(replies) \cup {job}

(* A request is at one place on its way to the node, and it is at none     *)
(* once the node has served it: what the writer drops, writes or finds on  *)
(* a broken connection is never also somewhere else.                       *)
OnePlace ==
    /\ IsInjective(jobs) /\ IsInjective(toServer)
    /\ Range(jobs) \cap Range(toServer) = {}
    /\ job \notin Range(jobs) \cup Range(toServer)
    /\ (Range(jobs) \cup Range(toServer) \cup {job}) \cap served = {}

(* The two channels bound what is on the wire: the senders queued for the  *)
(* reader and the one in its hands, hence one more than PIPELINE_DEPTH.    *)
InFlight == Len(toServer) + Len(toClient)

InFlightBound == reader \in {"idle", "read"} => InFlight <= Depth + 1

(* README.md:78: "up to 32 requests in flight".                            *)
InFlightAtMostDepth == reader \in {"idle", "read"} => InFlight <= Depth

(* The writer learns that the reader has ended only at its next job, but   *)
(* it then pushes no sender more: one call at most is left without an      *)
(* answer until then.                                                      *)
AtMostOneStranded ==
    reader = "done" =>
        Len(replies) <= 1 /\ (writer = "push" => replies = <<>>)

(* The pipeline implements the channel of module RequestChannel.           *)
Phase(r) ==
    CASE call[r] = "idle" -> "new"
      [] call[r] \in {"sending", "permit", "waiting"} -> "pending"
      [] call[r] = "ok" -> "ok"
      [] call[r] \in {"closed", "unsent"} -> "rejected"
      [] OTHER -> "failed"

phase == [r \in Requests |-> Phase(r)]

Channel == INSTANCE RequestChannel
             WITH phase <- phase, answer <- answer, served <- served

ChannelSpec == Channel!Spec
-----------------------------------------------------------------------------
(* The two places where a call waits for nothing but its own timer: its    *)
(* job was pushed after the receiver was dropped, or its reply sender      *)
(* after the reader had ended.                                             *)
Stranded(r) ==
    \/ jobsRx = "dropped" /\ r \in Range(jobs)
    \/ reader = "done" /\ r \in Range(replies)

(* A broken connection settles every waiting call without its timer, but   *)
(* for the stranded ones.                                                  *)
BreakSettlesCalls ==
    \A r \in Requests :
        link = "broken" /\ call[r] = "waiting"
            ~> call[r] \in Outcomes \/ Stranded(r)

(* A pipeline that nobody uses any more, neither the slot nor a caller,    *)
(* ends both its tasks, provided that the node serves and closes: the      *)
(* reader has no timeout of its own.                                       *)
AbandonedPipelineEnds ==
    NodeFairness => (~slot /\ held = {} ~> writer = "done" /\ reader = "done")

(* With a node that serves, every attempt ends, although no timeout covers *)
(* the wait for a place in the channel of jobs.                            *)
EveryAttemptEnds ==
    NodeFairness /\ CallerFairness =>
        \A r \in Requests : call[r] = "sending" ~> call[r] \in Outcomes
=============================================================================
