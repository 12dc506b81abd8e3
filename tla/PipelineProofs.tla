--------------------------- MODULE PipelineProofs ---------------------------
(***************************************************************************)
(* Theorems about module Pipeline, for any number of requests and any      *)
(* capacities of its two channels.  None of the properties is inductive as *)
(* it stands: they are conjuncts of, or follow from, the invariant IInv.   *)
(***************************************************************************)
EXTENDS Pipeline, QueueLemmas

-----------------------------------------------------------------------------
(* The invariant.                                                          *)

(* The writer has a job in hand from its receipt to its write; the reader  *)
(* has a sender in hand while it reads.                                    *)
ControlInv ==
    /\ job # None <=> writer \in {"reserve", "push", "write"}
    /\ reader = "read" => replies # <<>>

(* A request that is on its way, or served, was sent by its caller, and    *)
(* its caller has not been told that it was rejected.                      *)
CallInv ==
    /\ \A r \in Range(jobs) \cup Range(toServer) \cup ({job} \ {None}) :
          call[r] \in {"waiting", "timedout", "lost"}
    /\ \A r \in served : call[r] \in {"waiting", "timedout", "lost", "ok"}
    /\ Range(toClient) \subseteq served

(* The place the writer has reserved counts, too.                          *)
CapacityInv ==
    Queued <= Depth /\ (writer = "push" => Queued < Depth)

(* A job that is being written has its sender with the reader.             *)
RegisteredInv ==
    writer = "write" /\ call[job] = "waiting" => job \in Range(replies)

IInv ==
    /\ TypeOK /\ ControlInv
    /\ OnePlace /\ CallInv
    /\ Alignment /\ OwnAnswer
    /\ CapacityInv /\ InFlightBound /\ AtMostOneStranded
    /\ NoLostReply /\ RegisteredInv
-----------------------------------------------------------------------------
(* Type correctness.                                                       *)

LEMMA TypeInit == Init => TypeOK
  BY DEF Init, TypeOK, Outcomes

LEMMA TypeStep == TypeOK /\ ControlInv /\ [Next]_vars => TypeOK' /\ ControlInv'
<1> SUFFICES ASSUME TypeOK, ControlInv, [Next]_vars
             PROVE  TypeOK' /\ ControlInv'
  OBVIOUS
<1> USE ConstantsAssumption
<1>1. ASSUME NEW r \in Requests, Caller(r)
      PROVE  TypeOK' /\ ControlInv'
  <2>1. CASE Enqueue(r)
    <3>1. jobs' \in Seq(Requests)
      BY <2>1, RangeAppend DEF Enqueue, TypeOK
    <3> QED
      BY <3>1, <2>1 DEF Enqueue, TypeOK, ControlInv, Outcomes, readerVars, wireVars
  <2>2. CASE AcquireHandle(r) \/ ReleaseHandle(r)
    BY <2>2 DEF AcquireHandle, ReleaseHandle, TypeOK, ControlInv, Outcomes, writerVars,
       readerVars, wireVars
  <2>3. CASE ReservePermit(r) \/ SendRefused(r) \/ Timeout(r)
    <3>1. /\ call' \in [Requests -> {"idle", "sending", "permit", "waiting"} \cup Outcomes]
          /\ UNCHANGED <<answer, held, slot, writerVars, readerVars, wireVars>>
      BY <2>3 DEF ReservePermit, SendRefused, Timeout, TypeOK, Outcomes
    <3> QED
      BY <3>1 DEF TypeOK, ControlInv, writerVars, readerVars, wireVars
  <2> QED
    BY <1>1, <2>1, <2>2, <2>3 DEF Caller
<1>2. ASSUME DropSlot \/ NodeCloses \/ Finished
      PROVE  TypeOK' /\ ControlInv'
  <2>1. CASE DropSlot
    BY <2>1 DEF DropSlot, TypeOK, ControlInv, callerVars, writerVars, readerVars, wireVars
  <2>2. CASE NodeCloses
    BY <2>2 DEF NodeCloses, TypeOK, ControlInv, callerVars, writerVars, readerVars
  <2>3. CASE Finished
    BY <2>3 DEF Finished, TypeOK, ControlInv, vars, callerVars, writerVars, readerVars, wireVars
  <2> QED
    BY <1>2, <2>1, <2>2, <2>3
<1>3. ASSUME Writer
      PROVE  TypeOK' /\ ControlInv'
  <2>1. CASE WriterRecv
    <3>1. job' \in Requests /\ jobs' \in Seq(Requests)
      BY <2>1, RangeTail DEF WriterRecv, TypeOK
    <3> QED
      BY <3>1, <2>1 DEF WriterRecv, TypeOK, ControlInv, callerVars, readerVars, wireVars
  <2>2. CASE WriterReserve
    BY <2>2 DEF WriterReserve, TypeOK, ControlInv, callerVars, readerVars, wireVars
  <2>3. CASE WriterPush
    <3>1. job \in Requests
      BY <2>3 DEF WriterPush, TypeOK, ControlInv
    <3>2. replies' \in Seq(Requests) /\ replies' # <<>>
      BY <3>1, <2>3, RangeAppend DEF WriterPush, TypeOK
    <3> QED
      BY <3>1, <3>2, <2>3 DEF WriterPush, TypeOK, ControlInv, callerVars, wireVars
  <2>4. CASE WriterWrite
    <3>1. job \in Requests
      BY <2>4 DEF WriterWrite, TypeOK, ControlInv
    <3>2. toServer' \in Seq(Requests)
      BY <3>1, <2>4, RangeAppend DEF WriterWrite, TypeOK
    <3> QED
      BY <3>2, <2>4 DEF WriterWrite, TypeOK, ControlInv, callerVars, readerVars
  <2>5. ASSUME NEW U, LeaveLoop(U), writer \in {"reserve", "write", "idle"}
        PROVE  TypeOK' /\ ControlInv'
    <3>1. replies' \in Seq(Requests) /\ (reader = "read" => replies' # <<>>)
      BY <2>5 DEF LeaveLoop, TypeOK, ControlInv
    <3>2. call' \in [Requests -> {"idle", "sending", "permit", "waiting"} \cup Outcomes]
      BY <2>5 DEF LeaveLoop, TypeOK, Outcomes
    <3> QED
      BY <3>1, <3>2, <2>5 DEF LeaveLoop, TypeOK, ControlInv, wireVars
  <2>6. CASE WriterNoReader \/ WriterWriteFails \/ WriterSendersGone
    BY <2>5, <2>6 DEF WriterNoReader, WriterWriteFails, WriterSendersGone
  <2>7. CASE WriterJoin \/ WriterReturn
    BY <2>7 DEF WriterJoin, WriterReturn, TypeOK, ControlInv, callerVars, readerVars, wireVars
  <2>8. CASE WriterDrain
    <3>1. jobs' \in Seq(Requests)
      BY <2>8, RangeTail DEF WriterDrain, TypeOK
    <3> QED
      BY <3>1, <2>8 DEF WriterDrain, Settle, TypeOK, ControlInv, Outcomes, readerVars, wireVars
  <2> QED
    BY <1>3, <2>1, <2>2, <2>3, <2>4, <2>6, <2>7, <2>8 DEF Writer
<1>4. ASSUME Reader
      PROVE  TypeOK' /\ ControlInv'
  <2>1. CASE ReaderRecv \/ ReaderWriterGone \/ ReaderReturn
    BY <2>1 DEF ReaderRecv, ReaderWriterGone, ReaderReturn, TypeOK, ControlInv, callerVars,
       writerVars, wireVars
  <2>2. CASE ReaderGotFrame
    <3>1. replies # <<>> /\ toClient # <<>>
      BY <2>2 DEF ReaderGotFrame, ControlInv
    <3>2. /\ Head(replies) \in Requests /\ replies' \in Seq(Requests)
          /\ Head(toClient) \in Requests /\ toClient' \in Seq(Requests)
      BY <3>1, <2>2, RangeTail DEF ReaderGotFrame, TypeOK
    <3>3. answer' \in [Requests -> Requests \cup {None}]
      BY <3>2, <2>2 DEF ReaderGotFrame, TypeOK
    <3> QED
      BY <3>2, <3>3, <2>2 DEF ReaderGotFrame, Settle, TypeOK, ControlInv, Outcomes, writerVars
  <2>3. CASE ReaderFails \/ ReaderDrain
    <3>1. replies # <<>> /\ replies' = Tail(replies)
      BY <2>3 DEF ReaderFails, ReaderDrain, ControlInv
    <3>2. replies' \in Seq(Requests)
      BY <3>1, RangeTail DEF TypeOK
    <3> QED
      BY <3>2, <2>3 DEF ReaderFails, ReaderDrain, Settle, TypeOK, ControlInv, Outcomes,
         writerVars, wireVars
  <2> QED
    BY <1>4, <2>1, <2>2, <2>3 DEF Reader
<1>5. ASSUME NodeServes \/ LinkBreaks
      PROVE  TypeOK' /\ ControlInv'
  <2>1. CASE NodeServes
    <3>1. Head(toServer) \in Requests /\ toServer' \in Seq(Requests)
      BY <2>1, RangeTail DEF NodeServes, TypeOK
    <3>2. toClient' \in Seq(Requests)
      BY <3>1, <2>1, RangeAppend DEF NodeServes, TypeOK
    <3> QED
      BY <3>1, <3>2, <2>1 DEF NodeServes, TypeOK, ControlInv, callerVars, writerVars, readerVars
  <2>2. CASE LinkBreaks
    <3>1. toServer' \in Seq(Requests) /\ toClient' \in Seq(Requests)
      BY <2>2, RangePrefix DEF LinkBreaks, TypeOK
    <3> QED
      BY <3>1, <2>2 DEF LinkBreaks, TypeOK, ControlInv, callerVars, writerVars, readerVars
  <2> QED
    BY <1>5, <2>1, <2>2
<1>6. CASE UNCHANGED vars
  BY <1>6 DEF TypeOK, ControlInv, vars, callerVars, writerVars, readerVars, wireVars
<1> QED
  BY <1>1, <1>2, <1>3, <1>4, <1>5, <1>6 DEF Next, Network
-----------------------------------------------------------------------------
(* Where a request is, and what its caller knows meanwhile.                *)

(* The first frame from the node answers the sender in the reader's hands. *)
LEMMA FirstFrame ==
    ASSUME TypeOK, Alignment, reader = "read", replies # <<>>, toClient # <<>>
    PROVE  Head(toClient) = Head(replies)
<1>1. PICK m \in 0..Len(replies) : toClient = SubSeq(replies, 1, m)
  BY DEF Alignment
<1>2. m \in 1..Len(replies)
  BY <1>1, RangePrefix DEF TypeOK
<1> QED
  BY <1>1, <1>2, PrefixTail DEF TypeOK

LEMMA PlaceStep ==
    ASSUME TypeOK, ControlInv, Alignment, OnePlace, CallInv, [Next]_vars
    PROVE  OnePlace' /\ CallInv'
<1> USE ConstantsAssumption
<1>1. ASSUME NEW r \in Requests, Caller(r)
      PROVE  OnePlace' /\ CallInv'
  <2>1. CASE Enqueue(r)
    <3>1. r \notin Range(jobs) \cup Range(toServer) \cup {job} \cup served
      BY <2>1 DEF Enqueue, CallInv
    <3>2. Range(jobs') = Range(jobs) \cup {r} /\ IsInjective(jobs')
      BY <2>1, <3>1, RangeAppend DEF Enqueue, TypeOK, OnePlace
    <3>3. \A x \in Requests : call'[x] = IF x = r THEN "waiting" ELSE call[x]
      BY <2>1 DEF Enqueue, TypeOK
    <3>4. Range(jobs) \subseteq Requests /\ Range(toServer) \subseteq Requests
      BY DEF TypeOK, Range
    <3>5. OnePlace'
      BY <2>1, <3>1, <3>2 DEF Enqueue, OnePlace, wireVars
    <3> QED
      BY <2>1, <3>1, <3>2, <3>3, <3>4, <3>5 DEF Enqueue, CallInv, TypeOK, wireVars
  <2>2. CASE AcquireHandle(r) \/ ReservePermit(r) \/ SendRefused(r)
    <3>1. r \notin Range(jobs) \cup Range(toServer) \cup {job} \cup served
      BY <2>2 DEF AcquireHandle, ReservePermit, SendRefused, CallInv
    <3>2. \A x \in Requests : x # r => call'[x] = call[x]
      BY <2>2 DEF AcquireHandle, ReservePermit, SendRefused, TypeOK
    <3>3. UNCHANGED <<jobs, job, toServer, toClient, served>>
      BY <2>2 DEF AcquireHandle, ReservePermit, SendRefused, writerVars, wireVars
    <3>4. Range(jobs) \subseteq Requests /\ Range(toServer) \subseteq Requests
      BY DEF TypeOK, Range
    <3> QED
      BY <3>1, <3>2, <3>3, <3>4 DEF CallInv, OnePlace, TypeOK
  <2>3. CASE Timeout(r)
    <3>1. \A x \in Requests : call'[x] = IF x = r THEN "timedout" ELSE call[x]
      BY <2>3 DEF Timeout, TypeOK
    <3>2. Range(jobs) \subseteq Requests /\ Range(toServer) \subseteq Requests
      BY DEF TypeOK, Range
    <3> QED
      BY <2>3, <3>1, <3>2 DEF Timeout, CallInv, OnePlace, TypeOK, writerVars, wireVars
  <2>4. CASE ReleaseHandle(r)
    BY <2>4 DEF ReleaseHandle, CallInv, OnePlace, writerVars, wireVars
  <2> QED
    BY <1>1, <2>1, <2>2, <2>3, <2>4 DEF Caller
<1>2. ASSUME DropSlot \/ NodeCloses \/ Finished \/ UNCHANGED vars
      PROVE  OnePlace' /\ CallInv'
  <2>1. UNCHANGED <<call, jobs, job, toServer, toClient, served>>
    BY <1>2 DEF DropSlot, NodeCloses, Finished, vars, callerVars, writerVars, wireVars
  <2> QED
    BY <2>1 DEF OnePlace, CallInv
<1>3. ASSUME Writer
      PROVE  OnePlace' /\ CallInv'
  <2>1. CASE WriterRecv
    <3>1. /\ Range(jobs) = {job'} \cup Range(jobs') /\ job' \notin Range(jobs')
          /\ IsInjective(jobs') /\ job' \in Requests
      BY <2>1, RangeTail DEF WriterRecv, TypeOK, OnePlace
    <3>2. UNCHANGED <<call, toServer, toClient, served>>
      BY <2>1 DEF WriterRecv, callerVars, wireVars
    <3> QED
      BY <3>1, <3>2 DEF OnePlace, CallInv
  <2>2. CASE WriterReserve \/ WriterPush \/ WriterJoin \/ WriterReturn
    <3>1. UNCHANGED <<call, jobs, job, toServer, toClient, served>>
      BY <2>2 DEF WriterReserve, WriterPush, WriterJoin, WriterReturn, callerVars, wireVars
    <3> QED
      BY <3>1 DEF OnePlace, CallInv
  <2>3. CASE WriterWrite
    <3>1. job \in Requests
      BY <2>3 DEF WriterWrite, TypeOK, ControlInv
    <3>2. /\ Range(toServer') \subseteq Range(toServer) \cup {job}
          /\ IsInjective(toServer')
      BY <3>1, <2>3, RangeAppend DEF WriterWrite, TypeOK, OnePlace
    <3>3. UNCHANGED <<call, jobs, toClient, served>> /\ job' = None
      BY <2>3 DEF WriterWrite, callerVars
    <3>4. None \notin Range(jobs) \cup Range(toServer) \cup served \cup {job}
      BY <3>1 DEF TypeOK, Range
    <3> QED
      BY <3>1, <3>2, <3>3, <3>4 DEF OnePlace, CallInv
  <2>4. ASSUME NEW U, LeaveLoop(U), U \subseteq {job} \ {None}
        PROVE  OnePlace' /\ CallInv'
    <3>1. UNCHANGED <<jobs, toServer, toClient, served>> /\ job' = None
      BY <2>4 DEF LeaveLoop, wireVars
    <3>2. \A x \in Requests : x \notin U =>
             call'[x] = call[x] \/ (call[x] = "waiting" /\ call'[x] = "lost")
      BY <2>4 DEF LeaveLoop
    <3>3. /\ Range(jobs) \subseteq Requests /\ Range(toServer) \subseteq Requests
          /\ served \subseteq Requests /\ None \notin Requests
      BY DEF TypeOK, Range
    <3>4. OnePlace'
      BY <3>1, <3>3 DEF OnePlace
    <3>5. CallInv'
      BY <2>4, <3>1, <3>2, <3>3 DEF OnePlace, CallInv
    <3> QED
      BY <3>4, <3>5
  <2>5. CASE WriterNoReader
    <3>1. job # None
      BY <2>5 DEF WriterNoReader, ControlInv
    <3> QED
      BY <3>1, <2>4, <2>5 DEF WriterNoReader
  <2>6. CASE WriterWriteFails \/ WriterSendersGone
    BY <2>4, <2>6 DEF WriterWriteFails, WriterSendersGone
  <2>7. CASE WriterDrain
    <3>1. /\ Range(jobs) = {Head(jobs)} \cup Range(jobs') /\ Head(jobs) \notin Range(jobs')
          /\ IsInjective(jobs')
      BY <2>7, RangeTail DEF WriterDrain, TypeOK, OnePlace
    <3>2. UNCHANGED <<job, toServer, toClient, served>>
      BY <2>7 DEF WriterDrain, wireVars
    <3>3. \A x \in Requests : x # Head(jobs) => call'[x] = call[x]
      BY <2>7 DEF WriterDrain, Settle
    <3>4. Range(jobs) \subseteq Requests /\ Range(toServer) \subseteq Requests
      BY DEF TypeOK, Range
    <3> QED
      BY <3>1, <3>2, <3>3, <3>4 DEF OnePlace, CallInv, TypeOK
  <2> QED
    BY <1>3, <2>1, <2>2, <2>3, <2>5, <2>6, <2>7 DEF Writer
<1>4. ASSUME Reader
      PROVE  OnePlace' /\ CallInv'
  <2> /\ Range(jobs) \subseteq Requests /\ Range(toServer) \subseteq Requests
      /\ Range(toClient) \subseteq Requests
    BY DEF TypeOK, Range
  <2>1. CASE ReaderRecv \/ ReaderWriterGone \/ ReaderReturn
    <3>1. UNCHANGED <<call, jobs, job, toServer, toClient, served>>
      BY <2>1 DEF ReaderRecv, ReaderWriterGone, ReaderReturn, callerVars, writerVars, wireVars
    <3> QED
      BY <3>1 DEF OnePlace, CallInv
  <2>2. CASE ReaderGotFrame
    <3>1. Head(toClient) = Head(replies) /\ Head(toClient) \in Range(toClient)
      BY <2>2, FirstFrame, RangeTail DEF ReaderGotFrame, ControlInv, TypeOK
    <3>2. Head(replies) \in served /\ Range(toClient') \subseteq Range(toClient)
      BY <3>1, <2>2, RangeTail DEF ReaderGotFrame, CallInv, TypeOK
    <3>3. UNCHANGED <<jobs, job, toServer, served>>
      BY <2>2 DEF ReaderGotFrame, writerVars
    <3>4. \A x \in Requests :
             call'[x] = IF x = Head(replies) /\ call[x] = "waiting" THEN "ok" ELSE call[x]
      BY <2>2 DEF ReaderGotFrame, Settle
    <3>5. OnePlace'
      BY <3>3 DEF OnePlace
    <3> QED
      BY <3>2, <3>3, <3>4, <3>5 DEF OnePlace, CallInv, TypeOK
  <2>3. CASE ReaderFails \/ ReaderDrain
    <3>1. UNCHANGED <<jobs, job, toServer, toClient, served>>
      BY <2>3 DEF ReaderFails, ReaderDrain, writerVars, wireVars
    <3>2. \A x \in Requests :
             call'[x] = call[x] \/ (call[x] = "waiting" /\ call'[x] = "lost")
      BY <2>3 DEF ReaderFails, ReaderDrain, Settle
    <3> QED
      BY <3>1, <3>2 DEF OnePlace, CallInv, TypeOK
  <2> QED
    BY <1>4, <2>1, <2>2, <2>3 DEF Reader
<1>5. CASE NodeServes
  <2> DEFINE h == Head(toServer)
  <2>1. /\ Range(toServer) = {h} \cup Range(toServer') /\ h \notin Range(toServer')
        /\ IsInjective(toServer') /\ h \in Requests
    BY <1>5, RangeTail DEF NodeServes, TypeOK, OnePlace
  <2>2. Range(toClient') \subseteq Range(toClient) \cup {h}
    BY <2>1, <1>5, RangeAppend DEF NodeServes, TypeOK
  <2>3. served' = served \cup {h} /\ UNCHANGED <<call, jobs, job>>
    BY <1>5 DEF NodeServes, callerVars, writerVars
  <2> HIDE DEF h
  <2>4. OnePlace'
    BY <2>1, <2>3 DEF OnePlace
  <2> QED
    BY <2>1, <2>2, <2>3, <2>4 DEF CallInv
<1>6. CASE LinkBreaks
  <2>1. /\ Range(toServer') \subseteq Range(toServer) /\ IsInjective(toServer')
        /\ Range(toClient') \subseteq Range(toClient)
    BY <1>6, RangePrefix DEF LinkBreaks, TypeOK, OnePlace
  <2>2. UNCHANGED <<call, jobs, job, served>>
    BY <1>6 DEF LinkBreaks, callerVars, writerVars
  <2> QED
    BY <2>1, <2>2 DEF OnePlace, CallInv
<1> QED
  BY <1>1, <1>2, <1>3, <1>4, <1>5, <1>6 DEF Next, Network
-----------------------------------------------------------------------------
(* The order of the reply senders and of the frames, and their number.     *)

Frame == IF writer = "write" THEN <<job>> ELSE <<>>

LEMMA FrameType ==
    ASSUME TypeOK, ControlInv
    PROVE  Frame \in Seq(Requests) /\ Wire = toClient \o toServer \o Frame
<1>1. writer = "write" => job \in Requests
  BY DEF TypeOK, ControlInv
<1> QED
  BY <1>1 DEF Frame, Wire

LEMMA UpIsPrefix ==
    ASSUME TypeOK, ControlInv, replies = Wire
    PROVE  /\ \E m \in 0..Len(replies) : toClient = SubSeq(replies, 1, m)
           /\ Len(toClient) + Len(toServer) <= Len(replies)
<1>0. /\ toClient \in Seq(Requests) /\ toServer \in Seq(Requests)
      /\ Frame \in Seq(Requests) /\ replies = toClient \o toServer \o Frame
  BY FrameType DEF TypeOK
<1>1. /\ Len(replies) = Len(toClient) + Len(toServer) + Len(Frame)
      /\ toClient = SubSeq(replies, 1, Len(toClient))
  BY <1>0, WirePrefix
<1>2. Len(toClient) \in Nat /\ Len(toServer) \in Nat /\ Len(Frame) \in Nat
  BY <1>0
<1>3. Len(toClient) \in 0..Len(replies) /\ Len(toClient) + Len(toServer) <= Len(replies)
  BY <1>1, <1>2
<1> QED
  BY <1>1, <1>3

LEMMA AlignmentStep ==
    ASSUME TypeOK, ControlInv, TypeOK', ControlInv', Alignment, [Next]_vars
    PROVE  Alignment'
<1> SUFFICES ASSUME reader' \in {"idle", "read"}
             PROVE  /\ link' = "up" => replies' = Wire'
                    /\ \E m \in 0..Len(replies') : toClient' = SubSeq(replies', 1, m)
  BY DEF Alignment
<1>0. /\ reader \in {"idle", "read"}
      /\ link = "up" => replies = Wire
      /\ \E m \in 0..Len(replies) : toClient = SubSeq(replies, 1, m)
  <2>1. reader \in {"idle", "read"}
    BY DEF Next, Caller, AcquireHandle, ReservePermit, SendRefused, Enqueue, Timeout,
       ReleaseHandle, DropSlot, Writer, WriterRecv, WriterReserve, WriterPush, WriterWrite,
       WriterNoReader, WriterWriteFails, WriterSendersGone, LeaveLoop, WriterJoin, WriterDrain,
       WriterReturn, Reader, ReaderRecv, ReaderWriterGone, ReaderGotFrame, ReaderFails,
       ReaderDrain, ReaderReturn, Network, NodeServes, NodeCloses, LinkBreaks, Finished, vars,
       callerVars, writerVars, readerVars, wireVars, TypeOK
  <2> QED
    BY <2>1 DEF Alignment
(* A step of these touches neither the wire nor the senders. *)
<1>1. ASSUME \/ \E r \in Requests : Caller(r)
             \/ DropSlot \/ Finished \/ UNCHANGED vars
             \/ WriterRecv \/ WriterReserve \/ WriterJoin \/ WriterDrain \/ WriterReturn
             \/ ReaderRecv \/ ReaderWriterGone
      PROVE  Alignment'
  <2>1. UNCHANGED <<replies, toServer, toClient, link>>
    BY <1>1 DEF Caller, AcquireHandle, ReservePermit, SendRefused, Enqueue, Timeout,
       ReleaseHandle, DropSlot, WriterRecv, WriterReserve, WriterJoin, WriterDrain,
       WriterReturn, ReaderRecv, ReaderWriterGone, Finished, vars, callerVars, writerVars,
       readerVars, wireVars
  <2>2. (IF writer = "write" THEN <<job>> ELSE <<>>)
          = (IF writer' = "write" THEN <<job'>> ELSE <<>>)
    BY <1>1 DEF Caller, AcquireHandle, ReservePermit, SendRefused, Enqueue, Timeout,
       ReleaseHandle, DropSlot, WriterRecv, WriterReserve, WriterJoin, WriterDrain,
       WriterReturn, ReaderRecv, ReaderWriterGone, Finished, vars, callerVars, writerVars,
       readerVars, wireVars
  <2> QED
    BY <1>0, <2>1, <2>2 DEF Alignment, Wire
<1>2. CASE WriterPush
  <2>1. /\ replies' = Append(replies, job) /\ job' = job /\ job \in Requests
        /\ writer = "push" /\ writer' = "write" /\ UNCHANGED <<toServer, toClient, link>>
    BY <1>2 DEF WriterPush, TypeOK, ControlInv, wireVars
  <2>2. link = "up" => replies' = Wire'
    <3>1. toClient \in Seq(Requests) /\ toServer \in Seq(Requests)
      BY DEF TypeOK
    <3>2. Append(toClient \o toServer \o <<>>, job) = toClient \o toServer \o <<job>>
      BY <2>1, <3>1, WirePush
    <3>3. Wire = toClient \o toServer \o <<>> /\ Wire' = toClient \o toServer \o <<job>>
      BY <2>1 DEF Wire
    <3> QED
      BY <1>0, <2>1, <3>2, <3>3
  <2>3. PICK m \in 0..Len(replies) : toClient = SubSeq(replies, 1, m)
    BY <1>0
  <2>4. m \in 0..Len(replies') /\ toClient = SubSeq(replies', 1, m)
    BY <2>1, <2>3, PrefixAppend DEF TypeOK
  <2> QED
    BY <2>1, <2>2, <2>4
<1>3. CASE WriterWrite
  <2>1. /\ replies' = replies /\ job \in Requests /\ UNCHANGED <<toClient, link>>
        /\ writer = "write" /\ writer' = "idle"
        /\ link = "up" => toServer' = Append(toServer, job)
    BY <1>3 DEF WriterWrite, TypeOK, ControlInv, readerVars
  <2>2. link = "up" => replies' = Wire'
    <3> SUFFICES ASSUME link = "up"
                 PROVE  replies' = Wire'
      BY <2>1
    <3>1. toClient \in Seq(Requests) /\ toServer \in Seq(Requests)
      BY DEF TypeOK
    <3>2. toClient \o toServer \o <<job>> = toClient \o Append(toServer, job) \o <<>>
      <4>1. job \in Requests
        BY <2>1
      <4> QED
        BY ONLY <3>1, <4>1, WireWrite, Zenon
    <3>3. /\ Wire = toClient \o toServer \o <<job>>
          /\ Wire' = toClient \o Append(toServer, job) \o <<>>
      BY <2>1 DEF Wire
    <3> QED
      BY <1>0, <2>1, <3>2, <3>3
  <2> QED
    BY <1>0, <2>1, <2>2
<1>4. ASSUME NEW U, LeaveLoop(U), link = "broken" \/ writer # "write"
      PROVE  Alignment'
  <2>1. /\ replies' = replies /\ UNCHANGED <<toServer, toClient, link>>
        /\ writer' = "join"
    BY <1>0, <1>4 DEF LeaveLoop, wireVars
  <2> QED
    BY <1>0, <1>4, <2>1 DEF Alignment, Wire
<1>5. CASE WriterNoReader \/ WriterWriteFails \/ WriterSendersGone
  BY <1>4, <1>5 DEF WriterNoReader, WriterWriteFails, WriterSendersGone, Alignment
<1>6. CASE ReaderGotFrame
  <2>1. /\ replies # <<>> /\ toClient # <<>>
        /\ replies' = Tail(replies) /\ toClient' = Tail(toClient)
        /\ UNCHANGED <<toServer, link, writer, job>>
    BY <1>6 DEF ReaderGotFrame, ControlInv, writerVars
  <2>2. link = "up" => replies' = Wire'
    <3>1. Frame' = Frame /\ Wire' = toClient' \o toServer' \o Frame'
      BY <2>1, FrameType DEF Frame, Wire
    <3>2. /\ toClient \in Seq(Requests) /\ toServer \in Seq(Requests)
          /\ Frame \in Seq(Requests) /\ Wire = toClient \o toServer \o Frame
      BY FrameType DEF TypeOK
    <3>3. Tail(toClient \o toServer \o Frame) = Tail(toClient) \o toServer \o Frame
      BY <2>1, <3>2, WireRead
    <3> QED
      BY <1>0, <2>1, <3>1, <3>2, <3>3
  <2>3. PICK m \in 0..Len(replies) : toClient = SubSeq(replies, 1, m)
    BY <1>0
  <2>4. m \in 1..Len(replies)
    BY <2>1, <2>3, RangePrefix DEF TypeOK
  <2>5. toClient' = SubSeq(replies', 1, m - 1) /\ m - 1 \in 0..Len(replies')
    BY <2>1, <2>3, <2>4, PrefixTail, RangeTail DEF TypeOK
  <2> QED
    BY <2>1, <2>2, <2>5
<1>7. CASE ReaderFails \/ ReaderDrain \/ ReaderReturn
  BY <1>7 DEF ReaderFails, ReaderDrain, ReaderReturn
<1>8. CASE NodeServes
  <2>1. /\ UNCHANGED <<replies, link, writer, job>>
        /\ toServer # <<>> /\ toServer' = Tail(toServer)
        /\ link = "up" => toClient' = Append(toClient, Head(toServer))
        /\ link # "up" => toClient' = toClient
    BY <1>8 DEF NodeServes, writerVars, readerVars
  <2>2. Frame' = Frame /\ Wire' = toClient' \o toServer' \o Frame'
    BY <2>1 DEF Frame, Wire
  <2>3. link = "up" => replies' = Wire'
    <3>1. /\ toClient \in Seq(Requests) /\ toServer \in Seq(Requests)
          /\ Frame \in Seq(Requests) /\ Wire = toClient \o toServer \o Frame
      BY FrameType DEF TypeOK
    <3>2. toClient \o toServer \o Frame
            = Append(toClient, Head(toServer)) \o Tail(toServer) \o Frame
      <4>1. toServer # <<>>
        BY <2>1
      <4> QED
        BY ONLY <3>1, <4>1, WireServe
    <3> QED
      BY <1>0, <2>1, <2>2, <3>1, <3>2
  <2>4. CASE link = "up"
    <3>1. /\ toClient' \in Seq(Requests) /\ toServer' \in Seq(Requests)
          /\ Frame' \in Seq(Requests) /\ replies' = toClient' \o toServer' \o Frame'
      BY <2>1, <2>2, <2>3, <2>4, FrameType DEF TypeOK
    <3>2. /\ Len(replies') = Len(toClient') + Len(toServer') + Len(Frame')
          /\ toClient' = SubSeq(replies', 1, Len(toClient'))
      BY <3>1, WirePrefix
    <3>3. Len(toClient') \in 0..Len(replies')
      BY <3>1, <3>2
    <3> QED
      BY <2>1, <2>3, <3>2, <3>3
  <2> QED
    BY <1>0, <2>1, <2>3, <2>4
<1>9. CASE NodeCloses \/ LinkBreaks
  <2>1. PICK m \in 0..Len(replies) : toClient = SubSeq(replies, 1, m)
    BY <1>0
  <2>2. /\ replies' = replies /\ link' = "broken"
        /\ \E k \in 0..Len(toClient) : toClient' = SubSeq(toClient, 1, k)
    <3>1. CASE NodeCloses
      <4>1. toClient = SubSeq(toClient, 1, Len(toClient)) /\ Len(toClient) \in 0..Len(toClient)
        BY DEF TypeOK
      <4> QED
        BY <3>1, <4>1 DEF NodeCloses, readerVars
    <3>2. CASE LinkBreaks
      BY <3>2 DEF LinkBreaks, readerVars
    <3> QED
      BY <1>9, <3>1, <3>2
  <2>3. PICK k \in 0..Len(toClient) : toClient' = SubSeq(toClient, 1, k)
    BY <2>2
  <2>4. Len(toClient) = m /\ k \in 0..m
    BY <2>1, <2>3, RangePrefix DEF TypeOK
  <2>5. toClient' = SubSeq(replies, 1, k) /\ k \in 0..Len(replies)
    BY <2>1, <2>3, <2>4, PrefixPrefix DEF TypeOK
  <2> QED
    BY <2>2, <2>5
<1> QED
  BY <1>1, <1>2, <1>3, <1>5, <1>6, <1>7, <1>8, <1>9 DEF Next, Writer, Reader, Network, Alignment
-----------------------------------------------------------------------------
(* The two channels as bounds.                                             *)

LEMMA CapacityStep ==
    ASSUME TypeOK, ControlInv, TypeOK', CapacityInv, AtMostOneStranded, [Next]_vars
    PROVE  CapacityInv' /\ AtMostOneStranded'
<1> USE ConstantsAssumption
<1>0. Len(replies) \in Nat /\ (replies # <<>> => Len(replies) >= 1) /\ Depth \in Nat \ {0}
  BY DEF TypeOK
<1>1. ASSUME \/ \E r \in Requests : Caller(r)
             \/ DropSlot \/ Finished \/ Network \/ UNCHANGED vars
             \/ WriterRecv \/ WriterWrite \/ WriterJoin \/ WriterDrain \/ WriterReturn
      PROVE  CapacityInv' /\ AtMostOneStranded'
  <2>1. UNCHANGED <<replies, reader>> /\ (writer' = "push" <=> writer = "push")
    BY <1>1 DEF Caller, AcquireHandle, ReservePermit, SendRefused, Enqueue, Timeout,
       ReleaseHandle, DropSlot, WriterRecv, WriterWrite, WriterJoin, WriterDrain, WriterReturn,
       Network, NodeServes, NodeCloses, LinkBreaks, Finished, vars, writerVars, readerVars
  <2> QED
    BY <2>1 DEF CapacityInv, AtMostOneStranded, Queued
<1>2. CASE WriterReserve
  BY <1>0, <1>2 DEF WriterReserve, CapacityInv, AtMostOneStranded, Queued, readerVars
<1>3. CASE WriterPush
  <2>1. Len(replies') = Len(replies) + 1
    BY <1>3 DEF WriterPush, TypeOK
  <2> QED
    BY <1>0, <1>3, <2>1 DEF WriterPush, CapacityInv, AtMostOneStranded, Queued
<1>4. CASE WriterNoReader \/ WriterWriteFails \/ WriterSendersGone
  <2>1. /\ writer' # "push" /\ reader' = reader /\ writer # "push"
        /\ replies' = IF reader = "done" THEN <<>> ELSE replies
    BY <1>4 DEF WriterNoReader, WriterWriteFails, WriterSendersGone, LeaveLoop
  <2> QED
    BY <1>0, <2>1 DEF CapacityInv, AtMostOneStranded, Queued
<1>5. CASE ReaderRecv \/ ReaderWriterGone \/ ReaderReturn
  <2>1. UNCHANGED <<replies, writer>>
    BY <1>5 DEF ReaderRecv, ReaderWriterGone, ReaderReturn, writerVars
  <2>2. CASE ReaderRecv \/ ReaderWriterGone
    <3>1. Queued' <= Queued /\ Queued' \in Int /\ Queued \in Int /\ reader' # "done"
      BY <1>0, <2>1, <2>2 DEF ReaderRecv, ReaderWriterGone, Queued
    <3> QED
      BY <1>0, <2>1, <3>1 DEF CapacityInv, AtMostOneStranded
  <2>3. CASE ReaderReturn
    <3>1. Len(replies) = 0
      BY <2>3 DEF ReaderReturn
    <3> QED
      BY <2>1, <2>3, <3>1 DEF ReaderReturn, CapacityInv, AtMostOneStranded, Queued
  <2> QED
    BY <1>5, <2>2, <2>3
<1>6. CASE ReaderGotFrame \/ ReaderFails \/ ReaderDrain
  <2>1. /\ replies # <<>> /\ replies' = Tail(replies) /\ writer' = writer
        /\ reader' # "done" /\ (reader = "read" \/ reader = reader') /\ reader' # "read"
    BY <1>6 DEF ReaderGotFrame, ReaderFails, ReaderDrain, ControlInv, writerVars
  <2>2. Len(replies') = Len(replies) - 1
    BY <2>1, RangeTail DEF TypeOK
  <2> QED
    <3>1. Queued' <= Queued /\ Queued' \in Int /\ Queued \in Int
      BY <1>0, <2>1, <2>2 DEF Queued
    <3> QED
      BY <1>0, <2>1, <3>1 DEF CapacityInv, AtMostOneStranded
<1> QED
  BY <1>1, <1>2, <1>3, <1>4, <1>5, <1>6 DEF Next, Writer, Reader

LEMMA UpBound ==
    TypeOK /\ ControlInv /\ Alignment /\ CapacityInv /\ link = "up" => InFlightBound
<1> SUFFICES ASSUME TypeOK, ControlInv, Alignment, CapacityInv, link = "up",
                    reader \in {"idle", "read"}
             PROVE  InFlight <= Depth + 1
  BY DEF InFlightBound
<1>1. Len(toClient) + Len(toServer) <= Len(replies)
  BY UpIsPrefix DEF Alignment
<1>2. Len(replies) <= Depth + 1
  <2>1. Len(replies) \in Nat /\ Depth \in Nat
    BY ConstantsAssumption DEF TypeOK
  <2>2. Len(replies) - 1 <= Queued /\ Queued \in Int
    BY <2>1 DEF Queued
  <2> QED
    BY <2>1, <2>2 DEF CapacityInv
<1>3. /\ Len(toClient) \in Nat /\ Len(toServer) \in Nat /\ Len(replies) \in Nat
      /\ Depth \in Nat
  BY ConstantsAssumption DEF TypeOK
<1> QED
  BY <1>1, <1>2, <1>3 DEF InFlight

LEMMA InFlightStep ==
    ASSUME TypeOK, ControlInv, Alignment, CapacityInv, InFlightBound, [Next]_vars,
           TypeOK', ControlInv', Alignment', CapacityInv'
    PROVE  InFlightBound'
<1> USE ConstantsAssumption
<1>1. CASE link' = "up"
  <2>1. (TypeOK /\ ControlInv /\ Alignment /\ CapacityInv /\ link = "up")' => InFlightBound'
    BY UpBound, PTL
  <2> QED
    BY <1>1, <2>1
(* Nothing is added to a broken connection. *)
<1>2. CASE link' # "up"
  <2>1. reader' \in {"idle", "read"} => reader \in {"idle", "read"}
    BY DEF Next, Caller, AcquireHandle, ReservePermit, SendRefused, Enqueue, Timeout,
       ReleaseHandle, DropSlot, Writer, WriterRecv, WriterReserve, WriterPush, WriterWrite,
       WriterNoReader, WriterWriteFails, WriterSendersGone, LeaveLoop, WriterJoin, WriterDrain,
       WriterReturn, Reader, ReaderRecv, ReaderWriterGone, ReaderGotFrame, ReaderFails,
       ReaderDrain, ReaderReturn, Network, NodeServes, NodeCloses, LinkBreaks, Finished, vars,
       callerVars, writerVars, readerVars, wireVars, TypeOK
  <2>2. Len(toClient') <= Len(toClient) /\ Len(toServer') <= Len(toServer)
    <3>0. Len(toClient) \in Nat /\ Len(toServer) \in Nat
      BY DEF TypeOK
    <3>1. ASSUME ~NodeServes, ~LinkBreaks, ~ReaderGotFrame
          PROVE  UNCHANGED <<toServer, toClient>>
      BY <1>2, <3>1 DEF Next, Caller, AcquireHandle, ReservePermit, SendRefused, Enqueue,
         Timeout, ReleaseHandle, DropSlot, Writer, WriterRecv, WriterReserve, WriterPush,
         WriterWrite, WriterNoReader, WriterWriteFails, WriterSendersGone, LeaveLoop,
         WriterJoin, WriterDrain, WriterReturn, Reader, ReaderRecv, ReaderWriterGone,
         ReaderFails, ReaderDrain, ReaderReturn, Network, NodeCloses, Finished, vars, wireVars
    <3>2. CASE NodeServes
      BY <1>2, <3>0, <3>2, RangeTail DEF NodeServes, TypeOK
    <3>3. CASE LinkBreaks
      BY <3>0, <3>3, RangePrefix DEF LinkBreaks, TypeOK
    <3>4. CASE ReaderGotFrame
      BY <3>0, <3>4, RangeTail DEF ReaderGotFrame, TypeOK
    <3> QED
      BY <3>0, <3>1, <3>2, <3>3, <3>4
  <2>3. /\ Len(toClient) \in Nat /\ Len(toServer) \in Nat
        /\ Len(toClient') \in Nat /\ Len(toServer') \in Nat
    BY DEF TypeOK
  <2> QED
    BY <2>1, <2>2, <2>3 DEF InFlightBound, InFlight
<1> QED
  BY <1>1, <1>2
-----------------------------------------------------------------------------
(* Every caller is answered, and with its own answer.                      *)

LEMMA AnswerStep ==
    ASSUME TypeOK, ControlInv, Alignment, CallInv, OwnAnswer, [Next]_vars
    PROVE  OwnAnswer'
<1>1. CASE ReaderGotFrame
  <2>1. /\ Head(toClient) = Head(replies) /\ Head(toClient) \in Range(toClient)
        /\ Head(replies) \in Requests
    BY <1>1, FirstFrame, RangeTail DEF ReaderGotFrame, ControlInv, TypeOK
  <2>2. Head(replies) \in served /\ served' = served
    BY <1>1, <2>1 DEF ReaderGotFrame, CallInv
  <2>3. \A r \in Requests : answer'[r] = answer[r] \/ (answer'[r] = r /\ r = Head(replies))
    <3> DEFINE h == Head(replies)
    <3>1. answer' = IF call[h] = "waiting" THEN [answer EXCEPT ![h] = h] ELSE answer
      BY <1>1, <2>1 DEF ReaderGotFrame
    <3>2. h \in Requests /\ answer \in [Requests -> Requests \cup {None}]
      BY <2>1 DEF TypeOK
    <3> HIDE DEF h
    <3>3. \A r \in Requests : answer'[r] = answer[r] \/ (answer'[r] = r /\ r = h)
      BY <3>1, <3>2
    <3> QED
      BY <3>3 DEF h
  <2> QED
    BY <2>2, <2>3 DEF OwnAnswer
<1>2. CASE ~ReaderGotFrame
  <2>1. answer' = answer
    BY <1>2 DEF Next, Caller, AcquireHandle, ReservePermit, SendRefused, Enqueue, Timeout,
       ReleaseHandle, DropSlot, Writer, WriterRecv, WriterReserve, WriterPush, WriterWrite,
       WriterNoReader, WriterWriteFails, WriterSendersGone, LeaveLoop, WriterJoin, WriterDrain,
       WriterReturn, Reader, ReaderRecv, ReaderWriterGone, ReaderFails, ReaderDrain,
       ReaderReturn, Network, NodeServes, NodeCloses, LinkBreaks, Finished, vars, callerVars
  <2>2. served \subseteq served'
    BY <1>2 DEF Next, Caller, AcquireHandle, ReservePermit, SendRefused, Enqueue, Timeout,
       ReleaseHandle, DropSlot, Writer, WriterRecv, WriterReserve, WriterPush, WriterWrite,
       WriterNoReader, WriterWriteFails, WriterSendersGone, LeaveLoop, WriterJoin, WriterDrain,
       WriterReturn, Reader, ReaderRecv, ReaderWriterGone, ReaderFails, ReaderDrain,
       ReaderReturn, Network, NodeServes, NodeCloses, LinkBreaks, Finished, vars, wireVars
  <2> QED
    BY <2>1, <2>2 DEF OwnAnswer
<1> QED
  BY <1>1, <1>2

LEMMA ReplyStep ==
    ASSUME TypeOK, ControlInv, CallInv, NoLostReply, RegisteredInv, [Next]_vars
    PROVE  NoLostReply' /\ RegisteredInv'
<1> USE ConstantsAssumption
<1>0. Range(replies) \subseteq Requests
  BY DEF TypeOK, Range
<1>1. ASSUME NEW r \in Requests, Caller(r)
      PROVE  NoLostReply' /\ RegisteredInv'
  <2>1. /\ UNCHANGED <<replies, writer, job>> /\ Range(jobs) \subseteq Range(jobs')
        /\ (Enqueue(r) => r \in Range(jobs')) /\ (~Enqueue(r) => jobs' = jobs)
    <3>1. CASE Enqueue(r)
      BY <3>1, RangeAppend DEF Enqueue, TypeOK, readerVars
    <3>2. CASE ~Enqueue(r)
      BY <1>1, <3>2 DEF Caller, AcquireHandle, ReservePermit, SendRefused, Timeout,
         ReleaseHandle, readerVars, writerVars
    <3> QED
      BY <3>1, <3>2
  <2>2. \A x \in Requests : call'[x] = "waiting" => call[x] = "waiting" \/ (x = r /\ Enqueue(r))
    <3>1. CASE ReleaseHandle(r)
      BY <3>1 DEF ReleaseHandle, writerVars, readerVars, wireVars
    <3>2. CASE Enqueue(r)
      BY <3>2 DEF Enqueue, TypeOK
    <3>3. CASE AcquireHandle(r) \/ ReservePermit(r)
      BY <3>3 DEF AcquireHandle, ReservePermit, TypeOK
    <3>4. CASE SendRefused(r) \/ Timeout(r)
      BY <3>4 DEF SendRefused, Timeout, TypeOK
    <3> QED
      BY <1>1, <3>1, <3>2, <3>3, <3>4 DEF Caller
  <2>3. CASE writer = "write"
    <3>1. job \in Requests
      BY <2>3 DEF TypeOK, ControlInv
    <3>2. call'[job] = "waiting" => call[job] = "waiting" \/ (job = r /\ Enqueue(r))
      BY <2>2, <3>1
    <3>3. ~(job = r /\ Enqueue(r))
      BY <2>3, <3>1 DEF Enqueue, CallInv
    <3> QED
      BY <2>1, <2>2, <3>2, <3>3 DEF NoLostReply, RegisteredInv
  <2>4. CASE writer # "write"
    BY <2>1, <2>2, <2>4 DEF NoLostReply, RegisteredInv
  <2> QED
    BY <2>3, <2>4
<1>2. ASSUME DropSlot \/ Finished \/ Network \/ UNCHANGED vars
             \/ WriterReserve \/ WriterJoin \/ WriterReturn
             \/ ReaderRecv \/ ReaderWriterGone \/ ReaderReturn
      PROVE  NoLostReply' /\ RegisteredInv'
  <2>1. /\ UNCHANGED <<call, jobs, replies, job>>
        /\ writer' = "write" <=> writer = "write"
    BY <1>2 DEF DropSlot, Finished, Network, NodeServes, NodeCloses, LinkBreaks, WriterReserve,
       WriterJoin, WriterReturn, ReaderRecv, ReaderWriterGone, ReaderReturn, vars, callerVars,
       writerVars, readerVars
  <2> QED
    BY <2>1 DEF NoLostReply, RegisteredInv
<1>3. CASE WriterRecv
  <2>1. /\ Range(jobs) = {job'} \cup Range(jobs') /\ job = None
        /\ UNCHANGED <<call, replies>> /\ writer' # "write"
    BY <1>3, RangeTail DEF WriterRecv, TypeOK, ControlInv, callerVars, readerVars
  <2> QED
    BY <2>1 DEF NoLostReply, RegisteredInv
<1>4. CASE WriterPush
  <2>1. job \in Requests
    BY <1>4 DEF WriterPush, TypeOK, ControlInv
  <2>2. Range(replies') = Range(replies) \cup {job} /\ UNCHANGED <<call, jobs, job>>
    BY <1>4, <2>1, RangeAppend DEF WriterPush, TypeOK, callerVars
  <2> QED
    BY <2>2 DEF NoLostReply, RegisteredInv
<1>5. CASE WriterWrite
  <2>1. writer = "write" /\ writer' = "idle" /\ UNCHANGED <<call, jobs, replies>>
    BY <1>5 DEF WriterWrite, callerVars, readerVars
  <2> QED
    BY <2>1 DEF NoLostReply, RegisteredInv
<1>6. ASSUME NEW U, LeaveLoop(U),
             job \in Requests /\ call[job] = "waiting" => job \in U \cup Range(replies)
      PROVE  NoLostReply' /\ RegisteredInv'
  <2>1. /\ writer' # "write" /\ jobs' = jobs
        /\ replies' = IF reader = "done" THEN <<>> ELSE replies
    BY <1>6 DEF LeaveLoop
  <2>2. \A x \in Requests : call'[x] = "waiting" =>
           /\ call[x] = "waiting" /\ x \notin U
           /\ reader = "done" => x \notin Range(replies)
    BY <1>6 DEF LeaveLoop, Undeliverable
  <2> QED
    BY <1>6, <2>1, <2>2 DEF NoLostReply, RegisteredInv
<1>7. CASE WriterNoReader \/ WriterWriteFails \/ WriterSendersGone
  <2>1. CASE WriterNoReader
    <3>1. LeaveLoop({job})
      BY <2>1 DEF WriterNoReader
    <3> QED
      BY <1>6, <3>1
  <2>2. CASE WriterWriteFails
    <3>1. LeaveLoop({}) /\ (call[job] = "waiting" => job \in Range(replies))
      BY <2>2 DEF WriterWriteFails, RegisteredInv
    <3> QED
      BY <1>6, <3>1
  <2>3. CASE WriterSendersGone
    <3>1. LeaveLoop({}) /\ job = None
      BY <2>3 DEF WriterSendersGone, ControlInv
    <3> QED
      BY <1>6, <3>1
  <2> QED
    BY <1>7, <2>1, <2>2, <2>3
<1>8. CASE WriterDrain
  <2>1. /\ Range(jobs) = {Head(jobs)} \cup Range(jobs') /\ writer' # "write"
        /\ UNCHANGED <<replies, job>>
    BY <1>8, RangeTail DEF WriterDrain, TypeOK, readerVars
  <2>2. \A x \in Requests : call'[x] = "waiting" => call[x] = "waiting" /\ x # Head(jobs)
    BY <1>8 DEF WriterDrain, Settle
  <2> QED
    BY <2>1, <2>2 DEF NoLostReply, RegisteredInv
<1>9. CASE ReaderGotFrame \/ ReaderFails \/ ReaderDrain
  <2>1. /\ replies # <<>> /\ replies' = Tail(replies) /\ UNCHANGED <<jobs, job, writer>>
        /\ \E o \in {"ok", "lost"} : Settle({Head(replies)}, o)
    BY <1>9 DEF ReaderGotFrame, ReaderFails, ReaderDrain, ControlInv, writerVars
  <2>2. Range(replies) = {Head(replies)} \cup Range(replies')
    BY <2>1, RangeTail DEF TypeOK
  <2>3. \A x \in Requests : call'[x] = "waiting" => call[x] = "waiting" /\ x # Head(replies)
    BY <2>1 DEF Settle
  <2>4. writer = "write" => job \in Requests
    BY DEF TypeOK, ControlInv
  <2> QED
    BY <2>1, <2>2, <2>3, <2>4 DEF NoLostReply, RegisteredInv
<1> QED
  BY <1>1, <1>2, <1>3, <1>4, <1>5, <1>7, <1>8, <1>9 DEF Next, Writer, Reader
-----------------------------------------------------------------------------
(* The invariant holds, and what follows from it.                          *)

LEMMA InitInv == Init => IInv
<1> SUFFICES ASSUME Init PROVE IInv
  OBVIOUS
<1> USE ConstantsAssumption
<1>1. TypeOK /\ ControlInv
  BY TypeInit DEF Init, ControlInv
<1>2. Range(<<>>) = {} /\ IsInjective(<<>>)
  BY DEF Range, IsInjective
<1>3. OnePlace /\ CallInv
  BY <1>2 DEF Init, OnePlace, CallInv
<1>4. Alignment
  <2>1. Wire = <<>> \o <<>> \o <<>>
    BY DEF Init, Wire
  <2>2. SubSeq(replies, 1, 0) = <<>> /\ Len(replies) = 0
    BY DEF Init
  <2> QED
    BY <2>1, <2>2 DEF Init, Alignment
<1>5. OwnAnswer /\ NoLostReply /\ RegisteredInv
  BY DEF Init, OwnAnswer, NoLostReply, RegisteredInv
<1>6. CapacityInv /\ InFlightBound /\ AtMostOneStranded
  BY DEF Init, CapacityInv, Queued, InFlightBound, InFlight, AtMostOneStranded
<1> QED
  BY <1>1, <1>3, <1>4, <1>5, <1>6 DEF IInv

LEMMA StepInv == IInv /\ [Next]_vars => IInv'
<1> SUFFICES ASSUME IInv, [Next]_vars PROVE IInv'
  OBVIOUS
<1> USE DEF IInv
<1>1. TypeOK' /\ ControlInv'
  BY TypeStep
<1>2. OnePlace' /\ CallInv'
  BY PlaceStep
<1>3. Alignment'
  BY <1>1, AlignmentStep
<1>4. OwnAnswer'
  BY AnswerStep
<1>5. CapacityInv' /\ AtMostOneStranded'
  BY <1>1, CapacityStep
<1>6. InFlightBound'
  BY <1>1, <1>3, <1>5, InFlightStep
<1>7. NoLostReply' /\ RegisteredInv'
  BY ReplyStep
<1> QED
  BY <1>1, <1>2, <1>3, <1>4, <1>5, <1>6, <1>7

THEOREM Invariance == Spec => []IInv
  BY InitInv, StepInv, PTL DEF Spec

(* Every variable keeps its type.                                          *)
THEOREM TypeCorrect == Spec => []TypeOK
<1>1. IInv => TypeOK
  BY DEF IInv
<1> QED
  BY <1>1, Invariance, PTL

(* Every answer given to a caller is the one to its own request, which the *)
(* node has served, however many callers timed out before it.              *)
THEOREM AnswersAreOwn == Spec => []OwnAnswer
<1>1. IInv => OwnAnswer
  BY DEF IInv
<1> QED
  BY <1>1, Invariance, PTL

(* The reply senders stay aligned with the frames on the wire.             *)
THEOREM SendersAreAligned == Spec => []Alignment
<1>1. IInv => Alignment
  BY DEF IInv
<1> QED
  BY <1>1, Invariance, PTL

(* A request whose caller was told "closed" or "connection lost" before it *)
(* was written is at none of the places from which it could be served.     *)
THEOREM RejectedIsNotServed == Spec => []RejectedNeverServed
<1>1. IInv => RejectedNeverServed
  BY ConstantsAssumption DEF IInv, CallInv, RejectedNeverServed
<1> QED
  BY <1>1, Invariance, PTL

(* A waiting caller's reply sender is always in somebody's hands.          *)
THEOREM RepliesAreKept == Spec => []NoLostReply
<1>1. IInv => NoLostReply
  BY DEF IInv
<1> QED
  BY <1>1, Invariance, PTL

(* A request is at one place only, and at none once it has been served.    *)
THEOREM RequestsAreAtOnePlace == Spec => []OnePlace
<1>1. IInv => OnePlace
  BY DEF IInv
<1> QED
  BY <1>1, Invariance, PTL

(* At most Depth + 1 requests are in flight while the reader reads.        *)
THEOREM InFlightIsBounded == Spec => []InFlightBound
<1>1. IInv => InFlightBound
  BY DEF IInv
<1> QED
  BY <1>1, Invariance, PTL

(* At most one reply sender is stranded behind a reader that has ended.    *)
THEOREM StrandedIsBounded == Spec => []AtMostOneStranded
<1>1. IInv => AtMostOneStranded
  BY DEF IInv
<1> QED
  BY <1>1, Invariance, PTL
-----------------------------------------------------------------------------
(* The pipeline implements the channel of module RequestChannel.           *)

LEMMA FailRefines ==
    ASSUME TypeOK, TypeOK', UNCHANGED <<answer, served>>,
           NEW rejected, rejected \cap served = {},
           \A r \in Requests :
              \/ call'[r] = call[r]
              \/ /\ call[r] \in {"sending", "waiting"}
                 /\ \/ call'[r] \in {"timedout", "lost"}
                    \/ call'[r] \in {"closed", "unsent"} /\ r \in rejected
    PROVE  Channel!Next
<1> DEFINE S == {r \in Requests : call'[r] # call[r]}
           lost == {r \in S : call'[r] \in {"timedout", "lost"}}
<1>1. \A r \in S : phase[r] = "pending"
  BY DEF phase, Phase
<1>2. \A r \in S \ lost : r \notin served
  OBVIOUS
<1>3. \A r \in Requests : Phase(r)' = IF r \in lost THEN "failed"
                                      ELSE IF r \in S THEN "rejected"
                                      ELSE phase[r]
  <2> SUFFICES ASSUME NEW r \in Requests
               PROVE  Phase(r)' = IF r \in lost THEN "failed"
                                  ELSE IF r \in S THEN "rejected"
                                  ELSE phase[r]
    OBVIOUS
  <2>1. CASE r \in lost
    BY <2>1 DEF Phase
  <2>2. CASE r \in S \ lost
    BY <2>2 DEF Phase
  <2>3. CASE r \notin S
    BY <2>3 DEF Phase, phase
  <2> QED
    BY <2>1, <2>2, <2>3
<1>4. phase' = [r \in Requests |-> IF r \in lost THEN "failed"
                                   ELSE IF r \in S THEN "rejected"
                                   ELSE phase[r]]
  BY <1>3 DEF phase
<1>5. S \in SUBSET Requests /\ lost \in SUBSET S
  OBVIOUS
<1> HIDE DEF S, lost
<1>6. Channel!Fail(S)
  BY <1>1, <1>2, <1>4, <1>5 DEF Channel!Fail
<1> QED
  BY <1>5, <1>6 DEF Channel!Next

LEMMA StutterRefines ==
    ASSUME UNCHANGED <<answer, served>>,
           \A r \in Requests : Phase(r)' = Phase(r)
    PROVE  UNCHANGED Channel!vars
  BY DEF Channel!vars, phase

LEMMA RefinementStep == IInv /\ IInv' /\ [Next]_vars => [Channel!Next]_Channel!vars
<1> SUFFICES ASSUME IInv, IInv', [Next]_vars
             PROVE  Channel!Next \/ UNCHANGED Channel!vars
  OBVIOUS
<1> USE ConstantsAssumption
<1>0. TypeOK /\ TypeOK' /\ ControlInv /\ OnePlace /\ CallInv /\ Alignment
  BY DEF IInv
<1>1. ASSUME NEW r \in Requests, Caller(r)
      PROVE  Channel!Next \/ UNCHANGED Channel!vars
  <2>0. UNCHANGED <<answer, served>>
    BY <1>1 DEF Caller, AcquireHandle, ReservePermit, SendRefused, Enqueue, Timeout,
       ReleaseHandle, wireVars
  <2>1. CASE AcquireHandle(r)
    <3>1. \A x \in Requests : Phase(x)' = IF x = r THEN "pending" ELSE phase[x]
      BY <1>0, <2>1 DEF AcquireHandle, Phase, phase, TypeOK
    <3>2. phase' = [phase EXCEPT ![r] = "pending"]
      BY <3>1 DEF phase
    <3>3. phase[r] = "new"
      BY <2>1 DEF AcquireHandle, Phase, phase
    <3> QED
      BY <2>0, <3>2, <3>3 DEF Channel!Next, Channel!Submit
  <2>2. CASE ReservePermit(r) \/ Enqueue(r) \/ ReleaseHandle(r)
    <3>1. \A x \in Requests : Phase(x)' = Phase(x)
      BY <1>0, <2>2 DEF ReservePermit, Enqueue, ReleaseHandle, Phase, TypeOK, writerVars,
         readerVars, wireVars
    <3> QED
      BY <2>0, <3>1, StutterRefines
  <2>3. CASE SendRefused(r)
    <3>1. r \notin served
      BY <1>0, <2>3 DEF SendRefused, CallInv
    <3>2. \A x \in Requests : call'[x] = IF x = r THEN "closed" ELSE call[x]
      BY <1>0, <2>3 DEF SendRefused, TypeOK
    <3>3. call[r] = "sending"
      BY <2>3 DEF SendRefused
    <3>4. {r} \cap served = {}
      BY <3>1
    <3> QED
      BY <1>0, <2>0, <3>2, <3>3, <3>4, FailRefines
  <2>4. CASE Timeout(r)
    <3>1. \A x \in Requests : call'[x] = IF x = r THEN "timedout" ELSE call[x]
      BY <1>0, <2>4 DEF Timeout, TypeOK
    <3>2. call[r] = "waiting" /\ {} \cap served = {}
      BY <2>4 DEF Timeout
    <3> QED
      BY <1>0, <2>0, <3>1, <3>2, FailRefines
  <2> QED
    BY <1>1, <2>1, <2>2, <2>3, <2>4 DEF Caller
<1>2. ASSUME \/ DropSlot \/ Finished \/ NodeCloses \/ LinkBreaks \/ UNCHANGED vars
             \/ WriterRecv \/ WriterReserve \/ WriterPush \/ WriterWrite \/ WriterJoin
             \/ WriterReturn \/ ReaderRecv \/ ReaderWriterGone \/ ReaderReturn
      PROVE  UNCHANGED Channel!vars
  <2>1. UNCHANGED <<call, answer, served>>
    BY <1>2 DEF DropSlot, Finished, NodeCloses, LinkBreaks, WriterRecv, WriterReserve,
       WriterPush, WriterWrite, WriterJoin, WriterReturn, ReaderRecv, ReaderWriterGone,
       ReaderReturn, vars, callerVars, wireVars
  <2>2. \A r \in Requests : Phase(r)' = Phase(r)
    BY <2>1 DEF Phase
  <2> QED
    BY <2>1, <2>2, StutterRefines
<1>3. ASSUME NEW U, LeaveLoop(U), U \cap served = {}
      PROVE  Channel!Next
  <2>1. UNCHANGED <<answer, served>>
    BY <1>3 DEF LeaveLoop, wireVars
  <2>2. \A r \in Requests :
           \/ call'[r] = call[r]
           \/ call[r] = "waiting" /\ call'[r] = "lost"
           \/ call[r] = "waiting" /\ call'[r] = "unsent" /\ r \in U
    BY <1>3 DEF LeaveLoop
  <2> QED
    BY <1>0, <1>3, <2>1, <2>2, FailRefines
<1>4. CASE WriterNoReader \/ WriterWriteFails \/ WriterSendersGone
  <2>1. {job} \cap served = {}
    BY <1>0 DEF OnePlace
  <2> QED
    BY <1>3, <1>4, <2>1 DEF WriterNoReader, WriterWriteFails, WriterSendersGone
<1>5. CASE WriterDrain
  <2>1. {Head(jobs)} \cap served = {}
    BY <1>0, <1>5, RangeTail DEF WriterDrain, OnePlace, TypeOK
  <2>2. /\ UNCHANGED <<answer, served>>
        /\ \A r \in Requests :
              \/ call'[r] = call[r]
              \/ call[r] = "waiting" /\ call'[r] = "unsent" /\ r \in {Head(jobs)}
    BY <1>5 DEF WriterDrain, Settle, wireVars
  <2> QED
    BY <1>0, <2>1, <2>2, FailRefines
<1>6. CASE ReaderFails \/ ReaderDrain
  <2>1. /\ UNCHANGED <<answer, served>>
        /\ \A r \in Requests :
              call'[r] = call[r] \/ (call[r] = "waiting" /\ call'[r] = "lost")
    BY <1>6 DEF ReaderFails, ReaderDrain, Settle, wireVars
  <2>2. {} \cap served = {}
    OBVIOUS
  <2> QED
    BY <1>0, <2>1, <2>2, FailRefines
<1>7. CASE ReaderGotFrame
  <2> DEFINE h == Head(replies)
  <2>1. h = Head(toClient) /\ h \in Requests /\ h \in served /\ served' = served
    BY <1>0, <1>7, FirstFrame, RangeTail DEF ReaderGotFrame, ControlInv, TypeOK, CallInv
  <2>2. /\ \A r \in Requests :
              call'[r] = IF r = h /\ call[r] = "waiting" THEN "ok" ELSE call[r]
        /\ answer' = IF call[h] = "waiting" THEN [answer EXCEPT ![h] = h] ELSE answer
    BY <1>7, <2>1 DEF ReaderGotFrame, Settle
  <2> HIDE DEF h
  <2>3. CASE call[h] = "waiting"
    <3>1. \A r \in Requests : Phase(r)' = IF r = h THEN "ok" ELSE phase[r]
      BY <2>2, <2>3 DEF Phase, phase
    <3>2. phase' = [phase EXCEPT ![h] = "ok"] /\ phase[h] = "pending"
      BY <2>1, <2>3, <3>1 DEF Phase, phase
    <3> QED
      BY <2>1, <2>2, <2>3, <3>2 DEF Channel!Next, Channel!Succeed
  <2>4. CASE call[h] # "waiting"
    <3>1. \A r \in Requests : Phase(r)' = Phase(r)
      BY <2>2, <2>4 DEF Phase
    <3> QED
      BY <2>1, <2>2, <2>4, <3>1, StutterRefines
  <2> QED
    BY <2>3, <2>4
<1>8. CASE NodeServes
  <2> DEFINE h == Head(toServer)
  <2>1. h \in Range(toServer) /\ h \in Requests
    BY <1>0, <1>8, RangeTail DEF NodeServes, TypeOK
  <2>2. h \notin served /\ call[h] \in {"waiting", "timedout", "lost"}
    BY <1>0, <2>1 DEF OnePlace, CallInv
  <2>3. UNCHANGED <<call, answer>> /\ served' = served \cup {h}
    BY <1>8 DEF NodeServes, callerVars
  <2> HIDE DEF h
  <2>4. phase[h] \in {"pending", "failed"}
    BY <2>1, <2>2 DEF Phase, phase
  <2>5. phase' = phase
    BY <2>3 DEF Phase, phase
  <2> QED
    BY <2>1, <2>2, <2>3, <2>4, <2>5 DEF Channel!Next, Channel!Serve
<1> QED
  BY <1>1, <1>2, <1>4, <1>5, <1>6, <1>7, <1>8 DEF Next, Writer, Reader, Network

(* Whatever happens to the connection and to the callers, the pipeline is  *)
(* a channel that serves a request at most once, gives every caller its    *)
(* own answer and never serves what it has rejected.                       *)
THEOREM PipelineImplementsChannel == Spec => ChannelSpec
<1>1. Init => Channel!Init
  <2> SUFFICES ASSUME Init PROVE Channel!Init
    OBVIOUS
  <2>1. \A r \in Requests : Phase(r) = "new"
    BY DEF Init, Phase
  <2> QED
    BY <2>1 DEF Init, Channel!Init, phase
<1> QED
  BY <1>1, Invariance, RefinementStep, PTL DEF Spec, ChannelSpec, Channel!Spec
=============================================================================
