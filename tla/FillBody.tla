------------------------------ MODULE FillBody ------------------------------
(***************************************************************************)
(* The body of one cache fill on its way from the upstream to the cache    *)
(* file and to the requests of the same process that share the fill: the   *)
(* downstream body that copies its frames into a bounded queue, the writer *)
(* task that empties the queue into the temporary file, and the readers    *)
(* that follow the file while it grows.                                    *)
(*                                                                         *)
(* Bytes are counted in units; trailers and headers are left out.  A       *)
(* tokio File takes a write before it has reached the file: the next write *)
(* and the flush wait for it and report its error.                         *)
(***************************************************************************)
EXTENDS Naturals, Sequences, FiniteSets, FiniteSetsExt

CONSTANTS
    Readers,       \* requests that may share the fill
    BodyLength,    \* units the upstream sends
    EntryLimits,   \* values of max_entry_bytes
    QueueDepth     \* STREAMING_CACHE_WRITE_QUEUE_DEPTH

ASSUME FillBodyAssumption ==
    /\ BodyLength \in Nat
    /\ EntryLimits \subseteq Nat
    /\ QueueDepth \in Nat \ {0}

VARIABLES
    plan,      \* StreamingCachePlan: limit, whether the length is known
    source,    \* who reads the upstream's body: pc, units left and copied, tx
    queue,     \* the channel to the writer
    writer,    \* pc, units taken and units in the file, a write that failed
    inflight,  \* CacheFillReadState
    file,      \* "temporary", "committed" or "removed"
    reader     \* per reader: pc, units delivered and announced, woken

fillBodyVars == <<plan, source, queue, writer, inflight, file, reader>>

SourcePcs == {"body", "origin", "drain", "finish", "over"}
WriterPcs == {"recv", "finalize", "drop", "gone"}
WaitingPcs == {"await", "await_read"}
ReaderPcs == {"idle", "open", "top", "read", "eof", "arm", "error", "finished",
              "ended", "failed", "left"} \cup WaitingPcs
Units == 0 .. BodyLength

\* The downstream body copies what its client reads; for a trimmed range the
\* upstream's body is driven by a task of its own.
FillBodyInit ==
    /\ plan \in [limit : EntryLimits, sized : BOOLEAN]
    /\ \E pc \in {"body", "origin"} :
         source = [pc |-> pc, left |-> BodyLength, copied |-> 0, tx |-> TRUE, clean |-> FALSE]
    /\ queue = <<>>
    /\ writer = [pc |-> "recv", taken |-> 0, disk |-> 0, broken |-> FALSE]
    /\ inflight = [bytes |-> 0, finished |-> FALSE, error |-> FALSE, upstream |-> FALSE]
    /\ file = "temporary"
    /\ reader = [r \in Readers |-> [pc |-> "idle", pos |-> 0, available |-> 0, woken |-> FALSE]]
-----------------------------------------------------------------------------
(* CacheFillReadState.                                                     *)

\* notify_waiters reaches every Notified future that exists.
Notify(rs) == [r \in Readers |-> [rs[r] EXCEPT !.woken = TRUE]]

FailState ==
    /\ inflight' = [inflight EXCEPT !.error = TRUE]
    /\ reader' = Notify(reader)

UpstreamCompleted ==
    /\ inflight' = [inflight EXCEPT !.upstream = TRUE]
    /\ reader' = Notify(reader)

StateUnchanged == UNCHANGED <<inflight, reader>>
-----------------------------------------------------------------------------
(* StreamingCacheWriter and the tasks that feed it.                        *)

\* Mutant: one message too many.
RoomForOneMore == writer.pc # "gone" /\ Len(queue) <= QueueDepth

Room == writer.pc # "gone" /\ Len(queue) < QueueDepth
Closed == writer.pc = "gone"

\* abort: the readers are told, the writer too if there is room.
Abort ==
    /\ FailState
    /\ queue' = IF Room THEN Append(queue, "abort") ELSE queue

\* finish_cache: without room a task of its own sends the end.
FinishCache(copied) ==
    IF Room
    THEN /\ queue' = Append(queue, "finish")
         /\ UpstreamCompleted
         /\ source' = [source EXCEPT !.pc = "over", !.left = 0, !.copied = copied,
                                     !.tx = FALSE, !.clean = TRUE]
    ELSE /\ source' = [source EXCEPT !.pc = "finish", !.left = 0, !.copied = copied,
                                     !.clean = TRUE]
         /\ UNCHANGED queue /\ StateUnchanged

Fits(limit) == source.copied + 1 <= limit

\* Mutant: a frame that finds the queue full is left out of the cache.
CopyOrSkipFrame ==
    IF ~Fits(plan.limit)
    THEN Abort /\ source' = [source EXCEPT !.left = @ - 1, !.tx = FALSE]
    ELSE /\ queue' = IF Room THEN Append(queue, "data") ELSE queue
         /\ source' = [source EXCEPT !.left = @ - 1, !.copied = @ + 1]
         /\ StateUnchanged

\* poll_frame with a data frame: cache_frame_data copies it, or gives the
\* cache up.
CopyFrame ==
    IF Fits(plan.limit) /\ Room
    THEN /\ queue' = Append(queue, "data")
         /\ source' = [source EXCEPT !.left = @ - 1, !.copied = @ + 1]
         /\ StateUnchanged
    ELSE Abort /\ source' = [source EXCEPT !.left = @ - 1, !.tx = FALSE]

BodyFrame ==
    /\ source.pc = "body" /\ source.left > 0
    /\ IF source.tx
       THEN CopyFrame
       ELSE /\ source' = [source EXCEPT !.left = @ - 1]
            /\ UNCHANGED queue /\ StateUnchanged
    /\ UNCHANGED <<plan, writer, file>>

\* The end of the body, seen with the last frame or after it.
BodyEnd ==
    /\ source.pc = "body" /\ source.left = 0
    /\ IF source.tx
       THEN FinishCache(source.copied)
       ELSE /\ source' = [source EXCEPT !.pc = "over", !.clean = TRUE]
            /\ UNCHANGED queue /\ StateUnchanged
    /\ UNCHANGED <<plan, writer, file>>

\* The upstream's body fails.
BodyError ==
    /\ source.pc = "body"
    /\ source' = [source EXCEPT !.pc = "over", !.tx = FALSE]
    /\ IF source.tx THEN Abort ELSE UNCHANGED queue /\ StateUnchanged
    /\ UNCHANGED <<plan, writer, file>>

\* The client leaves: a task drains the rest of the body into the cache.
BodyDropped ==
    /\ source.pc = "body"
    /\ source' = [source EXCEPT !.pc = IF source.tx THEN "drain" ELSE "over"]
    /\ UNCHANGED <<plan, queue, writer, file>> /\ StateUnchanged

\* drive_streaming_origin_fill and drain_remaining_frames wait for room; the
\* second stops at the limit.
DriveFrame ==
    /\ source.pc \in {"origin", "drain"} /\ source.left > 0
    /\ LET over == source.pc = "drain" /\ ~Fits(plan.limit)
       IN  \/ /\ ~over /\ Room
              /\ queue' = Append(queue, "data")
              /\ source' = [source EXCEPT !.left = @ - 1, !.copied = @ + 1]
              /\ StateUnchanged
           \/ /\ over \/ Closed
              /\ source' = [source EXCEPT !.pc = "over", !.tx = FALSE]
              /\ IF source.pc = "origin" THEN FailState ELSE StateUnchanged
              /\ UNCHANGED queue
    /\ UNCHANGED <<plan, writer, file>>

DriveError ==
    /\ source.pc \in {"origin", "drain"}
    /\ source' = [source EXCEPT !.pc = "over", !.tx = FALSE]
    /\ IF source.pc = "origin" THEN FailState ELSE StateUnchanged
    /\ UNCHANGED <<plan, queue, writer, file>>

\* StreamingCacheWriter::finish.
DriveEnd ==
    /\ source.pc \in {"origin", "drain", "finish"} /\ source.left = 0
    /\ \/ /\ Room
          /\ queue' = Append(queue, "finish")
          /\ UpstreamCompleted
       \/ /\ Closed
          /\ IF source.pc = "origin" THEN FailState ELSE StateUnchanged
          /\ UNCHANGED queue
    /\ source' = [source EXCEPT !.pc = "over", !.tx = FALSE, !.clean = TRUE]
    /\ UNCHANGED <<plan, writer, file>>

SourceStep ==
    \/ BodyFrame \/ BodyEnd \/ BodyError \/ BodyDropped
    \/ DriveFrame \/ DriveError \/ DriveEnd
-----------------------------------------------------------------------------
(* complete_streaming_cache and finalize_streaming_cache.                  *)

Receive(message) ==
    /\ writer.pc = "recv"
    /\ queue # <<>> /\ Head(queue) = message
    /\ queue' = Tail(queue)

Landed == writer.disk = writer.taken

\* A write reaches the file, or does not.
Land ==
    /\ ~Landed /\ ~writer.broken
    /\ \/ writer' = [writer EXCEPT !.disk = writer.taken]
       \/ writer' = [writer EXCEPT !.broken = TRUE]
    /\ UNCHANGED <<plan, source, queue, inflight, file, reader>>

\* The writer gives the file up, and tells the readers why.
GiveUp ==
    /\ FailState
    /\ file' = "removed"
    /\ writer' = [writer EXCEPT !.pc = "drop"]

WriteData ==
    /\ Receive("data")
    /\ \/ /\ writer.broken
          /\ GiveUp
       \/ /\ Landed
          /\ writer' = [writer EXCEPT !.taken = @ + 1]
          /\ inflight' = [inflight EXCEPT !.bytes = writer.taken + 1]
          /\ reader' = Notify(reader)
          /\ UNCHANGED file
    /\ UNCHANGED <<plan, source>>

WriteFinish ==
    /\ Receive("finish")
    /\ \/ /\ writer.broken
          /\ GiveUp
       \/ /\ Landed
          /\ writer' = [writer EXCEPT !.pc = "finalize"]
          /\ inflight' = [inflight EXCEPT !.finished = TRUE]
          /\ reader' = Notify(reader)
          /\ UNCHANGED file
    /\ UNCHANGED <<plan, source>>

WriteAbort ==
    /\ Receive("abort")
    /\ Landed \/ writer.broken
    /\ file' = "removed"
    /\ writer' = [writer EXCEPT !.pc = "drop"]
    /\ UNCHANGED <<plan, source>> /\ StateUnchanged

\* Every sender is gone and no end was sent.
WriteClosed ==
    /\ writer.pc = "recv"
    /\ queue = <<>> /\ ~source.tx
    /\ GiveUp
    /\ UNCHANGED <<plan, source, queue>>

Finalize ==
    /\ writer.pc = "finalize"
    /\ writer' = [writer EXCEPT !.pc = "drop"]
    /\ IF writer.taken > plan.limit
       THEN file' = "removed" /\ StateUnchanged
       ELSE IF plan.sized /\ writer.taken # BodyLength
       THEN file' = "removed" /\ FailState
       ELSE file' \in {"committed", "removed"} /\ StateUnchanged
    /\ UNCHANGED <<plan, source, queue>>

\* The task ends: its receiver, its fill guard and the guard's last
\* notification.
DropGuard ==
    /\ writer.pc = "drop"
    /\ writer' = [writer EXCEPT !.pc = "gone"]
    /\ reader' = Notify(reader)
    /\ UNCHANGED <<plan, source, queue, inflight, file>>

WriterStep ==
    \/ WriteData \/ WriteFinish \/ WriteAbort \/ WriteClosed
    \/ Finalize \/ DropGuard
-----------------------------------------------------------------------------
(* stream_inflight_fill_body.                                              *)

SetReader(r, s) ==
    /\ reader' = [reader EXCEPT ![r] = s]
    /\ UNCHANGED <<plan, source, queue, writer, inflight, file>>

\* can_share: the lookup hands the fill to another request.
Share(r) ==
    /\ reader[r].pc = "idle"
    /\ writer.pc # "gone" /\ ~inflight.error /\ ~inflight.upstream
    /\ SetReader(r, [reader[r] EXCEPT !.pc = "open"])

Open(r) ==
    /\ reader[r].pc = "open"
    /\ SetReader(r, [reader[r] EXCEPT !.pc =
         IF file = "temporary" \/ (file = "committed" /\ inflight.finished)
         THEN "top" ELSE "failed"])

\* The Notified is created before anything is looked at.
Top(r) ==
    /\ reader[r].pc = "top"
    /\ SetReader(r, [reader[r] EXCEPT !.woken = FALSE, !.available = inflight.bytes,
         !.pc = IF inflight.bytes > reader[r].pos THEN "read" ELSE "error"])

\* One read of the file: what has landed, up to what was announced.
ReadFile(r) ==
    LET s == reader[r]
        to == Min({writer.disk, s.available})
    IN  /\ s.pc = "read"
        /\ SetReader(r, [s EXCEPT !.pos = to,
             !.pc = IF to = s.available THEN "top" ELSE IF to = s.pos THEN "eof" ELSE "read"])

ReadNothing(r) ==
    /\ reader[r].pc = "eof"
    /\ SetReader(r, [reader[r] EXCEPT !.pc = IF inflight.finished THEN "failed" ELSE "arm"])

\* Here the Notified is created after the read.
ArmRead(r) ==
    /\ reader[r].pc = "arm"
    /\ SetReader(r, [reader[r] EXCEPT !.pc = "await_read", !.woken = FALSE])

CheckError(r) ==
    /\ reader[r].pc = "error"
    /\ SetReader(r, [reader[r] EXCEPT !.pc = IF inflight.error THEN "failed" ELSE "finished"])

\* Mutant: the Notified is created here, after everything was looked at.
CheckThenRegister(r) ==
    /\ reader[r].pc = "finished"
    /\ SetReader(r, [reader[r] EXCEPT !.woken = FALSE,
         !.pc = IF inflight.finished THEN "ended" ELSE "await"])

CheckFinished(r) ==
    /\ reader[r].pc = "finished"
    /\ SetReader(r, [reader[r] EXCEPT !.pc = IF inflight.finished THEN "ended" ELSE "await"])

Wake(r) ==
    /\ reader[r].pc \in WaitingPcs /\ reader[r].woken
    /\ SetReader(r, [reader[r] EXCEPT !.pc = IF @ = "await" THEN "top" ELSE "read"])

\* The client left: the next chunk finds the channel closed.
Leave(r) ==
    /\ reader[r].pc = "top" /\ reader[r].pos > 0
    /\ SetReader(r, [reader[r] EXCEPT !.pc = "left"])

ReaderStep(r) ==
    \/ Open(r) \/ Top(r) \/ ReadFile(r) \/ ReadNothing(r) \/ ArmRead(r)
    \/ CheckError(r) \/ CheckFinished(r) \/ Wake(r)

FillBodyNext ==
    \/ SourceStep \/ WriterStep \/ Land
    \/ \E r \in Readers : Share(r) \/ Leave(r) \/ ReaderStep(r)

\* The tasks are scheduled and a write ends; the client that fills reads on or
\* leaves, and the upstream's body goes on, ends or fails.
FillBodyFairness ==
    /\ WF_fillBodyVars(SourceStep)
    /\ WF_fillBodyVars(WriterStep)
    /\ WF_fillBodyVars(Land)
    /\ \A r \in Readers : WF_fillBodyVars(ReaderStep(r))

FillBodySpec == FillBodyInit /\ [][FillBodyNext]_fillBodyVars
-----------------------------------------------------------------------------
\* The types of the state.
FillBodyTypeOK ==
    /\ plan \in [limit : EntryLimits, sized : BOOLEAN]
    /\ source \in [pc : SourcePcs, left : Units, copied : Units, tx : BOOLEAN, clean : BOOLEAN]
    /\ queue \in Seq({"data", "finish", "abort"}) /\ Len(queue) <= QueueDepth
    /\ writer \in [pc : WriterPcs, taken : Units, disk : Units, broken : BOOLEAN]
    /\ inflight \in [bytes : Units, finished : BOOLEAN, error : BOOLEAN, upstream : BOOLEAN]
    /\ file \in {"temporary", "committed", "removed"}
    /\ reader \in [Readers -> [pc : ReaderPcs, pos : Units, available : Units, woken : BOOLEAN]]

\* Only a whole body gets into the cache: a queue without room, a client
\* that leaves, an upstream that breaks off, a body over the limit and a
\* write that fails late all end without a commit.
StoredOnlyComplete ==
    file = "committed" =>
        /\ source.clean
        /\ writer.disk = BodyLength /\ BodyLength <= plan.limit

\* A reader whose body ends without an error has delivered the whole of it.
\* The reader looks at bytes_written first and at finished later.
EndedReadersAreComplete == \A r \in Readers : reader[r].pc = "ended" => reader[r].pos = BodyLength

\* A reader that waits in the outer loop is woken: its Notified was created
\* before it looked at the state, so no change after that is missed.
ReaderWakes == \A r \in Readers : reader[r].pc = "await" ~> reader[r].pc # "await"
=============================================================================
