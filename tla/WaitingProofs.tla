---------------------------- MODULE WaitingProofs ----------------------------
(***************************************************************************)
(* Proofs about the tasks that others wait for: the connect of an HTTP/3   *)
(* session, the relay of a request body, the body of a cache fill and the  *)
(* coordination of fills, for any processes, requests and readers, body    *)
(* lengths, limits, queue depths and lock ages, and any choice of failures.*)
(***************************************************************************)
EXTENDS MCWaiting, FiniteSetTheorems, TLAPS

-----------------------------------------------------------------------------
(* HTTP/3 sessions.                                                        *)

CallPcs == {"idle", "look", "register", "waiting", "connecting", "using", "failed", "served", "dropped"}

\* A request that connects has its own pending entry in the cache, so there
\* is one at most.
ConnectInv ==
    /\ call \in [Callers -> [pc : CallPcs, of : Nat, woken : BOOLEAN]]
    /\ connects \in Nat
    /\ \A c \in Callers : At(c, "connecting") => cached.kind = "pending" /\ cached.of = call[c].of
    /\ \A c, d \in Callers : At(c, "connecting") /\ At(d, "connecting") => c = d
    /\ cached.kind = "pending" => Live(cached.of) \/ cached.of \in abandoned
    /\ cached.of \in Nat

\* Waking the waiters moves nobody.
LEMMA WokenKeepsCalls ==
    ASSUME ConnectInv, NEW n
    PROVE  /\ Woken3(n) \in [Callers -> [pc : CallPcs, of : Nat, woken : BOOLEAN]]
           /\ \A c \in Callers : Woken3(n)[c].pc = call[c].pc /\ Woken3(n)[c].of = call[c].of
BY DEF ConnectInv, Woken3

\* Every step keeps it: only a request that finds neither a pending nor an
\* open session connects.
LEMMA ConnectInvNext == ConnectInv /\ [SessionsNext]_sessionVars => ConnectInv'
<1> SUFFICES ASSUME ConnectInv, [SessionsNext]_sessionVars PROVE ConnectInv'
  OBVIOUS
<1> DEFINE T == [pc : CallPcs, of : Nat, woken : BOOLEAN]
<1>1. ASSUME NEW c \in Callers, NEW t \in T, call' = [call EXCEPT ![c] = t],
             ~At(c, "connecting"), t.pc # "connecting", UNCHANGED <<cached, connects, abandoned>>
      PROVE  ConnectInv'
  BY <1>1 DEF ConnectInv, At, Live
<1>2. ASSUME NEW c \in Callers,
             Ask(c) \/ ShareSession(c) \/ FindPending(c) \/ Register(c) \/ Resume(c)
                \/ UseFails(c) \/ UseEnds(c)
      PROVE  ConnectInv'
  <2>1. /\ [call[c] EXCEPT !.pc = "look"] \in T /\ [call[c] EXCEPT !.pc = "failed"] \in T
        /\ [call[c] EXCEPT !.pc = "served"] \in T
        /\ [call[c] EXCEPT !.pc = "using", !.of = cached.of] \in T
        /\ [call[c] EXCEPT !.pc = "register", !.of = cached.of] \in T
        /\ [call[c] EXCEPT !.pc = "waiting", !.woken = FALSE] \in T
    BY DEF ConnectInv, CallPcs
  <2>2. ~At(c, "connecting") /\ UNCHANGED <<cached, connects, abandoned>>
    BY <1>2 DEF Ask, ShareSession, FindPending, Register, Resume, UseFails, UseEnds, At
  <2>3. \E t \in T : call' = [call EXCEPT ![c] = t] /\ t.pc # "connecting"
    BY <1>2, <2>1 DEF Ask, ShareSession, FindPending, Register, Resume, UseFails, UseEnds, Goto3, ConnectInv
  <2> QED
    BY <1>1, <2>2, <2>3
<1>3. ASSUME NEW c \in Callers, Connect(c) PROVE ConnectInv'
  <2>1. \A d \in Callers : ~At(d, "connecting")
    BY <1>3 DEF Connect, CanConnect, ConnectInv
  <2>2. /\ cached' = [kind |-> "pending", of |-> connects + 1] /\ connects' = connects + 1
        /\ call' = [call EXCEPT ![c] = [@ EXCEPT !.pc = "connecting", !.of = connects + 1]]
    BY <1>3 DEF Connect
  <2>3. [call[c] EXCEPT !.pc = "connecting", !.of = connects + 1] \in T
    <3>1. connects + 1 \in Nat /\ call[c] \in T
      BY DEF ConnectInv
    <3> QED
      BY <3>1 DEF CallPcs
  <2> QED
    BY <2>1, <2>2, <2>3 DEF ConnectInv, At, Live
<1>4. ASSUME NEW c \in Callers, Connected(c) \/ ConnectFails(c) PROVE ConnectInv'
  <2>1. At(c, "connecting") /\ UNCHANGED <<connects, abandoned>>
    BY <1>4 DEF Connected, ConnectFails
  <2>2. /\ cached'.kind # "pending" /\ cached'.of \in Nat
        /\ \E to \in {"using", "failed"} : call' = [Woken3(call[c].of) EXCEPT ![c].pc = to]
    BY <1>4 DEF Connected, ConnectFails, NoSession, ConnectInv
  <2>3. PICK to \in {"using", "failed"} : call' = [Woken3(call[c].of) EXCEPT ![c].pc = to]
    BY <2>2
  <2> DEFINE w == Woken3(call[c].of)
  <2>4. w \in [Callers -> T] /\ \A d \in Callers : w[d].pc = call[d].pc
    BY WokenKeepsCalls
  <2> HIDE DEF w
  <2>5. call' \in [Callers -> T] /\ call'[c].pc = to /\ \A d \in Callers : d # c => call'[d].pc = call[d].pc
    BY <2>3, <2>4 DEF w, CallPcs
  <2>6. \A d \in Callers : ~At(d, "connecting")'
    BY <2>1, <2>5 DEF ConnectInv, At
  <2> QED
    BY <2>1, <2>2, <2>5, <2>6 DEF ConnectInv
<1>5. ASSUME NEW c \in Callers, DropCall(c) PROVE ConnectInv'
  <2>1. /\ UNCHANGED <<cached, connects>>
        /\ abandoned' = IF At(c, "connecting") THEN abandoned \cup {call[c].of} ELSE abandoned
        /\ call' = [call EXCEPT ![c].pc = "dropped"]
    BY <1>5 DEF DropCall, Goto3
  <2>2. call' \in [Callers -> T] /\ \A d \in Callers : call'[d].of = call[d].of
    BY <2>1 DEF ConnectInv, CallPcs
  <2> QED
    BY <2>1, <2>2 DEF ConnectInv, At, Live
<1>6. CASE DriverCloses
  BY <1>6 DEF DriverCloses, ConnectInv, At, Live
<1>7. CASE UNCHANGED sessionVars
  BY <1>7 DEF sessionVars, ConnectInv, At, Live
<1> QED
  BY <1>2, <1>3, <1>4, <1>5, <1>6, <1>7 DEF SessionsNext, CallStep

\* A set whose elements are all equal has one at most.
LEMMA AtMostOne ==
    ASSUME NEW S, \A x, y \in S : x = y
    PROVE  Cardinality(S) <= 1
<1>1. CASE S = {}
  BY <1>1, FS_EmptySet
<1>2. CASE S # {}
  <2>1. PICK x : S = {x}
    BY <1>2
  <2> QED
    BY <2>1, FS_Singleton
<1> QED
  BY <1>1, <1>2

\* At most one request connects for a key, whatever requests are dropped and
\* whichever sessions close, and a pending entry is a connect under way or one
\* whose request was dropped (session_for, connect_session).
THEOREM OneConnectAtATime == SessionsSpec => []PendingMeansConnecting
<1>1. SessionsInit => ConnectInv
  BY DEF SessionsInit, ConnectInv, NoSession, Resting, At, CallPcs
<1>2. ConnectInv => PendingMeansConnecting
  <2> SUFFICES ASSUME ConnectInv PROVE PendingMeansConnecting
    OBVIOUS
  <2>1. Cardinality({c \in Callers : At(c, "connecting")}) <= 1
    BY AtMostOne DEF ConnectInv
  <2> QED
    BY <2>1 DEF ConnectInv, PendingMeansConnecting
<1> QED
  BY <1>1, <1>2, ConnectInvNext, PTL DEF SessionsSpec

-----------------------------------------------------------------------------
(* The relay of a request body.                                            *)

RelayTypes ==
    /\ client \in [frames : Nat, ended : {"open", "end"} \cup Failures]
    /\ relay \in [pc : {"frame", "send", "complete", "done"}, item : {"frame", "error", "trailers"}]
    /\ channel \in Seq({"frame", "error", "trailers"}) /\ Len(channel) <= Capacity
    /\ taker \in [frames : Nat, saw : {"open", "end", "error"}, dropped : BOOLEAN]

\* The frame the relay has read and not yet sent.
InHand == IF relay.pc = "send" /\ relay.item = "frame" THEN 1 ELSE 0

\* The frames in the channel.
OnTheWay == IF channel # <<>> /\ channel[1] = "frame" THEN 1 ELSE 0

\* The relay reads while the client's body is open, carries an error exactly
\* when the body failed, and reports how it ended; while the upstream's client
\* still polls, what it took, what the channel holds and what the relay has in
\* hand are the frames read, and an error is before it if the body failed.
RelayInv ==
    /\ RelayTypes
    /\ client.ended = "open" <=> relay.pc = "frame" \/ (relay.pc = "send" /\ relay.item = "frame")
    /\ client.ended \in Failures <=> relay.item = "error"
    /\ relay.item = "trailers" => client.ended = "end"
    /\ client.ended # "limit" => client.frames <= BodyLimit
    /\ channel # <<>> /\ channel[1] = "error" => client.ended \in Failures /\ relay.pc # "send"
    /\ channel # <<>> /\ channel[1] = "trailers" => client.ended = "end" /\ relay.pc # "send"
    /\ Polls /\ client.ended \notin Failures => taker.frames + OnTheWay + InHand = client.frames
    /\ Polls /\ client.ended \in Failures /\ relay.pc # "send" => channel # <<>> /\ channel[1] = "error"
    /\ NoTruncatedBody
    /\ completion # "none" => completion = client.ended /\ relay.pc = "done"
    /\ handler = "passed" => client.ended = "end"

\* The steps of the relay task.
LEMMA RelayInvRelay == RelayInv /\ RelayStep => RelayInv'
<1> SUFFICES ASSUME RelayInv, RelayStep PROVE RelayInv'
  OBVIOUS
<1> USE BodyRelayAssumption DEF RelayInv, RelayTypes, InHand, OnTheWay, Polls, NoTruncatedBody, Failures, Capacity
<1>1. CASE ClientFrame
  BY <1>1 DEF ClientFrame, RelayUnchanged
<1>2. CASE ClientFails
  BY <1>2 DEF ClientFails, RelayUnchanged
<1>3. CASE ClientEnds \/ ClientTrailers
  BY <1>3 DEF ClientEnds, ClientTrailers, RelayUnchanged
<1>4. CASE RelaySend
  BY <1>4 DEF RelaySend, AfterSend
<1>5. CASE RelayCompletes
  BY <1>5 DEF RelayCompletes
<1> QED
  BY <1>1, <1>2, <1>3, <1>4, <1>5 DEF RelayStep

\* The upstream's client gives the body up: nothing is polled any more.
LEMMA RelayInvDropped ==
    ASSUME RelayInv, taker' = [taker EXCEPT !.dropped = TRUE], channel' = <<>>,
           UNCHANGED <<client, relay, completion>>, handler' = "passed" => client.ended = "end"
    PROVE  RelayInv'
<1>1. taker'.frames = taker.frames /\ taker'.saw = taker.saw /\ taker'.dropped = TRUE
  BY DEF RelayInv, RelayTypes
<1>2. taker' \in [frames : Nat, saw : {"open", "end", "error"}, dropped : BOOLEAN]
  BY Zenon DEF RelayInv, RelayTypes
<1>3. channel' \in Seq({"frame", "error", "trailers"}) /\ Len(channel') <= Capacity
  BY DEF Capacity
<1>4. RelayTypes'
  BY <1>2, <1>3 DEF RelayInv, RelayTypes
<1>5. ~Polls' /\ NoTruncatedBody'
  BY <1>1 DEF Polls, RelayInv, NoTruncatedBody
<1> QED
  BY <1>4, <1>5 DEF RelayInv

\* The steps of the upstream's client.
LEMMA RelayInvTaker == RelayInv /\ TakerStep => RelayInv'
<1> SUFFICES ASSUME RelayInv, TakerStep PROVE RelayInv'
  OBVIOUS
<1>1. CASE TakeFrame
  BY <1>1 DEF TakeFrame, RelayInv, RelayTypes, InHand, OnTheWay, Polls, NoTruncatedBody, Failures, Capacity
<1>2. CASE TakeEnd
  BY <1>2 DEF TakeEnd, RelayInv, RelayTypes, InHand, OnTheWay, Polls, NoTruncatedBody, Failures, Capacity
<1>3. CASE TakerDrops
  <2>1. handler' = "passed" => client.ended = "end"
    BY <1>3 DEF TakerDrops, RelayInv
  <2> QED
    BY <1>3, <2>1, RelayInvDropped DEF TakerDrops
<1> QED
  BY <1>1, <1>2, <1>3 DEF TakerStep

\* The steps of the handler.
LEMMA RelayInvHandler == RelayInv /\ HandlerStep => RelayInv'
<1> SUFFICES ASSUME RelayInv, HandlerStep PROVE RelayInv'
  OBVIOUS
<1>1. CASE UpstreamAnswers
  BY <1>1 DEF UpstreamAnswers, RelayInv, RelayTypes, InHand, OnTheWay, Polls, NoTruncatedBody
<1>2. CASE HandlerGetsAnswer
  <2>1. handler' = "passed" => client.ended = "end"
    BY <1>2 DEF HandlerGetsAnswer, Status, RelayInv, NoTruncatedBody, Failures
  <2>2. CASE answer = "failed"
    BY <1>2, <2>1, <2>2, RelayInvDropped DEF HandlerGetsAnswer
  <2>3. CASE answer # "failed"
    BY <1>2, <2>1, <2>3 DEF HandlerGetsAnswer, RelayInv, RelayTypes, InHand, OnTheWay, Polls, NoTruncatedBody
  <2> QED
    BY <2>2, <2>3
<1>3. CASE RequestTimesOut
  BY <1>3, RelayInvDropped DEF RequestTimesOut
<1>4. CASE FinalizeBody
  BY <1>4 DEF FinalizeBody, Status, RelayInv, RelayTypes, InHand, OnTheWay, Polls, NoTruncatedBody
<1> QED
  BY <1>1, <1>2, <1>3, <1>4 DEF HandlerStep

LEMMA RelayInvNext == RelayInv /\ [RelayNext]_relayVars => RelayInv'
<1> SUFFICES ASSUME RelayInv, UNCHANGED relayVars PROVE RelayInv'
  BY RelayInvRelay, RelayInvTaker, RelayInvHandler DEF RelayNext
<1> QED
  BY DEF relayVars, RelayInv, RelayTypes, InHand, OnTheWay, Polls, NoTruncatedBody

LEMMA RelayInvInit == RelayInit => RelayInv
BY BodyRelayAssumption DEF RelayInit, RelayInv, RelayTypes, InHand, OnTheWay, Polls, NoTruncatedBody, Failures, Capacity

\* The upstream takes a request body for complete only when the client ended
\* it and every frame arrived, and the client gets the upstream's answer only
\* for a body within the limit, for any limit and any order of the relay, the
\* upstream's connection and the handler.
THEOREM RelayedBodiesWhole == RelaySpec => [](NoTruncatedBody /\ NoAnswerOverLimit)
<1>1. RelayInv => NoTruncatedBody /\ NoAnswerOverLimit
  BY DEF RelayInv, NoAnswerOverLimit
<1> QED
  BY <1>1, RelayInvInit, RelayInvNext, PTL DEF RelaySpec

-----------------------------------------------------------------------------
(* The body of a cache fill.                                               *)

Messages == {"data", "finish", "abort"}

\* The data messages of a queue: only its last message can be another.
DataIn(q) == IF q = <<>> \/ q[Len(q)] = "data" THEN Len(q) ELSE Len(q) - 1

\* What the feeding side has done: as long as it holds its sender, every
\* unit it took from the upstream is one it copied.
SourceInv ==
    /\ source.tx => source.copied + source.left = BodyLength
    /\ source.pc \in {"origin", "drain", "finish"} => source.tx
    /\ source.pc = "finish" => source.clean /\ source.left = 0

\* Only the last message can be an end, after which nothing is sent; the
\* end of a whole body follows all of its units.
QueueInv ==
    /\ \A i \in 1 .. Len(queue) : i < Len(queue) => queue[i] = "data"
    /\ source.tx /\ queue # <<>> => queue[Len(queue)] = "data"
    /\ queue # <<>> /\ queue[Len(queue)] = "finish" => source.clean /\ source.copied = BodyLength

\* While the writer receives, what it took and what the queue holds are the
\* units copied; a writer that finalizes has all of them in the file.
WriterInv ==
    /\ writer.pc = "recv" => writer.taken + DataIn(queue) = source.copied
    /\ writer.pc = "finalize" => writer.taken = BodyLength
    /\ writer.pc = "finalize" \/ file = "committed" => source.clean /\ Landed
    /\ writer.pc \in {"recv", "finalize"} => file = "temporary"
    /\ file = "committed" => writer.disk = BodyLength /\ BodyLength <= plan.limit

FillBodyInv == FillBodyTypeOK /\ SourceInv /\ QueueInv /\ WriterInv

ReaderType == [pc : ReaderPcs, pos : Units, available : Units, woken : BOOLEAN]
InflightType == [bytes : Units, finished : BOOLEAN, error : BOOLEAN, upstream : BOOLEAN]

\* Waking the readers keeps their types.
LEMMA NotifyType ==
    ASSUME reader \in [Readers -> ReaderType]
    PROVE  Notify(reader) \in [Readers -> ReaderType]
BY DEF Notify, ReaderType

\* The flags of the shared state are set one at a time.
LEMMA StateTypes ==
    ASSUME FillBodyTypeOK,
           FailState \/ UpstreamCompleted \/ StateUnchanged
    PROVE  /\ inflight' \in InflightType
           /\ reader' \in [Readers -> ReaderType]
<1>1. reader \in [Readers -> ReaderType] /\ inflight \in InflightType
  BY DEF FillBodyTypeOK, ReaderType, InflightType
<1>2. Notify(reader) \in [Readers -> ReaderType]
  BY <1>1, NotifyType
<1>3. [inflight EXCEPT !.error = TRUE] \in InflightType /\ [inflight EXCEPT !.upstream = TRUE] \in InflightType
  BY <1>1 DEF InflightType
<1> QED
  BY <1>1, <1>2, <1>3 DEF FailState, UpstreamCompleted, StateUnchanged

\* What a message at the end of the queue does to its shape.
LEMMA AppendShape ==
    ASSUME NEW q \in Seq(Messages), NEW m \in Messages,
           \A i \in 1 .. Len(q) : q[i] = "data"
    PROVE  /\ Append(q, m) \in Seq(Messages)
           /\ Len(Append(q, m)) = Len(q) + 1 /\ Append(q, m) # <<>>
           /\ Append(q, m)[Len(Append(q, m))] = m
           /\ \A i \in 1 .. Len(Append(q, m)) : i < Len(Append(q, m)) => Append(q, m)[i] = "data"
           /\ DataIn(q) = Len(q)
           /\ DataIn(Append(q, m)) = IF m = "data" THEN Len(q) + 1 ELSE Len(q)
<1>1. /\ Append(q, m) \in Seq(Messages)
      /\ Len(Append(q, m)) = Len(q) + 1 /\ Append(q, m) # <<>>
      /\ Append(q, m)[Len(Append(q, m))] = m
      /\ \A i \in 1 .. Len(Append(q, m)) : i < Len(Append(q, m)) => Append(q, m)[i] = "data"
  <2>1. Append(q, m) \in Seq(Messages) /\ Len(Append(q, m)) = Len(q) + 1
    OBVIOUS
  <2>2. Append(q, m)[Len(q) + 1] = m /\ \A i \in 1 .. Len(q) : Append(q, m)[i] = q[i]
    OBVIOUS
  <2>3. Len(q) \in Nat /\ (Append(q, m) = <<>> => Len(Append(q, m)) = 0)
    OBVIOUS
  <2> QED
    BY <2>1, <2>2, <2>3
<1>2. Len(q) \in Nat /\ (q # <<>> => Len(q) \in 1 .. Len(q))
  OBVIOUS
<1>3. DataIn(q) = Len(q)
  BY <1>2 DEF DataIn
<1>4. DataIn(Append(q, m)) = IF m = "data" THEN Len(q) + 1 ELSE Len(q)
  BY <1>1, <1>2 DEF DataIn
<1> QED
  BY <1>1, <1>3, <1>4

\* The steps of the feeding side.
LEMMA FillBodyInvSource == FillBodyInv /\ SourceStep => FillBodyInv'
<1> SUFFICES ASSUME FillBodyInv, SourceStep PROVE FillBodyInv'
  OBVIOUS
<1> DEFINE S == [pc : SourcePcs, left : Units, copied : Units, tx : BOOLEAN, clean : BOOLEAN]
<1>0. /\ source \in S /\ BodyLength \in Nat /\ queue \in Seq(Messages) /\ Len(queue) \in Nat
      /\ source.left \in Nat /\ source.copied \in Nat /\ QueueDepth \in Nat
      /\ writer.taken \in Nat
  BY FillBodyAssumption DEF FillBodyInv, FillBodyTypeOK, Messages, Units
\* A step that changes the source, and neither the queue nor the writer.
<1>1. ASSUME UNCHANGED <<plan, queue, writer, file>>,
             FailState \/ UpstreamCompleted \/ StateUnchanged,
             source' \in S, source'.copied = source.copied, source.clean => source'.clean,
             source'.tx => source.tx, SourceInv'
      PROVE  FillBodyInv'
  <2>1. inflight' \in InflightType /\ reader' \in [Readers -> ReaderType]
    BY <1>1, StateTypes DEF FillBodyInv
  <2>2. FillBodyTypeOK'
    BY <1>1, <2>1 DEF FillBodyInv, FillBodyTypeOK, InflightType, ReaderType
  <2>3. QueueInv' /\ WriterInv'
    BY <1>1 DEF FillBodyInv, QueueInv, WriterInv, Landed, DataIn
  <2> QED
    BY <1>1, <2>2, <2>3 DEF FillBodyInv
\* A step that sends a message.
<1>2. ASSUME NEW m \in Messages, Room, source.tx, queue' = Append(queue, m),
             UNCHANGED <<plan, writer, file>>,
             FailState \/ UpstreamCompleted \/ StateUnchanged,
             source' \in S, source.clean => source'.clean,
             source'.copied = IF m = "data" THEN source.copied + 1 ELSE source.copied,
             source'.tx <=> m = "data",
             m = "finish" => source'.clean /\ source.left = 0,
             SourceInv'
      PROVE  FillBodyInv'
  <2>1. inflight' \in InflightType /\ reader' \in [Readers -> ReaderType]
    BY <1>2, StateTypes DEF FillBodyInv
  <2>2. \A i \in 1 .. Len(queue) : queue[i] = "data"
    BY <1>0, <1>2 DEF FillBodyInv, QueueInv
  <2>3. /\ queue' \in Seq(Messages)
        /\ Len(queue') = Len(queue) + 1 /\ queue' # <<>>
        /\ queue'[Len(queue')] = m
        /\ \A i \in 1 .. Len(queue') : i < Len(queue') => queue'[i] = "data"
        /\ DataIn(queue) = Len(queue)
        /\ DataIn(queue') = IF m = "data" THEN Len(queue) + 1 ELSE Len(queue)
    BY <1>0, <1>2, <2>2, AppendShape
  <2>4. FillBodyTypeOK'
    BY <1>0, <1>2, <2>1, <2>3 DEF FillBodyInv, FillBodyTypeOK, InflightType, ReaderType, Room, Messages
  <2>5. source.copied + source.left = BodyLength
    BY <1>2 DEF FillBodyInv, SourceInv
  <2>6. QueueInv'
    BY <1>0, <1>2, <2>3, <2>5 DEF QueueInv
  <2>7. WriterInv'
    <3>1. writer.pc = "recv" => writer.taken + DataIn(queue') = source'.copied
      <4> SUFFICES ASSUME writer.pc = "recv" PROVE writer.taken + DataIn(queue') = source'.copied
        OBVIOUS
      <4>1. writer.taken + Len(queue) = source.copied
        BY <2>3 DEF FillBodyInv, WriterInv
      <4>2. CASE m = "data"
        BY ONLY <1>0, <1>2, <2>3, <4>1, <4>2
      <4>3. CASE m # "data"
        BY ONLY <1>0, <1>2, <2>3, <4>1, <4>3
      <4> QED
        BY <4>2, <4>3
    <3>2. WriterInv /\ UNCHANGED <<plan, writer, file>> /\ (source.clean => source'.clean)
      BY <1>2 DEF FillBodyInv
    <3> QED
      BY <3>1, <3>2 DEF WriterInv, Landed
  <2> QED
    BY <1>2, <2>4, <2>6, <2>7 DEF FillBodyInv
\* The feeding side gives the cache up.
<1>13. ASSUME Abort, source.tx, UNCHANGED <<plan, writer, file>>,
              source' \in S, source.clean => source'.clean,
              source'.copied = source.copied, ~source'.tx, SourceInv'
       PROVE  FillBodyInv'
  <2>1. FailState
    BY <1>13 DEF Abort
  <2>2. CASE Room
    <3>1. queue' = Append(queue, "abort") /\ "abort" \in Messages
      BY <1>13, <2>2 DEF Abort, Messages
    <3> QED
      BY <1>2, <1>13, <2>1, <2>2, <3>1
  <2>3. CASE ~Room
    <3>1. UNCHANGED queue
      BY <1>13, <2>3 DEF Abort
    <3> QED
      BY <1>1, <1>13, <2>1, <3>1
  <2> QED
    BY <2>2, <2>3
\* The ways the source's record changes.
<1>3. /\ [source EXCEPT !.pc = "over"] \in S
      /\ [source EXCEPT !.pc = "drain"] \in S
      /\ [source EXCEPT !.pc = "over", !.tx = FALSE] \in S
      /\ [source EXCEPT !.pc = "over", !.clean = TRUE] \in S
      /\ [source EXCEPT !.pc = "over", !.tx = FALSE, !.clean = TRUE] \in S
  <2>1. "over" \in SourcePcs /\ "drain" \in SourcePcs
    BY DEF SourcePcs
  <2> QED
    BY <1>0, <2>1
<1>4. source.left > 0 => /\ [source EXCEPT !.left = @ - 1] \in S
                         /\ [source EXCEPT !.left = @ - 1, !.tx = FALSE] \in S
  <2> SUFFICES ASSUME source.left > 0 PROVE /\ [source EXCEPT !.left = @ - 1] \in S
                         /\ [source EXCEPT !.left = @ - 1, !.tx = FALSE] \in S
    OBVIOUS
  <2>1. source.left - 1 \in Units
    BY <1>0 DEF Units
  <2> QED
    BY <1>0, <2>1
<1>5. source.left > 0 /\ source.tx => [source EXCEPT !.left = @ - 1, !.copied = @ + 1] \in S
  <2> SUFFICES ASSUME source.left > 0, source.tx PROVE [source EXCEPT !.left = @ - 1, !.copied = @ + 1] \in S
    OBVIOUS
  <2>1. source.left - 1 \in Units /\ source.copied + 1 \in Units
    BY <1>0 DEF Units, FillBodyInv, SourceInv
  <2> QED
    BY <1>0, <2>1
<1>15. ASSUME source.left > 0, source.tx, source' = [source EXCEPT !.left = @ - 1, !.copied = @ + 1],
              source.pc # "finish"
       PROVE  /\ SourceInv' /\ source'.copied = source.copied + 1 /\ (source.clean => source'.clean)
              /\ source'.tx
  <2>1. source.copied + source.left = BodyLength
    BY <1>15 DEF FillBodyInv, SourceInv
  <2>2. source'.left = source.left - 1 /\ source'.copied = source.copied + 1 /\ source'.pc = source.pc
    BY <1>0, <1>15
  <2>3. source'.tx /\ (source.clean => source'.clean)
    BY <1>0, <1>15
  <2>4. source'.copied + source'.left = BodyLength
    BY <1>0, <2>1, <2>2
  <2> QED
    BY <1>15, <2>2, <2>3, <2>4 DEF SourceInv
<1>6. CASE BodyFrame
  <2>0. source.left > 0 /\ source.pc = "body" /\ UNCHANGED <<plan, writer, file>>
    BY <1>0, <1>6 DEF BodyFrame
  <2>1. CASE ~source.tx
    <3>1. source' = [source EXCEPT !.left = @ - 1] /\ UNCHANGED queue /\ StateUnchanged
      BY <1>6, <2>1 DEF BodyFrame
    <3>2. SourceInv' /\ source'.copied = source.copied /\ source'.clean = source.clean /\ source'.tx = source.tx
      BY <1>0, <2>0, <2>1, <3>1 DEF SourceInv
    <3> QED
      BY <1>1, <1>4, <2>0, <3>1, <3>2
  <2>2. CASE source.tx /\ Fits(plan.limit) /\ Room
    <3>1. /\ source' = [source EXCEPT !.left = @ - 1, !.copied = @ + 1]
          /\ queue' = Append(queue, "data") /\ StateUnchanged /\ "data" \in Messages
      BY <1>6, <2>2 DEF BodyFrame, CopyFrame, Messages
    <3> QED
      BY <1>2, <1>5, <1>15, <2>0, <2>2, <3>1
  <2>3. CASE source.tx /\ ~(Fits(plan.limit) /\ Room)
    <3>1. source' = [source EXCEPT !.left = @ - 1, !.tx = FALSE] /\ Abort
      BY <1>6, <2>3 DEF BodyFrame, CopyFrame
    <3>2. SourceInv' /\ source'.copied = source.copied /\ source'.clean = source.clean /\ ~source'.tx
      BY <1>0, <2>0, <3>1 DEF SourceInv
    <3> QED
      BY <1>4, <1>13, <2>0, <2>3, <3>1, <3>2
  <2> QED
    BY <2>1, <2>2, <2>3
<1>7. CASE BodyEnd
  <2>0. source.left = 0 /\ source.pc = "body" /\ UNCHANGED <<plan, writer, file>>
    BY <1>7 DEF BodyEnd
  <2>1. CASE ~source.tx
    <3>1. source' = [source EXCEPT !.pc = "over", !.clean = TRUE] /\ UNCHANGED queue /\ StateUnchanged
      BY <1>7, <2>1 DEF BodyEnd
    <3>2. SourceInv' /\ source'.copied = source.copied /\ source'.clean /\ source'.tx = source.tx
      BY <1>0, <2>1, <3>1 DEF SourceInv
    <3> QED
      BY <1>1, <1>3, <2>0, <3>1, <3>2
  <2>2. CASE source.tx /\ Room
    <3>1. /\ source' = [source EXCEPT !.pc = "over", !.left = 0, !.copied = source.copied,
                                      !.tx = FALSE, !.clean = TRUE]
          /\ queue' = Append(queue, "finish") /\ UpstreamCompleted /\ "finish" \in Messages
      BY <1>7, <2>2 DEF BodyEnd, FinishCache, Messages
    <3>2. source' = [source EXCEPT !.pc = "over", !.tx = FALSE, !.clean = TRUE]
      BY <1>0, <2>0, <3>1
    <3>3. SourceInv' /\ source'.copied = source.copied /\ source'.clean /\ ~source'.tx
      BY <1>0, <3>2 DEF SourceInv
    <3> QED
      BY <1>2, <1>3, <2>0, <2>2, <3>1, <3>2, <3>3
  <2>3. CASE source.tx /\ ~Room
    <3>1. /\ source' = [source EXCEPT !.pc = "finish", !.left = 0, !.copied = source.copied, !.clean = TRUE]
          /\ UNCHANGED queue /\ StateUnchanged
      BY <1>7, <2>3 DEF BodyEnd, FinishCache
    <3>2. source' \in S
      <4>1. "finish" \in SourcePcs /\ 0 \in Units
        BY <1>0 DEF SourcePcs, Units
      <4> QED
        BY <1>0, <3>1, <4>1
    <3>3. SourceInv' /\ source'.copied = source.copied /\ source'.clean /\ source'.tx = source.tx
      BY <1>0, <2>0, <2>3, <3>1 DEF FillBodyInv, SourceInv
    <3> QED
      BY <1>1, <2>0, <3>1, <3>2, <3>3
  <2> QED
    BY <2>1, <2>2, <2>3
\* The source ends without an end of the body.
<1>14. ASSUME source' = [source EXCEPT !.pc = "over", !.tx = FALSE]
       PROVE  /\ SourceInv' /\ source'.copied = source.copied /\ source'.clean = source.clean
              /\ ~source'.tx /\ source' \in S
  BY <1>0, <1>3, <1>14 DEF SourceInv
<1>8. CASE BodyError
  <2>0. source' = [source EXCEPT !.pc = "over", !.tx = FALSE] /\ UNCHANGED <<plan, writer, file>>
    BY <1>8 DEF BodyError
  <2>1. CASE source.tx
    BY <1>8, <1>13, <1>14, <2>0, <2>1 DEF BodyError
  <2>2. CASE ~source.tx
    BY <1>1, <1>8, <1>14, <2>0, <2>2 DEF BodyError
  <2> QED
    BY <2>1, <2>2
<1>9. CASE BodyDropped
  <2>1. /\ UNCHANGED <<plan, queue, writer, file>> /\ StateUnchanged
        /\ source' = [source EXCEPT !.pc = IF source.tx THEN "drain" ELSE "over"]
    BY <1>9 DEF BodyDropped
  <2>2. SourceInv' /\ source'.copied = source.copied /\ source'.clean = source.clean /\ source'.tx = source.tx
    BY <1>0, <2>1 DEF FillBodyInv, SourceInv
  <2>3. source' \in S
    BY <1>3, <2>1
  <2> QED
    BY <1>1, <2>1, <2>2, <2>3
<1>10. CASE DriveFrame
  <2>0. /\ source.left > 0 /\ source.pc \in {"origin", "drain"} /\ UNCHANGED <<plan, writer, file>>
        /\ source.tx
    BY <1>0, <1>10 DEF DriveFrame, FillBodyInv, SourceInv
  <2>1. CASE /\ Room /\ queue' = Append(queue, "data") /\ StateUnchanged
             /\ source' = [source EXCEPT !.left = @ - 1, !.copied = @ + 1]
    <3>1. "data" \in Messages /\ source.pc # "finish"
      BY <2>0 DEF Messages
    <3> QED
      BY <1>2, <1>5, <1>15, <2>0, <2>1, <3>1
  <2>2. CASE /\ source' = [source EXCEPT !.pc = "over", !.tx = FALSE]
             /\ FailState \/ StateUnchanged
             /\ UNCHANGED queue
    BY <1>1, <1>14, <2>0, <2>2
  <2> QED
    BY <1>10, <2>1, <2>2 DEF DriveFrame
<1>11. CASE DriveError
  BY <1>1, <1>11, <1>14 DEF DriveError
<1>12. CASE DriveEnd
  <2>0. /\ source.left = 0 /\ source.pc \in {"origin", "drain", "finish"} /\ UNCHANGED <<plan, writer, file>>
        /\ source' = [source EXCEPT !.pc = "over", !.tx = FALSE, !.clean = TRUE]
        /\ source.tx
    BY <1>12 DEF DriveEnd, FillBodyInv, SourceInv
  <2>1. /\ SourceInv' /\ source'.copied = source.copied /\ source'.clean
        /\ ~source'.tx /\ "finish" \in Messages
    BY <1>0, <2>0 DEF SourceInv, Messages
  <2>2. CASE Room /\ queue' = Append(queue, "finish") /\ UpstreamCompleted
    BY <1>2, <1>3, <2>0, <2>1, <2>2
  <2>3. CASE UNCHANGED queue /\ (FailState \/ StateUnchanged)
    BY <1>1, <1>3, <2>0, <2>1, <2>3
  <2> QED
    BY <1>12, <2>2, <2>3 DEF DriveEnd
<1> QED
  BY <1>6, <1>7, <1>8, <1>9, <1>10, <1>11, <1>12 DEF SourceStep

\* What taking the first message does to the shape of the queue.
LEMMA TailShape ==
    ASSUME NEW q \in Seq(Messages), q # <<>>,
           \A i \in 1 .. Len(q) : i < Len(q) => q[i] = "data"
    PROVE  /\ Tail(q) \in Seq(Messages) /\ Len(Tail(q)) = Len(q) - 1
           /\ \A i \in 1 .. Len(Tail(q)) : i < Len(Tail(q)) => Tail(q)[i] = "data"
           /\ Tail(q) # <<>> => Tail(q)[Len(Tail(q))] = q[Len(q)] /\ Head(q) = "data"
           /\ Head(q) = "data" => DataIn(q) = DataIn(Tail(q)) + 1
           /\ Head(q) # "data" => DataIn(q) = 0 /\ q[Len(q)] = Head(q)
           /\ DataIn(Tail(q)) \in Nat
<1>1. /\ Tail(q) \in Seq(Messages) /\ Len(Tail(q)) = Len(q) - 1 /\ Len(q) \in Nat \ {0}
      /\ \A i \in 1 .. Len(Tail(q)) : Tail(q)[i] = q[i + 1]
      /\ Head(q) = q[1]
  OBVIOUS
<1>2. Tail(q) # <<>> <=> Len(q) > 1
  <2>1. \A t \in Seq(Messages) : t = <<>> <=> Len(t) = 0
    OBVIOUS
  <2>2. Tail(q) = <<>> <=> Len(Tail(q)) = 0
    BY <1>1, <2>1
  <2> QED
    BY <1>1, <2>2
<1>3. \A i \in 1 .. Len(Tail(q)) : i < Len(Tail(q)) => Tail(q)[i] = "data"
  BY <1>1
<1>4. Tail(q) # <<>> => Tail(q)[Len(Tail(q))] = q[Len(q)] /\ Head(q) = "data"
  BY <1>1, <1>2
<1>5. Head(q) # "data" => Len(q) = 1
  BY <1>1
<1>6. CASE Tail(q) = <<>>
  <2>1. Len(q) = 1 /\ Len(Tail(q)) = 0
    BY <1>1, <1>2, <1>6
  <2> QED
    BY <1>1, <1>3, <1>6, <2>1 DEF DataIn
<1>7. CASE Tail(q) # <<>>
  <2>1. Len(q) > 1 /\ Head(q) = "data" /\ Tail(q)[Len(Tail(q))] = q[Len(q)]
    BY <1>1, <1>2, <1>4, <1>7
  <2> QED
    BY <1>1, <1>3, <1>7, <2>1 DEF DataIn
<1> QED
  BY <1>6, <1>7

\* The steps of the writer, and a write that lands or fails.
LEMMA FillBodyInvWriter == FillBodyInv /\ (WriterStep \/ Land) => FillBodyInv'
<1> SUFFICES ASSUME FillBodyInv, WriterStep \/ Land PROVE FillBodyInv'
  OBVIOUS
<1> DEFINE W == [pc : WriterPcs, taken : Units, disk : Units, broken : BOOLEAN]
<1>0. /\ writer \in W /\ BodyLength \in Nat /\ queue \in Seq(Messages) /\ Len(queue) \in Nat
      /\ writer.taken \in Nat /\ source.copied \in Units /\ QueueDepth \in Nat /\ Len(queue) <= QueueDepth
      /\ plan.limit \in Nat
  <2>1. plan.limit \in EntryLimits /\ source.copied \in Units /\ writer.taken \in Units
    BY DEF FillBodyInv, FillBodyTypeOK
  <2>2. writer \in W /\ queue \in Seq(Messages) /\ Len(queue) \in Nat /\ Len(queue) <= QueueDepth
    BY DEF FillBodyInv, FillBodyTypeOK, Messages
  <2>3. plan.limit \in Nat /\ BodyLength \in Nat /\ QueueDepth \in Nat
    BY ONLY <2>1, FillBodyAssumption
  <2>4. writer.taken \in Nat
    BY ONLY <2>1, <2>3 DEF Units
  <2> QED
    BY <2>1, <2>2, <2>3, <2>4
<1>1. "recv" \in WriterPcs /\ "finalize" \in WriterPcs /\ "drop" \in WriterPcs /\ "gone" \in WriterPcs
  BY DEF WriterPcs
\* A step of the writer that leaves the queue or takes its first message.
<1>2. ASSUME UNCHANGED <<plan, source>>, writer' \in W, WriterInv',
             UNCHANGED queue \/ (queue # <<>> /\ queue' = Tail(queue)),
             inflight' \in InflightType, reader' \in [Readers -> ReaderType],
             file' \in {"temporary", "committed", "removed"}
      PROVE  FillBodyInv'
  <2>1. QueueInv' /\ queue' \in Seq(Messages) /\ Len(queue') <= QueueDepth
    <3>1. CASE UNCHANGED queue
      BY <1>0, <1>2, <3>1 DEF FillBodyInv, QueueInv
    <3>2. CASE queue # <<>> /\ queue' = Tail(queue)
      BY <1>0, <1>2, <3>2, TailShape DEF FillBodyInv, QueueInv
    <3> QED
      BY <1>2, <3>1, <3>2
  <2>2. FillBodyTypeOK'
    BY <1>2, <2>1 DEF FillBodyInv, FillBodyTypeOK, InflightType, ReaderType, Messages
  <2> QED
    BY <1>2, <2>1, <2>2 DEF FillBodyInv, SourceInv
<1>3. FailState \/ StateUnchanged => inflight' \in InflightType /\ reader' \in [Readers -> ReaderType]
  BY StateTypes DEF FillBodyInv
<1>4. Notify(reader) \in [Readers -> ReaderType] /\ inflight \in InflightType
  BY NotifyType DEF FillBodyInv, FillBodyTypeOK, ReaderType, InflightType
\* The writer ends without a commit.
<1>5. ASSUME writer.pc \in {"recv", "finalize"}, writer' = [writer EXCEPT !.pc = "drop"], file' = "removed",
             FailState \/ StateUnchanged, UNCHANGED <<plan, source>>,
             UNCHANGED queue \/ (queue # <<>> /\ queue' = Tail(queue))
      PROVE  FillBodyInv'
  <2>1. writer' \in W /\ writer'.pc = "drop"
    BY <1>0, <1>1, <1>5
  <2>2. WriterInv'
    BY <1>5, <2>1 DEF WriterInv
  <2> QED
    BY <1>2, <1>3, <1>5, <2>1, <2>2
<1>6. CASE WriteData
  <2>0. /\ writer.pc = "recv" /\ queue # <<>> /\ Head(queue) = "data" /\ queue' = Tail(queue)
        /\ UNCHANGED <<plan, source>>
    BY <1>6 DEF WriteData, Receive
  <2>1. CASE GiveUp
    BY <1>5, <2>0, <2>1 DEF GiveUp
  <2>2. CASE /\ Landed /\ writer' = [writer EXCEPT !.taken = @ + 1]
             /\ inflight' = [inflight EXCEPT !.bytes = writer.taken + 1]
             /\ reader' = Notify(reader) /\ UNCHANGED file
    <3>1. DataIn(queue) = DataIn(queue') + 1 /\ DataIn(queue') \in Nat
      BY <1>0, <2>0, TailShape DEF FillBodyInv, QueueInv
    <3>2. writer.taken + DataIn(queue) = source.copied
      BY <2>0 DEF FillBodyInv, WriterInv
    <3>3. writer.taken + 1 \in Units /\ (writer.taken + 1) + DataIn(queue') = source.copied
      BY <1>0, <3>1, <3>2 DEF Units
    <3>4. writer' \in W /\ writer'.pc = "recv" /\ writer'.taken = writer.taken + 1 /\ writer'.disk = writer.disk
      BY <1>0, <2>0, <2>2, <3>3
    <3>5. file = "temporary"
      BY <2>0 DEF FillBodyInv, WriterInv
    <3>6. WriterInv'
      BY <2>0, <2>2, <3>3, <3>4, <3>5 DEF WriterInv
    <3>7. inflight' \in InflightType
      BY <1>4, <2>2, <3>3 DEF InflightType
    <3> QED
      BY <1>2, <1>4, <2>0, <2>2, <3>4, <3>5, <3>6, <3>7
  <2> QED
    BY <1>6, <2>1, <2>2 DEF WriteData
<1>7. CASE WriteFinish
  <2>0. /\ writer.pc = "recv" /\ queue # <<>> /\ Head(queue) = "finish" /\ queue' = Tail(queue)
        /\ UNCHANGED <<plan, source>>
    BY <1>7 DEF WriteFinish, Receive
  <2>1. CASE GiveUp
    BY <1>5, <2>0, <2>1 DEF GiveUp
  <2>2. CASE /\ Landed /\ writer' = [writer EXCEPT !.pc = "finalize"]
             /\ inflight' = [inflight EXCEPT !.finished = TRUE]
             /\ reader' = Notify(reader) /\ UNCHANGED file
    <3>1. DataIn(queue) = 0 /\ queue[Len(queue)] = "finish"
      BY <1>0, <2>0, TailShape DEF FillBodyInv, QueueInv
    <3>2. writer.taken + DataIn(queue) = source.copied
      BY <2>0 DEF FillBodyInv, WriterInv
    <3>3. source.clean /\ source.copied = BodyLength
      BY <2>0, <3>1 DEF FillBodyInv, QueueInv
    <3>4. writer' \in W /\ writer'.pc = "finalize" /\ writer'.taken = writer.taken /\ writer'.disk = writer.disk
      BY <1>0, <1>1, <2>0, <2>2
    <3>5. file = "temporary" /\ writer.taken = BodyLength
      BY <1>0, <2>0, <3>1, <3>2, <3>3 DEF FillBodyInv, WriterInv
    <3>6. WriterInv'
      BY <2>0, <2>2, <3>3, <3>4, <3>5 DEF WriterInv, Landed
    <3>7. inflight' \in InflightType
      BY <1>4, <2>2 DEF InflightType
    <3> QED
      BY <1>2, <1>4, <2>0, <2>2, <3>4, <3>5, <3>6, <3>7
  <2> QED
    BY <1>7, <2>1, <2>2 DEF WriteFinish
<1>8. CASE WriteAbort \/ WriteClosed
  BY <1>5, <1>8 DEF WriteAbort, WriteClosed, GiveUp, Receive
<1>9. CASE Finalize
  <2>0. /\ writer.pc = "finalize" /\ writer' = [writer EXCEPT !.pc = "drop"]
        /\ UNCHANGED <<plan, source, queue>>
    BY <1>9 DEF Finalize
  <2>1. CASE file' = "removed" /\ (FailState \/ StateUnchanged)
    BY <1>5, <2>0, <2>1
  <2>2. CASE file' = "committed" /\ StateUnchanged /\ ~(writer.taken > plan.limit)
    <3>1. /\ writer' \in W /\ writer'.pc = "drop" /\ writer'.taken = writer.taken
          /\ writer'.disk = writer.disk
      BY <1>0, <1>1, <2>0
    <3>2. writer.taken = BodyLength /\ source.clean /\ Landed
      BY <2>0 DEF FillBodyInv, WriterInv
    <3>3. WriterInv'
      BY <1>0, <2>0, <2>2, <3>1, <3>2 DEF WriterInv, Landed
    <3> QED
      BY <1>2, <1>3, <2>0, <2>2, <3>1, <3>3
  <2> QED
    BY <1>9, <2>1, <2>2 DEF Finalize
<1>10. CASE DropGuard
  <2>1. /\ writer.pc = "drop" /\ writer' = [writer EXCEPT !.pc = "gone"] /\ reader' = Notify(reader)
        /\ UNCHANGED <<plan, source, queue, inflight, file>>
    BY <1>10 DEF DropGuard
  <2>2. /\ writer' \in W /\ writer'.pc = "gone" /\ writer'.taken = writer.taken
        /\ writer'.disk = writer.disk
    BY <1>0, <1>1, <2>1
  <2>3. WriterInv' /\ file' \in {"temporary", "committed", "removed"}
    BY <2>1, <2>2 DEF FillBodyInv, FillBodyTypeOK, WriterInv, Landed
  <2> QED
    BY <1>2, <1>4, <2>1, <2>2, <2>3
<1>11. CASE Land
  <2>0. ~Landed /\ UNCHANGED <<plan, source, queue, inflight, file, reader>>
    BY <1>11 DEF Land
  <2>1. /\ writer' \in W /\ writer'.pc = writer.pc /\ writer'.taken = writer.taken
    BY <1>0, <1>11 DEF Land
  <2>2. WriterInv'
    BY <2>0, <2>1 DEF FillBodyInv, WriterInv
  <2>3. /\ file' \in {"temporary", "committed", "removed"}
        /\ inflight' \in InflightType /\ reader' \in [Readers -> ReaderType]
    BY <2>0 DEF FillBodyInv, FillBodyTypeOK, InflightType, ReaderType
  <2> QED
    BY <1>2, <2>0, <2>1, <2>2, <2>3
<1> QED
  BY <1>6, <1>7, <1>8, <1>9, <1>10, <1>11 DEF WriterStep

\* The steps of a reader change nothing but the reader.
LEMMA FillBodyInvReader ==
    ASSUME FillBodyInv, NEW r \in Readers, Share(r) \/ Leave(r) \/ ReaderStep(r)
    PROVE  FillBodyInv'
<1> DEFINE x == reader[r]
<1>0. x \in ReaderType /\ inflight.bytes \in Units
  BY DEF FillBodyInv, FillBodyTypeOK, ReaderType
<1>1. ASSUME NEW t \in ReaderType, SetReader(r, t) PROVE FillBodyInv'
  BY <1>1 DEF SetReader, FillBodyInv, FillBodyTypeOK, SourceInv, QueueInv, WriterInv, Landed, ReaderType
<1>2. \A to \in ReaderPcs : /\ [x EXCEPT !.pc = to] \in ReaderType
                            /\ [x EXCEPT !.pc = to, !.woken = FALSE] \in ReaderType
                            /\ \A n \in Units : /\ [x EXCEPT !.pos = n, !.pc = to] \in ReaderType
                                                /\ [x EXCEPT !.woken = FALSE, !.available = n, !.pc = to] \in ReaderType
  BY <1>0 DEF ReaderType
<1>3. /\ "open" \in ReaderPcs /\ "top" \in ReaderPcs /\ "read" \in ReaderPcs /\ "eof" \in ReaderPcs
      /\ "arm" \in ReaderPcs /\ "error" \in ReaderPcs /\ "finished" \in ReaderPcs /\ "ended" \in ReaderPcs
      /\ "failed" \in ReaderPcs /\ "left" \in ReaderPcs /\ "await" \in ReaderPcs /\ "await_read" \in ReaderPcs
  BY DEF ReaderPcs, WaitingPcs
<1> HIDE DEF x
<1>4. CASE Share(r) \/ Leave(r) \/ Open(r) \/ ReadNothing(r) \/ CheckError(r) \/ CheckFinished(r) \/ Wake(r)
  <2>1. \E to \in ReaderPcs : SetReader(r, [x EXCEPT !.pc = to])
    BY <1>3, <1>4 DEF Share, Leave, Open, ReadNothing, CheckError, CheckFinished, Wake, x
  <2> QED
    BY <1>1, <1>2, <2>1
<1>5. CASE Top(r)
  BY <1>0, <1>1, <1>2, <1>3, <1>5 DEF Top, x
<1>6. CASE ReadFile(r)
  <2> DEFINE to == Min({writer.disk, x.available})
             next == IF to = x.available THEN "top" ELSE IF to = x.pos THEN "eof" ELSE "read"
  <2>1. writer.disk \in Units /\ x.available \in Units
    BY <1>0 DEF FillBodyInv, FillBodyTypeOK, ReaderType
  <2>2. \A a, b \in Nat : Min({a, b}) \in {a, b}
    <3> SUFFICES ASSUME NEW a \in Nat, NEW b \in Nat PROVE Min({a, b}) \in {a, b}
      OBVIOUS
    <3>1. CASE a <= b
      BY <3>1 DEF Min
    <3>2. CASE b <= a
      BY <3>2 DEF Min
    <3> QED
      BY <3>1, <3>2
  <2>3. to \in Units
    BY <2>1, <2>2, FillBodyAssumption DEF Units
  <2>4. SetReader(r, [x EXCEPT !.pos = to, !.pc = next])
    BY <1>6 DEF ReadFile, x
  <2> HIDE DEF to
  <2>5. next \in ReaderPcs
    BY <1>3
  <2> QED
    BY <1>1, <1>2, <2>3, <2>4, <2>5
<1>7. CASE ArmRead(r)
  BY <1>1, <1>2, <1>3, <1>7 DEF ArmRead, x
<1> QED
  BY <1>4, <1>5, <1>6, <1>7 DEF ReaderStep

LEMMA FillBodyInvNext == FillBodyInv /\ [FillBodyNext]_fillBodyVars => FillBodyInv'
<1> SUFFICES ASSUME FillBodyInv, UNCHANGED fillBodyVars PROVE FillBodyInv'
  BY FillBodyInvSource, FillBodyInvWriter, FillBodyInvReader DEF FillBodyNext
<1> QED
  BY DEF fillBodyVars, FillBodyInv, FillBodyTypeOK, SourceInv, QueueInv, WriterInv, Landed

LEMMA FillBodyInvInit == FillBodyInit => FillBodyInv
<1> SUFFICES ASSUME FillBodyInit PROVE FillBodyInv
  OBVIOUS
<1>1. FillBodyTypeOK
  BY FillBodyAssumption DEF FillBodyInit, FillBodyTypeOK, SourcePcs, WriterPcs, ReaderPcs, Units
<1>2. SourceInv /\ QueueInv /\ WriterInv
  BY FillBodyAssumption DEF FillBodyInit, SourceInv, QueueInv, WriterInv, Landed, DataIn
<1> QED
  BY <1>1, <1>2 DEF FillBodyInv

\* Only a whole body within max_entry_bytes gets into the cache, for every
\* length, limit and queue depth and any number of readers: a full queue, a
\* client that leaves, an upstream that breaks off and a write that fails late
\* all end without a commit.
THEOREM OnlyWholeBodiesStored == FillBodySpec => [](FillBodyTypeOK /\ StoredOnlyComplete)
<1>1. FillBodyInv => FillBodyTypeOK /\ StoredOnlyComplete
  BY DEF FillBodyInv, WriterInv, StoredOnlyComplete
<1> QED
  BY <1>1, FillBodyInvInit, FillBodyInvNext, PTL DEF FillBodySpec

-----------------------------------------------------------------------------
(* The composition.                                                        *)

\* A step of the composition is a step of the fill body or leaves it alone,
\* and the same for the relay and the sessions.
LEMMA WaitingSteps ==
    ASSUME [WaitingNext]_waitingVars
    PROVE  [FillBodyNext]_fillBodyVars /\ [RelayNext]_relayVars /\ [SessionsNext]_sessionVars
BY Zenon DEF WaitingNext, OnLock, OnBody, OnRelay, OnSessions, InPart, waitingVars

\* Nobody takes a part of a body for the whole of it, neither the cache nor an
\* upstream nor a client, while fills, relays and connects of any number of
\* requests run.
THEOREM BodiesAlwaysWhole == WaitingSpec => []BodiesWhole
<1> DEFINE Inv == FillBodyInv /\ RelayInv
<1>1. WaitingInit => Inv
  BY FillBodyInvInit, RelayInvInit DEF WaitingInit
<1>2. Inv /\ [WaitingNext]_waitingVars => Inv'
  BY WaitingSteps, FillBodyInvNext, RelayInvNext
<1>3. Inv => BodiesWhole
  BY DEF FillBodyInv, WriterInv, StoredOnlyComplete, RelayInv, NoAnswerOverLimit, BodiesWhole
<1> QED
  BY <1>1, <1>2, <1>3, PTL DEF WaitingSpec

-----------------------------------------------------------------------------
(* Cache fill coordination: type correctness.                              *)

\* Ages saturate: Older stays within Ages.
LEMMA OlderType == \A age \in Ages : Older(age) \in Ages
  BY FillLockAssumption DEF Ages, Older

\* What the flag and field updates of the actions do to the types.
LEMMA UpdateTypes ==
  /\ \A st \in FillStates :
       /\ [st EXCEPT !.response = TRUE] \in FillStates
       /\ [st EXCEPT !.completed = TRUE] \in FillStates
       /\ [st EXCEPT !.finished = TRUE, !.completed = TRUE] \in FillStates
       /\ [st EXCEPT !.failed = TRUE] \in FillStates
  /\ \A g \in Guards, b \in BOOLEAN : [g EXCEPT !.attached = b] \in Guards
  /\ \A rec \in RecordStates, a \in Ages, st \in FillStates :
       [rec EXCEPT !.age = a, !.st = st] \in RecordStates
<1>1. ASSUME NEW st \in FillStates
      PROVE  /\ [st EXCEPT !.response = TRUE] \in FillStates
             /\ [st EXCEPT !.completed = TRUE] \in FillStates
             /\ [st EXCEPT !.finished = TRUE, !.completed = TRUE] \in FillStates
             /\ [st EXCEPT !.failed = TRUE] \in FillStates
  BY Zenon DEF FillStates
<1>2. ASSUME NEW g \in Guards, NEW b \in BOOLEAN
      PROVE  [g EXCEPT !.attached = b] \in Guards
  BY Zenon DEF Guards
<1>3. ASSUME NEW rec \in RecordStates, NEW a \in Ages, NEW st \in FillStates
      PROVE  [rec EXCEPT !.age = a, !.st = st] \in RecordStates
  BY Zenon DEF RecordStates
<1> QED BY <1>1, <1>2, <1>3

\* A new record and an updated one are records.
LEMMA RecordType ==
  ASSUME TypeOK
  PROVE  /\ NewFillState \in FillStates
         /\ \A r \in Requests, fp \in Fingerprints \cup {NoFp} :
              NewRecord(r, fp) \in RecordStates
         /\ \A r \in Requests, st \in FillStates :
              UpdateFillLock(r, st) => record' \in RecordStates \cup {NoRecord}
         /\ \A r \in Requests :
              ReleaseFillLock(r) => record' \in RecordStates \cup {NoRecord}
<1>1. NewFillState \in FillStates
  BY DEF NewFillState, FillStates
<1>2. ASSUME NEW r \in Requests, NEW fp \in Fingerprints \cup {NoFp}
      PROVE  NewRecord(r, fp) \in RecordStates
  BY <1>1, FillLockAssumption DEF NewRecord, RecordStates, Ages
<1>3. ASSUME NEW r \in Requests, NEW st \in FillStates, UpdateFillLock(r, st)
      PROVE  record' \in RecordStates \cup {NoRecord}
  <2>1. CASE OwnsRecord(r) /\ record' = [record EXCEPT !.age = 0, !.st = st]
    <3>1. record \in RecordStates
      BY <2>1 DEF TypeOK, OwnsRecord
    <3>2. 0 \in Ages
      BY FillLockAssumption DEF Ages
    <3> QED BY <2>1, <3>1, <3>2, UpdateTypes
  <2>2. CASE record' = record
    BY <2>2 DEF TypeOK
  <2> QED BY <1>3, <2>1, <2>2 DEF UpdateFillLock
<1>4. ASSUME NEW r \in Requests, ReleaseFillLock(r)
      PROVE  record' \in RecordStates \cup {NoRecord}
  <2>1. CASE OwnsRecord(r) /\ record' = [record EXCEPT !.released = TRUE]
    BY <2>1 DEF TypeOK, OwnsRecord, RecordStates
  <2>2. CASE record' = record
    BY <2>2 DEF TypeOK
  <2> QED BY <1>4, <2>1, <2>2 DEF ReleaseFillLock
<1> QED BY <1>1, <1>2, <1>3, <1>4

\* The read-state operations keep the types.
LEMMA ReadStateStepType ==
  ASSUME TypeOK, NEW r \in Requests, NEW st \in FillStates, NEW next \in Pcs,
         NEW from, ReadStateStep(r, from, st, next)
  PROVE  TypeOK'
<1>1. CASE guard[r].attached
  <2>1. record' \in RecordStates \cup {NoRecord}
    BY <1>1, RecordType DEF ReadStateStep
  <2>2. pc' \in [Requests -> Pcs]
    BY <1>1 DEF ReadStateStep, TypeOK, Pcs
  <2>3. fillState' \in [Requests -> FillStates]
    BY <1>1 DEF ReadStateStep, TypeOK
  <2> QED BY <2>1, <2>2, <2>3 DEF ReadStateStep, TypeOK
<1>2. CASE ~guard[r].attached
  BY <1>2 DEF ReadStateStep, TypeOK
<1> QED BY <1>1, <1>2

\* Every step of the fill coordination keeps every variable in its type.
LEMMA TypeStep == TypeOK /\ [Next]_vars => TypeOK'
<1> SUFFICES ASSUME TypeOK, [Next]_vars PROVE TypeOK'
  OBVIOUS
<1> USE FillLockAssumption
<1>0. ASSUME NEW r \in Requests PROVE Home[r] \in Procs
  OBVIOUS
<1>1. ASSUME NEW r \in Requests, FreshHit(r) PROVE TypeOK'
  BY <1>1 DEF FreshHit, TypeOK, Pcs, FinalPcs
<1>2. ASSUME NEW r \in Requests, LocalDecision(r) PROVE TypeOK'
  <2>1. fill_locks[Home[r]] \in LockStates
    BY <1>2, <1>0 DEF LocalDecision, LocalFresh, TypeOK
  <2>2. fill_locks[Home[r]].generation \in Nat
    BY <2>1 DEF LockStates
  <2>3. pc' \in [Requests -> Pcs]
    BY <1>2 DEF LocalDecision, TypeOK, Pcs, FinalPcs, WaitPcs
  <2>4. waitGen' \in [Requests -> Nat]
    BY <1>2, <2>2 DEF LocalDecision, TypeOK
  <2> QED BY <1>2, <2>3, <2>4 DEF LocalDecision, TypeOK
<1>3. ASSUME NEW r \in Requests, AcquireFillLock(r) PROVE TypeOK'
  <2> DEFINE fp == ShareFp(r, entry)
             generation == fill_lock_generation[Home[r]] + 1
  <2>1. fp \in Fingerprints \cup {NoFp}
    BY DEF ShareFp
  <2>2. generation \in Nat
    BY <1>0 DEF TypeOK
  <2>3. record' \in RecordStates \cup {NoRecord}
    BY <1>3, <2>1, RecordType DEF AcquireFillLock, TypeOK
  <2>4. guard' \in [Requests -> Guards]
    <3>1. PICK external \in BOOLEAN : guard' = [guard EXCEPT ![r] =
              [generation |-> generation, external |-> external, attached |-> FALSE]]
      BY <1>3 DEF AcquireFillLock
    <3> QED BY <3>1, <2>2 DEF Guards, TypeOK
  <2>5. fill_locks' \in [Procs -> LockStates \cup {NoLock}]
    <3>1. [generation |-> generation, age |-> 0, share |-> fp, reader |-> NoReader]
            \in LockStates
      BY <2>1, <2>2 DEF LockStates, Ages
    <3> QED BY <1>3, <3>1 DEF AcquireFillLock, TypeOK
  <2>6. fill_lock_generation' \in [Procs -> Nat]
    BY <1>3, <2>2 DEF AcquireFillLock, TypeOK
  <2>7. pc' \in [Requests -> Pcs] /\ seen' \in [Requests -> EntryStates]
    BY <1>3 DEF AcquireFillLock, TypeOK, Pcs, HoldingPcs
  <2> QED BY <1>3, <2>3, <2>4, <2>5, <2>6, <2>7 DEF AcquireFillLock, TypeOK
<1>4. ASSUME NEW r \in Requests, SharedBusy(r) PROVE TypeOK'
  BY <1>4 DEF SharedBusy, TypeOK, Pcs
<1>5. ASSUME NEW r \in Requests, LoadExternal(r) PROVE TypeOK'
  <2>1. pc' \in [Requests -> Pcs]
    BY <1>5 DEF LoadExternal, TypeOK, Pcs, FinalPcs, WaitPcs
  <2>2. record # NoRecord => record.nonce \in Requests
    BY DEF TypeOK, RecordStates
  <2>3. target' \in [Requests -> Requests \cup {NoTarget}]
    BY <1>5, <2>2 DEF LoadExternal, TypeOK
  <2> QED BY <1>5, <2>1, <2>3 DEF LoadExternal, TypeOK
<1>6. ASSUME NEW r \in Requests, PollExternalLock(r) PROVE TypeOK'
  BY <1>6 DEF PollExternalLock, TypeOK, Pcs, WaitPcs
<1>7. ASSUME NEW r \in Requests, ClearStaleFillLock(r) PROVE TypeOK'
  BY <1>7 DEF ClearStaleFillLock, TypeOK, Pcs, WaitPcs
<1>8. ASSUME NEW r \in Requests, OpenExternalFill(r) PROVE TypeOK'
  BY <1>8 DEF OpenExternalFill, FollowsRecord, TypeOK, RecordStates, Pcs, FinalPcs
<1>9. ASSUME NEW r \in Requests, PollExternalFill(r) PROVE TypeOK'
  BY <1>9 DEF PollExternalFill, FollowsRecord, TypeOK, RecordStates, Pcs, FinalPcs
<1>10. ASSUME NEW r \in Requests, PublishResponse(r) PROVE TypeOK'
  <2>1. [fillState[r] EXCEPT !.response = TRUE] \in FillStates
    BY UpdateTypes DEF TypeOK
  <2>2. record' \in RecordStates \cup {NoRecord}
    BY <1>10, <2>1, RecordType DEF PublishResponse
  <2> QED BY <1>10, <2>1, <2>2 DEF PublishResponse, TypeOK, Pcs, HoldingPcs
<1>11. ASSUME NEW r \in Requests, AttachFillReadState(r) PROVE TypeOK'
  <2> DEFINE p == Home[r]
             current == /\ fill_locks[p] # NoLock
                        /\ fill_locks[p].generation = guard[r].generation
  <2>1. fill_locks' \in [Procs -> LockStates \cup {NoLock}]
    <3>1. CASE current
      <4>1. [fill_locks[p] EXCEPT !.reader = r] \in LockStates
        BY <3>1, <1>0 DEF TypeOK, LockStates
      <4> QED BY <1>11, <3>1, <4>1 DEF AttachFillReadState, TypeOK
    <3>2. CASE ~current
      BY <1>11, <3>2 DEF AttachFillReadState, TypeOK
    <3> QED BY <3>1, <3>2
  <2>2. guard' \in [Requests -> Guards]
    <3>1. [guard[r] EXCEPT !.attached = current] \in Guards
      BY UpdateTypes DEF TypeOK
    <3>2. guard' = [guard EXCEPT ![r].attached = current]
      BY <1>11 DEF AttachFillReadState
    <3> HIDE DEF current
    <3> QED BY <3>1, <3>2 DEF TypeOK
  <2>3. pc' \in [Requests -> Pcs]
    BY <1>11 DEF AttachFillReadState, TypeOK, Pcs, HoldingPcs
  <2> QED BY <1>11, <2>1, <2>2, <2>3 DEF AttachFillReadState, TypeOK
<1>12. ASSUME NEW r \in Requests,
              \/ RecordBytesWritten(r) \/ MarkUpstreamComplete(r)
              \/ FinishFill(r) \/ FailFill(r) \/ FinalizeFails(r)
       PROVE TypeOK'
  <2>1. /\ fillState[r] \in FillStates
        /\ [fillState[r] EXCEPT !.completed = TRUE] \in FillStates
        /\ [fillState[r] EXCEPT !.finished = TRUE, !.completed = TRUE] \in FillStates
        /\ [fillState[r] EXCEPT !.failed = TRUE] \in FillStates
    BY UpdateTypes DEF TypeOK
  <2>2. {"stream", "commit", "drop"} \subseteq Pcs
    BY DEF Pcs, HoldingPcs
  <2> QED BY <1>12, <2>1, <2>2, ReadStateStepType
          DEF RecordBytesWritten, MarkUpstreamComplete, FinishFill, FailFill, FinalizeFails
<1>13. ASSUME NEW r \in Requests, CommitEntry(r) PROVE TypeOK'
  BY <1>13 DEF CommitEntry, TypeOK, EntryStates, Pcs, HoldingPcs
<1>14. ASSUME NEW r \in Requests, DropLocal(r) PROVE TypeOK'
  BY <1>14 DEF DropLocal, TypeOK, Pcs, ReleasePcs
<1>15. ASSUME NEW r \in Requests, DropExternal(r) PROVE TypeOK'
  BY <1>15, RecordType DEF DropExternal, TypeOK, Pcs, ReleasePcs
<1>16. ASSUME NEW r \in Requests, DropNotify(r) PROVE TypeOK'
  BY <1>16 DEF DropNotify, TypeOK, NoGuard, Guards, Pcs, FinalPcs
<1>17. ASSUME NEW r \in Requests, WaitTimeout(r) PROVE TypeOK'
  BY <1>17 DEF WaitTimeout, TypeOK, Pcs, FinalPcs
<1>18. ASSUME NEW p \in MayCrash, Crash(p) PROVE TypeOK'
  <2>1. pc' \in [Requests -> Pcs]
    BY <1>18 DEF Crash, TypeOK, Pcs, FinalPcs
  <2>2. guard' \in [Requests -> Guards]
    BY <1>18 DEF Crash, TypeOK, NoGuard, Guards
  <2> QED BY <1>18, <2>1, <2>2 DEF Crash, TypeOK
<1>19. CASE Tick
  <2>1. fill_locks' \in [Procs -> LockStates \cup {NoLock}]
    <3> SUFFICES ASSUME NEW p \in Procs, fill_locks[p] # NoLock
                 PROVE  [fill_locks[p] EXCEPT !.age = Older(fill_locks[p].age)] \in LockStates
      BY <1>19 DEF Tick
    <3> QED BY OlderType DEF TypeOK, LockStates
  <2>2. record' \in RecordStates \cup {NoRecord}
    BY <1>19, OlderType DEF Tick, TypeOK, RecordStates
  <2> QED BY <1>19, <2>1, <2>2 DEF Tick, TypeOK
<1>20. CASE Expire
  BY <1>20 DEF Expire, TypeOK, EntryStates
<1>21. CASE UNCHANGED vars
  BY <1>21 DEF vars, TypeOK
<1> QED
  BY <1>1, <1>2, <1>3, <1>4, <1>5, <1>6, <1>7, <1>8, <1>9, <1>10, <1>11, <1>12,
     <1>13, <1>14, <1>15, <1>16, <1>17, <1>18, <1>19, <1>20, <1>21
     DEF Next, NextOf, LookupStep, FillStep

\* Type correctness of the whole fill coordination.
THEOREM TypeCorrect == Spec => []TypeOK
<1>1. Init => TypeOK
  BY FillLockAssumption
     DEF Init, TypeOK, Pcs, EntryStates, NoGuard, Guards, NewFillState, FillStates
<1> QED BY <1>1, TypeStep, PTL DEF Spec

-----------------------------------------------------------------------------
(* The lock of a process and its waiters.                                  *)

\* A guard that exists: it is held or on its way out of CacheFillGuard::drop.
Active(r) == Holding(r) \/ pc[r] \in ReleasePcs

GenerationsBounded ==
    \A r \in Requests :
        Active(r) => guard[r].generation <= fill_lock_generation[Home[r]]

GenerationsUnique ==
    \A r, s \in Requests :
        /\ Active(r)
        /\ Active(s)
        /\ Home[r] = Home[s]
        /\ guard[r].generation = guard[s].generation
        => r = s

LockHasHolder ==
    \A p \in Procs : fill_locks[p] # NoLock =>
        \E r \in Requests :
            /\ Home[r] = p
            /\ Holding(r)
            /\ guard[r].generation = fill_locks[p].generation

\* The inductive invariant.  HolderKeepsLock needs to know that no two guards
\* share a generation, NoLostWaiter that a lock in the table has a holder.
LockInv ==
    /\ GenerationsBounded
    /\ GenerationsUnique
    /\ LockHasHolder
    /\ HolderKeepsLock
    /\ NoLostWaiter

\* Facts about the program counters that every step below needs.
LEMMA PcFacts ==
  ASSUME TypeOK, NEW r \in Requests
  PROVE  /\ Holding(r) => pc[r] \notin ReleasePcs /\ pc[r] # "wait_local"
         /\ pc[r] \in ReleasePcs => pc[r] # "wait_local"
  BY DEF Holding, HoldingPcs, ReleasePcs

\* A step keeps LockInv if it leaves alone the generations, who holds and who
\* releases, and lets nobody begin to wait on a Notify.
LEMMA QuietStep ==
  ASSUME LockInv,
         fill_lock_generation' = fill_lock_generation,
         waitGen' = waitGen,
         \A p \in Procs : /\ fill_locks'[p] = NoLock <=> fill_locks[p] = NoLock
                          /\ fill_locks[p] # NoLock =>
                               fill_locks'[p].generation = fill_locks[p].generation,
         \A q \in Requests : /\ guard'[q].generation = guard[q].generation
                             /\ Holding(q)' <=> Holding(q)
                             /\ pc'[q] \in ReleasePcs <=> pc[q] \in ReleasePcs
                             /\ pc'[q] = "wait_local" => pc[q] = "wait_local"
  PROVE  LockInv'
<1> USE FillLockAssumption
<1>1. \A q \in Requests : Active(q)' <=> Active(q)
  BY DEF Active
<1>2. GenerationsBounded'
  BY <1>1 DEF LockInv, GenerationsBounded
<1>3. GenerationsUnique'
  BY <1>1 DEF LockInv, GenerationsUnique
<1>4. LockHasHolder'
  BY DEF LockInv, LockHasHolder
<1>5. HolderKeepsLock'
  BY DEF LockInv, HolderKeepsLock
<1>6. NoLostWaiter'
  BY DEF LockInv, NoLostWaiter
<1> QED BY <1>2, <1>3, <1>4, <1>5, <1>6 DEF LockInv

\* The steps that QuietStep covers.
LEMMA QuietActions ==
  ASSUME TypeOK, LockInv,
         \/ \E r \in Requests :
              \/ FreshHit(r) \/ SharedBusy(r) \/ LoadExternal(r)
              \/ PollExternalLock(r) \/ ClearStaleFillLock(r)
              \/ OpenExternalFill(r) \/ PollExternalFill(r) \/ WaitTimeout(r)
              \/ PublishResponse(r) \/ AttachFillReadState(r)
              \/ RecordBytesWritten(r) \/ MarkUpstreamComplete(r)
              \/ FinishFill(r) \/ FailFill(r) \/ FinalizeFails(r)
              \/ CommitEntry(r) \/ DropExternal(r)
         \/ Tick
         \/ Expire
         \/ UNCHANGED vars
  PROVE  LockInv'
<1> USE FillLockAssumption
<1>1. ASSUME NEW r \in Requests,
             \/ FreshHit(r) \/ SharedBusy(r) \/ LoadExternal(r)
             \/ PollExternalLock(r) \/ ClearStaleFillLock(r)
             \/ OpenExternalFill(r) \/ PollExternalFill(r) \/ WaitTimeout(r)
      PROVE  LockInv'
  <2>1. UNCHANGED <<fill_locks, fill_lock_generation, guard, waitGen>>
    BY <1>1 DEF FreshHit, SharedBusy, LoadExternal, PollExternalLock,
       ClearStaleFillLock, OpenExternalFill, PollExternalFill, WaitTimeout
  <2>2. /\ \A q \in Requests \ {r} : pc'[q] = pc[q]
        /\ pc[r] \notin HoldingPcs \cup ReleasePcs
        /\ pc'[r] \notin HoldingPcs \cup ReleasePcs \cup {"wait_local"}
    BY <1>1 DEF FreshHit, SharedBusy, LoadExternal, PollExternalLock,
       ClearStaleFillLock, OpenExternalFill, PollExternalFill, WaitTimeout,
       NeedsFill, TypeOK, HoldingPcs, ReleasePcs, WaitPcs
  <2> QED BY <2>1, <2>2, QuietStep DEF Holding
<1>2. ASSUME NEW r \in Requests, PublishResponse(r) \/ CommitEntry(r) \/ DropExternal(r)
      PROVE  LockInv'
  <2>1. UNCHANGED <<fill_locks, fill_lock_generation, guard, waitGen>>
    BY <1>2 DEF PublishResponse, CommitEntry, DropExternal
  <2>2. /\ \A q \in Requests \ {r} : pc'[q] = pc[q]
        /\ Holding(r)' <=> Holding(r)
        /\ pc'[r] \in ReleasePcs <=> pc[r] \in ReleasePcs
        /\ pc'[r] # "wait_local"
    BY <1>2 DEF PublishResponse, CommitEntry, DropExternal,
       TypeOK, Holding, HoldingPcs, ReleasePcs
  <2> QED BY <2>1, <2>2, QuietStep DEF Holding
<1>3. ASSUME NEW r \in Requests, AttachFillReadState(r)
      PROVE  LockInv'
  <2>1. UNCHANGED <<fill_lock_generation, waitGen>>
    BY <1>3 DEF AttachFillReadState
  <2>2. \A q \in Requests : guard'[q].generation = guard[q].generation
    BY <1>3 DEF AttachFillReadState, TypeOK, Guards
  <2>3. \A p \in Procs : /\ fill_locks'[p] = NoLock <=> fill_locks[p] = NoLock
                         /\ fill_locks[p] # NoLock =>
                              fill_locks'[p].generation = fill_locks[p].generation
    <3> SUFFICES ASSUME fill_locks[Home[r]] # NoLock,
                        fill_locks' = [fill_locks EXCEPT ![Home[r]].reader = r]
                 PROVE  /\ fill_locks'[Home[r]] # NoLock
                        /\ fill_locks'[Home[r]].generation = fill_locks[Home[r]].generation
      BY <1>3 DEF AttachFillReadState, TypeOK
    <3>1. [fill_locks[Home[r]] EXCEPT !.reader = r] \in LockStates
      BY DEF TypeOK, LockStates
    <3> QED BY <3>1 DEF TypeOK, LockStates
  <2>4. /\ pc[r] = "publish" /\ pc'[r] = "stream"
        /\ \A q \in Requests \ {r} :
             pc'[q] = pc[q] \/ (pc[q] = "wait_local" /\ pc'[q] = "lookup")
    BY <1>3 DEF AttachFillReadState, Woken, TypeOK
  <2>5. \A q \in Requests : /\ Holding(q)' <=> Holding(q)
                            /\ pc'[q] \in ReleasePcs <=> pc[q] \in ReleasePcs
                            /\ pc'[q] = "wait_local" => pc[q] = "wait_local"
    BY <2>4 DEF Holding, HoldingPcs, ReleasePcs
  <2> QED BY <2>1, <2>2, <2>3, <2>5, QuietStep
<1>4. ASSUME NEW r \in Requests, NEW st, NEW from \in {"stream", "commit"},
             NEW next \in {"stream", "commit", "drop"}, ReadStateStep(r, from, st, next)
      PROVE  LockInv'
  <2>1. UNCHANGED <<fill_locks, fill_lock_generation, guard, waitGen>>
    BY <1>4 DEF ReadStateStep
  <2>2. /\ pc[r] = from /\ pc'[r] = next
        /\ \A q \in Requests \ {r} :
             pc'[q] = pc[q] \/ (pc[q] = "wait_local" /\ pc'[q] = "lookup")
    BY <1>4 DEF ReadStateStep, Woken, TypeOK
  <2>3. \A q \in Requests : /\ Holding(q)' <=> Holding(q)
                            /\ pc'[q] \in ReleasePcs <=> pc[q] \in ReleasePcs
                            /\ pc'[q] = "wait_local" => pc[q] = "wait_local"
    BY <2>2 DEF Holding, HoldingPcs, ReleasePcs
  <2> QED BY <2>1, <2>3, QuietStep
<1>5. ASSUME NEW r \in Requests,
             \/ RecordBytesWritten(r) \/ MarkUpstreamComplete(r)
             \/ FinishFill(r) \/ FailFill(r) \/ FinalizeFails(r)
      PROVE  LockInv'
  BY <1>4, <1>5 DEF RecordBytesWritten, MarkUpstreamComplete, FinishFill, FailFill, FinalizeFails
<1>6. CASE Tick
  <2>1. \A p \in Procs : /\ fill_locks'[p] = NoLock <=> fill_locks[p] = NoLock
                         /\ fill_locks[p] # NoLock =>
                              fill_locks'[p].generation = fill_locks[p].generation
    <3> SUFFICES ASSUME NEW p \in Procs, fill_locks[p] # NoLock,
                        fill_locks'[p] = [fill_locks[p] EXCEPT !.age = Older(fill_locks[p].age)]
                 PROVE  /\ fill_locks'[p] # NoLock
                        /\ fill_locks'[p].generation = fill_locks[p].generation
      BY <1>6 DEF Tick
    <3>1. [fill_locks[p] EXCEPT !.age = Older(fill_locks[p].age)] \in LockStates
      BY OlderType DEF TypeOK, LockStates
    <3> QED BY <3>1 DEF TypeOK, LockStates
  <2> QED BY <1>6, <2>1, QuietStep DEF Tick, Holding
<1>7. CASE Expire
  BY <1>7, QuietStep DEF Expire, Holding
<1>8. CASE UNCHANGED vars
  BY <1>8, QuietStep DEF vars, Holding
<1> QED BY <1>1, <1>2, <1>3, <1>5, <1>6, <1>7, <1>8

\* LocalDecision: a new waiter waits on the lock's generation, whose holder
\* is in the table.
LEMMA WaitKeepsLockInv ==
  ASSUME TypeOK, LockInv, NEW r \in Requests, LocalDecision(r)
  PROVE  LockInv'
<1> USE FillLockAssumption
<1>1. UNCHANGED <<fill_locks, fill_lock_generation, guard>>
  BY DEF LocalDecision
<1>2. /\ pc[r] = "lookup"
      /\ pc'[r] \in {"stale", "served", "wait_local"}
      /\ pc'[r] = "wait_local" => waitGen'[r] = fill_locks[Home[r]].generation
      /\ fill_locks[Home[r]] # NoLock
      /\ \A q \in Requests \ {r} : pc'[q] = pc[q] /\ waitGen'[q] = waitGen[q]
  BY DEF LocalDecision, NeedsFill, LocalFresh, TypeOK
<1>3. \A q \in Requests : /\ Holding(q)' <=> Holding(q)
                          /\ pc'[q] \in ReleasePcs <=> pc[q] \in ReleasePcs
                          /\ Active(q)' <=> Active(q)
  BY <1>2 DEF Active, Holding, HoldingPcs, ReleasePcs
<1>4. GenerationsBounded'
  BY <1>1, <1>3 DEF LockInv, GenerationsBounded
<1>5. GenerationsUnique'
  BY <1>1, <1>3 DEF LockInv, GenerationsUnique
<1>6. LockHasHolder' /\ HolderKeepsLock'
  BY <1>1, <1>3 DEF LockInv, LockHasHolder, HolderKeepsLock
<1>7. NoLostWaiter'
  <2> SUFFICES ASSUME NEW q \in Requests, pc'[q] = "wait_local"
               PROVE  \E s \in Requests :
                        /\ Home[s] = Home[q]
                        /\ guard'[s].generation = waitGen'[q]
                        /\ Holding(s)' \/ pc'[s] \in ReleasePcs
    BY DEF NoLostWaiter
  <2>1. CASE q = r
    BY <1>1, <1>2, <1>3, <2>1 DEF LockInv, LockHasHolder
  <2>2. CASE q # r
    BY <1>1, <1>2, <1>3, <2>2 DEF LockInv, NoLostWaiter
  <2> QED BY <2>1, <2>2
<1> QED BY <1>4, <1>5, <1>6, <1>7 DEF LockInv

\* AcquireFillLock: the new generation is above every other of the process,
\* so an overtaken guard is no longer the one that acquired last.
LEMMA AcquireKeepsLockInv ==
  ASSUME TypeOK, LockInv, NEW r \in Requests, AcquireFillLock(r)
  PROVE  LockInv'
<1> USE FillLockAssumption
<1> DEFINE p == Home[r]
           g == fill_lock_generation[p] + 1
<1>1. /\ pc[r] = "lookup" /\ pc'[r] = "fetch"
      /\ guard'[r].generation = g
      /\ waitGen' = waitGen
      /\ \A q \in Requests \ {r} : pc'[q] = pc[q] /\ guard'[q] = guard[q]
  BY DEF AcquireFillLock, NeedsFill, TypeOK
<1>2. /\ p \in Procs
      /\ fill_lock_generation' = [fill_lock_generation EXCEPT ![p] = g]
      /\ fill_locks'[p].generation = g
      /\ \A o \in Procs \ {p} : fill_locks'[o] = fill_locks[o]
  <2> DEFINE lock == [generation |-> g, age |-> 0, share |-> ShareFp(r, entry), reader |-> NoReader]
  <2>1. p \in Procs
    OBVIOUS
  <2>2. fill_lock_generation' = [fill_lock_generation EXCEPT ![p] = g] /\ fill_locks' = [fill_locks EXCEPT ![p] = lock]
    BY Zenon DEF AcquireFillLock
  <2>3. lock.generation = g
    OBVIOUS
  <2>4. DOMAIN fill_locks = Procs
    BY DEF TypeOK
  <2> HIDE DEF p, g, lock
  <2> QED
    BY <2>1, <2>2, <2>3, <2>4
<1>3. fill_locks'[p] # NoLock
  <2>1. ShareFp(r, entry) \in Fingerprints \cup {NoFp} /\ 0 \in Ages
    BY DEF ShareFp, Ages
  <2>2. [generation |-> g, age |-> 0, share |-> ShareFp(r, entry), reader |-> NoReader]
          \in LockStates
    BY <1>2, <2>1 DEF LockStates, TypeOK
  <2> QED BY <1>2, <2>2 DEF AcquireFillLock, TypeOK
<1>4. /\ Active(r)' /\ Holding(r)' /\ ~Active(r) /\ pc'[r] # "wait_local"
      /\ \A q \in Requests \ {r} : /\ Active(q)' <=> Active(q)
                                   /\ Holding(q)' <=> Holding(q)
  BY <1>1 DEF Active, Holding, HoldingPcs, ReleasePcs
<1>5. \A q \in Requests \ {r} : Active(q) /\ Home[q] = p => guard[q].generation < g
  BY <1>2 DEF LockInv, GenerationsBounded, TypeOK, Guards
<1>6. g \in Nat /\ fill_lock_generation[p] \in Nat /\ fill_lock_generation'[p] = g
  BY <1>2 DEF TypeOK
<1>a. \A q \in Requests : guard[q].generation \in Nat
  BY DEF TypeOK, Guards
<1> HIDE DEF p, g
<1>7. GenerationsBounded'
  <2> SUFFICES ASSUME NEW q \in Requests, Active(q)'
               PROVE  guard'[q].generation <= fill_lock_generation'[Home[q]]
    BY DEF GenerationsBounded
  <2>1. CASE q = r
    BY <2>1, <1>1, <1>6 DEF p
  <2>2. CASE q # r /\ Home[q] = p
    BY <2>2, <1>1, <1>4, <1>5, <1>6, <1>a
  <2>3. CASE q # r /\ Home[q] # p
    BY <2>3, <1>1, <1>2, <1>4 DEF LockInv, GenerationsBounded, TypeOK
  <2> QED BY <2>1, <2>2, <2>3
<1>8. GenerationsUnique'
  <2>1. \A q \in Requests \ {r} :
          Active(q)' /\ Home[q] = p => guard'[q].generation # guard'[r].generation
    BY <1>1, <1>4, <1>5, <1>6, <1>a
  <2> QED BY <1>1, <1>4, <2>1 DEF LockInv, GenerationsUnique, p
<1>9. LockHasHolder'
  <2> SUFFICES ASSUME NEW o \in Procs, fill_locks'[o] # NoLock
               PROVE  \E q \in Requests :
                        /\ Home[q] = o
                        /\ Holding(q)'
                        /\ guard'[q].generation = fill_locks'[o].generation
    BY DEF LockHasHolder
  <2>1. CASE o = p
    BY <2>1, <1>1, <1>2, <1>4 DEF p
  <2>2. CASE o # p
    <3>1. PICK q \in Requests : /\ Home[q] = o
                                /\ Holding(q)
                                /\ guard[q].generation = fill_locks[o].generation
      BY <1>2, <2>2 DEF LockInv, LockHasHolder
    <3> QED BY <3>1, <2>2, <1>1, <1>2, <1>4 DEF p
  <2> QED BY <2>1, <2>2
<1>10. HolderKeepsLock'
  <2> SUFFICES ASSUME NEW q \in Requests, Holding(q)',
                      guard'[q].generation = fill_lock_generation'[Home[q]]
               PROVE  /\ fill_locks'[Home[q]] # NoLock
                      /\ fill_locks'[Home[q]].generation = guard'[q].generation
    BY DEF HolderKeepsLock
  <2>1. CASE q = r
    BY <2>1, <1>1, <1>2, <1>3 DEF p
  <2>2. CASE q # r /\ Home[q] = p
    <3>1. Active(q)
      BY <2>2, <1>4 DEF Active
    <3> QED BY <2>2, <3>1, <1>1, <1>5, <1>6, <1>a
  <2>3. CASE q # r /\ Home[q] # p
    <3>1. fill_lock_generation'[Home[q]] = fill_lock_generation[Home[q]]
      BY <2>3, <1>2 DEF TypeOK
    <3> QED BY <2>3, <3>1, <1>1, <1>2, <1>4 DEF LockInv, HolderKeepsLock
  <2> QED BY <2>1, <2>2, <2>3
<1>11. NoLostWaiter'
  <2> SUFFICES ASSUME NEW q \in Requests, pc'[q] = "wait_local"
               PROVE  \E s \in Requests :
                        /\ Home[s] = Home[q]
                        /\ guard'[s].generation = waitGen'[q]
                        /\ Holding(s)' \/ pc'[s] \in ReleasePcs
    BY DEF NoLostWaiter
  <2>1. PICK s \in Requests : /\ Home[s] = Home[q]
                              /\ guard[s].generation = waitGen[q]
                              /\ Active(s)
    BY <1>1, <1>4 DEF LockInv, NoLostWaiter, Active
  <2>2. s # r
    BY <2>1, <1>4
  <2> QED BY <2>1, <2>2, <1>1, <1>4 DEF Active
<1> QED BY <1>7, <1>8, <1>9, <1>10, <1>11 DEF LockInv

\* CacheFillGuard::drop compares generations: it removes its own lock only.
LEMMA DropLocalKeepsLockInv ==
  ASSUME TypeOK, LockInv, NEW r \in Requests, DropLocal(r)
  PROVE  LockInv'
<1> USE FillLockAssumption
<1> DEFINE p == Home[r]
<1>1. /\ Holding(r) /\ Active(r)
      /\ pc'[r] = "release"
      /\ \A q \in Requests \ {r} : pc'[q] = pc[q]
      /\ UNCHANGED <<fill_lock_generation, guard, waitGen>>
  BY DEF DropLocal, TypeOK, Active, Holding, HoldingPcs
<1>2. /\ p \in Procs
      /\ \A o \in Procs \ {p} : fill_locks'[o] = fill_locks[o]
      /\ \/ fill_locks'[p] = fill_locks[p]
         \/ fill_locks'[p] = NoLock /\ fill_locks[p].generation = guard[r].generation
      /\ fill_locks'[p] # NoLock => fill_locks[p].generation # guard[r].generation
  BY DEF DropLocal, TypeOK
<1>3. /\ ~Holding(r)' /\ pc'[r] \in ReleasePcs /\ pc'[r] # "wait_local"
      /\ \A q \in Requests : Active(q)' <=> Active(q)
      /\ \A q \in Requests \ {r} : Holding(q)' <=> Holding(q)
  BY <1>1 DEF Active, Holding, HoldingPcs, ReleasePcs
<1> HIDE DEF p
<1>4. GenerationsBounded' /\ GenerationsUnique'
  BY <1>1, <1>3 DEF LockInv, GenerationsBounded, GenerationsUnique
<1>5. LockHasHolder'
  <2> SUFFICES ASSUME NEW o \in Procs, fill_locks'[o] # NoLock
               PROVE  \E q \in Requests :
                        /\ Home[q] = o
                        /\ Holding(q)'
                        /\ guard'[q].generation = fill_locks'[o].generation
    BY DEF LockHasHolder
  <2>1. fill_locks'[o] = fill_locks[o]
    BY <1>2
  <2>2. PICK q \in Requests : /\ Home[q] = o
                              /\ Holding(q)
                              /\ guard[q].generation = fill_locks[o].generation
    BY <2>1 DEF LockInv, LockHasHolder
  <2>3. q # r
    BY <2>2, <1>2 DEF p
  <2> QED BY <2>1, <2>2, <2>3, <1>1, <1>3
<1>6. HolderKeepsLock'
  <2> SUFFICES ASSUME NEW q \in Requests, Holding(q)',
                      guard'[q].generation = fill_lock_generation'[Home[q]]
               PROVE  /\ fill_locks'[Home[q]] # NoLock
                      /\ fill_locks'[Home[q]].generation = guard'[q].generation
    BY DEF HolderKeepsLock
  <2>1. q # r /\ Holding(q) /\ Active(q)
    BY <1>3 DEF Active
  <2>2. /\ fill_locks[Home[q]] # NoLock
        /\ fill_locks[Home[q]].generation = guard[q].generation
    BY <2>1, <1>1 DEF LockInv, HolderKeepsLock
  <2>3. Home[q] = p => guard[q].generation # guard[r].generation
    BY <2>1, <1>1 DEF LockInv, GenerationsUnique, p
  <2> QED BY <2>2, <2>3, <1>1, <1>2
<1>7. NoLostWaiter'
  BY <1>1, <1>3 DEF LockInv, NoLostWaiter, Active
<1> QED BY <1>4, <1>5, <1>6, <1>7 DEF LockInv

\* The last part of the drop wakes every waiter of the guard's generation.
LEMMA DropNotifyKeepsLockInv ==
  ASSUME TypeOK, LockInv, NEW r \in Requests, DropNotify(r)
  PROVE  LockInv'
<1> USE FillLockAssumption
<1>1. /\ pc[r] = "notify" /\ pc'[r] = "filled"
      /\ \A q \in Requests \ {r} :
           pc'[q] = IF q \in Woken(Home[r], guard[r].generation) THEN "lookup" ELSE pc[q]
      /\ \A q \in Requests \ {r} : guard'[q] = guard[q]
      /\ UNCHANGED <<fill_locks, fill_lock_generation, waitGen>>
  BY DEF DropNotify, TypeOK
<1>2. /\ ~Holding(r) /\ ~Holding(r)' /\ ~Active(r)'
      /\ \A q \in Requests \ {r} : /\ Active(q)' <=> Active(q)
                                   /\ Holding(q)' <=> Holding(q)
  BY <1>1 DEF Active, Holding, HoldingPcs, ReleasePcs, Woken
<1>3. GenerationsBounded' /\ GenerationsUnique'
  BY <1>1, <1>2 DEF LockInv, GenerationsBounded, GenerationsUnique
<1>4. LockHasHolder'
  BY <1>1, <1>2 DEF LockInv, LockHasHolder
<1>5. HolderKeepsLock'
  BY <1>1, <1>2 DEF LockInv, HolderKeepsLock
<1>6. NoLostWaiter'
  <2> SUFFICES ASSUME NEW q \in Requests, pc'[q] = "wait_local"
               PROVE  \E s \in Requests :
                        /\ Home[s] = Home[q]
                        /\ guard'[s].generation = waitGen'[q]
                        /\ Active(s)'
    BY DEF NoLostWaiter, Active
  <2>1. q # r /\ pc[q] = "wait_local" /\ q \notin Woken(Home[r], guard[r].generation)
    BY <1>1
  <2>2. PICK s \in Requests : /\ Home[s] = Home[q]
                              /\ guard[s].generation = waitGen[q]
                              /\ Active(s)
    BY <2>1 DEF LockInv, NoLostWaiter, Active
  <2>3. s # r
    BY <2>1, <2>2 DEF Woken
  <2> QED BY <2>2, <2>3, <1>1, <1>2
<1> QED BY <1>3, <1>4, <1>5, <1>6 DEF LockInv

\* A crash takes a process's lock together with its holders and waiters.
LEMMA CrashKeepsLockInv ==
  ASSUME TypeOK, LockInv, NEW p \in MayCrash, Crash(p)
  PROVE  LockInv'
<1> USE FillLockAssumption
<1>1. /\ \A q \in Requests : Home[q] = p => pc'[q] = "dead"
      /\ \A q \in Requests : Home[q] # p => pc'[q] = pc[q] /\ guard'[q] = guard[q]
      /\ fill_locks'[p] = NoLock
      /\ \A o \in Procs \ {p} : fill_locks'[o] = fill_locks[o]
      /\ UNCHANGED <<fill_lock_generation, waitGen>>
  BY DEF Crash, TypeOK
<1>2. /\ \A q \in Requests : Home[q] = p =>
             ~Holding(q)' /\ ~Active(q)' /\ pc'[q] # "wait_local"
      /\ \A q \in Requests : Home[q] # p =>
             (Active(q)' <=> Active(q)) /\ (Holding(q)' <=> Holding(q))
  BY <1>1 DEF Active, Holding, HoldingPcs, ReleasePcs
<1>3. GenerationsBounded' /\ GenerationsUnique'
  BY <1>1, <1>2 DEF LockInv, GenerationsBounded, GenerationsUnique
<1>4. LockHasHolder'
  BY <1>1, <1>2 DEF LockInv, LockHasHolder
<1>5. HolderKeepsLock'
  BY <1>1, <1>2 DEF LockInv, HolderKeepsLock
<1>6. NoLostWaiter'
  BY <1>1, <1>2 DEF LockInv, NoLostWaiter, Active
<1> QED BY <1>3, <1>4, <1>5, <1>6 DEF LockInv

\* LockInv holds in every reachable state.
LEMMA LockInvariant == Spec => [](TypeOK /\ LockInv)
<1>1. Init => LockInv
  <2> SUFFICES ASSUME Init PROVE LockInv
    OBVIOUS
  <2>1. \A r \in Requests : ~Active(r) /\ ~Holding(r) /\ pc[r] # "wait_local"
    BY DEF Init, Active, Holding, HoldingPcs, ReleasePcs
  <2>2. \A p \in Procs : fill_locks[p] = NoLock
    BY DEF Init
  <2> QED BY <2>1, <2>2 DEF LockInv, GenerationsBounded, GenerationsUnique,
             LockHasHolder, HolderKeepsLock, NoLostWaiter
<1>2. TypeOK /\ LockInv /\ [Next]_vars => LockInv'
  BY QuietActions, WaitKeepsLockInv, AcquireKeepsLockInv, DropLocalKeepsLockInv,
     DropNotifyKeepsLockInv, CrashKeepsLockInv
     DEF Next, NextOf, LookupStep, FillStep
<1> QED BY <1>1, <1>2, TypeCorrect, PTL DEF Spec

\* CacheFillGuard::drop and lock takeover: the guard that acquired last in
\* its process still has the process's lock, whoever drops an older guard.
THEOREM HolderKeepsLockAlways == Spec => []HolderKeepsLock
<1>1. LockInv => HolderKeepsLock
  BY DEF LockInv
<1> QED BY <1>1, LockInvariant, PTL

\* fill_lock_decision and CacheFillGuard::drop: a lookup that waits on a
\* Notify always has a guard that has yet to notify it.
THEOREM NoLostWaiterAlways == Spec => []NoLostWaiter
<1>1. LockInv => NoLostWaiter
  BY DEF LockInv
<1> QED BY <1>1, LockInvariant, PTL

-----------------------------------------------------------------------------
(* The shared record and its owner.                                        *)

\* The record names a request that has acquired, and while that request
\* holds its guard the record is not released.
RecordInv ==
    record # NoRecord =>
        /\ pc[record.nonce] \in HoldingPcs \cup ReleasePcs \cup {"filled", "dead"}
        /\ Holding(record.nonce) => ~record.released

\* Refreshing or ageing a record keeps its owner and its release flag.
LEMMA RecordFields ==
  ASSUME TypeOK, record # NoRecord,
         \/ \E st : record' = [record EXCEPT !.age = 0, !.st = st]
         \/ \E a : record' = [record EXCEPT !.age = a]
  PROVE  record'.nonce = record.nonce /\ record'.released = record.released
<1>1. record \in RecordStates
  BY Zenon DEF TypeOK
<1> QED BY <1>1, Zenon DEF RecordStates

\* A step keeps RecordInv if it keeps the record's owner and release flag (or
\* removes the record), leads no owner back and makes nobody a holder.
LEMMA RecordQuietStep ==
  ASSUME TypeOK, RecordInv,
         record' # NoRecord =>
            /\ record # NoRecord
            /\ record'.nonce = record.nonce
            /\ record'.released = record.released,
         \A q \in Requests :
            /\ pc[q] \in HoldingPcs \cup ReleasePcs \cup {"filled", "dead"} =>
                 pc'[q] \in HoldingPcs \cup ReleasePcs \cup {"filled", "dead"}
            /\ Holding(q)' => Holding(q)
  PROVE  RecordInv'
  BY DEF RecordInv, TypeOK, RecordStates

\* Every step keeps RecordInv.
LEMMA RecordStep ==
  ASSUME TypeOK, RecordInv, [Next]_vars
  PROVE  RecordInv'
<1> USE FillLockAssumption
<1>1. ASSUME NEW r \in Requests,
             \/ FreshHit(r) \/ LocalDecision(r) \/ SharedBusy(r) \/ LoadExternal(r)
             \/ PollExternalLock(r) \/ ClearStaleFillLock(r)
             \/ OpenExternalFill(r) \/ PollExternalFill(r) \/ WaitTimeout(r)
      PROVE  RecordInv'
  <2>1. record' \in {record, NoRecord}
    BY <1>1 DEF FreshHit, LocalDecision, SharedBusy, LoadExternal, PollExternalLock,
       ClearStaleFillLock, OpenExternalFill, PollExternalFill, WaitTimeout
  <2>2. /\ \A q \in Requests \ {r} : pc'[q] = pc[q]
        /\ pc[r] \notin HoldingPcs \cup ReleasePcs \cup {"filled", "dead"}
        /\ pc'[r] \notin HoldingPcs
    BY <1>1 DEF FreshHit, LocalDecision, SharedBusy, LoadExternal, PollExternalLock,
       ClearStaleFillLock, OpenExternalFill, PollExternalFill, WaitTimeout,
       NeedsFill, TypeOK, HoldingPcs, ReleasePcs, WaitPcs
  <2> QED BY <2>1, <2>2, RecordQuietStep DEF Holding
<1>2. ASSUME NEW r \in Requests, AcquireFillLock(r)
      PROVE  RecordInv'
  <2>1. /\ pc[r] = "lookup" /\ pc' = [pc EXCEPT ![r] = "fetch"]
        /\ \/ record' = record
           \/ record' = NewRecord(r, ShareFp(r, entry))
    BY <1>2 DEF AcquireFillLock, NeedsFill
  <2>2. CASE record' = NewRecord(r, ShareFp(r, entry))
    BY <2>1, <2>2 DEF RecordInv, NewRecord, TypeOK, HoldingPcs
  <2>3. CASE record' = record
    <3>1. record # NoRecord => record.nonce \in Requests /\ record.nonce # r
      BY <2>1 DEF RecordInv, TypeOK, RecordStates, HoldingPcs, ReleasePcs
    <3> QED BY <2>1, <2>3, <3>1 DEF RecordInv, TypeOK, Holding
  <2> QED BY <2>1, <2>2, <2>3
<1>3. ASSUME NEW r \in Requests, NEW st, UpdateFillLock(r, st)
      PROVE  record' # NoRecord =>
               /\ record # NoRecord
               /\ record'.nonce = record.nonce
               /\ record'.released = record.released
  <2>1. CASE record' = record
    BY <2>1
  <2>2. CASE record # NoRecord /\ record' = [record EXCEPT !.age = 0, !.st = st]
    BY <2>2, RecordFields, Zenon
  <2> QED BY <1>3, <2>1, <2>2, Zenon DEF UpdateFillLock, OwnsRecord
<1>4. ASSUME NEW r \in Requests, PublishResponse(r) \/ CommitEntry(r) \/ DropLocal(r)
      PROVE  RecordInv'
  <2>1. record' # NoRecord =>
               /\ record # NoRecord
               /\ record'.nonce = record.nonce
               /\ record'.released = record.released
    BY <1>3, <1>4 DEF PublishResponse, CommitEntry, DropLocal
  <2>2. /\ \A q \in Requests \ {r} : pc'[q] = pc[q]
        /\ pc[r] \in HoldingPcs
        /\ pc'[r] \in HoldingPcs \cup ReleasePcs
    BY <1>4 DEF PublishResponse, CommitEntry, DropLocal, TypeOK, HoldingPcs, ReleasePcs
  <2> QED BY <2>1, <2>2, RecordQuietStep DEF Holding
<1>5. ASSUME NEW r \in Requests, AttachFillReadState(r)
      PROVE  RecordInv'
  <2>1. /\ record' = record /\ pc[r] = "publish" /\ pc'[r] = "stream"
        /\ \A q \in Requests \ {r} :
             pc'[q] = pc[q] \/ (pc[q] = "wait_local" /\ pc'[q] = "lookup")
    BY <1>5 DEF AttachFillReadState, Woken, TypeOK
  <2> QED BY <2>1, RecordQuietStep DEF Holding, HoldingPcs, ReleasePcs
<1>6. ASSUME NEW r \in Requests, NEW st, NEW from \in {"stream", "commit"},
             NEW next \in {"stream", "commit", "drop"}, ReadStateStep(r, from, st, next)
      PROVE  RecordInv'
  <2>1. record' # NoRecord =>
               /\ record # NoRecord
               /\ record'.nonce = record.nonce
               /\ record'.released = record.released
    BY <1>3, <1>6 DEF ReadStateStep
  <2>2. /\ pc[r] = from /\ pc'[r] = next
        /\ \A q \in Requests \ {r} :
             pc'[q] = pc[q] \/ (pc[q] = "wait_local" /\ pc'[q] = "lookup")
    BY <1>6 DEF ReadStateStep, Woken, TypeOK
  <2> QED BY <2>1, <2>2, RecordQuietStep DEF Holding, HoldingPcs, ReleasePcs
<1>7. ASSUME NEW r \in Requests,
             \/ RecordBytesWritten(r) \/ MarkUpstreamComplete(r)
             \/ FinishFill(r) \/ FailFill(r) \/ FinalizeFails(r)
      PROVE  RecordInv'
  BY <1>6, <1>7 DEF RecordBytesWritten, MarkUpstreamComplete, FinishFill, FailFill, FinalizeFails
<1>8. ASSUME NEW r \in Requests, DropExternal(r)
      PROVE  RecordInv'
  <2>1. /\ pc[r] = "release" /\ pc' = [pc EXCEPT ![r] = "notify"]
        /\ \/ record' = record
           \/ /\ record # NoRecord /\ record.nonce = r
              /\ record' = [record EXCEPT !.released = TRUE]
    BY <1>8 DEF DropExternal, ReleaseFillLock, OwnsRecord
  <2>2. CASE record' = record
    BY <2>1, <2>2, RecordQuietStep DEF Holding, HoldingPcs, ReleasePcs, TypeOK
  <2>3. CASE record # NoRecord /\ record.nonce = r
               /\ record' = [record EXCEPT !.released = TRUE]
    <3>1. record'.nonce = r
      BY <2>3 DEF TypeOK, RecordStates
    <3> QED BY <2>1, <3>1 DEF RecordInv, Holding, HoldingPcs, ReleasePcs, TypeOK
  <2> QED BY <2>1, <2>2, <2>3
<1>9. ASSUME NEW r \in Requests, DropNotify(r)
      PROVE  RecordInv'
  <2>1. /\ record' = record /\ pc[r] = "notify" /\ pc'[r] = "filled"
        /\ \A q \in Requests \ {r} :
             pc'[q] = pc[q] \/ (pc[q] = "wait_local" /\ pc'[q] = "lookup")
    BY <1>9 DEF DropNotify, Woken, TypeOK
  <2> QED BY <2>1, RecordQuietStep DEF Holding, HoldingPcs, ReleasePcs
<1>10. ASSUME NEW p \in MayCrash, Crash(p)
       PROVE  RecordInv'
  <2>1. record' = record /\ \A q \in Requests : pc'[q] \in {pc[q], "dead"}
    BY <1>10 DEF Crash, TypeOK
  <2> QED BY <2>1, RecordQuietStep DEF Holding, HoldingPcs
<1>11. CASE Tick
  <2>1. record' # NoRecord =>
               /\ record # NoRecord
               /\ record'.nonce = record.nonce
               /\ record'.released = record.released
    BY <1>11 DEF Tick, TypeOK, RecordStates
  <2> QED BY <1>11, <2>1, RecordQuietStep DEF Tick, Holding
<1>12. CASE Expire \/ UNCHANGED vars
  BY <1>12, RecordQuietStep DEF Expire, vars, Holding
<1> QED
  BY <1>1, <1>2, <1>4, <1>5, <1>7, <1>8, <1>9, <1>10, <1>11, <1>12
     DEF Next, NextOf, LookupStep, FillStep

\* try_acquire_fill_lock, clear_stale_fill_lock and release_fill_lock: the
\* record of a fill under way is taken by others only once it is stale.
THEOREM RecordTakenOnlyWhenStaleAlways == Spec => RecordTakenOnlyWhenStale
<1> USE FillLockAssumption
<1>1. Init => RecordInv
  BY DEF Init, RecordInv
<1>2. TypeOK /\ RecordInv /\ [Next]_vars => RecordInv'
  BY RecordStep
<1>3. ASSUME TypeOK, RecordInv, [Next]_vars, NEW r \in Requests,
             record # NoRecord, record.nonce = r, Holding(r), Holding(r)',
             \/ record' = NoRecord
             \/ record'.nonce # r
             \/ record'.released # record.released
      PROVE  record.age > LockAge
  <2>0. record \in RecordStates /\ ~record.released /\ record.age \in Nat
    BY <1>3 DEF RecordInv, TypeOK, RecordStates, Ages
  <2>1. SUFFICES ~RecordBusy
    BY <2>0, <1>3 DEF RecordBusy
  <2>a. ASSUME NEW q \in Requests
        PROVE  /\ fillState[q] \in FillStates
               /\ [fillState[q] EXCEPT !.response = TRUE] \in FillStates
               /\ [fillState[q] EXCEPT !.completed = TRUE] \in FillStates
               /\ [fillState[q] EXCEPT !.finished = TRUE, !.completed = TRUE] \in FillStates
               /\ [fillState[q] EXCEPT !.failed = TRUE] \in FillStates
    BY <1>3, UpdateTypes DEF TypeOK
  <2>2. ASSUME NEW q \in Requests, NEW st \in FillStates, UpdateFillLock(q, st) PROVE FALSE
    <3>1. record' = [record EXCEPT !.age = 0, !.st = st]
      BY <2>2, <1>3, Zenon DEF UpdateFillLock
    <3>2. record'.nonce = record.nonce /\ record'.released = record.released
      BY <3>1, <1>3, RecordFields, Zenon
    <3>3. [record EXCEPT !.age = 0, !.st = st] # NoRecord
      <4>1. 0 \in Ages
        BY DEF Ages
      <4>2. [record EXCEPT !.age = 0, !.st = st] \in RecordStates
        BY <2>0, <4>1, UpdateTypes, Zenon
      <4> QED BY <4>2, Zenon DEF FillLockAssumption
    <3> QED BY <3>1, <3>2, <3>3, <1>3, Zenon
  <2>3. record' # record
    BY <1>3
  <2>4. ASSUME NEW q \in Requests, AcquireFillLock(q) PROVE ~RecordBusy
    BY <2>3, <2>4 DEF AcquireFillLock
  <2>5. ASSUME NEW q \in Requests, ClearStaleFillLock(q) PROVE ~RecordBusy
    BY <2>3, <2>5 DEF ClearStaleFillLock
  <2>6. ASSUME NEW q \in Requests, NEW from, NEW st \in FillStates, NEW next, ReadStateStep(q, from, st, next)
        PROVE  FALSE
    BY <2>2, <2>3, <2>6 DEF ReadStateStep
  <2>7. ASSUME NEW q \in Requests, PublishResponse(q) PROVE FALSE
    BY <2>2, <2>7, <2>a DEF PublishResponse
  <2>8. ASSUME NEW q \in Requests, DropExternal(q) PROVE FALSE
    <3>1. q = r /\ pc[q] = "release"
      BY <2>3, <2>8, <1>3 DEF DropExternal, ReleaseFillLock, OwnsRecord
    <3> QED BY <3>1, <1>3 DEF Holding, HoldingPcs
  <2>9. CASE Tick
    <3>1. record' = [record EXCEPT !.age = Older(record.age)]
      BY <2>9, <1>3 DEF Tick
    <3>2. record'.nonce = record.nonce /\ record'.released = record.released
      BY <3>1, <1>3, RecordFields, Zenon
    <3>3. [record EXCEPT !.age = Older(record.age)] # NoRecord
      BY <2>0, OlderType DEF RecordStates
    <3> QED BY <3>1, <3>2, <3>3, <1>3, Zenon
  <2> QED BY <2>3, <2>4, <2>5, <2>6, <2>7, <2>8, <2>9, <2>a, <1>3
          DEF Next, NextOf, LookupStep, FillStep, FreshHit, LocalDecision, SharedBusy,
              LoadExternal, PollExternalLock, OpenExternalFill, PollExternalFill,
              WaitTimeout, AttachFillReadState, RecordBytesWritten,
              MarkUpstreamComplete, FinishFill, FailFill, FinalizeFails, CommitEntry, DropLocal,
              DropNotify, Crash, Expire, vars
<1>4. TypeOK /\ RecordInv /\ [Next]_vars =>
        [\A r \in Requests :
           /\ record # NoRecord
           /\ record.nonce = r
           /\ Holding(r) /\ Holding(r)'
           /\ \/ record' = NoRecord
              \/ record'.nonce # r
              \/ record'.released # record.released
           => record.age > LockAge]_vars
  BY <1>3
<1> QED BY <1>1, <1>2, <1>4, TypeCorrect, PTL DEF Spec, RecordTakenOnlyWhenStale

-----------------------------------------------------------------------------
(* Readers of another process's fill.                                      *)

EndedPcs == {"commit", "drop", "release", "notify", "filled", "dead"}
FollowerPcs == {"read_external", "served", "broken", "dead"}

\* A fill is finished or failed only by its last steps.
EndsLast ==
    \A r \in Requests : fillState[r].finished \/ fillState[r].failed => pc[r] \in EndedPcs

\* The record never runs ahead of the fill of the request it names.
RecordNotAhead ==
    record # NoRecord /\ record.st.finished => fillState[record.nonce].finished

\* Nor does what a reader has seen run ahead of the fill that it follows.
SnapshotNotAhead ==
    \A q \in Requests :
        /\ target[q] # NoTarget => pc[q] \in FollowerPcs \cup {"open_external"}
        /\ snap[q].finished => /\ pc[q] \in FollowerPcs
                               /\ target[q] # NoTarget
                               /\ fillState[target[q]].finished
        /\ pc[q] = "served" /\ target[q] # NoTarget => snap[q].finished

ReaderInv == EndsLast /\ RecordNotAhead /\ SnapshotNotAhead

\* A step keeps ReaderInv if it changes no flag, brings no finished record of
\* its own, and moves requests only forward.
LEMMA ReaderQuietStep ==
  ASSUME TypeOK, ReaderInv,
         UNCHANGED <<fillState, target, snap>>,
         record' # NoRecord /\ record'.st.finished =>
            /\ record # NoRecord
            /\ record'.nonce = record.nonce
            /\ record.st.finished,
         \A q \in Requests :
            /\ pc[q] \in EndedPcs => pc'[q] \in EndedPcs
            /\ pc[q] \in FollowerPcs => pc'[q] \in FollowerPcs
            /\ target[q] # NoTarget /\ pc[q] = "open_external" =>
                 pc'[q] \in FollowerPcs \cup {"open_external"}
            /\ pc'[q] = "served" => pc[q] = "served" \/ target[q] = NoTarget
  PROVE  ReaderInv'
<1>1. EndsLast'
  BY DEF ReaderInv, EndsLast
<1>2. RecordNotAhead'
  BY DEF ReaderInv, RecordNotAhead
<1>3. SnapshotNotAhead'
  BY DEF ReaderInv, SnapshotNotAhead
<1> QED BY <1>1, <1>2, <1>3 DEF ReaderInv

\* A step of the filling request r that only raises its flags.
LEMMA FlagStep ==
  ASSUME TypeOK, ReaderInv, NEW r \in Requests, NEW st \in FillStates,
         pc[r] \in HoldingPcs, fillState[r].finished => st.finished,
         fillState' = [fillState EXCEPT ![r] = st],
         UpdateFillLock(r, st),
         UNCHANGED <<target, snap>>,
         st.finished \/ st.failed => pc'[r] \in EndedPcs,
         pc'[r] \in HoldingPcs,
         \A q \in Requests \ {r} :
            pc'[q] = pc[q] \/ (pc[q] = "wait_local" /\ pc'[q] = "lookup")
  PROVE  ReaderInv'
<1>0. /\ fillState'[r] = st
      /\ \A q \in Requests \ {r} : fillState'[q] = fillState[q]
  BY DEF TypeOK
<1>1. EndsLast'
  <2>1. \A q \in Requests \ {r} : pc[q] \in EndedPcs => pc'[q] \in EndedPcs
    BY DEF EndedPcs
  <2> QED BY <1>0, <2>1 DEF ReaderInv, EndsLast
<1>2. RecordNotAhead'
  <2>1. CASE record' = record
    BY <2>1, <1>0 DEF ReaderInv, RecordNotAhead, TypeOK, RecordStates
  <2>2. CASE OwnsRecord(r) /\ record' = [record EXCEPT !.age = 0, !.st = st]
    <3>1. record \in RecordStates
      BY <2>2 DEF OwnsRecord, TypeOK
    <3>2. record'.nonce = r /\ record'.st = st
      BY <2>2, <3>1 DEF OwnsRecord, RecordStates
    <3> QED BY <1>0, <3>2 DEF RecordNotAhead
  <2> QED BY <2>1, <2>2 DEF UpdateFillLock
<1>3. SnapshotNotAhead'
  <2>1. \A q \in Requests \ {r} : /\ pc[q] \in FollowerPcs => pc'[q] = pc[q]
                                  /\ pc[q] = "open_external" => pc'[q] = pc[q]
                                  /\ pc'[q] = "served" => pc[q] = "served"
    BY DEF FollowerPcs
  <2>2. /\ pc[r] \notin FollowerPcs \cup {"open_external"}
        /\ pc'[r] \notin FollowerPcs \cup {"open_external"}
    BY DEF FollowerPcs, HoldingPcs
  <2>3. target[r] = NoTarget /\ ~snap[r].finished
    BY <2>2 DEF ReaderInv, SnapshotNotAhead
  <2>4. \A q \in Requests : target[q] # NoTarget /\ fillState[target[q]].finished
          => fillState'[target[q]].finished
    BY <1>0 DEF TypeOK
  <2>5. ASSUME NEW q \in Requests
        PROVE  /\ target[q] # NoTarget => pc'[q] \in FollowerPcs \cup {"open_external"}
               /\ snap[q].finished => pc'[q] \in FollowerPcs
               /\ pc'[q] = "served" /\ target[q] # NoTarget => snap[q].finished
    BY <2>1, <2>2, <2>3 DEF ReaderInv, SnapshotNotAhead
  <2> QED BY <2>4, <2>5 DEF ReaderInv, SnapshotNotAhead
<1> QED BY <1>1, <1>2, <1>3 DEF ReaderInv

\* The steps of a reader.
LEMMA ReaderActions ==
  ASSUME TypeOK, ReaderInv, NEW r \in Requests,
         LoadExternal(r) \/ OpenExternalFill(r) \/ PollExternalFill(r)
  PROVE  ReaderInv'
<1>1. UNCHANGED <<fillState, record>> /\ \A q \in Requests \ {r} :
         pc'[q] = pc[q] /\ target'[q] = target[q] /\ snap'[q] = snap[q]
  BY DEF LoadExternal, OpenExternalFill, PollExternalFill, TypeOK
<1>2. /\ pc[r] \in {"busy", "open_external", "read_external"}
      /\ pc[r] \notin EndedPcs
  BY DEF LoadExternal, OpenExternalFill, PollExternalFill, EndedPcs
<1>3. EndsLast'
  BY <1>1, <1>2 DEF ReaderInv, EndsLast
<1>4. RecordNotAhead'
  BY <1>1 DEF ReaderInv, RecordNotAhead
<1>5. FollowsRecord(r) /\ record.st.finished => fillState[target[r]].finished
  BY DEF ReaderInv, RecordNotAhead, FollowsRecord
<1>6. FollowsRecord(r) => target[r] # NoTarget
  BY FillLockAssumption DEF FollowsRecord, TypeOK, RecordStates
<1>7. /\ target'[r] # NoTarget => pc'[r] \in FollowerPcs \cup {"open_external"}
      /\ snap'[r].finished => /\ pc'[r] \in FollowerPcs
                              /\ target'[r] # NoTarget
                              /\ fillState[target'[r]].finished
      /\ pc'[r] = "served" /\ target'[r] # NoTarget => snap'[r].finished
  <2>1. CASE LoadExternal(r)
    <3>1. /\ pc[r] = "busy" /\ snap' = snap
          /\ \/ pc'[r] \in {"stale", "wait_external"} /\ target' = target
             \/ pc'[r] = "open_external"
      BY <2>1 DEF LoadExternal, TypeOK
    <3>2. target[r] = NoTarget /\ ~snap[r].finished
      BY <3>1 DEF ReaderInv, SnapshotNotAhead, FollowerPcs
    <3> QED BY <3>1, <3>2
  <2>2. CASE OpenExternalFill(r)
    <3>1. /\ pc[r] = "open_external" /\ target' = target
          /\ \/ FollowsRecord(r) /\ snap'[r] = record.st /\ pc'[r] = "read_external"
             \/ snap' = snap /\ pc'[r] = "broken"
      BY <2>2 DEF OpenExternalFill, TypeOK
    <3>2. ~snap[r].finished
      BY <3>1 DEF ReaderInv, SnapshotNotAhead, FollowerPcs
    <3> QED BY <3>1, <3>2, <1>5, <1>6 DEF FollowerPcs
  <2>3. CASE PollExternalFill(r)
    <3>1. /\ pc[r] = "read_external" /\ target' = target
          /\ snap'[r] = IF FollowsRecord(r) THEN record.st ELSE snap[r]
          /\ pc'[r] \in {"broken", "served", "read_external"}
          /\ pc'[r] = "served" => snap'[r].finished
      BY <2>3 DEF PollExternalFill, TypeOK
    <3>2. snap[r].finished => target[r] # NoTarget /\ fillState[target[r]].finished
      BY DEF ReaderInv, SnapshotNotAhead
    <3> QED BY <3>1, <3>2, <1>5, <1>6 DEF FollowerPcs
  <2> QED BY <2>1, <2>2, <2>3
<1>8. SnapshotNotAhead'
  BY <1>1, <1>7 DEF ReaderInv, SnapshotNotAhead
<1> QED BY <1>3, <1>4, <1>8 DEF ReaderInv

\* Every step keeps ReaderInv.
LEMMA FillReaderStep ==
  ASSUME TypeOK, ReaderInv, [Next]_vars
  PROVE  ReaderInv'
<1> USE FillLockAssumption
<1>1. ASSUME NEW r \in Requests,
             \/ FreshHit(r) \/ LocalDecision(r) \/ SharedBusy(r)
             \/ PollExternalLock(r) \/ ClearStaleFillLock(r) \/ WaitTimeout(r)
      PROVE  ReaderInv'
  <2>1. /\ UNCHANGED <<fillState, target, snap>>
        /\ record' \in {record, NoRecord}
    BY <1>1 DEF FreshHit, LocalDecision, SharedBusy, PollExternalLock,
       ClearStaleFillLock, WaitTimeout
  <2>2. /\ \A q \in Requests \ {r} : pc'[q] = pc[q]
        /\ pc[r] \in {"lookup"} \cup WaitPcs
    BY <1>1 DEF FreshHit, LocalDecision, SharedBusy, PollExternalLock,
       ClearStaleFillLock, WaitTimeout, NeedsFill, TypeOK, WaitPcs
  <2>3. pc[r] \notin EndedPcs \cup FollowerPcs \cup {"open_external"}
    BY <2>2 DEF EndedPcs, FollowerPcs, WaitPcs
  <2>4. target[r] = NoTarget
    BY <2>3 DEF ReaderInv, SnapshotNotAhead
  <2> QED BY <2>1, <2>2, <2>3, <2>4, ReaderQuietStep
<1>2. ASSUME NEW r \in Requests, AcquireFillLock(r)
      PROVE  ReaderInv'
  <2>1. /\ UNCHANGED <<fillState, target, snap>>
        /\ pc[r] = "lookup" /\ pc'[r] = "fetch"
        /\ \A q \in Requests \ {r} : pc'[q] = pc[q]
        /\ record' = record \/ record' = NewRecord(r, ShareFp(r, entry))
    BY <1>2 DEF AcquireFillLock, NeedsFill, TypeOK
  <2>2. ~NewRecord(r, ShareFp(r, entry)).st.finished
    BY DEF NewRecord, NewFillState
  <2> QED BY <2>1, <2>2, ReaderQuietStep DEF EndedPcs, FollowerPcs
<1>3. ASSUME NEW r \in Requests,
             LoadExternal(r) \/ OpenExternalFill(r) \/ PollExternalFill(r)
      PROVE  ReaderInv'
  BY <1>3, ReaderActions
<1>4. ASSUME NEW r \in Requests, PublishResponse(r)
      PROVE  ReaderInv'
  <2> DEFINE st == [fillState[r] EXCEPT !.response = TRUE]
  <2>1. /\ pc[r] = "fetch" /\ pc'[r] = "publish"
        /\ \A q \in Requests \ {r} : pc'[q] = pc[q]
        /\ fillState' = [fillState EXCEPT ![r] = st]
        /\ UpdateFillLock(r, st)
        /\ UNCHANGED <<target, snap>>
    BY <1>4 DEF PublishResponse, TypeOK
  <2>2. fillState[r] \in FillStates /\ st \in FillStates
    BY UpdateTypes DEF TypeOK
  <2>3. ~fillState[r].finished /\ ~fillState[r].failed
    BY <2>1 DEF ReaderInv, EndsLast, EndedPcs
  <2>4. ~st.finished /\ ~st.failed
    BY <2>2, <2>3, Zenon DEF FillStates
  <2> HIDE DEF st
  <2> QED BY <2>1, <2>2, <2>3, <2>4, FlagStep DEF HoldingPcs, EndedPcs
<1>5. ASSUME NEW r \in Requests,
             AttachFillReadState(r) \/ CommitEntry(r) \/ DropLocal(r) \/ DropNotify(r)
      PROVE  ReaderInv'
  <2>1. /\ UNCHANGED <<fillState, target, snap, record>>
        /\ pc[r] \in HoldingPcs \cup ReleasePcs
        /\ pc'[r] \in HoldingPcs \cup ReleasePcs \cup {"filled"}
        /\ pc[r] \in EndedPcs => pc'[r] \in EndedPcs
        /\ \A q \in Requests \ {r} :
             pc'[q] = pc[q] \/ (pc[q] = "wait_local" /\ pc'[q] = "lookup")
    BY <1>5 DEF AttachFillReadState, CommitEntry, DropLocal, DropNotify, Woken, TypeOK,
       HoldingPcs, ReleasePcs, EndedPcs
  <2>2. /\ pc[r] \notin FollowerPcs \cup {"open_external"}
        /\ pc'[r] # "served"
        /\ "wait_local" \notin EndedPcs \cup FollowerPcs
    BY <2>1 DEF HoldingPcs, ReleasePcs, FollowerPcs, EndedPcs
  <2> QED BY <2>1, <2>2, ReaderQuietStep
<1>6. ASSUME NEW r \in Requests, DropExternal(r)
      PROVE  ReaderInv'
  <2>1. /\ UNCHANGED <<fillState, target, snap>>
        /\ pc[r] = "release" /\ pc'[r] = "notify"
        /\ \A q \in Requests \ {r} : pc'[q] = pc[q]
    BY <1>6 DEF DropExternal, TypeOK
  <2>2. record' # NoRecord =>
          /\ record # NoRecord
          /\ record'.nonce = record.nonce
          /\ record'.st = record.st
    BY <1>6 DEF DropExternal, ReleaseFillLock, OwnsRecord, TypeOK, RecordStates
  <2> QED BY <2>1, <2>2, ReaderQuietStep DEF EndedPcs, FollowerPcs
<1>7. ASSUME NEW r \in Requests, NEW st \in FillStates, NEW from \in {"stream", "commit"},
             NEW next \in {"stream", "commit", "drop"}, ReadStateStep(r, from, st, next),
             fillState[r].finished => st.finished, from = "commit" => next # "stream",
             st.finished \/ st.failed => next # "stream"
      PROVE  ReaderInv'
  <2>1. /\ pc[r] = from /\ pc'[r] = next
        /\ \A q \in Requests \ {r} :
             pc'[q] = pc[q] \/ (pc[q] = "wait_local" /\ pc'[q] = "lookup")
        /\ UNCHANGED <<target, snap>>
    BY <1>7 DEF ReadStateStep, Woken, TypeOK
  <2>2. CASE guard[r].attached
    <3>1. fillState' = [fillState EXCEPT ![r] = st] /\ UpdateFillLock(r, st)
      BY <1>7, <2>2 DEF ReadStateStep
    <3> QED BY <1>7, <2>1, <2>2, <3>1, FlagStep DEF HoldingPcs, EndedPcs
  <2>3. CASE ~guard[r].attached
    <3>1. UNCHANGED <<fillState, record>>
      BY <1>7, <2>3 DEF ReadStateStep
    <3> QED BY <1>7, <2>1, <3>1, ReaderQuietStep DEF EndedPcs, FollowerPcs
  <2> QED BY <2>2, <2>3
<1>8. ASSUME NEW r \in Requests,
             \/ RecordBytesWritten(r) \/ MarkUpstreamComplete(r)
             \/ FinishFill(r) \/ FailFill(r) \/ FinalizeFails(r)
      PROVE  ReaderInv'
  <2> DEFINE completed == [fillState[r] EXCEPT !.completed = TRUE]
             finished == [fillState[r] EXCEPT !.finished = TRUE, !.completed = TRUE]
             failed == [fillState[r] EXCEPT !.failed = TRUE]
  <2>1. /\ fillState[r] \in FillStates /\ completed \in FillStates
        /\ finished \in FillStates /\ failed \in FillStates
    BY UpdateTypes DEF TypeOK
  <2>2. pc[r] = "stream" => ~fillState[r].finished /\ ~fillState[r].failed
    BY DEF ReaderInv, EndsLast, EndedPcs
  <2>3. completed.finished = fillState[r].finished /\ completed.failed = fillState[r].failed
    BY <2>1, Zenon DEF FillStates
  <2>4. finished.finished /\ failed.finished = fillState[r].finished
    BY <2>1, Zenon DEF FillStates
  <2>5. \/ pc[r] = "stream" /\ ReadStateStep(r, "stream", fillState[r], "stream")
        \/ pc[r] = "stream" /\ ReadStateStep(r, "stream", completed, "stream")
        \/ ReadStateStep(r, "stream", finished, "commit")
        \/ ReadStateStep(r, "stream", failed, "drop")
        \/ ReadStateStep(r, "commit", failed, "drop")
    BY <1>8 DEF RecordBytesWritten, MarkUpstreamComplete, FinishFill, FailFill, FinalizeFails,
       ReadStateStep
  <2> HIDE DEF completed, finished, failed
  <2> QED BY <1>7, <2>1, <2>2, <2>3, <2>4, <2>5
<1>9. ASSUME NEW p \in MayCrash, Crash(p)
      PROVE  ReaderInv'
  <2>1. /\ UNCHANGED <<fillState, target, snap, record>>
        /\ \A q \in Requests : pc'[q] \in {pc[q], "dead"}
    BY <1>9 DEF Crash, TypeOK
  <2> QED BY <2>1, ReaderQuietStep DEF EndedPcs, FollowerPcs
<1>10. CASE Tick
  <2>1. record' # NoRecord =>
          /\ record # NoRecord
          /\ record'.nonce = record.nonce
          /\ record'.st = record.st
    BY <1>10 DEF Tick, TypeOK, RecordStates
  <2> QED BY <1>10, <2>1, ReaderQuietStep DEF Tick
<1>11. CASE Expire \/ UNCHANGED vars
  BY <1>11, ReaderQuietStep DEF Expire, vars
<1> QED
  BY <1>1, <1>2, <1>3, <1>4, <1>5, <1>6, <1>8, <1>9, <1>10, <1>11
     DEF Next, NextOf, LookupStep, FillStep

\* stream_external_fill_body and update_fill_lock: a reader that reports the
\* end of another process's fill has followed that very fill to its end.
THEOREM ExternalReaderSawItsFillAlways == Spec => []ExternalReaderSawItsFill
<1>1. Init => ReaderInv
  BY DEF Init, ReaderInv, EndsLast, RecordNotAhead, SnapshotNotAhead, NewFillState
<1>2. TypeOK /\ ReaderInv /\ [Next]_vars => ReaderInv'
  BY FillReaderStep
<1>3. TypeOK /\ ReaderInv => ExternalReaderSawItsFill
  BY DEF TypeOK, ReaderInv, EndsLast, SnapshotNotAhead, ExternalReaderSawItsFill
<1> QED BY <1>1, <1>2, <1>3, TypeCorrect, PTL DEF Spec
=============================================================================
