----------------------------- MODULE BodyRelay -----------------------------
(***************************************************************************)
(* One attempt of a request whose body is streamed to the upstream under a *)
(* limit on its size: the body of the client behind its idle timeout and   *)
(* its limit, the relay task, the channel of one frame, the upstream's     *)
(* client that takes the frames, and the handler that holds the upstream's *)
(* answer back until the relay reports how the body ended.                 *)
(***************************************************************************)
EXTENDS Naturals, Sequences

CONSTANTS
    BodyLimit,   \* max_request_body_bytes, in frames
    MaxFrames    \* bound on the frames a client sends

ASSUME BodyRelayAssumption == BodyLimit \in Nat /\ MaxFrames \in Nat

Failures == {"limit", "timeout", "broken"}

VARIABLES
    client,     \* frames read from the client, and how its body ended
    relay,      \* pc of the relay task and the item it is sending
    channel,    \* frame_tx to frame_rx, of one item
    taker,      \* the upstream's client: frames taken, how the body ended there
    answer,     \* what client.request has returned
    completion, \* the oneshot: "none", how the body ended, or "dropped"
    handler     \* "request", "finalize" or the status of the response

relayVars == <<client, relay, channel, taker, answer, completion, handler>>

Capacity == 1

RelayInit ==
    /\ client = [frames |-> 0, ended |-> "open"]
    /\ relay = [pc |-> "frame", item |-> "frame"]
    /\ channel = <<>>
    /\ taker = [frames |-> 0, saw |-> "open", dropped |-> FALSE]
    /\ answer = "none"
    /\ completion = "none"
    /\ handler = "request"
-----------------------------------------------------------------------------
(* The body of the client, polled by the relay: MaxBytesBody over          *)
(* IdleTimeoutBody.                                                        *)

RelayUnchanged == UNCHANGED <<channel, taker, answer, completion, handler>>

\* body.frame() returns a frame: within the limit it is passed on.
ClientFrame ==
    /\ relay.pc = "frame" /\ client.ended = "open"
    /\ client.frames < MaxFrames
    /\ client' = [frames |-> client.frames + 1,
                  ended |-> IF client.frames + 1 > BodyLimit THEN "limit" ELSE "open"]
    /\ relay' = [pc |-> "send", item |-> IF client'.ended = "limit" THEN "error" ELSE "frame"]
    /\ RelayUnchanged

\* Nothing comes for the idle timeout, or the client breaks off.  Only a
\* body that is polled times out.
ClientFails ==
    /\ relay.pc = "frame" /\ client.ended = "open"
    /\ \E how \in {"timeout", "broken"} : client' = [client EXCEPT !.ended = how]
    /\ relay' = [pc |-> "send", item |-> "error"]
    /\ RelayUnchanged

\* Trailers are the last frame of a body.
ClientTrailers ==
    /\ relay.pc = "frame" /\ client.ended = "open"
    /\ client' = [client EXCEPT !.ended = "end"]
    /\ relay' = [pc |-> "send", item |-> "trailers"]
    /\ RelayUnchanged

ClientEnds ==
    /\ relay.pc = "frame" /\ client.ended = "open"
    /\ client' = [client EXCEPT !.ended = "end"]
    /\ relay' = [relay EXCEPT !.pc = "complete"]
    /\ RelayUnchanged
-----------------------------------------------------------------------------
(* relay_streaming_request_body.                                           *)

AfterSend == [relay EXCEPT !.pc = IF relay.item = "frame" THEN "frame" ELSE "complete"]

\* Mutants: a closed channel is waited for; an error ends the relay without
\* being passed on.
SendToOpenChannel ==
    /\ relay.pc = "send"
    /\ Len(channel) < Capacity /\ ~taker.dropped
    /\ channel' = Append(channel, relay.item)
    /\ relay' = AfterSend
    /\ UNCHANGED <<client, taker, answer, completion, handler>>

SendFramesOnly ==
    /\ relay.pc = "send"
    /\ \/ /\ relay.item # "error" /\ Len(channel) < Capacity /\ ~taker.dropped
          /\ channel' = Append(channel, relay.item)
       \/ (taker.dropped \/ relay.item = "error") /\ UNCHANGED channel
    /\ relay' = AfterSend
    /\ UNCHANGED <<client, taker, answer, completion, handler>>

\* frame_tx.send: waits for room; with the receiver gone the frame is lost
\* and the relay goes on draining the client's body.
RelaySend ==
    /\ relay.pc = "send"
    /\ \/ /\ Len(channel) < Capacity /\ ~taker.dropped
          /\ channel' = Append(channel, relay.item)
       \/ taker.dropped /\ UNCHANGED channel
    /\ relay' = AfterSend
    /\ UNCHANGED <<client, taker, answer, completion, handler>>

\* frame_tx is dropped, then the completion is sent.
RelayCompletes ==
    /\ relay.pc = "complete"
    /\ relay' = [relay EXCEPT !.pc = "done"]
    /\ completion' = client.ended
    /\ UNCHANGED <<client, channel, taker, answer, handler>>

RelayStep == ClientFrame \/ ClientFails \/ ClientTrailers \/ ClientEnds \/ RelaySend \/ RelayCompletes
-----------------------------------------------------------------------------
(* The upstream's client, external: it polls RelayedRequestBody, sends     *)
(* what it gets and returns the response, maybe before the body's end.     *)

Polls == taker.saw = "open" /\ ~taker.dropped

TakeFrame ==
    /\ Polls /\ channel # <<>>
    /\ channel' = Tail(channel)
    /\ taker' = IF Head(channel) = "frame" THEN [taker EXCEPT !.frames = @ + 1]
                ELSE [taker EXCEPT !.saw = IF Head(channel) = "trailers" THEN "end" ELSE "error"]
    /\ UNCHANGED <<client, relay, answer, completion, handler>>

\* poll_recv returns None: every frame was taken and the sender is gone.
TakeEnd ==
    /\ Polls /\ channel = <<>> /\ relay.pc \in {"complete", "done"}
    /\ taker' = [taker EXCEPT !.saw = "end"]
    /\ UNCHANGED <<client, relay, channel, answer, completion, handler>>

\* The connection ends, or is not needed any more: the body is dropped.
TakerDrops ==
    /\ ~taker.dropped
    /\ taker' = [taker EXCEPT !.dropped = TRUE]
    /\ channel' = <<>>
    /\ UNCHANGED <<client, relay, answer, completion, handler>>

\* A response may come at any time, a failure too; a body that failed fails
\* the request.
UpstreamAnswers ==
    /\ handler = "request" /\ answer = "none"
    /\ answer' \in IF taker.saw = "error" THEN {"failed"} ELSE {"response", "failed"}
    /\ UNCHANGED <<client, relay, channel, taker, completion, handler>>
-----------------------------------------------------------------------------
(* forward_request and finalize_streaming_request_body.                    *)

Status(ended) ==
    CASE ended = "end" -> "passed"
      [] ended = "limit" -> "too_large"
      [] OTHER -> "refused"

\* wait_for_upstream_stage returns: the response is held back; an error is
\* answered, a body over the limit with its own status.
HandlerGetsAnswer ==
    /\ handler = "request" /\ answer # "none"
    /\ handler' = IF answer = "response" THEN "finalize"
                  ELSE IF taker.saw = "error" THEN Status(client.ended) ELSE "refused"
    /\ taker' = IF answer = "failed" THEN [taker EXCEPT !.dropped = TRUE] ELSE taker
    /\ channel' = IF answer = "failed" THEN <<>> ELSE channel
    /\ UNCHANGED <<client, relay, answer, completion>>

\* upstream_request_timeout: the future of the request is dropped.
RequestTimesOut ==
    /\ handler = "request" /\ answer = "none"
    /\ handler' = "refused"
    /\ taker' = [taker EXCEPT !.dropped = TRUE]
    /\ channel' = <<>>
    /\ UNCHANGED <<client, relay, answer, completion>>

\* Mutant: the response is not held back.
FinalizeAtOnce ==
    /\ handler = "finalize"
    /\ handler' = IF completion = "none" THEN "passed" ELSE Status(completion)
    /\ UNCHANGED <<client, relay, channel, taker, answer, completion>>

FinalizeBody ==
    /\ handler = "finalize" /\ completion # "none"
    /\ handler' = Status(completion)
    /\ UNCHANGED <<client, relay, channel, taker, answer, completion>>

TakerStep == TakeFrame \/ TakeEnd \/ TakerDrops
HandlerStep == UpstreamAnswers \/ HandlerGetsAnswer \/ RequestTimesOut \/ FinalizeBody

RelayNext == RelayStep \/ TakerStep \/ HandlerStep

RelaySpec == RelayInit /\ [][RelayNext]_relayVars

\* Relay and handler are tasks.  Nothing is assumed of the upstream: no timeout
\* of rginx makes it read on or break off once it has answered.
RelayFairness ==
    /\ WF_relayVars(RelayStep)
    /\ WF_relayVars(HandlerGetsAnswer \/ RequestTimesOut \/ FinalizeBody)
-----------------------------------------------------------------------------
\* An answer is passed on only for a request whose whole body was read and
\* kept to the limit, however early the upstream has answered.
NoAnswerOverLimit ==
    handler = "passed" => client.ended = "end" /\ client.frames <= BodyLimit

\* The upstream never takes a body for complete that the client did not end:
\* one over the limit, one that stalled and one that broke off end with an
\* error there.
NoTruncatedBody ==
    /\ taker.saw = "end" => client.ended = "end" /\ taker.frames = client.frames
    /\ taker.saw = "error" => client.ended \in Failures

\* The relay has a frame to send and the upstream has not taken the last one.
HeldUpByUpstream == relay.pc = "send" /\ Len(channel) = Capacity /\ ~taker.dropped

\* The response that is held back is released, or it is the upstream that stops
\* taking the body for good: the client's body, its limit and its timeouts, a
\* channel nobody reads any more and the completion never keep it.
AnswerReleased == <>[](handler # "finalize" \/ HeldUpByUpstream)
=============================================================================
