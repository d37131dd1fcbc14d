------------------------------ MODULE MCWaiting ------------------------------
(***************************************************************************)
(* The places where a request waits for another task, each from its own    *)
(* initial states: the fill lock of a cache entry, the body of a fill that *)
(* others share, the relay of a request body and the connect of an HTTP/3  *)
(* session.  The fairness is that of the modules, for the part that runs.  *)
(***************************************************************************)
EXTENDS MCFillLock, FillBody, BodyRelay, Http3Sessions

\* The requests for the fill lock: both in the first process, or one in each.
Company == [local |-> {r1, r2}, external |-> {r1, r3}]

VARIABLE part
waitingVars == <<vars, fillBodyVars, relayVars, sessionVars, part>>

WaitingInit ==
    /\ part \in DOMAIN Company \cup {"body", "relay", "sessions"}
    /\ Init
    /\ FillBodyInit /\ (part # "body" => plan.sized /\ source.pc = "body" /\ plan.limit = BodyLength)
    /\ RelayInit
    /\ SessionsInit

InPart(name, action, others) == part = name /\ action /\ UNCHANGED others /\ UNCHANGED part
OnLock(name, action) == InPart(name, action, <<fillBodyVars, relayVars, sessionVars>>)
OnBody(action) == InPart("body", action, <<vars, relayVars, sessionVars>>)
OnRelay(action) == InPart("relay", action, <<vars, fillBodyVars, sessionVars>>)
OnSessions(action) == InPart("sessions", action, <<vars, fillBodyVars, relayVars>>)

WaitingNext ==
    \/ \E name \in DOMAIN Company : OnLock(name, NextOf(Company[name]))
    \/ OnBody(FillBodyNext) \/ OnRelay(RelayNext) \/ OnSessions(SessionsNext)

WaitingFairness ==
    /\ \A name \in DOMAIN Company :
         /\ \A r \in Company[name] :
              /\ WF_waitingVars(OnLock(name, LookupStep(r)))
              /\ WF_waitingVars(OnLock(name, FillTaskStep(r)))
              /\ WF_waitingVars(OnLock(name, FinishFill(r) \/ FailFill(r)))
         /\ WF_waitingVars(OnLock(name, Tick))
    /\ WF_waitingVars(OnBody(SourceStep) \/ OnRelay(RelayStep))
    /\ WF_waitingVars(OnBody(WriterStep))
    /\ WF_waitingVars(OnBody(Land) \/ OnRelay(HandlerGetsAnswer \/ RequestTimesOut \/ FinalizeBody))
    /\ \A r \in Readers : WF_waitingVars(OnBody(ReaderStep(r)))
    /\ \A c \in Callers : WF_waitingVars(OnSessions(CallStep(c)))

WaitingSpec == WaitingInit /\ [][WaitingNext]_waitingVars /\ WaitingFairness

-----------------------------------------------------------------------------
\* Nobody takes a part of a body for the whole of it: not the cache, whatever ends the
\* fill, nor the upstream or the client's answer when a request body is cut off.
BodiesWhole == FillBodyTypeOK /\ StoredOnlyComplete /\ NoTruncatedBody /\ NoAnswerOverLimit
=============================================================================
