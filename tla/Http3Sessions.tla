--------------------------- MODULE Http3Sessions ---------------------------
(***************************************************************************)
(* The cached QUIC sessions of one HTTP/3 upstream client: requests for    *)
(* one session key share a session, the first of them connects and the     *)
(* others wait for it on a Notify.                                         *)
(*                                                                         *)
(* Requests are dropped at any time: their client leaves or their deadline *)
(* passes.  A session and a Notify are named by the connect they belong    *)
(* to, numbered in the order of connects.                                  *)
(***************************************************************************)
EXTENDS Naturals, FiniteSets

CONSTANTS
    Callers,       \* requests to the upstream
    MaxConnects    \* bound on the connects

ASSUME Http3Assumption == MaxConnects \in Nat

Sessions == 1 .. MaxConnects

VARIABLES
    cached,     \* sessions[key]: "none", "pending" or "ready", of which connect
    connects,   \* connects begun
    closed,     \* sessions with the closed flag
    call,       \* per request: pc, its connect or session, whether woken
    abandoned   \* history: connects whose request was dropped

sessionVars == <<cached, connects, closed, call, abandoned>>

NoSession == [kind |-> "none", of |-> 0]
Resting == [pc |-> "idle", of |-> 0, woken |-> FALSE]

SessionsInit ==
    /\ cached = NoSession
    /\ connects = 0
    /\ closed = {}
    /\ call = [c \in Callers |-> Resting]
    /\ abandoned = {}

At(c, pc) == call[c].pc = pc
Goto3(c, pc) == call' = [call EXCEPT ![c].pc = pc]
-----------------------------------------------------------------------------
(* session_for.                                                            *)

Ask(c) ==
    /\ At(c, "idle")
    /\ Goto3(c, "look")
    /\ UNCHANGED <<cached, connects, closed, abandoned>>

\* Under the sessions' lock: an open session is shared.
ShareSession(c) ==
    /\ At(c, "look")
    /\ cached.kind = "ready" /\ cached.of \notin closed
    /\ call' = [call EXCEPT ![c].pc = "using", ![c].of = cached.of]
    /\ UNCHANGED <<cached, connects, closed, abandoned>>

\* ... a pending one is waited for: its Notify is taken along,
FindPending(c) ==
    /\ At(c, "look")
    /\ cached.kind = "pending"
    /\ call' = [call EXCEPT ![c].pc = "register", ![c].of = cached.of]
    /\ UNCHANGED <<cached, connects, closed, abandoned>>

\* and the Notified is created when the lock has been released.
Register(c) ==
    /\ At(c, "register")
    /\ call' = [call EXCEPT ![c].pc = "waiting", ![c].woken = FALSE]
    /\ UNCHANGED <<cached, connects, closed, abandoned>>

Resume(c) ==
    /\ At(c, "waiting") /\ call[c].woken
    /\ Goto3(c, "look")
    /\ UNCHANGED <<cached, connects, closed, abandoned>>

CanConnect == cached.kind = "none" \/ (cached.kind = "ready" /\ cached.of \in closed)

\* Mutant: nothing tells the next request that a connect is under way.
ConnectUnannounced(c) ==
    /\ At(c, "look") /\ CanConnect
    /\ connects < MaxConnects
    /\ connects' = connects + 1
    /\ call' = [call EXCEPT ![c].pc = "connecting", ![c].of = connects + 1]
    /\ UNCHANGED <<cached, closed, abandoned>>

\* ... and without either the request connects itself.
Connect(c) ==
    /\ At(c, "look") /\ CanConnect
    /\ connects < MaxConnects
    /\ connects' = connects + 1
    /\ cached' = [kind |-> "pending", of |-> connects + 1]
    /\ call' = [call EXCEPT ![c].pc = "connecting", ![c].of = connects + 1]
    /\ UNCHANGED <<closed, abandoned>>

\* notify_waiters.
Woken3(n) == [c \in Callers |->
    IF call[c].pc = "waiting" /\ call[c].of = n THEN [call[c] EXCEPT !.woken = TRUE] ELSE call[c]]

Connected(c) ==
    /\ At(c, "connecting")
    /\ cached' = [kind |-> "ready", of |-> call[c].of]
    /\ call' = [Woken3(call[c].of) EXCEPT ![c].pc = "using"]
    /\ UNCHANGED <<connects, closed, abandoned>>

\* Mutant: a connect that fails wakes nobody.
FailSilently(c) ==
    /\ At(c, "connecting")
    /\ cached' = NoSession
    /\ Goto3(c, "failed")
    /\ UNCHANGED <<connects, closed, abandoned>>

\* The endpoint cannot be bound, the connect fails or times out.
ConnectFails(c) ==
    /\ At(c, "connecting")
    /\ cached' = NoSession
    /\ call' = [Woken3(call[c].of) EXCEPT ![c].pc = "failed"]
    /\ UNCHANGED <<connects, closed, abandoned>>
-----------------------------------------------------------------------------
(* request, the driver task and the response body.                         *)

\* A send or a receive fails: the session is marked closed.
UseFails(c) ==
    /\ At(c, "using")
    /\ closed' = closed \cup {call[c].of}
    /\ Goto3(c, "failed")
    /\ UNCHANGED <<cached, connects, abandoned>>

UseEnds(c) ==
    /\ At(c, "using")
    /\ Goto3(c, "served")
    /\ UNCHANGED <<cached, connects, closed, abandoned>>

\* The driver ends: the peer or the idle timeout closed the connection.
DriverCloses ==
    /\ cached.kind = "ready" /\ cached.of \notin closed
    /\ closed' = closed \cup {cached.of}
    /\ UNCHANGED <<cached, connects, call, abandoned>>

\* The future of the request is dropped, wherever it is.
DropCall(c) ==
    /\ call[c].pc \in {"look", "register", "waiting", "connecting", "using"}
    /\ abandoned' = IF At(c, "connecting") THEN abandoned \cup {call[c].of} ELSE abandoned
    /\ Goto3(c, "dropped")
    /\ UNCHANGED <<cached, connects, closed>>

CallStep(c) ==
    \/ ShareSession(c) \/ FindPending(c) \/ Register(c) \/ Resume(c)
    \/ Connect(c) \/ Connected(c) \/ ConnectFails(c) \/ UseFails(c) \/ UseEnds(c)

SessionsNext ==
    \/ \E c \in Callers : Ask(c) \/ CallStep(c) \/ DropCall(c)
    \/ DriverCloses

SessionsSpec == SessionsInit /\ [][SessionsNext]_sessionVars

\* connect_session ends by its timeout, the tasks are scheduled.
SessionsFairness == \A c \in Callers : WF_sessionVars(CallStep(c))
-----------------------------------------------------------------------------
Live(n) == \E c \in Callers : At(c, "connecting") /\ call[c].of = n

\* At most one request connects, and a pending entry is one that a request
\* is connecting for, or whose request was dropped: nothing removes the
\* entry then, and later requests wait for it until they are dropped
\* themselves.
PendingMeansConnecting ==
    /\ Cardinality({c \in Callers : At(c, "connecting")}) <= 1
    /\ cached.kind = "pending" => Live(cached.of) \/ cached.of \in abandoned

\* A request that waits for a session whose connect is under way is woken
\* when that ends, whether it worked or not, unless the connect is dropped.
WaitersResume ==
    \A c \in Callers, n \in Sessions :
        At(c, "waiting") /\ call[c].of = n /\ Live(n)
            ~> ~At(c, "waiting") \/ n \in abandoned
=============================================================================
