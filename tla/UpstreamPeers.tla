--------------------------- MODULE UpstreamPeers ---------------------------
(***************************************************************************)
(* One upstream of a running configuration: the health registry that       *)
(* rginx-http keeps for its peers, the peer selection of the three load    *)
(* balancing policies, the forwarding of requests to the selected          *)
(* endpoints with failover, and the active health checker of               *)
(* rginx-runtime.  Requests and probes run concurrently; the registry's    *)
(* entries are updated one lock at a time, so each lock is a step.         *)
(*                                                                         *)
(* The endpoints of a peer share one PeerHealth: ensure_endpoint puts the  *)
(* logical peer's Arc under the endpoint's key.  An endpoint whose key is  *)
(* not the peer's url is unknown to the registry until a selection has     *)
(* ensured it.                                                             *)
(***************************************************************************)
EXTENDS Naturals, FiniteSets, Sequences, SequencesExt, FiniteSetsExt, Orders

CONSTANTS
    Peers,          \* urls of the upstream's peers
    Endpoints,      \* addresses the peers resolve to
    Upstreams,      \* the upstream's possible configurations
    Kinds,          \* requests: method, body, and the route's request_buffering
    Hashes,         \* values of stable_ip_hash
    Requests,       \* bound: requests in flight at the same time
    Threshold,      \* unhealthy_after_failures
    Required,       \* healthy_successes_required
    MaxFaults,      \* bound: failures of the peers, to requests and to probes
    NoEndpoint      \* no guard is held

Policies == {"round_robin", "ip_hash", "least_conn"}

\* What the registry and the selection read of an Upstream.  limit is
\* max_conns, 0 when there is none (validation refuses a 0); literal are the
\* endpoints whose dial authority is the authority in the peer's url.
UpstreamType == [peers : Seq(Peers), weight : [Peers -> Nat], backup : SUBSET Peers,
                 limit : [Peers -> Nat],
                 endpoints : [Peers -> Seq(Endpoints)], literal : SUBSET Endpoints,
                 policy : Policies, checked : BOOLEAN]

Distinct(s) == \A i, j \in DOMAIN s : s[i] = s[j] => i = j

\* Weights are positive (validation).  A peer is its url: each url is listed
\* once.  An address is listed once per peer (the resolver sorts and dedups),
\* and the key of an endpoint begins with the peer's url (build_endpoint).
ASSUME UpstreamAssumption ==
    \A u \in Upstreams :
        /\ u \in UpstreamType
        /\ Distinct(u.peers)
        /\ \A p \in Peers : u.weight[p] > 0 /\ Distinct(u.endpoints[p])
        /\ \A p, q \in Peers : p # q => ToSet(u.endpoints[p]) \cap ToSet(u.endpoints[q]) = {}
ASSUME PolicyAssumption ==
    /\ Threshold \in Nat \ {0} /\ Required \in Nat \ {0}
    /\ MaxFaults \in Nat /\ Hashes \subseteq Nat
    /\ IsFiniteSet(Requests) /\ NoEndpoint \notin Endpoints
    /\ Kinds \subseteq [buffering : {"on", "off", "auto"}, idempotent : BOOLEAN, trailers : BOOLEAN,
                        size : {"none", "small", "large"}, grpcWeb : BOOLEAN, limited : BOOLEAN]

VARIABLES
    upstream,   \* the configuration, chosen once
    cursor,     \* Upstream.cursor, modulo what the pools' weights can tell apart
    health,     \* PeerHealthRegistry.peers
    ensured,    \* keys of PeerHealthRegistry.endpoint_peers
    task,       \* the requests being forwarded
    probing,    \* peers of the probe round, each with the endpoints to probe
    faults,     \* failures so far
    steady,     \* history: peers selectable, unavailable ever since a selection began
    streak      \* history: good probes of a peer since its last bad one

vars == <<upstream, cursor, health, ensured, task, probing, faults, steady, streak>>
----------------------------------------------------------------------------
(* Peer order: rginx-core, config/upstream/selection.rs.                   *)

\* peer_indices_for_pool
Pool(isBackup) ==
    AtPositions(upstream.peers,
                {i \in DOMAIN upstream.peers : (upstream.peers[i] \in upstream.backup) = isBackup})

\* The weights of the first peers of a pool, summed.
WeightsUpTo(pool) ==
    LET sum[n \in 0 .. Len(pool)] == IF n = 0 THEN 0 ELSE sum[n - 1] + upstream.weight[pool[n]]
    IN  sum

\* total_weight_for_indices
WeightOf(pool) == WeightsUpTo(pool)[Len(pool)]

\* peer_position_for_weighted_slot
PeerForSlot(pool, slot) ==
    LET ends == WeightsUpTo(pool) IN pool[Min({i \in DOMAIN pool : slot < ends[i]})]

\* Mutant: the rotation goes by peers instead of slots.
UnweightedOrder(pool, start) ==
    [k \in DOMAIN pool |-> pool[((start + k - 1) % Len(pool)) + 1]]

\* weighted_peers_from_indices with a limit no smaller than the pool: the
\* peers in the order in which their first slot from start on comes up.
WeightedOrder(pool, start) ==
    LET total == WeightOf(pool)
        slots == {<<k, PeerForSlot(pool, (start + k - 1) % total)>> : k \in 1 .. total}
        first(p) == Min({slot[1] : slot \in {x \in slots : x[2] = p}})
    IN  Sorted(ToSet(pool), {pq \in ToSet(pool) \X ToSet(pool) : first(pq[1]) < first(pq[2])})

\* The cursor is only read modulo the weight of one of the two pools.  (In
\* the code it wraps at 2^64.)
CursorModulus ==
    LET w(b) == IF Pool(b) = <<>> THEN 1 ELSE WeightOf(Pool(b)) IN w(TRUE) * w(FALSE)

\* The order in which select_available_peers or least_conn looks at a pool.
PeerOrder(isBackup, hash) ==
    LET pool == Pool(isBackup)
    IN  IF pool = <<>> \/ upstream.policy = "least_conn" THEN pool
        ELSE WeightedOrder(pool, (IF upstream.policy = "ip_hash" THEN hash ELSE cursor) % WeightOf(pool))

\* The fetch_add of next_peers_in_pool.
CursorAfter(isBackup) ==
    IF upstream.policy = "round_robin" /\ Pool(isBackup) # <<>>
    THEN (cursor + 1) % CursorModulus ELSE cursor
----------------------------------------------------------------------------
(* The registry: proxy/health/registry/state.rs.                           *)

Healthy == [failures |-> 0, until |-> "none", pending |-> FALSE,
            unhealthy |-> FALSE, successes |-> 0, active |-> 0]

IsAvailable(h) == h.until # "cooling" /\ ~h.unhealthy

PeerOf(e) == CHOOSE p \in Peers : e \in ToSet(upstream.endpoints[p])

\* get_health: whether the registry finds an entry under the endpoint's key.
Known(e) == e \in ensured \cup upstream.literal

\* Mutant: a request's success clears the whole entry.
RecordSuccessAll(h) == [Healthy EXCEPT !.active = h.active]

RecordSuccess(h) == [h EXCEPT !.failures = 0, !.until = "none", !.pending = FALSE]

\* Mutant: a cooldown that is over is not taken out of the entry.
RecordFailureAfterExpiry(h) ==
    LET old == IF h.until = "expired" THEN [h EXCEPT !.failures = 0] ELSE h
        n == old.failures + 1
    IN  IF old.until # "cooling" /\ n >= Threshold
        THEN [old EXCEPT !.failures = n, !.until = "cooling", !.pending = TRUE]
        ELSE [old EXCEPT !.failures = n]

RecordFailure(h) ==
    LET old == IF h.until = "expired" THEN [h EXCEPT !.until = "none", !.failures = 0] ELSE h
        n == old.failures + 1
    IN  CASE old.until = "cooling" -> [old EXCEPT !.failures = n]
          [] old.until # "cooling" /\ n >= Threshold ->
                [old EXCEPT !.failures = n, !.until = "cooling", !.pending = TRUE]
          [] OTHER -> [old EXCEPT !.failures = n]

\* Mutant: one success more than required.
RecordActiveSuccessLate(h) ==
    IF ~h.unhealthy THEN h
    ELSE IF h.successes >= Required THEN [h EXCEPT !.unhealthy = FALSE, !.successes = 0]
    ELSE [h EXCEPT !.successes = @ + 1]

RecordActiveSuccess(h) ==
    IF ~h.unhealthy THEN h
    ELSE IF h.successes + 1 >= Required THEN [h EXCEPT !.unhealthy = FALSE, !.successes = 0]
    ELSE [h EXCEPT !.successes = @ + 1]

RecordActiveFailure(h) == [h EXCEPT !.unhealthy = TRUE, !.successes = 0]

IncrementActive(h) == [h EXCEPT !.active = @ + 1]

\* ActivePeerGuard::drop
DecrementActive(h) == [h EXCEPT !.active = IF @ > 0 THEN @ - 1 ELSE 0]

\* Mutant: only max_conns is looked at.
IsSelectableByLimit(p, n) == upstream.limit[p] = 0 \/ n < upstream.limit[p]

\* endpoint_is_selectable, with n active requests
IsSelectable(p, n) ==
    /\ IsAvailable(health[p])
    /\ upstream.limit[p] = 0 \/ n < upstream.limit[p]
----------------------------------------------------------------------------
(* Selection: proxy/health/registry/selection.rs.                          *)

\* prepare_request_body: the whole body is read, or known to be empty, before
\* a peer is selected.  size is what the size hint says; trailers, that the
\* client's trailers are to be preserved.
Collected(k) ==
    IF k.size = "none" THEN k.buffering # "off"
    ELSE \/ k.grpcWeb
         \/ k.buffering = "on" /\ ~k.trailers
         \/ k.buffering = "auto" /\ ~k.trailers /\ k.idempotent /\ k.size = "small"

\* Mutants: streamed bodies are thought replayable; any method is.
CanFailoverAnyBody(k) == k.buffering # "off" /\ k.idempotent
CanFailoverAnyMethod(k) == k.buffering # "off" /\ Collected(k)

CanFailover(k) == k.buffering # "off" /\ k.idempotent /\ Collected(k)

\* The number of endpoints prepare_forward_request asks for.
Limit(k) == IF CanFailover(k) THEN 2 ELSE 1

\* select_available_peers: the endpoints found, one of each peer in turn.
RoundsOf(found) ==
    LET before(i) == {j \in 1 .. i - 1 : PeerOf(found[j].endpoint) = PeerOf(found[i].endpoint)}
        depth(i) == Cardinality(before(i))
        earlier(i, j) == depth(i) < depth(j) \/ (depth(i) = depth(j) /\ i < j)
        taken == Arranged(found, {ij \in (DOMAIN found) \X (DOMAIN found) : earlier(ij[1], ij[2])})
    IN  [n \in DOMAIN found |-> taken[n].endpoint]

\* select_peers_by_least_conn_in_pool: the endpoints found, by the load they
\* would have (projected_least_conn_load), then by weight, order and address.
LeastConnOrder(found) ==
    LET weight(i) == upstream.weight[PeerOf(found[i].endpoint)]
        less(i, j) ==
            LET left == (found[i].active + 1) * weight(j)
                right == (found[j].active + 1) * weight(i)
            IN  \/ left < right
                \/ left = right /\ weight(i) > weight(j)
                \/ left = right /\ weight(i) = weight(j) /\ i < j
        sorted == Arranged(found, {ij \in (DOMAIN found) \X (DOMAIN found) : less(ij[1], ij[2])})
    IN  [n \in DOMAIN found |-> sorted[n].endpoint]

Take(s, n) == SubSeq(s, 1, IF n < Len(s) THEN n ELSE Len(s))

\* The endpoints a pool contributes to a selection that still wants n.
PoolChoice(found, n) ==
    Take(IF upstream.policy = "least_conn" THEN LeastConnOrder(found) ELSE RoundsOf(found), n)

Idle == [pc |-> "idle"]

\* A request looking at a pool; chosen are the endpoints of an earlier pool.
Selecting(kind, hash, isBackup, chosen) ==
    [pc |-> "select", kind |-> kind, hash |-> hash, isBackup |-> isBackup,
     order |-> PeerOrder(isBackup, hash), eps |-> <<>>, counted |-> <<>>, found |-> <<>>,
     peers |-> chosen]

\* A request with its endpoints, at the n-th of them.
Attempting(t, pc, chosen, n, guard) ==
    [pc |-> pc, kind |-> t.kind, peers |-> chosen, at |-> n, guard |-> guard]

\* prepare_forward_request up to the first await of select_peers.
Begin(r) ==
    /\ task[r].pc = "idle"
    /\ \E kind \in Kinds, hash \in IF upstream.policy = "ip_hash" THEN Hashes ELSE {0} :
          LET isBackup == Pool(FALSE) = <<>>
          IN  /\ task' = [task EXCEPT ![r] = Selecting(kind, hash, isBackup, <<>>)]
              /\ cursor' = CursorAfter(isBackup)
    /\ UNCHANGED <<upstream, health, ensured, probing, faults, streak>>

\* The orders in which the endpoints of a peer are examined.  least_conn
\* sorts what it found by address at the end.  The other policies sort the
\* endpoints first, by the one counter they share and then by address; the
\* counter is read twice per comparison and another request may come in
\* between, so any order can result.
EndpointOrders(p) ==
    IF upstream.policy = "least_conn" THEN {upstream.endpoints[p]}
    ELSE SetToSeqs(ToSet(upstream.endpoints[p]))

\* resolve_peer returned for the next peer of the pool, with its endpoints,
\* which are ensured, or with none.
Resolve(r) ==
    LET t == task[r]
    IN  /\ t.pc = "select" /\ t.order # <<>> /\ t.eps = <<>>
        /\ \/ \E eps \in EndpointOrders(Head(t.order)) :
                 /\ task' = [task EXCEPT ![r].order = Tail(@), ![r].eps = eps]
                 /\ ensured' = ensured \cup ToSet(eps)
                 /\ UNCHANGED faults
           \/ /\ faults < MaxFaults
              /\ faults' = faults + 1
              /\ task' = [task EXCEPT ![r].order = Tail(@)]
              /\ UNCHANGED ensured
        /\ UNCHANGED <<upstream, cursor, health, probing, streak>>

\* The loop body over the endpoints of a peer: active_requests is read, ...
CountActive(r) ==
    LET t == task[r]
        owner == PeerOf(Head(t.eps))
    IN  /\ t.pc = "select" /\ t.eps # <<>> /\ t.counted = <<>>
        /\ task' = [task EXCEPT ![r].counted = <<health[owner].active>>]
        /\ UNCHANGED <<upstream, cursor, health, ensured, probing, faults, streak>>

\* ... then, under another lock, whether the peer is available: the selectable
\* endpoints are kept.
Examine(r) ==
    LET t == task[r]
        e == Head(t.eps)
        n == t.counted[1]
        load == IF upstream.policy = "least_conn" THEN n ELSE 0
    IN  /\ t.pc = "select" /\ t.eps # <<>> /\ t.counted # <<>>
        /\ task' = [task EXCEPT ![r].eps = Tail(@), ![r].counted = <<>>,
                                ![r].found = IF IsSelectable(PeerOf(e), n)
                                             THEN Append(@, [endpoint |-> e, active |-> load])
                                             ELSE @]
        /\ UNCHANGED <<upstream, cursor, health, ensured, probing, faults, streak>>

\* Mutants: the backup pool is for requests without a primary only; the
\* endpoints of the backup pool are put first.
FinishPoolNoFill(r) ==
    LET t == task[r]
        chosen == t.peers \o PoolChoice(t.found, Limit(t.kind) - Len(t.peers))
    IN  /\ t.pc = "select" /\ t.order = <<>> /\ t.eps = <<>>
        /\ IF ~t.isBackup /\ chosen = <<>>
           THEN /\ task' = [task EXCEPT ![r] = Selecting(t.kind, t.hash, TRUE, chosen)]
                /\ cursor' = CursorAfter(TRUE)
           ELSE /\ task' = [task EXCEPT ![r] =
                               Attempting(t, IF chosen = <<>> THEN "refused" ELSE "attempt",
                                          chosen, 1, NoEndpoint)]
                /\ UNCHANGED cursor
        /\ UNCHANGED <<upstream, health, ensured, probing, faults, streak>>
FinishPoolBackupFirst(r) ==
    LET t == task[r]
        limit == Limit(t.kind)
        chosen == PoolChoice(t.found, limit - Len(t.peers)) \o t.peers
    IN  /\ t.pc = "select" /\ t.order = <<>> /\ t.eps = <<>>
        /\ IF ~t.isBackup /\ Len(chosen) < limit
           THEN /\ task' = [task EXCEPT ![r] = Selecting(t.kind, t.hash, TRUE, chosen)]
                /\ cursor' = CursorAfter(TRUE)
           ELSE /\ task' = [task EXCEPT ![r] =
                               Attempting(t, IF chosen = <<>> THEN "refused" ELSE "attempt",
                                          chosen, 1, NoEndpoint)]
                /\ UNCHANGED cursor
        /\ UNCHANGED <<upstream, health, ensured, probing, faults, streak>>

\* The end of a pool: on to the backup pool when the primary one was not
\* enough, to the first attempt otherwise, or to the answer "no healthy peers".
FinishPool(r) ==
    LET t == task[r]
        limit == Limit(t.kind)
        chosen == t.peers \o PoolChoice(t.found, limit - Len(t.peers))
    IN  /\ t.pc = "select" /\ t.order = <<>> /\ t.eps = <<>>
        /\ IF ~t.isBackup /\ Len(chosen) < limit
           THEN /\ task' = [task EXCEPT ![r] = Selecting(t.kind, t.hash, TRUE, chosen)]
                /\ cursor' = CursorAfter(TRUE)
           ELSE /\ task' = [task EXCEPT ![r] =
                               Attempting(t, IF chosen = <<>> THEN "refused" ELSE "attempt",
                                          chosen, 1, NoEndpoint)]
                /\ UNCHANGED cursor
        /\ UNCHANGED <<upstream, health, ensured, probing, faults, streak>>
----------------------------------------------------------------------------
(* Forwarding: proxy/forward/attempt/primary.rs and background.rs.         *)

Current(r) == task[r].peers[task[r].at]

\* can_retry_peer_request
CanRetry(t) == CanFailover(t.kind) /\ t.at < Len(t.peers)

SetHealth(p, h) == health' = [health EXCEPT ![p] = h]

\* build_for_peer and track_active_request; the request is on its way.
Attempt(r) ==
    /\ task[r].pc = "attempt"
    /\ task' = [task EXCEPT ![r].pc = "await", ![r].guard = Current(r)]
    /\ SetHealth(PeerOf(Current(r)), IncrementActive(health[PeerOf(Current(r))]))
    /\ UNCHANGED <<upstream, cursor, ensured, probing, faults, streak>>

\* record_peer_success.  The guard goes into the response body or the
\* tunnel, or ends with the call (304 refresh, stale answer).
Succeed(r) ==
    /\ SetHealth(PeerOf(Current(r)), RecordSuccess(health[PeerOf(Current(r))]))
    /\ \E pc \in {"responding", "unwind"} : task' = [task EXCEPT ![r].pc = pc]
    /\ UNCHANGED <<upstream, cursor, ensured, probing, faults, streak>>

\* A streamed body with a size limit must have been read to its end before
\* a response counts (wait_for_streaming_body).
AwaitsBody(k) == ~Collected(k) /\ k.limited

\* The upstream's response head arrived.
Respond(r) ==
    /\ task[r].pc = "await"
    /\ \/ ~AwaitsBody(task[r].kind) /\ Succeed(r)
       \/ /\ AwaitsBody(task[r].kind)
          /\ task' = [task EXCEPT ![r].pc = "body"]
          /\ UNCHANGED <<upstream, cursor, health, ensured, probing, faults, streak>>

\* finalize_streaming_request_body: Ok, or an answer that records nothing.
FinishBody(r) ==
    /\ task[r].pc = "body"
    /\ \/ Succeed(r)
       \/ /\ task' = [task EXCEPT ![r].pc = "unwind"]
          /\ UNCHANGED <<upstream, cursor, health, ensured, probing, faults, streak>>

\* An error or a timeout: record_peer_failure, then the next endpoint or an
\* error answer.
Fail(r) ==
    /\ task[r].pc = "await" /\ faults < MaxFaults
    /\ faults' = faults + 1
    /\ SetHealth(PeerOf(Current(r)), RecordFailure(health[PeerOf(Current(r))]))
    /\ task' = [task EXCEPT ![r].pc = IF CanRetry(task[r]) THEN "retry" ELSE "unwind"]
    /\ UNCHANGED <<upstream, cursor, ensured, probing, streak>>

\* An error that the client's body caused (413, 400): the peer is not blamed.
ClientBodyError(r) ==
    /\ task[r].pc = "await" /\ ~Collected(task[r].kind)
    /\ task' = [task EXCEPT ![r].pc = "unwind"]
    /\ UNCHANGED <<upstream, cursor, health, ensured, probing, faults, streak>>

\* The guard is dropped: at the end of the loop body, on return, when the
\* response body or the tunnel ends, or when the client goes away and the
\* whole future is dropped.
Release(r, t) ==
    /\ SetHealth(PeerOf(task[r].guard), DecrementActive(health[PeerOf(task[r].guard)]))
    /\ task' = [task EXCEPT ![r] = t]
    /\ UNCHANGED <<upstream, cursor, ensured, probing, faults, streak>>

\* Mutant: the guard of the failed attempt is kept.
RetryKeepsGuard(r) ==
    /\ task[r].pc = "retry"
    /\ task' = [task EXCEPT ![r] = Attempting(@, "attempt", @.peers, @.at + 1, NoEndpoint)]
    /\ UNCHANGED <<upstream, cursor, health, ensured, probing, faults, streak>>

Retry(r) ==
    /\ task[r].pc = "retry"
    /\ Release(r, Attempting(task[r], "attempt", task[r].peers, task[r].at + 1, NoEndpoint))

Finish(r) == task[r].pc \in {"unwind", "responding"} /\ Release(r, Idle)

Disconnect(r) == task[r].pc \in {"await", "body"} /\ Release(r, Idle)

\* Without a guard: the request was refused, its request to the peer could
\* not be built, or its client went away during the selection.
Abandon(r) ==
    /\ task[r].pc \in {"select", "refused", "attempt"}
    /\ task' = [task EXCEPT ![r] = Idle]
    /\ UNCHANGED <<upstream, cursor, health, ensured, probing, faults, streak>>
----------------------------------------------------------------------------
(* Active health checks: rginx-runtime health.rs, proxy active_probe.rs.   *)

\* Some peers are due; the next round waits for all of this one.
StartRound(due) ==
    /\ upstream.checked /\ DOMAIN probing = {} /\ due # {}
    /\ probing' = [p \in due |-> [resolved |-> FALSE, eps |-> <<>>]]
    /\ UNCHANGED <<upstream, cursor, health, ensured, task, faults, streak>>

\* The tasks of a round, with one finished or with what one has left to do.
WithoutProbe(p) == [q \in DOMAIN probing \ {p} |-> probing[q]]
ProbesLeft(p, eps) ==
    IF eps = <<>> THEN WithoutProbe(p)
    ELSE [probing EXCEPT ![p] = [resolved |-> TRUE, eps |-> eps]]

\* clients.for_upstream fails: the peer's own entry takes the failure.
ProbeWithoutClient(p) ==
    /\ p \in DOMAIN probing /\ ~probing[p].resolved /\ faults < MaxFaults
    /\ faults' = faults + 1
    /\ SetHealth(p, RecordActiveFailure(health[p]))
    /\ streak' = [streak EXCEPT ![p] = 0]
    /\ probing' = WithoutProbe(p)
    /\ UNCHANGED <<upstream, cursor, ensured, task>>

ProbeResolve(p) ==
    /\ p \in DOMAIN probing /\ ~probing[p].resolved
    /\ \/ probing' = ProbesLeft(p, upstream.endpoints[p]) /\ UNCHANGED faults
       \/ /\ faults < MaxFaults /\ faults' = faults + 1
          /\ probing' = WithoutProbe(p)
    /\ UNCHANGED <<upstream, cursor, health, ensured, task, streak>>

\* A result goes to the entry under the endpoint's key, if there is one.
Probed(p, h, n) ==
    LET known == Known(Head(probing[p].eps))
    IN  /\ SetHealth(p, IF known THEN h ELSE health[p])
        /\ streak' = [streak EXCEPT ![p] = IF known THEN n ELSE @]
        /\ probing' = ProbesLeft(p, Tail(probing[p].eps))
        /\ UNCHANGED <<upstream, cursor, ensured, task>>

ProbeGood(p) ==
    /\ p \in DOMAIN probing /\ probing[p].resolved
    /\ Probed(p, RecordActiveSuccess(health[p]), IF streak[p] < Required THEN streak[p] + 1 ELSE Required)
    /\ UNCHANGED faults

ProbeBad(p) ==
    /\ p \in DOMAIN probing /\ probing[p].resolved /\ faults < MaxFaults
    /\ faults' = faults + 1
    /\ Probed(p, RecordActiveFailure(health[p]), 0)

\* Time: the cooldown of a peer is over.
CooldownEnds(p) ==
    /\ health[p].until = "cooling"
    /\ SetHealth(p, [health[p] EXCEPT !.until = "expired"])
    /\ UNCHANGED <<upstream, cursor, ensured, task, probing, faults, streak>>
----------------------------------------------------------------------------
Init ==
    /\ upstream \in Upstreams
    /\ cursor = 0
    /\ health = [p \in Peers |-> Healthy]
    /\ ensured = {}
    /\ task = [r \in Requests |-> Idle]
    /\ probing = <<>>
    /\ faults = 0
    /\ steady = [r \in Requests |-> [up |-> {}, down |-> {}]]
    /\ streak = [p \in Peers |-> Required]

RequestStep(r) ==
    \/ Begin(r) \/ Resolve(r) \/ CountActive(r) \/ Examine(r) \/ FinishPool(r)
    \/ Attempt(r) \/ Respond(r) \/ FinishBody(r)
    \/ Fail(r) \/ ClientBodyError(r) \/ Retry(r) \/ Finish(r)
    \/ Disconnect(r) \/ Abandon(r)

Inside == {p \in Peers : p \in ToSet(upstream.peers)}

ProbeStep(p) == ProbeWithoutClient(p) \/ ProbeResolve(p) \/ ProbeGood(p) \/ ProbeBad(p)

\* History: r has just learnt that p resolves to nothing.
Unresolved(r, p) ==
    /\ task[r].pc = "select" /\ task'[r].pc = "select"
    /\ task[r].order # <<>> /\ Head(task[r].order) = p
    /\ task'[r].order = Tail(task[r].order) /\ task'[r].eps = <<>> /\ task[r].eps = <<>>

Watch ==
    steady' = [r \in Requests |->
        LET old == IF task[r].pc = "select" THEN steady[r] ELSE [up |-> Inside, down |-> Inside]
        IN  IF task'[r].pc # "select" THEN [up |-> {}, down |-> {}]
            ELSE [up |-> {p \in old.up : IsSelectable(p, health[p].active)' /\ ~Unresolved(r, p)},
                  down |-> {p \in old.down : ~IsAvailable(health'[p])}]]

Next ==
    /\ \/ \E r \in Requests : RequestStep(r)
       \/ \E due \in SUBSET Inside : StartRound(due)
       \/ \E p \in Inside : ProbeStep(p) \/ CooldownEnds(p)
    /\ Watch

Spec == Init /\ [][Next]_vars
----------------------------------------------------------------------------
Guards(p) == {r \in Requests : "guard" \in DOMAIN task[r] /\ task[r].guard # NoEndpoint
                                 /\ PeerOf(task[r].guard) = p}

FoundType == Seq([endpoint : Endpoints, active : Nat])
SelectTask == [pc : {"select"}, kind : Kinds, hash : Hashes \cup {0}, isBackup : BOOLEAN,
               order : Seq(Peers), eps : Seq(Endpoints), counted : Seq(Nat), found : FoundType,
               peers : Seq(Endpoints)]
AttemptTask == [pc : {"refused", "attempt", "await", "body", "retry", "unwind", "responding"},
                kind : Kinds, peers : Seq(Endpoints), at : {1, 2}, guard : Endpoints \cup {NoEndpoint}]
TaskType == {Idle} \cup SelectTask \cup AttemptTask
HealthType == [failures : Nat, until : {"none", "cooling", "expired"}, pending : BOOLEAN,
               unhealthy : BOOLEAN, successes : 0 .. Required - 1, active : Nat]

\* The types of the state.
TypeOK ==
    /\ upstream \in Upstreams
    /\ cursor \in Nat
    /\ health \in [Peers -> HealthType]
    /\ ensured \subseteq Endpoints
    /\ task \in [Requests -> TaskType]
    /\ DOMAIN probing \subseteq Peers
    /\ \A p \in DOMAIN probing : probing[p] \in [resolved : BOOLEAN, eps : Seq(Endpoints)]
    /\ faults \in 0 .. MaxFaults
    /\ steady \in [Requests -> [up : SUBSET Peers, down : SUBSET Peers]]
    /\ streak \in [Peers -> 0 .. Required]

\* active_requests, which least_conn and max_conns go by, is the number of
\* guards alive for the peer, whichever endpoint and whichever way (answer,
\* failover, error, disconnect, end of a body) the requests ended by.
ActiveRequestsExact == \A p \in Peers : health[p].active = Cardinality(Guards(p))

\* However its attempts end, by an error, a timeout or a half-read body, a
\* request whose method is not idempotent, whose body was not in hand before
\* the first attempt, or whose route does not buffer is given to one endpoint
\* only; the others get at most one more, which was selected before the first
\* failed.
FailoverIsSafe ==
    \A r \in Requests :
        LET t == task[r]
        IN  t.pc \notin {"idle", "select", "refused"} =>
                /\ t.at \in DOMAIN t.peers /\ t.at <= 2
                /\ t.at > 1 \/ Len(t.peers) > 1 =>
                      t.kind.idempotent /\ Collected(t.kind) /\ t.kind.buffering # "off"

\* A peer cools down only with Threshold failures in a row behind it, and
\* the recovery still to be announced: record_failure, record_success and the
\* end of the cooldown in any order keep the three fields of the passive
\* state in step.
CooldownEarned ==
    \A p \in Peers :
        /\ health[p].until # "none" => health[p].failures >= Threshold /\ health[p].pending
        /\ ~health[p].pending => health[p].failures < Threshold

\* A peer is out by the health checker exactly while fewer than Required good
\* probes in a row were recorded since its last bad one: no request's
\* outcome and no probe of another endpoint brings it back early.
ProbesDecide ==
    \A p \in Peers :
        /\ health[p].unhealthy <=> streak[p] < Required
        /\ health[p].unhealthy => health[p].successes = streak[p]

\* A peer is out for what happened to it and for nothing else, whether the
\* requests' failures or the checker's probes took it out.
HealthEarned == CooldownEarned /\ ProbesDecide

\* Round robin gives every peer its weight in first places over one turn of
\* the cursor, from wherever the cursor is.
WeightedShare ==
    upstream.policy = "round_robin" =>
        \A b \in BOOLEAN :
            LET pool == Pool(b)
                total == WeightOf(pool)
                leads == {<<k, WeightedOrder(pool, (cursor + k) % total)[1]>> : k \in 0 .. total - 1}
            IN  \A p \in ToSet(pool) : upstream.weight[p] = Cardinality({lead \in leads : lead[2] = p})

\* What the balancing policies go by is exact: the requests under way at a
\* peer for least_conn and max_conns, the weights for round robin.
BalancingSound == TypeOK /\ ActiveRequestsExact /\ WeightedShare

\* The step that ends r's selection, and what r has selected by it.
Selects(r) == task[r].pc = "select" /\ task'[r].pc \in {"attempt", "refused"}

\* A peer that was out during the whole of a selection is not selected.
SoundStep ==
    \A r \in Requests : Selects(r) =>
        \A e \in ToSet(task'[r].peers) : PeerOf(e) \notin steady[r].down

\* A selection that comes back with fewer endpoints than it asked for has
\* missed no peer that was selectable and resolved during the whole of it,
\* be it primary or backup: "no healthy peers" is never said too soon.
CompleteStep ==
    \A r \in Requests : Selects(r) /\ Len(task'[r].peers) < Limit(task[r].kind) =>
        \A p \in steady[r].up :
            ToSet(upstream.endpoints[p]) \subseteq ToSet(task'[r].peers)

\* A backup is selected only after every endpoint of every primary that was
\* selectable and resolved during the whole of the selection.
PrimariesStep ==
    \A r \in Requests : Selects(r) =>
        \A i \in DOMAIN task'[r].peers :
            PeerOf(task'[r].peers[i]) \in upstream.backup =>
                \A p \in steady[r].up \ upstream.backup :
                    ToSet(upstream.endpoints[p]) \subseteq ToSet(SubSeq(task'[r].peers, 1, i - 1))

\* Every selection is right for the whole time it took, whatever requests
\* and probes of others record meanwhile.
SelectionCorrect == [][SoundStep /\ CompleteStep /\ PrimariesStep]_vars
=============================================================================
