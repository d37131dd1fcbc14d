------------------------------ MODULE Dispatch ------------------------------
(***************************************************************************)
(* The life of a request in handler/dispatch: the configuration it is      *)
(* served under, the choice of its virtual host and route, the checks that *)
(* come before the route's action, the proxied request, the counters, and  *)
(* the end of a gRPC response; concurrently with reloads, ACME challenges  *)
(* and clients that leave.                                                 *)
(*                                                                         *)
(* A scenario is the sequence of configurations the process is given, the  *)
(* requests, and how many requests the rate limiter lets through (module   *)
(* RateLimit models the limiter itself).                                   *)
(***************************************************************************)
EXTENDS Routing

CONSTANT
  DispatchScenarios   \* [configs, requests, tokens, challenges], a request for each client

(***************************************************************************)
(* What a scenario is made of.  An Option is a set of at most one element. *)
(***************************************************************************)
IsOption(S) == \A x, y \in S : x = y
IsSequence(s) == s \in Seq(Range(s))
PathType == [segs : Seq(STRING), slash : BOOLEAN]

IsRoute(r) ==
  /\ r.matcher.kind \in {"exact", "prefix", "preferred", "regex"}
  /\ r.matcher.kind # "regex" => r.matcher.path \in PathType
  /\ IsOption(r.grpc) /\ r.grpc \subseteq [service : STRING, method : STRING]
  /\ IsOption(r.strip) /\ r.strip \subseteq PathType
  /\ IsSequence(r.overrides)

IsRoutes(routes) == IsSequence(routes) /\ \A r \in Range(routes) : IsRoute(r)

IsNames(names) ==
  IsSequence(names) /\ \A n \in Range(names) : n.form \in {"exact", "dot", "leading", "trailing"} /\ n.labels \in Seq(STRING) \ {<<>>}

IsConfig(config) ==
  /\ IsRoutes(config.default.routes)
  /\ IsSequence(config.vhosts) /\ \A v \in Range(config.vhosts) : IsNames(v.names) /\ IsRoutes(v.routes)

IsRequest(q) ==
  /\ q.raw \in Seq(STRING) \ {<<>>} /\ q.host \in Seq(STRING)
  /\ IsOption(q.source) /\ q.forwarded \in Seq(Int) /\ q.ipHeader \in Seq(Int)

IsScenario(x) ==
  /\ IsSequence(x.configs) /\ x.configs # <<>> /\ \A config \in Range(x.configs) : IsConfig(config)
  /\ IsFiniteSet(DOMAIN x.requests) /\ \A c \in DOMAIN x.requests : IsRequest(x.requests[c])
  /\ x.tokens \in Nat

ASSUME DispatchAssumption == \A x \in DispatchScenarios : IsScenario(x)

VARIABLES
  scenario,    \* the scenario, or NoScenario
  active,      \* index of the configuration in force
  request,     \* request[c]: where the request of c is and what was decided
  totals,      \* HttpCounters: downstream requests and responses
  traffic,     \* TrafficStatsIndex: counters by route id, for the routes of the configuration in force
  grpcBody,    \* GrpcAccessLogBody by client, with the statuses it had recorded
  tokens,      \* what the rate limiter still lets through
  challenges   \* registered HTTP-01 tokens

dispatchVars == <<scenario, active, request, totals, traffic, grpcBody, tokens, challenges>>

Fresh == [pc |-> "new", config |-> 0, vhost |-> 0, route |-> {}, client |-> {}, status |-> 0, sent |-> {}]
FreshBody == [status |-> "none", completed |-> FALSE, finalized |-> FALSE, recorded |-> <<>>]
NoTraffic == [requests |-> 0, responses |-> 0, denied |-> 0, limited |-> 0]

Kind(c) == scenario.requests[c]
Config(c) == scenario.configs[request[c].config]

\* Virtual host 0 is the default one.
VhostRoutes(config, v) == IF v = 0 THEN config.default.routes ELSE config.vhosts[v].routes

RouteIds(config) == UNION {{r.id : r \in Range(VhostRoutes(config, v))} : v \in {0} \cup DOMAIN config.vhosts}

DispatchInit ==
  /\ scenario \in DispatchScenarios
  /\ active = 1
  /\ request = [c \in DOMAIN scenario.requests |-> Fresh]
  /\ totals = [requests |-> 0, responses |-> 0]
  /\ traffic = [id \in RouteIds(scenario.configs[1]) |-> NoTraffic]
  /\ grpcBody = [c \in DOMAIN scenario.requests |-> FreshBody]
  /\ tokens = scenario.tokens
  /\ challenges = scenario.challenges

NoScenario == [configs |-> <<>>, requests |-> <<>>, tokens |-> 0, challenges |-> {}]

DispatchOff ==
  /\ scenario = NoScenario /\ active = 0 /\ request = [c \in {} |-> Fresh]
  /\ totals = [requests |-> 0, responses |-> 0] /\ traffic = [id \in {} |-> NoTraffic]
  /\ grpcBody = [c \in {} |-> FreshBody] /\ tokens = 0 /\ challenges = {}

(***************************************************************************)
(* Counters, found by id in the index of the configuration in force        *)
(***************************************************************************)
Counted(index, ids, field) ==
  [id \in DOMAIN index |-> IF id \in ids THEN [index[id] EXCEPT ![field] = @ + 1] ELSE index[id]]

RecordRequest(ids) ==
  totals' = [totals EXCEPT !.requests = @ + 1] /\ traffic' = Counted(traffic, ids, "requests")

\* A request that is turned away is counted as a request and with its reason.
RecordRejected(ids, field) ==
  /\ totals' = [totals EXCEPT !.requests = @ + 1]
  /\ traffic' = Counted(Counted(traffic, ids, "requests"), ids, field)

RecordResponse(ids) ==
  totals' = [totals EXCEPT !.responses = @ + 1] /\ traffic' = Counted(traffic, ids, "responses")

RouteId(c) == {VhostRoutes(Config(c), request[c].vhost)[i].id : i \in request[c].route}

(***************************************************************************)
(* handle                                                                  *)
(***************************************************************************)
\* The snapshot of the active state, taken once.
TakeSnapshot(c) ==
  /\ request[c].pc = "new"
  /\ request' = [request EXCEPT ![c].pc = "snapshot", ![c].config = active]
  /\ UNCHANGED <<scenario, active, totals, traffic, grpcBody, tokens, challenges>>

PathOfRequest(c) == NormalizePath(Kind(c).raw)
GrpcOf(c) == GrpcMetadata(Kind(c).grpc, PathOfRequest(c))
ContextOf(c) == [path |-> PathOfRequest(c), grpc |-> GrpcOf(c)]
AddressOf(c) == ClientAddress(Config(c), Kind(c), Kind(c))

\* http01_response: the challenge prefix is the segment "acme" followed by one token.
ChallengeOf(c) ==
  LET path == PathOfRequest(c)
  IN  IF Len(path.segs) = 2 /\ ~path.slash /\ path.segs[1] = "acme" THEN {path.segs[2]} \cap challenges ELSE {}

VhostOf(c) == SelectVhost(Config(c).vhosts, Kind(c).host)
RouteOfRequest(c) == SelectRoute(VhostRoutes(Config(c), VhostOf(c)), ContextOf(c))
SelectedRoute(c) == VhostRoutes(Config(c), VhostOf(c))[CHOOSE i \in RouteOfRequest(c) : TRUE]

\* A challenge is answered before anything is selected or counted.
AnswerChallenge(c) ==
  /\ request[c].pc = "snapshot" /\ ChallengeOf(c) # {}
  /\ request' = [request EXCEPT ![c].pc = "done", ![c].status = 200]
  /\ UNCHANGED <<scenario, active, totals, traffic, grpcBody, tokens, challenges>>

Routed(c) == request[c].pc = "snapshot" /\ ChallengeOf(c) = {}
Select(c, pc, status) ==
  request' = [request EXCEPT ![c].pc = pc, ![c].status = status, ![c].vhost = VhostOf(c),
                             ![c].route = RouteOfRequest(c), ![c].client = {AddressOf(c)}]
SelectedIds(c) == {VhostRoutes(Config(c), VhostOf(c))[i].id : i \in RouteOfRequest(c)}

NoRoute(c) ==
  /\ Routed(c) /\ RouteOfRequest(c) = {}
  /\ Select(c, "answered", 404) /\ RecordRequest({})
  /\ UNCHANGED <<scenario, active, grpcBody, tokens, challenges>>

EarlyDataRejected(c) == Kind(c).early /\ ~SelectedRoute(c).early

RejectEarlyData(c) ==
  /\ Routed(c) /\ RouteOfRequest(c) # {} /\ EarlyDataRejected(c)
  /\ Select(c, "answered", 425) /\ RecordRequest(SelectedIds(c))
  /\ UNCHANGED <<scenario, active, grpcBody, tokens, challenges>>

Authorized(c) == Allows(SelectedRoute(c), AddressOf(c).ip)

Deny(c) ==
  /\ Routed(c) /\ RouteOfRequest(c) # {} /\ ~EarlyDataRejected(c) /\ ~Authorized(c)
  /\ Select(c, "answered", 403) /\ RecordRejected(SelectedIds(c), "denied")
  /\ UNCHANGED <<scenario, active, grpcBody, tokens, challenges>>

RejectRateLimited(c) ==
  /\ Routed(c) /\ RouteOfRequest(c) # {} /\ ~EarlyDataRejected(c) /\ Authorized(c)
  /\ SelectedRoute(c).limited /\ tokens = 0
  /\ Select(c, "answered", 429) /\ RecordRejected(SelectedIds(c), "limited")
  /\ UNCHANGED <<scenario, active, grpcBody, tokens, challenges>>

\* Mutant of Execute: the rate limiter is asked before the access control.
ExecuteLimitFirst(c) ==
  /\ Routed(c) /\ RouteOfRequest(c) # {} /\ ~EarlyDataRejected(c)
  /\ SelectedRoute(c).limited => tokens > 0
  /\ tokens' = IF SelectedRoute(c).limited THEN tokens - 1 ELSE tokens
  /\ IF Authorized(c) THEN Select(c, "executing", 0) ELSE Select(c, "answered", 403)
  /\ RecordRequest(SelectedIds(c))
  /\ UNCHANGED <<scenario, active, grpcBody, challenges>>

\* build_route_response is called: the upstream request is built from the route.
Execute(c) ==
  /\ Routed(c) /\ RouteOfRequest(c) # {} /\ ~EarlyDataRejected(c) /\ Authorized(c)
  /\ SelectedRoute(c).limited => tokens > 0
  /\ tokens' = IF SelectedRoute(c).limited THEN tokens - 1 ELSE tokens
  /\ Select(c, "executing", 0) /\ RecordRequest(SelectedIds(c))
  /\ UNCHANGED <<scenario, active, grpcBody, challenges>>

RouteTaken(c) == VhostRoutes(Config(c), request[c].vhost)[CHOOSE i \in request[c].route : TRUE]

\* The request sent upstream: its path and its headers.
SentRequest(c) ==
  LET route == RouteTaken(c)
  IN  [path |-> ProxyPath(Kind(c).raw, route.strip),
       headers |-> SanitizeRequestHeaders(Kind(c).headers, Kind(c).listed, CHOOSE a \in request[c].client : TRUE,
                                          route.preserveHost, Kind(c).grpc = "grpc-web", route.overrides)]

Forward(c) ==
  /\ request[c].pc = "executing" /\ RouteTaken(c).proxied
  /\ request' = [request EXCEPT ![c].pc = "forwarded", ![c].sent = {SentRequest(c)}]
  /\ UNCHANGED <<scenario, active, totals, traffic, grpcBody, tokens, challenges>>

\* The upstream's answer (or the proxy's own 502/504), or a return action.
ActionAnswers(c) ==
  /\ \/ request[c].pc = "forwarded"
     \/ request[c].pc = "executing" /\ ~RouteTaken(c).proxied
  /\ request' = [request EXCEPT ![c].pc = "answered", ![c].status = 200]
  /\ UNCHANGED <<scenario, active, totals, traffic, grpcBody, tokens, challenges>>

\* finalize_downstream_response and record_downstream_response; a gRPC response is
\* accounted for when its body ends.
FinishResponse(c) ==
  /\ request[c].pc = "answered"
  /\ request' = [request EXCEPT ![c].pc = IF GrpcOf(c) # {} THEN "streaming" ELSE "done"]
  /\ RecordResponse(RouteId(c))
  /\ UNCHANGED <<scenario, active, grpcBody, tokens, challenges>>

\* Mutant of FinishBody: every end of the stream, and the drop, counts.
FinishBodyEach(b, found) ==
  LET status == IF found THEN "given" ELSE b.status
  IN  [b EXCEPT !.status = status, !.finalized = TRUE, !.recorded = Append(@, status)]

\* GrpcAccessLogBody::finish, which may find a status in the frames of gRPC-Web it has
\* kept, and GrpcResponseFinalizer::finalize.
FinishBody(b, found) ==
  IF b.finalized THEN b
  ELSE LET status == IF found THEN "given" ELSE b.status
       IN  [b EXCEPT !.status = status, !.finalized = TRUE, !.recorded = Append(@, status)]

\* A status in the response headers, or in a frame of gRPC-Web before the last.
ObserveStatus(c) ==
  /\ request[c].pc = "streaming" /\ ~grpcBody[c].completed
  /\ grpcBody' = [grpcBody EXCEPT ![c].status = "given"]
  /\ UNCHANGED <<scenario, active, request, totals, traffic, tokens, challenges>>

\* poll_frame finds the last frame, the trailers or their status, an error, or the end;
\* and the end again whenever it is polled after that.
EndStream(c, found) ==
  /\ request[c].pc = "streaming"
  /\ LET b == grpcBody[c]
     IN  grpcBody' = [grpcBody EXCEPT ![c] = FinishBody([b EXCEPT !.completed = TRUE], found)]
  /\ UNCHANGED <<scenario, active, request, totals, traffic, tokens, challenges>>

\* mark_cancelled_if_dropped_early
MarkCancelled(b) ==
  IF b.completed \/ b.status # "none" THEN b ELSE [b EXCEPT !.status = "cancelled"]

\* The body is dropped, after the end of its stream or because the client left.
DropBody(c, found) ==
  /\ request[c].pc = "streaming"
  /\ request' = [request EXCEPT ![c].pc = "ended"]
  /\ LET b == grpcBody[c]
     IN  grpcBody' = [grpcBody EXCEPT ![c] = FinishBody(MarkCancelled(b), found)]
  /\ UNCHANGED <<scenario, active, totals, traffic, tokens, challenges>>

\* The connection is closed while handle is suspended: its future is dropped.
ClientLeaves(c) ==
  /\ request[c].pc \in {"new", "executing", "forwarded", "answered"}
  /\ request' = [request EXCEPT ![c].pc = IF @ = "new" THEN "never" ELSE "gone"]
  /\ UNCHANGED <<scenario, active, totals, traffic, grpcBody, tokens, challenges>>

\* Mutant of SyncTraffic: every reload starts the counters afresh.
SyncTrafficAfresh(index, config) == [id \in RouteIds(config) |-> NoTraffic]

\* build_traffic_stats_index: the counters of routes that stay are kept.
SyncTraffic(index, config) ==
  [id \in RouteIds(config) |-> IF id \in DOMAIN index THEN index[id] ELSE NoTraffic]

DispatchReload ==
  /\ active > 0 /\ active < Len(scenario.configs)
  /\ active' = active + 1
  /\ traffic' = SyncTraffic(traffic, scenario.configs[active + 1])
  /\ UNCHANGED <<scenario, request, totals, grpcBody, tokens, challenges>>

\* unregister_acme_http01_challenge
Unregister(t) ==
  /\ t \in challenges /\ challenges' = challenges \ {t}
  /\ UNCHANGED <<scenario, active, request, totals, traffic, grpcBody, tokens>>

DispatchNext ==
  \/ \E c \in DOMAIN request :
       \/ TakeSnapshot(c) \/ AnswerChallenge(c) \/ NoRoute(c) \/ RejectEarlyData(c) \/ Deny(c)
       \/ RejectRateLimited(c) \/ Execute(c) \/ Forward(c) \/ ActionAnswers(c) \/ FinishResponse(c)
       \/ ObserveStatus(c) \/ (\E found \in BOOLEAN : EndStream(c, found) \/ DropBody(c, found))
       \/ ClientLeaves(c)
  \/ DispatchReload
  \/ \E t \in challenges : Unregister(t)

DispatchSpec == DispatchInit /\ [][DispatchNext]_dispatchVars

----------------------------------------------------------------------------
(***************************************************************************)
(* Properties                                                              *)
(***************************************************************************)
Past(c) == DOMAIN request # {} /\ request[c].pc \notin {"new", "never", "snapshot"} /\ request[c].client # {}
InFlight == {c \in DOMAIN request : Past(c) /\ request[c].pc \in {"executing", "forwarded", "answered"}}
Abandoned == {c \in DOMAIN request : Past(c) /\ request[c].pc = "gone"}

\* A route outranks another for the same request: exact, then a preferred prefix no plain
\* prefix is longer than, then the first regex, then the longest prefix; gRPC routes that
\* say more come first.
Outranks(routes, i, j) ==
  LET class(k) == routes[k].matcher.kind
      longer(a, b) == TextLength(routes[a].matcher.path) > TextLength(routes[b].matcher.path)
      same(a, b) == TextLength(routes[a].matcher.path) = TextLength(routes[b].matcher.path)
      rank(k) == Candidate(routes, k).rank
      byGrpc == rank(i) > rank(j) \/ (rank(i) = rank(j) /\ i < j)
  IN  IF "exact" \in {class(i), class(j)} THEN class(i) = "exact" /\ (class(j) = "exact" => byGrpc)
      ELSE IF class(i) = "regex" /\ class(j) = "regex" THEN i < j
      ELSE IF "regex" \in {class(i), class(j)} THEN class(i) = "preferred" \/ class(j) = "prefix"
      ELSE longer(i, j) \/ (same(i, j) /\ (IF class(i) = class(j) THEN byGrpc ELSE class(i) = "preferred"))

\* The matching route that no matching route outranks, except that a preferred prefix
\* hides the regexes only when it is the longest prefix.
MostSpecific(routes, context) ==
  LET hits == {i \in DOMAIN routes : RouteMatches(routes[i], context)}
      prefixes == {i \in hits : routes[i].matcher.kind \in {"prefix", "preferred"}}
      hidden == {i \in prefixes : \E j \in prefixes : i # j /\ Outranks(routes, j, i)}
  IN  {i \in hits \ hidden : \A j \in (hits \ hidden) \ {i} : Outranks(routes, i, j)}

\* Virtual host v has a name for the host that no name of any virtual host is better than,
\* and is the first such; 0 when no name matches.
FirstBestVhost(vhosts, host, v) ==
  IF v = 0 THEN \A w \in DOMAIN vhosts : NameMatches(vhosts[w].names, host) = {}
  ELSE /\ v \in DOMAIN vhosts
       /\ \E p \in NameMatches(vhosts[v].names, host) :
            \A w \in DOMAIN vhosts : \A q \in NameMatches(vhosts[w].names, host) :
              ~Above(q, p) /\ (w < v => Above(p, q))

\* A request is served by the first virtual host whose names match its host best, and by
\* the route of it that matches and that no matching route outranks, wherever hosts and
\* routes stand in the file (select_vhost, select_route_with_context).
RouteIsMostSpecific ==
  \A c \in DOMAIN request : Past(c) =>
    /\ FirstBestVhost(Config(c).vhosts, Kind(c).host, request[c].vhost)
    /\ request[c].route = MostSpecific(VhostRoutes(Config(c), request[c].vhost), ContextOf(c))

\* A hop of a chain that is reached from its right through trusted hops only.
Reported(ip, hops, trusted) ==
  \E i \in DOMAIN hops : ip = hops[i] /\ \A j \in (i + 1) .. Len(hops) : hops[j] \in trusted

\* The address a request is authorized and limited by: nothing a peer that is not trusted
\* sends makes a difference; a chain of hops is followed from the right, the immediate
\* peer first, through trusted hops only.  Where a trusted peer names a PROXY source that
\* is not trusted, the chain is followed all the same and the source counts only if every
\* hop is trusted: that source may have written the chain (resolve_client_address tests
\* the immediate peer last).
ClientAddressVouched ==
  \A c \in DOMAIN request : Past(c) => \A a \in request[c].client :
    LET q == Kind(c)
        trusted == Config(c).trusted
        near == ImmediatePeer(q)
        chain == a.source = "x_forwarded_for"
    IN  /\ q.peer \notin trusted => a.source = "socket_peer" /\ a.ip = q.peer
        /\ a.source = "socket_peer" => a.ip \in {q.peer, near}
        /\ a.source = "client_ip_header" => Config(c).ipHeader
        /\ chain /\ near \in trusted => Reported(a.ip, Append(q.forwarded, near), trusted)
        /\ chain /\ near \notin trusted =>
             \/ Reported(a.ip, q.forwarded, trusted)
             \/ a.ip = near /\ Range(q.forwarded) \subseteq trusted

\* What the upstream is asked for is what was authorized: the path that selected the route
\* without its stripped prefix, with no dot segment left in it (build_proxy_uri normalises
\* the target a second time, from the raw one).
AuthorizedPathIsForwarded ==
  \A c \in DOMAIN request : \A sent \in request[c].sent :
    LET path == PathOfRequest(c)
    IN  /\ Range(sent.path.segs) \cap {".", "..", ""} = {}
        /\ NormalizePath(sent.path.segs \o (IF sent.path.slash THEN <<"">> ELSE <<>>)) = sent.path
        /\ \/ sent.path = path
           \/ \E p \in RouteTaken(c).strip : PrefixMatches(p, path) /\ p.segs \o sent.path.segs = path.segs

\* The upstream sees no connection-level header of the client's, only the upgrade and the
\* trailers this proxy asks for itself, and believes the address this proxy determined,
\* even when the client's Connection header names the very headers that carry it
\* (sanitize_request_headers).
ForwardedHeadersAreOurs ==
  \A c \in DOMAIN request : \A sent \in request[c].sent :
    LET overridden == {o.name : o \in Range(RouteTaken(c).overrides)}
        ours(h, v) == h \in overridden \/ (h \in DOMAIN sent.headers /\ sent.headers[h] = v)
    IN  /\ \A a \in request[c].client : ours("x-forwarded-for", a.forwardedFor)
        /\ ours("x-forwarded-proto", "proxy")
        /\ \A h \in (HopByHop \cup Kind(c).listed) \ overridden : h \in DOMAIN sent.headers =>
             \/ h \in {"connection", "upgrade"} /\ Upgrades(Kind(c).headers, Kind(c).listed)
             \/ h = "te" /\ sent.headers[h] = "trailers"
             \/ h = "content-type" /\ Kind(c).grpc = "grpc-web"
             \/ h \in {"host", "x-forwarded-for", "x-forwarded-proto", "x-forwarded-host"}

\* A request in early data is executed only by a route that accepts replays, and only an
\* authorized request takes from the rate limiter (the order of the checks in handle).
ChecksBeforeExecution ==
  scenario # NoScenario =>
    /\ \A c \in DOMAIN request : request[c].pc \in {"executing", "forwarded"} =>
         /\ Kind(c).early => RouteTaken(c).early
         /\ \A a \in request[c].client : Allows(RouteTaken(c), a.ip)
    /\ scenario.tokens - tokens <= Cardinality({c \in DOMAIN request : Past(c) /\ request[c].status \notin {403, 425, 404}})

\* Whatever is reloaded meanwhile, requests, responses and abandoned requests add up, and
\* the counters of a route that was never removed agree with them (record.rs,
\* build_traffic_stats_index).
CountersAddUp ==
  scenario # NoScenario =>
    /\ totals.requests = totals.responses + Cardinality(InFlight) + Cardinality(Abandoned)
    /\ \A id \in DOMAIN traffic :
         (\A k \in 1 .. active : id \in RouteIds(scenario.configs[k])) =>
           /\ traffic[id].requests =
                traffic[id].responses + Cardinality({c \in InFlight \cup Abandoned : id \in RouteId(c)})
           /\ traffic[id].denied + traffic[id].limited <= traffic[id].requests

\* A gRPC response is accounted for once, however often the end of its stream is found
\* and whether the body is dropped before or after it; as cancelled only if the stream was
\* not over, and without a status only if it was.
GrpcEndsOnce ==
  \A c \in DOMAIN request :
    LET b == grpcBody[c]
    IN  /\ Len(b.recorded) <= 1
        /\ request[c].pc = "ended" => b.recorded # <<>>
        /\ b.recorded = <<"cancelled">> => ~b.completed
        /\ b.recorded = <<"none">> => b.completed

\* Who a request comes from: the address it is checked by, and the headers the upstream
\* believes.
ClientVouched == ClientAddressVouched /\ ForwardedHeadersAreOurs

\* Only what was checked is executed: the route's checks come first, and the upstream is
\* asked for the path they were made for.
OnlyCheckedExecuted == ChecksBeforeExecution /\ AuthorizedPathIsForwarded
============================================================================
