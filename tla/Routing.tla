------------------------------ MODULE Routing ------------------------------
(***************************************************************************)
(* What a request is matched against and who it is taken to come from:     *)
(* request_target.rs, router.rs, client_ip.rs and the matchers of          *)
(* rginx-core, and what the proxied request looks like (proxy/common.rs).  *)
(*                                                                         *)
(* A raw path is the sequence of its segments after the leading slash      *)
(* ("/a/" is <<"a", "">>); a normalised path is [segs, slash].  Segments   *)
(* and labels are one character long, so lengths of texts follow from      *)
(* their number.  A host is the sequence of its labels.  An address is a   *)
(* positive number; a token of a header is an address, BadToken or         *)
(* BlankToken.                                                             *)
(***************************************************************************)
EXTENDS Integers, Sequences, FiniteSets, SequencesExt

BadToken == 0
BlankToken == -1
Asterisk == <<"*">>

(***************************************************************************)
(* Paths                                                                   *)
(***************************************************************************)
PathOf(segs, slash) == [segs |-> segs, slash |-> slash \/ segs = <<>>]
RootPath == PathOf(<<>>, TRUE)

\* A ".." above the root ends the normalisation: the path is the root.
PushSegment(acc, segment) ==
  IF acc.above \/ segment \in {"", "."} THEN acc
  ELSE IF segment # ".." THEN [acc EXCEPT !.segs = Append(@, segment)]
  ELSE IF acc.segs = <<>> THEN [acc EXCEPT !.above = TRUE]
  ELSE [acc EXCEPT !.segs = Front(@)]

\* The segments left after the whole path was walked.
Walk(raw) ==
  LET after[n \in 0 .. Len(raw)] ==
        IF n = 0 THEN [segs |-> <<>>, above |-> FALSE] ELSE PushSegment(after[n - 1], raw[n])
  IN  after[Len(raw)]

NormalizePath(raw) ==
  LET walked == Walk(raw)
  IN  IF raw = Asterisk THEN PathOf(raw, FALSE)
      ELSE IF walked.above THEN RootPath
      ELSE PathOf(walked.segs, raw[Len(raw)] = "")

TextLength(path) == 2 * Len(path.segs) + (IF path.slash THEN 1 ELSE 0)

PrefixMatches(prefix, path) ==
  \/ prefix = RootPath
  \/ /\ IsPrefix(prefix.segs, path.segs)
     /\ (prefix.segs = path.segs /\ prefix.slash) => path.slash

\* A pattern is the set of the paths it matches.
MatcherMatches(m, path) ==
  CASE m.kind = "exact" -> path = m.path
    [] m.kind \in {"prefix", "preferred"} -> PrefixMatches(m.path, path)
    [] m.kind = "regex" -> path \in m.paths

\* grpc_service_method: exactly two segments.
GrpcMetadata(protocol, path) ==
  IF protocol = "none" \/ Len(path.segs) # 2 \/ path.slash THEN {}
  ELSE {[protocol |-> protocol, service |-> path.segs[1], method |-> path.segs[2]]}

GrpcMatches(g, meta) == g.service \in {"any", meta.service} /\ g.method \in {"any", meta.method}
GrpcRank(g) == Cardinality({f \in DOMAIN g : g[f] # "any"})

RouteMatches(route, context) ==
  /\ MatcherMatches(route.matcher, context.path)
  /\ \A g \in route.grpc : \E meta \in context.grpc : GrpcMatches(g, meta)

(***************************************************************************)
(* Routes and virtual hosts                                                *)
(***************************************************************************)
Candidate(routes, i) ==
  [index |-> i, length |-> TextLength(routes[i].matcher.path),
   preferred |-> routes[i].matcher.kind = "preferred",
   rank |-> IF routes[i].grpc = {} THEN 0 ELSE GrpcRank(CHOOSE g \in routes[i].grpc : TRUE)]

\* Mutant of MoreSpecific: a preferred prefix wins over a longer plain one.
PreferredFirst(existing, candidate) ==
  IF existing = {} THEN {candidate}
  ELSE LET e == CHOOSE x \in existing : TRUE
       IN  IF candidate.preferred # e.preferred THEN (IF candidate.preferred THEN {candidate} ELSE existing)
           ELSE IF candidate.length # e.length
           THEN (IF candidate.length > e.length THEN {candidate} ELSE existing)
           ELSE IF candidate.rank > e.rank THEN {candidate} ELSE existing

\* select_more_specific: length, then preferred, then the gRPC rank, then the order.
MoreSpecific(existing, candidate) ==
  IF existing = {} THEN {candidate}
  ELSE LET e == CHOOSE x \in existing : TRUE
       IN  IF candidate.length # e.length
           THEN (IF candidate.length > e.length THEN {candidate} ELSE existing)
           ELSE IF candidate.preferred # e.preferred
           THEN (IF candidate.preferred THEN {candidate} ELSE existing)
           ELSE IF candidate.rank # e.rank
           THEN (IF candidate.rank > e.rank THEN {candidate} ELSE existing)
           ELSE IF candidate.index < e.index THEN {candidate} ELSE existing

BestCandidate(routes, context, kinds) ==
  LET best[n \in 0 .. Len(routes)] ==
        IF n = 0 THEN {}
        ELSE IF routes[n].matcher.kind \in kinds /\ RouteMatches(routes[n], context)
        THEN MoreSpecific(best[n - 1], Candidate(routes, n)) ELSE best[n - 1]
  IN  best[Len(routes)]

FirstRegex(routes, context) ==
  LET hits == {i \in DOMAIN routes : routes[i].matcher.kind = "regex" /\ RouteMatches(routes[i], context)}
  IN  {i \in hits : \A j \in hits : i <= j}

\* The index of the selected route, as an Option.
SelectRoute(routes, context) ==
  LET exact == BestCandidate(routes, context, {"exact"})
      prefix == BestCandidate(routes, context, {"prefix", "preferred"})
      indices(candidates) == {c.index : c \in candidates}
  IN  IF exact # {} THEN indices(exact)
      ELSE IF \E c \in prefix : c.preferred THEN indices(prefix)
      ELSE IF FirstRegex(routes, context) # {} THEN FirstRegex(routes, context)
      ELSE indices(prefix)

LabelsLength(labels) == 2 * Len(labels) - 1
HasSuffix(host, labels) == Len(host) > Len(labels) /\ IsSuffix(labels, host)

\* match_server_name: the priority of the match, as an Option.
MatchServerName(pattern, host) ==
  LET n == LabelsLength(pattern.labels)
  IN  CASE pattern.form = "dot" ->
             IF host = pattern.labels \/ HasSuffix(host, pattern.labels) THEN {<<2, n>>} ELSE {}
        [] pattern.form = "leading" -> IF HasSuffix(host, pattern.labels) THEN {<<2, n>>} ELSE {}
        [] pattern.form = "trailing" ->
             IF Len(host) > Len(pattern.labels) /\ IsPrefix(pattern.labels, host) THEN {<<1, n>>} ELSE {}
        [] pattern.form = "exact" -> IF host = pattern.labels THEN {<<4, 0>>} ELSE {}

Above(p, q) == p[1] > q[1] \/ (p[1] = q[1] /\ p[2] > q[2])

NameMatches(names, host) == UNION {MatchServerName(n, host) : n \in Range(names)}

BestServerName(names, host) ==
  LET matches == NameMatches(names, host)
  IN  {p \in matches : \A q \in matches : ~Above(q, p)}

ConsiderVhost(best, v, found) ==
  IF found = {} THEN best
  ELSE LET p == CHOOSE x \in found : TRUE
       IN  IF best.vhost = 0 \/ Above(p, best.priority) THEN [vhost |-> v, priority |-> p] ELSE best

\* select_vhost: the first virtual host with the best match, or the default one (0).
SelectVhost(vhosts, host) ==
  LET best[n \in 0 .. Len(vhosts)] ==
        IF n = 0 THEN [vhost |-> 0, priority |-> <<0, 0>>]
        ELSE ConsiderVhost(best[n - 1], n, BestServerName(vhosts[n].names, host))
  IN  best[Len(vhosts)].vhost

\* RouteAccessControl::allows
Allows(route, ip) == ip \notin route.deny /\ (route.allow = {} \/ ip \in route.allow)

(***************************************************************************)
(* The client's address                                                    *)
(***************************************************************************)
ForwardedChain(tokens) ==
  IF tokens = <<>> \/ Range(tokens) \cap {BadToken, BlankToken} # {} THEN {} ELSE {tokens}

\* parse_client_ip_header: the first token that is not blank.
HeaderAddress(tokens) ==
  LET first == {i \in DOMAIN tokens : tokens[i] # BlankToken /\ \A j \in 1 .. (i - 1) : tokens[j] = BlankToken}
  IN  {tokens[i] : i \in first} \ {BadToken}

\* Mutant of SelectClient: the left-most address of the chain is believed.
SelectLeftmost(chain, immediate, trusted) == chain[1]

\* select_client_ip_with_immediate_peer: from the right, the immediate peer last.
SelectClient(chain, immediate, trusted) ==
  LET untrusted == {i \in DOMAIN chain : chain[i] \notin trusted}
  IN  IF untrusted # {} THEN chain[CHOOSE i \in untrusted : \A j \in untrusted : j <= i]
      ELSE IF immediate \notin trusted THEN immediate ELSE chain[1]

\* The PROXY protocol's source, or the socket's peer.
ImmediatePeer(connection) ==
  IF connection.source = {} THEN connection.peer ELSE CHOOSE s \in connection.source : TRUE

ClientAddress(server, connection, request) ==
  LET immediate == ImmediatePeer(connection)
      header == IF server.ipHeader THEN HeaderAddress(request.ipHeader) ELSE {}
      chain == ForwardedChain(request.forwarded)
      answer(ip, for, source) == [ip |-> ip, forwardedFor |-> for, source |-> source]
  IN  IF connection.peer \notin server.trusted
      THEN answer(connection.peer, <<connection.peer>>, "socket_peer")
      ELSE IF header # {}
      THEN LET ip == CHOOSE x \in header : TRUE IN answer(ip, <<ip, immediate>>, "client_ip_header")
      ELSE IF chain = {} THEN answer(immediate, <<immediate>>, "socket_peer")
      ELSE LET hops == CHOOSE c \in chain : TRUE
           IN  answer(SelectClient(hops, immediate, server.trusted), Append(hops, immediate), "x_forwarded_for")

(***************************************************************************)
(* The proxied request                                                     *)
(***************************************************************************)
\* Mutant of ProxyPath: the raw target is forwarded.
ProxyRawPath(raw, strip) == PathOf(SelectSeq(raw, LAMBDA s : s # ""), raw[Len(raw)] = "")

\* build_proxy_uri: a prefix with a trailing slash is stripped only from itself.
ProxyPath(raw, strip) ==
  LET path == NormalizePath(raw)
      rest(p) == SubSeq(path.segs, Len(p.segs) + 1, Len(path.segs))
      strips(p) == /\ IsPrefix(p.segs, path.segs)
                   /\ p.slash => p.segs = path.segs /\ path.slash
  IN  IF \E p \in strip : strips(p)
      THEN LET p == CHOOSE x \in strip : TRUE
           IN  IF rest(p) = <<>> THEN RootPath ELSE PathOf(rest(p), path.slash)
      ELSE path

HopByHop == {"connection", "te", "trailer", "transfer-encoding", "upgrade", "keep-alive",
             "proxy-authenticate", "proxy-authorization", "proxy-connection"}

\* extract_upgrade_protocol: Connection names it and Upgrade is there.
Upgrades(headers, listed) == "upgrade" \in listed /\ "upgrade" \in DOMAIN headers

\* Mutant of WithoutHopByHop: only the fixed names are removed.
WithoutFixedHopByHop(headers, listed) ==
  LET kept == IF Upgrades(headers, listed) THEN {"connection", "upgrade"} ELSE {}
  IN  [h \in DOMAIN headers \ (HopByHop \ kept) |-> headers[h]]

\* remove_hop_by_hop_headers: the fixed names and those Connection lists; an upgrade keeps
\* Connection and Upgrade.
WithoutHopByHop(headers, listed) ==
  LET kept == IF Upgrades(headers, listed) THEN {"connection", "upgrade"} ELSE {}
      listedGone == IF Upgrades(headers, listed) THEN listed \ {"upgrade"} ELSE listed
  IN  [h \in DOMAIN headers \ (listedGone \cup (HopByHop \ kept)) |-> headers[h]]

Insert(headers, name, value) == [h \in DOMAIN headers \cup {name} |-> IF h = name THEN value ELSE headers[h]]

\* preserved_te_trailers_value: TE is "trailers" and nothing else.
TeTrailers(headers) == "te" \in DOMAIN headers /\ headers["te"] = "trailers"

\* render_proxy_header_overrides: rendered from the client's headers, before they are cleaned.
Override(headers, client, o) ==
  CASE o.source = "static" -> {"static"}
    [] o.source = "client_ip" -> {client.ip}
    [] o.source = "request" -> {headers[h] : h \in {o.from} \cap DOMAIN headers}
    [] o.source = "remove" -> {}

ApplyOverride(headers, original, client, o) ==
  IF o.source = "remove" THEN [h \in DOMAIN headers \ {o.name} |-> headers[h]]
  ELSE IF Override(original, client, o) = {} THEN headers
  ELSE Insert(headers, o.name, CHOOSE v \in Override(original, client, o) : TRUE)

\* What the route sets comes last, in order.
WithOverrides(base, original, client, overrides) ==
  LET after[n \in 0 .. Len(overrides)] ==
        IF n = 0 THEN base ELSE ApplyOverride(after[n - 1], original, client, overrides[n])
  IN  after[Len(overrides)]

\* sanitize_request_headers up to the route's own headers.
ProxyHeaders(headers, listed, client, preserveHost, grpcWeb) ==
  LET has(h) == h \in DOMAIN headers
      bare == WithoutHopByHop(headers, listed)
      host == Insert(bare, "host", IF preserveHost /\ has("host") THEN headers["host"] ELSE "authority")
      proto == Insert(host, "x-forwarded-proto", "proxy")
      named == IF has("host") THEN Insert(proto, "x-forwarded-host", headers["host"]) ELSE proto
      forwarded == Insert(named, "x-forwarded-for", client.forwardedFor)
      typed == IF grpcWeb THEN Insert([h \in DOMAIN forwarded \ {"content-length", "x-grpc-web"} |-> forwarded[h]],
                                      "content-type", "application/grpc")
               ELSE forwarded
      te == IF grpcWeb \/ TeTrailers(headers) THEN Insert(typed, "te", "trailers") ELSE typed
  IN  IF Upgrades(headers, listed)
      THEN Insert(Insert(te, "connection", "upgrade"), "upgrade", headers["upgrade"]) ELSE te

SanitizeRequestHeaders(headers, listed, client, preserveHost, grpcWeb, overrides) ==
  WithOverrides(ProxyHeaders(headers, listed, client, preserveHost, grpcWeb), headers, client, overrides)
============================================================================
