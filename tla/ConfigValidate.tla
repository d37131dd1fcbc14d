-------------------------- MODULE ConfigValidate --------------------------
(***************************************************************************)
(* The semantic checks rginx-config makes on a parsed configuration        *)
(* (validate.rs and validate/), before anything is compiled.               *)
(*                                                                         *)
(* A configuration is a record that mirrors the model/ structures.  An     *)
(* Option is a set with at most one element, a Vec a sequence; a text is   *)
(* "" (blank after trimming), "bad" (rejected by the parser of its type)   *)
(* or a name; an address is its port, Unparsable or BlankAddress.  The     *)
(* name of an upstream is <<text>>, or <<v, name>> for a text that reads   *)
(* "servers[v-1]::" and then the name.                                     *)
(***************************************************************************)
EXTENDS Integers, Sequences, FiniteSets, Functions

Unparsable == 0
BlankAddress == -1
BlankName == <<"">>

Positive(opt) == 0 \notin opt
NotBlank(opt) == "" \notin opt
Parses(text) == text \notin {"", "bad"}
NoDuplicates(seq) == IsInjective(seq)
Get(opt, default) == IF opt = {} THEN default ELSE CHOOSE x \in opt : TRUE
TrueIn(opt) == TRUE \in opt
FalseIn(opt) == FALSE \in opt
NonEmptyDistinct(opt) == \A s \in opt : s # <<>> /\ NoDuplicates(s)

(***************************************************************************)
(* Listeners, their TLS policy and HTTP/3                                  *)
(***************************************************************************)
ValidCertificateBundle(b) == b.cert # "" /\ b.key # "" /\ NotBlank(b.ocsp)

ValidTlsIdentity(tls) ==
  /\ tls.cert # "" /\ tls.key # "" /\ NotBlank(tls.ocsp)
  /\ \A bundles \in tls.additional :
       bundles # <<>> /\ \A b \in Range(bundles) : ValidCertificateBundle(b)

ValidTlsVersions(versions) == NonEmptyDistinct(versions)

\* A suite is named by the only protocol version it belongs to.
SuiteSupports(suite, version) == suite.version = version

ValidCipherSuites(suites, versions) ==
  /\ NonEmptyDistinct(suites)
  /\ \A s \in suites, v \in versions :
       \E i \in DOMAIN s, j \in DOMAIN v : SuiteSupports(s[i], v[j])

ValidKeyExchangeGroups(groups) == NonEmptyDistinct(groups)

ValidAlpn(alpn) == \A s \in alpn : s # <<>> /\ "" \notin Range(s) /\ NoDuplicates(s)

ValidSessionPolicy(tls) ==
  /\ ~(FalseIn(tls.resumption) /\ TrueIn(tls.tickets))
  /\ ~(FalseIn(tls.resumption) /\ tls.cacheSize # {})
  /\ ~(FalseIn(tls.resumption) /\ tls.ticketCount # {})
  /\ ~(FalseIn(tls.tickets) /\ tls.ticketCount # {})
  /\ Positive(tls.ticketCount)

ValidClientAuth(auth) ==
  \A a \in auth : a.ca # "" /\ Positive(a.depth) /\ NotBlank(a.crl)

ValidListenerTls(tls) ==
  /\ ValidTlsIdentity(tls)
  /\ ValidTlsVersions(tls.versions)
  /\ ValidCipherSuites(tls.suites, tls.versions)
  /\ ValidKeyExchangeGroups(tls.groups)
  /\ ValidAlpn(tls.alpn)
  /\ ValidSessionPolicy(tls)
  /\ ValidClientAuth(tls.clientAuth)

\* Mutant of ValidHttp3: early data is accepted with any session policy.
ValidHttp3AnySession(h3, tls) ==
  /\ tls # {}
  /\ BlankAddress \notin h3.listen
  /\ Positive(h3.altSvcMaxAge) /\ Positive(h3.maxStreams) /\ Positive(h3.streamBuffer)
  /\ h3.connectionIds \subseteq {2, 5}
  /\ NotBlank(h3.hostKey)
  /\ TrueIn(h3.retry) => h3.hostKey # {}
  /\ \A t \in tls : \A v \in t.versions : "tls13" \in Range(v)
  /\ 5 \in h3.connectionIds => h3.hostKey # {}

ValidHttp3(h3, tls) ==
  /\ tls # {}
  /\ BlankAddress \notin h3.listen
  /\ Positive(h3.altSvcMaxAge) /\ Positive(h3.maxStreams) /\ Positive(h3.streamBuffer)
  /\ h3.connectionIds \subseteq {2, 5}
  /\ NotBlank(h3.hostKey)
  /\ TrueIn(h3.retry) => h3.hostKey # {}
  /\ \A t \in tls : \A v \in t.versions : "tls13" \in Range(v)
  /\ TrueIn(h3.earlyData) =>
       \A t \in tls : ~FalseIn(t.resumption) /\ Positive(t.cacheSize) /\ ~TrueIn(t.tickets)
  /\ 5 \in h3.connectionIds => h3.hostKey # {}

ValidServerHeader(opt) == \A h \in opt : Parses(h)
ValidTrustedProxies(proxies) == \A p \in Range(proxies) : Parses(p)

\* validate_listener_like: the options a server block and a listener share.
ValidListenerLike(l, requireListen) ==
  /\ requireListen => Get(l.listen, BlankAddress) # BlankAddress
  /\ ValidServerHeader(l.serverHeader)
  /\ \A name \in l.defaultCertificate : name.text # ""
  /\ ValidTrustedProxies(l.trustedProxies)
  /\ \A h \in l.clientIpHeader : Parses(h)
  /\ \A limit \in DOMAIN l.limits : Positive(l.limits[limit])
  /\ NotBlank(l.accessLog)
  /\ \A h3 \in l.http3 : ValidHttp3(h3, l.tls)
  /\ \A t \in l.tls : ValidListenerTls(t)

\* legacy_server_listener_fields: proxy_protocol is not among them.
LegacyListenerFields(server) ==
  \/ server.listen # {} \/ server.trustedProxies # <<>> \/ server.clientIpHeader # {}
  \/ server.keepAlive # {} \/ server.defaultCertificate # {}
  \/ \E limit \in DOMAIN server.limits : server.limits[limit] # {}
  \/ server.accessLog # {} \/ server.tls # {} \/ server.http3 # {}

\* parse_vhost_listen: an address and its options, http3 implying ssl.
ParsedListen(entry) ==
  [addr |-> entry.addr,
   ssl |-> entry.options \cap {"ssl", "http3", "quic"} # {},
   http3 |-> entry.options \cap {"http3", "quic"} # {},
   proxyProtocol |-> "proxy_protocol" \in entry.options]

ValidListenEntry(entry) ==
  /\ entry.addr \notin {Unparsable, BlankAddress}
  /\ entry.options \subseteq {"ssl", "http2", "http3", "quic", "proxy_protocol"}
  /\ "http2" \in entry.options => ParsedListen(entry).ssl

DefaultHttp3 ==
  [listen |-> {}, altSvcMaxAge |-> {}, maxStreams |-> {}, streamBuffer |-> {},
   connectionIds |-> {}, hostKey |-> {}, retry |-> {}, earlyData |-> {}]

VhostHttp3(vhost, entry) ==
  IF ParsedListen(entry).http3 THEN {Get(vhost.http3, DefaultHttp3)} ELSE {}

VhostListens(vhosts) ==
  UNION {{<<v, i>> : i \in DOMAIN vhosts[v].listen} : v \in DOMAIN vhosts}

\* Two vhosts may share an address when they agree on what it speaks.
SameBinding(vhosts, p, q) ==
  LET a == vhosts[p[1]].listen[p[2]]
      b == vhosts[q[1]].listen[q[2]]
  IN  ParsedListen(a).addr = ParsedListen(b).addr =>
        /\ ParsedListen(a) = ParsedListen(b)
        /\ VhostHttp3(vhosts[p[1]], a) = VhostHttp3(vhosts[q[1]], b)

ValidVhostBindings(vhosts) ==
  /\ \A p \in VhostListens(vhosts) : ValidListenEntry(vhosts[p[1]].listen[p[2]])
  /\ \A p, q \in VhostListens(vhosts) : SameBinding(vhosts, p, q)

AnyVhostListen(vhosts) == VhostListens(vhosts) # {}

TcpAddress(l) == Get(l.listen, Unparsable)
UdpAddresses(l) == {Get(h3.listen, TcpAddress(l)) : h3 \in l.http3}

\* Mutant of ValidExplicitListeners: only the names of listeners have to differ.
ValidExplicitListenersByName(listeners, vhosts) ==
  /\ \A i \in DOMAIN listeners :
       /\ listeners[i].name # ""
       /\ ValidListenerLike(listeners[i], TRUE)
       /\ TcpAddress(listeners[i]) # Unparsable
       /\ Unparsable \notin UdpAddresses(listeners[i])
  /\ \A i, j \in DOMAIN listeners : i # j => listeners[i].name # listeners[j].name
  /\ (\E v \in Range(vhosts) : v.tls # {}) => \E l \in Range(listeners) : l.tls # {}

ValidExplicitListeners(listeners, vhosts) ==
  /\ \A i \in DOMAIN listeners :
       /\ listeners[i].name # ""
       /\ ValidListenerLike(listeners[i], TRUE)
       /\ TcpAddress(listeners[i]) # Unparsable
       /\ Unparsable \notin UdpAddresses(listeners[i])
  /\ \A i, j \in DOMAIN listeners : i # j =>
       /\ listeners[i].name # listeners[j].name
       /\ TcpAddress(listeners[i]) # TcpAddress(listeners[j])
       /\ UdpAddresses(listeners[i]) \cap UdpAddresses(listeners[j]) = {}
  /\ (\E v \in Range(vhosts) : v.tls # {}) => \E l \in Range(listeners) : l.tls # {}

ServerLeavesListeningToVhosts(server) ==
  server.listen = {} /\ server.proxyProtocol = {} /\ server.http3 = {}

ValidListeners(config) ==
  IF AnyVhostListen(config.vhosts)
  THEN /\ config.listeners = <<>>
       /\ ServerLeavesListeningToVhosts(config.server)
       /\ ValidVhostBindings(config.vhosts)
  ELSE IF config.listeners = <<>>
  THEN Get(config.server.listen, BlankAddress) # BlankAddress
  ELSE ~LegacyListenerFields(config.server) /\ ValidExplicitListeners(config.listeners, config.vhosts)

(***************************************************************************)
(* Upstreams                                                               *)
(***************************************************************************)
ValidPeers(u) ==
  /\ u.name # BlankName /\ u.peers # <<>>
  /\ \A p \in Range(u.peers) : p.url # "" /\ p.weight # 0 /\ Positive(p.maxConns)

ValidUpstreamTlsVersions(versions) == NonEmptyDistinct(versions)

ValidUpstreamTls(u) ==
  \A t \in u.tls :
    /\ ~(t.verify = "custom_ca" /\ t.ca = "")
    /\ ValidUpstreamTlsVersions(t.versions)
    /\ Positive(t.depth) /\ NotBlank(t.crl)
    /\ t.verify = "insecure" => t.depth = {} /\ t.crl = {}
    /\ (t.clientCert = {}) = (t.clientKey = {})
    /\ NotBlank(t.clientCert) /\ NotBlank(t.clientKey)

\* A peer's scheme is "none" when the URL has none.
ValidProtocol(u) ==
  \A p \in Range(u.peers) :
    /\ p.url # "bad"
    /\ u.protocol \in {"http2", "http3"} => p.scheme = "https"
    /\ u.protocol = "h2c" => p.scheme = "http"

ValidDns(u) ==
  \A d \in u.dns :
    /\ \A r \in Range(d.resolvers) : Parses(r)
    /\ \A f \in {d.minTtl, d.maxTtl, d.negativeTtl, d.staleIfError, d.refreshBefore} : Positive(f)
    /\ ~(TrueIn(d.preferV4) /\ TrueIn(d.preferV6))
    /\ \A min \in d.minTtl, max \in d.maxTtl : min <= max

ValidTuning(u) ==
  /\ \A t \in DOMAIN u.timeouts : Positive(u.timeouts[t])
  /\ (u.timeouts.http2KeepAliveTimeout # {} \/ u.http2KeepAliveWhileIdle # {})
       => u.timeouts.http2KeepAliveInterval # {}
  /\ Positive(u.maxReplayable) /\ Positive(u.unhealthyAfter) /\ Positive(u.unhealthyCooldown)

GrpcHealthPath == "/grpc.health.v1.Health/Check"

ValidHealthCheck(u) ==
  /\ \A path \in u.healthPath : Parses(path) /\ path # "relative"
  /\ \A service \in u.healthService :
       /\ service \notin {"blank", "a/b"}
       /\ u.healthPath \subseteq {GrpcHealthPath}
       /\ u.protocol # "http1"
       /\ \A p \in Range(u.peers) : p.scheme = IF u.protocol = "h2c" THEN "http" ELSE "https"
  /\ (u.healthInterval # {} \/ u.healthTimeout # {} \/ u.healthySuccesses # {})
       => u.healthPath # {} \/ u.healthService # {}
  /\ Positive(u.healthInterval) /\ Positive(u.healthTimeout) /\ Positive(u.healthySuccesses)

ValidServerNameOverride(u) == NotBlank(u.serverNameOverride)

ValidUpstreams(upstreams) ==
  /\ NoDuplicates([i \in DOMAIN upstreams |-> upstreams[i].name])
  /\ \A u \in Range(upstreams) :
       /\ ValidPeers(u) /\ ValidUpstreamTls(u) /\ ValidServerNameOverride(u)
       /\ ValidProtocol(u) /\ ValidDns(u) /\ ValidTuning(u) /\ ValidHealthCheck(u)

UpstreamNames(upstreams) == {u.name : u \in Range(upstreams)}

(***************************************************************************)
(* Cache zones and the cache policy of a route                             *)
(***************************************************************************)
HashLength == 64

\* The total of at most three path levels.
LevelTotal(levels) ==
  (IF Len(levels) > 0 THEN levels[1] ELSE 0) + (IF Len(levels) > 1 THEN levels[2] ELSE 0)
    + (IF Len(levels) > 2 THEN levels[3] ELSE 0)

ValidPathLevels(levels) == levels # <<>> /\ 0 \notin Range(levels) /\ LevelTotal(levels) <= HashLength

ValidCacheZones(zones) ==
  /\ NoDuplicates([i \in DOMAIN zones |-> zones[i].name])
  /\ \A z \in Range(zones) :
       /\ z.name # "" /\ z.path # ""
       /\ \A f \in DOMAIN z.sizes : Positive(z.sizes[f])
       /\ \A levels \in z.pathLevels : ValidPathLevels(levels)
       /\ \A size \in z.sizes.maxSize, entry \in z.sizes.maxEntry : entry <= size

ZoneNames(zones) == {z.name : z \in Range(zones)}

ValidStatuses(s) == s # <<>> /\ \A i \in DOMAIN s : s[i] \in 100 .. 599

ValidTtlRule(rule) == ValidStatuses(rule.statuses) /\ rule.ttl # 0

\* A predicate is the set of its nodes: the checks quantify over all of them.
ValidPredicate(nodes, onResponse) ==
  \A n \in nodes :
    CASE n.kind = "composite" -> n.arity > 0
      [] n.kind \in {"query", "cookie"} -> n.name # ""
      [] n.kind \in {"method", "header"} -> Parses(n.name)
      [] n.kind = "status" -> ValidStatuses(n.statuses) /\ onResponse

ValidRouteCache(cache, zoneNames) ==
  /\ cache.zone # "" /\ cache.zone \in zoneNames
  /\ \A methods \in cache.methods : "GET" \in Range(methods) /\ Range(methods) \subseteq {"GET", "HEAD"}
  /\ \A s \in cache.statuses : ValidStatuses(s)
  /\ \A rules \in cache.ttlByStatus : rules # <<>> /\ \A r \in Range(rules) : ValidTtlRule(r)
  /\ \A k \in cache.key : Parses(k)
  /\ \A p \in cache.cacheBypass : ValidPredicate(p, FALSE)
  /\ \A p \in cache.noCache : ValidPredicate(p, TRUE)
  /\ \A f \in DOMAIN cache.times : Positive(cache.times[f])
  /\ \A h \in cache.ignoreHeaders : h # <<>>
  /\ Positive(cache.sliceSize)
  /\ cache.sliceSize # {} => "cache" \in cache.rangeRequests

(***************************************************************************)
(* Locations, virtual hosts, names, ACME                                   *)
(***************************************************************************)
ValidMatcher(m) == IF m.kind = "regex" THEN Parses(m.path) ELSE m.path \notin {"", "relative"}

ExactRouteKey(l) == <<l.matcher.path, Get(l.grpcService, ""), Get(l.grpcMethod, "")>>

ValidRouteCidrs(l) == \A c \in Range(l.allow) \cup Range(l.deny) : Parses(c)

ValidRouteRateLimit(l) == Positive(l.requestsPerSec) /\ (l.burst # {} => l.requestsPerSec # {})

ValidGrpcMatch(l) == \A g \in l.grpcService \cup l.grpcMethod : g \notin {"", "a/b"}

ValidCacheHandler(l) == l.cache # {} => l.handler.kind = "proxy"

ValidTransportPolicy(l) ==
  /\ Positive(l.compressionMinBytes) /\ Positive(l.streamIdleTimeout)
  /\ ~("force" \in l.compression /\ "off" \in l.responseBuffering)
  /\ \A types \in l.compressionTypes : types # <<>> /\ "" \notin Range(types)

\* validate_proxy_header_value: Host, ClientIp, Remove and the like need no check.
ValidProxyHeader(h) ==
  /\ Parses(h.name)
  /\ h.source \in {"static", "template"} => h.value # "bad"
  /\ h.source = "request_header" => Parses(h.value)

ValidHandler(h, upstreamNames) ==
  IF h.kind = "proxy"
  THEN /\ h.upstream # BlankName /\ h.upstream \in upstreamNames
       /\ h.stripPrefix \cap {"", "relative"} = {}
       /\ \A header \in h.setHeaders : ValidProxyHeader(header)
  ELSE /\ h.status \in 100 .. 599
       /\ h.status \in 300 .. 399 => h.location # ""

ValidLocations(locations, upstreamNames, zoneNames) ==
  /\ \A i, j \in DOMAIN locations :
       (i # j /\ locations[i].matcher.kind = "exact" /\ locations[j].matcher.kind = "exact")
         => ExactRouteKey(locations[i]) # ExactRouteKey(locations[j])
  /\ \A l \in Range(locations) :
       /\ ValidMatcher(l.matcher)
       /\ ValidRouteCidrs(l) /\ ValidRouteRateLimit(l)
       /\ ValidTransportPolicy(l) /\ ValidGrpcMatch(l)
       /\ ValidHandler(l.handler, upstreamNames)
       /\ ValidCacheHandler(l)
       /\ \A c \in l.cache : ValidRouteCache(c, zoneNames)

\* A name's form: exact, dot (.example), leading (*.), trailing (.*), or unsupported.
SupportedName(n) == n.form \in {"exact", "dot", "leading", "trailing"}

ValidServerNames(names) == \A n \in Range(names) : n.text # "" /\ SupportedName(n)

AllServerNames(config) ==
  {<<0, i>> : i \in DOMAIN config.server.names} \cup
  UNION {{<<v, i>> : i \in DOMAIN config.vhosts[v].names} : v \in DOMAIN config.vhosts}

NameAt(config, p) == IF p[1] = 0 THEN config.server.names[p[2]] ELSE config.vhosts[p[1]].names[p[2]]

UniqueServerNames(config) ==
  \A p, q \in AllServerNames(config) : p # q => NameAt(config, p) # NameAt(config, q)

\* server_tls_policy_from_vhost_tls
VhostTlsPolicy(tls) ==
  [cert |-> tls.cert, key |-> tls.key, additional |-> tls.additional, ocsp |-> tls.ocsp,
   versions |-> {}, suites |-> {}, groups |-> {}, alpn |-> {}, resumption |-> {},
   tickets |-> {}, cacheSize |-> {}, ticketCount |-> {}, clientAuth |-> {}]

\* Mutant of ValidVhostListens: an ssl listen is accepted without the vhost's own certificate.
ValidVhostListensWithoutTls(vhost, required, serverTls) ==
  LET parsed == {ParsedListen(e) : e \in Range(vhost.listen)}
      ssl == \E p \in parsed : p.ssl
      http3 == \E p \in parsed : p.http3
  IN  /\ required => vhost.listen # <<>>
      /\ \A e \in Range(vhost.listen) : ValidListenEntry(e)
      /\ (required /\ vhost.tls # {}) => ssl
      /\ vhost.http3 # {} => http3

ValidVhostListens(vhost, required, serverTls) ==
  LET parsed == {ParsedListen(e) : e \in Range(vhost.listen)}
      ssl == \E p \in parsed : p.ssl
      http3 == \E p \in parsed : p.http3
  IN  /\ required => vhost.listen # <<>>
      /\ \A e \in Range(vhost.listen) : ValidListenEntry(e)
      /\ ssl => vhost.tls # {}
      /\ (required /\ vhost.tls # {}) => ssl
      /\ vhost.http3 # {} => http3
      /\ \A h3 \in vhost.http3 :
           ValidHttp3(h3, IF serverTls # {} THEN serverTls ELSE {VhostTlsPolicy(t) : t \in vhost.tls})

VisibleUpstreams(config, vhost) == UpstreamNames(config.upstreams) \cup UpstreamNames(vhost.upstreams)

ValidVhosts(config) ==
  \A v \in Range(config.vhosts) :
    /\ ValidVhostListens(v, AnyVhostListen(config.vhosts), config.server.tls)
    /\ v.names # <<>> /\ ValidServerNames(v.names)
    /\ v.locations # <<>>
    /\ \A t \in v.tls : ValidTlsIdentity(t)
    /\ ValidUpstreams(v.upstreams)
    /\ ValidLocations(v.locations, VisibleUpstreams(config, v), ZoneNames(config.zones))

Managed(vhost) == \E t \in vhost.tls : t.acme # {}

\* Mutant of HasHttp01Listener: any listener on port 80 will do.
HasAnyListenerOn80(config) ==
  IF AnyVhostListen(config.vhosts)
  THEN \E p \in VhostListens(config.vhosts) : config.vhosts[p[1]].listen[p[2]].addr = 80
  ELSE \E l \in Range(config.listeners) : TcpAddress(l) = 80

\* has_http01_listener: a plain listener on port 80.
HasHttp01Listener(config) ==
  IF AnyVhostListen(config.vhosts)
  THEN \E p \in VhostListens(config.vhosts) :
         LET e == ParsedListen(config.vhosts[p[1]].listen[p[2]]) IN e.addr = 80 /\ ~e.ssl
  ELSE \E l \in Range(config.listeners) : l.tls = {} /\ TcpAddress(l) = 80

ValidGlobalAcme(acme) ==
  /\ acme.directory # "" /\ acme.stateDir # "" /\ "" \notin Range(acme.contacts)
  /\ Positive(acme.renewBefore) /\ Positive(acme.pollInterval)

\* normalize_unique_domains: no wildcards, which HTTP-01 cannot prove.
UniqueDomains(names) ==
  names # <<>> /\ NoDuplicates(names) /\ \A n \in Range(names) : n.text # "" /\ n.form \in {"exact", "dot"}

ValidVhostAcme(config, vhost) ==
  \A t \in vhost.tls : \A a \in t.acme :
    /\ config.acme # {}
    /\ \A bundles \in t.additional : bundles = <<>>
    /\ UniqueDomains(a.domains) /\ UniqueDomains(vhost.names)
    /\ Range(a.domains) = Range(vhost.names)

ManagedWithoutHttp3(config) ==
  (\E v \in Range(config.vhosts) : Managed(v)) =>
    IF AnyVhostListen(config.vhosts)
    THEN \A v \in Range(config.vhosts) : Managed(v) =>
           \A e \in Range(v.listen) : ~ParsedListen(e).http3
    ELSE \A l \in Range(config.listeners) : ~(l.tls # {} /\ l.http3 # {})

ValidAcme(config) ==
  /\ \A a \in config.acme : ValidGlobalAcme(a)
  /\ \A v \in Range(config.vhosts) : ValidVhostAcme(config, v)
  /\ (\E v \in Range(config.vhosts) : Managed(v)) => HasHttp01Listener(config)
  /\ ManagedWithoutHttp3(config)

AllLocations(config) ==
  Range(config.locations) \cup UNION {Range(v.locations) : v \in Range(config.vhosts)}

\* Mutant of ValidRequestBuffering: the locations of virtual hosts are forgotten.
ValidDefaultHostBuffering(config) ==
  (\E l \in Range(config.locations) : "on" \in l.requestBuffering) =>
    IF config.listeners = <<>>
    THEN config.server.limits.maxRequestBody # {}
    ELSE \A l \in Range(config.listeners) : l.limits.maxRequestBody # {}

ValidRequestBuffering(config) ==
  (\E l \in AllLocations(config) : "on" \in l.requestBuffering) =>
    IF config.listeners = <<>>
    THEN config.server.limits.maxRequestBody # {}
    ELSE \A l \in Range(config.listeners) : l.limits.maxRequestBody # {}

ValidRuntime(runtime) ==
  runtime.shutdownTimeout # 0 /\ Positive(runtime.workerThreads) /\ Positive(runtime.acceptWorkers)

\* validate: the checks in the order the code makes them (the first that fails is the error).
Validate(config) ==
  /\ ValidRuntime(config.runtime)
  /\ config.locations # <<>> \/ config.vhosts # <<>>
  /\ ValidListenerLike(config.server, FALSE)
  /\ ValidListeners(config)
  /\ ValidCacheZones(config.zones)
  /\ ValidUpstreams(config.upstreams)
  /\ ValidLocations(config.locations, UpstreamNames(config.upstreams), ZoneNames(config.zones))
  /\ ValidServerNames(config.server.names)
  /\ UniqueServerNames(config)
  /\ ValidVhosts(config)
  /\ ValidAcme(config)
  /\ ValidRequestBuffering(config)
============================================================================
