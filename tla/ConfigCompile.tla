--------------------------- MODULE ConfigCompile ---------------------------
(***************************************************************************)
(* What rginx-config compiles a validated configuration into (compile/):   *)
(* listeners, upstreams, cache zones, virtual hosts and their routes, and  *)
(* the certificate map the TLS acceptors are built from (tls/acceptor.rs). *)
(*                                                                         *)
(* Every part has a condition under which its compilation succeeds and the *)
(* value it produces.  env.files is the set of files that exist and        *)
(* env.allowMissing the CompileOptions flag.  Paths are named by the file  *)
(* they resolve to; conversions to usize never fail on a 64-bit build.     *)
(***************************************************************************)
EXTENDS ConfigValidate

OrElse(opt, fallback) == IF opt # {} THEN opt ELSE fallback
SmallerOf(a, b) == IF a < b THEN a ELSE b

(***************************************************************************)
(* TLS identities                                                          *)
(***************************************************************************)
ManagedPairs(vhosts) ==
  {<<t.cert, t.key>> : t \in UNION {v.tls : v \in {x \in Range(vhosts) : Managed(x)}}}

\* allow_missing_tls_identity of a listener's or a vhost's identity
MayBeMissing(tls, config, env) ==
  env.allowMissing /\ <<tls.cert, tls.key>> \in ManagedPairs(config.vhosts)

CompilesIdentity(tls, config, env) ==
  /\ ~MayBeMissing(tls, config, env) => {tls.cert, tls.key} \cup tls.ocsp \subseteq env.files
  /\ \A bundles \in tls.additional : \A b \in Range(bundles) :
       {b.cert, b.key} \cup b.ocsp \subseteq env.files

CompilesServerTls(tls, config, env) ==
  /\ CompilesIdentity(tls, config, env)
  /\ \A a \in tls.clientAuth : {a.ca} \cup a.crl \subseteq env.files

(***************************************************************************)
(* Listeners                                                               *)
(***************************************************************************)
CompilesServerFields(fields, config, env) ==
  /\ \A t \in fields.tls : CompilesServerTls(t, config, env)
  /\ Get(fields.listen, Unparsable) \notin {Unparsable, BlankAddress}
  /\ "bad" \notin fields.accessLog

CompilesHttp3(http3, tlsEnabled) ==
  \A h \in http3 : tlsEnabled /\ Unparsable \notin h.listen

Http3Of(http3, tcp) ==
  {[udp |-> Get(h.listen, tcp), connectionIds |-> Get(h.connectionIds, 2),
    retry |-> TrueIn(h.retry), hostKey |-> h.hostKey, earlyData |-> TrueIn(h.earlyData)] : h \in http3}

\* compile_server_fields: the Server of a listener.
ServerOf(fields) ==
  [tcp |-> Get(fields.listen, Unparsable), tls |-> fields.tls,
   serverHeader |-> Get(fields.serverHeader, "rginx"),
   defaultCertificate |-> fields.defaultCertificate,
   trustedProxies |-> Range(fields.trustedProxies), clientIpHeader |-> fields.clientIpHeader,
   keepAlive |-> Get(fields.keepAlive, TRUE), limits |-> fields.limits]

ListenerOf(id, fields, tlsTermination, proxyProtocol, http3) ==
  [id |-> id, server |-> ServerOf(fields), tlsTermination |-> tlsTermination,
   proxyProtocol |-> proxyProtocol, http3 |-> Http3Of(http3, Get(fields.listen, Unparsable))]

AnyVhostTls(config) == \E v \in Range(config.vhosts) : v.tls # {}

LegacyTermination(config) == config.server.tls # {} \/ AnyVhostTls(config)

CompilesLegacy(config, env) ==
  /\ CompilesServerFields(config.server, config, env)
  /\ CompilesHttp3(config.server.http3, LegacyTermination(config))

LegacyListeners(config) ==
  {ListenerOf(<<"default">>, config.server, LegacyTermination(config),
              TrueIn(config.server.proxyProtocol), config.server.http3)}

CompilesExplicit(config, env) ==
  \A l \in Range(config.listeners) :
    CompilesServerFields(l, config, env) /\ CompilesHttp3(l.http3, l.tls # {})

ExplicitListeners(config) ==
  {ListenerOf(<<"listener", l.name>>,
              [l EXCEPT !.serverHeader = OrElse(@, config.server.serverHeader)],
              l.tls # {}, TrueIn(l.proxyProtocol), l.http3) :
     l \in Range(config.listeners)}

\* The entry a vhost binding takes its ssl, http3 and default certificate from.
FirstBinding(vhosts, addr) ==
  CHOOSE p \in VhostListens(vhosts) :
    /\ vhosts[p[1]].listen[p[2]].addr = addr
    /\ \A q \in VhostListens(vhosts) :
         vhosts[q[1]].listen[q[2]].addr = addr => p[1] < q[1] \/ (p[1] = q[1] /\ p[2] <= q[2])

VhostFields(config, addr) ==
  LET p == FirstBinding(config.vhosts, addr)
      vhost == config.vhosts[p[1]]
      ssl == ParsedListen(vhost.listen[p[2]]).ssl
      own == IF config.server.tls = {} THEN {vhost.names[1]} ELSE {}
  IN  [config.server EXCEPT
         !.listen = {addr},
         !.tls = IF ssl THEN config.server.tls ELSE {},
         !.defaultCertificate = IF ssl THEN OrElse(config.server.defaultCertificate, own) ELSE {}]

VhostAddresses(config) ==
  {config.vhosts[p[1]].listen[p[2]].addr : p \in VhostListens(config.vhosts)}

CompilesVhostListeners(config, env) ==
  \A addr \in VhostAddresses(config) :
    LET p == FirstBinding(config.vhosts, addr)
        entry == config.vhosts[p[1]].listen[p[2]]
    IN  /\ CompilesServerFields(VhostFields(config, addr), config, env)
        /\ CompilesHttp3(VhostHttp3(config.vhosts[p[1]], entry), ParsedListen(entry).ssl)

VhostListeners(config) ==
  {LET p == FirstBinding(config.vhosts, addr)
       entry == config.vhosts[p[1]].listen[p[2]]
       parsed == ParsedListen(entry)
   IN  ListenerOf(<<"vhost", addr>>, VhostFields(config, addr), parsed.ssl,
                  parsed.proxyProtocol, VhostHttp3(config.vhosts[p[1]], entry)) :
     addr \in VhostAddresses(config)}

CompilesListeners(config, env) ==
  IF AnyVhostListen(config.vhosts) THEN CompilesVhostListeners(config, env)
  ELSE IF config.listeners = <<>> THEN CompilesLegacy(config, env)
  ELSE CompilesExplicit(config, env)

Listeners(config) ==
  IF AnyVhostListen(config.vhosts) THEN VhostListeners(config)
  ELSE IF config.listeners = <<>> THEN LegacyListeners(config)
  ELSE ExplicitListeners(config)

(***************************************************************************)
(* Upstreams                                                               *)
(***************************************************************************)
DefaultTimeout == 30
DefaultDnsMinTtl == 5
DefaultDnsMaxTtl == 300
DefaultPoolIdle == 90

CompilesPeer(p) == p.scheme \in {"http", "https"} /\ ~p.hasPath

CompilesUpstreamTls(u, env) ==
  \A t \in u.tls :
    /\ t.verify = "custom_ca" => t.ca \in env.files
    /\ t.crl \cup t.clientCert \cup t.clientKey \subseteq env.files

DnsMin(d) == Get(d.minTtl, DefaultDnsMinTtl)
DnsMax(d) == Get(d.maxTtl, DefaultDnsMaxTtl)

\* Mutant of CompilesUpstream: the lifetimes are not compared again with their defaults.
CompilesUpstreamAnyDns(u, env) ==
  /\ \A p \in Range(u.peers) : CompilesPeer(p)
  /\ CompilesUpstreamTls(u, env)
  /\ ValidProtocol(u)
  /\ "bad" \notin u.serverNameOverride

CompilesUpstream(u, env) ==
  /\ \A p \in Range(u.peers) : CompilesPeer(p)
  /\ CompilesUpstreamTls(u, env)
  /\ ValidProtocol(u)
  /\ \A d \in u.dns : DnsMin(d) <= DnsMax(d)
  /\ "bad" \notin u.serverNameOverride

HealthCheckOf(u) ==
  IF u.healthPath = {} /\ u.healthService = {} THEN {}
  ELSE {[path |-> Get(u.healthPath, GrpcHealthPath), grpc |-> u.healthService # {},
         interval |-> Get(u.healthInterval, 5), timeout |-> Get(u.healthTimeout, 2),
         successes |-> Get(u.healthySuccesses, 2)]}

\* A specific timeout falls back on request_timeout_secs, then on the default.
TimeoutOf(u, field) == Get(OrElse(u.timeouts[field], u.timeouts.request), DefaultTimeout)

UpstreamOf(u) ==
  [peers |-> u.peers, protocol |-> u.protocol,
   timeouts |-> [f \in {"read", "connect", "write", "idle"} |-> TimeoutOf(u, f)],
   poolIdle |-> IF 0 \in u.poolIdle THEN {} ELSE OrElse(u.poolIdle, {DefaultPoolIdle}),
   dns |-> OrElse({[min |-> DnsMin(d), max |-> DnsMax(d)] : d \in u.dns},
                  {[min |-> DefaultDnsMinTtl, max |-> DefaultDnsMaxTtl]}),
   healthCheck |-> HealthCheckOf(u)]

\* The compiled name: as written, or for the v-th vhost's own "servers[v-1]::name",
\* which is also a name that may be written (ConfigValidate names texts).
ScopedName(scope, name) == IF scope = 0 THEN name ELSE <<scope, name>>

ScopedUpstreams(upstreams, scope) ==
  {[name |-> ScopedName(scope, u.name), scope |-> scope, upstream |-> UpstreamOf(u)] : u \in Range(upstreams)}

GlobalUpstreams(config) == ScopedUpstreams(config.upstreams, 0)
OwnUpstreams(config, v) == ScopedUpstreams(config.vhosts[v].upstreams, v)

\* HashMap::extend: an upstream is replaced by a later one of its name.
Extended(upstreams, others) ==
  others \cup {u \in upstreams : \A w \in others : w.name # u.name}

\* The global upstreams, extended by those of each virtual host in turn.  Two
\* virtual hosts' names never meet, so the turns make no difference.
CompiledUpstreams(config) ==
  Extended(GlobalUpstreams(config), UNION {OwnUpstreams(config, v) : v \in DOMAIN config.vhosts})

\* What the routes of the default host (0) or of a virtual host may name.
VisibleTo(config, v) ==
  IF v = 0 THEN GlobalUpstreams(config) ELSE Extended(GlobalUpstreams(config), OwnUpstreams(config, v))

(***************************************************************************)
(* Cache zones and routes                                                  *)
(***************************************************************************)
DefaultMaxEntry == 10

MaxEntry(z) ==
  IF z.sizes.maxEntry # {} THEN Get(z.sizes.maxEntry, 0)
  ELSE SmallerOf(DefaultMaxEntry, Get(z.sizes.maxSize, DefaultMaxEntry))

CompilesZone(z) == \A size \in z.sizes.maxSize : MaxEntry(z) <= size

ZoneOf(z) == [name |-> z.name, maxSize |-> z.sizes.maxSize, maxEntry |-> MaxEntry(z),
              pathLevels |-> Get(z.pathLevels, <<2>>)]

RouteCacheOf(cache) ==
  {[zone |-> c.zone, methods |-> Range(Get(c.methods, <<"GET", "HEAD">>)),
    statuses |-> Range(Get(c.statuses, <<200, 301, 302, 404>>)),
    rangeRequests |-> Get(c.rangeRequests, "bypass"), sliceSize |-> c.sliceSize] : c \in cache}

\* Mutant of ResolveUpstream: a name is looked up among the global upstreams first.
ResolveGlobalFirst(name, localNames, scope) == ScopedName(0, name)

\* compile_route_action: a vhost's own upstream hides the global one of that name.
ResolveUpstream(name, localNames, scope) ==
  IF name \in localNames THEN ScopedName(scope, name) ELSE ScopedName(0, name)

\* The upstream a proxying route holds, or none.
ProxiedUpstream(h, visible, localNames, scope) ==
  {u \in visible : u.name = ResolveUpstream(h.upstream, localNames, scope)}

CompilesRoute(l, visible, localNames, scope) ==
  l.handler.kind = "proxy" => ProxiedUpstream(l.handler, visible, localNames, scope) # {}

AccessControlOf(l) == [allow |-> Range(l.allow), deny |-> Range(l.deny)]

RateLimitOf(l) == {[rate |-> r, burst |-> Get(l.burst, 0)] : r \in l.requestsPerSec}

\* compile_proxy_header_value: static and dynamic values alike keep their source.
ProxyHeaderOf(h) == IF h.source = "static" THEN <<h.name, "static", h.value>> ELSE <<h.name, h.source>>

ActionOf(h, visible, localNames, scope) ==
  IF h.kind = "proxy"
  THEN [kind |-> "proxy", upstream |-> ProxiedUpstream(h, visible, localNames, scope),
        stripPrefix |-> h.stripPrefix \ {""}, setHeaders |-> {ProxyHeaderOf(x) : x \in h.setHeaders}]
  ELSE [kind |-> "return", upstream |-> {}, status |-> h.status]

RouteOf(l, visible, localNames, scope) ==
  [scope |-> scope, matcher |-> l.matcher,
   grpc |-> <<l.grpcService, l.grpcMethod>>,
   action |-> ActionOf(l.handler, visible, localNames, scope),
   access |-> AccessControlOf(l), rateLimit |-> RateLimitOf(l),
   requestBuffering |-> Get(l.requestBuffering, "auto"),
   responseBuffering |-> Get(l.responseBuffering, "auto"),
   compression |-> Get(l.compression, "auto"),
   cache |-> RouteCacheOf(l.cache)]

RoutesOf(locations, visible, localNames, scope) ==
  {RouteOf(l, visible, localNames, scope) : l \in Range(locations)}

CompilesVhost(config, v, env) ==
  LET vhost == config.vhosts[v]
      local == UpstreamNames(vhost.upstreams)
      visible == VisibleTo(config, v)
  IN  /\ \A u \in Range(vhost.upstreams) : CompilesUpstream(u, env)
      /\ \A l \in Range(vhost.locations) : CompilesRoute(l, visible, local, v)
      /\ \A t \in vhost.tls : CompilesIdentity(t, config, env)

Routes(config) ==
  RoutesOf(config.locations, VisibleTo(config, 0), {}, 0) \cup
  UNION {RoutesOf(config.vhosts[v].locations, VisibleTo(config, v),
                  UpstreamNames(config.vhosts[v].upstreams), v) : v \in DOMAIN config.vhosts}

ManagedCertificates(config) ==
  {[scope |-> v, domains |-> UNION {Range(a.domains) : a \in UNION {t.acme : t \in config.vhosts[v].tls}}] :
     v \in {x \in DOMAIN config.vhosts : Managed(config.vhosts[x])}}

(***************************************************************************)
(* compile_with_base_and_options, after validate                           *)
(***************************************************************************)
Compiles(config, env) ==
  /\ \A z \in Range(config.zones) : CompilesZone(z)
  /\ CompilesListeners(config, env)
  /\ \A u \in Range(config.upstreams) : CompilesUpstream(u, env)
  /\ \A l \in Range(config.locations) : CompilesRoute(l, VisibleTo(config, 0), {}, 0)
  /\ \A v \in DOMAIN config.vhosts : CompilesVhost(config, v, env)

Snapshot(config) ==
  [listeners |-> Listeners(config), upstreams |-> CompiledUpstreams(config),
   zones |-> {ZoneOf(z) : z \in Range(config.zones)}, routes |-> Routes(config),
   managed |-> ManagedCertificates(config)]

(***************************************************************************)
(* build_tls_server_config: the names a listener has certificates for      *)
(***************************************************************************)
CertificateNames(listener, config) ==
  (IF listener.server.tls # {} THEN Range(config.server.names) ELSE {})
    \cup UNION {Range(v.names) : v \in {x \in Range(config.vhosts) : x.tls # {}}}

HasCertificate(listener, config) == listener.server.tls # {} \/ CertificateNames(listener, config) # {}

LoadsCertificates(listener, config, env) ==
  /\ \A t \in listener.server.tls : {t.cert, t.key} \subseteq env.files
  /\ \A v \in Range(config.vhosts) : \A t \in v.tls : {t.cert, t.key} \subseteq env.files

\* apply_session_policy, over the defaults of rustls: whether the server keeps the
\* sessions to be resumed, and whether it gives them out in tickets of its own key.
KeepsSessions(tls) == ~FalseIn(tls.resumption) /\ 0 \notin tls.cacheSize

IssuesTickets(tls) ==
  /\ ~FalseIn(tls.resumption) /\ ~FalseIn(tls.tickets)
  /\ TrueIn(tls.tickets) \/ tls.ticketCount # {}

BuildsAcceptor(listener, config, env) ==
  listener.tlsTermination =>
    /\ LoadsCertificates(listener, config, env)
    /\ listener.server.defaultCertificate \subseteq CertificateNames(listener, config)
    /\ listener.http3 # {} => \A t \in listener.server.tls : \A v \in t.versions : "tls13" \in Range(v)
============================================================================
