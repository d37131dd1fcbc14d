------------------------------ MODULE MCConfig ------------------------------
(***************************************************************************)
(* The configurations, configuration files and environments TLC loads.     *)
(* Each family starts from a configuration that is accepted and varies the *)
(* options that interact; the others keep their base value.                *)
(***************************************************************************)
EXTENDS ConfigLoad

Opt(S) == {{}} \cup {{x} : x \in S}
Bools == Opt(BOOLEAN)

(* names, TLS and HTTP/3 *)
NameA == [text |-> "a", form |-> "exact"]
NameB == [text |-> "b", form |-> "exact"]
NameStar == [text |-> "a", form |-> "leading"]
NameBlank == [text |-> "", form |-> "exact"]

Tls == [cert |-> "cert", key |-> "key", ocsp |-> {}, additional |-> {}, versions |-> {}, suites |-> {},
        groups |-> {}, alpn |-> {}, resumption |-> {}, tickets |-> {}, cacheSize |-> {},
        ticketCount |-> {}, clientAuth |-> {}]
Tls12 == [Tls EXCEPT !.versions = {<<"tls12">>}]
Bundle == [cert |-> "cert2", key |-> "key2", ocsp |-> {}]
Suite(v) == [version |-> v]

TlsVariants ==
  {Tls, Tls12, [Tls EXCEPT !.cert = ""], [Tls EXCEPT !.cert = "lost"], [Tls EXCEPT !.ocsp = {""}],
   [Tls EXCEPT !.additional = {<<>>}], [Tls EXCEPT !.additional = {<<Bundle>>}],
   [Tls EXCEPT !.additional = {<<[Bundle EXCEPT !.key = ""]>>}],
   [Tls EXCEPT !.versions = {<<>>}], [Tls EXCEPT !.versions = {<<"tls13", "tls13">>}],
   [Tls EXCEPT !.versions = {<<"tls12">>}, !.suites = {<<Suite("tls13")>>}],
   [Tls EXCEPT !.versions = {<<"tls13">>}, !.suites = {<<Suite("tls13")>>}],
   [Tls EXCEPT !.groups = {<<"x25519", "x25519">>}], [Tls EXCEPT !.alpn = {<<"">>}],
   [Tls EXCEPT !.clientAuth = {[ca |-> "ca", depth |-> {0}, crl |-> {}]}],
   [Tls EXCEPT !.clientAuth = {[ca |-> "ca", depth |-> {1}, crl |-> {"lost"}]}],
   [Tls EXCEPT !.clientAuth = {[ca |-> "ca", depth |-> {1}, crl |-> {}]}]}

SessionVariants ==
  {[Tls EXCEPT !.resumption = r, !.tickets = t, !.cacheSize = c, !.ticketCount = n] :
     r \in Bools, t \in Bools, c \in Opt({0, 8}), n \in Opt({0, 2})}

Http3Variants ==
  {DefaultHttp3} \cup {[DefaultHttp3 EXCEPT !.retry = {TRUE}, !.hostKey = k] : k \in Opt({"hk", ""})}
  \cup {[DefaultHttp3 EXCEPT !.connectionIds = {n}, !.hostKey = k] : n \in {1, 2, 3, 5}, k \in Opt({"hk"})}
  \cup {[DefaultHttp3 EXCEPT !.maxStreams = {0}], [DefaultHttp3 EXCEPT !.listen = {BlankAddress}],
        [DefaultHttp3 EXCEPT !.listen = {Unparsable}]}

EarlyData == [DefaultHttp3 EXCEPT !.earlyData = {TRUE}]

(* listeners *)
NoLimits == [f \in {"maxHeaders", "maxRequestBody", "maxConnections", "headerReadTimeout",
                    "bodyReadTimeout", "responseWriteTimeout"} |-> {}]
BodyLimit == [NoLimits EXCEPT !.maxRequestBody = {8}]

Fields == [listen |-> {}, serverHeader |-> {}, proxyProtocol |-> {}, defaultCertificate |-> {},
           trustedProxies |-> <<>>, clientIpHeader |-> {}, keepAlive |-> {}, limits |-> NoLimits,
           accessLog |-> {}, tls |-> {}, http3 |-> {}]
Server0 == [names |-> <<>>] @@ Fields
Listener(n, addr) == [name |-> n] @@ [Fields EXCEPT !.listen = {addr}]

FieldVariants(l) ==
  {[l EXCEPT !.serverHeader = {h}] : h \in {"", "bad", "x"}}
  \cup {[l EXCEPT !.trustedProxies = <<p>>] : p \in {"bad", "net"}}
  \cup {[l EXCEPT !.clientIpHeader = {h}] : h \in {"", "x-real-ip"}}
  \cup {[l EXCEPT !.limits[f] = {0}] : f \in DOMAIN NoLimits}
  \cup {[l EXCEPT !.accessLog = {f}] : f \in {"", "bad", "fmt"}}
  \cup {[l EXCEPT !.listen = {a}] : a \in {Unparsable, BlankAddress, 80}}
  \cup {[l EXCEPT !.tls = {Tls}, !.defaultCertificate = {n}] : n \in {NameA, NameBlank}}
  \cup {[l EXCEPT !.tls = {t}] : t \in TlsVariants}

(* upstreams *)
Timeouts == [f \in {"request", "connect", "read", "write", "idle", "tcpKeepalive",
                    "http2KeepAliveInterval", "http2KeepAliveTimeout"} |-> {}]
Peer0 == [url |-> "peer", scheme |-> "https", hasPath |-> FALSE, weight |-> 1, maxConns |-> {}]
UpTls == [verify |-> "custom_ca", ca |-> "ca", versions |-> {}, depth |-> {}, crl |-> {},
          clientCert |-> {}, clientKey |-> {}]
Dns == [resolvers |-> <<>>, minTtl |-> {}, maxTtl |-> {}, negativeTtl |-> {}, staleIfError |-> {},
        refreshBefore |-> {}, preferV4 |-> {}, preferV6 |-> {}]
PlainU == <<"u">>
PlainW == <<"w">>
QualifiedU == <<1, PlainU>>    \* "servers[0]::u"
Upstream(n) ==
  [name |-> n, peers |-> <<Peer0>>, tls |-> {}, dns |-> {}, protocol |-> "auto",
   serverNameOverride |-> {}, timeouts |-> Timeouts, poolIdle |-> {}, http2KeepAliveWhileIdle |-> {},
   maxReplayable |-> {}, unhealthyAfter |-> {}, unhealthyCooldown |-> {}, healthPath |-> {},
   healthService |-> {}, healthInterval |-> {}, healthTimeout |-> {}, healthySuccesses |-> {}]

UpstreamVariants ==
  LET u == Upstream(PlainU)
  IN {[u EXCEPT !.peers = <<>>], [u EXCEPT !.name = BlankName], [u EXCEPT !.serverNameOverride = {"bad"}]}
     \cup {[u EXCEPT !.peers = <<[Peer0 EXCEPT !.scheme = s, !.weight = w, !.hasPath = p]>>, !.protocol = pr] :
             s \in {"http", "https", "none"}, w \in {0, 1}, p \in BOOLEAN,
             pr \in {"auto", "http1", "http2", "h2c", "http3"}}
     \cup {[u EXCEPT !.tls = {[UpTls EXCEPT !.verify = v, !.depth = d, !.crl = c, !.clientCert = cc, !.clientKey = ck]}] :
             v \in {"custom_ca", "insecure", "native"}, d \in Opt({0, 1}), c \in Opt({"lost", "crl"}),
             cc \in Opt({"cert"}), ck \in Opt({"key"})}
     \cup {[u EXCEPT !.dns = {[Dns EXCEPT !.minTtl = a, !.maxTtl = b, !.preferV4 = v, !.preferV6 = w]}] :
             a \in Opt({0, 4, 400}), b \in Opt({4, 400}), v \in Opt({TRUE}), w \in Opt({TRUE})}
     \cup {[u EXCEPT !.timeouts[f] = {n}, !.http2KeepAliveWhileIdle = w] :
             f \in DOMAIN Timeouts, n \in {0, 3}, w \in Opt({TRUE})}
     \cup {[u EXCEPT !.healthPath = p, !.healthService = s, !.healthInterval = i, !.protocol = pr] :
             p \in Opt({"/h", "relative", GrpcHealthPath}), s \in Opt({"svc", "a/b", ""}),
             i \in Opt({0, 3}), pr \in {"auto", "http1", "h2c"}}
     \cup {[u EXCEPT !.poolIdle = {0}], [u EXCEPT !.maxReplayable = {0}], [u EXCEPT !.unhealthyAfter = {0}]}

(* cache zones and locations *)
ZoneSizes == [f \in {"maxSize", "inactive", "defaultTtl", "maxEntry", "loaderBatch", "managerBatch"} |-> {}]
Zone == [name |-> "z", path |-> "zone", sizes |-> ZoneSizes, pathLevels |-> {}]
ZoneVariants ==
  {[Zone EXCEPT !.sizes.maxSize = s, !.sizes.maxEntry = e] : s \in Opt({0, 4, 20}), e \in Opt({4, 20})}
  \cup {[Zone EXCEPT !.pathLevels = {l}] : l \in {<<>>, <<0>>, <<1, 2>>, <<40, 30>>}}
  \cup {[Zone EXCEPT !.path = ""], [Zone EXCEPT !.name = ""]}

RouteCache == [zone |-> "z", methods |-> {}, statuses |-> {}, ttlByStatus |-> {}, key |-> {},
               cacheBypass |-> {}, noCache |-> {}, times |-> [t \in {"grace", "keep", "lockAge", "minUses"} |-> {}],
               ignoreHeaders |-> {}, rangeRequests |-> {}, sliceSize |-> {}]
StatusNode == [kind |-> "status", statuses |-> <<200>>]
CacheVariants ==
  {RouteCache, [RouteCache EXCEPT !.zone = "other"], [RouteCache EXCEPT !.methods = {<<"HEAD">>}],
   [RouteCache EXCEPT !.methods = {<<"GET">>}], [RouteCache EXCEPT !.statuses = {<<99>>}],
   [RouteCache EXCEPT !.ttlByStatus = {<<[statuses |-> <<200>>, ttl |-> 0]>>}],
   [RouteCache EXCEPT !.key = {"bad"}], [RouteCache EXCEPT !.times.grace = {0}],
   [RouteCache EXCEPT !.cacheBypass = {{StatusNode}}], [RouteCache EXCEPT !.noCache = {{StatusNode}}],
   [RouteCache EXCEPT !.cacheBypass = {{[kind |-> "composite", arity |-> 0]}}],
   [RouteCache EXCEPT !.cacheBypass = {{[kind |-> "composite", arity |-> 2],
                                        [kind |-> "header", name |-> "x"], [kind |-> "cookie", name |-> "c"]}}]}
  \cup {[RouteCache EXCEPT !.sliceSize = s, !.rangeRequests = r] : s \in Opt({0, 4}), r \in Opt({"bypass", "cache"})}

Location ==
  [matcher |-> [kind |-> "prefix", path |-> "/"], handler |-> [kind |-> "return", status |-> 200, location |-> ""],
   grpcService |-> {}, grpcMethod |-> {}, allow |-> <<>>, deny |-> <<>>, requestsPerSec |-> {}, burst |-> {},
   requestBuffering |-> {}, responseBuffering |-> {}, compression |-> {}, compressionMinBytes |-> {},
   compressionTypes |-> {}, streamIdleTimeout |-> {}, cache |-> {}]
ProxyTo(n) == [kind |-> "proxy", upstream |-> n, stripPrefix |-> {}, setHeaders |-> {}]
Proxied(n) == [Location EXCEPT !.handler = ProxyTo(n)]
LocationVariants ==
  {[Location EXCEPT !.matcher = [kind |-> k, path |-> p]] : k \in {"exact", "prefix", "regex"}, p \in {"/", "relative", "bad"}}
  \cup {[Location EXCEPT !.requestsPerSec = r, !.burst = b] : r \in Opt({0, 5}), b \in Opt({0, 5})}
  \cup {[Location EXCEPT !.compression = c, !.responseBuffering = b] : c \in Opt({"force"}), b \in Opt({"off", "on"})}
  \cup {[Location EXCEPT !.handler = [kind |-> "return", status |-> s, location |-> l]] : s \in {99, 302}, l \in {"", "/x"}}
  \cup {[Location EXCEPT !.allow = <<"bad">>], [Location EXCEPT !.grpcService = {"a/b"}],
        [Location EXCEPT !.compressionTypes = {<<>>}], [Location EXCEPT !.cache = {RouteCache}],
        [Location EXCEPT !.handler = [ProxyTo(PlainU) EXCEPT !.stripPrefix = {"relative"}]],
        [Location EXCEPT !.handler = [ProxyTo(PlainU) EXCEPT !.setHeaders = {[name |-> "x", source |-> "request_header", value |-> "bad"]}]],
        [Location EXCEPT !.handler = [ProxyTo(PlainU) EXCEPT !.setHeaders = {[name |-> "x", source |-> "client_ip", value |-> ""]}]]}
  \cup {[Proxied(PlainU) EXCEPT !.cache = {c}] : c \in CacheVariants}

(* virtual hosts and whole configurations *)
VhostTls == [cert |-> "cert", key |-> "key", additional |-> {}, ocsp |-> {}, acme |-> {}]
Vhost(names) == [listen |-> <<>>, names |-> names, upstreams |-> <<>>, locations |-> <<Location>>,
                 tls |-> {}, http3 |-> {}]
Listen(addr, options) == [addr |-> addr, options |-> options]

Base == [runtime |-> [shutdownTimeout |-> 10, workerThreads |-> {}, acceptWorkers |-> {}], acme |-> {},
         listeners |-> <<>>, zones |-> <<Zone>>, server |-> [Server0 EXCEPT !.listen = {443}],
         upstreams |-> <<Upstream(PlainU)>>, locations |-> <<Location>>, vhosts |-> <<>>]
Explicit(ls) == [Base EXCEPT !.server = Server0, !.listeners = ls]
Acme == [directory |-> "dir", stateDir |-> "state", contacts |-> <<>>, renewBefore |-> {}, pollInterval |-> {}]

SectionConfigs ==
  {[Base EXCEPT !.server = s] : s \in FieldVariants(Base.server)}
  \cup {Explicit(<<l>>) : l \in FieldVariants(Listener("l", 443))}
  \cup {[Base EXCEPT !.upstreams = <<u>>] : u \in UpstreamVariants}
  \cup {[Base EXCEPT !.zones = <<z>>] : z \in ZoneVariants}
  \cup {[Base EXCEPT !.zones = <<Zone, Zone>>], [Base EXCEPT !.upstreams = <<Upstream(PlainU), Upstream(PlainU)>>]}
  \cup {[Base EXCEPT !.locations = <<l>>] : l \in LocationVariants}
  \cup {[Base EXCEPT !.locations = <<>>],
        [Base EXCEPT !.locations = <<[Location EXCEPT !.matcher.kind = "exact"],
                                     [Location EXCEPT !.matcher.kind = "exact", !.grpcService = {"s"}]>>],
        [Base EXCEPT !.locations = <<[Location EXCEPT !.matcher.kind = "exact"], [Location EXCEPT !.matcher.kind = "exact"]>>],
        [Base EXCEPT !.runtime.acceptWorkers = {0}], [Base EXCEPT !.runtime.workerThreads = {4}],
        [Explicit(<<Listener("l", 80)>>) EXCEPT !.server.proxyProtocol = {TRUE}],
        [Explicit(<<Listener("l", 80)>>) EXCEPT !.server.keepAlive = {TRUE}]}

Http3Configs ==
  {Explicit(<<[Listener("l", 443) EXCEPT !.tls = {t}, !.http3 = h]>>) :
     t \in SessionVariants \cup {Tls12}, h \in {{}, {EarlyData}}}
  \cup {Explicit(<<[Listener("l", 443) EXCEPT !.tls = t, !.http3 = {h}]>>) : t \in Opt({Tls}), h \in Http3Variants}
  \cup {[Base EXCEPT !.server.tls = t, !.server.http3 = {DefaultHttp3}, !.vhosts = vs] :
          t \in Opt({Tls, Tls12}), vs \in {<<>>, <<[Vhost(<<NameA>>) EXCEPT !.tls = {VhostTls}]>>}}

ListenerConfigs ==
  {Explicit(<<[Listener("l", a) EXCEPT !.tls = {Tls}, !.http3 = {[DefaultHttp3 EXCEPT !.listen = x]}],
              [Listener(n, b) EXCEPT !.tls = t, !.http3 = IF t = {} THEN {} ELSE {[DefaultHttp3 EXCEPT !.listen = y]}]>>) :
     a \in {80, 443}, b \in {80, 443}, x \in Opt({80, 443}), y \in Opt({80, 443}), n \in {"l", "m"}, t \in Opt({Tls})}

VhostVariants(names, addrs) ==
  {[Vhost(names) EXCEPT !.listen = <<Listen(a, o)>>, !.tls = t, !.http3 = h] :
     a \in addrs, o \in {{}, {"ssl"}, {"http3"}, {"ssl", "proxy_protocol"}}, t \in Opt({VhostTls}), h \in Opt({EarlyData})}
VhostConfigs ==
  {[Base EXCEPT !.server = [Server0 EXCEPT !.tls = t], !.vhosts = <<v, w>>] :
     v \in VhostVariants(<<NameA>>, {443}), w \in VhostVariants(<<NameB>>, {443, 8443}), t \in Opt({Tls, Tls12})}
  \cup {[Base EXCEPT !.server = Server0, !.vhosts = <<[Vhost(<<NameA>>) EXCEPT !.listen = <<Listen(80, o)>>]>>] :
          o \in {{"http2"}, {"ssl", "http2"}, {"reuseport"}, {"quic"}}}
  \cup {[Base EXCEPT !.server = Server0, !.vhosts = <<[Vhost(<<n>>) EXCEPT !.listen = <<Listen(80, {})>>], Vhost(<<NameB>>)>>] :
          n \in {NameA, NameB, NameStar, NameBlank}}
  \cup {[Base EXCEPT !.vhosts = <<[Vhost(<<NameA>>) EXCEPT !.tls = {VhostTls}]>>, !.server.defaultCertificate = d] :
          d \in Opt({NameA, NameB})}

\* A virtual host's own upstreams beside the global ones and a neighbour's.
ScopeConfigs ==
  {[Base EXCEPT !.upstreams = g, !.vhosts =
      <<[Vhost(<<NameA>>) EXCEPT !.upstreams = u, !.locations = <<Proxied(x)>>],
        [Vhost(<<NameB>>) EXCEPT !.upstreams = w, !.locations = <<Proxied(y)>>]>>] :
     g \in {<<>>, <<Upstream(PlainU)>>}, u \in {<<>>, <<Upstream(PlainU)>>, <<Upstream(PlainW)>>},
     w \in {<<>>, <<Upstream(PlainU)>>}, x \in {PlainU, PlainW}, y \in {PlainU, PlainW}}
  \cup {[Base EXCEPT !.upstreams = <<Upstream(QualifiedU)>>, !.locations = <<Proxied(QualifiedU)>>, !.vhosts =
           <<[Vhost(<<NameA>>) EXCEPT !.upstreams = u, !.locations = <<Proxied(x)>>],
             [Vhost(<<NameB>>) EXCEPT !.locations = <<Proxied(QualifiedU)>>]>>] :
          u \in {<<>>, <<Upstream(PlainU)>>}, x \in {PlainU, QualifiedU}}

BufferingConfigs ==
  LET On == [Location EXCEPT !.requestBuffering = {"on"}]
  IN {[Base EXCEPT !.locations = <<On>>, !.server.limits = l] : l \in {NoLimits, BodyLimit}}
     \cup {[Explicit(<<[Listener("l", 80) EXCEPT !.limits = l], [Listener("m", 443) EXCEPT !.limits = n]>>)
              EXCEPT !.vhosts = <<[Vhost(<<NameA>>) EXCEPT !.locations = <<On>>]>>] :
             l \in {NoLimits, BodyLimit}, n \in {NoLimits, BodyLimit}}
     \cup {[Base EXCEPT !.server = [Server0 EXCEPT !.limits = l],
              !.vhosts = <<[Vhost(<<NameA>>) EXCEPT !.locations = <<On>>, !.listen = <<Listen(80, {})>>]>>] :
             l \in {NoLimits, BodyLimit}}

AcmeConfigs ==
  LET ManagedTls(d) == [VhostTls EXCEPT !.acme = {[domains |-> d]}]
      V(names, d) == [Vhost(names) EXCEPT !.tls = {ManagedTls(d)}]
  IN {[Base EXCEPT !.server = Server0, !.acme = a,
         !.vhosts = <<[V(<<n>>, d) EXCEPT !.listen = <<Listen(443, o), Listen(p, {})>>]>>] :
        a \in Opt({Acme, [Acme EXCEPT !.renewBefore = {0}]}), n \in {NameA, NameStar}, d \in {<<NameA>>, <<NameB>>, <<>>},
        o \in {{"ssl"}, {"http3"}}, p \in {80, 8080}}
     \cup {[Base EXCEPT !.server = Server0, !.acme = {Acme},
              !.vhosts = <<[V(<<NameA>>, <<NameA>>) EXCEPT !.listen = <<Listen(443, {"ssl"}), Listen(80, {})>>],
                           [Vhost(<<NameB>>) EXCEPT !.tls = {VhostTls}, !.listen = <<Listen(8443, o)>>]>>] :
             o \in {{"ssl"}, {"http3"}}}
     \cup {[Explicit(<<[Listener("l", 443) EXCEPT !.tls = t, !.http3 = h], Listener("m", 80)>>)
              EXCEPT !.acme = {Acme}, !.vhosts = <<V(<<NameA>>, <<NameA>>)>>] : t \in Opt({Tls}), h \in Opt({DefaultHttp3})}
     \cup {[Base EXCEPT !.server = Server0, !.acme = {Acme},
              !.vhosts = <<[V(<<NameA>>, <<NameA>>) EXCEPT !.listen = <<Listen(80, {"ssl"})>>]>>]}
     \cup {[Base EXCEPT !.acme = {Acme}, !.server.listen = {80}, !.vhosts = <<V(<<NameA>>, <<NameA>>)>>]}

AllConfigs == SectionConfigs \cup Http3Configs \cup ListenerConfigs \cup VhostConfigs
                \cup ScopeConfigs \cup BufferingConfigs \cup AcmeConfigs

(* configuration files *)
Text == [kind |-> "text", resolves |-> TRUE]
Unset == [kind |-> "text", resolves |-> FALSE]
Include(paths) == [kind |-> "include", paths |-> paths, resolves |-> TRUE]
BadInclude == [Include(<<>>) EXCEPT !.resolves = FALSE]

AllSources ==
  {("main" :> <<a, Text, b>>) @@ ("f" :> <<c>>) @@ ("g" :> <<d, Text>>) :
     a \in {Text, Include(<<"f">>), Include(<<"f", "g">>)}, b \in {Unset, Text, Include(<<"g">>), Include(<<>>), Include(<<"lost">>)},
     c \in {Text, Include(<<"g">>), Include(<<"f">>), Include(<<"main">>)}, d \in {Text, Include(<<"f">>), Include(<<"main">>), BadInclude}}

OneFile == "main" :> <<Text>>
OnDisk == [files |-> {"cert", "key", "cert2", "key2", "ca", "crl"}, allowMissing |-> FALSE]

Scenarios ==
  [source : AllSources, config : {Base}, env : {OnDisk}]
  \cup [source : {OneFile}, config : AllConfigs, env : {OnDisk}]
  \cup [source : {OneFile}, config : AcmeConfigs, env : {[files |-> {"ca"}, allowMissing |-> TRUE]}]
============================================================================
