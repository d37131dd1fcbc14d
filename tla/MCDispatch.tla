----------------------------- MODULE MCDispatch -----------------------------
(***************************************************************************)
(* The requests and configurations TLC dispatches.  Each family varies what *)
(* one part of the dispatch looks at: routes and paths, virtual hosts,      *)
(* addresses, headers; the last one lets two requests, reloads and a        *)
(* challenge interleave.                                                    *)
(***************************************************************************)
EXTENDS Dispatch, TLC

P(segs) == PathOf(segs, FALSE)
AnyRoute == [id |-> "r", matcher |-> [kind |-> "prefix", path |-> RootPath], grpc |-> {}, allow |-> {}, deny |-> {},
             limited |-> FALSE, early |-> FALSE, proxied |-> TRUE, strip |-> {}, preserveHost |-> FALSE, overrides |-> <<>>]
On(id, kind, path) == [AnyRoute EXCEPT !.id = id, !.matcher = [kind |-> kind, path |-> path]]
Regex(id, paths) == [AnyRoute EXCEPT !.id = id, !.matcher = [kind |-> "regex", path |-> RootPath, paths |-> paths]]
Grpc(route, service, method) == [route EXCEPT !.grpc = {[service |-> service, method |-> method]}]

Server(routes) == [default |-> [routes |-> routes], vhosts |-> <<>>, trusted |-> {1, 2}, ipHeader |-> FALSE]
Asks == [host |-> <<"x">>, raw |-> <<"a">>, grpc |-> "none", early |-> FALSE, peer |-> 3, source |-> {},
         forwarded |-> <<>>, ipHeader |-> <<>>, headers |-> ("host" :> "client"), listed |-> {}]
One(server, r) == [configs |-> <<server>>, requests |-> ("c" :> r), tokens |-> 0, challenges |-> {}]

(* routes and paths *)
SomeRoutes ==
  {On("e", "exact", P(<<"a">>)), On("p0", "prefix", RootPath), On("p1", "prefix", P(<<"a">>)),
   On("q1", "preferred", P(<<"a">>)), On("p2", "prefix", P(<<"a", "b">>)), On("q2", "preferred", PathOf(<<"a">>, TRUE)),
   Regex("x", {P(<<"a">>), P(<<"a", "b">>)}), Grpc(On("g1", "prefix", P(<<"a">>)), "a", "any"),
   Grpc(On("g2", "prefix", RootPath), "a", "b")}
SomeRaws == {<<"a">>, <<"a", "b">>, <<"a", "">>, <<"c", "..", "a", "b">>, <<"a", "..", "..", "b">>, <<"a", ".", "b", "">>, Asterisk}
RouteScenarios ==
  {One(Server(<<r, s, t>>), [Asks EXCEPT !.raw = w, !.grpc = g]) :
     r \in SomeRoutes, s \in SomeRoutes, t \in SomeRoutes, w \in SomeRaws, g \in {"none", "grpc"}}
StripScenarios ==
  {One(Server(<<[On("s", "prefix", m) EXCEPT !.strip = {p}]>>), [Asks EXCEPT !.raw = w]) :
     m \in {RootPath, P(<<"a">>)}, p \in {RootPath, P(<<"a">>), PathOf(<<"a">>, TRUE), P(<<"a", "b">>)}, w \in SomeRaws}

(* virtual hosts *)
Name(form, labels) == [form |-> form, labels |-> labels]
SomeNames == {Name("exact", <<"a", "x">>), Name("dot", <<"x">>), Name("leading", <<"x">>), Name("leading", <<"a", "x">>),
              Name("trailing", <<"a">>), Name("exact", <<"x">>)}
VhostScenarios ==
  {One([Server(<<On("d", "prefix", RootPath)>>) EXCEPT
          !.vhosts = <<[names |-> <<n>>, routes |-> <<On("v1", "prefix", RootPath)>>],
                       [names |-> <<m, Name("exact", <<"y">>)>>, routes |-> <<On("v2", "exact", P(<<"a">>))>>]>>],
       [Asks EXCEPT !.host = h]) :
     n \in SomeNames, m \in SomeNames, h \in {<<"a", "x">>, <<"x">>, <<"b", "a", "x">>, <<"a", "y">>, <<"y">>, <<>>}}

(* addresses: 1 and 2 are trusted proxies *)
Chains == UNION {[1 .. n -> {1, 3, 4, BadToken}] : n \in 0 .. 2} \cup {<<4, 3, 1>>, <<3, 1, 2>>, <<1, 2>>}
AddressScenarios ==
  {One([Server(<<[On("r", "prefix", RootPath) EXCEPT !.deny = {4}, !.allow = a]>>) EXCEPT !.ipHeader = i],
       [Asks EXCEPT !.peer = p, !.source = s, !.forwarded = f, !.ipHeader = t]) :
     p \in {1, 3}, s \in {{}, {2}, {4}}, f \in Chains, a \in {{}, {3}}, i \in BOOLEAN,
     t \in {<<>>, <<BlankToken, 4>>, <<BadToken, 4>>}}

(* headers *)
Sent(names) == [h \in names \cup {"host"} |-> IF h = "te" THEN "trailers" ELSE "client"]
HeaderScenarios ==
  {One(Server(<<[On("r", "prefix", RootPath) EXCEPT !.preserveHost = b, !.overrides = o]>>),
       [Asks EXCEPT !.headers = Sent(n \cup (IF l = {} THEN {} ELSE {"connection"})), !.listed = l, !.grpc = g]) :
     b \in BOOLEAN, g \in {"none", "grpc-web"},
     n \in SUBSET {"upgrade", "te", "x-forwarded-for", "proxy-authorization", "x"},
     l \in {{}, {"upgrade"}, {"x", "x-forwarded-for"}, {"upgrade", "host", "x"}},
     o \in {<<>>, <<[name |-> "x-forwarded-for", source |-> "remove"], [name |-> "x", source |-> "client_ip"]>>,
            <<[name |-> "y", source |-> "request", from |-> "x"], [name |-> "y", source |-> "static"]>>}}

(* several requests at once *)
Limited == [On("lim", "prefix", RootPath) EXCEPT !.limited = TRUE, !.deny = {4}]
Replayable == [Grpc(On("g", "prefix", RootPath), "a", "b") EXCEPT !.early = TRUE]
Fixed == [On("ret", "exact", P(<<"c">>)) EXCEPT !.proxied = FALSE]
SomeRequests ==
  {Asks, [Asks EXCEPT !.peer = 4], [Asks EXCEPT !.raw = <<"a", "b">>, !.grpc = "grpc", !.early = TRUE],
   [Asks EXCEPT !.early = TRUE], [Asks EXCEPT !.raw = <<"c">>], [Asks EXCEPT !.raw = <<"acme", "t">>]}
ConcurrentScenarios ==
  [configs : {<<Server(<<Limited, Fixed>>), Server(<<Fixed>>), Server(<<Limited, Replayable>>)>>,
              <<Server(<<Limited, Replayable>>), Server(<<Limited>>)>>},
   requests : {("c" :> r) @@ ("d" :> s) : r \in SomeRequests, s \in SomeRequests},
   tokens : {1}, challenges : {{}, {"t"}}]

AllDispatches == RouteScenarios \cup StripScenarios \cup VhostScenarios \cup AddressScenarios
                   \cup HeaderScenarios \cup ConcurrentScenarios
============================================================================
