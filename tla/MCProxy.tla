------------------------------- MODULE MCProxy -------------------------------
(***************************************************************************)
(* The parts of the proxy side that share no state, each from its own      *)
(* initial states: the peers of an upstream, the resolver of a name, the   *)
(* endpoint clients.                                                       *)
(***************************************************************************)
EXTENDS UpstreamPeers, Resolver, EndpointClients, TLC
CONSTANTS p, q, s, p1, p2, q1, s1

VARIABLE part
proxyVars == <<vars, resolverVars, clientVars, part>>

One == [x \in Peers |-> 1]
None == [x \in Peers |-> 0]

\* A checked peer whose name resolves to two addresses.
Solo(policy) ==
    [peers |-> <<p>>, weight |-> One, backup |-> {}, limit |-> None,
     endpoints |-> (p :> <<p1, p2>> @@ q :> <<q1>> @@ s :> <<s1>>), literal |-> {},
     policy |-> policy, checked |-> TRUE]

\* Two primaries of different weight, under least_conn one with max_conns.
Duo(policy) ==
    [Solo(policy) EXCEPT !.peers = <<p, q>>, !.weight[q] = 2,
                         !.limit[q] = IF policy = "least_conn" THEN 1 ELSE 0,
                         !.endpoints[p] = <<p1>>, !.literal = {p1, q1}, !.checked = FALSE]

\* A primary with a name and its backup.
Pair(policy) ==
    [Solo(policy) EXCEPT !.peers = <<p, s>>, !.backup = {s}, !.endpoints[p] = <<p1>>,
                         !.literal = {s1}, !.checked = FALSE]

SomeUpstreams ==
    {Solo("least_conn"), Pair("round_robin"), Duo("round_robin"), Duo("ip_hash"), Duo("least_conn")}

\* A GET, a PUT of a large body under a limit and a POST of a small one.
SomeKinds ==
    {[buffering |-> "auto", idempotent |-> TRUE, trailers |-> FALSE, size |-> "none",
      grpcWeb |-> FALSE, limited |-> FALSE],
     [buffering |-> "auto", idempotent |-> TRUE, trailers |-> FALSE, size |-> "large",
      grpcWeb |-> FALSE, limited |-> TRUE],
     [buffering |-> "on", idempotent |-> FALSE, trailers |-> FALSE, size |-> "small",
      grpcWeb |-> FALSE, limited |-> TRUE]}

\* A policy that refreshes early, and one with a long stale period.
SomePolicies ==
    {[min |-> 1, max |-> 2, stale |-> 1, negative |-> 1, refresh |-> 1],
     [min |-> 0, max |-> 1, stale |-> 2, negative |-> 1, refresh |-> 0]}

ProxyInit ==
    /\ part \in {"peers", "resolver", "clients"}
    /\ Init /\ (part # "peers" => upstream = Pair("round_robin"))
    /\ ResolverInit /\ (part # "resolver" => dns = CHOOSE d \in DnsPolicies : TRUE)
    /\ ClientsInit /\ (part # "clients" => capacity = EndpointClientCacheCapacity(0))

\* A bound of the model: POSTs are sent to two of the upstreams.
PostsBounded ==
    \A r \in Requests :
        task[r].pc # "idle" /\ ~task[r].kind.idempotent =>
            upstream \in {Pair("round_robin"), Duo("least_conn")}

ProxyNext ==
    /\ UNCHANGED part
    /\ \/ part = "peers" /\ Next /\ PostsBounded' /\ UNCHANGED <<resolverVars, clientVars>>
       \/ part = "resolver" /\ ResolverNext /\ UNCHANGED <<vars, clientVars>>
       \/ part = "clients" /\ ClientsNext /\ UNCHANGED <<vars, resolverVars>>
       \/ part = "clients" /\ access = MaxAccess /\ UNCHANGED proxyVars    \* the bound of the model

ProxySpec == ProxyInit /\ [][ProxyNext]_proxyVars

\* Requests differ in nothing but their names.
RequestSymmetry == Permutations(Requests) \cup Permutations(Resolvers)
=============================================================================
