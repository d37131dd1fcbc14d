--------------------------- MODULE EndpointClients ---------------------------
(***************************************************************************)
(* proxy/clients: the clients of one upstream's HTTP/1 and HTTP/2          *)
(* connections, one per resolved address, in a bounded cache that drops    *)
(* the least recently used; a name whose addresses rotate goes through     *)
(* many.  Every use is one step: the lock is held while a missing client   *)
(* is built.  A request keeps the client it was given, evicted or not.     *)
(***************************************************************************)
EXTENDS Integers, FiniteSets, FiniteSetsExt

CONSTANTS
    Addresses,          \* the socket addresses of the upstream's endpoints
    PoolSizes,          \* pool_max_idle_per_host
    Multiplier,         \* ENDPOINT_CLIENT_CACHE_POOL_MULTIPLIER
    MinCapacity,        \* ENDPOINT_CLIENT_CACHE_MIN_CAPACITY
    MaxCapacity,        \* ENDPOINT_CLIENT_CACHE_MAX_CAPACITY
    MaxAccess           \* bound of the model: the access counter

ASSUME EndpointClientsAssumption ==
    /\ IsFiniteSet(Addresses)
    /\ PoolSizes \subseteq Nat
    /\ {Multiplier, MinCapacity, MaxCapacity, MaxAccess} \subseteq Nat

VARIABLES
    capacity,           \* capacity of the cache
    clients,            \* entries: address -> last_used
    access,             \* next_access
    used                \* for the properties: the access that last used each address, 0 for none

clientVars == <<capacity, clients, access, used>>

\* endpoint_client_cache_capacity and EndpointClientCache::new.
EndpointClientCacheCapacity(pool) ==
    Max({1, Min({MaxCapacity, Max({MinCapacity, pool * Multiplier})})})

ClientsInit ==
    /\ capacity \in {EndpointClientCacheCapacity(pool) : pool \in PoolSizes}
    /\ clients = <<>>
    /\ access = 0
    /\ used = [a \in Addresses |-> 0]

\* The entries without the least recently used (evict_lru).
EvictLru ==
    LET oldest == CHOOSE a \in DOMAIN clients : \A b \in DOMAIN clients : clients[a] <= clients[b]
    IN  [a \in DOMAIN clients \ {oldest} |-> clients[a]]

SetUsed(entries, a, at) == [b \in DOMAIN entries \cup {a} |-> IF b = a THEN at ELSE entries[b]]

\* A plausible slip: a hit does not count as a use.
TouchNothing(a) == clients

\* get, on a hit: the entry is marked used now.
Touch(a) == SetUsed(clients, a, access + 1)

NoteUse(a) == used' = [used EXCEPT ![a] = access']

\* client_for_peer, the address has a client.
GetClient(a) ==
    /\ access < MaxAccess
    /\ a \in DOMAIN clients
    /\ access' = access + 1
    /\ clients' = Touch(a)
    /\ NoteUse(a)
    /\ UNCHANGED capacity

\* client_for_peer, it has none: get counted an access already, the client is
\* built and inserted, after an eviction when the cache is full.
InsertClient(a) ==
    /\ access + 1 < MaxAccess
    /\ a \notin DOMAIN clients
    /\ access' = access + 2
    /\ clients' = SetUsed(IF Cardinality(DOMAIN clients) >= capacity THEN EvictLru ELSE clients, a, access + 2)
    /\ NoteUse(a)
    /\ UNCHANGED capacity

ClientsNext == \E a \in Addresses : GetClient(a) \/ InsertClient(a)

ClientsSpec == ClientsInit /\ [][ClientsNext]_clientVars

(***************************************************************************)
(* The cache holds the clients, and so the idle connections, of exactly    *)
(* the endpoints used last, as many as its capacity: an endpoint in use is *)
(* never evicted in favour of one the name no longer resolves to.          *)
(***************************************************************************)
KeepsTheRecent ==
    DOMAIN clients =
        {a \in Addresses : used[a] > 0 /\ Cardinality({b \in Addresses : used[b] > used[a]}) < capacity}
=============================================================================
