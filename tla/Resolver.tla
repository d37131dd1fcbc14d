------------------------------ MODULE Resolver ------------------------------
(***************************************************************************)
(* proxy/resolver: the addresses of one upstream host name, kept by one    *)
(* proxy client.  A request that finds no fresh entry looks the name up    *)
(* itself, outside the lock of the cache, so several lookups of the name   *)
(* run at once and end in any order; each writes what it found over the    *)
(* entry.  A peer given by a literal address never comes here              *)
(* (resolve_peer, cached_peer_endpoints), and an entry is never removed.   *)
(*                                                                         *)
(* Below it is the resolver of hickory, external, with a cache of its own: *)
(* a record is handed out again, with what is left of its time to live,    *)
(* until it expires.  The addresses of a record are abstracted to the end  *)
(* of the time to live its name server gave ("until", kept in the entry    *)
(* for the properties only).                                               *)
(***************************************************************************)
EXTENDS Integers, FiniteSets

CONSTANTS
    Resolvers,       \* the requests that resolve the name
    Ttls,            \* the times to live a name server may give
    DnsPolicies,     \* records min, max, stale, negative, refresh (UpstreamDnsPolicy)
    MaxTime          \* bound of the model: the clock

\* All are durations.
ASSUME ResolverAssumption ==
    /\ Ttls \subseteq Nat /\ MaxTime \in Nat
    /\ DnsPolicies \subseteq [min : Nat, max : Nat, stale : Nat, negative : Nat, refresh : Nat]

VARIABLES
    dns,             \* the policy of the upstream
    time,
    hickory,         \* the end of the record hickory holds for the name, or -1
    entry,           \* the entry of the name, or NoEntry
    resolving,       \* what each request is doing
    answered         \* for the properties, the last answer given: the request's start, its record's end

resolverVars == <<dns, time, hickory, entry, resolving, answered>>

NoEntry == [negative |-> TRUE, valid |-> -1, stale |-> -1, until |-> -1]
Unresolving == [pc |-> "idle", now |-> 0, until |-> 0]

ResolverInit ==
    /\ dns \in DnsPolicies
    /\ time = 0
    /\ hickory = -1
    /\ entry = NoEntry
    /\ resolving = [q \in Resolvers |-> Unresolving]
    /\ answered = [asked |-> 0, until |-> 0]

ClampTtl(ttl) ==
    LET raised == IF ttl < dns.min THEN dns.min ELSE ttl
    IN  IF raised > dns.max THEN dns.max ELSE raised

RefreshDue(now) == now >= entry.valid \/ now + dns.refresh >= entry.valid

\* The entry holds addresses that may be given at this time although their
\* validity has passed.
UsableStale(now) == ~entry.negative /\ now <= entry.stale

GiveAnswer(q, now, until) ==
    /\ answered' = [asked |-> now, until |-> until]
    /\ resolving' = [resolving EXCEPT ![q] = Unresolving]

\* resolve_host, the entry is fresh: its addresses, under the lock.
ResolveHit(q) ==
    /\ resolving[q].pc = "idle"
    /\ ~entry.negative /\ ~RefreshDue(time)
    /\ GiveAnswer(q, time, entry.until)
    /\ UNCHANGED <<dns, time, hickory, entry>>

\* resolve_host, no fresh entry: the lock is released and the lookup begins.
\* A negative entry does not stop it, whatever its time to live.
StartLookup(q) ==
    /\ resolving[q].pc = "idle"
    /\ entry.negative \/ RefreshDue(time)
    /\ resolving' = [resolving EXCEPT ![q] = [pc |-> "lookup", now |-> time, until |-> 0]]
    /\ UNCHANGED <<dns, time, hickory, entry, answered>>

\* resolver.lookup_ip, external: the record hickory holds, if it has not
\* expired, or one the name servers give, which hickory keeps.
LookupIp(q) ==
    /\ resolving[q].pc = "lookup"
    /\ \/ hickory >= time /\ UNCHANGED hickory
       \/ \E ttl \in Ttls : hickory' = time + ttl
    /\ resolving' = [resolving EXCEPT ![q].pc = "answer", ![q].until = hickory']
    /\ UNCHANGED <<dns, time, entry, answered>>

\* lookup_host: what is left of the record's time to live; max_ttl for one
\* that has expired by now.
TtlsLeft(until) ==
    (IF time <= until THEN {until - time} ELSE {}) \cup (IF time >= until THEN {dns.max} ELSE {})

\* A plausible slip: the validity counted from the end of the lookup.
ValidFromLate(q) == time

\* The instant the validity of an answer counts from: taken before the lookup.
ValidFrom(q) == resolving[q].now

\* The lookup brings addresses: they replace whatever the entry holds now.
LookupAnswers(q) ==
    /\ resolving[q].pc = "answer"
    /\ \E ttl \in TtlsLeft(resolving[q].until) :
         entry' = [negative |-> FALSE, valid |-> ValidFrom(q) + ClampTtl(ttl),
                   stale |-> ValidFrom(q) + ClampTtl(ttl) + dns.stale, until |-> resolving[q].until]
    /\ GiveAnswer(q, resolving[q].now, resolving[q].until)
    /\ UNCHANGED <<dns, time, hickory>>

\* The lookup brings no address: the entry will be replaced, whatever it holds.
LookupEmpty(q) ==
    /\ resolving[q].pc = "lookup"
    /\ resolving' = [resolving EXCEPT ![q].pc = "failing"]
    /\ UNCHANGED <<dns, time, hickory, entry, answered>>

\* The lookup fails.  The entry of the moment is given if the request, when it
\* started, was within its stale period; else the lock is released before the
\* negative entry is stored.
LookupFails(q) ==
    /\ resolving[q].pc = "lookup"
    /\ \/ /\ UsableStale(resolving[q].now)
          /\ GiveAnswer(q, resolving[q].now, entry.until)
       \/ /\ ~UsableStale(resolving[q].now)
          /\ resolving' = [resolving EXCEPT ![q].pc = "failing"]
          /\ UNCHANGED answered
    /\ UNCHANGED <<dns, time, hickory, entry>>

\* store_negative_and_fail: over any entry, also one stored since the check.
StoreNegative(q) ==
    /\ resolving[q].pc = "failing"
    /\ entry' = [negative |-> TRUE, valid |-> time + dns.negative, stale |-> time + dns.negative, until |-> -1]
    /\ resolving' = [resolving EXCEPT ![q] = Unresolving]
    /\ UNCHANGED <<dns, time, hickory, answered>>

\* The request's future is dropped: at its client's leave or its deadline.
DropResolve(q) ==
    /\ resolving[q].pc # "idle"
    /\ resolving' = [resolving EXCEPT ![q] = Unresolving]
    /\ UNCHANGED <<dns, time, hickory, entry, answered>>

\* cached_peer_endpoints: the status pages list what the cache still holds.
CachedEndpoints ==
    /\ UsableStale(time)
    /\ answered' = [asked |-> time, until |-> entry.until]
    /\ UNCHANGED <<dns, time, hickory, entry, resolving>>

TimePasses ==
    /\ time < MaxTime
    /\ time' = time + 1
    /\ UNCHANGED <<dns, hickory, entry, resolving, answered>>

ResolverNext ==
    \/ \E q \in Resolvers :
         \/ ResolveHit(q) \/ StartLookup(q) \/ LookupIp(q) \/ LookupAnswers(q)
         \/ LookupEmpty(q) \/ LookupFails(q) \/ StoreNegative(q) \/ DropResolve(q)
    \/ CachedEndpoints
    \/ TimePasses

ResolverSpec == ResolverInit /\ [][ResolverNext]_resolverVars

(***************************************************************************)
(* Every address given to a request, fresh, stale after an error or listed *)
(* on a status page, is used at most max_ttl plus stale_if_error beyond    *)
(* the time to live that its name server gave, however long the lookups    *)
(* take and in whichever order they end.  The time to live itself is not   *)
(* cut: max_ttl makes rginx ask hickory again, which answers from its own  *)
(* cache while the record lives.                                           *)
(***************************************************************************)
AnswersBounded == answered.asked <= answered.until + dns.max + dns.stale
=============================================================================
