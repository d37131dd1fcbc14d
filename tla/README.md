# rginx: TLA+ models, model checking and proofs

rginx is a reverse proxy: it accepts HTTP/1, HTTP/2 and HTTP/3 connections,
routes requests to upstreams with load balancing, health checks and failover,
caches responses on disk with an index that worker processes share through
shared memory, and reloads or restarts itself without dropping connections.
This directory models the parts of it in which several tasks, processes or
failures meet. `PROJECT.json` maps every definition to the lines it models and
lists the runs, the theorems, the mutants and the hazards.

1. [Inventory](#inventory)
2. [Modules and code](#modules-and-code)
3. [Runs, bounds and fairness](#runs-bounds-and-fairness)
4. [Proofs](#proofs)
5. [Disagreements between code and documents](#disagreements-between-code-and-documents)
6. [Observations](#observations)
7. [What is not modelled](#what-is-not-modelled)
8. [Plan](#plan)

## Inventory

| Component (crate path) | State | Operations | Hard behaviour | What makes it correct |
|---|---|---|---|---|
| Fill coordination (`rginx-http/cache/fill*`, `cache/shared/index_file`) | per process: `fill_locks` by key, generation counter, fill read states; shared: one fill record per key with a nonce | lookup, acquire, share, wait, poll, heartbeat, finish, fail, drop of the guard | an overtaken filler that is still alive, a dead process, a record reused by another fill, notification after unlock | one lock holder per generation, no lost waiter, nobody touches a live fill's record, a reader follows one fill |
| Shared index (`cache/shared*`) | a document (entries, rules, ring of changes, epoch, generation, sequence number) and one mirror with a cursor per worker | publish, delta, full load, bootstrap, rebuild, reset | a ring that is shorter than a worker's delay, torn writes, a document replaced under a cursor | mirrors are past states of the document, workers catch up |
| Cache index and files (`cache/store*`, `cache/index.rs`, `cache/entry*`, `cache/runtime*`) | entries, variants, access schedule, sizes, reference counts; two files per hash | store, 304 refresh, purge, cleanup, eviction, drop of a bad entry, invalidation | index and file operations are separate critical sections | the index describes what is on disk, its parts agree |
| Access schedule (`cache/index.rs`, `cache/store/maintenance`) | ordered schedule, hot access times | eviction loop, inactive cleanup loop | lazy rescheduling | least recently used first, the loops end |
| Runtime lifecycle (`rginx-runtime/bootstrap`, `reload.rs`, `restart*`) | active and draining worker groups, the main task's position | reload, restart, shutdown, prune | a reload while earlier generations drain; a timeout in the middle of joins | groups match the configuration, nothing is left behind, the loop comes back |
| Listener state (`rginx-http/state/lifecycle`, `state/connections`, `server/accept.rs`) | active configuration, retired listeners, acceptors, connection counters | commit in four locks, listener lookup, connection accounting | lookups between the locks of a commit | a worker always finds its listener, limits survive reloads |
| Peer health, selection, failover (`proxy/health`, `proxy/forward`, `rginx-core/config/upstream`) | per peer: failures, cooldown, active state, active requests; a cursor | select, attempt, retry, finish, record success or failure | results of requests and probes in any order | selection is sound and complete, counts are exact |
| Active health checker (`rginx-runtime/health`) | schedule, probes under way | rounds of probes | probes concurrent with requests and with selection | the checker alone decides the active state |
| Cache request policy (`cache/policy*`, `cache/request.rs`, `cache/vary*`, `cache/entry/response.rs`, `cache/runtime/context.rs`) | none of its own: entries, admission counts | look up, judge a response, refresh by a 304, serve stale, slice and trim | a chain of 304s, headers and windows nobody tried together | what is served without the origin is recent, public, the right variant and the right bytes |
| Body of a fill (`cache/fill/local.rs`, `cache/store/streaming*`) | a bounded queue, the temporary file, the fill's read state | copy, write, follow, commit | a slow disk, a client that leaves, a write that fails late | the cache and the readers get whole bodies |
| Name resolution (`proxy/resolver`) | answers with two expiry times | resolve, refresh, stale answer | concurrent lookups that end in any order | what is used outlives its record by no more than the policy allows |
| Endpoint clients (`proxy/clients`) | a client per address, with the time of its last use | get, insert, evict | rotating addresses, a cache at its limit | the clients in use stay |
| HTTP/3 client sessions (`proxy/clients/http3`) | session or pending connect per peer | find, connect, close | waiting for somebody else's connect, which may be cancelled | nobody waits for ever |
| Body pipeline (`timeout`, `proxy/request_body`) | timers, relay channel | relay, limit, time out | relay and response wait for each other | an answer is held back by nothing but the upstream |
| Rate limiting (`rate_limit`) | buckets per shard; a document in shared memory | check, refill, cleanup | crash inside a write, clock steps, capacity | no more than burst plus rate |
| Snapshot versions and statistics (`state/snapshot_bus.rs`, `state/counters`, `state/traffic*`) | a global version and one per component and target; counters, rolling windows | mark, wait, delta, count | marks are several atomics; a reload rebuilds the tables | a client that is not caught between a recorder's steps learns of every change, counts add up |
| Routing, access control, dispatch (`router`, `client_ip`, `request_target`, `handler/dispatch`, `proxy/common.rs`) | compiled tables, counters, challenges | normalise, match, attribute, authorise, limit, forward, count | precedence rules, hostile headers, reloads between the steps of a request | the most specific route wins, and what is forwarded is what was authorised |
| Certificates (`rginx-runtime/acme`, `ocsp`, `rginx-http/tls`) | files, acceptors, challenges, backoff | reconcile, renew, staple | minutes pass between reading and using the configuration | acceptors are current |
| Configuration (`rginx-config`, `rginx-core`) | none | expand includes, parse, validate, compile, build acceptors | include cycles; three ways to declare listeners; rules that look at the written form | the compiled configuration has what the runtime assumes |
| Command line, pid file, admin socket, compression, gRPC, observability | pid file, socket | various | pid file during a restart | the live process owns it |

How they interact: a configuration is loaded, validated and compiled
(ConfigLoad, ConfigValidate, ConfigCompile) and installed by a reload
(Lifecycle). An accept worker hands a connection to the handler, which routes
the request, attributes it, checks access and limits (Routing, Dispatch,
RateLimit) and asks the cache; the cache decides what it may answer
(CachePolicy), looks the key up in its index after synchronising it with the
shared document (SharedIndex), and on a miss coordinates the fill (FillLock),
whose body goes to the client, the file and other readers (FillBody); the
response is stored (CacheStore). The proxy resolves names (Resolver), selects
endpoints and forwards (UpstreamPeers), through clients and sessions it keeps
(EndpointClients, Http3Sessions), with the request's body relayed (BodyRelay).
What happened is counted and announced (SnapshotBus). Background tasks (health
checker, cache cleanup, certificate renewal) change the same state. Between
requests the components share locks and atomics only, within a process, and
the shared-memory documents between processes.

## Modules and code

**FillLock** is one cache key. A request's program counter walks through its
lookup (`FreshHit`, `LocalDecision`, `AcquireFillLock`, `SharedBusy`,
`LoadExternal`), its wait (`Woken`, `PollExternalLock`, `ClearStaleFillLock`,
`WaitTimeout`), or its fill (`PublishResponse`, `AttachFillReadState`,
`RecordBytesWritten`, `MarkUpstreamComplete`, `FinishFill`, `FailFill`,
`CommitEntry`; a finished fill may still fail, `FinalizeFails`) and the three critical sections of the guard's drop (`DropLocal`,
`DropExternal`, `DropNotify`). A reader of another process's fill opens and
polls (`OpenExternalFill`, `PollExternalFill`). Operations of the tables never touch two
keys, so one key loses nothing. Time is the age of a lock, which saturates just
above `LockAge`: a bound of the model, with which comparisons stay exact. Processes may crash at any step.

**SharedIndex** has the document (`doc`), the workers' mirrors and cursors. One
access to the document under its file lock is one step. `Publish` is
`apply_zone_shared_index_operations_locked`; `SyncStart`, `ApplyDelta`,
`RejectDelta` and `Reload` are the synchronisation that precedes a lookup;
`Bootstrap`, `Rebuild` and `ResetSegment` the start of a worker; `DieWriting` a
worker that dies inside `write_document`. Entries and admission counts are one
map since both are written blindly by key. `past` is history: the document's
contents at each sequence number.

**ReplicatedIndex** is what SharedIndex promises: a log of the contents and, for
every worker that follows it, a view that is some point of the log and only
moves to its end. SharedIndex instantiates it (`ImplementsReplicatedIndex`) with
`past` as the log, the mirrors as the views, and as followers the workers that
have loaded the document since its last rebuild and have not published while
they lagged behind; a worker that strays is promised nothing until its next full
load.

**CacheStore** has the index of one worker (`entries`, `variants`, `scheduled`,
`hash_ref_counts`, `current_size_bytes`), the files (`body`, `metadata`), the
per-hash I/O locks and the tasks. A change of the index is one step, every file
operation is one, and so is what follows the release of the index lock: the hot
access states that go (`ForgetGone`) and the head kept in memory (`StoreHead`). A
response may be stored under another key than the one it was looked up by, in which
case the entry of the old key goes, and a response that renews a cached entry keeps
that entry's hash; a 304 refresh has its error paths. One step stands for the hot
states of several keys, and for a lookup together with the arrival of its answer.
All the keys are variants of one base key, the case in which
entries interact. Sizes are counted byte by byte (`SizeOf`) and references entry by
entry (`Dereferenced`), for any order of removals.

**AccessSchedule** has the two loops over the schedule which CacheStore takes as
given (`EvictionCandidates`, `CleanupInactive` choose by effective access time). A
hit may move an entry's time while a loop runs, since it does not take the index lock
(`RecordEntryAccess`). A hot state that is forgotten late can also put the time of an
entry back; that changes which entry goes first and is left out.

**CachePolicy** is one resource of one zone: lookups (`HitFresh`, `HitUpdating`,
`BackgroundUpdate`, `MissExpired`, `Miss`, `DropDead`), the origin's answers
(`OriginAnswers`, `NotModified`, `FetchFails`) and what they do to the entries,
the admission counts and the hit-for-pass marks. Keys, vary matching, freshness,
phases, stale windows, conditions, slices and the trimming of a slice's frames
are operators. A body is the version the origin had, and for slices the numbers
of its bytes; header values are the directives the code tells apart. One fetch
is in flight at a time: the races are CacheStore's and FillLock's.

**FillBody** is the body of one fill: the downstream body that copies frames into
the bounded queue, the task that goes on draining when its client leaves, the
writer, and readers of the same process that follow the file. A write is taken
before it reaches the file (`Land`), as tokio's `File` does, so that it can fail
late. A reader's look at the bytes and its look at the end mark are two steps.

**Lifecycle** has the main task (`pc`), the groups (`active`, `draining`,
`stop`), the shared listener state (`config`, `retired`, `acceptors`, `slots`,
`count`), the accept workers (`at`), connections and services. The commit of a
reload is four steps, as it takes four locks; the lookup of a listener is two; the
reconciliation of the groups is one, although it retires and starts them one after
another: the groups are the main task's own, and a worker only meets the entry of its
own listener in what it changes;
shutdown is modelled join by join, with its timeout at any of them.

**UpstreamPeers** has the registry (`health`, one record per peer, shared by its
endpoints as in `ensure_endpoint`), the cursor, requests that select peer by
peer (`Begin`, `Resolve`, `CountActive` and `Examine` under two locks, `FinishPool`),
attempt, retry and finish, and rounds of probes, one of which may find no client for
its peer (`ProbeWithoutClient`). `steady` and `streak` are history variables: the peers
that were selectable (or out) during the whole of a selection, and the good
probes in a row since the last bad one.

**Resolver** is one name: hits, concurrent lookups (each writes over the entry when
it ends), stale answers, negative entries, early refreshes, dropped requests. A lookup
goes through hickory's own cache of records (`hickory`, `LookupIp`, external), which
is on by default, so that rginx gets what is left of a record's time to live
(`TtlsLeft`), not a fresh one.
**EndpointClients** is the bounded cache of clients by address; `used` is history, the
last use of every address. **Http3Sessions** is
one session key: the first request connects, others wait on its `Notify`;
requests are dropped anywhere, sessions are closed by their driver.
**BodyRelay** is one attempt with a streamed body: the client's body behind its idle
timeout and its limit, which ends plainly or with trailers (`ClientTrailers`), the
relay task, the channel of one frame, the upstream's client, the handler that holds the answer back until the relay has reported.

**RateLimit** has the table of a process or the shared document: checks that take
their time before they take the lock, eviction, cleanup, reloads that change the
policy, a clock that is set back, a segment that is full, torn by a process that
dies, or recreated because two processes disagree about its size.

**ConfigLoad** expands includes and environment placeholders line by line, call by
call, and then parses, validates, compiles and builds acceptors; a directive that is
malformed or names no directory (`ReadIncludeFails`) and a text that does not parse
(`ParseConfigFails`) end it.
**ConfigValidate** has the rules of `validate/`, **ConfigCompile** what `compile/`
derives (listeners in the three ways of declaring them, upstreams by scope, zones,
routes, certificates), when an acceptor can be built and which sessions it lets
clients resume (`KeepsSessions`, `IssuesTickets`). A virtual host's own upstream has
a compiled name that can also be written down for a global one, which it then
replaces (`Extended`). Configurations are
records that mirror the model, an `Option` being a set of at most one element.

**Routing** has the pure part of a request's way: path normalisation, the choice of
virtual host and route, gRPC and regex precedence, the client's address, the
upstream's path and the headers it is sent. **Dispatch** has the steps of
`handler/dispatch`: the configuration is taken once, then challenge, route, early
data, access, limit, action, response, counters, and the body of a gRPC response
(`ObserveStatus`, `EndStream`, `DropBody`, with the flag that makes `FinishBody` act
once), with reloads, challenges that come and go and clients that leave in between.

**SnapshotBus** has the recorders' pattern (change the data, take a number, store it
for each slot, notify), an admin client that takes a snapshot and then repeats
wait, delta and fetch, and the rolling counter. A delta reads its slots in one step,
where the code reads them one by one: a slot can only go back while a recorder is
between its number and its stores, and a client that reads then counts as exposed.

Modules that share no state are checked in one run where that is cheaper: in
**MCWaiting** (FillLock, FillBody, BodyRelay, Http3Sessions), **MCCache** (CacheStore,
AccessSchedule, CachePolicy), **MCProxy** (UpstreamPeers, Resolver,
EndpointClients) and **MCEdge** (ConfigLoad with the configurations of **MCConfig**,
Dispatch with the scenarios of **MCDispatch**, RateLimit, SnapshotBus) a behaviour
is one of the parts while the others rest in an initial state.

Two small modules serve several: **Orders** has the sorted sequence of a set of
elements with their keys, which is how peers and endpoints are ordered, and
**Counters** the one property that is about Dispatch and the rolling counter of
SnapshotBus together.

The proofs about a module are in **SharedIndexProofs**,
**CacheStoreProofs** (CacheStore, AccessSchedule, CachePolicy), **LifecycleProofs**,
**ProxyProofs** (UpstreamPeers, Resolver, EndpointClients), **WaitingProofs**
(FillLock, Http3Sessions, BodyRelay, FillBody), **ConfigProofs** (ConfigLoad,
ConfigValidate, ConfigCompile) and **EdgeProofs** (SnapshotBus, RateLimit,
Routing, Dispatch, Counters), with **DataInduction** for the lemmas on induction,
sorting and remainders.

## Runs, bounds and fairness

| Run | Checks | Bounds, and why they are enough |
|---|---|---|
| `fill_lock` | `HolderKeepsLock`, `NoLostWaiter`, `ExternalReaderSawItsFill`, `RecordTakenOnlyWhenStale` | two processes, three requests (holder, successor and waiter; or filler, successor and reader), two fingerprints, one process may crash, `LockAge` 0 so that takeovers happen after one tick |
| `waiting` | `WaiterResumes`, `ReaderWakes`, `AnswerReleased`, `WaitersResume`, `BodiesWhole`, `PendingMeansConnecting` | lock: two requests of one process, the waiter on the other's guard, or one in each of two processes, of which the second may crash and have its document writes fail, with forced revalidations and `LockAge` 1; body: two units, entry limits below and at its length, a queue of one, one reader; relay: three frames against a limit of two; sessions: two requests, three connects |
| `fill_lock_reader` | `ExternalReaderTerminates` (violated) | filler, reader and the request that takes the record over |
| `fill_body_truncated` | `EndedReadersAreComplete` (violated) | one reader, a body of two units |
| `shared_index` | `IndexSound`, `Converges`, `ImplementsReplicatedIndex` | two workers (one starts late), a ring of one change, two changes, one rebuild: every batch the code publishes |
| `shared_index_epoch` | `OldCursorBlocked` (violated) | both workers started, a store and a purge, one rebuild |
| `shared_index_missed` | `CaughtUpMeansEqual` (violated) | both workers started, a store and an invalidation, no failures |
| `cache` | `IndexConsistent`, `FilesMatchIndex`, `IndexedFilesNeverDeleted`; `LoopsCorrect`; `NothingServedTooOld`, `AnswersTheAsker`, `RefreshesConfirmed` | two keys of sizes 1 and 2 in a zone of 2 (every second store evicts), once with two tasks and three bodies but without 304 answers and failing writes (see Observations), once with two tasks, two bodies and 304 answers, once with one task and everything; all schedules of three entries (of size 2, 1 and 0) over four times, batch of two, one hit while the loop runs; seven mixes of a policy with the requests and answers that interact with it, of two to four time units, up to three versions and four fetches, a resource of five bytes in slices of two |
| `lifecycle` | `IdentitiesKept`, `ListenerAvailable`, `WorkersMatchConfig`, `NothingLeftBehind`, `MainReturns` | three listeners, two addresses, three configurations that remove, re-add, drop TLS and reuse an address; two reloads; two connections with a limit of one; one worker per group, one service, one failing `accept` |
| `lifecycle_renewal` | `NoPlaintextOnTls` (violated) | one reload and one renewal |
| `proxy` | `BalancingSound`, `FailoverIsSafe`, `HealthEarned`, `SelectionCorrect`; `AnswersBounded`; `KeepsTheRecent` | two requests, five upstreams (the three policies, weights, `max_conns`, a backup, a name with two addresses), three kinds of requests (a GET, a PUT whose body is too large to collect, a POST whose body is buffered, the POST to two of the upstreams only), threshold 2, two good probes required, three faults; two resolving requests, two policies, records that live for 0 or 2, five times, so that a record, its entry and the stale period can each end while the other request looks up; four addresses, capacities 1 to 3, eleven accesses |
| `edge` | `IncludesExpanded`, `CompiledSound`; `RouteIsMostSpecific`, `ClientVouched`, `OnlyCheckedExecuted`, `CountersExact`; `LimitExact`; `ChangesReachClients` | families of configurations, each an accepted one with the interacting options varied; families of requests and tables, and two requests with reloads, a challenge and a gRPC response; two clients, two concurrent checks, two policies, a table and segments of one and two buckets, one fault; two recorders with four mixes of slots and two or three changes, one admin client; windows of up to three seconds |

Several of these are conjunctions, one per question, of named parts that stand
before them in the modules with their own comments; each part that could fail by
itself has a mutant in `PROJECT.json`:

| Property | Its parts |
|---|---|
| `IndexSound` | types, no gap in the ring (`RingContiguous`), mirrors are past states (`MirrorsThePast`) |
| `IndexConsistent` | types and size, derived parts (`PartsAgree`), dimensions of variants (`VariantsAgree`) |
| `FilesMatchIndex` | `IndexMatchesDisk`, `NoOrphanFiles` |
| `LoopsCorrect` | `EveryEntryScheduled`, `EvictsTheLeastRecentlyUsed`, `CleansUpTheInactive`, `LoopsBounded` |
| `AnswersTheAsker` | `PrivateStaysPrivate`, `VariantServed`, `RangeServed` |
| `IdentitiesKept` | types, `NoSharedIdentity`, `LimitHeld` |
| `WorkersMatchConfig` | `GroupsMatchConfig`, `AcceptorsCurrent` |
| `BalancingSound` | types, `ActiveRequestsExact`, `WeightedShare` |
| `HealthEarned` | `CooldownEarned`, `ProbesDecide` |
| `SelectionCorrect` | no peer that was out all the time, none missed that was up all the time, primaries first |
| `IncludesExpanded` | `IncludesInlinedInOrder`, `OnlyRealCyclesRefused` |
| `CompiledSound` | `ListenersDistinct`, `ReferencesResolve`, `Http3IsSecured`, `TlsListenersHaveCertificates`, `ManagedCertificatesRenewable`, `BufferedBodiesBounded`, `DefaultsKeepBounds` |
| `ClientVouched` | `ClientAddressVouched`, `ForwardedHeadersAreOurs` |
| `OnlyCheckedExecuted` | `ChecksBeforeExecution`, `AuthorizedPathIsForwarded` |
| `CountersExact` | `CountersAddUp`, `GrpcEndsOnce`, `RecentCountsExact` |
| `LimitExact` | `AdmittedWithinBudget`, `PoliteClientAdmitted` |
| `ChangesReachClients` | `NoWaiterForgotten`, `DeltasMissNothing` |
| `BodiesWhole` | types, `StoredOnlyComplete`, `NoTruncatedBody`, `NoAnswerOverLimit` |

Symmetry is used where the permuted names occur in no constant but their set
(`TaskSymmetry`, `RequestSymmetry`, `RateSymmetry`), in runs that check no liveness.
`CHECK_DEADLOCK FALSE` is given where the system may rest: an idle cache, a
finished loop, a loaded configuration, requests that are all answered, an idle
set of workers at the bound of its sequence numbers. The other runs check for
deadlock.

Fairness, and why the code justifies it:

- *FillLock*: request tasks are scheduled by tokio; the upstream ends every body,
  because the proxy has timeouts for it; time passes. Nothing is assumed of the
  lock timeout, of heartbeats or of crashes: `WaiterResumes` holds without them, for
  a waiter on a guard of its own process and for one on another process's record.
- *SharedIndex*: weak fairness of a worker's synchronisation, since each lookup
  begins with one. A worker without requests does not catch up, and need not.
- *Lifecycle*: the main task and aborted tasks are scheduled, the shutdown timer
  fires. No client, service or signal is assumed to do anything.
- *FillBody*: its tasks are scheduled and a write ends, well or not; the client
  that fills reads on or leaves (a configured write timeout makes it), and the
  upstream's body goes on, ends or fails, by the proxy's timeouts.
- *BodyRelay*: relay and handler are tasks, the client's body has its idle timeout.
  Nothing is assumed of the upstream, since nothing in rginx makes it read on once it
  has answered (Observations). `AnswerReleased` says that the response is released
  for good, or that it is the upstream that has stopped taking the body
  (`HeldUpByUpstream`): client, relay, channel and handler never keep it.
- *Http3Sessions*: a connect ends, by its timeout at the latest, and requests are
  scheduled. Nothing is assumed of dropped requests or of sessions' ends.

`AccessSchedule` needs no fairness: `LoopsBounded` is an invariant. The fairness of
`waiting` is that of the modules, for the part a behaviour is of.

## Proofs

Eight modules hold theorems, one for each group of components (`DataInduction` has
lemmas only). Every theorem is of the component's own specification, with its
constants left open: any number of processes, tasks, keys, listeners or peers, any
sizes and any bounds.

| Module | Theorem | Statement | Inductive invariant |
|---|---|---|---|
| SharedIndexProofs | `IndexIsSound` | `Spec => []IndexSound` | `IndexInv` |
| | `IndexImplementsLog` | `Spec => ImplementsReplicatedIndex` | `IndexInv` |
| CacheStoreProofs | `IndexIsConsistent` | `Spec => []IndexConsistent` | `IndexInv` |
| | `DiskMatchesIndex` | `Spec => []FilesMatchIndex` | `StoreInv` |
| | `IndexedFilesAreKept` | `Spec => IndexedFilesNeverDeleted` | `StoreInv` |
| | `LoopsTakeTheRightEntries` | `ScheduleSpec => []LoopsCorrect` | `ScheduleInv` |
| | `NothingTooOldIsServed` | `PolicySpec => []NothingServedTooOld` | `PolicyInv` |
| | `AskersGetTheirAnswers` | `PolicySpec => []AnswersTheAsker` | `PolicyInv` |
| | `RefreshesAreConfirmed` | `PolicySpec => []RefreshesConfirmed` | `PolicyInv` |
| LifecycleProofs | `IdentitiesAreKept` | `RenewalSpec => []IdentitiesKept` | `LInv` |
| | `ListenersAreAvailable` | `RenewalSpec => []ListenerAvailable` | `LInv` |
| | `ShutdownLeavesNothing` | `RenewalSpec => []NothingLeftBehind` | `LInv` |
| | `WorkersAlwaysMatch` | `Spec => []WorkersMatchConfig` | `LInv`, `AcceptorsInv` |
| ProxyProofs | `PeersOutWhenEarned` | `Spec => []HealthEarned` | `HealthInv` |
| | `BalancingIsExact` | `Spec => []BalancingSound` | `PeersInv` |
| | `FailoverOnlyWhenSafe` | `Spec => []FailoverIsSafe` | `PeersInv` |
| | `SelectionsCorrect` | `Spec => SelectionCorrect` | `PeersInv` |
| | `AddressesNeverTooOld` | `ResolverSpec => []AnswersBounded` | `ResolverInv` |
| | `RecentClientsKept` | `ClientsSpec => []KeepsTheRecent` | `ClientsInv` |
| WaitingProofs | `TypeCorrect` | `Spec => []TypeOK` | `TypeOK` itself |
| | `HolderKeepsLockAlways` | `Spec => []HolderKeepsLock` | `LockInv` |
| | `NoLostWaiterAlways` | `Spec => []NoLostWaiter` | `LockInv` |
| | `RecordTakenOnlyWhenStaleAlways` | `Spec => RecordTakenOnlyWhenStale` | `RecordInv` |
| | `ExternalReaderSawItsFillAlways` | `Spec => []ExternalReaderSawItsFill` | `ReaderInv` |
| | `OneConnectAtATime` | `SessionsSpec => []PendingMeansConnecting` | `ConnectInv` |
| | `RelayedBodiesWhole` | `RelaySpec => [](NoTruncatedBody /\ NoAnswerOverLimit)` | `RelayInv` |
| | `OnlyWholeBodiesStored` | `FillBodySpec => [](FillBodyTypeOK /\ StoredOnlyComplete)` | `FillBodyInv` |
| | `BodiesAlwaysWhole` | `WaitingSpec => []BodiesWhole` | the two above |
| ConfigProofs | `IncludesAreExpanded` | `LoadSpec => []IncludesExpanded` | `ExpandInv` |
| | `CompiledIsSound` | `LoadSpec => []CompiledSound` | `SnapshotInv` |
| EdgeProofs | `ClientsLearnOfChanges` | `BusSpec => []ChangesReachClients` | `BusInv` |
| | `LimitIsExact` | `RateSpec => []LimitExact` | `RateInv` |
| | `RoutesAreMostSpecific` | `DispatchSpec => []RouteIsMostSpecific` | `DispatchInv` |
| | `ClientsAreVouchedFor` | `DispatchSpec => []ClientVouched` | `DispatchInv` |
| | `OnlyCheckedRequestsExecute` | `DispatchSpec => []OnlyCheckedExecuted` | `DispatchInv` |
| | `CountersAreExact` | `DispatchSpec /\ RollingSpec => []CountersExact` | `DispatchInv`, `RollingInv` |

`Spec` is the specification of the module's component; `RenewalSpec` is Lifecycle
with certificate renewals, so what holds of it holds of `Spec`. `BodiesAlwaysWhole`
is about the specification of the run `waiting`, in which a behaviour is one of the parts.

### The arguments

**Fill lock.** `HolderKeepsLock` is not inductive: it says nothing of how
generations are handed out. `LockInv` adds that no generation exceeds the process's
counter, that no two guards of a process have the same generation, and that a lock
in the table belongs to a guard that will still drop it; then the comparison in the
drop can only remove one's own lock, and a waiter, which takes its generation from a
lock in the table, always has a guard that will notify it. `RecordInv` says that the
record's owner has acquired and that the record of a filling request is not
released, so that others change it only through the staleness test. `ReaderInv` says
that a fill is finished or failed by its last steps only (`EndsLast`; a finished one
may still be failed by the commit of its entry) and that neither the record nor the snapshot a reader holds is
ahead of the fill it names, so a reader that sees `finished` saw its own fill finish.

**Shared index.** `Recorded` ties the ring to the history: the ring's numbers have no
gap and end at `last_change_seq`, and each of its operations leads from the contents
before it to the contents after it. From that `NewerOperationsAreTheEnd` and
`StagesProperties` show that what `operations_since` returns to a cursor the ring
still reaches, applied one by one, leads from the contents at the cursor to those of
the document; a publish of several operations that trims the ring keeps it
(`Follows`). The refinement has one step per action: a publish appends to the log, a
delta or a full load moves one follower to its end, a rebuild or a new segment
restarts it, everything else stutters.

**Cache store.** `Sound(idx)` is about an index as a value: variants and schedule are
the keys with an entry, the size is the number of bytes of the entries, and each
reference count is the number of entries of its hash. `RemovedSound`, `PutSound` and
`StoredSound` show that `remove_entry`, `insert_entry` and `update_index_after_store`
(with its replacement, its incompatible variants and its evictions) keep it; this is
where the sums are counted, as cardinalities of sets of bytes. `IndexInv` adds that
what a task saw was an entry, and a response where it is refreshed (`SeenInv`), as a
late 304 puts it back. For the files, `DiskInv`
says who works on a hash: a task in its critical part holds the hash's I/O lock, and
so is alone (`LockedAlone`); the files are those of the entry, or of the store that
has committed and not yet indexed; what is being deleted is not referenced; and
unreferenced files are attended to by someone. `DiskInv` is conditional on
`Undisturbed` like the properties (see Observations for why).

**Access schedule and cache policy.** `ScheduleInv` says that the schedule has a place
for exactly the entries left, none later than its entry's last access, so that the entry
at the least place is the least recently used one unless its place is stale; and
that the tickets given out and the stale places together never exceed twice the
number of entries plus the hits since the loop began, so that a place is renewed once
at most and once more per hit; what has been removed is judged by the time it had when
it left (`taken`). `PolicyInv`
says what the parts of an entry have in common: its deadlines follow from its headers
and the rule, its key and variant from the request that fetched it, a response for a
range is the part of the resource in its slice, and what was not meant for all is
kept only to be asked about. That the bytes trimmed from a slice are those of the
range is shown for any cutting of the body into frames, by induction over the frames.

**Lifecycle.** `LInv` has nine parts; none of the three properties is inductive
without most of them. `ListenerAvailable` needs to know that a worker's listener is
in the configuration or among the retired (`FoundInv`), which a reload keeps only
because the retired listeners are the draining groups' at every point of its commit
(`AgreeInv`) and the plan was made from the groups still there (`PlanInv`); the limit
needs that each counter counts the connections that hold it and that those of one
listener hold the same one (`CountInv`); the shutdown needs how far the joins have got
(`ScanInv`, `ServicesInv`). `AcceptorsInv` follows the revision of the acceptors
through the four steps of a commit. A renewal may replace the acceptors a reload has
just installed by those of the configuration it read earlier (what the run
`lifecycle_renewal` shows leads to), so `WorkersAlwaysMatch` is about `Spec`.

**Proxy.** `HealthInv` is the passive and the active half per peer, kept by each of
the registry's operations for itself. `ResolverInv` bounds an entry by the end of
its record: the lookup *began* before its record ended, validity counts from there, and
that is what a late answer that overwrites a newer one satisfies too.
`ClientsInv` compares the cache with `used`, the history of the last use of every
address: what has an entry is an upper part of that order, and short of the capacity
it is all of it. `PeersInv` is about the requests: what a selection has considered, taken
and left is what the pools and the registry offered (`SelectInv`), and an attempt's
guard is counted where its request says it is (`AttemptInv`), whichever of an
error, a retry, a success or a dropped client ends it. That a turn of the cursor gives each
peer its weight is arithmetic: the slots of the weights are laid end to end, and
the remainders of consecutive cursors visit each of them once.

**Waiting.** `ConnectInv`: a request that connects has its own pending entry, so there is
one at most. `RelayInv` is a conservation law: while the upstream's client polls, frames
taken, frames in the channel and the frame in hand are the frames read, and a failed
body has an error in front of it. `FillBodyInv` is another, from the upstream's body
through the queue to the file, with the end mark last.

**Configuration.** `ExpandInv` compares the loader's stack of calls with what the files
say: the text so far, followed by what the calls on the stack have yet to produce
(`Remains`, innermost call first), is the expansion of the main file. The expansion is
defined by a number of levels, the number of files: the call at depth i has that many
less i left for what it includes, and never runs out of them because the files on the
stack are all different. Each
of them includes the next, so a file that is refused because it is on the stack
already closes a cycle that is really in the files. `SnapshotInv` says that a snapshot was
compiled from a configuration that passed validation and, once the loader is ready, has
acceptors that could be built. The seven parts of
`CompiledSound` are then facts about validation and compilation together, shown for each
of the three ways to declare listeners: the one legacy listener, the explicit ones,
whose ids and addresses validation compares pairwise, and those of virtual hosts,
which are merged by address: the listener of an address has the options of
the first of its entries (which exists: positions are compared first by host, then by
index), and validation made the entries of an address agree on the protocols they speak.

**Edge.** `BusInv` says that a client that is not exposed asks from a version up to which
every recorder has stored its number, so that a store cannot put a slot back behind
the client. `RateInv` compares each bucket with two accounts of its history: what was
admitted plus what is left is within the budget (capacity once and once more for every
bucket forgotten, the rate times the time credited, and what a renewed policy granted),
and an ideal bucket that never forgets has no more than the real one, so none that
deserves a token is denied. `DispatchInv` has a record of what each request has been through:
`EntryFits` says that its route, its path, its client and its headers are those the
functions of Routing give for the configuration it took at the beginning, however many
reloads there have been since; `CountsInv` and `TokensInv` tie the counters and the limiter to
the requests at each point, and `GrpcInv` says what a gRPC body has recorded while it
lives, polled to its end or not, and once it is dropped. What Routing's loops
compute (virtual hosts, routes, path segments, header overrides) is shown by
induction over their steps: the best candidate so far is the first of the best,
normalised paths have no dot segment left and normalise to themselves. `RollingInv`
says that each bucket of the rolling counter holds a contiguous piece of the
increments, all of one second, and that what precedes the first bucket is
older than every window the code asks for.

`IndexInv` of both indexes, `DiskInv`, `LInv` and the other invariants were run as
invariants of the component's run before they were proved.

### Assumptions

The named assumptions of the modules: the types of the constants; that null values are
not among what they stand for; finite sets of keys, addresses, policies and
connections, where something is counted; `BodySize[k] <= MaxSize` (a response larger
than the zone is not admitted); positive weights, thresholds, rates and limits, and
listeners of one configuration at distinct addresses (configuration validation refuses
the others); peers of an upstream with different urls (a repeated one is not refused,
and makes two entries one peer: see Observations), whose endpoints differ because an endpoint's key
begins with its peer's url (`resolver/endpoint.rs:74`) and a peer's own are
deduplicated (`resolver/runtime.rs:172`); that `SizeOfAll` counts bytes one by one;
the types of parsed header values, conditions and ranges in CachePolicy; the shape of
a Dispatch scenario (its tables, requests and finitely many clients); of a ConfigLoad
scenario, finitely many files, the main one among them, whose lines are text or an include,
and what the types of `rginx-config/src/model/` say of a parsed configuration: its lists are
finite sequences and its options have a value or none. TLC evaluates each of
them on every run of its module.

### Induction

The library's induction theorems take an operator as a parameter, which the provers
cannot instantiate. `DataInduction` states induction for a *set* of naturals
(`NatSetInduction`, `BoundedInduction`, from `LeastNatural`), and with it that a
function defined step by step exists and is what its equation says
(`IterationExists`). This is how SharedIndexProofs knows what the recursive functions
`Stages` and `NewerOperations` compute, ConfigProofs what `Inlined` does, EdgeProofs what the loops of Routing and the
sum over the buckets of SnapshotBus compute, and ProxyProofs the sums of weights.
A sorted sequence is determined by ranks: `Rank` is the number of
elements before one, and the sequence that has every element at its rank is `Sorted`,
whatever the algorithm. Where a sum over a set is needed, as in CacheStore, the model
counts instead of folding.

### What stays with TLC

- Liveness (`WaiterResumes`, `ReaderWakes`, `AnswerReleased`, `WaitersResume`,
  `MainReturns`, `Converges`): the prover handles neither
  fairness nor `ENABLED`.

## Disagreements between code and documents

Five runs are expected to be violated; `PROJECT.json` quotes the lines.

- `fill_lock_reader`: a reader of another process's fill ignores read errors as
  long as its last snapshot is neither finished nor failed; when the fill fails
  and its record is reused in between, the reader polls without end.
- `shared_index_epoch`: a rebuild after a torn write keeps the segment's epoch
  and starts the sequence at zero, so an old cursor becomes valid again.
- `shared_index_missed`: publishing sets the worker's cursor to the document's
  position even if changes of others were not applied.
- `lifecycle_renewal`: a certificate refresh that overlaps a reload replaces the
  whole acceptor map; a TLS listener without an acceptor is served in clear.
- `fill_body_truncated`: a reader in the filler's process compares its position with
  the bytes written (`cache/fill/local.rs:229`) and looks at the end mark in a later
  step (`:273`); the last bytes and the mark in between end its body early, as if
  it were whole. The test `cache/tests/storage_p4/streaming.rs:177` expects the whole
  body.

## Observations

Facts met while modelling that no run above states as a property, or that limit
what a property claims.

Cache:

- A 304 that arrives after its entry was purged or evicted puts the entry back
  in the index without files (`store/revalidate.rs:176`), and a 304 that makes an
  entry unstorable deletes the files without the hash's lock (`:154`).
  `FilesMatchIndex` and `IndexedFilesNeverDeleted` are therefore stated for the
  setting without 304 answers and failing writes (`Undisturbed`) and fail with
  them for these reasons; a lookup finds such an entry unreadable and drops it. The tests at `cache/tests/storage_regressions.rs:146` and `:318`
  cover neighbouring cases.
- An invalidation hits entries stored before its millisecond (`invalidation.rs:30`, `<`);
  `docs/CACHE_ARCHITECTURE_GAPS.md:334` says `<=`.
- A store that evicts its own entry leaves its files until the next start. So does a
  refresh whose answer cannot be built: it returns before it deletes the files of the
  entries its update of the index has displaced (`store/revalidate.rs:84`, `:202`).
- Rebuilding or resetting the shared document drops its fill records; FillLock
  does not contain that event.
- A rejected document write leaves the local index with a change nobody else has
  (`cache/shared.rs:148`); a rebuild from disk forgets the invalidation rules
  (`cache/shared/bootstrap.rs:41`); a commit whose second rename fails deletes
  the files under the final names, those of the entry it was to replace included
  (`entry/write.rs:40`), while the index still has that entry.

Cache policy:

- A client's own `If-None-Match` reaches the origin (`runtime/context.rs:51`). For an
  entry without validators a 304 about the client's copy then refreshes the
  cache's, and a 304 with an `ETag` gives the old body the new tag.
  `RefreshesConfirmed` leaves such entries out (`sure`).
- A range that ends past the resource inside a slice gets the whole slice, with
  another `Content-Range`, and one beyond the end of a cached last slice gets that
  slice and no 416 (`cache/request.rs:167`, `entry/response.rs:57`). `RangeServed` is
  about ranges that end inside the resource.
- The `no_cache` branch of a 304 refresh stores without asking whether the response
  may be stored, marked for revalidation (`store/revalidate.rs:28`).
- Without `keep`, `grace` and stale windows an entry is never dead
  (`runtime/support.rs:69`). A response that may not be stored, without `pass_ttl`,
  leaves the expired entry usable within its stale windows.
- Hit-for-pass looks at the first `Cache-Control` header and at whole tokens only
  (`cache/store/helpers.rs:127`).

Body of a fill:

- The inner wait of a local reader creates its `Notified` after its read
  (`fill/local.rs:248`): a notification in between is lost, and after a write that
  failed late nothing notifies again, so that the reader sleeps for ever.
  `ReaderWakes` is about the outer wait, which registers first. A reader may also
  see an unexpected end of file when the file is shorter than the bytes announced.

Lifecycle:

- Two quick reloads drop the acceptor of a listener still draining from the
  first (`state/lifecycle/reload.rs:110`): `NoPlaintextOnTls` also fails with two
  reloads and no renewal.
- A worker's guard notifies before its task counts as finished
  (`bootstrap/listeners/activate.rs:16`): the main task may prune nothing and wait
  for the next signal; until then the listener cannot be added again.
- A signal that arrives while a reload or restart is being handled is lost, as
  the streams are created for every wait (`shutdown.rs:14`).
- `accept()` errors end a worker for good (`server/accept.rs:47`); at shutdown the
  join of such a worker returns an error at once, and other groups are not
  waited for (`bootstrap/listeners/join.rs:11`).
- Handles are taken before they are awaited, so the shutdown timeout drops the
  one being awaited instead of aborting it (`bootstrap/shutdown.rs:88`); the test
  `graceful_shutdown_aborts_pending_tasks_after_timeout` covers the others.

Upstreams:

- `max_conns` is checked at selection and counted at the attempt
  (`registry/selection.rs:220`): concurrent selections may exceed it.
- Probe results of a named peer's endpoints are dropped until a request has
  selected them (`registry/state.rs:94`).
- The two pools share a cursor: with the primaries down and an even backup
  weight the same backup always comes first.
- A peer url may be written twice in one upstream (`validate/upstream/basics.rs` does not
  compare them). The two entries share health and counters, and a failover from the one to
  the other goes to the same endpoint. `FailoverIsSafe` does not claim that the second
  endpoint is another one; the runs have different urls.
- The endpoints of a peer share one health entry; one bad address keeps
  resetting the count of the good ones, and a late success of an older request
  ends a cooldown early.
- The comparison that sorts endpoints reads a shared counter twice
  (`registry/selection.rs:162`), so it need not be an order.
- A reload starts a new registry: health and counts are forgotten.
- A slow older lookup overwrites a newer answer (`resolver/runtime.rs:120`), a failed
  one replaces an answer stored since it dropped the lock by a negative entry,
  a negative entry never suppresses a lookup, and a stale answer is judged by the
  time its failed lookup began (`:132`). None of it breaks `AnswersBounded`, which
  counts from the end of the record.
- `max_ttl` does not shorten a record's time to live: after it rginx asks again, and
  hickory answers from its own cache (`resolver/endpoint.rs:13`, default options) until
  the record has expired. A record that has expired by the time it is looked at,
  one with a time to live of 0 included, is kept for `max_ttl` (`resolver/runtime.rs:170`).
- An HTTP/3 request that finds a pending session registers after releasing the
  lock and may sleep through the notification (`clients/http3/connect.rs:42`);
  a dropped connect leaves its pending entry for ever (`:44`), and later requests
  wait until their own deadline.
- While the relay waits for room in the channel its idle timer is not polled
  (`request_body/streaming.rs:55`). An upstream that has answered early and is blocked
  writing the response, which is held back until the relay has reported, reads no
  further, and the relay waits for it to read: a circle that only the client's
  departure opens. `AnswerReleased` names it as the one exception.

Configuration:

- With `servers[].listen`, UDP addresses of HTTP/3 are not compared with each other,
  and a virtual host that listens with `http3` but has no `http3` block is not
  checked by `validate_http3`; the acceptor's own checks catch part of it.
- With explicit listeners, `server.proxy_protocol` is ignored without a word.
- A managed virtual host is accepted beside another one that serves HTTP/3 on
  another address, whose QUIC certificates then include the managed one
  (`validate/acme.rs:200`).
- A blank `server.listen` passes validation and fails in compilation.
- `session_ticket_count` alone turns stateless tickets on (`rginx-http/src/tls/session.rs:33`),
  while HTTP/3 early data refuses `session_tickets` only (`validate/server/http3.rs:86`);
  `Http3IsSecured` leaves that case open.
- A global upstream named like a virtual host's own, `servers[0]::u`, is replaced by it
  in the compiled table (`compile/upstream.rs:30`, `compile/mod.rs:135`), and the routes
  that named the global one hold an upstream that the table no longer has.

Requests and counters:

- Route counters are found by the route's id in the configuration in force, so
  requests of a removed route are counted nowhere and the counters of one that
  returns start anew; `CountersAddUp` is about routes that stay.
- A request dropped while it is suspended counts as a request without a response.
- The `X-Forwarded-For` chain is asked before the peer the PROXY protocol reports: where
  a trusted peer reports a source that is not trusted, a chain that source may have
  written is believed (`client_ip.rs:78`, `:142`). `ClientAddressVouched` says so.

Rate limit:

- A check whose time is older than the bucket's sets the bucket back and an
  interval is credited again, as is one after the wall clock was set back
  (`shared/bucket.rs:61`). `AdmittedWithinBudget` counts these grants.
- A raised burst is granted at once if the bucket was evicted meanwhile.
- A torn document is never repaired (`shared/mod.rs:67`): every request that attaches
  to it is denied. A full one denies every new client until a cleanup
  (`shared/document.rs:79`). `LimitExact` is about denials by a bucket, not about these. Two processes with different
  `RGINX_RATE_LIMIT_SHM_CAPACITY_BYTES` keep recreating the segment.

Snapshot versions:

- A delta between a mark's number and its stores reports the version without the
  change (`snapshot_bus.rs:223`); two marks that store in the other order move a
  component's version back. `DeltasMissNothing` leaves out clients whose reads fell
  in between (`exposed`).
- `GetSnapshot` reads the data before the version (`admin/service.rs:103`), and
  `sync_cache_versions` reads, copies and writes (`state/cache.rs:113`).

Not modelled, from reading: the predecessor of a restart may remove the pid file
its successor has just written (`rginx-app/src/pid_file.rs:82`); an ACME order works
minutes with the configuration it started from (`acme/scheduler.rs:202`).

## What is not modelled

Bytes: HTTP parsing, compression, gRPC framing, PROXY protocol, TLS and QUIC
handshakes, OCSP and JSON encodings, the RON grammar. Connection pools of hyper
and quinn. Log and metric output, access logs, admin rendering. The file-backed
fill lock, which Linux builds do not use. The replacement process of a restart is
an outcome (ready or not). Sizes, times and names are small sets. The mmap layer
is a whole-document read or write, except for the torn write of a process that
dies.

Not yet modelled, although they have control of their own: the HTTP/3 accept
loop, the ACME and OCSP schedulers, the pid file and the admin socket file in a
restart, static answers, write timeouts and gRPC deadlines of responses, the
marks a reload makes on the snapshot bus. The parts of a run are independent: a
composition of, say, CachePolicy with two concurrent fetches, or UpstreamPeers
with a resolver instead of a choice, is not checked.

## Plan

Models: the certificate schedulers (reconcile, challenge, backoff, staple) against
reloads; the pid file and the admin socket across a restart; the HTTP/3 accept
loop; CachePolicy with concurrent fetches; a run of UpstreamPeers with one request
and liveness (peers return, requests are answered).
