----------------------------- MODULE Lifecycle -----------------------------
(***************************************************************************)
(* The life of a running rginx process: the signal loop of rginx-runtime   *)
(* (reload, restart, shutdown), the accept worker groups it starts, drains *)
(* and prunes, the listener state rginx-http shares with them (active      *)
(* configuration, retired listeners, TLS acceptors, connection counters),  *)
(* the connections that use that state and the background tasks that       *)
(* rebuild the TLS acceptors when a certificate changes.                   *)
(*                                                                         *)
(* A listener generation (one ListenerWorkerGroup) and a connection        *)
(* counter (one Arc in listener_active_connections) are both named by the  *)
(* listener and the revision that created them.                            *)
(***************************************************************************)
EXTENDS Naturals, FiniteSets, Sequences

CONSTANTS
    Listeners,      \* listener identities (Listener.id)
    Addrs,          \* socket addresses
    Configs,        \* what the configuration file may hold when it is loaded
    FirstConfig,    \* what it holds when the process starts
    Workers,        \* accept workers of a group (runtime.accept_workers)
    Conns,          \* names for the connections and upgraded tunnels
    Limit,          \* server.max_connections of every listener
    Services,       \* the admin, cache, health, ACME and OCSP tasks, in the
                    \* order graceful_shutdown joins them
    MaxRevision,    \* bound: reloads that commit, plus one
    MaxRenewals,    \* bound: certificate renewals
    MaxAcceptErrors,\* bound: workers whose accept() fails
    NoTls,          \* an absent acceptor: the connection is served in clear
    Closed          \* a connection that does not exist

ListenerSpec == [addr : Addrs, tls : BOOLEAN]
ConfigType == UNION {[D -> ListenerSpec] : D \in SUBSET Listeners}

\* What validation and compilation let through: listeners have addresses of
\* their own.
ASSUME ConfigAssumption ==
    /\ Configs \subseteq ConfigType /\ FirstConfig \in Configs
    /\ \A cfg \in Configs : \A l, m \in DOMAIN cfg : l # m => cfg[l].addr # cfg[m].addr
ASSUME BoundAssumption ==
    /\ IsFiniteSet(Conns) /\ Services \in Seq(STRING)
    /\ Limit \in Nat \ {0}
    /\ MaxRevision \in Nat \ {0}
    /\ MaxRenewals \in Nat
    /\ MaxAcceptErrors \in Nat

Revisions == 0 .. MaxRevision
Groups == Listeners \X Revisions
Slots == Groups
Tasks == Groups \X Workers
Acceptors == UNION {[D -> Revisions \cup {NoTls}] : D \in SUBSET Listeners}
Signals == {"reload", "restart", "shutdown"}

ConnType == [kind : {"http", "tunnel", "aborted"}, task : Tasks, slot : Slots]
ASSUME ClosedAssumption == Closed \notin ConnType

VARIABLES
    pc,         \* where the main task is
    woken,      \* the Notified future of this turn of the loop has fired
    plan,       \* the reload being carried out
    scan,       \* draining groups prune has still to look at
    how,        \* how graceful_shutdown ended
    revision, config,       \* SharedState.inner
    retired,                \* SharedState.retired_listeners
    acceptors,              \* SharedState.listener_tls_acceptors
    slots, count,           \* SharedState.listener_active_connections
    active, draining,       \* the maps of worker groups of the main task
    listener,               \* ListenerWorkerGroup.listener
    stop,                   \* groups whose shutdown channel says true
    at, saw, failed,        \* accept workers: position, acceptor read, error
    conn,                   \* connections and tunnels
    svc, taken,             \* the long-running tasks; handles already taken
    bgTaken,                \* background_tasks was emptied by a drain
    refresh, renewals       \* the certificate task

loop == <<pc, woken, plan, scan, how>>
shared == <<revision, config, retired, acceptors, slots>>
groups == <<active, draining, listener, stop>>
workers == <<at, saw, failed>>
services == <<svc, taken, bgTaken>>
renewal == <<refresh, renewals>>
vars == <<loop, shared, count, groups, workers, conn, services, renewal>>

NoPlan == [cfg |-> <<>>, gone |-> {}, built |-> <<>>, merged |-> <<>>]

(***************************************************************************)
(* Partial functions, as the code's hash maps use them.                    *)
(***************************************************************************)
Without(f, D) == [x \in DOMAIN f \ D |-> f[x]]
Over(f, g) == [x \in DOMAIN f \cup DOMAIN g |->
                 IF x \in DOMAIN f THEN f[x] ELSE g[x]]

ActiveGroups == {active[l] : l \in DOMAIN active}
LiveGroups == ActiveGroups \cup draining
Finished(g) == \A w \in Workers : at[<<g, w>>] = "done"

\* prepare_listener_tls_acceptors: one entry for every listener of a
\* configuration.  An acceptor is known by the revision it was built for.
BuildAcceptors(cfg, rev) ==
    [l \in DOMAIN cfg |-> IF cfg[l].tls THEN rev ELSE NoTls]

\* SharedState::tls_acceptor
TlsAcceptor(l) == IF l \in DOMAIN acceptors THEN acceptors[l] ELSE NoTls

----------------------------------------------------------------------------
Init ==
    /\ pc = "loop" /\ woken = FALSE /\ plan = NoPlan
    /\ scan = {} /\ how = "running"
    /\ revision = 0 /\ config = FirstConfig /\ retired = <<>>
    /\ renewals = 0 /\ refresh = [at |-> "idle", built |-> <<>>]
    /\ acceptors = BuildAcceptors(FirstConfig, 0)
    /\ slots = [l \in DOMAIN FirstConfig |-> <<l, 0>>]
    /\ count = [s \in Slots |-> 0]
    /\ active = [l \in DOMAIN FirstConfig |-> <<l, 0>>]
    /\ draining = {} /\ stop = {}
    /\ listener = [g \in (DOMAIN FirstConfig) \X {0} |-> FirstConfig[g[1]]]
    /\ at = [t \in Tasks |-> IF t[1] \in (DOMAIN FirstConfig) \X {0}
                             THEN "select" ELSE "none"]
    /\ saw = [t \in Tasks |-> FALSE] /\ failed = {}
    /\ conn = [c \in Conns |-> Closed]
    /\ svc = [i \in DOMAIN Services |-> "running"] 
    /\ taken = 0 /\ bgTaken = FALSE

----------------------------------------------------------------------------
(***************************************************************************)
(* The signal loop.  Every turn first arms the drain notification, then    *)
(* prunes, then waits.                                                     *)
(***************************************************************************)
\* The Notified future is created before prune looks, so a worker that ends
\* from here on is not missed.
LoopTop ==
    /\ pc = "loop"
    /\ pc' = IF draining = {} THEN "wait" ELSE "prune"
    /\ woken' = FALSE /\ scan' = draining
    /\ UNCHANGED <<plan, how, shared, count, groups, workers, conn, services, renewal>>

\* remove_retired_listener_runtime, for the listeners of some groups.
ForgetRuntime(gs) ==
    LET ls == {g[1] : g \in gs} IN
    /\ retired' = Without(retired, ls)
    /\ acceptors' = Without(acceptors, ls)
    /\ slots' = Without(slots, ls)
    /\ UNCHANGED <<revision, config>>

\* prune_draining_listener_groups looks at one group: a finished group is
\* removed, joined (a worker's error is only logged) and forgotten.  After
\* the last one the task waits for a signal, or goes back to the top of the
\* loop when this is the prune at the end of a reload.
PruneCheck(g) ==
    /\ pc \in {"prune", "reprune"} /\ g \in scan
    /\ scan' = scan \ {g}
    /\ pc' = IF scan' # {} THEN pc ELSE IF pc = "prune" THEN "wait" ELSE "loop"
    /\ \/ /\ Finished(g)
          /\ ForgetRuntime({g})
          /\ draining' = draining \ {g}
          /\ listener' = Without(listener, {g})
          /\ UNCHANGED <<active, stop>>
       \/ /\ ~Finished(g)
          /\ UNCHANGED <<shared, groups>>
    /\ UNCHANGED <<woken, plan, how, count, workers, conn, services, renewal>>

\* A signal reaches the process.  wait_for_signal creates its streams each
\* time it is called: a signal that comes while no wait is under way is lost,
\* and so are all but one of those that come during the same wait (select!
\* chooses one, the streams are dropped).  Losing a signal changes nothing.
TakeSignal(s) ==
    /\ pc = "wait"
    /\ pc' = CASE s = "reload" -> "reload"
               [] s = "restart" -> "restart"
               [] s = "shutdown" -> "stopping"
    /\ UNCHANGED <<woken, plan, scan, how, shared, count, groups, workers, conn,
                   services, renewal>>

DrainCompletion ==
    /\ pc = "wait" /\ draining # {} /\ woken
    /\ pc' = "loop"
    /\ UNCHANGED <<woken, plan, scan, how, shared, count, groups, workers, conn,
                   services, renewal>>

\* handle_restart_signal: the replacement process reports READY, and this one
\* shuts down, or it does not and this one carries on.
Restart ==
    /\ pc = "restart"
    /\ pc' \in {"stopping", "loop"}
    /\ UNCHANGED <<woken, plan, scan, how, shared, count, groups,
                   workers, conn, services, renewal>>

----------------------------------------------------------------------------
(***************************************************************************)
(* Reload.                                                                 *)
(***************************************************************************)
\* validate_config_transition: a listener kept keeps its address.
HotReloadable(cfg) ==
    \A l \in DOMAIN config \cap DOMAIN cfg : cfg[l].addr = config[l].addr

\* Mutant: draining groups are not looked at.
BindableActiveOnly(cfg) ==
    \A l \in DOMAIN cfg \ DOMAIN active :
        \A g \in ActiveGroups : listener[g].addr # cfg[l].addr

\* prepare_added_listener_bindings: a new listener is not one that is still
\* draining, and its address belongs to no live group.
Bindable(cfg) ==
    \A l \in DOMAIN cfg \ DOMAIN active :
        /\ \A g \in draining : g[1] # l
        /\ \A g \in LiveGroups : listener[g].addr # cfg[l].addr

\* prepare_reload, the bindings and prepare_replacement.  Loading, checking,
\* binding and building acceptors can each fail, which drops the sockets
\* bound so far and leaves everything else as it was.
PrepareReload(cfg) ==
    /\ pc = "reload"
    /\ \/ pc' = "loop" /\ UNCHANGED plan
       \/ /\ HotReloadable(cfg) /\ Bindable(cfg) /\ revision < MaxRevision
          /\ plan' = [cfg |-> cfg,
                      gone |-> DOMAIN config \ DOMAIN cfg,
                      built |-> BuildAcceptors(cfg, revision + 1),
                      merged |-> <<>>]
          /\ pc' = "retire"
    /\ UNCHANGED <<woken, scan, how, shared, count, groups, workers,
                   conn, services, renewal>>

\* Mutant: retiring is left to reconcile.
CommitRetireLater ==
    /\ pc = "retire" /\ pc' = "merge"
    /\ UNCHANGED <<woken, plan, scan, how, shared, count, groups, workers, conn, services, renewal>>

\* commit_prepared, first lock: retired_listeners.
CommitRetire ==
    /\ pc = "retire" /\ pc' = "merge"
    /\ retired' = Over([l \in plan.gone |-> config[l]], retired)
    /\ UNCHANGED <<woken, plan, scan, how, revision, config, acceptors,
                   slots, count, groups, workers, conn, services, renewal>>

\* Mutant: every reload starts new connection counters.
CommitMergeReset ==
    /\ pc = "merge" /\ pc' = "swap"
    /\ plan' = [plan EXCEPT !.merged =
                  Over([l \in plan.gone \cap DOMAIN acceptors |-> acceptors[l]],
                       plan.built)]
    /\ slots' = Over([l \in DOMAIN plan.cfg |-> <<l, revision + 1>>], slots)
    /\ UNCHANGED <<woken, scan, how, revision, config, retired,
                   acceptors, count, groups, workers, conn, services,
                   renewal>>

\* Mutant: the present acceptors win over the ones just built.
CommitMergeOld ==
    /\ pc = "merge" /\ pc' = "swap"
    /\ plan' = [plan EXCEPT !.merged =
                  Over(acceptors, plan.built)]
    /\ slots' = Over(slots, [l \in DOMAIN plan.cfg |-> <<l, revision + 1>>])
    /\ UNCHANGED <<woken, scan, how, revision, config, retired,
                   acceptors, count, groups, workers, conn, services,
                   renewal>>

\* commit_prepared: the acceptors to install are the ones built, and of the
\* present ones those of the listeners this reload retires; then
\* sync_listener_active_connections.
CommitMerge ==
    /\ pc = "merge" /\ pc' = "swap"
    /\ plan' = [plan EXCEPT !.merged =
                  Over([l \in plan.gone \cap DOMAIN acceptors |-> acceptors[l]],
                       plan.built)]
    /\ slots' = Over(slots, [l \in DOMAIN plan.cfg |-> <<l, revision + 1>>])
    /\ UNCHANGED <<woken, scan, how, revision, config, retired,
                   acceptors, count, groups, workers, conn, services,
                   renewal>>

\* commit_prepared, under the write lock of inner.
CommitSwap ==
    /\ pc = "swap" /\ pc' = "install"
    /\ revision' = revision + 1
    /\ config' = plan.cfg
    /\ UNCHANGED <<woken, plan, scan, how, retired, acceptors, slots,
                   count, groups, workers, conn, services, renewal>>

CommitInstall ==
    /\ pc = "install" /\ pc' = "reconcile"
    /\ acceptors' = plan.merged
    /\ UNCHANGED <<woken, plan, scan, how, revision, config, retired,
                   slots, count, groups, workers, conn, services, renewal>>

\* Mutant: groups that stay keep their old listener settings.
ReconcileKeepsListener ==
    LET removed == DOMAIN active \ DOMAIN plan.cfg
        leaving == {active[l] : l \in removed}
        added == DOMAIN plan.cfg \ DOMAIN active
        fresh == {<<l, revision>> : l \in added}
    IN
    /\ pc = "reconcile"
    /\ retired' = Over([l \in removed |-> listener[active[l]]], retired)
    /\ slots' = Over(slots, [l \in removed |-> <<l, revision>>])
    /\ stop' = stop \cup leaving
    /\ draining' = draining \cup leaving
    /\ scan' = draining \cup leaving
    /\ pc' = IF scan' = {} THEN "loop" ELSE "reprune"
    /\ active' = [l \in DOMAIN plan.cfg |->
                    IF l \in added THEN <<l, revision>> ELSE active[l]]
    /\ listener' = [g \in LiveGroups \cup fresh |->
                      IF g \in fresh THEN plan.cfg[g[1]] ELSE listener[g]]
    /\ at' = [t \in Tasks |-> IF t[1] \in fresh THEN "select" ELSE at[t]]
    /\ plan' = NoPlan
    /\ UNCHANGED <<woken, how, revision, config, acceptors, count, saw,
                   failed, conn, services, renewal>>

\* reconcile_listener_worker_groups: groups without a listener in the new
\* configuration are retired and told to stop, the others take over its
\* listener, the prepared groups start; prune follows.
Reconcile ==
    LET removed == DOMAIN active \ DOMAIN plan.cfg
        leaving == {active[l] : l \in removed}
        added == DOMAIN plan.cfg \ DOMAIN active
        fresh == {<<l, revision>> : l \in added}
    IN
    /\ pc = "reconcile"
    /\ retired' = Over([l \in removed |-> listener[active[l]]], retired)
    /\ slots' = Over(slots, [l \in removed |-> <<l, revision>>])
    /\ stop' = stop \cup leaving
    /\ draining' = draining \cup leaving
    /\ scan' = draining \cup leaving
    /\ pc' = IF scan' = {} THEN "loop" ELSE "reprune"
    /\ active' = [l \in DOMAIN plan.cfg |->
                    IF l \in added THEN <<l, revision>> ELSE active[l]]
    /\ listener' = [g \in LiveGroups \cup fresh |->
                      IF g \in fresh \/ g \in ActiveGroups \ leaving
                      THEN plan.cfg[g[1]] ELSE listener[g]]
    /\ at' = [t \in Tasks |-> IF t[1] \in fresh THEN "select" ELSE at[t]]
    /\ plan' = NoPlan
    /\ UNCHANGED <<woken, how, revision, config, acceptors, count, saw,
                   failed, conn, services, renewal>>

----------------------------------------------------------------------------
(***************************************************************************)
(* refresh_tls_acceptors_from_current_config, called by the ACME and OCSP  *)
(* tasks when they have written a new certificate or staple.               *)
(***************************************************************************)
CertTaskRuns == pc # "exited" /\ svc[Len(Services)] = "running"

RenewCertificate ==
    /\ refresh.at = "idle" /\ CertTaskRuns /\ renewals < MaxRenewals
    /\ renewals' = renewals + 1
    /\ refresh' = [refresh EXCEPT !.at = "renewed"]
    /\ UNCHANGED <<loop, shared, count, groups, workers, conn, services>>

RefreshBuild ==
    /\ refresh.at = "renewed" /\ CertTaskRuns
    /\ \/ refresh' = [at |-> "built", built |-> BuildAcceptors(config, revision)]
       \/ refresh' = [at |-> "idle", built |-> <<>>]
    /\ UNCHANGED <<renewals, loop, shared, count, groups, workers, conn,
                   services>>

RefreshWrite ==
    /\ refresh.at = "built" /\ CertTaskRuns
    /\ acceptors' = refresh.built
    /\ refresh' = [at |-> "idle", built |-> <<>>]
    /\ UNCHANGED <<renewals, loop, revision, config, retired, slots, count,
                   groups, workers, conn, services>>

----------------------------------------------------------------------------
(***************************************************************************)
(* Accept workers (rginx_http::serve).  Every loop ends up in a select     *)
(* over the shutdown channel and the socket; either ready branch may win.  *)
(***************************************************************************)
Running == pc # "exited"
ConnsOf(t) == {c \in Conns : conn[c] # Closed /\ conn[c].kind = "http" /\ conn[c].task = t}
FreeConn == CHOOSE c \in Conns : conn[c] = Closed
AbortConns(cs) == [c \in Conns |-> IF c \in cs THEN [conn[c] EXCEPT !.kind = "aborted"]
                                  ELSE conn[c]]

Accept(t) ==
    /\ Running /\ at[t] = "select"
    /\ at' = [at EXCEPT ![t] = "lookup"]
    /\ saw' = [saw EXCEPT ![t] = TlsAcceptor(t[1][1]) # NoTls]
    /\ UNCHANGED <<failed, loop, shared, count, groups, conn, services, renewal>>

\* current_listener: the active configuration first ...
LookupConfig(t) ==
    /\ Running /\ at[t] = "lookup"
    /\ at' = [at EXCEPT ![t] = IF t[1][1] \in DOMAIN config THEN "found" ELSE "retired"]
    /\ UNCHANGED <<saw, failed, loop, shared, count, groups, conn, services, renewal>>

\* ... then, under another lock, the retired listeners; the accept loop
\* panics when neither has it.
LookupRetired(t) ==
    /\ Running /\ at[t] = "retired"
    /\ at' = [at EXCEPT ![t] = IF t[1][1] \in DOMAIN retired THEN "found" ELSE "missing"]
    /\ UNCHANGED <<saw, failed, loop, shared, count, groups, conn, services, renewal>>

\* Mutant: the compare_exchange of the counter is lost.
AcquireUncounted(t) ==
    LET l == t[1][1] IN
    /\ Running /\ at[t] = "found" /\ \E c \in Conns : conn[c] = Closed
    /\ at' = [at EXCEPT ![t] = "select"]
    /\ saw' = [saw EXCEPT ![t] = FALSE]
    /\ \/ /\ l \in DOMAIN slots /\ count[slots[l]] < Limit
          /\ UNCHANGED count
          /\ conn' = [conn EXCEPT ![FreeConn] = [kind |-> "http", task |-> t, slot |-> slots[l]]]
       \/ /\ l \notin DOMAIN slots \/ count[slots[l]] >= Limit
          /\ UNCHANGED <<count, conn>>
    /\ UNCHANGED <<failed, loop, shared, groups, services, renewal>>

\* try_acquire_connection and the spawn of the connection, or its rejection.
Acquire(t) ==
    LET l == t[1][1] IN
    /\ Running /\ at[t] = "found" /\ \E c \in Conns : conn[c] = Closed
    /\ at' = [at EXCEPT ![t] = "select"]
    /\ saw' = [saw EXCEPT ![t] = FALSE]
    /\ \/ /\ l \in DOMAIN slots /\ count[slots[l]] < Limit
          /\ count' = [count EXCEPT ![slots[l]] = @ + 1]
          /\ conn' = [conn EXCEPT ![FreeConn] = [kind |-> "http", task |-> t, slot |-> slots[l]]]
       \/ /\ l \notin DOMAIN slots \/ count[slots[l]] >= Limit
          /\ UNCHANGED <<count, conn>>
    /\ UNCHANGED <<failed, loop, shared, groups, services, renewal>>

SeeShutdown(t) ==
    /\ Running /\ at[t] = "select" /\ t[1] \in stop
    /\ at' = [at EXCEPT ![t] = "stopped"]
    /\ UNCHANGED <<saw, failed, loop, shared, count, groups, conn, services, renewal>>

\* serve returns and, still inside the last poll of the task, the
\* WorkerDrainGuard is dropped: the last worker of the group wakes the main
\* task if that has armed its notification.
Return(t) ==
    /\ at' = [at EXCEPT ![t] = "returned"]
    /\ woken' = (woken \/ \A w \in Workers : at'[<<t[1], w>>] \in {"returned", "done"})
    /\ UNCHANGED <<pc, plan, scan, how, saw, shared, count, groups, services, renewal>>

\* The worker has stopped accepting and its connections have ended.
Drained(t) ==
    /\ Running /\ at[t] = "stopped" /\ ConnsOf(t) = {}
    /\ Return(t)
    /\ UNCHANGED <<failed, conn>>

\* accept() fails: serve returns the error, and its JoinSet aborts the
\* connections of this worker.
AcceptError(t) ==
    /\ Running /\ at[t] = "select" /\ Cardinality(failed) < MaxAcceptErrors
    /\ Return(t)
    /\ failed' = failed \cup {t}
    /\ conn' = AbortConns(ConnsOf(t))

\* Only then does JoinHandle::is_finished become true.
TaskDone(t) ==
    /\ Running /\ at[t] = "returned"
    /\ at' = [at EXCEPT ![t] = "done"]
    /\ UNCHANGED <<saw, failed, loop, shared, count, groups, conn, services, renewal>>

Worker(t) ==
    \/ Accept(t) \/ LookupConfig(t) \/ LookupRetired(t)
    \/ Acquire(t) \/ AcceptError(t) \/ SeeShutdown(t) \/ Drained(t) \/ TaskDone(t)

----------------------------------------------------------------------------
(***************************************************************************)
(* Connections.                                                            *)
(***************************************************************************)
\* An upgraded request keeps a slot of its own, beyond the limit, and moves
\* to a background task (retain_connection_slot, spawn_background_task).
Upgrade(c) ==
    /\ Running /\ conn[c] # Closed /\ conn[c].kind = "http"
    /\ \E d \in Conns : conn[d] = Closed
    /\ LET l == conn[c].task[1][1] IN
       /\ l \in DOMAIN slots
       /\ count' = [count EXCEPT ![slots[l]] = @ + 1]
       /\ conn' = [conn EXCEPT ![FreeConn] = [kind |-> "tunnel", task |-> conn[c].task, slot |-> slots[l]]]
    /\ UNCHANGED <<loop, shared, groups, workers, services, renewal>>

\* The task ends, or is cancelled: ActiveConnectionGuard::drop.
CloseConn(c) ==
    /\ Running /\ conn[c] # Closed
    /\ count' = [count EXCEPT ![conn[c].slot] = @ - 1]
    /\ conn' = [conn EXCEPT ![c] = Closed]
    /\ UNCHANGED <<loop, shared, groups, workers, services, renewal>>

----------------------------------------------------------------------------
(***************************************************************************)
(* graceful_shutdown.                                                      *)
(***************************************************************************)
Joining == pc \in {"joinActive", "joinDraining", "joinServices", "joinBackground"}

\* A service that fails earlier is noticed here all the same.
ServiceFails(i) ==
    /\ Joining /\ svc[i] = "running"
    /\ svc' = [svc EXCEPT ![i] = "failed"]
    /\ UNCHANGED <<taken, bgTaken, loop, shared, count, groups, workers, conn,
                   renewal>>

\* The shutdown channel, and then the channel of every group, says true.
InitiateShutdown ==
    /\ pc = "stopping" /\ pc' = "joinActive"
    /\ stop' = stop \cup LiveGroups
    /\ scan' = ActiveGroups
    /\ UNCHANGED <<woken, plan, how, active, draining, listener, shared,
                   count, workers, conn, services, renewal>>

ServiceStops(i) ==
    /\ Joining \/ pc \in {"abortWorkers", "abortServices"}
    /\ svc[i] = "running"
    /\ svc' = [svc EXCEPT ![i] = "stopped"]
    /\ UNCHANGED <<taken, bgTaken, loop, shared, count, groups, workers, conn,
                   renewal>>

JoinError(g) == \E w \in Workers : <<g, w>> \in failed

\* join_listener_worker_groups: the first group that reports an error ends
\* the shutdown with that error.
JoinActive(g) ==
    /\ pc = "joinActive" /\ g \in scan /\ Finished(g)
    /\ scan' = scan \ {g}
    /\ IF JoinError(g) THEN pc' = "exited" /\ how' = "error" ELSE UNCHANGED <<pc, how>>
    /\ UNCHANGED <<woken, plan, shared, count, groups, workers, conn,
                   services, renewal>>

\* Mutant: the draining groups are dropped without being joined.
ActiveJoinedOnly ==
    /\ pc = "joinActive" /\ scan = {}
    /\ pc' = "joinServices" /\ draining' = {} /\ UNCHANGED scan
    /\ active' = <<>>
    /\ listener' = <<>>
    /\ UNCHANGED <<woken, plan, how, stop, shared, count,
                   workers, conn, services, renewal>>

ActiveJoined ==
    /\ pc = "joinActive" /\ scan = {}
    /\ pc' = "joinDraining" /\ scan' = draining
    /\ active' = <<>>
    /\ listener' = Without(listener, ActiveGroups)
    /\ UNCHANGED <<woken, plan, how, draining, stop, shared, count,
                   workers, conn, services, renewal>>

JoinDraining(g) ==
    /\ pc = "joinDraining" /\ g \in scan /\ Finished(g)
    /\ scan' = scan \ {g}
    /\ \/ JoinError(g) /\ pc' = "exited" /\ how' = "error" /\ UNCHANGED shared
       \/ ~JoinError(g) /\ ForgetRuntime({g}) /\ UNCHANGED <<pc, how>>
    /\ UNCHANGED <<woken, plan, count, groups, workers, conn, services, renewal>>

DrainingJoined ==
    /\ pc = "joinDraining" /\ scan = {}
    /\ pc' = "joinServices"
    /\ draining' = {} /\ listener' = <<>>
    /\ UNCHANGED <<woken, plan, scan, how, active, stop, shared, count,
                   workers, conn, services, renewal>>

\* join_admin_task, join_unit_task: the handle is taken out of its Option
\* before it is awaited.
JoinService ==
    /\ pc = "joinServices"
    /\ \/ /\ taken > 0 => svc[taken] = "stopped"
          /\ IF taken < Len(Services)
             THEN taken' = taken + 1 /\ UNCHANGED <<pc, how, bgTaken>>
             ELSE pc' = "joinBackground" /\ bgTaken' = TRUE /\ UNCHANGED <<taken, how>>
       \/ /\ taken > 0 /\ svc[taken] = "failed"
          /\ pc' = "exited" /\ how' = "error" /\ UNCHANGED <<taken, bgTaken>>
    /\ UNCHANGED <<woken, plan, scan, svc, shared, count, groups,
                   workers, conn, renewal>>

Tunnels == {c \in Conns : conn[c] # Closed /\ conn[c].kind = "tunnel"}

\* drain_background_tasks took every handle; now all of them have ended.
BackgroundDrained ==
    /\ pc = "joinBackground" /\ Tunnels = {}
    /\ pc' = "exited" /\ how' = "clean"
    /\ UNCHANGED <<woken, plan, scan, shared, count, groups, workers,
                   conn, services, renewal>>

\* shutdown_timeout: whatever still has a handle is aborted.
Timeout ==
    /\ Joining
    /\ pc' = "abortWorkers"
    /\ UNCHANGED <<woken, plan, scan, how, shared, count, groups,
                   workers, conn, services, renewal>>

Aborting == pc \in {"abortWorkers", "abortServices", "abortBackground"}

\* Mutant: the timeout aborts the active groups only.
CancelActiveWorker(t) ==
    /\ Aborting /\ t[1] \in ActiveGroups /\ at[t] # "done"
    /\ at' = [at EXCEPT ![t] = "done"]
    /\ conn' = AbortConns(ConnsOf(t))
    /\ UNCHANGED <<saw, failed, loop, shared, count, groups, services, renewal>>

CancelWorker(t) ==
    /\ Aborting /\ t[1] \in LiveGroups /\ at[t] # "done"
    /\ at' = [at EXCEPT ![t] = "done"]
    /\ conn' = AbortConns(ConnsOf(t))
    /\ UNCHANGED <<saw, failed, loop, shared, count, groups, services, renewal>>

\* A handle already taken was dropped with the timed-out future: its task is
\* not aborted.
CancelService(i) ==
    /\ Aborting /\ i > taken /\ svc[i] = "running"
    /\ svc' = [svc EXCEPT ![i] = "stopped"]
    /\ UNCHANGED <<taken, bgTaken, loop, shared, count, groups, workers, conn,
                   renewal>>

\* join_aborted_listener_worker_groups
WorkersAborted ==
    /\ pc = "abortWorkers" /\ \A g \in LiveGroups : Finished(g)
    /\ pc' = "abortServices"
    /\ ForgetRuntime(draining)
    /\ active' = <<>> /\ draining' = {} /\ listener' = <<>>
    /\ UNCHANGED <<woken, plan, scan, how, stop, count, workers, conn,
                   services, renewal>>

\* The remaining services are joined and abort_background_tasks aborts the
\* tunnels whose handles are still registered.
ServicesAborted ==
    /\ pc = "abortServices" /\ \A i \in DOMAIN Services : i > taken => svc[i] # "running"
    /\ pc' = "abortBackground"
    /\ conn' = IF bgTaken THEN conn ELSE AbortConns(Tunnels)
    /\ bgTaken' = TRUE
    /\ UNCHANGED <<woken, plan, scan, how, svc, taken, shared, count,
                   groups, workers, renewal>>

BackgroundAborted ==
    /\ pc = "abortBackground" /\ \A c \in Conns : conn[c] # Closed => conn[c].kind # "aborted"
    /\ pc' = "exited" /\ how' = "timeout"
    /\ UNCHANGED <<woken, plan, scan, shared, count, groups, workers,
                   conn, services, renewal>>

Exited == pc = "exited" /\ UNCHANGED vars

----------------------------------------------------------------------------
Main ==
    \/ LoopTop \/ DrainCompletion \/ Restart
    \/ \E g \in Groups : PruneCheck(g) \/ JoinActive(g) \/ JoinDraining(g)
    \/ \E cfg \in Configs : PrepareReload(cfg)
    \/ CommitRetire \/ CommitMerge \/ CommitSwap \/ CommitInstall \/ Reconcile
    \/ InitiateShutdown \/ ActiveJoined \/ DrainingJoined \/ JoinService
    \/ BackgroundDrained \/ WorkersAborted \/ ServicesAborted \/ BackgroundAborted

Cancel ==
    \/ \E t \in Tasks : CancelWorker(t)
    \/ \E i \in DOMAIN Services : CancelService(i)
    \/ \E c \in Conns : conn[c] # Closed /\ conn[c].kind = "aborted" /\ CloseConn(c)

Renewal == RenewCertificate \/ RefreshBuild \/ RefreshWrite

Next ==
    \/ Main \/ Timeout
    \/ \E s \in Signals : TakeSignal(s)
    \/ \E t \in Tasks : Worker(t) \/ CancelWorker(t)
    \/ \E c \in Conns : CloseConn(c) \/ Upgrade(c)
    \/ \E i \in DOMAIN Services : ServiceFails(i) \/ ServiceStops(i) \/ CancelService(i)
    \/ Exited

Spec == Init /\ [][Next]_vars

\* The main task and aborted tasks are scheduled, and the shutdown timer
\* fires; nothing makes a client, a service or a signal move.
Fairness == WF_vars(Main) /\ WF_vars(Timeout) /\ WF_vars(Cancel)
FairSpec == Spec /\ Fairness

\* A process that also has managed certificates or dynamic OCSP staples.
RenewalSpec == Init /\ [][Next \/ Renewal]_vars

----------------------------------------------------------------------------
TypeOK ==
    /\ pc \in {"loop", "prune", "wait", "reload", "restart", "retire", "merge",
               "swap", "install", "reconcile", "reprune", "stopping",
               "joinActive", "joinDraining", "joinServices", "joinBackground",
               "abortWorkers", "abortServices", "abortBackground", "exited"}
    /\ woken \in BOOLEAN
    /\ plan.cfg \in ConfigType /\ plan.gone \subseteq Listeners
    /\ plan.built \in Acceptors /\ plan.merged \in Acceptors
    /\ scan \subseteq Groups
    /\ how \in {"running", "clean", "error", "timeout"}
    /\ revision \in Revisions
    /\ config \in Configs
    /\ retired \in ConfigType
    /\ acceptors \in Acceptors
    /\ DOMAIN slots \subseteq Listeners /\ \A l \in DOMAIN slots : slots[l] \in Slots
    /\ count \in [Slots -> Nat]
    /\ DOMAIN active \subseteq Listeners /\ ActiveGroups \subseteq Groups
    /\ draining \subseteq Groups /\ stop \subseteq Groups
    /\ DOMAIN listener = LiveGroups
    /\ \A g \in LiveGroups : listener[g] \in ListenerSpec
    /\ at \in [Tasks -> {"none", "select", "lookup", "retired", "found", "missing",
                         "stopped", "returned", "done"}]
    /\ saw \in [Tasks -> BOOLEAN]
    /\ failed \subseteq Tasks
    /\ conn \in [Conns -> {Closed} \cup ConnType]
    /\ svc \in [DOMAIN Services -> {"running", "stopped", "failed"}]
    /\ taken \in 0 .. Len(Services) /\ bgTaken \in BOOLEAN
    /\ refresh.at \in {"idle", "renewed", "built"} /\ refresh.built \in Acceptors
    /\ renewals \in 0 .. MaxRenewals

\* What the code's expects take for granted: as long as a worker of a group
\* accepts, or one of its connections is open, the listener is found by
\* current_listener and has a connection counter, whatever reload did in
\* between (accept.rs:51, connection.rs:36, acquire.rs:53).
ListenerAvailable ==
    /\ \A t \in Tasks : at[t] # "missing"
    /\ Running => \A t \in Tasks :
         at[t] \in {"select", "lookup", "retired", "found"} \/ ConnsOf(t) # {} =>
            /\ t[1][1] \in DOMAIN config \cup DOMAIN retired
            /\ t[1][1] \in DOMAIN slots

\* Two generations of worker groups alive at the same time, serving or
\* draining, never share a listener identity or an address: the second bind
\* would fail, and the retired state of the first would be overwritten.
NoSharedIdentity ==
    \A g, h \in LiveGroups : g # h => g[1] # h[1] /\ listener[g].addr # listener[h].addr

\* max_connections holds for a listener across reloads that keep it and
\* while it drains: its workers together never serve more connections than
\* the limit (an upgraded tunnel has a slot of its own and is not counted).
LimitHeld ==
    \A g \in Groups :
        Cardinality({c \in Conns : conn[c] # Closed /\ conn[c].kind = "http"
                                    /\ conn[c].task[1] = g}) <= Limit

\* Between signals, the groups that serve are those of the active
\* configuration, with its listener settings, and the retired listeners are
\* those of the draining groups, no more and no fewer.
GroupsMatchConfig ==
    pc = "wait" =>
        /\ DOMAIN active = DOMAIN config
        /\ \A l \in DOMAIN config : listener[active[l]] = config[l] /\ active[l] \notin stop
        /\ DOMAIN retired = {g[1] : g \in draining}
        /\ draining \subseteq stop

\* Between signals, every TLS listener of the active configuration has an
\* acceptor built from that configuration (in a process without managed
\* certificates and OCSP: see NoPlaintextOnTls).
AcceptorsCurrent ==
    pc = "wait" =>
        \A l \in DOMAIN config :
            config[l].tls => TlsAcceptor(l) = revision

\* A shutdown that reports success within its timeout has seen every worker,
\* connection and tunnel end; one that ran into the timeout leaves no worker
\* and no connection behind (graceful_shutdown).
NothingLeftBehind ==
    /\ how \in {"clean", "timeout"} =>
         /\ \A t \in Tasks : at[t] \in {"none", "done"}
         /\ \A t \in Tasks : ConnsOf(t) = {}
    /\ how = "clean" => /\ Tunnels = {}
                        /\ \A i \in DOMAIN Services : svc[i] = "stopped"

\* The signal loop always comes back: a reload or a restart ends in the next
\* wait, and a shutdown in the exit of the process, whatever connections,
\* tunnels and services do.
MainReturns == pc \notin {"wait", "exited"} ~> pc \in {"wait", "exited"}

\* A connection accepted on a listener with TLS is served with an acceptor:
\* none stands for plain HTTP (tls/tests/acceptor.rs:4).
NoPlaintextOnTls ==
    \A t \in Tasks : at[t] = "found" /\ t[1] \in LiveGroups =>
        (listener[t[1]].tls => saw[t])

\* Across reloads and while generations drain, listeners keep their
\* identities and counters apart from one another, and their limits.
IdentitiesKept == TypeOK /\ NoSharedIdentity /\ LimitHeld

\* Between signals the workers, the retired state and the acceptors are those
\* of the active configuration, however many reloads overlapped with drains.
WorkersMatchConfig == GroupsMatchConfig /\ AcceptorsCurrent
=============================================================================
