-------------------------- MODULE LifecycleProofs --------------------------
(***************************************************************************)
(* What Lifecycle promises for every configuration, number of workers and  *)
(* connections, and every order of reloads, drains, renewals and shutdown. *)
(***************************************************************************)
EXTENDS Lifecycle, FiniteSetTheorems, TLAPS

\* A worker that has not returned.
Up == {"select", "lookup", "retired", "found", "stopped"}

LoopPcs == {"loop", "prune", "wait", "reload", "restart", "reprune", "stopping"}
PlanPcs == {"retire", "merge", "swap"}
CommitPcs == PlanPcs \cup {"install", "reconcile"}

Http(c) == conn[c] # Closed /\ conn[c].kind = "http"
Drains == {g[1] : g \in draining}
Has(s) == {c \in Conns : conn[c] # Closed /\ conn[c].slot = s}

PlanType == [cfg : ConfigType, gone : SUBSET Listeners, built : Acceptors, merged : Acceptors]
RefreshType == [at : {"idle", "renewed", "built"}, built : Acceptors]

Typed == TypeOK /\ plan \in PlanType /\ refresh \in RefreshType

\* Only groups that are alive have workers, and only workers that have not
\* returned have connections.
WorkersInv ==
    /\ \A t \in Tasks : t[1] \notin LiveGroups => at[t] \in {"none", "done"}
    /\ \A c \in Conns : Http(c) => at[conn[c].task] \in Up
    /\ \A t \in Tasks : at[t] # "missing"

\* A worker's listener is found, and one that was not in the configuration is
\* among the retired.
FoundInv ==
    \A t \in Tasks :
        /\ at[t] \in Up => t[1][1] \in DOMAIN slots /\ t[1][1] \in DOMAIN config \cup DOMAIN retired
        /\ at[t] = "retired" => t[1][1] \in DOMAIN retired

\* A counter counts the connections that hold it, and those of one listener
\* hold the same.
CountInv ==
    /\ \A s \in Slots : count[s] = Cardinality(Has(s))
    /\ \A c \in Conns : Http(c) => conn[c].slot = slots[conn[c].task[1][1]]
    /\ LimitHeld

\* Groups have identities, addresses and revisions of their own.
GroupsInv ==
    /\ \A l \in DOMAIN active : active[l][1] = l
    /\ ActiveGroups \cap draining = {}
    /\ NoSharedIdentity
    /\ \A g \in LiveGroups \cup stop : g[2] <= revision
    /\ pc \in {"install", "reconcile"} => \A g \in LiveGroups \cup stop : g[2] < revision

\* How far the main task has looked at the groups.
ScanInv ==
    /\ pc \in {"prune", "reprune", "joinDraining"} => scan \subseteq draining
    /\ pc = "joinActive" => scan \subseteq ActiveGroups /\ \A g \in ActiveGroups \ scan : Finished(g)
    /\ pc = "joinDraining" => DOMAIN active = {} /\ \A g \in draining \ scan : Finished(g)
    /\ pc \in {"joinServices", "joinBackground", "abortServices", "abortBackground"} => LiveGroups = {}
    /\ how \in {"clean", "timeout"} => LiveGroups = {}
    /\ pc # "exited" => how = "running"

\* The groups, the retired listeners and the configuration agree, up to what
\* the reload under way has yet to do.
AgreeInv ==
    /\ pc \in LoopPcs \cup PlanPcs => DOMAIN active = DOMAIN config
    /\ pc \in LoopPcs \cup PlanPcs => \A l \in DOMAIN active : listener[active[l]] = config[l]
    /\ pc \in LoopPcs \cup CommitPcs => ActiveGroups \cap stop = {} /\ draining \subseteq stop
    /\ pc \in LoopPcs \cup {"retire"} => DOMAIN retired = Drains
    /\ pc \in CommitPcs \ {"retire"} => DOMAIN retired = Drains \cup plan.gone

\* The reload under way can still be carried out.
PlanInv ==
    /\ pc \in CommitPcs =>
         /\ plan.cfg \in Configs /\ plan.gone = DOMAIN active \ DOMAIN plan.cfg /\ Bindable(plan.cfg)
         /\ \A l \in DOMAIN active \cap DOMAIN plan.cfg : listener[active[l]].addr = plan.cfg[l].addr
    /\ pc \in PlanPcs => revision < MaxRevision
    /\ pc \in {"swap", "install", "reconcile"} => DOMAIN plan.cfg \subseteq DOMAIN slots
    /\ pc \in {"install", "reconcile"} => config = plan.cfg

ServicesInv ==
    /\ \A i \in DOMAIN Services : i < taken => svc[i] = "stopped"
    /\ pc = "joinBackground" \/ how = "clean" => \A i \in DOMAIN Services : svc[i] = "stopped"
    /\ how = "clean" => Tunnels = {}

LInv ==
    /\ Typed /\ WorkersInv /\ FoundInv /\ CountInv /\ GroupsInv
    /\ ScanInv /\ AgreeInv /\ PlanInv /\ ServicesInv

-----------------------------------------------------------------------------
(* Partial functions.                                                      *)

LEMMA ConfigTypeIs ==
    \A f : f \in ConfigType <=> DOMAIN f \subseteq Listeners /\ f \in [DOMAIN f -> ListenerSpec]
  BY DEF ConfigType

LEMMA AcceptorsIs ==
    \A f : f \in Acceptors <=> DOMAIN f \subseteq Listeners /\ f \in [DOMAIN f -> Revisions \cup {NoTls}]
  BY DEF Acceptors

\* What the operations on maps leave of the domain, of the values and of
\* their type.
LEMMA WithoutIs ==
    ASSUME NEW f, NEW D
    PROVE  /\ DOMAIN Without(f, D) = DOMAIN f \ D
           /\ \A x \in DOMAIN f \ D : Without(f, D)[x] = f[x]
           /\ f \in ConfigType => Without(f, D) \in ConfigType
           /\ f \in Acceptors => Without(f, D) \in Acceptors
<1>1. DOMAIN Without(f, D) = DOMAIN f \ D /\ \A x \in DOMAIN f \ D : Without(f, D)[x] = f[x]
  BY DEF Without
<1>2. \A S : f \in [DOMAIN f -> S] => Without(f, D) \in [DOMAIN f \ D -> S]
  BY DEF Without
<1> QED
  BY <1>1, <1>2, ConfigTypeIs, AcceptorsIs

LEMMA OverIs ==
    ASSUME NEW f, NEW h
    PROVE  /\ DOMAIN Over(f, h) = DOMAIN f \cup DOMAIN h
           /\ \A x \in DOMAIN f : Over(f, h)[x] = f[x]
           /\ \A x \in DOMAIN h \ DOMAIN f : Over(f, h)[x] = h[x]
           /\ f \in ConfigType /\ h \in ConfigType => Over(f, h) \in ConfigType
           /\ f \in Acceptors /\ h \in Acceptors => Over(f, h) \in Acceptors
<1>1. /\ DOMAIN Over(f, h) = DOMAIN f \cup DOMAIN h
      /\ \A x \in DOMAIN f : Over(f, h)[x] = f[x]
      /\ \A x \in DOMAIN h \ DOMAIN f : Over(f, h)[x] = h[x]
  BY DEF Over
<1>2. \A S : f \in [DOMAIN f -> S] /\ h \in [DOMAIN h -> S] => Over(f, h) \in [DOMAIN f \cup DOMAIN h -> S]
  BY DEF Over
<1> QED
  BY <1>1, <1>2, ConfigTypeIs, AcceptorsIs

LEMMA EmptyMaps == <<>> \in ConfigType /\ <<>> \in Acceptors /\ DOMAIN <<>> = {}
<1>1. DOMAIN <<>> = {} /\ \A S : <<>> \in [{} -> S]
  OBVIOUS
<1> QED
  BY <1>1, ConfigTypeIs, AcceptorsIs

LEMMA BuildAcceptorsType ==
    ASSUME NEW cfg \in ConfigType, NEW r \in Revisions
    PROVE  BuildAcceptors(cfg, r) \in Acceptors /\ DOMAIN BuildAcceptors(cfg, r) = DOMAIN cfg
<1>1. DOMAIN cfg \subseteq Listeners
  BY ConfigTypeIs
<1>2. BuildAcceptors(cfg, r) \in [DOMAIN cfg -> Revisions \cup {NoTls}]
  BY DEF BuildAcceptors
<1> QED
  BY <1>1, <1>2, AcceptorsIs

-----------------------------------------------------------------------------
(* The main task between two locks: only its own variables move.           *)

MainOnly == UNCHANGED <<shared, count, groups, workers, conn, services, renewal>>

\* What such a step has to show.
LEMMA MainOnlyStep ==
    ASSUME LInv, MainOnly,
           TypeOK', plan' \in PlanType, ScanInv', PlanInv',
           pc' \in {"install", "reconcile"} => pc = pc',
           AgreeInv', ServicesInv'
    PROVE  LInv'
<1> USE DEF MainOnly, shared, groups, workers, services, renewal
<1>1. WorkersInv'
  BY DEF LInv, WorkersInv, LiveGroups, ActiveGroups, Http
<1>2. FoundInv'
  BY DEF LInv, FoundInv
<1>3. CountInv'
  BY DEF LInv, CountInv, Has, Http, LimitHeld
<1>4. GroupsInv'
  BY DEF LInv, GroupsInv, NoSharedIdentity, LiveGroups, ActiveGroups
<1>5. Typed'
  BY DEF LInv, Typed
<1> QED
  BY <1>1, <1>2, <1>3, <1>4, <1>5 DEF LInv

\* The parts of the invariant that a move between two places of the signal
\* loop cannot disturb.
LEMMA LoopMove ==
    ASSUME LInv, MainOnly, UNCHANGED <<plan, how>>, pc \in LoopPcs, pc' \in LoopPcs, woken' \in BOOLEAN,
           scan' \subseteq Groups, pc' \in {"prune", "reprune"} => scan' \subseteq draining
    PROVE  LInv'
<1> USE DEF MainOnly, shared, groups, workers, services, renewal
<1>1. TypeOK' /\ plan' \in PlanType
  BY DEF LInv, Typed, TypeOK, LoopPcs, LiveGroups, ActiveGroups
<1>2. ScanInv'
  BY DEF LInv, ScanInv, LoopPcs, LiveGroups, ActiveGroups, Finished
<1>3. PlanInv'
  BY DEF LInv, PlanInv, LoopPcs, CommitPcs, PlanPcs
<1>4. AgreeInv'
  BY DEF LInv, AgreeInv, LoopPcs, CommitPcs, PlanPcs, ActiveGroups, Drains
<1>5. ServicesInv'
  BY DEF LInv, ServicesInv, LoopPcs, Tunnels
<1> QED
  BY <1>1, <1>2, <1>3, <1>4, <1>5, MainOnlyStep DEF LoopPcs

LEMMA InvLoopTop == LInv /\ LoopTop => LInv'
<1> SUFFICES ASSUME LInv, LoopTop PROVE LInv'
  OBVIOUS
<1>1. draining \subseteq Groups
  BY DEF LInv, Typed, TypeOK
<1> QED
  BY <1>1, LoopMove DEF LoopTop, MainOnly, LoopPcs

LEMMA InvTakeSignal == LInv /\ (\E s \in Signals : TakeSignal(s)) => LInv'
<1> SUFFICES ASSUME LInv, NEW s \in Signals, TakeSignal(s) PROVE LInv'
  OBVIOUS
<1>1. pc = "wait" /\ pc' \in {"reload", "restart", "stopping"} /\ UNCHANGED <<plan, how, scan, woken>> /\ MainOnly
  BY DEF TakeSignal, Signals, MainOnly
<1>2. scan \subseteq Groups /\ woken \in BOOLEAN
  BY DEF LInv, Typed, TypeOK
<1> QED
  BY <1>1, <1>2, LoopMove DEF LoopPcs

LEMMA InvDrainCompletion == LInv /\ (DrainCompletion \/ Restart) => LInv'
<1> SUFFICES ASSUME LInv, DrainCompletion \/ Restart PROVE LInv'
  OBVIOUS
<1>1. pc \in LoopPcs /\ pc' \in {"loop", "stopping"} /\ UNCHANGED <<plan, how, scan, woken>> /\ MainOnly
  BY DEF DrainCompletion, Restart, MainOnly, LoopPcs
<1>2. scan \subseteq Groups /\ woken \in BOOLEAN
  BY DEF LInv, Typed, TypeOK
<1> QED
  BY <1>1, <1>2, LoopMove DEF LoopPcs

\* A reload that is prepared: validation has compared it with the active
\* configuration, which is what the active groups serve.
LEMMA InvPrepareReload == LInv /\ (\E cfg \in Configs : PrepareReload(cfg)) => LInv'
<1> SUFFICES ASSUME LInv, NEW cfg \in Configs, PrepareReload(cfg) PROVE LInv'
  OBVIOUS
<1>1. MainOnly /\ pc = "reload" /\ UNCHANGED <<woken, scan, how>>
  BY DEF PrepareReload, MainOnly
<1>2. scan \subseteq Groups /\ woken \in BOOLEAN
  BY DEF LInv, Typed, TypeOK
<1>3. CASE pc' = "loop" /\ UNCHANGED plan
  BY <1>1, <1>2, <1>3, LoopMove DEF LoopPcs
<1>4. CASE pc' # "loop"
  <2>1. /\ HotReloadable(cfg) /\ Bindable(cfg) /\ revision < MaxRevision /\ pc' = "retire"
        /\ plan' = [cfg |-> cfg, gone |-> DOMAIN config \ DOMAIN cfg,
                    built |-> BuildAcceptors(cfg, revision + 1), merged |-> <<>>]
    BY <1>4 DEF PrepareReload
  <2>2. cfg \in ConfigType /\ config \in ConfigType /\ revision + 1 \in Revisions
    BY <2>1, ConfigAssumption, BoundAssumption DEF LInv, Typed, TypeOK, Revisions
  <2>3. plan' \in PlanType
    BY <2>1, <2>2, EmptyMaps, BuildAcceptorsType, ConfigTypeIs DEF PlanType
  <2> USE DEF MainOnly, shared, groups, workers, services, renewal
  <2>4. TypeOK'
    <3>1. plan'.cfg \in ConfigType /\ plan'.gone \subseteq Listeners /\ plan'.built \in Acceptors /\ plan'.merged \in Acceptors
      BY <2>3 DEF PlanType
    <3> QED
      BY <1>1, <2>1, <3>1 DEF LInv, Typed, TypeOK, LiveGroups, ActiveGroups
  <2>5. ScanInv'
    BY <1>1, <2>1 DEF LInv, ScanInv, LiveGroups, ActiveGroups
  <2>6. DOMAIN active = DOMAIN config /\ \A l \in DOMAIN active : listener[active[l]] = config[l]
    BY <1>1 DEF LInv, AgreeInv, LoopPcs
  <2>7. Bindable(cfg)'
    BY <1>1, <2>1 DEF Bindable, LiveGroups, ActiveGroups
  <2>8. PlanInv'
    BY <1>1, <2>1, <2>6, <2>7 DEF PlanInv, CommitPcs, PlanPcs, HotReloadable, Bindable
  <2>9. AgreeInv'
    BY <1>1, <2>1 DEF LInv, AgreeInv, LoopPcs, CommitPcs, PlanPcs, ActiveGroups, Drains
  <2>10. ServicesInv'
    BY <1>1, <2>1 DEF LInv, ServicesInv, Tunnels
  <2> QED
    BY <1>1, <2>1, <2>3, <2>4, <2>5, <2>8, <2>9, <2>10, MainOnlyStep
<1> QED
  BY <1>3, <1>4 DEF PrepareReload

\* The parts of the invariant that speak of the loop and of reloads do not
\* bind a process that is shutting down.
EndPcs == {"joinActive", "joinDraining", "joinServices", "joinBackground",
           "abortWorkers", "abortServices", "abortBackground", "exited"}

LEMMA EndMove ==
    ASSUME LInv, MainOnly, UNCHANGED <<plan, woken>>, pc' \in EndPcs,
           scan' \subseteq Groups, how' \in {"running", "clean", "error", "timeout"}, ScanInv', ServicesInv'
    PROVE  LInv'
<1> USE DEF MainOnly, shared, groups, workers, services, renewal
<1>1. TypeOK' /\ plan' \in PlanType
  BY DEF LInv, Typed, TypeOK, EndPcs, LiveGroups, ActiveGroups
<1>2. PlanInv' /\ AgreeInv'
  BY DEF LInv, PlanInv, AgreeInv, EndPcs, LoopPcs, CommitPcs, PlanPcs
<1> QED
  BY <1>1, <1>2, MainOnlyStep DEF EndPcs

LEMMA InvTimeout == LInv /\ Timeout => LInv'
<1> SUFFICES ASSUME LInv, Timeout PROVE LInv'
  OBVIOUS
<1>1. MainOnly /\ Joining /\ pc' = "abortWorkers" /\ UNCHANGED <<woken, plan, scan, how>>
  BY DEF Timeout, MainOnly
<1>2. scan \subseteq Groups /\ how \in {"running", "clean", "error", "timeout"}
  BY DEF LInv, Typed, TypeOK
<1>3. ScanInv'
  BY <1>1 DEF LInv, ScanInv, Joining
<1>4. ServicesInv'
  BY <1>1 DEF LInv, ServicesInv, ScanInv, Joining, MainOnly, services
<1> QED
  BY <1>1, <1>2, <1>3, <1>4, EndMove DEF EndPcs

LEMMA InvJoinActive == LInv /\ (\E g \in Groups : JoinActive(g)) => LInv'
<1> SUFFICES ASSUME LInv, NEW g \in Groups, JoinActive(g) PROVE LInv'
  OBVIOUS
<1>1. /\ MainOnly /\ pc = "joinActive" /\ g \in scan /\ Finished(g) /\ scan' = scan \ {g} /\ UNCHANGED <<woken, plan>>
      /\ (pc' = "exited" /\ how' = "error") \/ UNCHANGED <<pc, how>>
  BY DEF JoinActive, MainOnly
<1>2. scan \subseteq Groups /\ how = "running"
  BY <1>1 DEF LInv, Typed, TypeOK, ScanInv
<1> USE DEF MainOnly, shared, groups, workers, services, renewal
<1>3. ScanInv'
  BY <1>1, <1>2 DEF LInv, ScanInv, Finished, ActiveGroups, LiveGroups
<1>4. ServicesInv'
  BY <1>1, <1>2 DEF LInv, ServicesInv
<1> QED
  BY <1>1, <1>2, <1>3, <1>4, EndMove DEF EndPcs

LEMMA InvBackgroundEnds == LInv /\ (BackgroundDrained \/ BackgroundAborted) => LInv'
<1> SUFFICES ASSUME LInv, BackgroundDrained \/ BackgroundAborted PROVE LInv'
  OBVIOUS
<1>1. MainOnly /\ pc' = "exited" /\ UNCHANGED <<woken, plan, scan>>
  BY DEF BackgroundDrained, BackgroundAborted, MainOnly
<1>2. scan \subseteq Groups
  BY DEF LInv, Typed, TypeOK
<1> USE DEF MainOnly, shared, groups, workers, services, renewal
<1>3. ScanInv'
  BY <1>1 DEF LInv, ScanInv, ActiveGroups, LiveGroups, BackgroundDrained, BackgroundAborted
<1>4. ServicesInv'
  BY <1>1 DEF LInv, ServicesInv, BackgroundDrained, BackgroundAborted, Tunnels
<1> QED
  BY <1>1, <1>2, <1>3, <1>4, EndMove DEF EndPcs, BackgroundDrained, BackgroundAborted

-----------------------------------------------------------------------------
(* commit_prepared.                                                        *)

\* Nothing but the loop's variables and the shared state moves.
SharedOnly == UNCHANGED <<count, groups, workers, conn, services, renewal, woken, scan, how>>

LEMMA SharedOnlyStep ==
    ASSUME LInv, SharedOnly, TypeOK', plan' \in PlanType, FoundInv', AgreeInv', PlanInv',
           pc \in CommitPcs, pc' \in CommitPcs,
           \A l \in DOMAIN slots : l \in DOMAIN slots' /\ slots'[l] = slots[l],
           revision <= revision', pc' \in {"install", "reconcile"} => pc \in {"install", "reconcile"} \/ revision < revision'
    PROVE  LInv'
<1> USE DEF SharedOnly, groups, workers, services, renewal
<1>1. WorkersInv'
  BY DEF LInv, WorkersInv, LiveGroups, ActiveGroups, Http
<1>2. CountInv'
  <2>1. (\A s \in Slots : count[s] = Cardinality(Has(s)))' /\ LimitHeld'
    BY DEF LInv, CountInv, Has, LimitHeld
  <2>2. ASSUME NEW c \in Conns, Http(c)' PROVE conn'[c].slot = slots'[conn'[c].task[1][1]]
    <3>1. Http(c) /\ conn' = conn
      BY <2>2 DEF Http
    <3>2. conn[c].slot = slots[conn[c].task[1][1]] /\ at[conn[c].task] \in Up
      BY <3>1 DEF LInv, CountInv, WorkersInv
    <3>3. conn[c].task \in Tasks
      BY <3>1 DEF LInv, Typed, TypeOK, ConnType, Http
    <3>4. conn[c].task[1][1] \in DOMAIN slots
      BY <3>2, <3>3 DEF LInv, FoundInv
    <3> QED
      BY <3>1, <3>2, <3>4
  <2> QED
    BY <2>1, <2>2 DEF CountInv
<1>3. GroupsInv'
  <2>1. revision \in Nat /\ revision' \in Nat /\ \A g \in LiveGroups \cup stop : g[2] \in Nat
    BY BoundAssumption DEF LInv, Typed, TypeOK, Revisions, Groups, LiveGroups
  <2>2. NoSharedIdentity' /\ LiveGroups' = LiveGroups /\ ActiveGroups' = ActiveGroups
    BY DEF LInv, GroupsInv, NoSharedIdentity, LiveGroups, ActiveGroups
  <2>3. \A g \in LiveGroups \cup stop : g[2] <= revision'
    BY <2>1 DEF LInv, GroupsInv
  <2>4. pc' \in {"install", "reconcile"} => \A g \in LiveGroups \cup stop : g[2] < revision'
    BY <2>1 DEF LInv, GroupsInv
  <2> QED
    BY <2>2, <2>3, <2>4 DEF LInv, GroupsInv
<1>4. ScanInv' /\ ServicesInv'
  BY DEF LInv, ScanInv, ServicesInv, LiveGroups, ActiveGroups, CommitPcs, PlanPcs, Tunnels
<1>5. Typed'
  BY DEF LInv, Typed
<1> QED
  BY <1>1, <1>2, <1>3, <1>4, <1>5 DEF LInv

\* A reload never leaves a listener that is served without its retired entry.
LEMMA InvCommitRetire == LInv /\ CommitRetire => LInv'
<1> SUFFICES ASSUME LInv, CommitRetire PROVE LInv'
  OBVIOUS
<1> DEFINE f == [l \in plan.gone |-> config[l]]
<1>1. /\ SharedOnly /\ pc = "retire" /\ pc' = "merge" /\ retired' = Over(f, retired)
      /\ UNCHANGED <<plan, revision, config, acceptors, slots>>
  BY DEF CommitRetire, SharedOnly
<1> USE DEF SharedOnly, groups, workers, services, renewal
<1>2. f \in ConfigType /\ DOMAIN f = plan.gone
  <2>1. plan.gone \subseteq DOMAIN config
    BY <1>1 DEF LInv, PlanInv, AgreeInv, CommitPcs, PlanPcs
  <2>2. DOMAIN config \subseteq Listeners /\ config \in [DOMAIN config -> ListenerSpec]
    BY ConfigTypeIs, ConfigAssumption DEF LInv, Typed, TypeOK
  <2>3. f \in [plan.gone -> ListenerSpec]
    BY <2>1, <2>2
  <2> QED
    BY <2>1, <2>2, <2>3, ConfigTypeIs
<1> HIDE DEF f
<1>3. retired' \in ConfigType /\ DOMAIN retired' = plan.gone \cup DOMAIN retired
  <2>1. retired \in ConfigType
    BY DEF LInv, Typed, TypeOK
  <2>2. /\ DOMAIN Over(f, retired) = DOMAIN f \cup DOMAIN retired
        /\ f \in ConfigType /\ retired \in ConfigType => Over(f, retired) \in ConfigType
    BY OverIs, Zenon
  <2> QED
    BY <1>1, <1>2, <2>1, <2>2
<1>4. TypeOK' /\ plan' \in PlanType
  BY <1>1, <1>3 DEF LInv, Typed, TypeOK, LiveGroups, ActiveGroups
<1>5. FoundInv'
  BY <1>1, <1>3 DEF LInv, FoundInv
<1>6. AgreeInv'
  BY <1>1, <1>3 DEF LInv, AgreeInv, LoopPcs, CommitPcs, PlanPcs, ActiveGroups, Drains
<1>7. PlanInv'
  BY <1>1 DEF LInv, PlanInv, CommitPcs, PlanPcs, Bindable, LiveGroups, ActiveGroups
<1>8. revision <= revision
  BY BoundAssumption DEF LInv, Typed, TypeOK, Revisions
<1> QED
  BY <1>1, <1>4, <1>5, <1>6, <1>7, <1>8, SharedOnlyStep DEF CommitPcs, PlanPcs

LEMMA InvCommitMerge == LInv /\ CommitMerge => LInv'
<1> SUFFICES ASSUME LInv, CommitMerge PROVE LInv'
  OBVIOUS
<1> DEFINE kept == [l \in plan.gone \cap DOMAIN acceptors |-> acceptors[l]]
           more == [l \in DOMAIN plan.cfg |-> <<l, revision + 1>>]
           merged == Over(kept, plan.built)
<1>1. /\ SharedOnly /\ pc = "merge" /\ pc' = "swap" /\ slots' = Over(slots, more)
      /\ plan' = [plan EXCEPT !.merged = merged] /\ UNCHANGED <<revision, config, retired, acceptors>>
  BY DEF CommitMerge, SharedOnly
<1> USE DEF SharedOnly, groups, workers, services, renewal
<1>2. kept \in Acceptors
  <2>1. DOMAIN acceptors \subseteq Listeners /\ acceptors \in [DOMAIN acceptors -> Revisions \cup {NoTls}]
    BY AcceptorsIs DEF LInv, Typed, TypeOK
  <2> QED
    BY <2>1, AcceptorsIs
<1>3. revision + 1 \in Revisions /\ revision < MaxRevision /\ revision \in Nat
  BY <1>1, BoundAssumption DEF LInv, PlanInv, PlanPcs, Typed, TypeOK, Revisions
<1>4. /\ DOMAIN more = DOMAIN plan.cfg /\ DOMAIN plan.cfg \subseteq Listeners
      /\ \A l \in DOMAIN plan.cfg : more[l] \in Slots
  BY <1>3, ConfigTypeIs DEF LInv, Typed, TypeOK, Slots, Groups
<1> HIDE DEF kept, more
<1>5. merged \in Acceptors
  BY <1>2, OverIs DEF LInv, Typed, TypeOK
<1> HIDE DEF merged
<1>6. /\ plan' \in PlanType /\ plan'.cfg = plan.cfg /\ plan'.gone = plan.gone /\ plan'.built = plan.built /\ plan'.merged = merged
  BY <1>1, <1>5 DEF LInv, Typed, PlanType
<1>7. /\ DOMAIN slots' = DOMAIN slots \cup DOMAIN plan.cfg
      /\ \A l \in DOMAIN slots : slots'[l] = slots[l]
      /\ \A l \in DOMAIN plan.cfg \ DOMAIN slots : slots'[l] = more[l]
  <2>1. /\ DOMAIN Over(slots, more) = DOMAIN slots \cup DOMAIN more
        /\ \A x \in DOMAIN slots : Over(slots, more)[x] = slots[x]
        /\ \A x \in DOMAIN more \ DOMAIN slots : Over(slots, more)[x] = more[x]
    BY OverIs, Zenon
  <2> QED
    BY <1>1, <1>4, <2>1
<1>8. DOMAIN slots' \subseteq Listeners /\ \A l \in DOMAIN slots' : slots'[l] \in Slots
  BY <1>4, <1>7 DEF LInv, Typed, TypeOK
<1>9. TypeOK'
  BY <1>1, <1>5, <1>6, <1>8 DEF LInv, Typed, TypeOK, LiveGroups, ActiveGroups
<1>10. FoundInv'
  BY <1>1, <1>7 DEF LInv, FoundInv
<1>11. AgreeInv'
  BY <1>1, <1>6 DEF LInv, AgreeInv, LoopPcs, CommitPcs, PlanPcs, ActiveGroups, Drains
<1>12. PlanInv'
  BY <1>1, <1>6, <1>7 DEF LInv, PlanInv, CommitPcs, PlanPcs, Bindable, LiveGroups, ActiveGroups
<1> QED
  BY <1>1, <1>3, <1>6, <1>7, <1>9, <1>10, <1>11, <1>12, SharedOnlyStep DEF CommitPcs, PlanPcs

\* The swap takes listeners out of the configuration that workers still look
\* up: they are among the retired by then.
LEMMA InvCommitSwap == LInv /\ CommitSwap => LInv'
<1> SUFFICES ASSUME LInv, CommitSwap PROVE LInv'
  OBVIOUS
<1>1. /\ SharedOnly /\ pc = "swap" /\ pc' = "install" /\ revision' = revision + 1 /\ config' = plan.cfg
      /\ UNCHANGED <<plan, retired, acceptors, slots>>
  BY DEF CommitSwap, SharedOnly
<1> USE DEF SharedOnly, groups, workers, services, renewal
<1>2. revision + 1 \in Revisions /\ revision \in Nat
  BY <1>1, BoundAssumption DEF LInv, PlanInv, PlanPcs, Typed, TypeOK, Revisions
<1>3. plan.cfg \in Configs /\ plan.gone = DOMAIN active \ DOMAIN plan.cfg /\ DOMAIN active = DOMAIN config
      /\ plan.gone \subseteq DOMAIN retired
  BY <1>1 DEF LInv, PlanInv, AgreeInv, CommitPcs, PlanPcs
<1>4. TypeOK' /\ plan' \in PlanType
  BY <1>1, <1>2, <1>3 DEF LInv, Typed, TypeOK, LiveGroups, ActiveGroups
<1>5. FoundInv'
  BY <1>1, <1>3 DEF LInv, FoundInv
<1>6. AgreeInv'
  BY <1>1 DEF LInv, AgreeInv, LoopPcs, CommitPcs, PlanPcs, ActiveGroups, Drains
<1>7. PlanInv'
  BY <1>1 DEF LInv, PlanInv, CommitPcs, PlanPcs, Bindable, LiveGroups, ActiveGroups
<1> QED
  BY <1>1, <1>2, <1>4, <1>5, <1>6, <1>7, SharedOnlyStep DEF CommitPcs, PlanPcs

LEMMA InvCommitInstall == LInv /\ CommitInstall => LInv'
<1> SUFFICES ASSUME LInv, CommitInstall PROVE LInv'
  OBVIOUS
<1>1. /\ SharedOnly /\ pc = "install" /\ pc' = "reconcile" /\ acceptors' = plan.merged
      /\ UNCHANGED <<plan, revision, config, retired, slots>>
  BY DEF CommitInstall, SharedOnly
<1> USE DEF SharedOnly, groups, workers, services, renewal
<1>2. TypeOK' /\ plan' \in PlanType /\ revision \in Nat
  BY <1>1, BoundAssumption DEF LInv, Typed, TypeOK, LiveGroups, ActiveGroups, Revisions
<1>3. FoundInv'
  BY <1>1 DEF LInv, FoundInv
<1>4. AgreeInv'
  BY <1>1 DEF LInv, AgreeInv, LoopPcs, CommitPcs, PlanPcs, ActiveGroups, Drains
<1>5. PlanInv'
  BY <1>1 DEF LInv, PlanInv, CommitPcs, PlanPcs, Bindable, LiveGroups, ActiveGroups
<1> QED
  BY <1>1, <1>2, <1>3, <1>4, <1>5, SharedOnlyStep DEF CommitPcs, PlanPcs

-----------------------------------------------------------------------------
(* reconcile_listener_worker_groups.                                       *)

LEMMA TaskParts ==
    /\ \A t \in Tasks : t[1] \in Groups /\ t[2] \in Workers /\ t = <<t[1], t[2]>>
    /\ \A g \in Groups : g[1] \in Listeners /\ g[2] \in Revisions /\ g = <<g[1], g[2]>>
    /\ \A g \in Groups, w \in Workers : <<g, w>> \in Tasks
    /\ \A l \in Listeners, r \in Revisions : <<l, r>> \in Groups
  BY DEF Tasks, Groups

LEMMA InvReconcile == LInv /\ Reconcile => LInv'
<1> SUFFICES ASSUME LInv, Reconcile PROVE LInv'
  OBVIOUS
<1> DEFINE cfg == plan.cfg
           removed == DOMAIN active \ DOMAIN cfg
           leaving == {active[l] : l \in removed}
           added == DOMAIN cfg \ DOMAIN active
           fresh == {<<l, revision>> : l \in added}
           staying == ActiveGroups \ leaving
           quit == [l \in removed |-> listener[active[l]]]
           more == [l \in removed |-> <<l, revision>>]
<1>1. /\ pc = "reconcile" /\ retired' = Over(quit, retired) /\ slots' = Over(slots, more)
      /\ stop' = stop \cup leaving /\ draining' = draining \cup leaving /\ scan' = draining \cup leaving
      /\ pc' \in {"loop", "reprune"} /\ plan' = NoPlan
  BY DEF Reconcile
<1>2. /\ active' = [l \in DOMAIN cfg |-> IF l \in added THEN <<l, revision>> ELSE active[l]]
      /\ listener' = [g \in LiveGroups \cup fresh |->
                        IF g \in fresh \/ g \in staying THEN cfg[g[1]] ELSE listener[g]]
      /\ at' = [t \in Tasks |-> IF t[1] \in fresh THEN "select" ELSE at[t]]
  BY DEF Reconcile
<1>3. UNCHANGED <<woken, how, revision, config, acceptors, count, saw, failed, conn, svc, taken, bgTaken, refresh, renewals>>
  BY DEF Reconcile, services, renewal
<1>4. /\ cfg \in Configs /\ plan.gone = removed /\ Bindable(cfg) /\ config = cfg /\ DOMAIN cfg \subseteq DOMAIN slots
      /\ \A l \in DOMAIN active \cap DOMAIN cfg : listener[active[l]].addr = cfg[l].addr
  BY <1>1 DEF LInv, PlanInv, CommitPcs, PlanPcs
<1>5. /\ cfg \in ConfigType /\ DOMAIN cfg \subseteq Listeners /\ \A l \in DOMAIN cfg : cfg[l] \in ListenerSpec
      /\ \A l, m \in DOMAIN cfg : l # m => cfg[l].addr # cfg[m].addr
  <2>1. cfg \in ConfigType
    BY <1>4, ConfigAssumption
  <2> HIDE DEF cfg
  <2> QED
    BY <1>4, <2>1, ConfigAssumption, ConfigTypeIs
<1>6. /\ DOMAIN active \subseteq Listeners /\ ActiveGroups \subseteq Groups /\ draining \subseteq Groups /\ stop \subseteq Groups
      /\ revision \in Revisions /\ revision \in Nat /\ DOMAIN listener = LiveGroups
      /\ \A g \in LiveGroups : listener[g] \in ListenerSpec
  BY BoundAssumption DEF LInv, Typed, TypeOK, Revisions
<1>7. /\ \A l \in DOMAIN active : active[l] \in ActiveGroups /\ active[l][1] = l
      /\ ActiveGroups \cap draining = {} /\ NoSharedIdentity
      /\ \A g \in LiveGroups \cup stop : g[2] < revision
  BY <1>1 DEF LInv, GroupsInv, ActiveGroups
<1>8. /\ leaving \subseteq ActiveGroups /\ staying = {active[l] : l \in DOMAIN active \cap DOMAIN cfg}
      /\ \A g \in ActiveGroups : g = active[g[1]] /\ g[1] \in DOMAIN active
      /\ \A g \in staying : g[1] \in DOMAIN cfg
      /\ \A g \in leaving : g[1] \in removed
  BY <1>7 DEF ActiveGroups
<1>9. /\ fresh \subseteq Groups /\ \A g \in fresh : g[1] \in added /\ g[2] = revision
      /\ \A g, h \in fresh : g[1] = h[1] => g = h
  BY <1>5, <1>6, TaskParts
<1>10. /\ \A g \in fresh : g[1] \notin DOMAIN active
       /\ \A g \in fresh, h \in LiveGroups : g[1] # h[1] /\ listener[h].addr # cfg[g[1]].addr
  BY <1>4, <1>8, <1>9 DEF Bindable, LiveGroups
<1>11. fresh \cap LiveGroups = {} /\ fresh \cap stop = {}
  <2>1. fresh \cap LiveGroups = {}
    BY <1>10
  <2>2. \A g \in stop : g[2] < revision /\ g[2] \in Nat
    BY <1>6, <1>7, TaskParts, BoundAssumption DEF Revisions
  <2>3. fresh \cap stop = {}
    BY <1>6, <1>9, <2>2
  <2> QED
    BY <2>1, <2>3
<1>12. DOMAIN active' = DOMAIN cfg /\ ActiveGroups' = staying \cup fresh
  <2>1. DOMAIN active' = DOMAIN cfg
    BY <1>2
  <2>2. \A l \in DOMAIN cfg : active'[l] = IF l \in added THEN <<l, revision>> ELSE active[l]
    BY <1>2
  <2>3. ActiveGroups' = {active'[l] : l \in DOMAIN cfg}
    BY <2>1 DEF ActiveGroups
  <2>4. \A l \in DOMAIN cfg : active'[l] \in staying \cup fresh
    BY <1>8, <2>2
  <2>5. \A g \in fresh : \E l \in DOMAIN cfg : g = active'[l]
    BY <2>2
  <2>6. ASSUME NEW g \in staying PROVE \E l \in DOMAIN cfg : g = active'[l]
    <3>1. g \in ActiveGroups /\ g[1] \in DOMAIN cfg
      BY <1>8
    <3>2. g = active[g[1]] /\ g[1] \in DOMAIN active
      BY <1>8, <3>1
    <3>3. active'[g[1]] = g
      BY <2>2, <3>1, <3>2
    <3> QED
      BY <3>1, <3>3
  <2> HIDE DEF fresh, staying
  <2> QED
    BY <2>1, <2>3, <2>4, <2>5, <2>6
<1>13. LiveGroups' = LiveGroups \cup fresh
  BY <1>1, <1>8, <1>12 DEF LiveGroups
<1> HIDE DEF cfg
<1>14. /\ DOMAIN listener' = LiveGroups'
       /\ \A g \in fresh : listener'[g] = cfg[g[1]]
       /\ \A g \in staying : listener'[g] = cfg[g[1]] /\ listener'[g].addr = listener[g].addr
       /\ \A g \in LiveGroups \ staying : listener'[g] = listener[g]
       /\ \A g \in LiveGroups : listener'[g].addr = listener[g].addr
  <2>1. staying \subseteq LiveGroups
    BY <1>8 DEF LiveGroups
  <2>2. \A g \in staying : listener[g].addr = cfg[g[1]].addr
    BY <1>4, <1>7, <1>8
  <2> HIDE DEF staying, fresh
  <2> QED
    BY <1>2, <1>11, <1>13, <2>1, <2>2
<1> HIDE DEF staying, leaving, fresh, added, removed
<1>15. NoSharedIdentity'
  <2> SUFFICES ASSUME NEW g \in LiveGroups', NEW h \in LiveGroups', g # h
               PROVE  g[1] # h[1] /\ listener'[g].addr # listener'[h].addr
    BY DEF NoSharedIdentity
  <2>1. CASE g \in LiveGroups /\ h \in LiveGroups
    BY <1>7, <1>14, <2>1 DEF NoSharedIdentity
  <2>2. CASE g \in fresh /\ h \in LiveGroups
    BY <1>10, <1>14, <2>2
  <2>3. CASE g \in LiveGroups /\ h \in fresh
    BY <1>10, <1>14, <2>3
  <2>4. CASE g \in fresh /\ h \in fresh
    <3>1. g[1] # h[1] /\ g[1] \in DOMAIN cfg /\ h[1] \in DOMAIN cfg
      BY <1>9, <2>4 DEF added
    <3> QED
      BY <1>5, <1>14, <2>4, <3>1
  <2> QED
    BY <1>13, <2>1, <2>2, <2>3, <2>4
<1>16. GroupsInv'
  <2>1. \A l \in DOMAIN active' : active'[l][1] = l
    BY <1>2, <1>7, <1>12 DEF added
  <2>2. ActiveGroups' \cap draining' = {}
    <3>1. fresh \cap draining = {} /\ fresh \cap leaving = {}
      BY <1>8, <1>11 DEF LiveGroups
    <3>2. staying \cap draining = {} /\ staying \cap leaving = {}
      BY <1>7 DEF staying
    <3> QED
      BY <1>1, <1>12, <3>1, <3>2
  <2>3. \A g \in LiveGroups' \cup stop' : g[2] <= revision
    <3>1. \A g \in LiveGroups \cup stop : g[2] \in Nat
      BY <1>6, TaskParts, BoundAssumption DEF Revisions, LiveGroups
    <3>2. LiveGroups' \cup stop' \subseteq LiveGroups \cup stop \cup fresh
      BY <1>1, <1>8, <1>13 DEF LiveGroups
    <3> QED
      BY <1>6, <1>7, <1>9, <3>1, <3>2
  <2> QED
    BY <1>1, <1>3, <1>15, <2>1, <2>2, <2>3 DEF GroupsInv
<1>17. quit \in ConfigType /\ DOMAIN quit = removed
  <2>1. \A l \in removed : listener[active[l]] \in ListenerSpec /\ l \in Listeners
    BY <1>6, <1>7 DEF LiveGroups, removed
  <2>2. quit \in [removed -> ListenerSpec]
    BY <2>1
  <2> QED
    BY <2>1, <2>2, ConfigTypeIs
<1>18. DOMAIN more = removed /\ \A l \in removed : l \in Listeners /\ more[l] \in Slots
  BY <1>6, TaskParts DEF Slots, removed
<1> HIDE DEF quit, more
<1>19. /\ retired' \in ConfigType /\ DOMAIN retired' = removed \cup DOMAIN retired
  <2>1. /\ DOMAIN Over(quit, retired) = DOMAIN quit \cup DOMAIN retired
        /\ quit \in ConfigType /\ retired \in ConfigType => Over(quit, retired) \in ConfigType
    BY OverIs, Zenon
  <2>2. retired \in ConfigType
    BY DEF LInv, Typed, TypeOK
  <2> QED
    BY <1>1, <1>17, <2>1, <2>2
<1>20. /\ DOMAIN slots' = DOMAIN slots \cup removed
       /\ \A l \in DOMAIN slots : slots'[l] = slots[l]
       /\ DOMAIN slots' \subseteq Listeners /\ \A l \in DOMAIN slots' : slots'[l] \in Slots
  <2>1. /\ DOMAIN Over(slots, more) = DOMAIN slots \cup DOMAIN more
        /\ \A x \in DOMAIN slots : Over(slots, more)[x] = slots[x]
        /\ \A x \in DOMAIN more \ DOMAIN slots : Over(slots, more)[x] = more[x]
    BY OverIs, Zenon
  <2>2. DOMAIN slots \subseteq Listeners /\ \A l \in DOMAIN slots : slots[l] \in Slots
    BY DEF LInv, Typed, TypeOK
  <2> QED
    BY <1>1, <1>18, <2>1, <2>2
<1>21. \A t \in Tasks : at'[t] = IF t[1] \in fresh THEN "select" ELSE at[t]
  BY <1>2
<1>22. NoPlan \in PlanType
  BY EmptyMaps DEF NoPlan, PlanType
<1>23. Typed'
  <2>1. plan'.cfg \in ConfigType /\ plan'.gone \subseteq Listeners /\ plan'.built \in Acceptors /\ plan'.merged \in Acceptors
    BY <1>1, <1>22 DEF PlanType
  <2>2. draining' \subseteq Groups /\ scan' \subseteq Groups /\ stop' \subseteq Groups /\ ActiveGroups' \subseteq Groups
    BY <1>1, <1>6, <1>8, <1>9, <1>12 DEF staying
  <2>3. \A g \in LiveGroups' : listener'[g] \in ListenerSpec
    <3>1. \A g \in fresh \cup staying : g[1] \in DOMAIN cfg
      BY <1>8, <1>9 DEF added
    <3>2. \A g \in fresh \cup staying : listener'[g] \in ListenerSpec
      BY <1>5, <1>14, <3>1
    <3> QED
      BY <1>6, <1>13, <1>14, <3>2
  <2>4. at' \in [Tasks -> {"none", "select", "lookup", "retired", "found", "missing", "stopped", "returned", "done"}]
    BY <1>2 DEF LInv, Typed, TypeOK
  <2>5. DOMAIN active' \subseteq Listeners
    BY <1>5, <1>12
  <2>6. pc' \in {"loop", "prune", "wait", "reload", "restart", "retire", "merge",
               "swap", "install", "reconcile", "reprune", "stopping",
               "joinActive", "joinDraining", "joinServices", "joinBackground",
               "abortWorkers", "abortServices", "abortBackground", "exited"}
    BY <1>1
  <2> QED
    BY <1>1, <1>3, <1>14, <1>19, <1>20, <1>22, <2>1, <2>2, <2>3, <2>4, <2>5, <2>6 DEF LInv, Typed, TypeOK
<1>24. WorkersInv'
  <2>1. \A t \in Tasks : t[1] \notin LiveGroups' => at'[t] \in {"none", "done"}
    BY <1>13, <1>21 DEF LInv, WorkersInv
  <2>2. ASSUME NEW c \in Conns, Http(c)' PROVE at'[conn'[c].task] \in Up
    <3>1. Http(c) /\ conn' = conn
      BY <1>3, <2>2 DEF Http
    <3>2. conn[c].task \in Tasks /\ at[conn[c].task] \in Up
      BY <3>1 DEF LInv, WorkersInv, Typed, TypeOK, Http, ConnType
    <3> QED
      BY <1>21, <3>1, <3>2 DEF Up
  <2>3. \A t \in Tasks : at'[t] # "missing"
    BY <1>21 DEF LInv, WorkersInv
  <2> QED
    BY <2>1, <2>2, <2>3 DEF WorkersInv
<1>25. FoundInv'
  <2> SUFFICES ASSUME NEW t \in Tasks
               PROVE  /\ at'[t] \in Up => t[1][1] \in DOMAIN slots' /\ t[1][1] \in DOMAIN config' \cup DOMAIN retired'
                      /\ at'[t] = "retired" => t[1][1] \in DOMAIN retired'
    BY DEF FoundInv
  <2>1. CASE t[1] \in fresh
    <3>1. t[1][1] \in DOMAIN cfg /\ at'[t] = "select"
      BY <1>9, <1>21, <2>1 DEF added
    <3> QED
      BY <1>3, <1>4, <1>20, <3>1
  <2>2. CASE t[1] \notin fresh
    BY <1>3, <1>19, <1>20, <1>21, <2>2 DEF LInv, FoundInv
  <2> QED
    BY <2>1, <2>2
<1>26. CountInv'
  <2>1. (\A s \in Slots : count[s] = Cardinality(Has(s)))' /\ LimitHeld'
    BY <1>3 DEF LInv, CountInv, Has, LimitHeld
  <2>2. ASSUME NEW c \in Conns, Http(c)' PROVE conn'[c].slot = slots'[conn'[c].task[1][1]]
    <3>1. Http(c) /\ conn' = conn
      BY <1>3, <2>2 DEF Http
    <3>2. conn[c].slot = slots[conn[c].task[1][1]] /\ at[conn[c].task] \in Up
      BY <3>1 DEF LInv, CountInv, WorkersInv
    <3>3. conn[c].task \in Tasks
      BY <3>1 DEF LInv, Typed, TypeOK, ConnType, Http
    <3>4. conn[c].task[1][1] \in DOMAIN slots
      BY <3>2, <3>3 DEF LInv, FoundInv
    <3> QED
      BY <1>20, <3>1, <3>2, <3>4
  <2> QED
    BY <2>1, <2>2 DEF CountInv
<1>27. ScanInv'
  BY <1>1, <1>3 DEF LInv, ScanInv
<1>28. AgreeInv'
  <2>1. \A l \in DOMAIN active' : listener'[active'[l]] = config'[l]
    <3>1. \A l \in DOMAIN active' : active'[l] \in fresh \cup staying /\ active'[l][1] = l
      BY <1>12, <1>16 DEF ActiveGroups, GroupsInv
    <3> QED
      BY <1>3, <1>4, <1>14, <3>1
  <2>2. ActiveGroups' \cap stop' = {} /\ draining' \subseteq stop'
    <3>1. ActiveGroups \cap stop = {} /\ draining \subseteq stop
      BY <1>1 DEF LInv, AgreeInv, CommitPcs, PlanPcs
    <3>2. fresh \cap leaving = {}
      BY <1>8, <1>11 DEF LiveGroups
    <3> QED
      BY <1>1, <1>11, <1>12, <3>1, <3>2 DEF staying
  <2>3. DOMAIN retired' = Drains'
    <3>1. DOMAIN retired = Drains \cup removed
      BY <1>1, <1>4 DEF LInv, AgreeInv, CommitPcs, PlanPcs
    <3>2. {g[1] : g \in leaving} = removed
      BY <1>7 DEF leaving, removed
    <3>3. Drains' = Drains \cup {g[1] : g \in leaving}
      BY <1>1 DEF Drains
    <3> QED
      BY <1>19, <3>1, <3>2, <3>3
  <2> QED
    BY <1>1, <1>3, <1>4, <1>12, <2>1, <2>2, <2>3 DEF AgreeInv, LoopPcs, CommitPcs, PlanPcs
<1>29. PlanInv' /\ ServicesInv'
  BY <1>1, <1>3 DEF LInv, PlanInv, ServicesInv, CommitPcs, PlanPcs, Tunnels
<1> QED
  BY <1>16, <1>23, <1>24, <1>25, <1>26, <1>27, <1>28, <1>29 DEF LInv

-----------------------------------------------------------------------------
(* Groups that end.                                                        *)

\* What is forgotten with finished groups belongs to no worker that is up.
LEMMA UpNotForgotten ==
    ASSUME LInv, NEW gs \in SUBSET LiveGroups, \A g \in gs : Finished(g),
           NEW t \in Tasks, at[t] \in Up
    PROVE  t[1][1] \notin {g[1] : g \in gs}
<1>1. t[1] \in LiveGroups
  BY DEF LInv, WorkersInv, Up
<1>2. t[1] \notin gs
  BY TaskParts DEF Finished, Up
<1>3. \A g \in gs : g[1] # t[1][1]
  BY <1>1, <1>2 DEF LInv, GroupsInv, NoSharedIdentity
<1> QED
  BY <1>3

LEMMA Forgotten ==
    ASSUME LInv, NEW gs \in SUBSET LiveGroups, \A g \in gs : Finished(g), ForgetRuntime(gs),
           UNCHANGED <<at, conn, count>>
    PROVE  /\ FoundInv' /\ CountInv' /\ retired' \in ConfigType /\ acceptors' \in Acceptors
           /\ DOMAIN slots' \subseteq Listeners /\ \A l \in DOMAIN slots' : slots'[l] \in Slots
           /\ DOMAIN retired' = DOMAIN retired \ {g[1] : g \in gs} /\ UNCHANGED <<revision, config>>
<1> DEFINE ls == {g[1] : g \in gs}
<1>1. /\ retired' = Without(retired, ls) /\ acceptors' = Without(acceptors, ls) /\ slots' = Without(slots, ls)
      /\ UNCHANGED <<revision, config>>
  BY DEF ForgetRuntime
<1>2. \A t \in Tasks : at[t] \in Up => t[1][1] \notin ls
  BY UpNotForgotten
<1> HIDE DEF ls
<1>3. /\ DOMAIN retired' = DOMAIN retired \ ls /\ retired' \in ConfigType
  <2>1. DOMAIN Without(retired, ls) = DOMAIN retired \ ls /\ (retired \in ConfigType => Without(retired, ls) \in ConfigType)
    BY WithoutIs, Zenon
  <2> QED
    BY <1>1, <2>1 DEF LInv, Typed, TypeOK
<1>4. acceptors' \in Acceptors
  <2>1. acceptors \in Acceptors => Without(acceptors, ls) \in Acceptors
    BY WithoutIs, Zenon
  <2> QED
    BY <1>1, <2>1 DEF LInv, Typed, TypeOK
<1>5. DOMAIN slots' = DOMAIN slots \ ls /\ \A l \in DOMAIN slots \ ls : slots'[l] = slots[l]
  <2>1. DOMAIN Without(slots, ls) = DOMAIN slots \ ls /\ \A l \in DOMAIN slots \ ls : Without(slots, ls)[l] = slots[l]
    BY WithoutIs, Zenon
  <2> QED
    BY <1>1, <2>1
<1>6. FoundInv'
  BY <1>1, <1>2, <1>3, <1>5 DEF LInv, FoundInv, Up
<1>7. CountInv'
  <2>1. (\A s \in Slots : count[s] = Cardinality(Has(s)))' /\ LimitHeld'
    BY DEF LInv, CountInv, Has, LimitHeld
  <2>2. ASSUME NEW c \in Conns, Http(c)' PROVE conn'[c].slot = slots'[conn'[c].task[1][1]]
    <3>1. Http(c) /\ conn' = conn
      BY <2>2 DEF Http
    <3>2. conn[c].slot = slots[conn[c].task[1][1]] /\ at[conn[c].task] \in Up
      BY <3>1 DEF LInv, CountInv, WorkersInv
    <3>3. conn[c].task \in Tasks
      BY <3>1 DEF LInv, Typed, TypeOK, ConnType, Http
    <3>4. conn[c].task[1][1] \in DOMAIN slots \ ls
      BY <1>2, <3>2, <3>3 DEF LInv, FoundInv
    <3> QED
      BY <1>5, <3>1, <3>2, <3>4
  <2> QED
    BY <2>1, <2>2 DEF CountInv
<1>8. DOMAIN slots' \subseteq Listeners /\ \A l \in DOMAIN slots' : slots'[l] \in Slots
  BY <1>5 DEF LInv, Typed, TypeOK
<1> QED
  BY <1>1, <1>3, <1>4, <1>6, <1>7, <1>8 DEF ls

\* The groups that are left keep what they had.
LEMMA FewerGroups ==
    ASSUME LInv, UNCHANGED <<stop, revision, at, conn>>, pc' \notin {"install", "reconcile"},
           LiveGroups' \subseteq LiveGroups, DOMAIN active' \subseteq DOMAIN active,
           \A l \in DOMAIN active' : active'[l] = active[l],
           draining' \subseteq draining,
           DOMAIN listener' = LiveGroups', \A g \in LiveGroups' : listener'[g] = listener[g],
           \A g \in LiveGroups \ LiveGroups' : Finished(g)
    PROVE  GroupsInv' /\ WorkersInv'
<1>1. ActiveGroups' \subseteq ActiveGroups
  BY DEF ActiveGroups
<1>2. GroupsInv'
  BY <1>1 DEF LInv, GroupsInv, NoSharedIdentity
<1>3. \A t \in Tasks : t[1] \notin LiveGroups' => at'[t] \in {"none", "done"}
  BY TaskParts DEF LInv, WorkersInv, Finished
<1>4. WorkersInv'
  BY <1>3 DEF LInv, WorkersInv, Http
<1> QED
  BY <1>2, <1>4

LEMMA InvPruneCheck == LInv /\ (\E g \in Groups : PruneCheck(g)) => LInv'
<1> SUFFICES ASSUME LInv, NEW g \in Groups, PruneCheck(g) PROVE LInv'
  OBVIOUS
<1>1. /\ pc \in {"prune", "reprune"} /\ g \in scan /\ scan' = scan \ {g} /\ pc' \in {"prune", "reprune", "wait", "loop"}
      /\ UNCHANGED <<woken, plan, how, count, at, saw, failed, conn, svc, taken, bgTaken, refresh, renewals>>
  BY DEF PruneCheck, workers, services, renewal
<1>2. scan \subseteq draining /\ scan \subseteq Groups /\ woken \in BOOLEAN
  BY <1>1 DEF LInv, ScanInv, Typed, TypeOK
<1>3. CASE UNCHANGED <<shared, groups>>
  <2>1. MainOnly
    BY <1>1, <1>3 DEF MainOnly, workers, services, renewal
  <2> QED
    BY <1>1, <1>2, <2>1, LoopMove DEF LoopPcs
<1>4. CASE ~UNCHANGED <<shared, groups>>
  <2>1. /\ Finished(g) /\ ForgetRuntime({g}) /\ draining' = draining \ {g} /\ listener' = Without(listener, {g})
        /\ UNCHANGED <<active, stop>>
    BY <1>4 DEF PruneCheck
  <2>2. g \in LiveGroups /\ {g} \in SUBSET LiveGroups /\ g \notin ActiveGroups /\ g \in draining
    BY <1>1, <1>2 DEF LiveGroups, LInv, GroupsInv
  <2>3. /\ FoundInv' /\ CountInv' /\ retired' \in ConfigType /\ acceptors' \in Acceptors
        /\ DOMAIN slots' \subseteq Listeners /\ \A l \in DOMAIN slots' : slots'[l] \in Slots
        /\ DOMAIN retired' = DOMAIN retired \ {h[1] : h \in {g}} /\ UNCHANGED <<revision, config>>
    BY <1>1, <2>1, <2>2, Forgotten
  <2>4. ActiveGroups' = ActiveGroups /\ LiveGroups' = LiveGroups \ {g}
    BY <2>1, <2>2 DEF ActiveGroups, LiveGroups
  <2>5. DOMAIN listener' = LiveGroups' /\ \A h \in LiveGroups' : listener'[h] = listener[h]
    <3>1. DOMAIN Without(listener, {g}) = DOMAIN listener \ {g} /\ \A h \in DOMAIN listener \ {g} : Without(listener, {g})[h] = listener[h]
      BY WithoutIs, Zenon
    <3> QED
      BY <2>1, <2>4, <3>1 DEF LInv, Typed, TypeOK
  <2>6. GroupsInv' /\ WorkersInv'
    BY <1>1, <2>1, <2>3, <2>4, <2>5, FewerGroups
  <2>7. Typed'
    BY <1>1, <1>2, <2>1, <2>3, <2>4, <2>5 DEF LInv, Typed, TypeOK
  <2>8. ScanInv'
    BY <1>1, <1>2, <2>1 DEF LInv, ScanInv
  <2>9. Drains' = Drains \ {g[1]}
    <3>1. \A h \in draining : h # g => h[1] # g[1]
      BY <2>2 DEF LInv, GroupsInv, NoSharedIdentity, LiveGroups
    <3> QED
      BY <2>1, <2>2, <3>1 DEF Drains
  <2>10. DOMAIN retired' = Drains'
    <3>1. DOMAIN retired = Drains
      BY <1>1 DEF LInv, AgreeInv, LoopPcs
    <3> QED
      BY <2>3, <2>9, <3>1
  <2>11. AgreeInv'
    <3>1. \A l \in DOMAIN active : active[l] \in LiveGroups'
      BY <2>2, <2>4 DEF LiveGroups, ActiveGroups
    <3>2. /\ DOMAIN active = DOMAIN config /\ \A l \in DOMAIN active : listener[active[l]] = config[l]
          /\ ActiveGroups \cap stop = {} /\ draining \subseteq stop
      BY <1>1 DEF LInv, AgreeInv, LoopPcs
    <3> QED
      BY <1>1, <2>1, <2>3, <2>4, <2>5, <2>10, <3>1, <3>2 DEF AgreeInv, LoopPcs, CommitPcs, PlanPcs
  <2>12. PlanInv' /\ ServicesInv'
    BY <1>1 DEF LInv, PlanInv, ServicesInv, CommitPcs, PlanPcs, Tunnels
  <2> QED
    BY <2>3, <2>6, <2>7, <2>8, <2>11, <2>12 DEF LInv
<1> QED
  BY <1>3, <1>4

\* What a step of the shutdown has to show that ends groups or joins them.
LEMMA EndStep ==
    ASSUME LInv, UNCHANGED <<plan, woken, saw, failed, at, svc, taken, bgTaken, refresh, renewals, conn, count, revision, config>>,
           pc' \in EndPcs, how' \in {"running", "clean", "error", "timeout"}, scan' \subseteq Groups, stop' \subseteq Groups,
           retired' \in ConfigType, acceptors' \in Acceptors,
           DOMAIN slots' \subseteq Listeners, \A l \in DOMAIN slots' : slots'[l] \in Slots,
           DOMAIN active' \subseteq Listeners, ActiveGroups' \subseteq Groups, draining' \subseteq Groups,
           DOMAIN listener' = LiveGroups', \A g \in LiveGroups' : listener'[g] \in ListenerSpec,
           WorkersInv', FoundInv', CountInv', GroupsInv', ScanInv', ServicesInv'
    PROVE  LInv'
<1>1. Typed'
  BY DEF LInv, Typed, TypeOK, EndPcs
<1>2. AgreeInv' /\ PlanInv'
  BY DEF AgreeInv, PlanInv, EndPcs, LoopPcs, CommitPcs, PlanPcs
<1> QED
  BY <1>1, <1>2 DEF LInv

LEMMA InvInitiateShutdown == LInv /\ InitiateShutdown => LInv'
<1> SUFFICES ASSUME LInv, InitiateShutdown PROVE LInv'
  OBVIOUS
<1>1. /\ pc = "stopping" /\ pc' = "joinActive" /\ stop' = stop \cup LiveGroups /\ scan' = ActiveGroups
      /\ UNCHANGED <<woken, plan, how, active, draining, listener, shared, count, at, saw, failed, conn, svc, taken, bgTaken,
                     refresh, renewals>>
  BY DEF InitiateShutdown, workers, services, renewal
<1> USE DEF shared
<1>2. how = "running" /\ LiveGroups' = LiveGroups /\ ActiveGroups' = ActiveGroups
  BY <1>1 DEF LInv, ScanInv, LiveGroups, ActiveGroups
<1>3. /\ ActiveGroups \subseteq Groups /\ draining \subseteq Groups /\ LiveGroups \subseteq Groups /\ stop \subseteq Groups
      /\ DOMAIN listener = LiveGroups /\ \A g \in LiveGroups : listener[g] \in ListenerSpec
      /\ DOMAIN active \subseteq Listeners
      /\ retired \in ConfigType /\ acceptors \in Acceptors /\ DOMAIN slots \subseteq Listeners
      /\ \A l \in DOMAIN slots : slots[l] \in Slots
  BY DEF LInv, Typed, TypeOK, LiveGroups
<1>4. WorkersInv' /\ FoundInv' /\ CountInv'
  BY <1>1, <1>2 DEF LInv, WorkersInv, FoundInv, CountInv, Http, Has, LimitHeld
<1>5. GroupsInv'
  BY <1>1, <1>2 DEF LInv, GroupsInv, NoSharedIdentity
<1>6. ScanInv' /\ ServicesInv'
  BY <1>1, <1>2 DEF LInv, ScanInv, ServicesInv
<1> QED
  BY <1>1, <1>2, <1>3, <1>4, <1>5, <1>6, EndStep DEF EndPcs

LEMMA InvActiveJoined == LInv /\ ActiveJoined => LInv'
<1> SUFFICES ASSUME LInv, ActiveJoined PROVE LInv'
  OBVIOUS
<1>1. /\ pc = "joinActive" /\ pc' = "joinDraining" /\ scan = {} /\ scan' = draining /\ active' = <<>>
      /\ listener' = Without(listener, ActiveGroups)
      /\ UNCHANGED <<woken, plan, how, draining, stop, shared, count, at, saw, failed, conn, svc, taken, bgTaken,
                     refresh, renewals>>
  BY DEF ActiveJoined, workers, services, renewal
<1> USE DEF shared
<1>2. /\ ActiveGroups \subseteq Groups /\ draining \subseteq Groups /\ stop \subseteq Groups
      /\ DOMAIN listener = LiveGroups /\ \A g \in LiveGroups : listener[g] \in ListenerSpec
      /\ retired \in ConfigType /\ acceptors \in Acceptors /\ DOMAIN slots \subseteq Listeners
      /\ \A l \in DOMAIN slots : slots[l] \in Slots
  BY DEF LInv, Typed, TypeOK, LiveGroups
<1>3. how = "running" /\ (\A g \in ActiveGroups : Finished(g)) /\ ActiveGroups \cap draining = {}
  BY <1>1 DEF LInv, ScanInv, GroupsInv
<1>4. DOMAIN active' = {} /\ ActiveGroups' = {} /\ LiveGroups' = draining /\ LiveGroups = ActiveGroups \cup draining
  BY <1>1, EmptyMaps DEF ActiveGroups, LiveGroups
<1>5. DOMAIN listener' = LiveGroups' /\ \A g \in LiveGroups' : listener'[g] = listener[g]
  <2>1. /\ DOMAIN Without(listener, ActiveGroups) = DOMAIN listener \ ActiveGroups
        /\ \A h \in DOMAIN listener \ ActiveGroups : Without(listener, ActiveGroups)[h] = listener[h]
    BY WithoutIs, Zenon
  <2> QED
    BY <1>1, <1>2, <1>3, <1>4, <2>1
<1>6. GroupsInv' /\ WorkersInv'
  BY <1>1, <1>3, <1>4, <1>5, FewerGroups
<1>7. FoundInv' /\ CountInv'
  BY <1>1 DEF LInv, FoundInv, CountInv, Http, Has, LimitHeld
<1>8. ScanInv' /\ ServicesInv'
  BY <1>1, <1>3, <1>4 DEF LInv, ScanInv, ServicesInv
<1> QED
  BY <1>1, <1>2, <1>3, <1>4, <1>5, <1>6, <1>7, <1>8, EndStep DEF EndPcs

LEMMA InvJoinDraining == LInv /\ (\E g \in Groups : JoinDraining(g)) => LInv'
<1> SUFFICES ASSUME LInv, NEW g \in Groups, JoinDraining(g) PROVE LInv'
  OBVIOUS
<1>1. /\ pc = "joinDraining" /\ g \in scan /\ Finished(g) /\ scan' = scan \ {g}
      /\ UNCHANGED <<woken, plan, count, active, draining, listener, stop, at, saw, failed, conn, svc, taken, bgTaken,
                     refresh, renewals>>
  BY DEF JoinDraining, groups, workers, services, renewal
<1>2. how = "running" /\ scan \subseteq draining /\ scan \subseteq Groups /\ DOMAIN active = {}
  BY <1>1 DEF LInv, ScanInv, Typed, TypeOK
<1>3. LiveGroups' = LiveGroups /\ ActiveGroups' = ActiveGroups /\ {g} \in SUBSET LiveGroups
  BY <1>1, <1>2 DEF LiveGroups, ActiveGroups
<1>4. CASE pc' = "exited" /\ how' = "error" /\ UNCHANGED shared
  <2>1. MainOnly
    BY <1>1, <1>4 DEF MainOnly, groups, workers, services, renewal
  <2>2. ScanInv' /\ ServicesInv'
    BY <1>1, <1>4 DEF LInv, ScanInv, ServicesInv
  <2> QED
    BY <1>1, <1>2, <1>4, <2>1, <2>2, EndMove DEF EndPcs
<1>5. CASE ForgetRuntime({g}) /\ UNCHANGED <<pc, how>>
  <2>1. /\ FoundInv' /\ CountInv' /\ retired' \in ConfigType /\ acceptors' \in Acceptors
        /\ DOMAIN slots' \subseteq Listeners /\ \A l \in DOMAIN slots' : slots'[l] \in Slots
        /\ UNCHANGED <<revision, config>>
    BY <1>1, <1>3, <1>5, Forgotten
  <2>2. /\ ActiveGroups \subseteq Groups /\ draining \subseteq Groups /\ stop \subseteq Groups /\ DOMAIN active \subseteq Listeners
        /\ DOMAIN listener = LiveGroups /\ \A h \in LiveGroups : listener[h] \in ListenerSpec
    BY DEF LInv, Typed, TypeOK, LiveGroups
  <2>3. WorkersInv' /\ GroupsInv'
    BY <1>1, <1>3, <1>5, <2>1 DEF LInv, WorkersInv, Http, GroupsInv, NoSharedIdentity
  <2>4. ScanInv' /\ ServicesInv'
    BY <1>1, <1>2, <1>3, <1>5 DEF LInv, ScanInv, ServicesInv, Finished
  <2> QED
    BY <1>1, <1>2, <1>3, <1>5, <2>1, <2>2, <2>3, <2>4, EndStep DEF EndPcs
<1> QED
  BY <1>4, <1>5 DEF JoinDraining

LEMMA InvDrainingJoined == LInv /\ DrainingJoined => LInv'
<1> SUFFICES ASSUME LInv, DrainingJoined PROVE LInv'
  OBVIOUS
<1>1. /\ pc = "joinDraining" /\ pc' = "joinServices" /\ scan = {} /\ draining' = {} /\ listener' = <<>>
      /\ UNCHANGED <<woken, plan, scan, how, active, stop, shared, count, at, saw, failed, conn, svc, taken, bgTaken,
                     refresh, renewals>>
  BY DEF DrainingJoined, workers, services, renewal
<1> USE DEF shared
<1>2. /\ stop \subseteq Groups /\ retired \in ConfigType /\ acceptors \in Acceptors /\ DOMAIN slots \subseteq Listeners
      /\ \A l \in DOMAIN slots : slots[l] \in Slots
  BY DEF LInv, Typed, TypeOK
<1>3. how = "running" /\ DOMAIN active = {} /\ \A g \in draining : Finished(g)
  BY <1>1 DEF LInv, ScanInv
<1>4. ActiveGroups' = {} /\ LiveGroups' = {} /\ LiveGroups = draining /\ DOMAIN listener' = {}
  BY <1>1, <1>3, EmptyMaps DEF ActiveGroups, LiveGroups
<1>5. GroupsInv' /\ WorkersInv'
  BY <1>1, <1>3, <1>4, FewerGroups
<1>6. FoundInv' /\ CountInv'
  BY <1>1 DEF LInv, FoundInv, CountInv, Http, Has, LimitHeld
<1>7. ScanInv' /\ ServicesInv'
  BY <1>1, <1>3, <1>4 DEF LInv, ScanInv, ServicesInv
<1> QED
  BY <1>1, <1>2, <1>3, <1>4, <1>5, <1>6, <1>7, EndStep DEF EndPcs

LEMMA InvWorkersAborted == LInv /\ WorkersAborted => LInv'
<1> SUFFICES ASSUME LInv, WorkersAborted PROVE LInv'
  OBVIOUS
<1>1. /\ pc = "abortWorkers" /\ pc' = "abortServices" /\ (\A g \in LiveGroups : Finished(g)) /\ ForgetRuntime(draining)
      /\ active' = <<>> /\ draining' = {} /\ listener' = <<>>
      /\ UNCHANGED <<woken, plan, scan, how, stop, count, at, saw, failed, conn, svc, taken, bgTaken, refresh, renewals>>
  BY DEF WorkersAborted, workers, services, renewal
<1>2. how = "running" /\ scan \subseteq Groups /\ stop \subseteq Groups
  BY <1>1 DEF LInv, ScanInv, Typed, TypeOK
<1>3. draining \in SUBSET LiveGroups
  BY DEF LiveGroups
<1>4. /\ FoundInv' /\ CountInv' /\ retired' \in ConfigType /\ acceptors' \in Acceptors
      /\ DOMAIN slots' \subseteq Listeners /\ \A l \in DOMAIN slots' : slots'[l] \in Slots
      /\ UNCHANGED <<revision, config>>
  BY <1>1, <1>3, Forgotten
<1>5. DOMAIN active' = {} /\ ActiveGroups' = {} /\ LiveGroups' = {} /\ DOMAIN listener' = {}
  BY <1>1, EmptyMaps DEF ActiveGroups, LiveGroups
<1>6. GroupsInv' /\ WorkersInv'
  BY <1>1, <1>4, <1>5, FewerGroups
<1>7. ScanInv' /\ ServicesInv'
  BY <1>1, <1>2, <1>5 DEF LInv, ScanInv, ServicesInv
<1> QED
  BY <1>1, <1>2, <1>4, <1>5, <1>6, <1>7, EndStep DEF EndPcs

-----------------------------------------------------------------------------
(* Connections and their counters.                                         *)

HttpOf(g) == {c \in Conns : conn[c] # Closed /\ conn[c].kind = "http" /\ conn[c].task[1] = g}

LEMMA ConnsFinite ==
    /\ \A S \in SUBSET Conns : IsFiniteSet(S) /\ Cardinality(S) \in Nat
    /\ \A S \in SUBSET Conns : \A T \in SUBSET S : Cardinality(T) <= Cardinality(S)
    /\ \A S \in SUBSET Conns : \A c \in Conns \ S : Cardinality(S \cup {c}) = Cardinality(S) + 1
    /\ \A S \in SUBSET Conns : \A c \in S : Cardinality(S \ {c}) = Cardinality(S) - 1
<1>1. \A S \in SUBSET Conns : IsFiniteSet(S) /\ Cardinality(S) \in Nat
  BY BoundAssumption, FS_Subset, FS_CardinalityType
<1>2. \A S \in SUBSET Conns : \A T \in SUBSET S : Cardinality(T) <= Cardinality(S)
  BY <1>1, FS_Subset
<1>3. ASSUME NEW S \in SUBSET Conns, NEW c \in Conns \ S PROVE Cardinality(S \cup {c}) = Cardinality(S) + 1
  <2>1. IsFiniteSet(S) /\ c \notin S
    BY <1>1
  <2> QED
    BY <2>1, FS_AddElement, Zenon
<1>4. ASSUME NEW S \in SUBSET Conns, NEW c \in S PROVE Cardinality(S \ {c}) = Cardinality(S) - 1
  <2>1. IsFiniteSet(S)
    BY <1>1
  <2> QED
    BY <2>1, FS_RemoveElement, Zenon
<1> QED
  BY <1>1, <1>2, <1>3, <1>4

\* Aborting a connection leaves its guard in place until it is dropped.
LEMMA AbortedConns ==
    ASSUME LInv, NEW cs \in SUBSET Conns, \A c \in cs : conn[c] # Closed, conn' = AbortConns(cs),
           UNCHANGED <<count, slots>>
    PROVE  /\ conn' \in [Conns -> {Closed} \cup ConnType] /\ CountInv'
           /\ \A c \in Conns : Http(c)' => Http(c) /\ conn'[c] = conn[c] /\ c \notin cs
<1>1. conn \in [Conns -> {Closed} \cup ConnType]
  BY DEF LInv, Typed, TypeOK
<1>2. \A c \in Conns : conn'[c] = IF c \in cs THEN [conn[c] EXCEPT !.kind = "aborted"] ELSE conn[c]
  BY DEF AbortConns
<1>3. \A c \in cs : /\ conn'[c] \in ConnType /\ conn'[c].kind = "aborted" /\ conn'[c].slot = conn[c].slot /\ conn'[c].task = conn[c].task
  BY <1>1, <1>2 DEF ConnType
<1>4. \A c \in cs : conn'[c] # Closed
  BY <1>3, ClosedAssumption
<1>5. conn' \in [Conns -> {Closed} \cup ConnType]
  BY <1>1, <1>3 DEF AbortConns
<1>6. \A c \in Conns : Http(c)' => Http(c) /\ conn'[c] = conn[c] /\ c \notin cs
  BY <1>2, <1>3 DEF Http
<1>7. ASSUME NEW s \in Slots PROVE Has(s)' = Has(s)
  BY <1>2, <1>3, <1>4 DEF Has
<1>8. LimitHeld'
  <2> SUFFICES ASSUME NEW g \in Groups PROVE Cardinality(HttpOf(g)') <= Limit
    BY DEF LimitHeld, HttpOf
  <2>1. HttpOf(g)' \subseteq HttpOf(g) /\ HttpOf(g) \subseteq Conns
    BY <1>6 DEF HttpOf, Http
  <2>2. Cardinality(HttpOf(g)) <= Limit /\ Limit \in Nat
    BY BoundAssumption DEF LInv, CountInv, LimitHeld, HttpOf
  <2>3. Cardinality(HttpOf(g)') <= Cardinality(HttpOf(g)) /\ Cardinality(HttpOf(g)) \in Nat /\ Cardinality(HttpOf(g)') \in Nat
    BY <2>1, ConnsFinite
  <2> QED
    BY <2>2, <2>3
<1>9. \A c \in Conns : Http(c)' => conn'[c].slot = slots'[conn'[c].task[1][1]]
  BY <1>6 DEF LInv, CountInv
<1>10. \A s \in Slots : count'[s] = Cardinality(Has(s)')
  BY <1>7 DEF LInv, CountInv
<1> QED
  BY <1>5, <1>6, <1>8, <1>9, <1>10 DEF CountInv

\* A connection that is opened is counted, and by the counter its listener has.
LEMMA OpenedConn ==
    ASSUME LInv, NEW r \in ConnType, \E c \in Conns : conn[c] = Closed,
           r.kind = "http" => r.slot = slots[r.task[1][1]] /\ count[r.slot] < Limit,
           conn' = [conn EXCEPT ![FreeConn] = r], count' = [count EXCEPT ![r.slot] = @ + 1], slots' = slots
    PROVE  /\ conn' \in [Conns -> {Closed} \cup ConnType] /\ count' \in [Slots -> Nat] /\ CountInv'
           /\ \A c \in Conns : Http(c)' => (Http(c) /\ conn'[c] = conn[c]) \/ conn'[c] = r
<1> DEFINE f == FreeConn
<1>1. f \in Conns /\ conn[f] = Closed
  BY DEF FreeConn
<1> HIDE DEF f
<1>2. conn \in [Conns -> {Closed} \cup ConnType] /\ count \in [Slots -> Nat] /\ r.slot \in Slots /\ r # Closed
  BY ClosedAssumption DEF LInv, Typed, TypeOK, ConnType
<1>3. \A c \in Conns : conn'[c] = IF c = f THEN r ELSE conn[c]
  BY <1>2 DEF f
<1>4. conn' \in [Conns -> {Closed} \cup ConnType] /\ count' \in [Slots -> Nat]
  <2>1. conn' \in [Conns -> {Closed} \cup ConnType]
    BY <1>2
  <2>2. count[r.slot] + 1 \in Nat
    BY <1>2
  <2>3. count' \in [Slots -> Nat]
    BY <1>2, <2>2
  <2> QED
    BY <2>1, <2>3
<1>5. \A c \in Conns : Http(c)' => (Http(c) /\ conn'[c] = conn[c]) \/ conn'[c] = r
  BY <1>3 DEF Http
<1>6. ASSUME NEW s \in Slots PROVE count'[s] = Cardinality(Has(s)')
  <2>1. f \in Conns \ Has(s) /\ Has(s) \subseteq Conns
    BY <1>1 DEF Has
  <2>2. count[s] = Cardinality(Has(s)) /\ Cardinality(Has(s)) \in Nat
    BY <2>1, ConnsFinite DEF LInv, CountInv
  <2>3. CASE s = r.slot
    <3>1. Has(s)' = Has(s) \cup {f}
      BY <1>1, <1>2, <1>3, <2>3 DEF Has
    <3>2. Cardinality(Has(s) \cup {f}) = Cardinality(Has(s)) + 1
      BY <2>1, ConnsFinite
    <3>3. count'[s] = count[s] + 1
      BY <1>2, <2>3
    <3> QED
      BY <2>2, <3>1, <3>2, <3>3
  <2>4. CASE s # r.slot
    <3>1. Has(s)' = Has(s)
      BY <1>1, <1>3, <2>4 DEF Has
    <3>2. count'[s] = count[s]
      BY <1>2, <2>4
    <3> QED
      BY <2>2, <3>1, <3>2
  <2> QED
    BY <2>3, <2>4
<1>7. ASSUME NEW g \in Groups PROVE Cardinality(HttpOf(g)') <= Limit
  <2>1. Cardinality(HttpOf(g)) <= Limit /\ Limit \in Nat /\ HttpOf(g) \subseteq Conns /\ f \notin HttpOf(g)
    BY <1>1, BoundAssumption DEF LInv, CountInv, LimitHeld, HttpOf
  <2>2. CASE r.kind = "http" /\ r.task[1] = g
    <3>1. HttpOf(g)' = HttpOf(g) \cup {f}
      BY <1>1, <1>2, <1>3, <2>2 DEF HttpOf
    <3>2. HttpOf(g) \subseteq Has(r.slot) /\ Has(r.slot) \subseteq Conns
      <4>1. \A c \in HttpOf(g) : conn[c].slot = slots[g[1]] /\ conn[c] # Closed
        BY DEF LInv, CountInv, HttpOf, Http
      <4> QED
        BY <2>2, <4>1 DEF Has, HttpOf
    <3>3. /\ Cardinality(HttpOf(g)) <= Cardinality(Has(r.slot)) /\ Cardinality(HttpOf(g)) \in Nat
          /\ Cardinality(HttpOf(g) \cup {f}) = Cardinality(HttpOf(g)) + 1
      BY <1>1, <2>1, <3>2, ConnsFinite
    <3>4. Cardinality(Has(r.slot)) < Limit /\ Cardinality(Has(r.slot)) \in Nat
      BY <1>2, <2>2, <3>2, ConnsFinite DEF LInv, CountInv
    <3> QED
      BY <2>1, <3>1, <3>3, <3>4
  <2>3. CASE ~(r.kind = "http" /\ r.task[1] = g)
    <3>1. HttpOf(g)' = HttpOf(g)
      BY <1>1, <1>3, <2>3 DEF HttpOf
    <3> QED
      BY <2>1, <3>1
  <2> QED
    BY <2>2, <2>3
<1>8. LimitHeld'
  BY <1>7 DEF LimitHeld, HttpOf
<1>9. \A c \in Conns : Http(c)' => conn'[c].slot = slots'[conn'[c].task[1][1]]
  BY <1>5 DEF LInv, CountInv, Http
<1> QED
  BY <1>4, <1>5, <1>6, <1>8, <1>9 DEF CountInv

\* Dropping the guard gives the counter back.
LEMMA ClosedConn ==
    ASSUME LInv, NEW d \in Conns, conn[d] # Closed,
           conn' = [conn EXCEPT ![d] = Closed], count' = [count EXCEPT ![conn[d].slot] = @ - 1], slots' = slots
    PROVE  /\ conn' \in [Conns -> {Closed} \cup ConnType] /\ count' \in [Slots -> Nat] /\ CountInv'
           /\ \A c \in Conns : Http(c)' => Http(c) /\ conn'[c] = conn[c]
<1>1. conn \in [Conns -> {Closed} \cup ConnType] /\ count \in [Slots -> Nat] /\ conn[d].slot \in Slots
  BY DEF LInv, Typed, TypeOK, ConnType
<1>2. \A c \in Conns : conn'[c] = IF c = d THEN Closed ELSE conn[c]
  BY <1>1
<1>3. conn' \in [Conns -> {Closed} \cup ConnType]
  BY <1>1
<1>4. \A c \in Conns : Http(c)' => Http(c) /\ conn'[c] = conn[c]
  BY <1>2 DEF Http
<1>5. ASSUME NEW s \in Slots PROVE count'[s] = Cardinality(Has(s)') /\ count'[s] \in Nat
  <2>1. count[s] = Cardinality(Has(s)) /\ Has(s) \subseteq Conns /\ Has(s)' \subseteq Conns
    BY DEF LInv, CountInv, Has
  <2>2. Cardinality(Has(s)') \in Nat
    BY <2>1, ConnsFinite
  <2>3. CASE s = conn[d].slot
    <3>1. Has(s)' = Has(s) \ {d} /\ d \in Has(s)
      BY <1>2, <2>3 DEF Has
    <3>2. Cardinality(Has(s) \ {d}) = Cardinality(Has(s)) - 1
      BY <2>1, <3>1, ConnsFinite
    <3>3. count'[s] = count[s] - 1
      BY <1>1, <2>3
    <3> QED
      BY <2>1, <2>2, <3>1, <3>2, <3>3
  <2>4. CASE s # conn[d].slot
    <3>1. Has(s)' = Has(s)
      BY <1>2, <2>4 DEF Has
    <3>2. count'[s] = count[s]
      BY <1>1, <2>4
    <3> QED
      BY <1>1, <2>1, <3>1, <3>2
  <2> QED
    BY <2>3, <2>4
<1>6. count' \in [Slots -> Nat]
  <2>1. DOMAIN count' = Slots /\ count' = [x \in Slots |-> count'[x]]
    BY <1>1
  <2> QED
    BY <1>5, <2>1
<1>7. LimitHeld'
  <2> SUFFICES ASSUME NEW g \in Groups PROVE Cardinality(HttpOf(g)') <= Limit
    BY DEF LimitHeld, HttpOf
  <2>1. HttpOf(g)' \subseteq HttpOf(g) /\ HttpOf(g) \subseteq Conns
    BY <1>4 DEF HttpOf, Http
  <2>2. Cardinality(HttpOf(g)) <= Limit /\ Limit \in Nat
    BY BoundAssumption DEF LInv, CountInv, LimitHeld, HttpOf
  <2>3. Cardinality(HttpOf(g)') <= Cardinality(HttpOf(g)) /\ Cardinality(HttpOf(g)) \in Nat /\ Cardinality(HttpOf(g)') \in Nat
    BY <2>1, ConnsFinite
  <2> QED
    BY <2>2, <2>3
<1>8. \A c \in Conns : Http(c)' => conn'[c].slot = slots'[conn'[c].task[1][1]]
  BY <1>4 DEF LInv, CountInv
<1> QED
  BY <1>3, <1>4, <1>5, <1>6, <1>7, <1>8 DEF CountInv

-----------------------------------------------------------------------------
(* Accept workers.                                                         *)

Positions == {"none", "select", "lookup", "retired", "found", "missing", "stopped", "returned", "done"}

\* What a step of a worker, or of its cancellation, has to show.
LEMMA WorkerStep ==
    ASSUME LInv, NEW t \in Tasks, NEW v \in Positions \ {"none", "missing"},
           pc # "exited", at[t] # "done", t[1] \in LiveGroups,
           at' = [at EXCEPT ![t] = v], saw' \in [Tasks -> BOOLEAN], failed' \subseteq Tasks, woken' \in BOOLEAN,
           UNCHANGED <<pc, plan, scan, how, shared, groups, services, renewal>>,
           conn' \in [Conns -> {Closed} \cup ConnType], count' \in [Slots -> Nat], CountInv',
           \A c \in Conns : Http(c)' => at'[conn'[c].task] \in Up,
           v \in Up => t[1][1] \in DOMAIN slots /\ t[1][1] \in DOMAIN config \cup DOMAIN retired,
           v = "retired" => t[1][1] \in DOMAIN retired
    PROVE  LInv'
<1> USE DEF shared, groups, services, renewal
<1>1. at \in [Tasks -> Positions]
  BY DEF LInv, Typed, TypeOK, Positions
<1>2. \A u \in Tasks : at'[u] = IF u = t THEN v ELSE at[u]
  BY <1>1
<1>3. at' \in [Tasks -> Positions]
  BY <1>1
<1>4. LiveGroups' = LiveGroups /\ ActiveGroups' = ActiveGroups /\ how = "running"
  BY DEF LiveGroups, ActiveGroups, LInv, ScanInv
<1>5. Typed'
  BY <1>3, <1>4 DEF LInv, Typed, TypeOK, Positions
<1>6. WorkersInv'
  BY <1>2, <1>4 DEF LInv, WorkersInv
<1>7. FoundInv'
  BY <1>2 DEF LInv, FoundInv
<1>8. GroupsInv'
  BY <1>4 DEF LInv, GroupsInv, NoSharedIdentity
<1>9. \A g \in Groups : Finished(g) => Finished(g)'
  BY <1>2, TaskParts DEF Finished
<1>10. ScanInv'
  <2>1. ActiveGroups \subseteq Groups /\ draining \subseteq Groups
    BY DEF LInv, Typed, TypeOK
  <2> QED
    BY <1>4, <1>9, <2>1 DEF LInv, ScanInv
<1>11. AgreeInv'
  BY <1>4 DEF LInv, AgreeInv, Drains
<1>12. PlanInv'
  BY <1>4 DEF LInv, PlanInv, Bindable
<1>13. ServicesInv'
  BY <1>4 DEF LInv, ServicesInv
<1> QED
  BY <1>5, <1>6, <1>7, <1>8, <1>10, <1>11, <1>12, <1>13 DEF LInv

\* A worker that is up belongs to a group that is alive.
LEMMA UpFacts ==
    ASSUME LInv, NEW t \in Tasks, at[t] \in Up \cup {"returned"}
    PROVE  /\ at[t] # "done" /\ t[1] \in LiveGroups /\ saw \in [Tasks -> BOOLEAN] /\ failed \subseteq Tasks /\ woken \in BOOLEAN
           /\ conn \in [Conns -> {Closed} \cup ConnType] /\ count \in [Slots -> Nat] /\ at \in [Tasks -> Positions]
           /\ at[t] \in Up => t[1][1] \in DOMAIN slots /\ t[1][1] \in DOMAIN config \cup DOMAIN retired
  BY DEF LInv, WorkersInv, FoundInv, Typed, TypeOK, Up, Positions

\* A worker that moves within its loop, and opens nothing.
LEMMA WorkerMoves ==
    ASSUME LInv, NEW t \in Tasks, NEW v \in Up,
           pc # "exited", at[t] \in Up,
           at' = [at EXCEPT ![t] = v], saw' \in [Tasks -> BOOLEAN],
           UNCHANGED <<failed, woken, pc, plan, scan, how, shared, groups, services, renewal, conn, count>>,
           v = "retired" => t[1][1] \in DOMAIN retired
    PROVE  LInv'
<1>1. /\ at[t] # "done" /\ t[1] \in LiveGroups /\ failed \subseteq Tasks /\ woken \in BOOLEAN
      /\ conn \in [Conns -> {Closed} \cup ConnType] /\ count \in [Slots -> Nat] /\ at \in [Tasks -> Positions]
      /\ t[1][1] \in DOMAIN slots /\ t[1][1] \in DOMAIN config \cup DOMAIN retired
  BY UpFacts
<1>2. CountInv'
  BY DEF LInv, CountInv, Has, Http, LimitHeld, shared
<1>3. ASSUME NEW c \in Conns, Http(c)' PROVE at'[conn'[c].task] \in Up
  <2>1. Http(c) /\ conn' = conn
    BY <1>3 DEF Http
  <2>2. conn[c].task \in Tasks /\ at[conn[c].task] \in Up
    BY <2>1 DEF LInv, WorkersInv, Typed, TypeOK, Http, ConnType
  <2> QED
    BY <1>1, <2>1, <2>2
<1>4. v \in Positions \ {"none", "missing"}
  BY DEF Up, Positions
<1> QED
  BY <1>1, <1>2, <1>3, <1>4, WorkerStep

LEMMA InvWorkerLoop ==
    ASSUME LInv, NEW t \in Tasks, Accept(t) \/ LookupConfig(t) \/ LookupRetired(t) \/ SeeShutdown(t)
    PROVE  LInv'
<1> USE DEF loop, Running
<1>1. CASE Accept(t)
  <2>1. at[t] \in Up /\ "lookup" \in Up
    BY <1>1 DEF Accept, Up
  <2>2. saw' \in [Tasks -> BOOLEAN]
    BY <1>1, <2>1, UpFacts DEF Accept
  <2> QED
    BY <1>1, <2>1, <2>2, WorkerMoves DEF Accept
<1>2. CASE LookupConfig(t)
  <2> DEFINE v == IF t[1][1] \in DOMAIN config THEN "found" ELSE "retired"
  <2>1. at[t] \in Up /\ v \in Up
    BY <1>2 DEF LookupConfig, Up
  <2>2. v = "retired" => t[1][1] \in DOMAIN retired
    BY <2>1, UpFacts
  <2>3. saw' \in [Tasks -> BOOLEAN]
    BY <1>2, <2>1, UpFacts DEF LookupConfig
  <2>4. at' = [at EXCEPT ![t] = v]
    BY <1>2 DEF LookupConfig
  <2> HIDE DEF v
  <2> QED
    BY <1>2, <2>1, <2>2, <2>3, <2>4, WorkerMoves DEF LookupConfig
<1>3. CASE LookupRetired(t)
  <2>1. at[t] \in Up /\ "found" \in Up /\ t[1][1] \in DOMAIN retired
    BY <1>3 DEF LookupRetired, Up, LInv, FoundInv
  <2>2. saw' \in [Tasks -> BOOLEAN]
    BY <1>3, <2>1, UpFacts DEF LookupRetired
  <2> QED
    BY <1>3, <2>1, <2>2, WorkerMoves DEF LookupRetired
<1>4. CASE SeeShutdown(t)
  <2>1. at[t] \in Up /\ "stopped" \in Up
    BY <1>4 DEF SeeShutdown, Up
  <2>2. saw' \in [Tasks -> BOOLEAN]
    BY <1>4, <2>1, UpFacts DEF SeeShutdown
  <2> QED
    BY <1>4, <2>1, <2>2, WorkerMoves DEF SeeShutdown
<1> QED
  BY <1>1, <1>2, <1>3, <1>4

LEMMA InvAcquire == ASSUME LInv, NEW t \in Tasks, Acquire(t) PROVE LInv'
<1> DEFINE l == t[1][1]
           r == [kind |-> "http", task |-> t, slot |-> slots[l]]
<1> USE DEF loop, Running
<1>1. /\ at[t] = "found" /\ at[t] \in Up /\ "select" \in Up /\ pc # "exited" /\ (\E c \in Conns : conn[c] = Closed)
      /\ at' = [at EXCEPT ![t] = "select"] /\ saw' = [saw EXCEPT ![t] = FALSE]
      /\ UNCHANGED <<failed, woken, pc, plan, scan, how, shared, groups, services, renewal>>
  BY DEF Acquire, Up
<1>2. /\ at[t] # "done" /\ t[1] \in LiveGroups /\ saw \in [Tasks -> BOOLEAN] /\ failed \subseteq Tasks /\ woken \in BOOLEAN
      /\ at \in [Tasks -> Positions] /\ l \in DOMAIN slots /\ l \in DOMAIN config \cup DOMAIN retired
  BY <1>1, UpFacts
<1>3. saw' \in [Tasks -> BOOLEAN]
  BY <1>1, <1>2
<1>4. CASE UNCHANGED <<count, conn>>
  BY <1>1, <1>3, <1>4, WorkerMoves
<1>5. CASE ~UNCHANGED <<count, conn>>
  <2>1. /\ count[slots[l]] < Limit /\ count' = [count EXCEPT ![slots[l]] = @ + 1] /\ conn' = [conn EXCEPT ![FreeConn] = r]
    BY <1>5 DEF Acquire
  <2>2. slots[l] \in Slots
    BY <1>2 DEF LInv, Typed, TypeOK
  <2>3. r \in ConnType /\ r.slot = slots[l] /\ r.task = t /\ r.kind = "http"
    BY <2>2 DEF ConnType
  <2>4. slots' = slots
    BY <1>1 DEF shared
  <2> HIDE DEF r
  <2>5. /\ conn' \in [Conns -> {Closed} \cup ConnType] /\ count' \in [Slots -> Nat] /\ CountInv'
        /\ \A c \in Conns : Http(c)' => (Http(c) /\ conn'[c] = conn[c]) \/ conn'[c] = r
    BY <1>1, <2>1, <2>3, <2>4, OpenedConn
  <2>6. ASSUME NEW c \in Conns, Http(c)' PROVE at'[conn'[c].task] \in Up
    <3>1. CASE Http(c) /\ conn'[c] = conn[c]
      <4>1. conn[c].task \in Tasks /\ at[conn[c].task] \in Up
        BY <3>1 DEF LInv, WorkersInv, Typed, TypeOK, Http, ConnType
      <4> QED
        BY <1>1, <1>2, <3>1, <4>1
    <3>2. CASE conn'[c] = r
      BY <1>1, <1>2, <2>3, <3>2
    <3> QED
      BY <2>5, <2>6, <3>1, <3>2
  <2>7. "select" \in Positions \ {"none", "missing"} /\ "select" # "retired"
    BY DEF Positions
  <2> QED
    BY <1>1, <1>2, <1>3, <2>5, <2>6, <2>7, WorkerStep
<1> QED
  BY <1>4, <1>5

\* A worker that returns has no connections left, or aborts them; so has one that is
\* cancelled.
LEMMA InvWorkerEnds ==
    ASSUME LInv, NEW t \in Tasks, Drained(t) \/ AcceptError(t) \/ TaskDone(t) \/ CancelWorker(t)
    PROVE  LInv'
<1> USE DEF loop, Running
<1> DEFINE cs == ConnsOf(t)
           v == IF Drained(t) \/ AcceptError(t) THEN "returned" ELSE "done"
<1>1. /\ at[t] # "done" /\ t[1] \in LiveGroups /\ pc # "exited"
  <2>1. CASE Drained(t) \/ AcceptError(t) \/ TaskDone(t)
    <3>1. at[t] \in Up \cup {"returned"} /\ pc # "exited"
      BY <2>1 DEF Drained, AcceptError, TaskDone, Up
    <3> QED
      BY <3>1, UpFacts
  <2>2. CASE CancelWorker(t)
    BY <2>2 DEF CancelWorker, Aborting
  <2> QED
    BY <2>1, <2>2
<1>2. /\ v \in Positions \ {"none", "missing"} /\ v \notin Up
      /\ UNCHANGED <<pc, plan, scan, how, saw, shared, groups, services, renewal, count>>
  BY DEF Positions, Up, Drained, AcceptError, TaskDone, CancelWorker, Return
<1>3. at' = [at EXCEPT ![t] = v]
  <2>1. at \in [Tasks -> Positions]
    BY DEF LInv, Typed, TypeOK, Positions
  <2>2. CASE Drained(t) \/ AcceptError(t)
    BY <2>2 DEF Drained, AcceptError, Return
  <2>3. CASE ~(Drained(t) \/ AcceptError(t))
    BY <2>3 DEF TaskDone, CancelWorker
  <2> QED
    BY <2>2, <2>3
<1>4. saw' \in [Tasks -> BOOLEAN] /\ failed' \subseteq Tasks /\ woken' \in BOOLEAN
  <2>1. saw \in [Tasks -> BOOLEAN] /\ failed \subseteq Tasks /\ woken \in BOOLEAN
    BY DEF LInv, Typed, TypeOK
  <2>2. failed' \subseteq Tasks
    BY <2>1 DEF Drained, AcceptError, TaskDone, CancelWorker
  <2>3. woken' \in BOOLEAN
    BY <2>1 DEF Drained, AcceptError, TaskDone, CancelWorker, Return
  <2> QED
    BY <1>2, <2>1, <2>2, <2>3
<1>5. cs \in SUBSET Conns /\ \A c \in cs : conn[c] # Closed
  BY DEF ConnsOf
<1>6. conn \in [Conns -> {Closed} \cup ConnType] /\ count \in [Slots -> Nat] /\ at \in [Tasks -> Positions]
  BY DEF LInv, Typed, TypeOK, Positions
<1>7. conn' = AbortConns(cs)
  <2>1. CASE AcceptError(t) \/ CancelWorker(t)
    BY <2>1 DEF AcceptError, CancelWorker
  <2>2. CASE Drained(t) \/ TaskDone(t)
    <3>1. cs = {}
      <4>1. CASE Drained(t)
        BY <4>1 DEF Drained
      <4>2. CASE TaskDone(t)
        <5>1. at[t] = "returned"
          BY <4>2 DEF TaskDone
        <5> QED
          BY <5>1 DEF LInv, WorkersInv, ConnsOf, Http, Up
      <4> QED
        BY <2>2, <4>1, <4>2
    <3>2. conn' = conn
      BY <2>2 DEF Drained, TaskDone
    <3> HIDE DEF cs
    <3>3. \A c \in Conns : c \notin cs
      BY <3>1
    <3> QED
      BY <1>6, <3>2, <3>3 DEF AbortConns
  <2> QED
    BY <2>1, <2>2
<1> HIDE DEF cs, v
<1>8. /\ conn' \in [Conns -> {Closed} \cup ConnType] /\ CountInv'
      /\ \A c \in Conns : Http(c)' => Http(c) /\ conn'[c] = conn[c] /\ c \notin cs
  BY <1>2, <1>5, <1>7, AbortedConns DEF shared
<1>9. ASSUME NEW c \in Conns, Http(c)' PROVE at'[conn'[c].task] \in Up
  <2>1. Http(c) /\ conn'[c] = conn[c] /\ c \notin cs
    BY <1>8, <1>9
  <2>2. conn[c].task # t
    BY <2>1 DEF cs, ConnsOf, Http
  <2>3. conn[c].task \in Tasks /\ at[conn[c].task] \in Up
    BY <2>1 DEF LInv, WorkersInv, Typed, TypeOK, Http, ConnType
  <2> QED
    BY <1>3, <1>6, <2>1, <2>2, <2>3
<1>10. count' \in [Slots -> Nat] /\ v # "retired"
  BY <1>2, <1>6 DEF Up
<1> QED
  BY <1>1, <1>2, <1>3, <1>4, <1>8, <1>9, <1>10, WorkerStep

-----------------------------------------------------------------------------
(* Connections, services and certificates.                                 *)

\* What a step has to show that moves neither groups nor workers.
LEMMA OtherStep ==
    ASSUME LInv, UNCHANGED <<plan, woken, scan, groups, workers, revision, config, retired, slots>>,
           pc' = pc \/ (pc \in EndPcs /\ pc' \in EndPcs),
           pc' \in EndPcs \ {"exited"} =>
               pc' = pc \/ (LiveGroups = {} /\ pc' # "joinActive" /\ pc' # "joinDraining"),
           how' \in {"running", "clean", "error", "timeout"}, pc' # "exited" => how' = "running",
           how' \in {"clean", "timeout"} => LiveGroups = {},
           svc' \in [DOMAIN Services -> {"running", "stopped", "failed"}], taken' \in 0 .. Len(Services), bgTaken' \in BOOLEAN,
           conn' \in [Conns -> {Closed} \cup ConnType], count' \in [Slots -> Nat], acceptors' \in Acceptors,
           refresh' \in RefreshType, renewals' \in 0 .. MaxRenewals, CountInv', ServicesInv',
           \A c \in Conns : Http(c)' => at[conn'[c].task] \in Up
    PROVE  LInv'
<1> USE DEF groups, workers
<1>1. LiveGroups' = LiveGroups /\ ActiveGroups' = ActiveGroups
  BY DEF LiveGroups, ActiveGroups
<1>2. Typed'
  <2>1. refresh'.at \in {"idle", "renewed", "built"} /\ refresh'.built \in Acceptors
    BY DEF RefreshType
  <2> QED
    BY <1>1, <2>1 DEF LInv, Typed, TypeOK, EndPcs
<1>3. WorkersInv' /\ FoundInv'
  BY <1>1 DEF LInv, WorkersInv, FoundInv
<1>4. GroupsInv'
  BY <1>1 DEF LInv, GroupsInv, NoSharedIdentity, EndPcs
<1>5. ScanInv'
  <2>1. \A g : Finished(g)' <=> Finished(g)
    BY DEF Finished
  <2>2. CASE pc' = pc
    BY <1>1, <2>1, <2>2 DEF LInv, ScanInv
  <2>3. CASE pc' # pc
    BY <1>1, <2>3 DEF ScanInv, EndPcs
  <2> QED
    BY <2>2, <2>3
<1>6. AgreeInv'
  BY <1>1 DEF LInv, AgreeInv, Drains, EndPcs, LoopPcs, CommitPcs, PlanPcs
<1>7. PlanInv'
  BY <1>1 DEF LInv, PlanInv, Bindable, EndPcs, LoopPcs, CommitPcs, PlanPcs
<1> QED
  BY <1>2, <1>3, <1>4, <1>5, <1>6, <1>7 DEF LInv

\* What such a step may take from the types.
LEMMA OtherTypes ==
    ASSUME LInv
    PROVE  /\ svc \in [DOMAIN Services -> {"running", "stopped", "failed"}] /\ taken \in 0 .. Len(Services) /\ bgTaken \in BOOLEAN
           /\ conn \in [Conns -> {Closed} \cup ConnType] /\ count \in [Slots -> Nat] /\ acceptors \in Acceptors
           /\ refresh \in RefreshType /\ renewals \in 0 .. MaxRenewals
           /\ how \in {"running", "clean", "error", "timeout"} /\ (pc # "exited" => how = "running")
           /\ (how \in {"clean", "timeout"} => LiveGroups = {})
           /\ \A c \in Conns : Http(c) => at[conn[c].task] \in Up
  BY DEF LInv, Typed, TypeOK, ScanInv, WorkersInv

\* The same, while the main task does nothing.
LEMMA QuietStep ==
    ASSUME LInv, UNCHANGED <<loop, groups, workers, revision, config, retired, slots>>,
           svc' \in [DOMAIN Services -> {"running", "stopped", "failed"}], UNCHANGED <<taken, bgTaken>>,
           conn' \in [Conns -> {Closed} \cup ConnType], count' \in [Slots -> Nat], acceptors' \in Acceptors,
           refresh' \in RefreshType, renewals' \in 0 .. MaxRenewals, CountInv', ServicesInv',
           \A c \in Conns : Http(c)' => at[conn'[c].task] \in Up
    PROVE  LInv'
<1>1. pc' = pc /\ how' = how /\ UNCHANGED <<plan, woken, scan>>
  BY DEF loop
<1>2. how' \in {"running", "clean", "error", "timeout"} /\ (pc' # "exited" => how' = "running")
      /\ (how' \in {"clean", "timeout"} => LiveGroups = {})
  BY <1>1, OtherTypes
<1>3. taken' \in 0 .. Len(Services) /\ bgTaken' \in BOOLEAN
  BY OtherTypes
<1> QED
  BY <1>1, <1>2, <1>3, OtherStep

LEMMA InvCloseConn == ASSUME LInv, NEW d \in Conns, CloseConn(d) PROVE LInv'
<1> USE DEF loop, shared, services, renewal, Running
<1>1. /\ conn' \in [Conns -> {Closed} \cup ConnType] /\ count' \in [Slots -> Nat] /\ CountInv'
      /\ \A c \in Conns : Http(c)' => Http(c) /\ conn'[c] = conn[c]
  BY ClosedConn DEF CloseConn
<1>2. \A c \in Conns : Http(c)' => at[conn'[c].task] \in Up
  BY <1>1, OtherTypes
<1>3. ServicesInv'
  BY OtherTypes DEF CloseConn, LInv, ServicesInv
<1>4. /\ UNCHANGED <<loop, groups, workers, revision, config, retired, slots>>
      /\ UNCHANGED <<svc, taken, bgTaken, acceptors, refresh, renewals>>
  BY DEF CloseConn
<1>5. /\ svc' \in [DOMAIN Services -> {"running", "stopped", "failed"}] /\ acceptors' \in Acceptors
      /\ refresh' \in RefreshType /\ renewals' \in 0 .. MaxRenewals
  BY <1>4, OtherTypes
<1> HIDE DEF loop, shared, services, renewal
<1> QED
  BY <1>1, <1>2, <1>3, <1>4, <1>5, QuietStep

LEMMA InvUpgrade == ASSUME LInv, NEW d \in Conns, Upgrade(d) PROVE LInv'
<1> USE DEF loop, shared, services, renewal, Running
<1> DEFINE l == conn[d].task[1][1]
           r == [kind |-> "tunnel", task |-> conn[d].task, slot |-> slots[l]]
<1>1. /\ conn[d] # Closed /\ (\E c \in Conns : conn[c] = Closed) /\ l \in DOMAIN slots /\ pc # "exited"
      /\ count' = [count EXCEPT ![slots[l]] = @ + 1] /\ conn' = [conn EXCEPT ![FreeConn] = r] /\ slots' = slots
  BY DEF Upgrade
<1>2. slots[l] \in Slots /\ conn[d].task \in Tasks
  BY <1>1 DEF LInv, Typed, TypeOK, ConnType
<1>3. r \in ConnType /\ r.kind = "tunnel" /\ r.slot = slots[l]
  BY <1>2 DEF ConnType
<1> HIDE DEF r
<1>4. /\ conn' \in [Conns -> {Closed} \cup ConnType] /\ count' \in [Slots -> Nat] /\ CountInv'
      /\ \A c \in Conns : Http(c)' => (Http(c) /\ conn'[c] = conn[c]) \/ conn'[c] = r
  BY <1>1, <1>3, OpenedConn
<1>5. \A c \in Conns : Http(c)' => at[conn'[c].task] \in Up
  BY <1>3, <1>4, OtherTypes DEF Http
<1>6. ServicesInv'
  BY <1>1, OtherTypes DEF Upgrade, LInv, ServicesInv
<1>7. /\ UNCHANGED <<loop, groups, workers, revision, config, retired, slots>>
      /\ UNCHANGED <<svc, taken, bgTaken, acceptors, refresh, renewals>>
  BY DEF Upgrade
<1>8. /\ svc' \in [DOMAIN Services -> {"running", "stopped", "failed"}] /\ acceptors' \in Acceptors
      /\ refresh' \in RefreshType /\ renewals' \in 0 .. MaxRenewals
  BY <1>7, OtherTypes
<1> HIDE DEF loop, shared, services, renewal
<1> QED
  BY <1>4, <1>5, <1>6, <1>7, <1>8, QuietStep

\* A step that leaves the connections alone.
LEMMA ConnsUntouched ==
    ASSUME LInv, UNCHANGED <<conn, count, slots>>
    PROVE  CountInv' /\ (\A c \in Conns : Http(c)' => at[conn'[c].task] \in Up) /\ Tunnels' = Tunnels
  BY DEF LInv, CountInv, WorkersInv, Has, Http, LimitHeld, Tunnels

LEMMA InvServices ==
    ASSUME LInv, NEW i \in DOMAIN Services, ServiceFails(i) \/ ServiceStops(i) \/ CancelService(i)
    PROVE  LInv'
<1> USE DEF loop, shared, renewal
<1>1. /\ svc[i] = "running" /\ (svc' = [svc EXCEPT ![i] = "failed"] \/ svc' = [svc EXCEPT ![i] = "stopped"])
      /\ UNCHANGED <<taken, bgTaken, loop, shared, count, groups, workers, conn, renewal>>
  BY DEF ServiceFails, ServiceStops, CancelService
<1>2. \A j \in DOMAIN Services : svc[j] = "stopped" => svc'[j] = "stopped"
  BY <1>1, OtherTypes
<1>3. svc' \in [DOMAIN Services -> {"running", "stopped", "failed"}]
  BY <1>1, OtherTypes
<1>4. ServicesInv'
  BY <1>1, <1>2, ConnsUntouched DEF LInv, ServicesInv
<1>5. /\ UNCHANGED <<loop, groups, workers, revision, config, retired, slots>>
      /\ UNCHANGED <<taken, bgTaken, acceptors, refresh, renewals, conn, count>>
  BY <1>1
<1>6. CountInv' /\ \A c \in Conns : Http(c)' => at[conn'[c].task] \in Up
  BY <1>5, ConnsUntouched
<1>7. /\ conn' \in [Conns -> {Closed} \cup ConnType] /\ count' \in [Slots -> Nat] /\ acceptors' \in Acceptors
      /\ refresh' \in RefreshType /\ renewals' \in 0 .. MaxRenewals
  BY <1>5, OtherTypes
<1> HIDE DEF loop, shared, renewal
<1> QED
  BY <1>3, <1>4, <1>5, <1>6, <1>7, QuietStep

LEMMA InvJoinService == LInv /\ JoinService => LInv'
<1> SUFFICES ASSUME LInv, JoinService PROVE LInv'
  OBVIOUS
<1> USE DEF shared, renewal
<1>1. /\ pc = "joinServices" /\ pc' \in {"joinServices", "joinBackground", "exited"}
      /\ UNCHANGED <<woken, plan, scan, svc, shared, count, groups, workers, conn, renewal>>
  BY DEF JoinService
<1>2. LiveGroups = {} /\ how = "running"
  BY <1>1 DEF LInv, ScanInv
<1>3. Len(Services) \in Nat /\ DOMAIN Services = 1 .. Len(Services) /\ taken \in Nat /\ taken <= Len(Services)
  BY BoundAssumption, OtherTypes
<1>4. taken' \in 0 .. Len(Services) /\ bgTaken' \in BOOLEAN /\ how' \in {"running", "error"} /\ (pc' # "exited" => how' = "running")
  <2>1. bgTaken' \in BOOLEAN
    BY OtherTypes DEF JoinService
  <2>2. how' \in {"running", "error"} /\ (pc' # "exited" => how' = "running")
    BY <1>1, <1>2 DEF JoinService
  <2>3. taken' = taken \/ (taken < Len(Services) /\ taken' = taken + 1)
    BY DEF JoinService
  <2>4. taken' \in 0 .. Len(Services)
    BY <1>3, <2>3
  <2> QED
    BY <2>1, <2>2, <2>4
<1>5. ServicesInv'
  <2>1. \A j \in DOMAIN Services : j < taken' => svc[j] = "stopped"
    BY <1>3 DEF JoinService, LInv, ServicesInv
  <2>2. pc' = "joinBackground" => \A j \in DOMAIN Services : svc[j] = "stopped"
    BY <1>1, <1>3 DEF JoinService, LInv, ServicesInv
  <2> QED
    BY <1>1, <1>4, <2>1, <2>2 DEF ServicesInv
<1> QED
  BY <1>1, <1>2, <1>4, <1>5, OtherTypes, OtherStep, ConnsUntouched DEF EndPcs

LEMMA InvServicesAborted == LInv /\ ServicesAborted => LInv'
<1> SUFFICES ASSUME LInv, ServicesAborted PROVE LInv'
  OBVIOUS
<1> USE DEF shared, renewal
<1>1. /\ pc = "abortServices" /\ pc' = "abortBackground" /\ bgTaken' = TRUE
      /\ conn' = conn \/ conn' = AbortConns(Tunnels)
      /\ UNCHANGED <<woken, plan, scan, how, svc, taken, shared, count, groups, workers, renewal>>
  BY DEF ServicesAborted
<1>2. LiveGroups = {} /\ how = "running"
  BY <1>1 DEF LInv, ScanInv
<1>3. /\ conn' \in [Conns -> {Closed} \cup ConnType] /\ CountInv'
      /\ \A c \in Conns : Http(c)' => at[conn'[c].task] \in Up
  <2>1. CASE conn' = conn
    BY <1>1, <2>1, OtherTypes, ConnsUntouched
  <2>2. CASE conn' = AbortConns(Tunnels)
    <3>1. Tunnels \in SUBSET Conns /\ \A c \in Tunnels : conn[c] # Closed
      BY DEF Tunnels
    <3>2. /\ conn' \in [Conns -> {Closed} \cup ConnType] /\ CountInv'
          /\ \A c \in Conns : Http(c)' => Http(c) /\ conn'[c] = conn[c] /\ c \notin Tunnels
      BY <1>1, <2>2, <3>1, AbortedConns
    <3> QED
      BY <3>2, OtherTypes
  <2> QED
    BY <1>1, <2>1, <2>2
<1>4. ServicesInv'
  BY <1>1, <1>2 DEF LInv, ServicesInv
<1> QED
  BY <1>1, <1>2, <1>3, <1>4, OtherTypes, OtherStep DEF EndPcs

LEMMA InvRenewal == LInv /\ Renewal => LInv'
<1> SUFFICES ASSUME LInv, Renewal PROVE LInv'
  OBVIOUS
<1> USE DEF loop, shared, services
<1>1. UNCHANGED <<loop, revision, config, retired, slots, count, groups, workers, conn, services>>
  BY DEF Renewal, RenewCertificate, RefreshBuild, RefreshWrite
<1>2. refresh \in RefreshType /\ acceptors \in Acceptors /\ config \in ConfigType /\ revision \in Revisions
      /\ renewals \in 0 .. MaxRenewals
  BY ConfigAssumption DEF LInv, Typed, TypeOK
<1>3. BuildAcceptors(config, revision) \in Acceptors
  BY <1>2, BuildAcceptorsType
<1>4. refresh' \in RefreshType
  BY <1>2, <1>3, EmptyMaps DEF Renewal, RenewCertificate, RefreshBuild, RefreshWrite, RefreshType
<1>5. acceptors' \in Acceptors /\ renewals' \in 0 .. MaxRenewals
  BY <1>2, BoundAssumption DEF Renewal, RenewCertificate, RefreshBuild, RefreshWrite, RefreshType
<1>6. ServicesInv'
  BY <1>1, ConnsUntouched DEF LInv, ServicesInv
<1>7. /\ UNCHANGED <<loop, groups, workers, revision, config, retired, slots>>
      /\ UNCHANGED <<svc, taken, bgTaken, conn, count>>
  BY <1>1
<1>8. CountInv' /\ \A c \in Conns : Http(c)' => at[conn'[c].task] \in Up
  BY <1>7, ConnsUntouched
<1>9. /\ conn' \in [Conns -> {Closed} \cup ConnType] /\ count' \in [Slots -> Nat]
      /\ svc' \in [DOMAIN Services -> {"running", "stopped", "failed"}]
  BY <1>7, OtherTypes
<1> HIDE DEF loop, shared, services
<1> QED
  BY <1>4, <1>5, <1>6, <1>7, <1>8, <1>9, QuietStep

-----------------------------------------------------------------------------
(* The theorems.                                                           *)

LEMMA InvInit == Init => LInv
<1> SUFFICES ASSUME Init PROVE LInv
  OBVIOUS
<1> DEFINE D == DOMAIN FirstConfig
<1>1. /\ FirstConfig \in Configs /\ FirstConfig \in ConfigType /\ D \subseteq Listeners
      /\ \A l \in D : FirstConfig[l] \in ListenerSpec
      /\ \A l, m \in D : l # m => FirstConfig[l].addr # FirstConfig[m].addr
  BY ConfigAssumption, ConfigTypeIs
<1>2. 0 \in Revisions /\ 0 \in Nat
  BY BoundAssumption DEF Revisions
<1>3. BuildAcceptors(FirstConfig, 0) \in Acceptors
  BY <1>1, <1>2, BuildAcceptorsType
<1>4. ActiveGroups = {<<l, 0>> : l \in D} /\ LiveGroups = {<<l, 0>> : l \in D} /\ DOMAIN active = D
  BY DEF Init, ActiveGroups, LiveGroups
<1>5. LiveGroups \subseteq Groups /\ D \X {0} = LiveGroups /\ \A g \in LiveGroups : g[1] \in D /\ g[2] = 0 /\ g = <<g[1], 0>>
  BY <1>1, <1>2, <1>4, TaskParts
<1>6. DOMAIN listener = LiveGroups /\ \A g \in LiveGroups : listener[g] = FirstConfig[g[1]]
  BY <1>5 DEF Init
<1>7. NoPlan \in PlanType /\ plan = NoPlan
  BY EmptyMaps DEF NoPlan, PlanType, Init
<1>8. refresh \in RefreshType
  BY EmptyMaps DEF Init, RefreshType
<1>9. \A t \in Tasks : at[t] = IF t[1] \in LiveGroups THEN "select" ELSE "none"
  BY <1>5 DEF Init
<1>10. DOMAIN slots = D /\ \A l \in D : slots[l] = <<l, 0>> /\ slots[l] \in Slots
  BY <1>1, <1>2, TaskParts DEF Init, Slots
<1>11. Typed
  <2>1. plan.cfg \in ConfigType /\ plan.gone \subseteq Listeners /\ plan.built \in Acceptors /\ plan.merged \in Acceptors
    BY <1>7 DEF PlanType
  <2>2. at \in [Tasks -> Positions]
    BY DEF Init, Positions
  <2>3. retired \in ConfigType /\ acceptors \in Acceptors
    BY <1>3, EmptyMaps DEF Init
  <2>4. count \in [Slots -> Nat] /\ saw \in [Tasks -> BOOLEAN] /\ conn \in [Conns -> {Closed} \cup ConnType]
        /\ svc \in [DOMAIN Services -> {"running", "stopped", "failed"}]
    BY DEF Init
  <2>5. taken \in 0 .. Len(Services) /\ renewals \in 0 .. MaxRenewals
    <3>1. Len(Services) \in Nat
      BY BoundAssumption
    <3> QED
      BY <3>1, BoundAssumption DEF Init
  <2>6. refresh.at \in {"idle", "renewed", "built"} /\ refresh.built \in Acceptors
    BY <1>8 DEF RefreshType
  <2>7. \A g \in LiveGroups : listener[g] \in ListenerSpec
    BY <1>1, <1>5, <1>6
  <2>8. /\ pc = "loop" /\ woken = FALSE /\ scan = {} /\ how = "running" /\ revision = 0 /\ config = FirstConfig
        /\ draining = {} /\ stop = {} /\ failed = {} /\ bgTaken = FALSE
    BY DEF Init
  <2> QED
    BY <1>1, <1>2, <1>4, <1>5, <1>6, <1>7, <1>8, <1>10, <2>1, <2>2, <2>3, <2>4, <2>5, <2>6, <2>7, <2>8
       DEF Typed, TypeOK, Positions
<1>12. \A c \in Conns : conn[c] = Closed
  BY DEF Init
<1>13. WorkersInv
  BY <1>9, <1>12 DEF WorkersInv, Http
<1>14. FoundInv
  BY <1>5, <1>9, <1>10 DEF FoundInv, Up, Init
<1>15. CountInv
  <2>1. \A s \in Slots : Has(s) = {} /\ count[s] = 0
    BY <1>12 DEF Has, Init
  <2>2. \A g \in Groups : HttpOf(g) = {}
    BY <1>12 DEF HttpOf
  <2>3. Cardinality({}) = 0 /\ 0 <= Limit
    BY FS_EmptySet, BoundAssumption
  <2>4. LimitHeld
    BY <2>2, <2>3 DEF LimitHeld, HttpOf
  <2> QED
    BY <1>12, <2>1, <2>3, <2>4 DEF CountInv, Http
<1>16. GroupsInv
  <2>1. NoSharedIdentity
    BY <1>1, <1>5, <1>6 DEF NoSharedIdentity
  <2>2. \A l \in DOMAIN active : active[l][1] = l
    BY DEF Init
  <2>3. stop = {} /\ draining = {} /\ pc = "loop" /\ revision = 0
    BY DEF Init
  <2> QED
    BY <1>5, <2>1, <2>2, <2>3 DEF GroupsInv
<1>17. ScanInv
  BY DEF ScanInv, Init
<1>18. AgreeInv
  <2>1. \A l \in DOMAIN active : listener[active[l]] = config[l]
    BY <1>4, <1>6 DEF Init
  <2>2. DOMAIN retired = {} /\ Drains = {}
    BY EmptyMaps DEF Init, Drains
  <2> QED
    BY <1>4, <2>1, <2>2 DEF AgreeInv, Init, CommitPcs, PlanPcs
<1>19. PlanInv /\ ServicesInv
  <2>1. \A i \in DOMAIN Services : ~(i < taken)
    BY BoundAssumption DEF Init
  <2> QED
    BY <2>1 DEF PlanInv, ServicesInv, Init, CommitPcs, PlanPcs
<1> QED
  BY <1>11, <1>13, <1>14, <1>15, <1>16, <1>17, <1>18, <1>19 DEF LInv

LEMMA InvNext == LInv /\ [Next \/ Renewal]_vars => LInv'
<1> SUFFICES ASSUME LInv, [Next \/ Renewal]_vars PROVE LInv'
  OBVIOUS
<1>1. CASE Main
  BY <1>1, InvLoopTop, InvDrainCompletion, InvPruneCheck, InvJoinActive, InvJoinDraining, InvPrepareReload,
     InvCommitRetire, InvCommitMerge, InvCommitSwap, InvCommitInstall, InvReconcile, InvInitiateShutdown,
     InvActiveJoined, InvDrainingJoined, InvJoinService, InvBackgroundEnds, InvWorkersAborted, InvServicesAborted
     DEF Main
<1>2. ASSUME NEW t \in Tasks, Worker(t) \/ CancelWorker(t) PROVE LInv'
  BY <1>2, InvWorkerLoop, InvAcquire, InvWorkerEnds DEF Worker
<1>3. CASE UNCHANGED vars
  <2>1. MainOnly /\ UNCHANGED loop
    BY <1>3 DEF vars, MainOnly
  <2>2. TypeOK' /\ plan' \in PlanType
    BY <2>1 DEF MainOnly, loop, shared, groups, workers, services, renewal, LInv, Typed, TypeOK, LiveGroups, ActiveGroups
  <2>3. ScanInv' /\ ServicesInv'
    BY <2>1 DEF MainOnly, loop, shared, groups, workers, services, renewal, LInv, ScanInv, ServicesInv, LiveGroups, ActiveGroups,
                Finished, Tunnels
  <2>4. AgreeInv' /\ PlanInv'
    BY <2>1 DEF MainOnly, loop, shared, groups, workers, services, renewal, LInv, AgreeInv, PlanInv, Bindable, Drains, LiveGroups,
                ActiveGroups
  <2> QED
    BY <2>1, <2>2, <2>3, <2>4, MainOnlyStep DEF loop
<1>4. CASE Renewal
  BY <1>4, InvRenewal
<1> QED
  BY <1>1, <1>2, <1>3, <1>4, InvTimeout, InvTakeSignal, InvCloseConn, InvUpgrade, InvServices DEF Next, Exited

\* Whatever reloads, drains, renewals and the shutdown do in any order, listeners keep
\* their identities, addresses and limits apart from one another (prepare_added_listener_bindings,
\* sync_listener_active_connections, try_acquire_connection).
THEOREM IdentitiesAreKept == RenewalSpec => []IdentitiesKept
<1>1. LInv => IdentitiesKept
  BY DEF LInv, Typed, IdentitiesKept, GroupsInv, CountInv
<1> QED
  BY <1>1, InvInit, InvNext, PTL DEF RenewalSpec

\* The expects of the accept loop and of the connections never fail: commit_prepared,
\* reconcile and prune leave every worker that is up its listener and its counter.
THEOREM ListenersAreAvailable == RenewalSpec => []ListenerAvailable
<1>1. LInv => ListenerAvailable
  <2> SUFFICES ASSUME LInv, NEW t \in Tasks,
                      at[t] \in {"select", "lookup", "retired", "found"} \/ ConnsOf(t) # {}
               PROVE  /\ t[1][1] \in DOMAIN config \cup DOMAIN retired
                      /\ t[1][1] \in DOMAIN slots
    BY DEF ListenerAvailable, LInv, WorkersInv
  <2>1. at[t] \in Up
    BY DEF ConnsOf, Http, LInv, WorkersInv, Up
  <2> QED
    BY <2>1 DEF LInv, FoundInv
<1> QED
  BY <1>1, InvInit, InvNext, PTL DEF RenewalSpec

\* A shutdown that says it was clean was, and one that timed out left no worker and no
\* connection of one (graceful_shutdown).
THEOREM ShutdownLeavesNothing == RenewalSpec => []NothingLeftBehind
<1>1. LInv => NothingLeftBehind
  <2> SUFFICES ASSUME LInv, how \in {"clean", "timeout"}
               PROVE  /\ \A t \in Tasks : at[t] \in {"none", "done"}
                      /\ \A t \in Tasks : ConnsOf(t) = {}
    BY DEF NothingLeftBehind, LInv, ServicesInv
  <2>1. \A t \in Tasks : at[t] \in {"none", "done"}
    BY DEF LInv, ScanInv, WorkersInv
  <2>2. \A t \in Tasks : ConnsOf(t) = {}
    BY <2>1 DEF LInv, WorkersInv, ConnsOf, Http, Up
  <2> QED
    BY <2>1, <2>2
<1> QED
  BY <1>1, InvInit, InvNext, PTL DEF RenewalSpec

-----------------------------------------------------------------------------
(* The acceptors.  A renewal may install acceptors built for a configuration *)
(* that a reload has replaced since, so what follows is about processes      *)
(* without managed certificates and OCSP staples.                            *)

Current(accs, cfg, rev) == \A l \in DOMAIN cfg : cfg[l].tls => l \in DOMAIN accs /\ accs[l] = rev

\* The acceptors belong to the configuration, and those a reload is about to
\* install to the one it is about to install.
AcceptorsInv ==
    /\ pc \in LoopPcs \cup PlanPcs \cup {"reconcile"} => Current(acceptors, config, revision)
    /\ pc \in {"retire", "merge"} => plan.built = BuildAcceptors(plan.cfg, revision + 1)
    /\ pc = "swap" => Current(plan.merged, plan.cfg, revision + 1)
    /\ pc = "install" => Current(plan.merged, config, revision)

LEMMA BuiltIsCurrent == \A cfg, rev : Current(BuildAcceptors(cfg, rev), cfg, rev)
  BY DEF Current, BuildAcceptors

\* A step that leaves configuration and acceptors alone and stays in the
\* signal loop, or goes to the shutdown.
LEMMA AcceptorsQuiet ==
    ASSUME AcceptorsInv, UNCHANGED <<config, revision, acceptors>>,
           \/ UNCHANGED <<pc, plan>>
           \/ pc \in LoopPcs \cup {"reconcile"} /\ pc' \in LoopPcs
           \/ pc' \in EndPcs
    PROVE  AcceptorsInv'
  BY DEF AcceptorsInv, Current, LoopPcs, PlanPcs, EndPcs, BuildAcceptors

\* A draining listener is none of the configuration: forgetting it takes no
\* acceptor away that is needed.
LEMMA AcceptorsPrune == ASSUME LInv, AcceptorsInv, NEW g \in Groups, PruneCheck(g) PROVE AcceptorsInv'
<1> USE DEF shared
<1>1. pc \in LoopPcs /\ pc' \in LoopPcs /\ g \in draining
  BY DEF PruneCheck, LInv, ScanInv, LoopPcs
<1>2. CASE UNCHANGED shared
  BY <1>1, <1>2, AcceptorsQuiet
<1>3. CASE ForgetRuntime({g})
  <2>1. acceptors' = Without(acceptors, {g[1]}) /\ UNCHANGED <<revision, config>>
    <3>1. {h[1] : h \in {g}} = {g[1]}
      OBVIOUS
    <3> QED
      BY <1>3, <3>1 DEF ForgetRuntime
  <2>2. DOMAIN config = DOMAIN active
    BY <1>1 DEF LInv, AgreeInv
  <2>3. \A l \in DOMAIN active : active[l] \in LiveGroups /\ active[l][1] = l /\ active[l] # g
    BY <1>1 DEF LInv, GroupsInv, LiveGroups, ActiveGroups
  <2>4. g[1] \notin DOMAIN config
    BY <1>1, <2>2, <2>3 DEF LInv, GroupsInv, NoSharedIdentity, LiveGroups
  <2>5. DOMAIN acceptors' = DOMAIN acceptors \ {g[1]} /\ \A l \in DOMAIN acceptors \ {g[1]} : acceptors'[l] = acceptors[l]
    BY <2>1 DEF Without
  <2>6. Current(acceptors, config, revision)
    BY <1>1 DEF AcceptorsInv
  <2>7. Current(acceptors', config', revision')
    BY <2>1, <2>4, <2>5, <2>6 DEF Current
  <2> QED
    BY <1>1, <2>7 DEF AcceptorsInv, LoopPcs
<1> QED
  BY <1>2, <1>3 DEF PruneCheck

LEMMA AcceptorsReload ==
    ASSUME LInv, AcceptorsInv,
           (\E cfg \in Configs : PrepareReload(cfg)) \/ CommitRetire \/ CommitMerge \/ CommitSwap \/ CommitInstall
    PROVE  AcceptorsInv'
<1> USE DEF shared
<1>1. ASSUME NEW cfg \in Configs, PrepareReload(cfg) PROVE AcceptorsInv'
  <2>1. UNCHANGED shared /\ pc = "reload"
    BY <1>1 DEF PrepareReload
  <2>2. CASE pc' = "loop"
    BY <2>1, <2>2, AcceptorsQuiet DEF LoopPcs
  <2>3. CASE pc' # "loop"
    <3>1. pc' = "retire" /\ plan'.built = BuildAcceptors(plan'.cfg, revision + 1)
      BY <1>1, <2>3 DEF PrepareReload
    <3>2. Current(acceptors, config, revision)
      BY <2>1 DEF AcceptorsInv, LoopPcs
    <3> QED
      BY <2>1, <3>1, <3>2 DEF AcceptorsInv
  <2> QED
    BY <2>2, <2>3
<1>2. CASE CommitRetire
  <2>1. pc = "retire" /\ pc' = "merge" /\ UNCHANGED <<plan, config, revision, acceptors>>
    BY <1>2 DEF CommitRetire
  <2> QED
    BY <2>1 DEF AcceptorsInv, PlanPcs
<1>3. CASE CommitMerge
  <2> DEFINE kept == [l \in plan.gone \cap DOMAIN acceptors |-> acceptors[l]]
             merged == Over(kept, plan.built)
  <2>1. pc = "merge" /\ pc' = "swap" /\ plan' = [plan EXCEPT !.merged = merged] /\ UNCHANGED <<config, revision, acceptors>>
    BY <1>3 DEF CommitMerge
  <2>2. plan \in PlanType
    BY DEF LInv, Typed
  <2> HIDE DEF merged
  <2>3. plan'.merged = merged /\ plan'.cfg = plan.cfg
    BY <2>1, <2>2 DEF PlanType
  <2>4. Current(plan.built, plan.cfg, revision + 1)
    BY <2>1, BuiltIsCurrent DEF AcceptorsInv
  <2>5. DOMAIN plan.cfg \cap plan.gone = {}
    BY <2>1 DEF LInv, PlanInv, CommitPcs, PlanPcs
  <2>6. DOMAIN merged = DOMAIN kept \cup DOMAIN plan.built
        /\ \A l \in DOMAIN plan.built \ DOMAIN kept : merged[l] = plan.built[l]
    BY DEF merged, Over
  <2>7. Current(merged, plan.cfg, revision + 1)
    BY <2>4, <2>5, <2>6 DEF Current
  <2>8. Current(acceptors, config, revision)
    BY <2>1 DEF AcceptorsInv, PlanPcs
  <2> QED
    BY <2>1, <2>3, <2>7, <2>8 DEF AcceptorsInv
<1>4. CASE CommitSwap
  <2>1. pc = "swap" /\ pc' = "install" /\ config' = plan.cfg /\ revision' = revision + 1 /\ plan' = plan
    BY <1>4 DEF CommitSwap
  <2>2. Current(plan.merged, plan.cfg, revision + 1)
    BY <2>1 DEF AcceptorsInv
  <2> QED
    BY <2>1, <2>2 DEF AcceptorsInv, LoopPcs, PlanPcs
<1>5. CASE CommitInstall
  <2>1. pc = "install" /\ pc' = "reconcile" /\ acceptors' = plan.merged /\ UNCHANGED <<plan, config, revision>>
    BY <1>5 DEF CommitInstall
  <2>2. Current(plan.merged, config, revision)
    BY <2>1 DEF AcceptorsInv
  <2> QED
    BY <2>1, <2>2 DEF AcceptorsInv
<1> QED
  BY <1>1, <1>2, <1>3, <1>4, <1>5

\* Every other step leaves what AcceptorsInv speaks of alone, or shuts down.
LEMMA AcceptorsNext == LInv /\ AcceptorsInv /\ [Next]_vars => AcceptorsInv'
<1> SUFFICES ASSUME LInv, AcceptorsInv, [Next]_vars PROVE AcceptorsInv'
  OBVIOUS
<1> USE DEF shared, loop
<1>1. CASE LoopTop \/ DrainCompletion \/ Restart \/ Reconcile \/ \E s \in Signals : TakeSignal(s)
  <2>1. UNCHANGED <<config, revision, acceptors>> /\ pc \in LoopPcs \cup {"reconcile"} /\ pc' \in LoopPcs
    BY <1>1 DEF LoopTop, DrainCompletion, Restart, Reconcile, TakeSignal, LoopPcs, Signals
  <2> QED
    BY <2>1, AcceptorsQuiet
<1>2. CASE \E g \in Groups : PruneCheck(g)
  BY <1>2, AcceptorsPrune
<1>3. CASE (\E cfg \in Configs : PrepareReload(cfg)) \/ CommitRetire \/ CommitMerge \/ CommitSwap \/ CommitInstall
  BY <1>3, AcceptorsReload
<1>4. CASE \/ InitiateShutdown \/ ActiveJoined \/ DrainingJoined \/ JoinService \/ BackgroundDrained \/ WorkersAborted
           \/ ServicesAborted \/ BackgroundAborted \/ Timeout \/ \E g \in Groups : JoinActive(g) \/ JoinDraining(g)
  <2>1. pc' \in EndPcs
    BY <1>4 DEF InitiateShutdown, ActiveJoined, DrainingJoined, JoinService, BackgroundDrained, WorkersAborted,
                ServicesAborted, BackgroundAborted, Timeout, JoinActive, JoinDraining, EndPcs
  <2> QED
    BY <2>1 DEF AcceptorsInv, EndPcs, LoopPcs, PlanPcs
<1>5. ASSUME NEW t \in Tasks, Worker(t) \/ CancelWorker(t) PROVE AcceptorsInv'
  <2>1. UNCHANGED <<config, revision, acceptors, pc, plan>>
    BY <1>5 DEF Worker, Accept, LookupConfig, LookupRetired, Acquire, AcceptError, SeeShutdown, Drained, TaskDone, Return,
                CancelWorker
  <2> QED
    BY <2>1, AcceptorsQuiet
<1>6. ASSUME NEW c \in Conns, CloseConn(c) \/ Upgrade(c) PROVE AcceptorsInv'
  BY <1>6, AcceptorsQuiet DEF CloseConn, Upgrade
<1>7. ASSUME NEW i \in DOMAIN Services, ServiceFails(i) \/ ServiceStops(i) \/ CancelService(i) PROVE AcceptorsInv'
  BY <1>7, AcceptorsQuiet DEF ServiceFails, ServiceStops, CancelService
<1>8. CASE UNCHANGED vars
  BY <1>8, AcceptorsQuiet DEF vars
<1> QED
  BY <1>1, <1>2, <1>3, <1>4, <1>5, <1>6, <1>7, <1>8 DEF Next, Main, Exited

\* Between signals the groups, their settings, the retired listeners and the acceptors are
\* those of the active configuration, whatever reloads overlapped with whatever drains
\* (commit_prepared, reconcile_listener_worker_groups, prune_draining_listener_groups).
THEOREM WorkersAlwaysMatch == Spec => []WorkersMatchConfig
<1>1. Init => LInv /\ AcceptorsInv
  <2> SUFFICES ASSUME Init PROVE AcceptorsInv
    BY InvInit
  <2> QED
    BY BuiltIsCurrent DEF Init, AcceptorsInv
<1>2. LInv /\ AcceptorsInv /\ [Next]_vars => (LInv /\ AcceptorsInv)'
  BY InvNext, AcceptorsNext
<1>3. LInv /\ AcceptorsInv => WorkersMatchConfig
  <2> SUFFICES ASSUME LInv, AcceptorsInv, pc = "wait" PROVE GroupsMatchConfig /\ AcceptorsCurrent
    BY DEF WorkersMatchConfig, GroupsMatchConfig, AcceptorsCurrent
  <2>1. GroupsMatchConfig
    BY DEF GroupsMatchConfig, LInv, AgreeInv, LoopPcs, ActiveGroups, Drains
  <2>2. AcceptorsCurrent
    BY DEF AcceptorsCurrent, AcceptorsInv, LoopPcs, Current, TlsAcceptor
  <2> QED
    BY <2>1, <2>2
<1> QED
  BY <1>1, <1>2, <1>3, PTL DEF Spec
=============================================================================
