---------------------------- MODULE SnapshotBus ----------------------------
(***************************************************************************)
(* Change notification for the admin socket: state/snapshot_bus.rs, the    *)
(* recorders that all follow one pattern (change the data, take a number,  *)
(* store it for each component and target, notify), and an admin client    *)
(* that takes a snapshot and then repeats wait, delta, fetch.              *)
(*                                                                         *)
(* A slot is a component (traffic) or the version map of its targets       *)
(* (route), with what a client can fetch for it; versions are relaxed      *)
(* atomics and maps under their own locks, so every store is a step.  The  *)
(* second part is RollingCounter (counters/rolling.rs).                    *)
(***************************************************************************)
EXTENDS Integers, Sequences, FiniteSets, SequencesExt

CONSTANTS
  Recorders,    \* concurrent recorders
  Mixes,        \* which recorders run together: lists of slots, and the bound on the changes
  Admins,       \* admin clients
  MaxWindow,    \* MAX_RECENT_WINDOW_SECS
  MaxSecond,    \* bound on the clock of the rolling counter
  MaxIncrements \* bound on its increments

ASSUME BusAssumption ==
  /\ MaxWindow \in Nat \ {0} /\ MaxSecond \in Nat /\ MaxIncrements \in Nat
  /\ \A x \in Mixes : x.max \in Nat /\ x.lists \subseteq Seq(STRING) \ {<<>>}

VARIABLES
  mix,         \* the recorders of this behaviour
  version,     \* snapshot_version
  slots,       \* slots[s]: the version stored for s
  data,        \* data[s]: how often what s stands for has changed
  recorder,    \* recorder[r]: what r is doing
  admin,       \* admin[a]: where the client is, its version and what it has seen
  rolling      \* the rolling counter, its clock, and the increments it was given

busVars == <<mix, version, slots, data, recorder, admin>>

(***************************************************************************)
(* What the recorders mark, in the order of their stores: the components,  *)
(* then the version map of the listeners, routes, upstreams or zones.      *)
(***************************************************************************)
RequestMarks == <<"counters", "traffic", "route">>
RouteMarks == <<"traffic", "route">>
ConnectionMarks == <<"status", "counters", "traffic", "listener">>
Http3Marks == <<"status", "traffic", "listener">>
UpstreamMarks == <<"upstreams", "upstream">>
PeerHealthMarks == <<"peer_health", "peer">>
CacheMarks == <<"status", "cache", "zone">>

\* The retained connection slots, and the guards that give them back.
GuardMarks == Http3Marks

Slots == UNION {Range(l) : l \in mix.lists}
NoMix == [lists |-> {}, max |-> 0]
Resting == [pc |-> "idle"]
NoRolling == [on |-> FALSE, buckets |-> <<>>, now |-> 0, given |-> <<>>]

BusInit ==
  /\ mix \in Mixes
  /\ version = 0 /\ slots = [s \in Slots |-> 0] /\ data = [s \in Slots |-> 0]
  /\ recorder = [r \in Recorders |-> Resting]
  /\ admin = [a \in Admins |-> [pc |-> "snapshot", since |-> 0, seen |-> [s \in Slots |-> 0], changed |-> {},
                                current |-> 0, exposed |-> FALSE]]

BusOff == mix = NoMix /\ version = 0 /\ slots = <<>> /\ data = <<>> /\ recorder = <<>> /\ admin = <<>>

(***************************************************************************)
(* Recorders                                                               *)
(***************************************************************************)
\* The counters are changed, then the number is taken.
ChangeData(r, list) ==
  /\ recorder[r].pc = "idle" /\ version + Cardinality({x \in DOMAIN recorder : recorder[x].pc = "changed"}) < mix.max
  /\ data' = [s \in Slots |-> IF s \in Range(list) THEN data[s] + 1 ELSE data[s]]
  /\ recorder' = [recorder EXCEPT ![r] = [pc |-> "changed", list |-> list, mine |-> 0]]
  /\ UNCHANGED <<mix, version, slots, admin>>

\* mark_snapshot_changed_components: fetch_add.
TakeVersion(r) ==
  /\ recorder[r].pc = "changed"
  /\ version' = version + 1
  /\ recorder' = [recorder EXCEPT ![r].pc = "marking", ![r].mine = version + 1]
  /\ UNCHANGED <<mix, slots, data, admin>>

\* A store overwrites, also a later version.
Stored(s, v) == [slots EXCEPT ![s] = v]

\* The stores, the targets' last.
StoreVersion(r) ==
  /\ recorder[r].pc = "marking" /\ recorder[r].list # <<>>
  /\ slots' = Stored(Head(recorder[r].list), recorder[r].mine)
  /\ recorder' = [recorder EXCEPT ![r].list = Tail(@)]
  /\ UNCHANGED <<mix, version, data, admin>>

Woken(pc) == CASE pc = "registered" -> "notified" [] pc \in {"checked", "waiting"} -> "wait" [] OTHER -> pc

\* Mutant of Notify: only a wait that is being polled is woken.
NotifyPolled(r) ==
  /\ recorder[r].pc = "marking" /\ recorder[r].list = <<>>
  /\ recorder' = [recorder EXCEPT ![r] = Resting]
  /\ admin' = [a \in Admins |-> IF admin[a].pc = "waiting" THEN [admin[a] EXCEPT !.pc = "wait"] ELSE admin[a]]
  /\ UNCHANGED <<mix, version, slots, data>>

\* notify_waiters reaches every notified(), polled or not.
Notify(r) ==
  /\ recorder[r].pc = "marking" /\ recorder[r].list = <<>>
  /\ recorder' = [recorder EXCEPT ![r] = Resting]
  /\ admin' = [a \in Admins |-> [admin[a] EXCEPT !.pc = Woken(@)]]
  /\ UNCHANGED <<mix, version, slots, data>>

(***************************************************************************)
(* The admin client                                                        *)
(***************************************************************************)
To(a, pc) == admin' = [admin EXCEPT ![a].pc = pc]
KeepRecorders == UNCHANGED <<mix, version, slots, data, recorder>>

\* Who has a number up to v that it has not stored everywhere yet.
MarkingUpTo(v) == \E r \in DOMAIN recorder :
  recorder[r].pc = "marking" /\ recorder[r].list # <<>> /\ recorder[r].mine <= v

\* GetSnapshot collects the modules first and reads the version afterwards.
FetchSnapshot(a) ==
  /\ admin[a].pc = "snapshot"
  /\ admin' = [admin EXCEPT ![a].pc = "snapshotVersion", ![a].seen = data]
  /\ KeepRecorders

\* exposed: something changed while the snapshot was taken.
FetchVersion(a) ==
  /\ admin[a].pc = "snapshotVersion"
  /\ admin' = [admin EXCEPT ![a].pc = "wait", ![a].since = version,
                            ![a].exposed = MarkingUpTo(version) \/ data # admin[a].seen]
  /\ KeepRecorders

\* wait_for_snapshot_change: notified() first, then the check.
Register(a) ==
  /\ admin[a].pc = "wait"
  /\ To(a, "registered")
  /\ KeepRecorders

\* A notification that came in between is found by the await.
CheckVersion(a) ==
  /\ admin[a].pc \in {"registered", "notified"}
  /\ To(a, IF version > admin[a].since THEN "delta"
           ELSE IF admin[a].pc = "notified" THEN "wait" ELSE "checked")
  /\ KeepRecorders

Await(a) == admin[a].pc = "checked" /\ To(a, "waiting") /\ KeepRecorders

\* The timeout passes; the client asks for a delta all the same.
WaitTimesOut(a) ==
  /\ admin[a].pc = "waiting"
  /\ To(a, "delta")
  /\ KeepRecorders

\* snapshot_delta_since reads the current version first.
DeltaVersion(a) ==
  /\ admin[a].pc = "delta"
  /\ admin' = [admin EXCEPT ![a].pc = "slots", ![a].current = version]
  /\ KeepRecorders

\* The components and targets with a later version (changed_traffic_targets_since).
ChangedSince(v) == {s \in Slots : slots[s] > v}

\* Mutant of ReadSlots: the version is read again after the components.
ReadSlotsThenVersion(a) ==
  /\ admin[a].pc = "slots"
  /\ admin' = [admin EXCEPT ![a].pc = "fetch", ![a].changed = ChangedSince(admin[a].since),
                            ![a].current = version, ![a].exposed = @ \/ MarkingUpTo(admin[a].current)]
  /\ KeepRecorders

\* Then the versions of the components and of the targets; then the client fetches what
\* changed, and goes on from the version it was told.
ReadSlots(a) ==
  /\ admin[a].pc = "slots"
  /\ admin' = [admin EXCEPT ![a].pc = "fetch", ![a].changed = ChangedSince(admin[a].since),
                            ![a].exposed = @ \/ MarkingUpTo(admin[a].current)]
  /\ KeepRecorders

FetchChanged(a) ==
  /\ admin[a].pc = "fetch"
  /\ admin' = [admin EXCEPT ![a].pc = "wait", ![a].changed = {}, ![a].since = admin[a].current,
                            ![a].seen = [s \in Slots |-> IF s \in admin[a].changed THEN data[s] ELSE @[s]]]
  /\ KeepRecorders

(***************************************************************************)
(* RollingCounter                                                          *)
(***************************************************************************)
Cutoff(now, window) == IF now > window - 1 THEN now - (window - 1) ELSE 0

\* The first bucket that is not before the second, or the end.
FirstFrom(buckets, second) ==
  CHOOSE i \in 1 .. Len(buckets) + 1 :
    /\ \A j \in 1 .. i - 1 : buckets[j][1] < second
    /\ i <= Len(buckets) => buckets[i][1] >= second

\* Mutant of Trim: the oldest second of the window is dropped as well.
TrimOneMore(buckets, now) == SubSeq(buckets, FirstFrom(buckets, Cutoff(now, MaxWindow) + 1), Len(buckets))

\* trim_old_buckets
Trim(buckets, now) == SubSeq(buckets, FirstFrom(buckets, Cutoff(now, MaxWindow)), Len(buckets))

\* increment_at: a second before that of the last bucket counts for the last bucket.
IncrementAt(buckets, second) ==
  LET kept == Trim(buckets, second)
  IN  IF kept # <<>> /\ Last(kept)[1] >= second
      THEN Append(Front(kept), <<Last(kept)[1], Last(kept)[2] + 1>>)
      ELSE Append(kept, <<second, 1>>)

SumRecent(buckets, now, window) ==
  LET kept == Trim(buckets, now)
      sum[i \in 0 .. Len(kept)] ==
        IF i = 0 THEN 0
        ELSE sum[i - 1] + (IF kept[i][1] >= Cutoff(now, window) THEN kept[i][2] ELSE 0)
  IN  sum[Len(kept)]

\* The second was read before the lock was taken: it may be one that has passed.
IncrementNow ==
  /\ rolling.on /\ Len(rolling.given) < MaxIncrements
  /\ \E late \in {0, 1} :
       /\ late <= rolling.now
       /\ rolling' = [rolling EXCEPT !.buckets = IncrementAt(@, rolling.now - late), !.given = Append(@, rolling.now - late)]

SecondPasses ==
  /\ rolling.on /\ rolling.now < MaxSecond
  /\ rolling' = [rolling EXCEPT !.now = @ + 1]

BusNext ==
  \/ \E r \in DOMAIN recorder :
       \/ \E list \in mix.lists : ChangeData(r, list)
       \/ TakeVersion(r) \/ StoreVersion(r) \/ Notify(r)
  \/ \E a \in DOMAIN admin :
       \/ FetchSnapshot(a) \/ FetchVersion(a) \/ Register(a) \/ CheckVersion(a) \/ Await(a)
       \/ WaitTimesOut(a) \/ DeltaVersion(a) \/ ReadSlots(a) \/ FetchChanged(a)

BusSpec == BusInit /\ [][BusNext]_busVars

RollingInit == rolling = [NoRolling EXCEPT !.on = TRUE]
RollingNext == IncrementNow \/ SecondPasses
RollingSpec == RollingInit /\ [][RollingNext]_rolling

-----------------------------------------------------------------------------
\* A change of s that will still be announced with a number above v.
Announced(s, v) ==
  \/ slots[s] > v
  \/ \E r \in DOMAIN recorder : /\ recorder[r].pc # "idle" /\ s \in Range(recorder[r].list)
                                /\ recorder[r].pc = "changed" \/ recorder[r].mine > v

\* A client whose reads fell between no recorder's number and its stores learns of every
\* change, however waits, deltas and recorders interleave: what it has not seen is being
\* announced under a version above the one it asks from (snapshot_delta_since,
\* mark_snapshot_changed_components).
DeltasMissNothing ==
  \A a \in DOMAIN admin : admin[a].pc \notin {"snapshot", "snapshotVersion"} /\ ~admin[a].exposed =>
    \A s \in Slots : data[s] # admin[a].seen[s] =>
      s \in admin[a].changed \/ Announced(s, IF admin[a].pc = "fetch" THEN admin[a].current ELSE admin[a].since)

\* A client that sleeps although there is a newer version is about to be woken: no
\* notification is lost between its check and its sleep (wait_for_snapshot_change).
NoWaiterForgotten ==
  \A a \in DOMAIN admin : admin[a].pc \in {"checked", "waiting"} /\ version > admin[a].since =>
    \E r \in DOMAIN recorder : recorder[r].pc = "marking" /\ recorder[r].mine > admin[a].since

\* The recent count of every window is the number of increments of its seconds, an
\* increment that comes late being counted with the latest second before it.
RecentCountsExact ==
  rolling.on => \A window \in 1 .. MaxWindow :
    SumRecent(rolling.buckets, rolling.now, window) =
      Cardinality({i \in DOMAIN rolling.given :
        \E j \in 1 .. i : rolling.given[j] >= Cutoff(rolling.now, window)})

\* A client that repeats "wait, then ask what changed" learns of everything: it is woken
\* for every newer version, and what it then asks for misses nothing.
ChangesReachClients == NoWaiterForgotten /\ DeltasMissNothing
=============================================================================
