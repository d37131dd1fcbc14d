----------------------------- MODULE CacheStore -----------------------------
(***************************************************************************)
(* One zone of the cache inside one process: the index, the files on disk  *)
(* and the tasks that change them (stores, 304 refreshes, purges, inactive *)
(* cleanup, lookups that drop a bad entry, invalidations).                 *)
(*                                                                         *)
(* Every change of the index is made under shared_index_sync_lock and the  *)
(* index lock and is one step.  File operations happen outside of both,    *)
(* under the I/O lock of the file's hash, and interleave.                  *)
(*                                                                         *)
(* All the keys are variants of one base key.  A hash names the two files  *)
(* of an entry; it is the hash of the key the entry was first stored under *)
(* and is named by that key.  Versions tell apart the bodies stored under  *)
(* one key.                                                                *)
(***************************************************************************)
EXTENDS Naturals, FiniteSets, FiniteSetsExt

CONSTANTS
    Keys,         \* cache keys
    Tasks,        \* concurrent tasks
    Dims,         \* sets of vary dimension names
    BodySize,     \* BodySize[k]: body_size_bytes of responses for k
    MaxSize,      \* zone.config.max_size_bytes
    Inactive,     \* zone.config.inactive
    Settings,     \* what surrounds the zone: one is chosen for each behaviour
    MaxTime,      \* bound on the clock
    NoEntry, NoHash, NoTask

SettingType ==
    [refresh : BOOLEAN,      \* upstreams answer 304 to revalidations
     no_cache : BOOLEAN,     \* some of them for a status in a policy's no_cache
     invalidate : BOOLEAN,   \* the operator adds invalidation rules
     io_fails : BOOLEAN,     \* file operations may fail
     concurrency : Nat,      \* bound on the tasks under way
     versions : Nat,         \* bound on the number of bodies stored
     dims : SUBSET Dims]

Times == 0 .. MaxTime
Versions == Nat  \* 0: no such file

\* CacheIndexEntry.  A hit-for-pass entry has no files and no bytes.
Entries == [kind : {"response", "pass"}, hash : Keys \cup {NoHash}, dims : Dims,
            stored_at : Times, last_access : Times, version : Versions]

ASSUME CacheStoreAssumption ==
    /\ IsFiniteSet(Keys) /\ Keys # {}
    /\ BodySize \in [Keys -> Nat]
    /\ MaxSize \in Nat
    /\ \A k \in Keys : BodySize[k] <= MaxSize  \* max_entry_bytes <= max_size_bytes
    /\ Inactive \in Nat /\ MaxTime \in Nat
    /\ Settings \subseteq SettingType
    /\ NoHash \notin Keys /\ NoEntry \notin Entries /\ NoTask \notin Tasks

\* What a task is doing, for which key, on behalf of which entry it saw.
Pcs == {"idle", "lock_store", "commit", "index_store", "store_head", "lock_refresh",
        "refresh", "refresh_head", "unlock", "lock_drop", "drop", "drop_files",
        "unstorable", "bare_files", "forget", "sweep", "check", "delete"}
TaskStates == [pc : Pcs, key : Keys, seen : Entries \cup {NoEntry},
               seenKey : Keys, at : Times, version : Versions,
               hash : Keys, pending : SUBSET Keys, gone : SUBSET Keys]

VARIABLES
    setting,       \* the member of Settings this behaviour runs in
    entries, variants, scheduled, current_size_bytes, hash_ref_counts, \* CacheIndex
    invalidations, \* creation times of the "all" rules
    hot,           \* hot_entries: last_access_unix_ms, 0 when absent
    body, metadata,\* the version in the files of each hash
    io_locks,      \* the task that holds the I/O lock of each hash
    tasks,
    clock,
    stored,        \* versions handed out so far
    strays         \* history: hashes whose entry was evicted by its own store

index == <<entries, variants, scheduled, current_size_bytes, hash_ref_counts>>
files == <<body, metadata>>
history == <<stored, strays>>
vars == <<setting, index, invalidations, hot, files, io_locks, tasks, clock, history>>

TypeOK ==
    /\ setting \in Settings
    /\ entries \in [Keys -> Entries \cup {NoEntry}]
    /\ variants \subseteq Keys
    /\ scheduled \subseteq Keys
    /\ current_size_bytes \in 0 .. MaxSize
    /\ hash_ref_counts \in [Keys -> 0 .. Cardinality(Keys)]
    /\ invalidations \subseteq Times
    /\ hot \in [Keys -> Times]
    /\ body \in [Keys -> Versions]
    /\ metadata \in [Keys -> Versions]
    /\ io_locks \in [Keys -> Tasks \cup {NoTask}]
    /\ tasks \in [Tasks -> TaskStates]
    /\ clock \in Times
    /\ stored \in Versions
    /\ strays \subseteq Keys

IdleTask == [pc |-> "idle", key |-> CHOOSE k \in Keys : TRUE, seen |-> NoEntry,
             seenKey |-> CHOOSE k \in Keys : TRUE, at |-> 0, version |-> 0,
             hash |-> CHOOSE k \in Keys : TRUE, pending |-> {}, gone |-> {}]

Init ==
    /\ setting \in Settings
    /\ entries = [k \in Keys |-> NoEntry]
    /\ variants = {}
    /\ scheduled = {}
    /\ current_size_bytes = 0
    /\ hash_ref_counts = [k \in Keys |-> 0]
    /\ invalidations = {}
    /\ hot = [k \in Keys |-> 0]
    /\ body = [k \in Keys |-> 0]
    /\ metadata = [k \in Keys |-> 0]
    /\ io_locks = [k \in Keys |-> NoTask]
    /\ tasks = [t \in Tasks |-> IdleTask]
    /\ clock = 0
    /\ stored = 0
    /\ strays = {}

-----------------------------------------------------------------------------
(* The index as a value: insert_entry and remove_entry with the accounting *)
(* their callers add.                                                      *)

TheIndex == [entries |-> entries, variants |-> variants, scheduled |-> scheduled,
             size |-> current_size_bytes, refs |-> hash_ref_counts]

SetIndex(idx) ==
    /\ entries' = idx.entries
    /\ variants' = idx.variants
    /\ scheduled' = idx.scheduled
    /\ current_size_bytes' = idx.size
    /\ hash_ref_counts' = idx.refs

Live(idx) == {k \in Keys : idx.entries[k] # NoEntry}

Bytes(k, e) == IF e.kind = "response" THEN BodySize[IF e.hash = NoHash THEN k ELSE e.hash]
               ELSE 0

\* The bytes of the entries of some keys, counted one by one.
SizeOf(idx, ks) ==
    Cardinality({b \in ks \X (1 .. MaxSize) : b[2] <= Bytes(b[1], idx.entries[b[1]])})

\* increment_hash_ref; a hit-for-pass entry has no hash.
Referenced(refs, h) == IF h = NoHash THEN refs ELSE [refs EXCEPT ![h] = @ + 1]

\* decrement_hash_ref, for each entry of ks.
Dereferenced(idx, ks) ==
    [h \in Keys |-> LET n == Cardinality({k \in ks : idx.entries[k].hash = h})
                    IN  IF idx.refs[h] > n THEN idx.refs[h] - n ELSE 0]

\* remove_entry of every key that has an entry, in any order.
RemoveEntries(idx, ks) ==
    LET gone == ks \cap Live(idx) IN
    [entries |-> [k \in Keys |-> IF k \in gone THEN NoEntry ELSE idx.entries[k]],
     variants |-> idx.variants \ gone,
     scheduled |-> idx.scheduled \ gone,
     size |-> idx.size - SizeOf(idx, gone),
     refs |-> Dereferenced(idx, gone)]

RemoveEntry(idx, k) == RemoveEntries(idx, {k})

\* Put(idx, k, e) adds an entry to what idx accounts for.
Put(idx, k, e) ==
    [entries |-> [idx.entries EXCEPT ![k] = e],
     variants |-> idx.variants \cup {k},
     scheduled |-> idx.scheduled \cup {k},
     size |-> idx.size + Bytes(k, e),
     refs |-> Referenced(idx.refs, e.hash)]

\* Mutant: the entry that is replaced stays accounted for.
InsertOverEntry(idx, k, e) == Put(idx, k, e)

\* insert_entry gives back the reference, and its callers the bytes, of the
\* entry it replaces.
InsertEntry(idx, k, e) == Put(RemoveEntry(idx, k), k, e)

\* stable_eq: everything but the access time and what is not in the index.
StableEq(a, b) ==
    /\ a # NoEntry
    /\ b # NoEntry
    /\ a.kind = b.kind
    /\ a.hash = b.hash
    /\ a.dims = b.dims
    /\ a.stored_at = b.stored_at

EffectiveLastAccess(idx, k) == Max({hot[k], idx.entries[k].last_access})

\* Mutant: nothing is evicted.
EvictNothing(idx) == {{}}

\* eviction_candidates.  The schedule is popped oldest first and an entry
\* accessed since it was scheduled goes back with its newer time, so the
\* entries leave in the order of their effective last access until the rest
\* fits; equal times leave in either order.
EvictionCandidates(idx) ==
    LET can == idx.scheduled \cap Live(idx)
        age(k) == EffectiveLastAccess(idx, k)
        left(out) == idx.size - SizeOf(idx, out)
    IN {out \in SUBSET can :
          /\ left(out) <= MaxSize \/ out = can
          /\ \A k \in out, j \in can \ out : age(k) <= age(j)
          /\ \/ out = {}
             \/ \E last \in out : /\ \A k \in out : age(k) <= age(last)
                                  /\ left(out \ {last}) > MaxSize}

\* Mutant: variants of other dimensions stay.
KeepIncompatible(idx, k, e) == {}

\* variant_keys_with_different_dimensions.
Incompatible(idx, k, e) ==
    {j \in (idx.variants \cap Live(idx)) \ {k} : idx.entries[j].dims # e.dims}

Hashes(idx, ks) == {idx.entries[j].hash : j \in ks} \ {NoHash}

\* update_index_after_store: the new index, what it drops, what it leaves to
\* be deleted from disk and the keys whose hot state goes.
StoreOutcomes(k, e, seenKey, seen) ==
    LET idx0 == TheIndex
        replaced == IF StableEq(idx0.entries[seenKey], seen) THEN {seenKey} ELSE {}
        idx1 == RemoveEntries(idx0, replaced)
        odd == Incompatible(idx1, k, e)
        idx2 == RemoveEntries(idx1, odd)
        old == {k} \cap Live(idx2)
        idx3 == InsertEntry(idx2, k, e)
    IN {[idx |-> RemoveEntries(idx3, out),
         pending |-> (Hashes(idx0, replaced) \cup Hashes(idx1, odd)
                        \cup Hashes(idx2, old) \cup Hashes(idx3, out)) \ {e.hash},
         gone |-> replaced \cup odd \cup old \cup out] :
           out \in EvictionCandidates(idx3)}

ForgetHot(ks) == [k \in Keys |-> IF k \in ks THEN 0 ELSE hot[k]]

HashIsReferenced(h) == hash_ref_counts[h] > 0

-----------------------------------------------------------------------------
(* Tasks.                                                                  *)

Set(t, state) == tasks' = [tasks EXCEPT ![t] = state]
Goto(t, pc) == Set(t, [tasks[t] EXCEPT !.pc = pc])

\* The sweep that follows an index change: delete what was dropped.
Sweep(t, pending) ==
    Set(t, IF pending = {} THEN IdleTask
           ELSE [IdleTask EXCEPT !.pc = "sweep", !.pending = pending])

LockIo(t, h, pc) ==
    /\ io_locks[h] = NoTask
    /\ io_locks' = [io_locks EXCEPT ![h] = t]
    /\ Goto(t, pc)
    /\ UNCHANGED <<index, invalidations, hot, files, clock, history>>

\* cached_entry: what a lookup leaves for the answer to its request.
CachedEntry(k) ==
    IF entries[k] # NoEntry /\ entries[k].kind = "response" THEN entries[k] ELSE NoEntry

\* The response to a request whose lookup found nothing fresh.  It belongs
\* under the key its Vary header asks for and is written to the files of the
\* entry that the lookup saw, if that had the same key.
BeginStore(t) ==
    /\ tasks[t].pc = "idle"
    /\ stored < setting.versions
    /\ stored' = stored + 1
    /\ \E k, old \in Keys :
         LET seen == CachedEntry(old)
         IN Set(t, [IdleTask EXCEPT !.pc = "lock_store", !.key = k, !.seenKey = old,
                                    !.seen = seen, !.at = clock, !.version = stored + 1,
                                    !.hash = IF seen # NoEntry /\ old = k THEN seen.hash ELSE k])
    /\ UNCHANGED <<index, invalidations, hot, files, io_locks, clock, strays>>

LockStore(t) ==
    /\ tasks[t].pc = "lock_store"
    /\ LockIo(t, tasks[t].hash, "commit")

\* Mutant: only the body is renamed into place.
CommitBodyOnly(t) ==
    /\ tasks[t].pc = "commit"
    /\ body' = [body EXCEPT ![tasks[t].hash] = tasks[t].version]
    /\ Goto(t, "index_store")
    /\ UNCHANGED <<index, invalidations, hot, metadata, io_locks, clock, history>>

\* commit_cache_entry_temp_body: both files are renamed into place; a failure
\* of the first rename changes nothing, of the second removes both.
Commit(t) ==
    LET h == tasks[t].hash IN
    /\ tasks[t].pc = "commit"
    /\ \/ /\ body' = [body EXCEPT ![h] = tasks[t].version]
          /\ metadata' = [metadata EXCEPT ![h] = tasks[t].version]
          /\ Goto(t, "index_store")
       \/ /\ setting.io_fails
          /\ \/ UNCHANGED files
             \/ /\ body' = [body EXCEPT ![h] = 0]
                /\ metadata' = [metadata EXCEPT ![h] = 0]
          /\ Goto(t, "unlock")
    /\ UNCHANGED <<index, invalidations, hot, io_locks, clock, history>>

\* The index is updated, still under the I/O lock.
StoreEntry(t, k, e, seen, next) ==
    \E o \in StoreOutcomes(k, e, tasks[t].seenKey, seen) :
        /\ SetIndex(o.idx)
        /\ strays' = IF o.idx.entries[k] = e THEN strays \ {e.hash} ELSE strays \cup {e.hash}
        /\ Set(t, [tasks[t] EXCEPT !.pc = next, !.key = k, !.hash = e.hash, !.at = e.last_access,
                                   !.pending = o.pending, !.gone = o.gone])

IndexStore(t) ==
    /\ tasks[t].pc = "index_store"
    /\ \E d \in setting.dims :
         StoreEntry(t, tasks[t].key,
                    [kind |-> "response", hash |-> tasks[t].hash, dims |-> d,
                     stored_at |-> tasks[t].at, last_access |-> tasks[t].at,
                     version |-> tasks[t].version], tasks[t].seen, "store_head")
    /\ UNCHANGED <<invalidations, hot, files, io_locks, clock, stored>>

\* The index lock is free again: remove_hot_entry for what left the index,
\* then store_prepared_response_head, if the key still leads to these files.
StoreResponseHead(t) ==
    LET k == tasks[t].key
        left == ForgetHot(tasks[t].gone)
        current == entries[k] # NoEntry /\ entries[k].hash = tasks[t].hash
    IN hot' = IF current /\ left[k] < tasks[t].at THEN [left EXCEPT ![k] = tasks[t].at] ELSE left

StoreHead(t) ==
    /\ tasks[t].pc = "store_head"
    /\ StoreResponseHead(t)
    /\ Goto(t, "unlock")
    /\ UNCHANGED <<index, invalidations, files, io_locks, clock, history>>

Unlock(t) ==
    /\ tasks[t].pc = "unlock"
    /\ io_locks' = [h \in Keys |-> IF io_locks[h] = t THEN NoTask ELSE io_locks[h]]
    /\ Sweep(t, tasks[t].pending)
    /\ UNCHANGED <<index, invalidations, hot, files, clock, history>>

\* The hot state of what left the index goes when the index lock is free
\* again, and then the files.
ForgetGone(t) ==
    /\ tasks[t].pc = "forget"
    /\ hot' = ForgetHot(tasks[t].gone)
    /\ Sweep(t, tasks[t].pending)
    /\ UNCHANGED <<index, invalidations, files, io_locks, clock, history>>

Forget(t, ks, hashes) ==
    Set(t, [IdleTask EXCEPT !.pc = "forget", !.pending = hashes, !.gone = ks])

\* When the answer may have come: some time after the lookup.
Arrivals(t) == {now \in Times : tasks[t].at <= now /\ now <= clock}

\* remember_hit_for_pass and its streaming twin: the response, or what a 304
\* left of it, may not be stored or is too large.  No file, no I/O lock; the
\* entry that the lookup saw goes, also from under another key.
RememberHitForPass(t) ==
    /\ tasks[t].pc \in {"lock_store", "unstorable"}
    /\ \E d \in setting.dims, now \in Arrivals(t) :
         \E o \in StoreOutcomes(tasks[t].key,
                               [kind |-> "pass", hash |-> NoHash, dims |-> d,
                                stored_at |-> now, last_access |-> now, version |-> 0],
                               tasks[t].seenKey, tasks[t].seen) :
           /\ SetIndex(o.idx)
           /\ Forget(t, o.gone, o.pending)
    /\ UNCHANGED <<invalidations, hot, files, io_locks, clock, history>>

\* purge_zone_entries.
Purge(t) ==
    /\ tasks[t].pc = "idle"
    /\ \E ks \in SUBSET Live(TheIndex) \ {{}} :
         /\ SetIndex(RemoveEntries(TheIndex, ks))
         /\ Forget(t, ks, Hashes(TheIndex, ks))
    /\ UNCHANGED <<invalidations, hot, files, io_locks, clock, history>>

\* cleanup_inactive_entries_in_zone, one batch.
CleanupInactive(t) ==
    LET idle == {k \in scheduled \cap Live(TheIndex) :
                   clock > EffectiveLastAccess(TheIndex, k) + Inactive} IN
    /\ tasks[t].pc = "idle"
    /\ idle # {}
    /\ SetIndex(RemoveEntries(TheIndex, idle))
    /\ Forget(t, idle, Hashes(TheIndex, idle))
    /\ UNCHANGED <<invalidations, hot, files, io_locks, clock, history>>

\* remove_cache_files_if_unreferenced for one of the pending hashes.
SweepLock(t) ==
    /\ tasks[t].pc = "sweep"
    /\ \E h \in tasks[t].pending :
         /\ io_locks[h] = NoTask
         /\ io_locks' = [io_locks EXCEPT ![h] = t]
         /\ Set(t, [tasks[t] EXCEPT !.pc = "check", !.hash = h, !.pending = @ \ {h}])
    /\ UNCHANGED <<index, invalidations, hot, files, clock, history>>

\* Mutant: the files go although the hash is referenced again.
SweepUnchecked(t) ==
    /\ tasks[t].pc = "check"
    /\ Goto(t, "delete")
    /\ UNCHANGED <<index, invalidations, hot, files, io_locks, clock, history>>

SweepCheck(t) ==
    /\ tasks[t].pc = "check"
    /\ Goto(t, IF HashIsReferenced(tasks[t].hash) THEN "unlock" ELSE "delete")
    /\ UNCHANGED <<index, invalidations, hot, files, io_locks, clock, history>>

RemoveCacheFiles(h) ==
    /\ body' = [body EXCEPT ![h] = 0]
    /\ metadata' = [metadata EXCEPT ![h] = 0]

SweepDelete(t) ==
    /\ tasks[t].pc = "delete"
    /\ RemoveCacheFiles(tasks[t].hash)
    /\ Goto(t, "unlock")
    /\ UNCHANGED <<index, invalidations, hot, io_locks, clock, history>>

-----------------------------------------------------------------------------
(* Lookups.                                                                *)

\* entry_is_logically_invalid.
LogicallyInvalid(e) == \E created_at \in invalidations : e.stored_at < created_at

Servable(k) == /\ entries[k] # NoEntry
               /\ entries[k].kind = "response"
               /\ ~LogicallyInvalid(entries[k])

\* A fresh hit is recorded, and from time to time written to the index.
Access(k) ==
    /\ Servable(k)
    /\ hot[k] < clock
    /\ hot' = [hot EXCEPT ![k] = clock]
    /\ entries' \in {entries, [entries EXCEPT ![k].last_access = clock]}
    /\ UNCHANGED <<variants, scheduled, current_size_bytes, hash_ref_counts,
                   invalidations, files, io_locks, tasks, clock, history>>

\* The lookup finds an entry that is invalid, dead or unreadable.
BeginDrop(t) ==
    /\ tasks[t].pc = "idle"
    /\ \E k \in Live(TheIndex) :
         /\ \/ LogicallyInvalid(entries[k])
            \/ clock > entries[k].stored_at
            \/ entries[k].hash # NoHash /\ body[entries[k].hash] = 0
         /\ Set(t, [IdleTask EXCEPT !.pc = "lock_drop", !.key = k, !.seen = entries[k],
                    !.hash = IF entries[k].hash = NoHash THEN k ELSE entries[k].hash])
    /\ UNCHANGED <<index, invalidations, hot, files, io_locks, clock, history>>

LockDrop(t) ==
    /\ tasks[t].pc = "lock_drop"
    /\ LockIo(t, tasks[t].hash, "drop")

\* Mutant: the entry goes and its files stay.
RemoveEntryOnly(t, next) ==
    IF StableEq(entries[tasks[t].key], tasks[t].seen)
    THEN /\ SetIndex(RemoveEntry(TheIndex, tasks[t].key))
         /\ hot' = ForgetHot({tasks[t].key})
         /\ Goto(t, "unlock")
    ELSE /\ Goto(t, "unlock")
         /\ UNCHANGED <<index, hot>>

\* remove_zone_index_entry_if_matches: whether the files go too is decided
\* in the same critical section.
RemoveIfMatches(t, next) ==
    LET k == tasks[t].key
        idx == RemoveEntry(TheIndex, k)
        h == tasks[t].seen.hash
    IN IF StableEq(entries[k], tasks[t].seen)
       THEN /\ SetIndex(idx)
            /\ hot' = ForgetHot({k})
            /\ Goto(t, IF h # NoHash /\ idx.refs[h] = 0 THEN next ELSE "unlock")
       ELSE /\ Goto(t, "unlock")
            /\ UNCHANGED <<index, hot>>

DropEntry(t) ==
    /\ tasks[t].pc = "drop"
    /\ RemoveIfMatches(t, "drop_files")
    /\ UNCHANGED <<invalidations, files, io_locks, clock, history>>

DropFiles(t) ==
    /\ tasks[t].pc = "drop_files"
    /\ RemoveCacheFiles(tasks[t].seen.hash)
    /\ Goto(t, "unlock")
    /\ UNCHANGED <<index, invalidations, hot, io_locks, clock, history>>

-----------------------------------------------------------------------------
(* refresh_not_modified_response: the upstream confirmed an entry that the *)
(* lookup saw some time ago.                                               *)

BeginRefresh(t) ==
    /\ setting.refresh
    /\ tasks[t].pc = "idle"
    /\ \E k \in Live(TheIndex) :
         /\ entries[k].kind = "response"
         /\ \E storable \in BOOLEAN :
              Set(t, [IdleTask EXCEPT !.pc = IF storable THEN "lock_refresh" ELSE "unstorable",
                                      !.key = k, !.seenKey = k, !.seen = entries[k],
                                      !.at = clock])
    /\ UNCHANGED <<index, invalidations, hot, files, io_locks, clock, history>>

LockRefresh(t) ==
    /\ tasks[t].pc = "lock_refresh"
    /\ LockIo(t, tasks[t].seen.hash, "refresh")

\* The metadata is rewritten and the entry stored again under its key; only
\* for a no_cache status, also under another one, when the merged headers
\* vary otherwise (without no_cache the entry is dropped then).
Refresh(t) ==
    LET e == tasks[t].seen IN
    /\ tasks[t].pc = "refresh"
    /\ metadata' = [metadata EXCEPT ![e.hash] = e.version]
    /\ \E k \in Keys, d \in setting.dims, now \in Arrivals(t) :
         LET fresh == [e EXCEPT !.dims = d, !.stored_at = now, !.last_access = now]
             seen == IF k = tasks[t].key THEN NoEntry ELSE e
         IN /\ setting.no_cache \/ k = tasks[t].key
            /\ StoreEntry(t, k, fresh, seen, "refresh_head")
    /\ UNCHANGED <<invalidations, hot, body, io_locks, clock, stored>>

\* write_cache_metadata fails: the answer is an error and nothing changes.
RefreshFails(t) ==
    /\ setting.io_fails
    /\ tasks[t].pc = "refresh"
    /\ Goto(t, "unlock")
    /\ UNCHANGED <<index, invalidations, hot, files, io_locks, clock, history>>

\* The body cannot be read for the answer.
BodyUnreadable(h) == setting.io_fails \/ body[h] = 0

\* The answer is built last; when that fails, what the refresh dropped from
\* the index is not swept.
RefreshHead(t) ==
    /\ tasks[t].pc = "refresh_head"
    /\ StoreResponseHead(t)
    /\ \/ Goto(t, "unlock")
       \/ /\ BodyUnreadable(tasks[t].hash)
          /\ Set(t, [tasks[t] EXCEPT !.pc = "unlock", !.pending = {}])
    /\ UNCHANGED <<index, invalidations, files, io_locks, clock, history>>

\* The merged response may not be stored, or belongs under another key: the
\* body is read under the I/O lock, and if that fails the answer is an error
\* and the entry stays.
UnstorableFails(t) ==
    /\ tasks[t].pc = "unstorable"
    /\ BodyUnreadable(tasks[t].seen.hash)
    /\ Set(t, IdleTask)
    /\ UNCHANGED <<index, invalidations, hot, files, io_locks, clock, history>>

\* Else, the lock released, it is remembered as a hit-for-pass or it goes ...
DropUnstorable(t) ==
    /\ tasks[t].pc = "unstorable"
    /\ RemoveIfMatches(t, "bare_files")
    /\ UNCHANGED <<invalidations, files, io_locks, clock, history>>

\* ... and then its files, without the lock.
BareFiles(t) ==
    /\ tasks[t].pc = "bare_files"
    /\ RemoveCacheFiles(tasks[t].seen.hash)
    /\ Goto(t, "unlock")
    /\ UNCHANGED <<index, invalidations, hot, io_locks, clock, history>>

-----------------------------------------------------------------------------
(* Operators and time.                                                     *)

\* invalidate_zone_entries with the "all" selector.
Invalidate ==
    /\ setting.invalidate
    /\ clock \notin invalidations
    /\ invalidations' = invalidations \cup {clock}
    /\ hot' = ForgetHot({k \in Live(TheIndex) : entries[k].stored_at < clock})
    /\ UNCHANGED <<index, files, io_locks, tasks, clock, history>>

ClearInvalidations ==
    /\ invalidations # {}
    /\ invalidations' = {}
    /\ hot' = ForgetHot({k \in Live(TheIndex) : LogicallyInvalid(entries[k])})
    /\ UNCHANGED <<index, files, io_locks, tasks, clock, history>>

Tick ==
    /\ clock < MaxTime
    /\ clock' = clock + 1
    /\ UNCHANGED <<index, invalidations, hot, files, io_locks, tasks, history>>

Busy == {t \in Tasks : tasks[t].pc # "idle"}

TaskStep(t) ==
    \/ BeginStore(t) \/ LockStore(t) \/ Commit(t) \/ IndexStore(t) \/ StoreHead(t)
    \/ Unlock(t) \/ RememberHitForPass(t) \/ Purge(t) \/ CleanupInactive(t)
    \/ ForgetGone(t) \/ SweepLock(t) \/ SweepCheck(t) \/ SweepDelete(t)
    \/ BeginDrop(t) \/ LockDrop(t) \/ DropEntry(t) \/ DropFiles(t)
    \/ BeginRefresh(t) \/ LockRefresh(t) \/ Refresh(t) \/ RefreshFails(t) \/ RefreshHead(t)
    \/ UnstorableFails(t) \/ DropUnstorable(t) \/ BareFiles(t)

Next ==
    /\ \/ \E t \in Tasks :
            /\ t \in Busy \/ Cardinality(Busy) < setting.concurrency
            /\ TaskStep(t)
       \/ \E k \in Keys : Access(k)
       \/ Invalidate \/ ClearInvalidations \/ Tick
    /\ UNCHANGED setting

Spec == Init /\ [][Next]_vars

-----------------------------------------------------------------------------
(* Properties.                                                             *)

\* The derived parts of the index agree with its entries after any sequence
\* of stores, evictions, purges and drops: an entry that fell out of the
\* schedule would never be evicted, one left in variants would be looked up
\* in vain, and wrong reference counts would delete or leak files.
PartsAgree ==
    LET live == Live(TheIndex) IN
    /\ variants = live
    /\ scheduled = live
    /\ current_size_bytes = SizeOf(TheIndex, live)
    /\ \A h \in Keys : hash_ref_counts[h] = Cardinality({k \in live : entries[k].hash = h})

\* The variants of a base key differ in the values of the same dimensions,
\* never in the dimensions: else two of them could match one request.
VariantsAgree ==
    \A j, k \in Live(TheIndex) : entries[j].dims = entries[k].dims

\* The index as a whole after any sequence of operations: its parts agree,
\* it is never over its size, and its variants can be told apart.
IndexConsistent == TypeOK /\ PartsAgree /\ VariantsAgree

\* A 304 that is late puts a removed entry back, or removes the files of a
\* new one, and a failed rename leaves half a commit: what the code does not
\* promise then is asked of the other settings only.
Undisturbed == ~setting.refresh /\ ~setting.io_fails

\* Nobody is changing the files of an indexed response: then they hold the
\* version the index describes.  A sweep that was decided before the key was
\* stored again does not delete the new files.
IndexMatchesDisk ==
    Undisturbed => \A k \in Live(TheIndex) :
        LET e == entries[k] IN
        e.kind = "response" /\ io_locks[e.hash] = NoTask
            => body[e.hash] = e.version /\ metadata[e.hash] = e.version

\* A removal never deletes the files of an entry that is in the index by
\* then: one stored while the removal was under way keeps its files.
IndexedFilesNeverDeleted ==
    [][Undisturbed =>
          \A h \in Keys : body[h] # 0 /\ body'[h] = 0 => ~HashIsReferenced(h)]_vars

\* Files that no entry refers to are about to be deleted by someone, or
\* belong to an entry that its own store evicted again: that store keeps the
\* hash it wrote out of the deletion.
NoOrphanFiles ==
    Undisturbed => \A h \in Keys \ strays :
        body[h] # 0 /\ ~HashIsReferenced(h) =>
            \/ io_locks[h] # NoTask
            \/ \E t \in Tasks : h \in tasks[t].pending

\* Between index and disk nothing is lost and nothing is left: what is
\* indexed can be read, what cannot be reached is about to be deleted.
FilesMatchIndex == IndexMatchesDisk /\ NoOrphanFiles
=============================================================================
