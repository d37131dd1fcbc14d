------------------------------ MODULE FillLock ------------------------------
(***************************************************************************)
(* Cache fill coordination for one cache key: which request of which       *)
(* process fetches the object from the upstream, and what the others do    *)
(* meanwhile.                                                              *)
(*                                                                         *)
(* A process keeps its own lock table (CacheZoneRuntime::fill_locks, under *)
(* a mutex) and, when the zone has a shared index, one record per key in   *)
(* the shared-memory document (under a file lock).  Both tables are keyed  *)
(* and no operation touches two keys, so one key is modelled.              *)
(*                                                                         *)
(* Time appears only as the age of a lock, compared with lock_age: ages    *)
(* saturate just above LockAge, which keeps the comparison exact.          *)
(***************************************************************************)
EXTENDS Naturals, FiniteSets

CONSTANTS
    Procs,        \* processes (cache managers) that share the zone
    Requests,     \* requests for the key; each one performs one lookup
    Home,         \* Home[r]: the process that serves r
    Fingerprints, \* values of fill_share_fingerprint
    Fp,           \* Fp[r]: the fingerprint of r
    Forced,       \* requests whose headers force revalidation
    LockAge,      \* policy.lock_age, in ticks
    SharedIndex,  \* zone.config.shared_index
    ShmMayFail,   \* the requests that may fail to write the shared document (capacity)
    MayCrash,     \* the processes that may die
    NoFp, NoLock, NoRecord, NoReader, NoTarget

Ages == 0 .. (LockAge + 1)

\* The flags of SharedFillStateRecord and CacheFillReadState.
FillStates == [response : BOOLEAN, completed : BOOLEAN,
               finished : BOOLEAN, failed : BOOLEAN]

\* CacheFillLockState; its Notify is identified by the generation.
LockStates == [generation : Nat, age : Ages,
               share : Fingerprints \cup {NoFp},
               reader : Requests \cup {NoReader}]

\* SharedMemoryFillLockRecord.  next_shared_fill_nonce never repeats and a
\* request acquires at most once, so the owner's name stands for the nonce.
RecordStates == [nonce : Requests, age : Ages, released : BOOLEAN,
                 share : Fingerprints \cup {NoFp}, st : FillStates]

\* CacheFillGuard, and whether its CacheFillReadState is attached.
Guards == [generation : Nat, external : BOOLEAN, attached : BOOLEAN]

ASSUME FillLockAssumption ==
    /\ Home \in [Requests -> Procs]
    /\ Fp \in [Requests -> Fingerprints]
    /\ Forced \subseteq Requests
    /\ LockAge \in Nat
    /\ SharedIndex \in BOOLEAN
    /\ ShmMayFail \subseteq Requests
    /\ MayCrash \subseteq Procs
    /\ NoFp \notin Fingerprints
    /\ NoReader \notin Requests
    /\ NoTarget \notin Requests
    /\ NoLock \notin LockStates
    /\ NoRecord \notin RecordStates

EntryStates == {"absent", "fresh", "expired"}

HoldingPcs == {"fetch", "publish", "stream", "commit", "drop"}
ReleasePcs == {"release", "notify"}
WaitPcs == {"wait_local", "wait_external", "clear_stale"}
FinalPcs == {"hit", "stale", "served", "bypass", "broken", "filled", "dead"}
Pcs == {"lookup", "busy", "open_external", "read_external"} \cup HoldingPcs \cup ReleasePcs
         \cup WaitPcs \cup FinalPcs

VARIABLES
    fill_locks,            \* per process: its lock for the key
    fill_lock_generation,  \* per process: the acquisition counter
    record,                \* the shared-memory record for the key
    entry,                 \* the index entry: "absent", "fresh" or "expired"
    pc,                    \* where each request is
    guard,                 \* the fill guard of a request that acquired
    fillState,             \* the fill state a filling request publishes
    waitGen,               \* the generation whose Notify a waiter waits on
    target,                \* whose fill an external reader follows
    seen,                  \* the entry state the lookup decided on
    snap                   \* an external reader's last good snapshot

vars == <<fill_locks, fill_lock_generation, record, entry, pc, guard,
          fillState, waitGen, target, seen, snap>>

NoGuard == [generation |-> 0, external |-> FALSE, attached |-> FALSE]

NewFillState == [response |-> FALSE, completed |-> FALSE,
                 finished |-> FALSE, failed |-> FALSE]

TypeOK ==
    /\ fill_locks \in [Procs -> LockStates \cup {NoLock}]
    /\ fill_lock_generation \in [Procs -> Nat]
    /\ record \in RecordStates \cup {NoRecord}
    /\ entry \in EntryStates
    /\ pc \in [Requests -> Pcs]
    /\ guard \in [Requests -> Guards]
    /\ fillState \in [Requests -> FillStates]
    /\ waitGen \in [Requests -> Nat]
    /\ target \in [Requests -> Requests \cup {NoTarget}]
    /\ seen \in [Requests -> EntryStates]
    /\ snap \in [Requests -> FillStates]

Init ==
    /\ fill_locks = [p \in Procs |-> NoLock]
    /\ fill_lock_generation = [p \in Procs |-> 0]
    /\ record = NoRecord
    /\ entry = "absent"
    /\ pc = [r \in Requests |-> "lookup"]
    /\ guard = [r \in Requests |-> NoGuard]
    /\ fillState = [r \in Requests |-> NewFillState]
    /\ waitGen = [r \in Requests |-> 0]
    /\ target = [r \in Requests |-> NoTarget]
    /\ seen = [r \in Requests |-> "absent"]
    /\ snap = [r \in Requests |-> NewFillState]

-----------------------------------------------------------------------------
(* The shared-memory record: try_acquire_fill_lock and its companions.     *)

\* A bound of the model: an age above LockAge need not grow.
Older(age) == IF age > LockAge THEN age ELSE age + 1

\* Mutants: a record is taken one tick early; a record never grows stale.
RecordBusyEarly == record # NoRecord /\ ~record.released /\ record.age < LockAge
RecordBusyForever == record # NoRecord /\ ~record.released

RecordBusy ==
    /\ record # NoRecord
    /\ ~record.released
    /\ record.age <= LockAge

RecordStale ==
    /\ record # NoRecord
    /\ ~record.released
    /\ record.age > LockAge

NewRecord(r, fp) == [nonce |-> r, age |-> 0, released |-> FALSE,
                     share |-> fp, st |-> NewFillState]

OwnsRecord(r) ==
    /\ guard[r].external
    /\ record # NoRecord
    /\ record.nonce = r

\* update_fill_lock: only the owner of the nonce may refresh the record.
UpdateFillLock(r, st) ==
    \/ OwnsRecord(r) /\ record' = [record EXCEPT !.age = 0, !.st = st]
    \/ (OwnsRecord(r) => r \in ShmMayFail) /\ record' = record

\* release_fill_lock: likewise.
ReleaseFillLock(r) ==
    \/ OwnsRecord(r) /\ record' = [record EXCEPT !.released = TRUE]
    \/ (OwnsRecord(r) => r \in ShmMayFail) /\ record' = record

-----------------------------------------------------------------------------
(* fill_lock_decision, under the process's fill_locks mutex.               *)

\* Nobody of process p is between try_acquire_fill_lock and load_fill_lock,
\* where the mutex is held.
MutexFree(p) == \A q \in Requests : Home[q] = p => pc[q] # "busy"

LocalFresh(p) == fill_locks[p] # NoLock /\ fill_locks[p].age <= LockAge

\* The fingerprint a lookup passes: none when an entry exists.
ShareFp(r, e) == IF e = "absent" THEN Fp[r] ELSE NoFp

ShareMatches(fp, share) == fp = NoFp \/ share = fp

\* can_share: neither failed nor completed by the upstream.
CanShare(st) == ~st.failed /\ ~st.completed

\* stale_allowed_for_entry also needs the grace window and the policy.
MayServeStale(r, e) == e = "expired" /\ r \notin Forced

FreshHit(r) ==
    /\ pc[r] = "lookup"
    /\ entry = "fresh"
    /\ r \notin Forced
    /\ pc' = [pc EXCEPT ![r] = "hit"]
    /\ UNCHANGED <<fill_locks, fill_lock_generation, record, entry, guard,
                   fillState, waitGen, target, seen, snap>>

NeedsFill(r) ==
    /\ pc[r] = "lookup"
    /\ entry # "fresh" \/ r \in Forced
    /\ MutexFree(Home[r])

\* The local lock is fresh: read along, wait, or serve the stale entry.
LocalDecision(r) ==
    LET lock == fill_locks[Home[r]]
        fp == ShareFp(r, entry)
        shares == /\ ShareMatches(fp, lock.share)
                  /\ lock.reader # NoReader
                  /\ CanShare(fillState[lock.reader])
    IN
    /\ NeedsFill(r)
    /\ LocalFresh(Home[r])
    /\ \/ /\ MayServeStale(r, entry)
          /\ pc' = [pc EXCEPT ![r] = "stale"]
          /\ waitGen' = waitGen
       \/ /\ pc' = [pc EXCEPT ![r] = IF shares THEN "served" ELSE "wait_local"]
          /\ waitGen' = [waitGen EXCEPT ![r] = lock.generation]
    /\ UNCHANGED <<fill_locks, fill_lock_generation, record, entry, guard,
                   fillState, target, seen, snap>>

\* No fresh local lock: take the shared record, or fall back to the local
\* lock alone when there is no shared index or the document write failed.
AcquireFillLock(r) ==
    LET p == Home[r]
        fp == ShareFp(r, entry)
        generation == fill_lock_generation[p] + 1
    IN
    /\ NeedsFill(r)
    /\ ~LocalFresh(p)
    /\ \E external \in BOOLEAN :
         /\ IF external
            THEN SharedIndex /\ ~RecordBusy /\ record' = NewRecord(r, fp)
            ELSE (SharedIndex => r \in ShmMayFail /\ ~RecordBusy) /\ record' = record
         /\ guard' = [guard EXCEPT ![r] =
              [generation |-> generation, external |-> external, attached |-> FALSE]]
    /\ fill_lock_generation' = [fill_lock_generation EXCEPT ![p] = generation]
    /\ fill_locks' = [fill_locks EXCEPT ![p] =
         [generation |-> generation, age |-> 0, share |-> fp, reader |-> NoReader]]
    /\ seen' = [seen EXCEPT ![r] = entry]
    /\ pc' = [pc EXCEPT ![r] = "fetch"]
    /\ UNCHANGED <<entry, fillState, waitGen, target, snap>>

\* The shared record is busy: remember so, still holding the mutex.
SharedBusy(r) ==
    /\ NeedsFill(r)
    /\ ~LocalFresh(Home[r])
    /\ SharedIndex
    /\ RecordBusy
    /\ seen' = [seen EXCEPT ![r] = entry]
    /\ pc' = [pc EXCEPT ![r] = "busy"]
    /\ UNCHANGED <<fill_locks, fill_lock_generation, record, entry, guard,
                   fillState, waitGen, target, snap>>

\* load_memory_external_fill_state: a second look at the document, by when
\* the owner may have finished, released or been replaced.
LoadExternal(r) ==
    LET readable == /\ record # NoRecord
                    /\ ShareMatches(ShareFp(r, seen[r]), record.share)
                    /\ CanShare(record.st)
                    /\ record.st.response
    IN
    /\ pc[r] = "busy"
    /\ \/ /\ MayServeStale(r, seen[r])
          /\ pc' = [pc EXCEPT ![r] = "stale"]
          /\ target' = target
       \/ /\ readable
          /\ pc' = [pc EXCEPT ![r] = "open_external"]
          /\ target' = [target EXCEPT ![r] = record.nonce]
       \/ /\ ~readable
          /\ pc' = [pc EXCEPT ![r] = "wait_external"]
          /\ target' = target
    /\ UNCHANGED <<fill_locks, fill_lock_generation, record, entry, guard,
                   fillState, waitGen, seen, snap>>

-----------------------------------------------------------------------------
(* Waiting: by Notify inside a process, by polling across processes.       *)

\* notify_waiters on the Notify of generation g of process p.
Woken(p, g) == {q \in Requests : /\ Home[q] = p
                                 /\ pc[q] = "wait_local"
                                 /\ waitGen[q] = g}

\* One poll of wait_for_memory_shared_fill_lock: a released or missing
\* record frees the waiter; a stale one is to be cleared first.
PollExternalLock(r) ==
    /\ pc[r] = "wait_external"
    /\ ~RecordBusy
    /\ pc' = [pc EXCEPT ![r] = IF RecordStale THEN "clear_stale" ELSE "lookup"]
    /\ UNCHANGED <<fill_locks, fill_lock_generation, record, entry, guard,
                   fillState, waitGen, target, seen, snap>>

\* clear_stale_fill_lock takes the document lock again and looks again: only
\* a record that is stale now frees the waiter.
ClearStaleFillLock(r) ==
    /\ pc[r] = "clear_stale"
    /\ record' = IF RecordBusy THEN record ELSE NoRecord
    /\ pc' = [pc EXCEPT ![r] = IF RecordStale THEN "lookup" ELSE "wait_external"]
    /\ UNCHANGED <<fill_locks, fill_lock_generation, entry, guard, fillState,
                   waitGen, target, seen, snap>>

\* policy.lock_timeout elapses (or the poll fails): bypass the cache.
WaitTimeout(r) ==
    /\ pc[r] \in WaitPcs
    /\ pc' = [pc EXCEPT ![r] = "bypass"]
    /\ UNCHANGED <<fill_locks, fill_lock_generation, record, entry, guard,
                   fillState, waitGen, target, seen, snap>>

\* Mutant: the nonce of the record is not compared.
FollowsAnyRecord(r) == record # NoRecord

\* read_external_fill_state_record succeeds on the fill being followed only.
FollowsRecord(r) == record # NoRecord /\ record.nonce = target[r]

\* stream_external_fill_body, up to its loop: a first snapshot and the body
\* file.  The temporary file may be gone by now.
OpenExternalFill(r) ==
    /\ pc[r] = "open_external"
    /\ \/ /\ FollowsRecord(r)
          /\ snap' = [snap EXCEPT ![r] = record.st]
          /\ pc' = [pc EXCEPT ![r] = "read_external"]
       \/ /\ pc' = [pc EXCEPT ![r] = "broken"]
          /\ snap' = snap
    /\ UNCHANGED <<fill_locks, fill_lock_generation, record, entry, guard,
                   fillState, waitGen, target, seen>>

\* One round of its loop.  A record that is gone or belongs to another fill
\* is an error the loop ignores, keeping its last snapshot.
PollExternalFill(r) ==
    LET st == IF FollowsRecord(r) THEN record.st ELSE snap[r] IN
    /\ pc[r] = "read_external"
    /\ snap' = [snap EXCEPT ![r] = st]
    /\ pc' = [pc EXCEPT ![r] = IF st.failed THEN "broken"
                              ELSE IF st.finished THEN "served"
                              ELSE "read_external"]
    /\ UNCHANGED <<fill_locks, fill_lock_generation, record, entry, guard,
                   fillState, waitGen, target, seen>>

-----------------------------------------------------------------------------
(* The filling request.                                                    *)

\* CacheFillReadState::new publishes the response head ...
PublishResponse(r) ==
    LET st == [fillState[r] EXCEPT !.response = TRUE] IN
    /\ pc[r] = "fetch"
    /\ fillState' = [fillState EXCEPT ![r] = st]
    /\ UpdateFillLock(r, st)
    /\ pc' = [pc EXCEPT ![r] = "publish"]
    /\ UNCHANGED <<fill_locks, fill_lock_generation, entry, guard, waitGen,
                   target, seen, snap>>

\* ... and attach_fill_read_state hands it to the process's other requests,
\* unless the lock has been taken over, when the fill goes on unshared.
AttachFillReadState(r) ==
    LET p == Home[r]
        current == /\ fill_locks[p] # NoLock
                   /\ fill_locks[p].generation = guard[r].generation
        woken == IF current THEN Woken(p, guard[r].generation) ELSE {}
    IN
    /\ pc[r] = "publish"
    /\ MutexFree(p)
    /\ fill_locks' = IF current
                     THEN [fill_locks EXCEPT ![p].reader = r]
                     ELSE fill_locks
    /\ guard' = [guard EXCEPT ![r].attached = current]
    /\ pc' = [q \in Requests |-> IF q = r THEN "stream"
                                 ELSE IF q \in woken THEN "lookup" ELSE pc[q]]
    /\ UNCHANGED <<fill_lock_generation, record, entry, fillState, waitGen,
                   target, seen, snap>>

\* A CacheFillReadState operation of an attached fill: the flags change, the
\* waiters are notified and the record is updated.
ReadStateStep(r, from, st, next) ==
    /\ pc[r] = from
    /\ IF guard[r].attached
       THEN /\ fillState' = [fillState EXCEPT ![r] = st]
            /\ UpdateFillLock(r, st)
            /\ pc' = [q \in Requests |->
                 IF q = r THEN next
                 ELSE IF q \in Woken(Home[r], guard[r].generation) THEN "lookup"
                 ELSE pc[q]]
       ELSE /\ UNCHANGED <<fillState, record>>
            /\ pc' = [pc EXCEPT ![r] = next]
    /\ UNCHANGED <<fill_locks, fill_lock_generation, entry, guard, waitGen,
                   target, seen, snap>>

\* record_bytes_written, with its heartbeat.
RecordBytesWritten(r) == ReadStateStep(r, "stream", fillState[r], "stream")

MarkUpstreamComplete(r) ==
    /\ ~fillState[r].completed
    /\ ReadStateStep(r, "stream", [fillState[r] EXCEPT !.completed = TRUE], "stream")

FinishFill(r) ==
    /\ guard[r].attached => fillState[r].completed
    /\ ReadStateStep(r, "stream", [fillState[r] EXCEPT !.finished = TRUE, !.completed = TRUE], "commit")

\* The writer's Abort, write-error and closed-channel paths.
FailFill(r) ==
    ReadStateStep(r, "stream", [fillState[r] EXCEPT !.failed = TRUE], "drop")

\* finalize_streaming_cache: a finished body is committed and indexed, if
\* committing does not fail.
CommitEntry(r) ==
    /\ pc[r] = "commit"
    /\ entry' \in {entry, "fresh"}
    /\ pc' = [pc EXCEPT ![r] = "drop"]
    /\ UNCHANGED <<fill_locks, fill_lock_generation, record, guard, fillState,
                   waitGen, target, seen, snap>>

\* It gives the finished body up: its length is not the announced one, or
\* its head cannot be prepared.  The fill fails after all.
FinalizeFails(r) ==
    ReadStateStep(r, "commit", [fillState[r] EXCEPT !.failed = TRUE], "drop")

\* Mutant: the drop removes whatever lock there is.
DropAnyLocal(r) ==
    /\ pc[r] \in {"fetch", "drop"}
    /\ MutexFree(Home[r])
    /\ fill_locks' = [fill_locks EXCEPT ![Home[r]] = NoLock]
    /\ pc' = [pc EXCEPT ![r] = "release"]
    /\ UNCHANGED <<fill_lock_generation, record, entry, guard, fillState,
                   waitGen, target, seen, snap>>

\* CacheFillGuard::drop, first part: give up the local lock, if still ours.
\* An uncacheable response drops the guard straight from "fetch".
DropLocal(r) ==
    LET p == Home[r] IN
    /\ pc[r] \in {"fetch", "drop"}
    /\ MutexFree(p)
    /\ fill_locks' = IF /\ fill_locks[p] # NoLock
                        /\ fill_locks[p].generation = guard[r].generation
                     THEN [fill_locks EXCEPT ![p] = NoLock]
                     ELSE fill_locks
    /\ pc' = [pc EXCEPT ![r] = "release"]
    /\ UNCHANGED <<fill_lock_generation, record, entry, guard, fillState,
                   waitGen, target, seen, snap>>

\* Second part: release the shared record.
DropExternal(r) ==
    /\ pc[r] = "release"
    /\ ReleaseFillLock(r)
    /\ pc' = [pc EXCEPT ![r] = "notify"]
    /\ UNCHANGED <<fill_locks, fill_lock_generation, entry, guard, fillState,
                   waitGen, target, seen, snap>>

\* Mutant: only a fill that was shared wakes its waiters.
DropNotifyAttached(r) ==
    /\ pc[r] = "notify"
    /\ pc' = [q \in Requests |->
         IF q = r THEN "filled"
         ELSE IF guard[r].attached /\ q \in Woken(Home[r], guard[r].generation)
         THEN "lookup" ELSE pc[q]]
    /\ guard' = [guard EXCEPT ![r] = NoGuard]
    /\ UNCHANGED <<fill_locks, fill_lock_generation, record, entry, fillState,
                   waitGen, target, seen, snap>>

\* Last part: wake the local waiters.
DropNotify(r) ==
    /\ pc[r] = "notify"
    /\ pc' = [q \in Requests |->
         IF q = r THEN "filled"
         ELSE IF q \in Woken(Home[r], guard[r].generation) THEN "lookup"
         ELSE pc[q]]
    /\ guard' = [guard EXCEPT ![r] = NoGuard]
    /\ UNCHANGED <<fill_locks, fill_lock_generation, record, entry, fillState,
                   waitGen, target, seen, snap>>

-----------------------------------------------------------------------------
(* The environment.                                                        *)

Tick ==
    /\ fill_locks' = [p \in Procs |->
         IF fill_locks[p] = NoLock THEN NoLock
         ELSE [fill_locks[p] EXCEPT !.age = Older(fill_locks[p].age)]]
    /\ record' = IF record = NoRecord THEN NoRecord
                 ELSE [record EXCEPT !.age = Older(record.age)]
    /\ UNCHANGED <<fill_lock_generation, entry, pc, guard, fillState, waitGen,
                   target, seen, snap>>

\* The committed entry passes its expiry time.
Expire ==
    /\ entry = "fresh"
    /\ entry' = "expired"
    /\ UNCHANGED <<fill_locks, fill_lock_generation, record, pc, guard,
                   fillState, waitGen, target, seen, snap>>

\* A process dies; its part of the shared document stays as it is.
Crash(p) ==
    /\ \E r \in Requests : Home[r] = p /\ pc[r] # "dead"
    /\ pc' = [r \in Requests |-> IF Home[r] = p THEN "dead" ELSE pc[r]]
    /\ guard' = [r \in Requests |-> IF Home[r] = p THEN NoGuard ELSE guard[r]]
    /\ fill_locks' = [fill_locks EXCEPT ![p] = NoLock]
    /\ UNCHANGED <<fill_lock_generation, record, entry, fillState,
                   waitGen, target, seen, snap>>

\* What the tasks of a fill do without waiting for the upstream.
FillTaskStep(r) ==
    \/ PublishResponse(r) \/ AttachFillReadState(r)
    \/ CommitEntry(r) \/ FinalizeFails(r) \/ DropLocal(r) \/ DropExternal(r) \/ DropNotify(r)

LookupStep(r) ==
    \/ FreshHit(r) \/ LocalDecision(r) \/ AcquireFillLock(r)
    \/ SharedBusy(r) \/ LoadExternal(r)
    \/ PollExternalLock(r) \/ ClearStaleFillLock(r) \/ OpenExternalFill(r) \/ PollExternalFill(r)

FillStep(r) ==
    \/ PublishResponse(r) \/ AttachFillReadState(r)
    \/ RecordBytesWritten(r) \/ MarkUpstreamComplete(r)
    \/ FinishFill(r) \/ FailFill(r)
    \/ CommitEntry(r) \/ FinalizeFails(r) \/ DropLocal(r) \/ DropExternal(r) \/ DropNotify(r)

\* A step of the requests of rs and their processes.
NextOf(rs) ==
    \/ \E r \in rs : LookupStep(r) \/ FillStep(r) \/ WaitTimeout(r)
    \/ \E p \in MayCrash \cap {Home[r] : r \in rs} : Crash(p)
    \/ Tick
    \/ Expire

Next == NextOf(Requests)

Spec == Init /\ [][Next]_vars

\* The request tasks are scheduled, the upstream ends every body (the proxy
\* has upstream timeouts) and time passes.  Nothing is assumed of the lock
\* timeout, of heartbeats, of crashes or of expiry.
Fairness ==
    /\ \A r \in Requests :
         /\ WF_vars(LookupStep(r))
         /\ WF_vars(FillTaskStep(r))
         /\ WF_vars(FinishFill(r) \/ FailFill(r))
    /\ WF_vars(Tick)

FairSpec == Spec /\ Fairness

-----------------------------------------------------------------------------
(* Properties.                                                             *)

Holding(r) == pc[r] \in HoldingPcs

\* The guard that acquired last in its process still has the process's lock
\* while it is held: the drop of an overtaken guard compares generations and
\* leaves its successor's lock alone.
HolderKeepsLock ==
    \A r \in Requests :
        LET lock == fill_locks[Home[r]] IN
        Holding(r) /\ guard[r].generation = fill_lock_generation[Home[r]]
            => lock # NoLock /\ lock.generation = guard[r].generation

\* Whoever waits on a Notify will be notified: the guard of that generation
\* has not yet made its last notify_waiters call.
NoLostWaiter ==
    \A q \in Requests : pc[q] = "wait_local" =>
        \E r \in Requests :
            /\ Home[r] = Home[q]
            /\ guard[r].generation = waitGen[q]
            /\ Holding(r) \/ pc[r] \in ReleasePcs

\* A reader that follows another process's fill and reports success has
\* followed that fill to the end of its body, never a successor's.  The
\* entry may still be refused afterwards (finalize_streaming_cache).
ExternalReaderSawItsFill ==
    \A q \in Requests :
        pc[q] = "served" /\ target[q] # NoTarget
            => fillState[target[q]].finished

\* The shared record of a request that is still filling is taken, removed or
\* released by others only after lock_age without a heartbeat.
RecordTakenOnlyWhenStale ==
    [][\A r \in Requests :
         /\ record # NoRecord
         /\ record.nonce = r
         /\ Holding(r) /\ Holding(r)'
         /\ \/ record' = NoRecord
            \/ record'.nonce # r
            \/ record'.released # record.released
         => record.age > LockAge]_vars

\* A lookup that waits for a fill resumes even if its lock timeout never
\* fires: one that waits for a request of its own process is notified by the
\* guard's drop, however the fill ends, and one that waits for another
\* process gets past the record of a filler that crashed when it grows stale.
WaiterResumes ==
    \A r \in Requests : pc[r] \in WaitPcs ~> pc[r] \notin WaitPcs

\* A reader of another process's in-flight fill gets to the end of it, or to
\* an error.
ExternalReaderTerminates ==
    \A r \in Requests : pc[r] = "read_external" ~> pc[r] # "read_external"
=============================================================================
