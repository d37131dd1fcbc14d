--------------------------- MODULE AccessSchedule ---------------------------
(***************************************************************************)
(* The access schedule of the cache index and the two loops that take      *)
(* entries from it: eviction_candidates (until the rest fits) and          *)
(* inactive_cleanup_candidates (a batch of entries unused for too long).   *)
(*                                                                         *)
(* The schedule is ordered by access time and ticket, but hits only update *)
(* the hot state of a key: the loops find out when they pop the key, and   *)
(* schedule it again with its effective access time.  A loop holds the     *)
(* index lock, but a hit needs none and may come between two of its turns. *)
(* CacheStore relies on what is checked here: entries leave in the order   *)
(* of effective times.                                                     *)
(***************************************************************************)
EXTENDS Naturals, FiniteSets

CONSTANTS
    Indexed,        \* cache keys
    SizeOfKey,      \* SizeOfKey[k]: body_size_bytes of k's entry
    SizeLimit,      \* zone.config.max_size_bytes
    InactiveAfter,  \* zone.config.inactive
    Batch,          \* the most entries one cleanup takes
    Now,            \* the time of the loop
    MaxHits,        \* bound on the hits that come while a loop runs
    NotScheduled

ASSUME AccessScheduleAssumption ==
    /\ IsFiniteSet(Indexed)
    /\ SizeOfKey \in [Indexed -> Nat]
    /\ SizeLimit \in Nat
    /\ InactiveAfter \in Nat
    /\ Batch \in Nat \ {0}
    /\ Now \in Nat /\ MaxHits \in Nat
    /\ NotScheduled \notin [at : Nat, ticket : Nat]

AccessTimes == 0 .. Now

VARIABLES
    live,            \* the keys that have an entry
    access_schedule, \* key -> [at, ticket]
    next_ticket,     \* maintenance_next_ticket
    effective,       \* key -> effective_last_access_unix_ms
    removed,         \* what the loop has taken out
    loop,            \* the loop that runs, how it ended, or "off"
    hits,            \* history: how many hits came since the loop began
    taken            \* history: the effective time of an entry taken out

scheduleVars == <<live, access_schedule, next_ticket, effective, removed, loop, hits, taken>>

\* The bytes of some entries, counted one by one.
SizeOfAll(ks) == Cardinality(UNION {{k} \X (1 .. SizeOfKey[k]) : k \in ks})

Scheduled == {k \in Indexed : access_schedule[k] # NotScheduled}

\* Any schedule that insertions can have produced: one ticket per key, times
\* not after the effective ones.
ScheduleInit ==
    /\ live \in SUBSET Indexed
    /\ effective \in [Indexed -> AccessTimes]
    /\ \E at \in [Indexed -> AccessTimes],
          ticket \in [Indexed -> 0 .. (Cardinality(Indexed) - 1)] :
         /\ \A k \in Indexed : at[k] <= effective[k]
         /\ \A j, k \in Indexed : ticket[j] = ticket[k] => j = k
         /\ access_schedule = [k \in Indexed |->
              IF k \in live THEN [at |-> at[k], ticket |-> ticket[k]] ELSE NotScheduled]
    /\ next_ticket = Cardinality(Indexed)
    /\ removed = {}
    /\ loop \in {"evict", "cleanup"}
    /\ hits = 0
    /\ taken = [k \in Indexed |-> 0]

\* No loop runs.
ScheduleOff ==
    /\ live = {} /\ removed = {} /\ next_ticket = 0 /\ loop = "off"
    /\ effective = [k \in Indexed |-> 0]
    /\ access_schedule = [k \in Indexed |-> NotScheduled]
    /\ hits = 0 /\ taken = [k \in Indexed |-> 0]

Before(a, b) == a.at < b.at \/ (a.at = b.at /\ a.ticket < b.ticket)

Oldest == CHOOSE k \in Scheduled :
            \A j \in Scheduled \ {k} : Before(access_schedule[k], access_schedule[j])

\* Mutants: an entry that was accessed is dropped from the schedule; it goes
\* back with the time it had.
Unschedule(k) ==
    /\ access_schedule' = [access_schedule EXCEPT ![k] = NotScheduled]
    /\ UNCHANGED <<next_ticket, live, removed, taken>>

RescheduleInPlace(k) ==
    /\ access_schedule' = [access_schedule EXCEPT ![k].ticket = next_ticket]
    /\ next_ticket' = next_ticket + 1
    /\ UNCHANGED <<live, removed, taken>>

\* reschedule_entry_access.
Reschedule(k) ==
    /\ access_schedule' = [access_schedule EXCEPT ![k] =
                             [at |-> effective[k], ticket |-> next_ticket]]
    /\ next_ticket' = next_ticket + 1
    /\ UNCHANGED <<live, removed, taken>>

\* remove_entry.
TakeOut(k) ==
    /\ access_schedule' = [access_schedule EXCEPT ![k] = NotScheduled]
    /\ live' = live \ {k}
    /\ removed' = removed \cup {k}
    /\ taken' = [taken EXCEPT ![k] = effective[k]]
    /\ UNCHANGED next_ticket

\* Mutant: accesses since the scheduling are not looked at.
PopScheduled == TakeOut(Oldest)

Pop == IF effective[Oldest] > access_schedule[Oldest].at
       THEN Reschedule(Oldest)
       ELSE TakeOut(Oldest)

Evict ==
    /\ loop = "evict"
    /\ SizeOfAll(live) > SizeLimit
    /\ Scheduled # {}
    /\ Pop
    /\ UNCHANGED <<effective, loop, hits>>

EvictEnd ==
    /\ loop = "evict"
    /\ SizeOfAll(live) <= SizeLimit \/ Scheduled = {}
    /\ loop' = "evicted"
    /\ UNCHANGED <<live, access_schedule, next_ticket, effective, removed, hits, taken>>

\* now is Now; now.saturating_sub(inactive) is the cut-off.
Cutoff == IF Now > InactiveAfter THEN Now - InactiveAfter ELSE 0

CleanupDue == Scheduled # {} /\ access_schedule[Oldest].at < Cutoff

\* Mutant: only the scheduled time decides.
CleanupScheduled ==
    /\ loop = "cleanup"
    /\ Cardinality(removed) < Batch
    /\ CleanupDue
    /\ IF effective[Oldest] > access_schedule[Oldest].at + InactiveAfter
       THEN Reschedule(Oldest)
       ELSE TakeOut(Oldest)
    /\ UNCHANGED <<effective, loop, hits>>

Cleanup ==
    /\ loop = "cleanup"
    /\ Cardinality(removed) < Batch
    /\ CleanupDue
    /\ IF \/ effective[Oldest] > access_schedule[Oldest].at
          \/ effective[Oldest] + InactiveAfter >= Now
       THEN Reschedule(Oldest)
       ELSE TakeOut(Oldest)
    /\ UNCHANGED <<effective, loop, hits>>

CleanupEnd ==
    /\ loop = "cleanup"
    /\ Cardinality(removed) = Batch \/ ~CleanupDue
    /\ loop' = IF CleanupDue THEN "more" ELSE "cleaned"
    /\ UNCHANGED <<live, access_schedule, next_ticket, effective, removed, hits, taken>>

\* record_entry_access, of an entry that a lookup found before the loop took
\* the index lock; its time may be later than the one the loop began with.
RecordEntryAccess(k) ==
    /\ loop \in {"evict", "cleanup"}
    /\ hits < MaxHits
    /\ \E at \in 0 .. (Now + 1) :
         /\ at > effective[k]
         /\ effective' = [effective EXCEPT ![k] = at]
    /\ hits' = hits + 1
    /\ UNCHANGED <<live, access_schedule, next_ticket, removed, loop, taken>>

ScheduleNext ==
    \/ Evict \/ EvictEnd \/ Cleanup \/ CleanupEnd
    \/ \E k \in Indexed : RecordEntryAccess(k)

ScheduleSpec == ScheduleInit /\ [][ScheduleNext]_scheduleVars

-----------------------------------------------------------------------------
\* Whatever is still in the index can still be evicted.
EveryEntryScheduled == Scheduled = live

\* Eviction ends with an index that fits, has removed the least recently
\* used entries only and not one more than necessary: an entry that left had
\* been used, when it left, no later than any that stayed.
EvictsTheLeastRecentlyUsed ==
    loop = "evicted" =>
        /\ SizeOfAll(live) <= SizeLimit
        /\ \A k \in removed, j \in live : taken[k] <= effective[j]
        /\ removed # {} => \E last \in removed : SizeOfAll(live \cup {last}) > SizeLimit

\* A cleanup that reports nothing more to do has left no entry that has been
\* unused for longer than the limit, and never takes one that has not by
\* then.
CleansUpTheInactive ==
    /\ loop \in {"cleanup", "more", "cleaned"} =>
         \A k \in removed : taken[k] + InactiveAfter < Now
    /\ loop = "cleaned" => \A k \in live : effective[k] + InactiveAfter >= Now

\* A loop holds the index lock until it ends: the lazy rescheduling puts
\* every entry back at most once, and once more for every hit that comes in
\* the meantime, so that it does end.
LoopsBounded == next_ticket <= 2 * Cardinality(Indexed) + hits

\* Both loops remove what they should and nothing else, although access
\* times change without the schedule being touched, even while the loop
\* runs, and they end.
LoopsCorrect ==
    EveryEntryScheduled /\ EvictsTheLeastRecentlyUsed /\ CleansUpTheInactive /\ LoopsBounded
=============================================================================
