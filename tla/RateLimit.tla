----------------------------- MODULE RateLimit -----------------------------
(***************************************************************************)
(* rate_limit: a token bucket per route and client, kept by the process    *)
(* (local.rs) or, by every process of one configuration path, in a shared  *)
(* memory segment under a file lock (shared/).                             *)
(*                                                                         *)
(* A check reads the clock before it has the lock, so checks reach the     *)
(* buckets in another order than their times.  The local clock is          *)
(* monotone; the shared one is the wall clock, which may be set back.      *)
(* Time is counted in the unit in which a rate of 1 gains one token, so    *)
(* tokens are whole; buckets of one shard are modelled (shards share       *)
(* nothing).  A document is as long as it has buckets.                     *)
(***************************************************************************)
EXTENDS Integers, FiniteSets, Functions

CONSTANTS
  RateModes,       \* [shared, capacity], capacity[p] in buckets, the segment size p asks for
  Buckets,         \* the (route, client) pairs
  Checks,          \* concurrent checks
  Policies,        \* [rate, burst], what reloads switch between
  CleanupInterval,
  MaxClock,        \* bound on the clock
  MaxAdmitted,     \* bound on admissions
  MaxFaults        \* bound on clock steps, deaths and reloads

ASSUME RateAssumption ==
  /\ CleanupInterval \in Nat /\ MaxClock \in Nat /\ MaxAdmitted \in Nat /\ MaxFaults \in Nat
  /\ IsFiniteSet(Policies) /\ Policies # {} /\ Policies \subseteq [rate : Nat \ {0}, burst : Nat]

VARIABLES
  mode,        \* the mode of this behaviour, or NoMode
  clock,       \* the time
  policy,      \* the policy of the route in force
  check,       \* check[t]: where the check t is
  segment,     \* the shared segment: absent, ok or torn, and its size
  table,       \* the buckets and when they are next cleaned up
  faults,      \* how often something went wrong
  latest,      \* history: the latest time there was
  admitted,    \* history: admitted[k]
  credited,    \* history: up to when k was credited, whatever became of its bucket
  granted,     \* history: what k may have got for time credited before, and by a raised burst
  forgotten,   \* history: how often buckets were lost with the segment
  ideal,       \* history: the bucket of k that is credited for no time twice
  unjust       \* history: the buckets denied for want of tokens that ideal had

rateVars == <<mode, clock, policy, check, segment, table, faults, latest, admitted, credited,
              granted, forgotten, ideal, unjust>>

NoMode == [shared |-> FALSE, capacity |-> <<>>]
Idle == [pc |-> "idle"]
EmptyTable(next) == [buckets |-> <<>>, nextCleanup |-> next]
Capacity(p) == p.burst + 1

RateInit ==
  /\ mode \in RateModes /\ clock = 0 /\ policy \in Policies /\ check = [t \in Checks |-> Idle]
  /\ segment = [state |-> "absent", capacity |-> 0]
  /\ table = EmptyTable(IF mode.shared THEN 0 ELSE CleanupInterval)
  /\ faults = 0 /\ latest = 0 /\ admitted = [k \in Buckets |-> 0] /\ credited = [k \in Buckets |-> 0]
  /\ granted = [k \in Buckets |-> 0] /\ forgotten = 0 /\ unjust = {}
  /\ ideal = [k \in Buckets |-> [policy |-> policy, tokens |-> Capacity(policy), lastRefill |-> 0]]

RateOff ==
  /\ mode = NoMode /\ clock = 0 /\ policy = [rate |-> 1, burst |-> 0] /\ check = <<>>
  /\ segment = [state |-> "absent", capacity |-> 0] /\ table = EmptyTable(0)
  /\ faults = 0 /\ latest = 0 /\ admitted = <<>> /\ credited = <<>> /\ granted = <<>> /\ forgotten = 0
  /\ ideal = <<>> /\ unjust = {}

(***************************************************************************)
(* Buckets                                                                 *)
(***************************************************************************)
AtMost(n, limit) == IF n > limit THEN limit ELSE n
Since(now, last) == IF now > last THEN now - last ELSE 0

\* Mutant of NewBucket: a new client has the burst and not the request of its own.
NewBucketWithBurst(p, now) == [policy |-> p, tokens |-> p.burst, lastRefill |-> now]

NewBucket(p, now) == [policy |-> p, tokens |-> Capacity(p), lastRefill |-> now]

\* refill: an earlier time adds nothing, and becomes the time of the last refill.
Refill(b, now) ==
  [b EXCEPT !.tokens = AtMost(@ + Since(now, b.lastRefill) * b.policy.rate, Capacity(b.policy)),
            !.lastRefill = now]

Reconfigure(b, p, now) ==
  IF b.policy = p THEN b
  ELSE [Refill(b, now) EXCEPT !.tokens = AtMost(@, Capacity(p)), !.policy = p]

\* Mutant of Evictable: a bucket that is nearly full is dropped.
EvictableEarly(b, now) == Refill(b, now).tokens >= Capacity(b.policy) - 1

Evictable(b, now) == Refill(b, now).tokens >= Capacity(b.policy)

\* maybe_cleanup_buckets, maybe_cleanup_document: buckets that are full again go; the
\* others have been refilled.
Cleanup(t, now) ==
  IF now < t.nextCleanup THEN t
  ELSE [buckets |-> [k \in {x \in DOMAIN t.buckets : ~Evictable(t.buckets[x], now)} |-> Refill(t.buckets[k], now)],
        nextCleanup |-> now + CleanupInterval]

\* The bucket of k, or a new one, refilled for a check; then the check.
Prepared(t, k, p, now) ==
  LET b == IF k \in DOMAIN t.buckets THEN t.buckets[k] ELSE NewBucket(p, now)
  IN  Refill(Reconfigure(b, p, now), now)

TryAcquire(b) == IF b.tokens < 1 THEN b ELSE [b EXCEPT !.tokens = @ - 1]

(***************************************************************************)
(* The segment                                                             *)
(***************************************************************************)
\* attach fails: no segment, or one of another size or layout; create_or_reset.
Attaches(p) == segment.state # "absent" /\ segment.capacity = mode.capacity[p]

\* open_or_create_segment and read_document; only attaching repairs anything.
Opened(p) == IF Attaches(p) THEN table ELSE EmptyTable(0)
Readable(p) == Attaches(p) => segment.state = "ok"

\* write_document refuses a document that is longer than the payload.
Fits(t, p) == Cardinality(DOMAIN t.buckets) <= mode.capacity[p]

(***************************************************************************)
(* A check                                                                 *)
(***************************************************************************)
Processes == DOMAIN mode.capacity

Admissions == SumFunction(admitted)

\* The request knows its policy from its snapshot, and samples the clock.
Sample(t, k) ==
  /\ check[t].pc = "idle"
  /\ Admissions < MaxAdmitted
  /\ \E p \in Processes : check' = [check EXCEPT ![t] =
       [pc |-> "sampled", process |-> p, bucket |-> k, policy |-> policy, now |-> clock]]
  /\ UNCHANGED <<mode, clock, policy, segment, table, faults, latest, admitted, credited, granted,
                 forgotten, ideal, unjust>>

Most(S) == CHOOSE x \in S : \A y \in S : x >= y
FastestRate == Most({p.rate : p \in Policies})

LargestCapacity == Most({Capacity(p) : p \in Policies})

\* For the history, a bucket that no earlier time sets back: refilled, and refilled for a
\* check with the policy p.
Renewed(b, now) == Refill(b, IF b.lastRefill > now THEN b.lastRefill ELSE now)
Owned(b, p, now) ==
  LET r == Renewed(b, now) IN Refill(Reconfigure(r, p, r.lastRefill), r.lastRefill)

\* What the checks did to the buckets, for the history: k, and those the cleanup refilled.
Touched(t, before, k) ==
  {k} \cup (IF check[t].now >= before.nextCleanup THEN DOMAIN before.buckets ELSE {})

\* Bookkeeping of a check that had its answer from the bucket.
Account(t, before, allowed) ==
  LET c == check[t]
      touched == Touched(t, before, c.bucket)
      own == Owned(ideal[c.bucket], c.policy, c.now)
  IN  /\ credited' = [x \in Buckets |-> IF x \in touched THEN c.now ELSE credited[x]]
      /\ granted' = [x \in Buckets |->
           granted[x] + (IF x \in touched THEN FastestRate * Since(credited[x], c.now) ELSE 0)
                      + (IF x = c.bucket THEN Since(Capacity(c.policy), Capacity(ideal[x].policy)) ELSE 0)]
      /\ ideal' = [x \in Buckets |->
           IF x = c.bucket THEN [own EXCEPT !.tokens = IF allowed /\ @ > 0 THEN @ - 1 ELSE @]
           ELSE IF x \in touched THEN Renewed(ideal[x], c.now) ELSE ideal[x]]
      /\ admitted' = [admitted EXCEPT ![c.bucket] = @ + (IF allowed THEN 1 ELSE 0)]
      /\ unjust' = IF ~allowed /\ own.tokens >= 1 THEN unjust \cup {c.bucket} ELSE unjust

AfterCheck(t, base) ==
  LET c == check[t]
      cleaned == Cleanup(base, c.now)
      b == TryAcquire(Prepared(cleaned, c.bucket, c.policy, c.now))
  IN  [cleaned EXCEPT !.buckets = [x \in DOMAIN cleaned.buckets \cup {c.bucket} |->
         IF x = c.bucket THEN b ELSE cleaned.buckets[x]]]

Allowed(t, base) ==
  Prepared(Cleanup(base, check[t].now), check[t].bucket, check[t].policy, check[t].now).tokens >= 1

\* LocalRateLimiters::check_at, under the shard's mutex.
CheckLocal(t) ==
  /\ check[t].pc = "sampled" /\ ~mode.shared
  /\ table' = AfterCheck(t, table)
  /\ Account(t, table, Allowed(t, table))
  /\ check' = [check EXCEPT ![t] = Idle]
  /\ UNCHANGED <<mode, clock, policy, segment, faults, latest, forgotten>>

Lost(p) == IF table.buckets # <<>> /\ ~Attaches(p) THEN 1 ELSE 0

\* SharedRateLimitStore::check_at, under the file lock: the answer counts once the
\* document is written.
CheckShared(t) ==
  LET p == check[t].process
      base == Opened(p)
  IN  /\ check[t].pc = "sampled" /\ mode.shared
      /\ Readable(p) /\ Fits(AfterCheck(t, base), p)
      /\ segment' = [state |-> "ok", capacity |-> mode.capacity[p]]
      /\ table' = AfterCheck(t, base)
      /\ forgotten' = forgotten + Lost(p)
      /\ Account(t, base, Allowed(t, base))
      /\ check' = [check EXCEPT ![t] = Idle]
      /\ UNCHANGED <<mode, clock, policy, faults, latest>>

\* The document cannot be read or does not fit: the request is denied, and of the check
\* only a segment that was made stays.
CheckFails(t) ==
  LET p == check[t].process
      base == Opened(p)
  IN  /\ check[t].pc = "sampled" /\ mode.shared
      /\ ~Readable(p) \/ ~Fits(AfterCheck(t, base), p)
      /\ segment' = IF Attaches(p) THEN segment ELSE [state |-> "ok", capacity |-> mode.capacity[p]]
      /\ table' = base
      /\ forgotten' = forgotten + Lost(p)
      /\ check' = [check EXCEPT ![t] = Idle]
      /\ UNCHANGED <<mode, clock, policy, faults, latest, admitted, credited, granted, ideal, unjust>>

\* The process dies after the length and before the end of the document; its other
\* checks die with it, and the lock is released.
DieWritingDocument(t) ==
  LET p == check[t].process
  IN  /\ check[t].pc = "sampled" /\ mode.shared
      /\ Attaches(p) /\ segment.state = "ok" /\ faults < MaxFaults
      /\ segment' = [segment EXCEPT !.state = "torn"]
      /\ check' = [u \in Checks |-> IF check[u].pc # "idle" /\ check[u].process = p THEN Idle ELSE check[u]]
      /\ faults' = faults + 1
      /\ UNCHANGED <<mode, clock, policy, table, latest, admitted, credited, granted, forgotten, ideal, unjust>>

Tick ==
  /\ mode # NoMode /\ clock < MaxClock /\ clock' = clock + 1
  /\ latest' = IF clock' > latest THEN clock' ELSE latest
  /\ UNCHANGED <<mode, policy, check, segment, table, faults, admitted, credited, granted, forgotten, ideal, unjust>>

\* The wall clock is set back.
StepBack ==
  /\ mode.shared /\ clock > 0 /\ faults < MaxFaults
  /\ clock' = clock - 1 /\ faults' = faults + 1
  /\ UNCHANGED <<mode, policy, check, segment, table, latest, admitted, credited, granted, forgotten, ideal, unjust>>

\* A reload changes the limit of the route.
ChangePolicy ==
  /\ mode # NoMode /\ faults < MaxFaults
  /\ \E p \in Policies \ {policy} : policy' = p
  /\ faults' = faults + 1
  /\ UNCHANGED <<mode, clock, check, segment, table, latest, admitted, credited, granted, forgotten, ideal, unjust>>

RateNext ==
  \/ \E t \in DOMAIN check :
       \/ \E k \in Buckets : Sample(t, k)
       \/ CheckLocal(t) \/ CheckShared(t) \/ CheckFails(t) \/ DieWritingDocument(t)
  \/ Tick \/ StepBack \/ ChangePolicy

RateSpec == RateInit /\ [][RateNext]_rateVars

-----------------------------------------------------------------------------
\* A client is never admitted more often than the burst and the time that has passed
\* allow, whatever is evicted, reconfigured, torn or rejected: only time that a check
\* brought to the bucket too late, or a clock set back, is credited again, a raised burst
\* is granted at once if the bucket was evicted under the lower one, and only a segment
\* made anew forgets (refill, is_evictable, open_or_create_segment).
AdmittedWithinBudget ==
  mode # NoMode => \A k \in Buckets :
    admitted[k] <= LargestCapacity * (1 + forgotten) + FastestRate * latest + granted[k]

\* A client that has tokens left in a bucket of its own, credited for no time twice, is
\* not denied by the bucket: evictions, cleanups that other clients' checks run with
\* their own times, and reconfigurations take nothing away.
PoliteClientAdmitted == unjust = {}

\* The limiter is right in both directions: it admits no more than it promised to bound
\* and denies nobody who kept to it.
LimitExact == AdmittedWithinBudget /\ PoliteClientAdmitted
=============================================================================
