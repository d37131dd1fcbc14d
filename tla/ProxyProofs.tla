---------------------------- MODULE ProxyProofs ----------------------------
(***************************************************************************)
(* Proofs about the proxy side: the health of the peers of an upstream,    *)
(* the selection of peers by weight and by load, failover and the counters *)
(* of active requests, the age of the addresses a name resolves to and the *)
(* clients kept for them, for any upstreams, requests, policies and        *)
(* bounds.                                                                 *)
(***************************************************************************)
EXTENDS UpstreamPeers, Resolver, EndpointClients, FiniteSetTheorems, FunctionTheorems,
        DataInduction, TLAPS

-----------------------------------------------------------------------------
(* The health of the peers.                                                *)

\* An entry of the registry and the good probes in a row it goes by: the
\* passive and the active half of HealthEarned for one peer.
Earned(h, n) ==
    /\ h.until # "none" => h.failures >= Threshold /\ h.pending
    /\ ~h.pending => h.failures < Threshold
    /\ h.unhealthy <=> n < Required
    /\ h.unhealthy => h.successes = n

\* Every entry is earned by what was recorded at its peer.
HealthInv ==
    /\ health \in [Peers -> HealthType]
    /\ streak \in [Peers -> 0 .. Required]
    /\ \A p \in Peers : Earned(health[p], streak[p])

\* A success clears the passive state and nothing else.
LEMMA RecordSuccessEarned ==
    ASSUME NEW h \in HealthType, NEW n \in 0 .. Required, Earned(h, n)
    PROVE  RecordSuccess(h) \in HealthType /\ Earned(RecordSuccess(h), n)
<1>1. Threshold \in Nat /\ 0 < Threshold
  BY PolicyAssumption
<1>2. RecordSuccess(h) \in HealthType
  BY DEF RecordSuccess, HealthType
<1>3. /\ RecordSuccess(h).until = "none" /\ RecordSuccess(h).failures = 0
      /\ RecordSuccess(h).unhealthy = h.unhealthy /\ RecordSuccess(h).successes = h.successes
  BY DEF RecordSuccess, HealthType
<1> QED
  BY <1>1, <1>2, <1>3 DEF Earned

\* A failure starts a cooldown only when it is the Threshold-th in a row.
LEMMA RecordFailureEarned ==
    ASSUME NEW h \in HealthType, NEW n \in 0 .. Required, Earned(h, n)
    PROVE  RecordFailure(h) \in HealthType /\ Earned(RecordFailure(h), n)
<1> DEFINE old == IF h.until = "expired" THEN [h EXCEPT !.until = "none", !.failures = 0] ELSE h
           m == old.failures + 1
<1>1. /\ old \in HealthType /\ old.until \in {"none", "cooling"}
      /\ old.until = "cooling" => old.failures >= Threshold /\ old.pending
      /\ ~old.pending => old.failures < Threshold
      /\ old.unhealthy = h.unhealthy /\ old.successes = h.successes
  BY PolicyAssumption DEF HealthType, Earned
<1>2. RecordFailure(h) = IF old.until = "cooling" THEN [old EXCEPT !.failures = m]
                         ELSE IF m >= Threshold
                         THEN [old EXCEPT !.failures = m, !.until = "cooling", !.pending = TRUE]
                         ELSE [old EXCEPT !.failures = m]
  BY Zenon DEF RecordFailure
<1> HIDE DEF old
<1>3. old.failures \in Nat /\ m \in Nat /\ Threshold \in Nat
  BY <1>1, PolicyAssumption DEF HealthType
<1>4. CASE old.until = "cooling"
  BY <1>1, <1>2, <1>3, <1>4 DEF HealthType, Earned
<1>5. CASE old.until # "cooling" /\ m >= Threshold
  BY <1>1, <1>2, <1>3, <1>5 DEF HealthType, Earned
<1>6. CASE old.until # "cooling" /\ ~(m >= Threshold)
  BY <1>1, <1>2, <1>3, <1>6 DEF HealthType, Earned
<1> QED
  BY <1>4, <1>5, <1>6

\* A good probe brings the peer back when it is the last one required.
LEMMA RecordActiveSuccessEarned ==
    ASSUME NEW h \in HealthType, NEW n \in 0 .. Required, Earned(h, n),
           NEW m, m = IF n < Required THEN n + 1 ELSE Required
    PROVE  /\ RecordActiveSuccess(h) \in HealthType
           /\ m \in 0 .. Required
           /\ Earned(RecordActiveSuccess(h), m)
<1>1. Required \in Nat \ {0} /\ h.successes \in 0 .. Required - 1
  BY PolicyAssumption DEF HealthType
<1>0. 0 \in 0 .. Required - 1
  BY <1>1
<1>2. CASE ~h.unhealthy
  BY <1>1, <1>2 DEF RecordActiveSuccess, Earned
<1>3. CASE h.unhealthy /\ h.successes + 1 >= Required
  <2>1. /\ RecordActiveSuccess(h) = [h EXCEPT !.unhealthy = FALSE, !.successes = 0]
        /\ h.successes = n /\ n < Required /\ m = Required
    BY <1>1, <1>3 DEF RecordActiveSuccess, Earned
  <2>2. [h EXCEPT !.unhealthy = FALSE, !.successes = 0] \in HealthType
    BY <1>0 DEF HealthType
  <2> QED
    BY <1>1, <2>1, <2>2 DEF Earned, HealthType
<1>4. CASE h.unhealthy /\ ~(h.successes + 1 >= Required)
  <2>1. /\ RecordActiveSuccess(h) = [h EXCEPT !.successes = h.successes + 1]
        /\ h.successes = n /\ n < Required /\ m = n + 1 /\ n + 1 < Required
    BY <1>1, <1>4 DEF RecordActiveSuccess, Earned
  <2>2. [h EXCEPT !.successes = h.successes + 1] \in HealthType
    BY <1>1, <1>4 DEF HealthType
  <2> QED
    BY <1>1, <2>1, <2>2 DEF Earned, HealthType
<1> QED
  BY <1>2, <1>3, <1>4

\* A bad probe takes the peer out.
LEMMA RecordActiveFailureEarned ==
    ASSUME NEW h \in HealthType, NEW n \in 0 .. Required, Earned(h, n)
    PROVE  RecordActiveFailure(h) \in HealthType /\ Earned(RecordActiveFailure(h), 0)
<1>1. Required \in Nat /\ 0 < Required
  BY PolicyAssumption
<1>0. 0 \in 0 .. Required - 1
  BY <1>1
<1>2. RecordActiveFailure(h) \in HealthType
  BY <1>0 DEF RecordActiveFailure, HealthType
<1>3. /\ RecordActiveFailure(h).unhealthy = TRUE /\ RecordActiveFailure(h).successes = 0
      /\ RecordActiveFailure(h).until = h.until /\ RecordActiveFailure(h).failures = h.failures
      /\ RecordActiveFailure(h).pending = h.pending
  BY DEF RecordActiveFailure, HealthType
<1> QED
  BY <1>1, <1>2, <1>3 DEF Earned

\* The counter of active requests and the end of a cooldown leave the rest.
LEMMA OthersEarned ==
    ASSUME NEW h \in HealthType, NEW n \in 0 .. Required, Earned(h, n)
    PROVE  /\ IncrementActive(h) \in HealthType /\ Earned(IncrementActive(h), n)
           /\ DecrementActive(h) \in HealthType /\ Earned(DecrementActive(h), n)
           /\ h.until = "cooling" =>
                /\ [h EXCEPT !.until = "expired"] \in HealthType
                /\ Earned([h EXCEPT !.until = "expired"], n)
<1>1. IncrementActive(h) \in HealthType /\ Earned(IncrementActive(h), n)
  BY DEF IncrementActive, HealthType, Earned
<1>2. DecrementActive(h) \in HealthType /\ Earned(DecrementActive(h), n)
  BY DEF DecrementActive, HealthType, Earned
<1>3. h.until = "cooling" =>
                /\ [h EXCEPT !.until = "expired"] \in HealthType
                /\ Earned([h EXCEPT !.until = "expired"], n)
  BY DEF HealthType, Earned
<1> QED
  BY <1>1, <1>2, <1>3

\* A step that records one result at one peer keeps the invariant when the
\* record does; a peer the registry does not know leaves it as it is.
LEMMA SetHealthInv ==
    ASSUME HealthInv, NEW q, NEW h, SetHealth(q, h),
           q \in Peers => h \in HealthType /\ Earned(h, streak[q]),
           streak' = streak
    PROVE  HealthInv'
BY DEF SetHealth, HealthInv

\* Every step keeps the invariant.
LEMMA HealthInvNext == HealthInv /\ [Next]_vars => HealthInv'
<1> SUFFICES ASSUME HealthInv, [Next]_vars PROVE HealthInv'
  OBVIOUS
<1>0. \A q \in Peers : /\ health[q] \in HealthType /\ streak[q] \in 0 .. Required
                        /\ Earned(health[q], streak[q])
  BY DEF HealthInv
<1>1. ASSUME UNCHANGED <<health, streak>> PROVE HealthInv'
  BY <1>1 DEF HealthInv
<1>2. ASSUME NEW r \in Requests, Attempt(r) PROVE HealthInv'
  <2>1. SetHealth(PeerOf(Current(r)), IncrementActive(health[PeerOf(Current(r))])) /\ streak' = streak
    BY <1>2 DEF Attempt
  <2> QED
    BY <1>0, <2>1, OthersEarned, SetHealthInv
<1>3. ASSUME NEW r \in Requests, Succeed(r) PROVE HealthInv'
  <2>1. SetHealth(PeerOf(Current(r)), RecordSuccess(health[PeerOf(Current(r))])) /\ streak' = streak
    BY <1>3 DEF Succeed
  <2> QED
    BY <1>0, <2>1, RecordSuccessEarned, SetHealthInv
<1>4. ASSUME NEW r \in Requests, Fail(r) PROVE HealthInv'
  <2>1. SetHealth(PeerOf(Current(r)), RecordFailure(health[PeerOf(Current(r))])) /\ streak' = streak
    BY <1>4 DEF Fail
  <2> QED
    BY <1>0, <2>1, RecordFailureEarned, SetHealthInv
<1>5. ASSUME NEW r \in Requests, NEW t, Release(r, t) PROVE HealthInv'
  <2>1. SetHealth(PeerOf(task[r].guard), DecrementActive(health[PeerOf(task[r].guard)])) /\ streak' = streak
    BY <1>5 DEF Release
  <2> QED
    BY <1>0, <2>1, OthersEarned, SetHealthInv
<1>6. ASSUME NEW q \in Peers, CooldownEnds(q) PROVE HealthInv'
  <2>1. /\ SetHealth(q, [health[q] EXCEPT !.until = "expired"]) /\ streak' = streak
        /\ health[q].until = "cooling"
    BY <1>6 DEF CooldownEnds
  <2> QED
    BY <1>0, <2>1, OthersEarned, SetHealthInv
<1>7. ASSUME NEW q \in Peers, NEW h \in HealthType, NEW n \in 0 .. Required, Earned(h, n), Probed(q, h, n)
      PROVE  HealthInv'
  BY <1>7 DEF Probed, SetHealth, HealthInv
<1>8. ASSUME NEW q \in Peers, ProbeGood(q) PROVE HealthInv'
  <2> DEFINE m == IF streak[q] < Required THEN streak[q] + 1 ELSE Required
  <2>1. Probed(q, RecordActiveSuccess(health[q]), m)
    BY <1>8 DEF ProbeGood
  <2>2. /\ RecordActiveSuccess(health[q]) \in HealthType /\ m \in 0 .. Required
        /\ Earned(RecordActiveSuccess(health[q]), m)
    BY <1>0, RecordActiveSuccessEarned
  <2> HIDE DEF m
  <2> QED
    BY <1>7, <2>1, <2>2
<1>9. ASSUME NEW q \in Peers, ProbeBad(q) PROVE HealthInv'
  <2>1. Probed(q, RecordActiveFailure(health[q]), 0)
    BY <1>9 DEF ProbeBad
  <2>2. RecordActiveFailure(health[q]) \in HealthType /\ Earned(RecordActiveFailure(health[q]), 0)
    BY <1>0, RecordActiveFailureEarned
  <2>3. 0 \in 0 .. Required
    BY PolicyAssumption
  <2> QED
    BY <1>7, <2>1, <2>2, <2>3
<1>9a. ASSUME NEW q \in Peers, ProbeWithoutClient(q) PROVE HealthInv'
  <2>1. RecordActiveFailure(health[q]) \in HealthType /\ Earned(RecordActiveFailure(health[q]), 0)
    BY <1>0, RecordActiveFailureEarned
  <2>2. 0 \in 0 .. Required
    BY PolicyAssumption
  <2> QED
    BY <1>9a, <2>1, <2>2 DEF ProbeWithoutClient, SetHealth, HealthInv
<1>10. ASSUME NEW r \in Requests, RequestStep(r) PROVE HealthInv'
  <2>1. CASE Begin(r) \/ Resolve(r) \/ CountActive(r) \/ Examine(r) \/ FinishPool(r) \/ ClientBodyError(r) \/ Abandon(r)
    <3>1. UNCHANGED <<health, streak>>
      BY <2>1 DEF Begin, Resolve, CountActive, Examine, FinishPool, ClientBodyError, Abandon
    <3> QED
      BY <3>1, <1>1
  <2>2. CASE Respond(r) \/ FinishBody(r)
    <3>1. Succeed(r) \/ UNCHANGED <<health, streak>>
      BY <2>2 DEF Respond, FinishBody
    <3> QED
      BY <3>1, <1>1, <1>3
  <2>3. CASE Attempt(r) \/ Fail(r)
    BY <2>3, <1>2, <1>4
  <2>4. CASE Retry(r) \/ Finish(r) \/ Disconnect(r)
    <3>1. \E t : Release(r, t)
      BY <2>4, Zenon DEF Retry, Finish, Disconnect
    <3> QED
      BY <3>1, <1>5
  <2> QED
    BY <1>10, <2>1, <2>2, <2>3, <2>4 DEF RequestStep
<1>11. ASSUME NEW q \in Inside, ProbeStep(q) \/ CooldownEnds(q) PROVE HealthInv'
  <2>1. q \in Peers
    BY DEF Inside
  <2>2. CASE ProbeResolve(q)
    BY <2>2, <1>1 DEF ProbeResolve
  <2> QED
    BY <1>11, <2>1, <2>2, <1>6, <1>8, <1>9, <1>9a DEF ProbeStep
<1>12. ASSUME NEW due, StartRound(due) PROVE HealthInv'
  BY <1>12, <1>1 DEF StartRound
<1>13. CASE UNCHANGED vars
  BY <1>13, <1>1 DEF vars
<1> QED
  BY <1>10, <1>11, <1>12, <1>13 DEF Next

\* A peer is out only for what happened to it: cooling down after Threshold
\* failures in a row, out by the checker exactly while fewer than Required good
\* probes followed its last bad one, however requests, probes and the ends of
\* cooldowns interleave (record_failure, record_success, record_active_success,
\* record_active_failure).
THEOREM PeersOutWhenEarned == Spec => []HealthEarned
<1>1. Init => HealthInv
  <2> SUFFICES ASSUME Init PROVE HealthInv
    OBVIOUS
  <2>1. Healthy \in HealthType /\ Required \in 0 .. Required /\ Earned(Healthy, Required)
    BY PolicyAssumption DEF Healthy, HealthType, Earned
  <2> QED
    BY <2>1 DEF Init, HealthInv
<1>2. HealthInv => HealthEarned
  BY DEF HealthInv, Earned, HealthEarned, CooldownEarned, ProbesDecide
<1> QED
  BY <1>1, <1>2, HealthInvNext, PTL DEF Spec

-----------------------------------------------------------------------------
(* The configuration and the pools of an upstream.                         *)

\* What the proofs use of a configuration.
LEMMA UpstreamFacts ==
    ASSUME upstream \in Upstreams
    PROVE  /\ upstream.peers \in Seq(Peers) /\ Distinct(upstream.peers)
           /\ upstream.weight \in [Peers -> Nat] /\ \A p \in Peers : upstream.weight[p] > 0
           /\ upstream.backup \subseteq Peers /\ upstream.limit \in [Peers -> Nat]
           /\ upstream.endpoints \in [Peers -> Seq(Endpoints)]
           /\ \A p \in Peers : Distinct(upstream.endpoints[p])
           /\ \A p, q \in Peers : p # q =>
                ToSet(upstream.endpoints[p]) \cap ToSet(upstream.endpoints[q]) = {}
           /\ upstream.literal \subseteq Endpoints /\ upstream.policy \in Policies
<1>1. upstream \in UpstreamType
  BY UpstreamAssumption
<1> QED
  BY <1>1, UpstreamAssumption DEF UpstreamType

\* An address belongs to one peer.
LEMMA PeerOfEndpoint ==
    ASSUME upstream \in Upstreams, NEW p \in Peers, NEW e \in ToSet(upstream.endpoints[p])
    PROVE  PeerOf(e) = p
<1>1. \A q \in Peers : e \in ToSet(upstream.endpoints[q]) => q = p
  BY UpstreamFacts
<1> HIDE DEF PeerOf
<1> QED
  BY <1>1 DEF PeerOf

\* The elements of a sequence.
LEMMA ToSetOf ==
    ASSUME NEW T, NEW s \in Seq(T)
    PROVE  /\ ToSet(s) = {s[i] : i \in 1 .. Len(s)} /\ ToSet(s) \in SUBSET T
           /\ IsFiniteSet(ToSet(s)) /\ (ToSet(s) = {} <=> s = <<>>)
           /\ Distinct(s) => Cardinality(ToSet(s)) = Len(s)
<1>1. DOMAIN s = 1 .. Len(s) /\ Len(s) \in Nat
  OBVIOUS
<1>2. ToSet(s) = {s[i] : i \in 1 .. Len(s)} /\ ToSet(s) \in SUBSET T /\ s \in [1 .. Len(s) -> ToSet(s)]
  BY <1>1 DEF ToSet
<1>3. IsFiniteSet(1 .. Len(s)) /\ Cardinality(1 .. Len(s)) = Len(s)
  BY <1>1, FS_Interval
<1>4. s \in Surjection(1 .. Len(s), ToSet(s))
  BY <1>2, Fun_IsSurj
<1>5. IsFiniteSet(ToSet(s))
  BY <1>3, <1>4, FS_Surjection
<1>6. Distinct(s) => s \in Injection(1 .. Len(s), ToSet(s))
  BY <1>1, <1>2, Fun_IsInj DEF Distinct
<1>7. Distinct(s) => Cardinality(ToSet(s)) = Len(s)
  BY <1>3, <1>4, <1>6, FS_Surjection
<1>8. ToSet(s) = {} <=> s = <<>>
  <2>1. ToSet(s) = {} <=> Len(s) = 0
    BY <1>1, <1>2
  <2> QED
    BY <2>1
<1> QED
  BY <1>2, <1>5, <1>7, <1>8

\* Reading a sequence that has nothing twice by position.
LEMMA PicksProperties ==
    ASSUME NEW T, NEW U, NEW t \in Seq(T), NEW s \in Seq(U), NEW I \in SUBSET DOMAIN s, Picks(t, s, I)
    PROVE  /\ ToSet(t) = {s[i] : i \in I}
           /\ Distinct(s) => Distinct(t)
<1>1. PICK o \in [1 .. Len(t) -> I] :
         /\ \A n \in 1 .. Len(t) : t[n] = s[o[n]]
         /\ \A i \in I : \E n \in 1 .. Len(t) : o[n] = i
         /\ \A m, n \in 1 .. Len(t) : o[m] = o[n] => m = n
  BY DEF Picks
<1>2. DOMAIN t = 1 .. Len(t)
  OBVIOUS
<1>3. ToSet(t) = {s[i] : i \in I}
  <2>1. ToSet(t) = {t[n] : n \in 1 .. Len(t)}
    BY <1>2 DEF ToSet
  <2>2. \A n \in 1 .. Len(t) : o[n] \in I
    BY <1>1
  <2>3. ToSet(t) \subseteq {s[i] : i \in I}
    BY <1>1, <2>1, <2>2
  <2>4. {s[i] : i \in I} \subseteq ToSet(t)
    BY <1>1, <2>1
  <2> QED
    BY <2>3, <2>4
<1>4. Distinct(s) => Distinct(t)
  BY <1>1, <1>2 DEF Distinct
<1> QED
  BY <1>3, <1>4

\* The peers of the primary or of the backup pool.
PoolSet(b) == {p \in ToSet(upstream.peers) : (p \in upstream.backup) = b}

\* A pool lists its peers, each once.
LEMMA PoolProperties ==
    ASSUME upstream \in Upstreams, NEW b \in BOOLEAN
    PROVE  Pool(b) \in Seq(Peers) /\ Distinct(Pool(b)) /\ ToSet(Pool(b)) = PoolSet(b)
<1> DEFINE s == upstream.peers
           I == {i \in DOMAIN s : (s[i] \in upstream.backup) = b}
<1>1. s \in Seq(Peers) /\ Distinct(s) /\ I \in SUBSET DOMAIN s
  BY UpstreamFacts
<1>2. Pool(b) = AtPositions(s, I)
  BY DEF Pool
<1>3. Pool(b) \in Seq(Peers) /\ Picks(Pool(b), s, I)
  <2> HIDE DEF s, I
  <2> QED
    BY <1>1, <1>2, AtPositionsProperties
<1>4. PoolSet(b) = {s[i] : i \in I}
  BY DEF PoolSet, ToSet
<1> HIDE DEF s, I
<1>5. Distinct(Pool(b)) /\ ToSet(Pool(b)) = {s[i] : i \in I}
  BY <1>1, <1>3, PicksProperties
<1> QED
  BY <1>3, <1>4, <1>5
-----------------------------------------------------------------------------
(* Weights and slots.                                                      *)

\* The running sums of the weights.
LEMMA WeightsProperties ==
    ASSUME upstream \in Upstreams, NEW pool \in Seq(Peers)
    PROVE  /\ WeightsUpTo(pool) \in [0 .. Len(pool) -> Nat]
           /\ WeightsUpTo(pool)[0] = 0
           /\ \A n \in 1 .. Len(pool) :
                WeightsUpTo(pool)[n] = WeightsUpTo(pool)[n - 1] + upstream.weight[pool[n]]
<1> DEFINE m == Len(pool)
           w(n) == upstream.weight[pool[n]]
           step == [x \in Nat \X (1 .. m) |-> x[1] + w(x[2])]
           Equation(f) == f = [n \in 0 .. Len(pool) |->
                                 IF n = 0 THEN 0 ELSE f[n - 1] + upstream.weight[pool[n]]]
<1>1. m \in Nat /\ \A n \in 1 .. m : w(n) \in Nat
  BY UpstreamFacts
<1> HIDE DEF w
<1>2. step \in [Nat \X (1 .. m) -> Nat]
  BY <1>1
<1>3. \A x \in Nat, n \in 1 .. m : step[<<x, n>>] = x + w(n)
  OBVIOUS
<1>4. PICK f : Iterates(f, Nat, 0, m, step)
  <2> HIDE DEF step, m
  <2> QED
    BY <1>1, <1>2, IterationExists, Zenon
<1> HIDE DEF step
<1>5. ASSUME NEW n \in 1 .. m PROVE f[n] = f[n - 1] + w(n)
  <2>1. f[n] = step[<<f[n - 1], n>>]
    BY <1>4 DEF Iterates
  <2>2. f \in [0 .. m -> Nat] /\ n - 1 \in 0 .. m
    BY <1>1, <1>4 DEF Iterates
  <2>3. f[n - 1] \in Nat
    BY <2>2
  <2> QED
    BY <1>3, <2>1, <2>3
<1>6. Equation(f)
  BY <1>1, <1>4, <1>5 DEF Iterates, w
<1>7. Equation(WeightsUpTo(pool))
  <2>1. WeightsUpTo(pool) = CHOOSE g : Equation(g)
    BY Zenon DEF WeightsUpTo
  <2> HIDE DEF Equation
  <2> QED
    BY <1>6, <2>1, Zenon
<1> DEFINE s == WeightsUpTo(pool)
<1>8. DOMAIN s = 0 .. m /\ s[0] = 0 /\ \A n \in 1 .. m : s[n] = s[n - 1] + w(n)
  <2> HIDE DEF s
  <2>1. s = [n \in 0 .. m |-> IF n = 0 THEN 0 ELSE s[n - 1] + w(n)]
    BY <1>7 DEF s, w
  <2>2. DOMAIN s = 0 .. m
    BY <2>1
  <2>3. \A n \in 0 .. m : s[n] = IF n = 0 THEN 0 ELSE s[n - 1] + w(n)
    BY <2>1
  <2> QED
    BY <1>1, <2>2, <2>3
<1>9. \A n \in 0 .. m : s[n] \in Nat
  <2> DEFINE S == {n \in Nat : s[n] \in Nat}
  <2> HIDE DEF s
  <2>1. 0 \in S
    BY <1>8
  <2>2. ASSUME NEW n \in Nat, n < m, n \in S PROVE n + 1 \in S
    <3>1. n + 1 \in 1 .. m /\ (n + 1) - 1 = n /\ w(n + 1) \in Nat
      BY <1>1, <2>2
    <3>2. s[n + 1] = s[n] + w(n + 1)
      BY <1>8, <3>1
    <3> QED
      BY <2>2, <3>1, <3>2
  <2> HIDE DEF S, m
  <2>3. \A n \in 0 .. m : n \in S
    BY <1>1, <2>1, <2>2, BoundedInduction, Zenon
  <2> QED
    BY <2>3 DEF S
<1>10. s = [n \in 0 .. m |-> s[n]]
  BY <1>7
<1>11. s \in [0 .. m -> Nat]
  <2> HIDE DEF s
  <2> QED
    BY <1>9, <1>10
<1> QED
  BY <1>8, <1>11 DEF w

\* The slots of a peer come after those of the peers before it.
LEMMA WeightsIncrease ==
    ASSUME upstream \in Upstreams, NEW pool \in Seq(Peers)
    PROVE  \A i, j \in 0 .. Len(pool) : i < j => WeightsUpTo(pool)[i] < WeightsUpTo(pool)[j]
<1> DEFINE m == Len(pool)
           s == WeightsUpTo(pool)
           S == {n \in Nat : \A i \in 0 .. n : i < n => s[i] < s[n]}
<1>1. /\ m \in Nat /\ s \in [0 .. m -> Nat]
      /\ \A n \in 1 .. m : s[n - 1] < s[n]
  <2>1. \A n \in 1 .. m : upstream.weight[pool[n]] \in Nat /\ upstream.weight[pool[n]] > 0
    BY UpstreamFacts
  <2>2. /\ s \in [0 .. m -> Nat]
        /\ \A n \in 1 .. m : s[n] = s[n - 1] + upstream.weight[pool[n]]
    BY WeightsProperties
  <2>3. m \in Nat
    OBVIOUS
  <2> HIDE DEF s, m
  <2>4. ASSUME NEW n \in 1 .. m PROVE s[n - 1] < s[n]
    <3>1. s[n - 1] \in Nat /\ s[n] = s[n - 1] + upstream.weight[pool[n]]
      BY <2>2, <2>3
    <3> QED
      BY <2>1, <3>1
  <2> QED
    BY <2>2, <2>3, <2>4
<1> HIDE DEF s, m
<1>2. 0 \in S
  OBVIOUS
<1>3. ASSUME NEW n \in Nat, n < m, n \in S PROVE n + 1 \in S
  <2>1. s[n] < s[n + 1] /\ s[n] \in Nat /\ s[n + 1] \in Nat
    <3>1. n + 1 \in 1 .. m /\ (n + 1) - 1 = n
      BY <1>1, <1>3
    <3> QED
      BY <1>1, <3>1
  <2>2. ASSUME NEW i \in 0 .. n + 1, i < n + 1 PROVE s[i] < s[n + 1]
    <3>1. i \in 0 .. m /\ s[i] \in Nat /\ (i = n \/ s[i] < s[n])
      BY <1>1, <1>3, <2>2
    <3> QED
      BY <2>1, <3>1
  <2> QED
    BY <2>2
<1> HIDE DEF S
<1>4. \A n \in 0 .. m : n \in S
  BY <1>1, <1>2, <1>3, BoundedInduction, Zenon
<1> QED
  BY <1>1, <1>4 DEF S, s, m

\* The least of a set of natural numbers.
LEMMA MinIsLeast ==
    ASSUME NEW S \in SUBSET Nat, S # {}
    PROVE  Min(S) \in S /\ \A y \in S : Min(S) <= y
<1>1. \E x \in S : \A y \in S : x <= y
  BY LeastNatural, Zenon
<1> QED
  BY <1>1 DEF Min

\* Slot k of a pool belongs to the peer whose range of slots it lies in.
LEMMA PeerForSlotProperties ==
    ASSUME upstream \in Upstreams, NEW pool \in Seq(Peers), NEW k \in 0 .. WeightOf(pool) - 1
    PROVE  /\ PeerForSlot(pool, k) \in ToSet(pool)
           /\ \A i \in DOMAIN pool :
                WeightsUpTo(pool)[i - 1] <= k /\ k < WeightsUpTo(pool)[i] => PeerForSlot(pool, k) = pool[i]
           /\ \E i \in DOMAIN pool :
                /\ WeightsUpTo(pool)[i - 1] <= k /\ k < WeightsUpTo(pool)[i]
                /\ PeerForSlot(pool, k) = pool[i]
<1> DEFINE ends == WeightsUpTo(pool)
           m == Len(pool)
           S == {i \in DOMAIN pool : k < ends[i]}
           j == Min(S)
<1>1. /\ m \in Nat /\ DOMAIN pool = 1 .. m /\ ends \in [0 .. m -> Nat] /\ ends[0] = 0
      /\ \A x, y \in 0 .. m : x < y => ends[x] < ends[y]
  BY WeightsProperties, WeightsIncrease
<1>2. k \in Nat /\ k < ends[m]
  <2>1. WeightOf(pool) = ends[m]
    BY DEF WeightOf
  <2>2. ends[m] \in Nat
    BY <1>1
  <2> HIDE DEF ends
  <2> QED
    BY <2>1, <2>2
<1>3. PeerForSlot(pool, k) = pool[j]
  BY DEF PeerForSlot
<1> HIDE DEF ends, m
<1>4. S \in SUBSET Nat /\ S # {}
  <2>1. m # 0
    BY <1>1, <1>2
  <2> QED
    BY <1>1, <1>2, <2>1
<1>5. j \in S /\ \A y \in S : j <= y
  <2> HIDE DEF S
  <2> QED
    BY <1>4, MinIsLeast, Zenon
<1> HIDE DEF j
<1>6. j \in 1 .. m /\ k < ends[j]
  BY <1>1, <1>5
<1>7. ends[j - 1] <= k
  <2>1. j - 1 \in 0 .. m /\ ends[j - 1] \in Nat /\ ~(j <= j - 1)
    BY <1>1, <1>6
  <2>2. CASE j = 1
    BY <1>1, <1>2, <2>2
  <2>3. CASE j # 1
    <3>1. j - 1 \in DOMAIN pool
      BY <1>1, <1>6, <2>3
    <3>2. j - 1 \notin S
      <4> HIDE DEF S
      <4> QED
        BY <1>5, <2>1
    <3> QED
      BY <1>2, <2>1, <3>1, <3>2
  <2> QED
    BY <2>2, <2>3
<1>8. ASSUME NEW i \in DOMAIN pool, ends[i - 1] <= k, k < ends[i] PROVE i = j
  <2>1. i \in 1 .. m /\ i - 1 \in 0 .. m /\ j - 1 \in 0 .. m
    BY <1>1, <1>6
  <2>2. ends[i] \in Nat /\ ends[j] \in Nat /\ ends[i - 1] \in Nat /\ ends[j - 1] \in Nat
    BY <1>1, <1>6, <2>1
  <2>3. j <= i
    BY <1>5, <1>8, <2>1
  <2>4. CASE j < i
    <3>1. j = i - 1 \/ j < i - 1
      BY <1>6, <2>1, <2>4
    <3>2. ends[j] <= ends[i - 1]
      BY <1>1, <1>6, <2>1, <2>2, <3>1
    <3> QED
      BY <1>2, <1>6, <1>8, <2>2, <3>2
  <2> QED
    BY <1>6, <2>1, <2>3, <2>4
<1>9. pool[j] \in ToSet(pool) /\ j \in DOMAIN pool
  BY <1>1, <1>6 DEF ToSet
<1> QED
  BY <1>3, <1>6, <1>7, <1>8, <1>9 DEF ends

\* The positions of two different slots of a turn are different, and every
\* slot comes up in a turn.
LEMMA TurnProperties ==
    ASSUME NEW t \in Nat \ {0}, NEW c \in 0 .. t - 1
    PROVE  /\ \A k \in 0 .. t - 1 : (c + k) % t \in 0 .. t - 1
           /\ \A k, l \in 0 .. t - 1 : (c + k) % t = (c + l) % t => k = l
           /\ \A x \in 0 .. t - 1 : \E k \in 0 .. t - 1 : (c + k) % t = x
<1> DEFINE g(k) == IF c + k < t THEN c + k ELSE c + k - t
<1>1. \A k \in 0 .. t - 1 : (c + k) % t = g(k)
  BY RemainderTurn
<1>2. \A k \in 0 .. t - 1 : g(k) \in 0 .. t - 1
  OBVIOUS
<1>3. \A k, l \in 0 .. t - 1 : g(k) = g(l) => k = l
  OBVIOUS
<1>4. ASSUME NEW x \in 0 .. t - 1 PROVE \E k \in 0 .. t - 1 : g(k) = x
  <2>1. CASE c <= x
    <3>1. x - c \in 0 .. t - 1 /\ g(x - c) = x
      BY <2>1
    <3> QED
      BY <3>1
  <2>2. CASE ~(c <= x)
    <3>1. x - c + t \in 0 .. t - 1 /\ g(x - c + t) = x
      BY <2>2
    <3> QED
      BY <3>1
  <2> QED
    BY <2>1, <2>2
<1> HIDE DEF g
<1>5. \A k, l \in 0 .. t - 1 : (c + k) % t = (c + l) % t => k = l
  BY <1>1, <1>3
<1>6. \A x \in 0 .. t - 1 : \E k \in 0 .. t - 1 : (c + k) % t = x
  BY <1>1, <1>4
<1> QED
  BY <1>1, <1>2, <1>5, <1>6

\* An order by a number that tells the elements apart.
LEMMA OrderByNumber ==
    ASSUME NEW S, NEW f \in [S -> Nat], \A x, y \in S : f[x] = f[y] => x = y
    PROVE  StrictOrder(S, {xy \in S \X S : f[xy[1]] < f[xy[2]]})
<1> DEFINE R == {xy \in S \X S : f[xy[1]] < f[xy[2]]}
<1>1. \A x, y \in S : <<x, y>> \in R <=> f[x] < f[y]
  OBVIOUS
<1>2. \A x \in S : f[x] \in Nat
  OBVIOUS
<1> HIDE DEF R
<1>3. \A x \in S : <<x, x>> \notin R
  BY <1>1, <1>2
<1>4. \A x, y, z \in S : <<x, y>> \in R /\ <<y, z>> \in R => <<x, z>> \in R
  BY <1>1, <1>2
<1>5. ASSUME NEW x \in S, NEW y \in S, x # y PROVE <<x, y>> \in R \/ <<y, x>> \in R
  <2>1. f[x] # f[y] /\ f[x] \in Nat /\ f[y] \in Nat
    BY <1>5
  <2>2. f[x] < f[y] \/ f[y] < f[x]
    BY <2>1
  <2> QED
    BY <1>1, <2>2
<1>6. StrictOrder(S, R)
  BY <1>3, <1>4, <1>5 DEF StrictOrder
<1> QED
  BY <1>6 DEF R


\* A pool with a peer has slots.
LEMMA PositiveWeight ==
    ASSUME upstream \in Upstreams, NEW pool \in Seq(Peers), pool # <<>>
    PROVE  WeightOf(pool) \in Nat \ {0}
<1> DEFINE s == WeightsUpTo(pool)
<1>1. s \in [0 .. Len(pool) -> Nat] /\ \A x, y \in 0 .. Len(pool) : x < y => s[x] < s[y]
  BY WeightsProperties, WeightsIncrease
<1>2. 0 \in 0 .. Len(pool) /\ Len(pool) \in 0 .. Len(pool) /\ 0 < Len(pool)
  OBVIOUS
<1>3. WeightOf(pool) = s[Len(pool)]
  BY DEF WeightOf
<1> HIDE DEF s
<1>4. s[0] \in Nat /\ s[Len(pool)] \in Nat /\ s[0] < s[Len(pool)]
  BY <1>1, <1>2
<1> QED
  BY <1>3, <1>4

\* WeightedOrder lists the peers of the pool, each once, and begins with the
\* peer of the slot it starts from.
LEMMA WeightedOrderProperties ==
    ASSUME upstream \in Upstreams, NEW pool \in Seq(Peers), pool # <<>>, Distinct(pool),
           NEW start \in 0 .. WeightOf(pool) - 1
    PROVE  /\ WeightedOrder(pool, start) \in Seq(ToSet(pool))
           /\ Distinct(WeightedOrder(pool, start))
           /\ ToSet(WeightedOrder(pool, start)) = ToSet(pool)
           /\ WeightedOrder(pool, start)[1] = PeerForSlot(pool, start)
<1> DEFINE total == WeightOf(pool)
           T == ToSet(pool)
           at(k) == PeerForSlot(pool, (start + k - 1) % total)
           slots == {<<k, PeerForSlot(pool, (start + k - 1) % total)>> : k \in 1 .. total}
           Of(p) == {slot[1] : slot \in {x \in slots : x[2] = p}}
           first == [p \in T |-> Min(Of(p))]
           order == {pq \in T \X T : first[pq[1]] < first[pq[2]]}
           w == WeightedOrder(pool, start)
           c == Cardinality(T)
<1>1. total \in Nat \ {0} /\ start \in 0 .. total - 1
  BY PositiveWeight
<1>2. IsFiniteSet(T) /\ T # {} /\ T \in SUBSET Peers /\ c = Len(pool) /\ c \in Nat \ {0}
  BY ToSetOf
<1>3. w = Sorted(T, order)
  <2>1. \A p \in T : Min({slot[1] : slot \in {x \in slots : x[2] = p}}) = first[p]
    OBVIOUS
  <2> DEFINE R == {pq \in T \X T : Min({slot[1] : slot \in {x \in slots : x[2] = pq[1]}})
                                     < Min({slot[1] : slot \in {x \in slots : x[2] = pq[2]}})}
  <2>2. w = Sorted(T, R)
    BY DEF WeightedOrder
  <2>3. R = order
    <3> HIDE DEF first, slots, T
    <3> QED
      BY <2>1
  <2> QED
    BY <2>2, <2>3
<1>4. ASSUME NEW k \in 1 .. total PROVE (start + k - 1) % total \in 0 .. total - 1 /\ at(k) \in T
  <2>1. (start + k - 1) % total \in 0 .. total - 1
    <3>1. start + k - 1 \in Nat
      BY <1>1
    <3> DEFINE z == start + k - 1
    <3> HIDE DEF z, total
    <3>2. z % total \in 0 .. total - 1
      BY <1>1, <3>1, RemainderSplit DEF z
    <3> QED
      BY <3>2 DEF z
  <2> QED
    BY <2>1, PeerForSlotProperties
<1>5. ASSUME NEW p PROVE Of(p) = {k \in 1 .. total : at(k) = p}
  <2>1. slots = {<<k, at(k)>> : k \in 1 .. total}
    OBVIOUS
  <2> HIDE DEF slots, at, total
  <2>2. Of(p) \subseteq {k \in 1 .. total : at(k) = p}
    BY <2>1
  <2>3. ASSUME NEW k \in 1 .. total, at(k) = p PROVE k \in Of(p)
    <3>1. <<k, p>> \in slots
      BY <2>1, <2>3
    <3> QED
      BY <3>1
  <2> HIDE DEF Of
  <2> QED
    BY <2>2, <2>3
<1> HIDE DEF Of, slots
<1>6. ASSUME NEW p \in T PROVE \E k \in 1 .. total : at(k) = p
  <2>1. PICK i \in 1 .. Len(pool) : p = pool[i]
    BY ToSetOf
  <2>2. /\ WeightsUpTo(pool) \in [0 .. Len(pool) -> Nat]
        /\ \A x, y \in 0 .. Len(pool) : x < y => WeightsUpTo(pool)[x] < WeightsUpTo(pool)[y]
    BY WeightsProperties, WeightsIncrease
  <2> DEFINE s == WeightsUpTo(pool)[i - 1]
  <2>3. s \in Nat /\ s < WeightsUpTo(pool)[i] /\ i \in DOMAIN pool
    BY <2>2
  <2>4. s < total
    <3>1. total = WeightsUpTo(pool)[Len(pool)]
      BY DEF WeightOf
    <3>2. i - 1 < Len(pool) /\ i - 1 \in 0 .. Len(pool) /\ Len(pool) \in 0 .. Len(pool)
      OBVIOUS
    <3> HIDE DEF total
    <3> QED
      BY <2>2, <3>1, <3>2
  <2>5. s \in 0 .. total - 1
    BY <1>1, <2>3, <2>4
  <2>6. PeerForSlot(pool, s) = pool[i]
    BY <2>3, <2>5, PeerForSlotProperties
  <2>7. PICK k \in 0 .. total - 1 : (start + k) % total = s
    <3> HIDE DEF s, total
    <3> QED
      BY <1>1, <2>5, TurnProperties
  <2>8. k + 1 \in 1 .. total /\ start + (k + 1) - 1 = start + k
    BY <1>1
  <2>9. at(k + 1) = p
    BY <2>1, <2>6, <2>7, <2>8
  <2> HIDE DEF at
  <2> QED
    BY <2>8, <2>9
<1>7. ASSUME NEW p \in T PROVE first[p] \in 1 .. total /\ at(first[p]) = p /\ \A k \in 1 .. total : at(k) = p => first[p] <= k
  <2>1. Of(p) \in SUBSET Nat /\ Of(p) # {}
    <3> HIDE DEF at, total, T
    <3>1. Of(p) = {k \in 1 .. total : at(k) = p}
      BY <1>5, Zenon
    <3>2. \E k \in 1 .. total : at(k) = p
      BY <1>6, Zenon
    <3> QED
      BY <1>1, <3>1, <3>2
  <2>2. first[p] = Min(Of(p))
    OBVIOUS
  <2>3. first[p] \in Of(p) /\ \A k \in Of(p) : first[p] <= k
    <3> HIDE DEF first
    <3> QED
      BY <2>1, <2>2, MinIsLeast
  <2> HIDE DEF first, at
  <2> QED
    BY <1>5, <2>3
<1>8. first \in [T -> Nat]
  <2>1. \A p \in T : first[p] \in Nat
    BY <1>1, <1>7
  <2> HIDE DEF T, Of
  <2> QED
    BY <2>1
<1> HIDE DEF first, at, T, total
<1>9. \A p, q \in T : first[p] = first[q] => p = q
  BY <1>7
<1>10. StrictOrder(T, order)
  BY <1>8, <1>9, OrderByNumber
<1> HIDE DEF order
<1>11. /\ w \in [1 .. c -> T]
       /\ \A x \in T : \E n \in 1 .. c : w[n] = x
       /\ \A m, n \in 1 .. c : m < n => <<w[m], w[n]>> \in order
       /\ \A m, n \in 1 .. c : w[m] = w[n] => m = n
  BY <1>2, <1>3, <1>10, SortedProperties
<1> HIDE DEF w, c
<1>12. w \in Seq(T) /\ DOMAIN w = 1 .. c
  BY <1>2, <1>11
<1>13. Distinct(w)
  BY <1>11, <1>12 DEF Distinct
<1>14. ToSet(w) = T
  <2>1. ToSet(w) = {w[n] : n \in 1 .. c}
    BY <1>12 DEF ToSet
  <2> QED
    BY <1>11, <2>1
<1>15. w[1] = PeerForSlot(pool, start)
  <2> DEFINE p == PeerForSlot(pool, start)
  <2>1. at(1) = p
    <3>1. start + 1 - 1 = start /\ start % total = start
      BY <1>1
    <3> QED
      BY <3>1 DEF at
  <2>2. 1 \in 1 .. total /\ p \in T
    BY <1>1, <1>4, <2>1
  <2> HIDE DEF p
  <2>3. first[p] = 1
    BY <1>1, <1>7, <2>1, <2>2
  <2>4. PICK n \in 1 .. c : w[n] = p
    BY <1>11, <2>2
  <2>5. ASSUME n # 1 PROVE FALSE
    <3>1. 1 \in 1 .. c /\ 1 < n
      BY <1>2, <2>5
    <3>2. <<w[1], p>> \in order /\ w[1] \in T
      BY <1>11, <2>4, <3>1
    <3>3. first[w[1]] < 1
      BY <2>3, <3>2 DEF order
    <3> QED
      BY <1>1, <1>7, <3>2, <3>3
  <2> QED
    BY <2>4, <2>5 DEF p
<1> QED
  BY <1>12, <1>13, <1>14, <1>15 DEF w, T

\* The share of a peer in a turn is the number of its slots: the cursor and
\* what is added to it name every slot once.
LEMMA SharesAreWeights ==
    ASSUME upstream \in Upstreams, cursor \in Nat
    PROVE  WeightedShare
<1> SUFFICES ASSUME NEW b \in BOOLEAN,
                    NEW p \in ToSet(Pool(b))
             PROVE  LET pool == Pool(b)
                        total == WeightOf(pool)
                        leads == {<<k, WeightedOrder(pool, (cursor + k) % total)[1]>> : k \in 0 .. total - 1}
                    IN  upstream.weight[p] = Cardinality({lead \in leads : lead[2] = p})
  BY DEF WeightedShare
<1> DEFINE pool == Pool(b)
           total == WeightOf(pool)
           ends == WeightsUpTo(pool)
           c == cursor % total
           at(k) == (cursor + k) % total
           leads == {<<k, WeightedOrder(pool, (cursor + k) % total)[1]>> : k \in 0 .. total - 1}
           L == {lead \in leads : lead[2] = p}
<1>1. pool \in Seq(Peers) /\ Distinct(pool)
  BY PoolProperties
<1> HIDE DEF pool
<1>2. PICK i \in 1 .. Len(pool) : p = pool[i]
  BY <1>1, ToSetOf DEF pool
<1>3. pool # <<>> /\ i \in DOMAIN pool /\ Len(pool) \in Nat
  BY <1>1, <1>2
<1>4. /\ ends \in [0 .. Len(pool) -> Nat] /\ total = ends[Len(pool)]
      /\ \A x, y \in 0 .. Len(pool) : x < y => ends[x] < ends[y]
      /\ ends[i] = ends[i - 1] + upstream.weight[p]
  BY <1>1, <1>2, WeightsProperties, WeightsIncrease DEF WeightOf
<1> HIDE DEF ends
<1>5. /\ ends[i - 1] \in Nat /\ ends[i] \in Nat /\ total \in Nat /\ ends[i - 1] < ends[i] /\ ends[i] <= total
  <2>1. i - 1 \in 0 .. Len(pool) /\ i \in 0 .. Len(pool) /\ i - 1 < i /\ Len(pool) \in 0 .. Len(pool)
    BY <1>2, <1>3
  <2>2. i = Len(pool) \/ i < Len(pool)
    BY <1>2, <1>3
  <2>3. ends[i - 1] \in Nat /\ ends[i] \in Nat /\ ends[Len(pool)] \in Nat
    BY <1>4, <2>1
  <2>4. ends[i - 1] < ends[i]
    BY <1>4, <2>1
  <2>5. ends[i] <= ends[Len(pool)]
    BY <1>4, <2>1, <2>2, <2>3
  <2> HIDE DEF total
  <2> QED
    BY <1>4, <2>3, <2>4, <2>5
<1> DEFINE S == ends[i - 1] .. ends[i] - 1
<1>6. total \in Nat \ {0} /\ c \in 0 .. total - 1
  <2>1. total \in Nat \ {0}
    BY <1>5
  <2> HIDE DEF total
  <2> QED
    BY <2>1, RemainderSplit
<1>7. /\ \A k \in 0 .. total - 1 : at(k) \in 0 .. total - 1
      /\ \A k, l \in 0 .. total - 1 : at(k) = at(l) => k = l
      /\ \A x \in 0 .. total - 1 : \E k \in 0 .. total - 1 : at(k) = x
  <2> HIDE DEF total, c
  <2>1. ASSUME NEW k \in 0 .. total - 1 PROVE at(k) = (c + k) % total
    <3>1. k \in Nat
      BY <1>6
    <3> QED
      BY <1>6, <3>1, RemainderShift, Zenon DEF c
  <2> HIDE DEF at
  <2> DEFINE K == 0 .. total - 1
  <2>2. /\ \A k \in K : (c + k) % total \in K
        /\ \A k, l \in K : (c + k) % total = (c + l) % total => k = l
        /\ \A x \in K : \E k \in K : (c + k) % total = x
    BY <1>6, TurnProperties, Zenon
  <2>3. \A k \in K : at(k) = (c + k) % total
    BY <2>1
  <2> HIDE DEF K
  <2>4. /\ \A k \in K : at(k) \in K
        /\ \A k, l \in K : at(k) = at(l) => k = l
        /\ \A x \in K : \E k \in K : at(k) = x
    BY <2>2, <2>3
  <2> QED
    BY <2>4 DEF K
<1>8. ASSUME NEW k \in 0 .. total - 1
      PROVE  WeightedOrder(pool, (cursor + k) % total)[1] = PeerForSlot(pool, at(k))
  BY <1>1, <1>3, <1>7, WeightedOrderProperties
<1>9. ASSUME NEW x \in 0 .. total - 1 PROVE PeerForSlot(pool, x) = p <=> x \in S
  <2>1. /\ \A j \in DOMAIN pool : ends[j - 1] <= x /\ x < ends[j] => PeerForSlot(pool, x) = pool[j]
        /\ \E j \in DOMAIN pool : ends[j - 1] <= x /\ x < ends[j] /\ PeerForSlot(pool, x) = pool[j]
    BY <1>1, PeerForSlotProperties DEF ends
  <2>2. x \in S <=> ends[i - 1] <= x /\ x < ends[i]
    BY <1>5
  <2>3. ASSUME x \in S PROVE PeerForSlot(pool, x) = p
    BY <1>2, <1>3, <2>1, <2>2, <2>3
  <2>4. ASSUME PeerForSlot(pool, x) = p PROVE x \in S
    <3>1. PICK j \in DOMAIN pool : ends[j - 1] <= x /\ x < ends[j] /\ PeerForSlot(pool, x) = pool[j]
      BY <2>1
    <3>2. j = i
      BY <1>1, <1>2, <1>3, <2>4, <3>1 DEF Distinct
    <3> QED
      BY <2>2, <3>1, <3>2
  <2> QED
    BY <2>3, <2>4
<1> HIDE DEF total, c
<1>10. L = {<<k, p>> : k \in {n \in 0 .. total - 1 : at(n) \in S}}
  <2> DEFINE K == 0 .. total - 1
             lead(k) == WeightedOrder(pool, (cursor + k) % total)[1]
  <2>1. \A k \in K : lead(k) = p <=> at(k) \in S
    BY <1>7, <1>8, <1>9
  <2>2. leads = {<<k, lead(k)>> : k \in K}
    OBVIOUS
  <2> HIDE DEF lead, at, S, K, leads
  <2>3. L = {<<k, p>> : k \in {n \in K : at(n) \in S}}
    <3>1. L \subseteq {<<k, p>> : k \in {n \in K : at(n) \in S}}
      BY <2>1, <2>2
    <3>2. ASSUME NEW k \in K, at(k) \in S PROVE <<k, p>> \in L
      <4>1. lead(k) = p
        BY <2>1, <3>2
      <4>2. <<k, p>> \in leads
        BY <2>2, <4>1
      <4> QED
        BY <4>2
    <3> HIDE DEF L
    <3> QED
      BY <3>1, <3>2
  <2> QED
    BY <2>3 DEF K
<1> HIDE DEF L, leads, at
<1> DEFINE f == [lead \in L |-> at(lead[1])]
<1>11. \A x \in S : x \in 0 .. total - 1
  BY <1>5
<1>12. f \in [L -> S] /\ \A x, y \in L : f[x] = f[y] => x = y
  <2>1. ASSUME NEW x \in L PROVE x = <<x[1], p>> /\ x[1] \in 0 .. total - 1 /\ at(x[1]) \in S
    BY <1>10
  <2> HIDE DEF S
  <2>2. \A x \in L : f[x] = at(x[1])
    OBVIOUS
  <2>3. f \in [L -> S]
    BY <2>1
  <2>4. ASSUME NEW x \in L, NEW y \in L, f[x] = f[y] PROVE x = y
    <3>1. x[1] = y[1]
      BY <1>7, <2>1, <2>2, <2>4
    <3> QED
      BY <2>1, <3>1
  <2> QED
    BY <2>3, <2>4
<1>13. \A x \in S : \E y \in L : f[y] = x
  <2> TAKE x \in S
  <2>1. PICK k \in 0 .. total - 1 : at(k) = x
    BY <1>7, <1>11
  <2> HIDE DEF S
  <2>2. <<k, p>> \in L
    BY <1>10, <2>1
  <2>3. f[<<k, p>>] = x
    BY <2>1, <2>2
  <2> QED
    BY <2>2, <2>3
<1>14. IsFiniteSet(S) /\ Cardinality(S) = upstream.weight[p]
  <2>1. upstream.weight[p] \in Nat
    BY <1>1, <1>2, UpstreamFacts
  <2>2. IsFiniteSet(S) /\ Cardinality(S) = IF ends[i - 1] > ends[i] - 1 THEN 0 ELSE (ends[i] - 1) - ends[i - 1] + 1
    <3> DEFINE y == ends[i - 1]
               z == ends[i] - 1
    <3>1. y \in Int /\ z \in Int
      BY <1>5
    <3> HIDE DEF y, z
    <3>2. IsFiniteSet(y .. z) /\ Cardinality(y .. z) = IF y > z THEN 0 ELSE z - y + 1
      BY <3>1, FS_Interval
    <3> QED
      BY <3>2 DEF y, z
  <2> QED
    BY <1>4, <1>5, <2>1, <2>2
<1> HIDE DEF f, S
<1>15. f \in Injection(L, S) /\ f \in Surjection(L, S)
  BY <1>12, <1>13, Fun_IsInj, Fun_IsSurj
<1>16. Cardinality(L) = Cardinality(S)
  BY <1>14, <1>15, FS_Injection
<1> QED
  BY <1>14, <1>16 DEF L, leads, total, pool

-----------------------------------------------------------------------------
(* The endpoints found in a pool.                                          *)

\* The endpoints found; none is found twice; the endpoints of s, as many as in f.
FoundSet(f) == {f[i].endpoint : i \in DOMAIN f}
FoundOnce(f) == \A i, j \in DOMAIN f : f[i].endpoint = f[j].endpoint => i = j

FoundNames(f, s) == [n \in DOMAIN f |-> s[n].endpoint]

\* The endpoints found, read in another order.
LEMMA EndpointsArranged ==
    ASSUME NEW f \in FoundType, NEW s \in FoundType, Len(s) = Len(f), Picks(s, f, DOMAIN f), FoundOnce(f)
    PROVE  /\ FoundNames(f, s) \in Seq(Endpoints) /\ Distinct(FoundNames(f, s))
           /\ ToSet(FoundNames(f, s)) = FoundSet(f) /\ Len(FoundNames(f, s)) = Len(f)
<1> DEFINE D == 1 .. Len(f)
           Found == [endpoint : Endpoints, active : Nat]
           r == FoundNames(f, s)
<1>1. /\ DOMAIN f = D /\ DOMAIN s = D /\ Len(f) \in Nat
      /\ \A n \in D : s[n] \in Found
  <2>1. f \in Seq(Found) /\ s \in Seq(Found)
    BY DEF FoundType
  <2> HIDE DEF Found
  <2> QED
    BY <2>1
<1> DEFINE E == 1 .. Len(s)
<1>2. PICK o \in [E -> DOMAIN f] :
         /\ \A n \in E : s[n] = f[o[n]]
         /\ \A i \in DOMAIN f : \E n \in E : o[n] = i
         /\ \A m, n \in E : o[m] = o[n] => m = n
  BY Zenon DEF Picks
<1>3. E = D /\ DOMAIN f = D
  BY <1>1
<1>4. r = [n \in 1 .. Len(f) |-> s[n].endpoint] /\ \A n \in 1 .. Len(f) : s[n].endpoint \in Endpoints
  <2>1. r = [n \in DOMAIN f |-> s[n].endpoint]
    BY DEF FoundNames
  <2>2. \A n \in D : s[n].endpoint \in Endpoints
    BY <1>1
  <2> QED
    BY <1>1, <2>1, <2>2
<1>5. r \in Seq(Endpoints) /\ Len(r) = Len(f)
  BY <1>1, <1>4
<1>6. DOMAIN r = D /\ \A n \in D : r[n] = f[o[n]].endpoint
  BY <1>2, <1>4, <1>3
<1> HIDE DEF D, r, E
<1>7. Distinct(r)
  <2>1. ASSUME NEW i \in D, NEW j \in D, r[i] = r[j] PROVE i = j
    <3>1. o[i] \in D /\ o[j] \in D /\ f[o[i]].endpoint = f[o[j]].endpoint
      BY <1>2, <1>6, <1>3, <2>1
    <3>2. o[i] = o[j]
      BY <1>1, <3>1 DEF FoundOnce
    <3> QED
      BY <1>2, <1>3, <3>2
  <2> QED
    BY <1>6, <2>1 DEF Distinct
<1>8. ToSet(r) = FoundSet(f)
  <2>1. ToSet(r) = {r[n] : n \in D} /\ FoundSet(f) = {f[i].endpoint : i \in D}
    BY <1>1, <1>6 DEF ToSet, FoundSet
  <2>2. \A n \in D : r[n] \in FoundSet(f)
    BY <1>2, <1>6, <1>3, <2>1
  <2>3. \A i \in D : f[i].endpoint \in ToSet(r)
    BY <1>2, <1>6, <1>3, <2>1
  <2> QED
    BY <2>1, <2>2, <2>3
<1> QED
  BY <1>5, <1>7, <1>8 DEF r

\* An order by a number, then by position.
LEMMA OrderThenPosition ==
    ASSUME NEW D \in SUBSET Nat, NEW d \in [D -> Nat]
    PROVE  StrictOrder(D, {ij \in D \X D : d[ij[1]] < d[ij[2]] \/ (d[ij[1]] = d[ij[2]] /\ ij[1] < ij[2])})
<1> DEFINE R == {ij \in D \X D : d[ij[1]] < d[ij[2]] \/ (d[ij[1]] = d[ij[2]] /\ ij[1] < ij[2])}
<1>1. \A x, y \in D : <<x, y>> \in R <=> d[x] < d[y] \/ (d[x] = d[y] /\ x < y)
  OBVIOUS
<1>2. \A x \in D : d[x] \in Nat /\ x \in Nat
  OBVIOUS
<1> HIDE DEF R
<1>3. \A x \in D : <<x, x>> \notin R
  BY <1>1, <1>2
<1>4. ASSUME NEW x \in D, NEW y \in D, NEW z \in D, <<x, y>> \in R, <<y, z>> \in R PROVE <<x, z>> \in R
  <2>1. d[x] \in Nat /\ d[y] \in Nat /\ d[z] \in Nat /\ x \in Nat /\ y \in Nat /\ z \in Nat
    BY <1>2
  <2>2. (d[x] < d[y] \/ (d[x] = d[y] /\ x < y)) /\ (d[y] < d[z] \/ (d[y] = d[z] /\ y < z))
    BY <1>1, <1>4
  <2>3. d[x] < d[z] \/ (d[x] = d[z] /\ x < z)
    BY <2>1, <2>2
  <2> QED
    BY <1>1, <2>3
<1>5. ASSUME NEW x \in D, NEW y \in D, x # y PROVE <<x, y>> \in R \/ <<y, x>> \in R
  <2>1. d[x] \in Nat /\ d[y] \in Nat /\ x \in Nat /\ y \in Nat
    BY <1>2
  <2>2. \/ d[x] < d[y] \/ (d[x] = d[y] /\ x < y)
        \/ d[y] < d[x] \/ (d[y] = d[x] /\ y < x)
    BY <1>5, <2>1
  <2> QED
    BY <1>1, <2>2
<1>6. StrictOrder(D, R)
  BY <1>3, <1>4, <1>5 DEF StrictOrder
<1> QED
  BY <1>6 DEF R

\* Round robin and ip_hash take all that was found, each endpoint once.
LEMMA RoundsOfProperties ==
    ASSUME NEW f \in FoundType, FoundOnce(f)
    PROVE  /\ RoundsOf(f) \in Seq(Endpoints) /\ Distinct(RoundsOf(f))
           /\ ToSet(RoundsOf(f)) = FoundSet(f) /\ Len(RoundsOf(f)) = Len(f)
<1> DEFINE D == DOMAIN f
           before(i) == {j \in 1 .. i - 1 : PeerOf(f[j].endpoint) = PeerOf(f[i].endpoint)}
           d == [i \in D |-> Cardinality(before(i))]
           R == {ij \in D \X D : d[ij[1]] < d[ij[2]] \/ (d[ij[1]] = d[ij[2]] /\ ij[1] < ij[2])}
           S == {ij \in D \X D : \/ Cardinality(before(ij[1])) < Cardinality(before(ij[2]))
                                 \/ Cardinality(before(ij[1])) = Cardinality(before(ij[2])) /\ ij[1] < ij[2]}
           taken == Arranged(f, R)
<1>1. RoundsOf(f) = [n \in DOMAIN f |-> Arranged(f, S)[n].endpoint]
  BY DEF RoundsOf
<1>2. S = R
  <2>1. \A i \in D : d[i] = Cardinality(before(i))
    OBVIOUS
  <2> HIDE DEF d, before, D
  <2> QED
    BY <2>1
<1>3. f \in Seq([endpoint : Endpoints, active : Nat]) /\ D = 1 .. Len(f) /\ D \in SUBSET Nat
  BY DEF FoundType
<1>4. d \in [D -> Nat]
  <2>1. ASSUME NEW i \in D PROVE Cardinality(before(i)) \in Nat
    <3>1. i \in Nat /\ before(i) \in SUBSET (1 .. i - 1)
      BY <1>3
    <3>2. IsFiniteSet(1 .. i - 1)
      BY <3>1, FS_Interval
    <3> HIDE DEF before
    <3> QED
      BY <3>1, <3>2, FS_Subset, FS_CardinalityType
  <2> HIDE DEF before, D
  <2> QED
    BY <2>1
<1> HIDE DEF d, S
<1>5. StrictOrder(D, R)
  <2> HIDE DEF D
  <2> QED
    BY <1>3, <1>4, OrderThenPosition
<1> HIDE DEF R
<1>6. taken \in FoundType /\ Len(taken) = Len(f) /\ Picks(taken, f, DOMAIN f)
  BY <1>3, <1>5, ArrangedProperties DEF FoundType
<1>7. RoundsOf(f) = FoundNames(f, taken)
  BY <1>1, <1>2 DEF FoundNames
<1> HIDE DEF taken
<1> QED
  BY <1>6, <1>7, EndpointsArranged

\* Loads as fractions, compared by cross-multiplication.
LEMMA CrossMultiplied ==
    ASSUME NEW A \in Nat, NEW B \in Nat, NEW C \in Nat,
           NEW u \in Nat \ {0}, NEW v \in Nat \ {0}, NEW w \in Nat \ {0}
    PROVE  /\ A * v < B * u /\ B * w <= C * v => A * w < C * u
           /\ A * v <= B * u /\ B * w < C * v => A * w < C * u
           /\ A * v = B * u /\ B * w = C * v => A * w = C * u
<1>1. A * v < B * u /\ B * w <= C * v => A * w < C * u
  OBVIOUS
<1>2. A * v <= B * u /\ B * w < C * v => A * w < C * u
  OBVIOUS
<1>3. A * v = B * u /\ B * w = C * v => A * w = C * u
  OBVIOUS
<1> QED
  BY <1>1, <1>2, <1>3

\* least_conn takes all that was found, each endpoint once: its order by load,
\* weight and position leaves no two endpoints level.
LEMMA LeastConnOrderProperties ==
    ASSUME upstream \in Upstreams, NEW f \in FoundType, FoundOnce(f),
           \A i \in DOMAIN f : PeerOf(f[i].endpoint) \in Peers
    PROVE  /\ LeastConnOrder(f) \in Seq(Endpoints) /\ Distinct(LeastConnOrder(f))
           /\ ToSet(LeastConnOrder(f)) = FoundSet(f) /\ Len(LeastConnOrder(f)) = Len(f)
<1> DEFINE D == DOMAIN f
           w(i) == upstream.weight[PeerOf(f[i].endpoint)]
           n(i) == f[i].active + 1
           less(i, j) ==
              \/ n(i) * w(j) < n(j) * w(i)
              \/ n(i) * w(j) = n(j) * w(i) /\ w(i) > w(j)
              \/ n(i) * w(j) = n(j) * w(i) /\ w(i) = w(j) /\ i < j
           R == {ij \in D \X D : less(ij[1], ij[2])}
           sorted == Arranged(f, R)
<1>1. LeastConnOrder(f) = FoundNames(f, sorted)
  BY DEF LeastConnOrder, FoundNames
<1>2. f \in Seq([endpoint : Endpoints, active : Nat]) /\ D = 1 .. Len(f) /\ D \in SUBSET Nat
  BY DEF FoundType
<1>3. \A i \in D : i \in Nat /\ n(i) \in Nat /\ w(i) \in Nat \ {0}
  <2>1. \A i \in D : f[i].active \in Nat /\ i \in Nat
    <3> DEFINE Found == [endpoint : Endpoints, active : Nat]
    <3>1. \A i \in D : f[i] \in Found
      <4>1. f \in Seq(Found)
        BY <1>2
      <4> HIDE DEF Found
      <4> QED
        BY <1>2, <4>1
    <3> QED
      BY <1>2, <3>1
  <2>2. \A p \in Peers : upstream.weight[p] \in Nat \ {0}
    BY UpstreamFacts
  <2> QED
    BY <2>1, <2>2
<1> HIDE DEF n, w, D
<1>4. \A i, j \in D : <<i, j>> \in R <=> less(i, j)
  <2> HIDE DEF less
  <2> QED
    OBVIOUS
<1>5. StrictOrder(D, R)
  <2>1. \A x \in D : <<x, x>> \notin R
    BY <1>3, <1>4
  <2>2. ASSUME NEW x \in D, NEW y \in D, NEW z \in D, <<x, y>> \in R, <<y, z>> \in R PROVE <<x, z>> \in R
    <3>1. /\ n(x) \in Nat /\ n(y) \in Nat /\ n(z) \in Nat /\ x \in Nat /\ y \in Nat /\ z \in Nat
          /\ w(x) \in Nat \ {0} /\ w(y) \in Nat \ {0} /\ w(z) \in Nat \ {0}
      BY <1>3
    <3>2. less(x, y) /\ less(y, z)
      BY <1>4, <2>2
    <3> DEFINE xy == n(x) * w(y)
               yx == n(y) * w(x)
               yz == n(y) * w(z)
               zy == n(z) * w(y)
               xz == n(x) * w(z)
               zx == n(z) * w(x)
    <3>3. xy \in Nat /\ yx \in Nat /\ yz \in Nat /\ zy \in Nat /\ xz \in Nat /\ zx \in Nat
      BY <3>1
    <3>4. /\ xy < yx /\ yz <= zy => xz < zx
          /\ xy <= yx /\ yz < zy => xz < zx
          /\ xy = yx /\ yz = zy => xz = zx
      BY <3>1, CrossMultiplied
    <3>6. \/ xy < yx
          \/ xy = yx /\ w(x) > w(y)
          \/ xy = yx /\ w(x) = w(y) /\ x < y
      BY <3>2
    <3>7. \/ yz < zy
          \/ yz = zy /\ w(y) > w(z)
          \/ yz = zy /\ w(y) = w(z) /\ y < z
      BY <3>2
    <3> HIDE DEF xy, yx, yz, zy, xz, zx
    <3>8. \/ xz < zx
          \/ xz = zx /\ w(x) > w(z)
          \/ xz = zx /\ w(x) = w(z) /\ x < z
      BY <3>1, <3>3, <3>4, <3>6, <3>7
    <3>9. less(x, z)
      BY <3>8 DEF xz, zx
    <3> QED
      BY <1>4, <3>9
  <2>3. ASSUME NEW x \in D, NEW y \in D, x # y PROVE <<x, y>> \in R \/ <<y, x>> \in R
    <3> DEFINE xy == n(x) * w(y)
               yx == n(y) * w(x)
    <3>1. xy \in Nat /\ yx \in Nat /\ w(x) \in Nat /\ w(y) \in Nat /\ x \in Nat /\ y \in Nat
      BY <1>3
    <3> HIDE DEF xy, yx
    <3>2. \/ xy < yx \/ (xy = yx /\ w(x) > w(y)) \/ (xy = yx /\ w(x) = w(y) /\ x < y)
          \/ yx < xy \/ (yx = xy /\ w(y) > w(x)) \/ (yx = xy /\ w(y) = w(x) /\ y < x)
      BY <2>3, <3>1
    <3>3. less(x, y) \/ less(y, x)
      BY <3>2 DEF xy, yx
    <3> QED
      BY <1>4, <3>3
  <2> HIDE DEF R
  <2> QED
    BY <2>1, <2>2, <2>3 DEF StrictOrder
<1> HIDE DEF R
<1>6. sorted \in FoundType /\ Len(sorted) = Len(f) /\ Picks(sorted, f, DOMAIN f)
  BY <1>2, <1>5, ArrangedProperties DEF FoundType, D
<1> HIDE DEF sorted
<1> QED
  BY <1>1, <1>6, EndpointsArranged

\* What a pool contributes: no more than asked for, nothing twice, only what
\* was found, and all of it when less was found than asked for.
LEMMA PoolChoiceProperties ==
    ASSUME upstream \in Upstreams, NEW f \in FoundType, FoundOnce(f),
           \A i \in DOMAIN f : PeerOf(f[i].endpoint) \in Peers, NEW n \in Nat
    PROVE  /\ PoolChoice(f, n) \in Seq(Endpoints) /\ Len(PoolChoice(f, n)) <= n
           /\ Distinct(PoolChoice(f, n)) /\ ToSet(PoolChoice(f, n)) \subseteq FoundSet(f)
           /\ Len(PoolChoice(f, n)) < n => ToSet(PoolChoice(f, n)) = FoundSet(f)
<1> DEFINE s == IF upstream.policy = "least_conn" THEN LeastConnOrder(f) ELSE RoundsOf(f)
           m == IF n < Len(s) THEN n ELSE Len(s)
           c == PoolChoice(f, n)
<1>1. s \in Seq(Endpoints) /\ Distinct(s) /\ ToSet(s) = FoundSet(f)
  BY RoundsOfProperties, LeastConnOrderProperties
<1>2. c = SubSeq(s, 1, m)
  BY DEF PoolChoice, Take
<1> HIDE DEF s, c
<1>3. m \in 0 .. Len(s) /\ m <= n /\ (m < n => m = Len(s)) /\ Len(s) \in Nat
  BY <1>1
<1> HIDE DEF m
<1>4. c \in Seq(Endpoints) /\ Len(c) = m /\ \A i \in 1 .. m : c[i] = s[i]
  BY <1>1, <1>2, <1>3
<1>5. DOMAIN c = 1 .. m /\ DOMAIN s = 1 .. Len(s) /\ \A i \in 1 .. m : i \in 1 .. Len(s)
  BY <1>1, <1>3, <1>4
<1>6. Distinct(c)
  BY <1>1, <1>4, <1>5 DEF Distinct
<1>7. ToSet(c) \subseteq ToSet(s)
  BY <1>4, <1>5 DEF ToSet
<1>8. m < n => ToSet(c) = ToSet(s)
  BY <1>3, <1>4, <1>5 DEF ToSet
<1> QED
  BY <1>1, <1>3, <1>4, <1>6, <1>7, <1>8 DEF c

(* Sequences that have nothing twice.                                      *)

\* The first element and the rest.
LEMMA HeadAndTail ==
    ASSUME NEW T, NEW s \in Seq(T), s # <<>>
    PROVE  /\ Head(s) \in T /\ Tail(s) \in Seq(T)
           /\ ToSet(s) = {Head(s)} \cup ToSet(Tail(s))
           /\ Distinct(s) => Distinct(Tail(s)) /\ Head(s) \notin ToSet(Tail(s))
<1> DEFINE u == Tail(s)
<1>1. /\ Head(s) \in T /\ u \in Seq(T) /\ Len(u) = Len(s) - 1 /\ Len(s) \in Nat \ {0}
      /\ Head(s) = s[1] /\ \A i \in 1 .. Len(u) : u[i] = s[i + 1]
  OBVIOUS
<1> HIDE DEF u
<1>2. DOMAIN s = 1 .. Len(s) /\ DOMAIN u = 1 .. Len(u)
  BY <1>1
<1>3. ToSet(s) = {s[i] : i \in 1 .. Len(s)} /\ ToSet(u) = {u[i] : i \in 1 .. Len(u)}
  BY <1>2 DEF ToSet
<1>4. \A i \in 1 .. Len(u) : i + 1 \in 1 .. Len(s)
  BY <1>1
<1>5. \A i \in 1 .. Len(s) : i = 1 \/ (i - 1 \in 1 .. Len(u) /\ u[i - 1] = s[i])
  BY <1>1
<1>6. ToSet(s) \subseteq {Head(s)} \cup ToSet(u)
  <2>1. ASSUME NEW i \in 1 .. Len(s) PROVE s[i] \in {Head(s)} \cup ToSet(u)
    <3>1. CASE i = 1
      BY <1>1, <3>1
    <3>2. CASE i - 1 \in 1 .. Len(u) /\ u[i - 1] = s[i]
      BY <1>3, <3>2
    <3> QED
      BY <1>5, <3>1, <3>2
  <2> QED
    BY <1>3, <2>1
<1>7. {Head(s)} \cup ToSet(u) \subseteq ToSet(s)
  <2>1. 1 \in 1 .. Len(s)
    BY <1>1
  <2> QED
    BY <1>1, <1>3, <1>4, <2>1
<1>8. ASSUME Distinct(s) PROVE Distinct(u) /\ Head(s) \notin ToSet(u)
  <2>1. \A i, j \in 1 .. Len(s) : s[i] = s[j] => i = j
    BY <1>2, <1>8 DEF Distinct
  <2>2. ASSUME NEW i \in 1 .. Len(u), NEW j \in 1 .. Len(u), u[i] = u[j] PROVE i = j
    <3>1. s[i + 1] = s[j + 1] /\ i + 1 \in 1 .. Len(s) /\ j + 1 \in 1 .. Len(s)
      BY <1>1, <1>4, <2>2
    <3>2. i + 1 = j + 1
      BY <2>1, <3>1
    <3> QED
      BY <1>1, <3>2
  <2>3. Distinct(u)
    BY <1>2, <2>2 DEF Distinct
  <2>4. ASSUME NEW i \in 1 .. Len(u), u[i] = s[1] PROVE FALSE
    <3>1. s[i + 1] = s[1] /\ i + 1 \in 1 .. Len(s) /\ 1 \in 1 .. Len(s)
      BY <1>1, <1>4, <2>4
    <3>2. i + 1 = 1
      BY <2>1, <3>1
    <3> QED
      BY <1>1, <3>2
  <2> QED
    BY <1>1, <1>3, <2>3, <2>4
<1> QED
  BY <1>1, <1>6, <1>7, <1>8 DEF u

\* One sequence after another that has nothing in common with it.
LEMMA Concatenated ==
    ASSUME NEW T, NEW s \in Seq(T), NEW u \in Seq(T)
    PROVE  /\ s \o u \in Seq(T) /\ Len(s \o u) = Len(s) + Len(u)
           /\ ToSet(s \o u) = ToSet(s) \cup ToSet(u)
           /\ Distinct(s) /\ Distinct(u) /\ ToSet(s) \cap ToSet(u) = {} => Distinct(s \o u)
<1> DEFINE c == s \o u
           m == Len(s)
           k == Len(u)
<1>1. /\ c \in Seq(T) /\ Len(c) = m + k /\ m \in Nat /\ k \in Nat
      /\ \A i \in 1 .. m : c[i] = s[i]
      /\ \A i \in 1 .. k : c[m + i] = u[i]
      /\ DOMAIN s = 1 .. m /\ DOMAIN u = 1 .. k /\ DOMAIN c = 1 .. m + k
  OBVIOUS
<1> HIDE DEF c, m, k
<1>2. \A i \in 1 .. m + k : i \in 1 .. m \/ (i - m \in 1 .. k /\ m + (i - m) = i)
  BY <1>1
<1>3. ToSet(s) = {s[i] : i \in 1 .. m} /\ ToSet(u) = {u[i] : i \in 1 .. k} /\ ToSet(c) = {c[i] : i \in 1 .. m + k}
  BY <1>1 DEF ToSet
<1>4. \A i \in 1 .. m + k : (i \in 1 .. m /\ c[i] = s[i]) \/ (i - m \in 1 .. k /\ c[i] = u[i - m])
  <2> TAKE i \in 1 .. m + k
  <2>1. CASE i \in 1 .. m
    BY <1>1, <2>1
  <2>2. CASE i - m \in 1 .. k /\ m + (i - m) = i
    BY <1>1, <2>2
  <2> QED
    BY <1>2, <2>1, <2>2
<1>5. ToSet(c) \subseteq ToSet(s) \cup ToSet(u)
  BY <1>3, <1>4
<1>6. ToSet(s) \cup ToSet(u) \subseteq ToSet(c)
  <2>1. \A i \in 1 .. m : i \in 1 .. m + k
    BY <1>1
  <2>2. \A i \in 1 .. k : m + i \in 1 .. m + k
    BY <1>1
  <2> QED
    BY <1>1, <1>3, <2>1, <2>2
<1>7. ASSUME Distinct(s), Distinct(u), ToSet(s) \cap ToSet(u) = {} PROVE Distinct(c)
  <2>1. ASSUME NEW i \in 1 .. m + k, NEW j \in 1 .. m + k, c[i] = c[j] PROVE i = j
    <3>1. CASE i \in 1 .. m /\ c[i] = s[i] /\ j \in 1 .. m /\ c[j] = s[j]
      BY <1>1, <1>7, <2>1, <3>1 DEF Distinct
    <3>2. CASE i - m \in 1 .. k /\ c[i] = u[i - m] /\ j - m \in 1 .. k /\ c[j] = u[j - m]
      <4>1. i - m = j - m
        BY <1>1, <1>7, <2>1, <3>2 DEF Distinct
      <4> QED
        BY <1>1, <4>1
    <3>3. CASE i \in 1 .. m /\ c[i] = s[i] /\ j - m \in 1 .. k /\ c[j] = u[j - m]
      <4>1. s[i] \in ToSet(s) /\ u[j - m] \in ToSet(u) /\ s[i] = u[j - m]
        BY <1>3, <2>1, <3>3
      <4> QED
        BY <1>7, <4>1
    <3>4. CASE j \in 1 .. m /\ c[j] = s[j] /\ i - m \in 1 .. k /\ c[i] = u[i - m]
      <4>1. s[j] \in ToSet(s) /\ u[i - m] \in ToSet(u) /\ s[j] = u[i - m]
        BY <1>3, <2>1, <3>4
      <4> QED
        BY <1>7, <4>1
    <3> QED
      BY <1>4, <3>1, <3>2, <3>3, <3>4
  <2> QED
    BY <1>1, <2>1 DEF Distinct
<1> QED
  BY <1>1, <1>5, <1>6, <1>7 DEF c, m, k

\* One endpoint more is found.
LEMMA FoundAppended ==
    ASSUME NEW f \in FoundType, NEW e \in Endpoints, NEW load \in Nat
    PROVE  LET g == Append(f, [endpoint |-> e, active |-> load]) IN
           /\ g \in FoundType /\ FoundSet(g) = FoundSet(f) \cup {e}
           /\ FoundOnce(f) /\ e \notin FoundSet(f) => FoundOnce(g)
<1> DEFINE Found == [endpoint : Endpoints, active : Nat]
           x == [endpoint |-> e, active |-> load]
           g == Append(f, x)
           m == Len(f)
<1>1. f \in Seq(Found) /\ x \in Found /\ x.endpoint = e
  BY DEF FoundType
<1> HIDE DEF x, Found
<1>2. /\ g \in Seq(Found) /\ Len(g) = m + 1 /\ m \in Nat
      /\ \A i \in 1 .. m : g[i] = f[i]
      /\ g[m + 1] = x /\ DOMAIN f = 1 .. m /\ DOMAIN g = 1 .. m + 1
  BY <1>1
<1> HIDE DEF g, m
<1>3. \A i \in 1 .. m + 1 : (i \in 1 .. m /\ g[i].endpoint = f[i].endpoint) \/ (i = m + 1 /\ g[i].endpoint = e)
  BY <1>1, <1>2
<1>4. FoundSet(f) = {f[i].endpoint : i \in 1 .. m} /\ FoundSet(g) = {g[i].endpoint : i \in 1 .. m + 1}
  BY <1>2 DEF FoundSet
<1>5. FoundSet(g) \subseteq FoundSet(f) \cup {e}
  BY <1>3, <1>4
<1>6. FoundSet(f) \cup {e} \subseteq FoundSet(g)
  <2>1. m + 1 \in 1 .. m + 1 /\ \A i \in 1 .. m : i \in 1 .. m + 1
    BY <1>2
  <2> QED
    BY <1>1, <1>2, <1>4, <2>1
<1>7. ASSUME FoundOnce(f), e \notin FoundSet(f) PROVE FoundOnce(g)
  <2>1. \A i \in 1 .. m : f[i].endpoint # e
    BY <1>4, <1>7
  <2>2. \A i, j \in 1 .. m : f[i].endpoint = f[j].endpoint => i = j
    BY <1>2, <1>7 DEF FoundOnce
  <2>3. \A i, j \in 1 .. m + 1 : g[i].endpoint = g[j].endpoint => i = j
    BY <1>3, <2>1, <2>2
  <2> QED
    BY <1>2, <2>3 DEF FoundOnce
<1>8. g \in FoundType
  BY <1>2 DEF FoundType, Found
<1> QED
  BY <1>5, <1>6, <1>7, <1>8 DEF g, x

\* Whatever order the endpoints of a peer are examined in, it is all of them.
LEMMA EndpointOrdersComplete ==
    ASSUME upstream \in Upstreams, NEW p \in Peers, NEW eps \in EndpointOrders(p)
    PROVE  eps \in Seq(Endpoints) /\ Distinct(eps) /\ ToSet(eps) = ToSet(upstream.endpoints[p])
<1> DEFINE S == ToSet(upstream.endpoints[p])
           c == Cardinality(S)
<1>1. upstream.endpoints[p] \in Seq(Endpoints) /\ Distinct(upstream.endpoints[p])
  BY UpstreamFacts
<1>2. IsFiniteSet(S) /\ S \in SUBSET Endpoints
  BY <1>1, ToSetOf
<1>3. c \in Nat /\ IsFiniteSet(1 .. c) /\ Cardinality(1 .. c) = c
  BY <1>2, FS_CardinalityType, FS_Interval
<1>4. CASE upstream.policy = "least_conn"
  BY <1>1, <1>4 DEF EndpointOrders
<1>5. CASE upstream.policy # "least_conn"
  <2>1. eps \in SetToSeqs(S)
    BY <1>5 DEF EndpointOrders
  <2> HIDE DEF S, c
  <2>2. eps \in [1 .. c -> S] /\ \A i, j \in 1 .. c : eps[i] = eps[j] => i = j
    BY <2>1 DEF SetToSeqs, IsInjective, c
  <2>3. eps \in Injection(1 .. c, S)
    BY <2>2, Fun_IsInj
  <2>4. eps \in Surjection(1 .. c, S)
    BY <1>2, <1>3, <2>3, FS_Injection DEF c
  <2>5. \A e \in S : \E i \in 1 .. c : eps[i] = e
    BY <2>4 DEF Surjection
  <2>6. eps \in Seq(Endpoints) /\ DOMAIN eps = 1 .. c
    BY <1>2, <1>3, <2>2
  <2>7. Distinct(eps)
    BY <2>2, <2>6 DEF Distinct
  <2>8. ToSet(eps) = S
    <3>1. ToSet(eps) = {eps[i] : i \in 1 .. c}
      BY <2>6 DEF ToSet
    <3> QED
      BY <2>2, <2>5, <3>1
  <2> QED
    BY <2>6, <2>7, <2>8 DEF S
<1> QED
  BY <1>4, <1>5

\* The order in which a pool is looked at has every peer of it once.
LEMMA PeerOrderProperties ==
    ASSUME upstream \in Upstreams, cursor \in Nat, NEW b \in BOOLEAN, NEW hash \in Nat
    PROVE  /\ PeerOrder(b, hash) \in Seq(Peers) /\ Distinct(PeerOrder(b, hash))
           /\ ToSet(PeerOrder(b, hash)) = PoolSet(b)
<1> DEFINE pool == Pool(b)
           from == IF upstream.policy = "ip_hash" THEN hash ELSE cursor
           start == from % WeightOf(pool)
           w == WeightedOrder(pool, start)
<1>1. pool \in Seq(Peers) /\ Distinct(pool) /\ ToSet(pool) = PoolSet(b)
  BY PoolProperties
<1>2. PeerOrder(b, hash) = IF pool = <<>> \/ upstream.policy = "least_conn" THEN pool ELSE w
  BY DEF PeerOrder
<1> HIDE DEF pool
<1>3. ASSUME pool # <<>> PROVE w \in Seq(Peers) /\ Distinct(w) /\ ToSet(w) = ToSet(pool)
  <2>1. from \in Nat
    OBVIOUS
  <2>2. WeightOf(pool) \in Nat \ {0}
    BY <1>1, <1>3, PositiveWeight
  <2> HIDE DEF from
  <2>3. start \in 0 .. WeightOf(pool) - 1
    BY <2>1, <2>2, RemainderSplit
  <2> HIDE DEF start
  <2>4. w \in Seq(ToSet(pool)) /\ Distinct(w) /\ ToSet(w) = ToSet(pool)
    BY <1>1, <1>3, <2>3, WeightedOrderProperties
  <2>5. ToSet(pool) \in SUBSET Peers
    BY <1>1, ToSetOf
  <2> HIDE DEF w
  <2> QED
    BY <2>4, <2>5
<1> HIDE DEF w
<1> QED
  BY <1>1, <1>2, <1>3

\* The cursor stays a number.
LEMMA CursorAfterType ==
    ASSUME upstream \in Upstreams, cursor \in Nat, NEW b \in BOOLEAN
    PROVE  CursorAfter(b) \in Nat
<1> DEFINE w(x) == IF Pool(x) = <<>> THEN 1 ELSE WeightOf(Pool(x))
<1>1. ASSUME NEW x \in BOOLEAN PROVE w(x) \in Nat \ {0}
  <2>1. Pool(x) \in Seq(Peers)
    BY PoolProperties
  <2> QED
    BY <2>1, PositiveWeight
<1>2. CursorModulus = w(TRUE) * w(FALSE)
  BY DEF CursorModulus
<1> HIDE DEF w
<1>3. CursorModulus \in Nat \ {0}
  <2>1. w(TRUE) \in Nat \ {0} /\ w(FALSE) \in Nat \ {0}
    BY <1>1
  <2>2. \A x, y \in Nat \ {0} : x * y \in Nat \ {0}
    OBVIOUS
  <2>3. w(TRUE) * w(FALSE) \in Nat \ {0}
    BY <2>1, <2>2
  <2> QED
    BY <1>2, <2>3
<1>4. (cursor + 1) % CursorModulus \in Nat
  <2> DEFINE z == cursor + 1
  <2>1. z \in Nat
    OBVIOUS
  <2> HIDE DEF z
  <2>2. z % CursorModulus \in 0 .. CursorModulus - 1
    BY <1>3, <2>1, RemainderSplit
  <2> QED
    BY <1>3, <2>2 DEF z
<1> QED
  BY <1>4 DEF CursorAfter

-----------------------------------------------------------------------------
(* The states of a request.                                                *)

\* The count of active requests a selection has read for the endpoint it is
\* looking at: below max_conns, if its peer was selectable ever since.
CountedInv(t, st) ==
    /\ t.eps = <<>> => t.counted = <<>>
    /\ t.counted # <<>> =>
         \A p \in st.up : p = PeerOf(Head(t.eps)) => upstream.limit[p] = 0 \/ t.counted[1] < upstream.limit[p]

\* A request that is selecting, with st the peers that were selectable (up)
\* and out (down) ever since it began.  What it has yet to look at (order),
\* is looking at (eps) and has found do not overlap; no peer of st.up has
\* been lost on the way, and nothing that it keeps belongs to one of st.down.
SelectInv(t, st) ==
    /\ Distinct(t.order) /\ ToSet(t.order) \subseteq PoolSet(t.isBackup)
    /\ Distinct(t.eps) /\ FoundOnce(t.found) /\ ToSet(t.eps) \cap FoundSet(t.found) = {}
    /\ \A e \in ToSet(t.eps) \cup FoundSet(t.found) :
         \E p \in PoolSet(t.isBackup) \ ToSet(t.order) : e \in ToSet(upstream.endpoints[p])
    /\ Distinct(t.peers) /\ Len(t.peers) < Limit(t.kind)
    /\ \A e \in ToSet(t.peers) : \E p \in PoolSet(FALSE) : e \in ToSet(upstream.endpoints[p])
    /\ ~t.isBackup => t.peers = <<>>
    /\ st.up \subseteq Inside
    /\ \A p \in st.up \cap PoolSet(t.isBackup) :
         \/ p \in ToSet(t.order)
         \/ ToSet(upstream.endpoints[p]) \subseteq ToSet(t.eps) \cup FoundSet(t.found)
    /\ t.isBackup => \A p \in st.up \cap PoolSet(FALSE) : ToSet(upstream.endpoints[p]) \subseteq ToSet(t.peers)
    /\ \A e \in FoundSet(t.found) \cup ToSet(t.peers) : PeerOf(e) \notin st.down
    /\ CountedInv(t, st)

\* A request that has its endpoints.
AttemptInv(t) ==
    /\ Distinct(t.peers) /\ Len(t.peers) <= Limit(t.kind)
    /\ \A e \in ToSet(t.peers) : \E p \in Peers : e \in ToSet(upstream.endpoints[p])
    /\ IF t.pc = "refused" THEN t.at = 1 ELSE t.at \in DOMAIN t.peers
    /\ t.at > 1 => CanFailover(t.kind)
    /\ t.pc = "retry" => CanRetry(t)
    /\ t.guard = IF t.pc \in {"refused", "attempt"} THEN NoEndpoint ELSE t.peers[t.at]

\* The two of them, by what the request is doing.
RequestInv(t, st) ==
    /\ t.pc = "select" => SelectInv(t, st)
    /\ t.pc \notin {"idle", "select"} => AttemptInv(t)

\* Every request is in such a state.
TaskInv == \A r \in Requests : RequestInv(task[r], steady[r])

\* What a request's state is by its pc.
LEMMA TaskCases ==
    ASSUME NEW t \in TaskType
    PROVE  /\ t.pc = "select" => t \in SelectTask
           /\ t.pc = "idle" => t = Idle
           /\ t.pc \notin {"idle", "select"} => t \in AttemptTask
<1>1. Idle.pc = "idle"
  BY DEF Idle
<1>2. \A u \in SelectTask : u.pc = "select"
  BY DEF SelectTask
<1>3. \A u \in AttemptTask : u.pc \notin {"idle", "select"}
  BY DEF AttemptTask
<1>4. t = Idle \/ t \in SelectTask \/ t \in AttemptTask
  BY DEF TaskType
<1> QED
  BY <1>1, <1>2, <1>3, <1>4

\* The fields of a selecting request.
LEMMA SelectFields ==
    ASSUME NEW t \in SelectTask
    PROVE  /\ t.pc = "select" /\ t.kind \in Kinds /\ t.hash \in Nat /\ t.isBackup \in BOOLEAN
           /\ t.order \in Seq(Peers) /\ t.eps \in Seq(Endpoints) /\ t.found \in FoundType
           /\ t.peers \in Seq(Endpoints) /\ t.counted \in Seq(Nat)
<1>1. t.hash \in Hashes \cup {0}
  BY DEF SelectTask
<1>2. t.hash \in Nat
  <2>1. Hashes \subseteq Nat
    BY PolicyAssumption, Zenon
  <2>2. \A x \in Hashes \cup {0} : x \in Nat
    BY <2>1
  <2> QED
    BY <1>1, <2>2, Zenon
<1> QED
  BY <1>2 DEF SelectTask

\* The fields of a request that has its endpoints.
LEMMA AttemptFields ==
    ASSUME NEW t \in AttemptTask
    PROVE  /\ t.pc \in {"refused", "attempt", "await", "body", "retry", "unwind", "responding"}
           /\ t.kind \in Kinds /\ t.peers \in Seq(Endpoints) /\ t.at \in {1, 2}
           /\ t.guard \in Endpoints \cup {NoEndpoint}
  BY DEF AttemptTask

\* The history only shrinks during a selection.
LEMMA WatchEffect ==
    ASSUME Watch, steady \in [Requests -> [up : SUBSET Peers, down : SUBSET Peers]]
    PROVE  /\ steady' \in [Requests -> [up : SUBSET Peers, down : SUBSET Peers]]
           /\ \A r \in Requests : task'[r].pc = "select" =>
                /\ IF task[r].pc = "select"
                   THEN steady'[r].up \subseteq steady[r].up /\ steady'[r].down \subseteq steady[r].down
                   ELSE steady'[r].up \subseteq Inside
                /\ \A p \in steady'[r].up : IsSelectable(p, health[p].active)' /\ ~Unresolved(r, p)
                /\ \A p \in steady'[r].down : ~IsAvailable(health'[p])
<1> DEFINE old(r) == IF task[r].pc = "select" THEN steady[r] ELSE [up |-> Inside, down |-> Inside]
           T == [up : SUBSET Peers, down : SUBSET Peers]
           new(r) == IF task'[r].pc # "select" THEN [up |-> {}, down |-> {}]
                     ELSE [up |-> {p \in old(r).up : IsSelectable(p, health[p].active)' /\ ~Unresolved(r, p)},
                           down |-> {p \in old(r).down : ~IsAvailable(health'[p])}]
<1>1. steady' = [r \in Requests |-> new(r)]
  BY DEF Watch
<1>2. Inside \in SUBSET Peers
  BY DEF Inside
<1>3. ASSUME NEW r \in Requests PROVE old(r) \in T
  BY <1>2
<1>4. ASSUME NEW r \in Requests, task'[r].pc = "select"
      PROVE  /\ steady'[r].up = {p \in old(r).up : IsSelectable(p, health[p].active)' /\ ~Unresolved(r, p)}
             /\ steady'[r].down = {p \in old(r).down : ~IsAvailable(health'[p])}
  <2> HIDE DEF old
  <2> QED
    BY <1>1, <1>4
<1>5. ASSUME NEW r \in Requests PROVE new(r) \in T
  <2>1. old(r).up \in SUBSET Peers /\ old(r).down \in SUBSET Peers
    BY <1>3
  <2> HIDE DEF old
  <2> QED
    BY <2>1
<1>6. steady' \in [Requests -> T]
  <2> HIDE DEF new, T
  <2> QED
    BY <1>1, <1>5
<1>7. ASSUME NEW r \in Requests, task'[r].pc = "select"
      PROVE  /\ IF task[r].pc = "select"
                THEN steady'[r].up \subseteq steady[r].up /\ steady'[r].down \subseteq steady[r].down
                ELSE steady'[r].up \subseteq Inside
             /\ \A p \in steady'[r].up : IsSelectable(p, health[p].active)' /\ ~Unresolved(r, p)
             /\ \A p \in steady'[r].down : ~IsAvailable(health'[p])
  <2>1. IF task[r].pc = "select" THEN old(r) = steady[r] ELSE old(r).up = Inside
    OBVIOUS
  <2> HIDE DEF old
  <2> QED
    BY <1>4, <1>7, <2>1
<1> QED
  BY <1>6, <1>7

\* A shorter history says less.
LEMMA SelectInvSmaller ==
    ASSUME NEW t, NEW st, NEW su, SelectInv(t, st), su.up \subseteq st.up, su.down \subseteq st.down
    PROVE  SelectInv(t, su)
<1>1. \A p \in su.up : p \in st.up
  OBVIOUS
<1>2. \A p \in su.down : p \in st.down
  OBVIOUS
<1> QED
  BY <1>1, <1>2 DEF SelectInv, CountedInv

\* A request that a step leaves alone.
LEMMA OthersKeep ==
    ASSUME Watch, steady \in [Requests -> [up : SUBSET Peers, down : SUBSET Peers]],
           NEW r \in Requests, task'[r] = task[r], RequestInv(task[r], steady[r])
    PROVE  RequestInv(task'[r], steady'[r])
<1>1. CASE task[r].pc = "select"
  <2>1. steady'[r].up \subseteq steady[r].up /\ steady'[r].down \subseteq steady[r].down
    BY <1>1, WatchEffect
  <2>2. SelectInv(task[r], steady[r])
    BY <1>1 DEF RequestInv
  <2>3. SelectInv(task[r], steady'[r])
    BY <2>1, <2>2, SelectInvSmaller
  <2> QED
    BY <1>1, <2>3 DEF RequestInv
<1>2. CASE task[r].pc # "select"
  BY <1>2 DEF RequestInv
<1> QED
  BY <1>1, <1>2

\* The invariant speaks of the configuration, which no step changes.
LEMMA TaskInvAfter ==
    ASSUME upstream' = upstream, \A r \in Requests : RequestInv(task'[r], steady'[r])
    PROVE  TaskInv'
<1> SUFFICES ASSUME NEW r \in Requests PROVE RequestInv(task[r], steady[r])'
  BY DEF TaskInv
<1>1. ASSUME SelectInv(task'[r], steady'[r]) PROVE SelectInv(task[r], steady[r])'
  BY <1>1 DEF SelectInv, CountedInv, PoolSet, Inside, PeerOf
<1>2. ASSUME AttemptInv(task'[r]) PROVE AttemptInv(task[r])'
  BY <1>2 DEF AttemptInv
<1> QED
  BY <1>1, <1>2 DEF RequestInv

\* A request that starts on a pool has all of it before it.
LEMMA FreshSelection ==
    ASSUME upstream \in Upstreams, cursor \in Nat, NEW kind \in Kinds, NEW hash \in Hashes \cup {0},
           NEW b \in BOOLEAN, NEW chosen \in Seq(Endpoints), NEW st,
           Distinct(chosen), Len(chosen) < Limit(kind), ~b => chosen = <<>>,
           \A e \in ToSet(chosen) : \E p \in PoolSet(FALSE) : e \in ToSet(upstream.endpoints[p]),
           st.up \subseteq Inside,
           b => \A p \in st.up \cap PoolSet(FALSE) : ToSet(upstream.endpoints[p]) \subseteq ToSet(chosen),
           \A e \in ToSet(chosen) : PeerOf(e) \notin st.down
    PROVE  /\ Selecting(kind, hash, b, chosen) \in SelectTask
           /\ SelectInv(Selecting(kind, hash, b, chosen), st)
<1> DEFINE t == Selecting(kind, hash, b, chosen)
           o == PeerOrder(b, hash)
<1>1. hash \in Nat
  <2>1. Hashes \subseteq Nat
    BY PolicyAssumption, Zenon
  <2> QED
    BY <2>1
<1>2. o \in Seq(Peers) /\ Distinct(o) /\ ToSet(o) = PoolSet(b)
  BY <1>1, PeerOrderProperties
<1>3. t = [pc |-> "select", kind |-> kind, hash |-> hash, isBackup |-> b,
           order |-> o, eps |-> <<>>, counted |-> <<>>, found |-> <<>>, peers |-> chosen]
  BY DEF Selecting
<1> HIDE DEF o
<1>4. t \in SelectTask
  <2>1. <<>> \in Seq(Endpoints) /\ <<>> \in FoundType /\ <<>> \in Seq(Nat)
    BY DEF FoundType
  <2> QED
    BY <1>2, <1>3, <2>1 DEF SelectTask
<1>5. /\ t.kind = kind /\ t.isBackup = b /\ t.order = o /\ t.eps = <<>> /\ t.found = <<>> /\ t.peers = chosen
      /\ t.counted = <<>>
  BY <1>3
<1> HIDE DEF t
<1>6. /\ Distinct(t.eps) /\ FoundOnce(t.found) /\ ToSet(t.eps) = {} /\ FoundSet(t.found) = {}
  BY <1>5 DEF Distinct, FoundOnce, ToSet, FoundSet
<1>7. SelectInv(t, st)
  <2>1. CountedInv(t, st)
    BY <1>5 DEF CountedInv
  <2> QED
    BY <1>2, <1>5, <1>6, <2>1 DEF SelectInv
<1> QED
  BY <1>4, <1>7 DEF t

\* Begin: nothing of the first pool is lost before the selection starts.
LEMMA BeginKeeps ==
    ASSUME TypeOK, Watch, NEW r \in Requests, Begin(r)
    PROVE  /\ task'[r] \in SelectTask /\ SelectInv(task'[r], steady'[r])
           /\ cursor' \in Nat /\ \A q \in Requests \ {r} : task'[q] = task[q]
<1> DEFINE b == Pool(FALSE) = <<>>
<1>1. PICK kind \in Kinds, hash \in Hashes \cup {0} :
         task' = [task EXCEPT ![r] = Selecting(kind, hash, b, <<>>)] /\ cursor' = CursorAfter(b)
  BY DEF Begin
<1>2. /\ upstream \in Upstreams /\ cursor \in Nat /\ task[r].pc # "select"
      /\ steady \in [Requests -> [up : SUBSET Peers, down : SUBSET Peers]]
      /\ task \in [Requests -> TaskType]
  BY DEF TypeOK, Begin
<1>3. /\ task'[r] = Selecting(kind, hash, b, <<>>)
      /\ \A q \in Requests \ {r} : task'[q] = task[q]
  BY <1>1, <1>2
<1>4. cursor' \in Nat
  BY <1>1, <1>2, CursorAfterType
<1>5. task'[r].pc = "select"
  BY <1>3 DEF Selecting
<1>6. steady'[r].up \subseteq Inside
  BY <1>2, <1>5, WatchEffect
<1>7. b => PoolSet(FALSE) = {}
  <2>1. ToSet(Pool(FALSE)) = PoolSet(FALSE)
    BY <1>2, PoolProperties
  <2>2. ToSet(<<>>) = {}
    BY DEF ToSet
  <2> QED
    BY <2>1, <2>2
<1> HIDE DEF b
<1> DEFINE st == steady'[r]
<1>8. /\ <<>> \in Seq(Endpoints) /\ Distinct(<<>>) /\ Len(<<>>) < Limit(kind) /\ ToSet(<<>>) = {} /\ b \in BOOLEAN
  BY DEF Distinct, ToSet, Limit, b
<1> HIDE DEF st
<1>9. Selecting(kind, hash, b, <<>>) \in SelectTask /\ SelectInv(Selecting(kind, hash, b, <<>>), st)
  BY <1>2, <1>6, <1>7, <1>8, FreshSelection DEF st
<1> QED
  BY <1>3, <1>4, <1>9 DEF st

\* What the proofs use of a request in the middle of its selection.
LEMMA SelectingRequest ==
    ASSUME TypeOK, TaskInv, NEW r \in Requests, task[r].pc = "select"
    PROVE  task[r] \in SelectTask /\ SelectInv(task[r], steady[r])
<1>1. task[r] \in TaskType
  BY DEF TypeOK
<1>2. task[r] \in SelectTask
  BY <1>1, TaskCases
<1>3. SelectInv(task[r], steady[r])
  BY DEF TaskInv, RequestInv
<1> QED
  BY <1>2, <1>3

\* A peer of a pool is a peer, and what belongs to it belongs to no other.
LEMMA PoolMembers ==
    ASSUME upstream \in Upstreams
    PROVE  /\ \A b \in BOOLEAN : \A p \in PoolSet(b) : p \in Peers /\ p \in Inside
           /\ \A p \in Inside : p \in PoolSet(p \in upstream.backup)
           /\ \A p, q \in Peers : \A e \in ToSet(upstream.endpoints[p]) : e \in ToSet(upstream.endpoints[q]) => p = q
           /\ \A p \in Peers : \A e \in ToSet(upstream.endpoints[p]) : PeerOf(e) = p
<1>1. ToSet(upstream.peers) \in SUBSET Peers
  BY UpstreamFacts, ToSetOf
<1>2. \A p \in Peers : \A e \in ToSet(upstream.endpoints[p]) : PeerOf(e) = p
  BY PeerOfEndpoint
<1>3. \A p, q \in Peers : \A e \in ToSet(upstream.endpoints[p]) : e \in ToSet(upstream.endpoints[q]) => p = q
  BY <1>2
<1> QED
  BY <1>1, <1>2, <1>3 DEF PoolSet, Inside

\* Resolve: all endpoints of the next peer of the pool are now looked at, or
\* the peer resolves to nothing and is no longer one of those to be found.
LEMMA ResolveKeeps ==
    ASSUME TypeOK, TaskInv, Watch, NEW r \in Requests, Resolve(r)
    PROVE  /\ task'[r] \in SelectTask /\ SelectInv(task'[r], steady'[r])
           /\ ensured' \subseteq Endpoints /\ \A q \in Requests \ {r} : task'[q] = task[q]
<1> DEFINE t == task[r]
           u == task'[r]
           st == steady[r]
           su == steady'[r]
           p == Head(t.order)
<1>1. /\ upstream \in Upstreams /\ ensured \subseteq Endpoints
      /\ steady \in [Requests -> [up : SUBSET Peers, down : SUBSET Peers]]
      /\ task \in [Requests -> TaskType] /\ t.pc = "select" /\ t.order # <<>> /\ t.eps = <<>>
  BY DEF TypeOK, Resolve
<1>2. t \in SelectTask /\ SelectInv(t, st)
  BY <1>1, SelectingRequest
<1>3. t.order \in Seq(Peers) /\ t.isBackup \in BOOLEAN /\ t.found \in FoundType
  BY <1>2, SelectFields
<1>4. /\ p \in Peers /\ Tail(t.order) \in Seq(Peers) /\ Distinct(Tail(t.order))
      /\ ToSet(t.order) = {p} \cup ToSet(Tail(t.order)) /\ p \notin ToSet(Tail(t.order))
      /\ p \in PoolSet(t.isBackup)
  <2>1. Distinct(t.order) /\ ToSet(t.order) \subseteq PoolSet(t.isBackup)
    BY <1>2 DEF SelectInv
  <2> QED
    BY <1>1, <1>3, <2>1, HeadAndTail
<1>5. ASSUME NEW eps \in Seq(Endpoints), Distinct(eps), ToSet(eps) \subseteq ToSet(upstream.endpoints[p]),
             u = [t EXCEPT !.order = Tail(t.order), !.eps = eps],
             p \in su.up => ToSet(eps) = ToSet(upstream.endpoints[p])
      PROVE  u \in SelectTask /\ SelectInv(u, su)
  <2>1. u \in SelectTask
    BY <1>2, <1>4, <1>5 DEF SelectTask
  <2>2. /\ u.order = Tail(t.order) /\ u.eps = eps /\ u.found = t.found /\ u.peers = t.peers
        /\ u.kind = t.kind /\ u.isBackup = t.isBackup /\ u.pc = "select" /\ u.counted = t.counted
    BY <1>2, <1>5 DEF SelectTask
  <2>3. su.up \subseteq st.up /\ su.down \subseteq st.down
    BY <1>1, <2>2, WatchEffect
  <2> HIDE DEF u, su, st, t, p
  <2>4. ToSet(t.eps) = {}
    BY <1>1 DEF ToSet
  <2>5. \A e \in FoundSet(t.found) :
          \E q \in PoolSet(t.isBackup) \ ToSet(t.order) : e \in ToSet(upstream.endpoints[q])
    BY <1>2 DEF SelectInv
  <2>6. ToSet(eps) \cap FoundSet(t.found) = {}
    BY <1>1, <1>3, <1>4, <1>5, <2>5, PoolMembers
  <2>7. \A e \in ToSet(eps) \cup FoundSet(t.found) :
          \E q \in PoolSet(t.isBackup) \ ToSet(Tail(t.order)) : e \in ToSet(upstream.endpoints[q])
    BY <1>4, <1>5, <2>5
  <2>8. \A q \in su.up \cap PoolSet(t.isBackup) :
          \/ q \in ToSet(Tail(t.order))
          \/ ToSet(upstream.endpoints[q]) \subseteq ToSet(eps) \cup FoundSet(t.found)
    <3> TAKE q \in su.up \cap PoolSet(t.isBackup)
    <3>1. q \in ToSet(t.order) \/ ToSet(upstream.endpoints[q]) \subseteq FoundSet(t.found)
      BY <1>2, <2>3, <2>4 DEF SelectInv
    <3> QED
      BY <1>4, <1>5, <3>1
  <2>8a. CountedInv(u, su)
    <3>1. t.counted = <<>>
      BY <1>1, <1>2 DEF SelectInv, CountedInv
    <3> QED
      BY <2>2, <3>1 DEF CountedInv
  <2>9. SelectInv(u, su)
    BY <1>2, <1>4, <1>5, <2>2, <2>3, <2>6, <2>7, <2>8, <2>8a DEF SelectInv
  <2> QED
    BY <2>1, <2>9
<1>6. CASE \E eps \in EndpointOrders(p) :
              /\ task' = [task EXCEPT ![r].order = Tail(@), ![r].eps = eps]
              /\ ensured' = ensured \cup ToSet(eps)
  <2>1. PICK eps \in EndpointOrders(p) :
              /\ task' = [task EXCEPT ![r].order = Tail(@), ![r].eps = eps]
              /\ ensured' = ensured \cup ToSet(eps)
    BY <1>6
  <2>2. eps \in Seq(Endpoints) /\ Distinct(eps) /\ ToSet(eps) = ToSet(upstream.endpoints[p])
    BY <1>1, <1>4, EndpointOrdersComplete
  <2>3. u = [t EXCEPT !.order = Tail(t.order), !.eps = eps] /\ \A q \in Requests \ {r} : task'[q] = task[q]
    BY <1>1, <2>1
  <2>4. ensured' \subseteq Endpoints
    BY <1>1, <2>1, <2>2, ToSetOf
  <2> QED
    BY <1>5, <2>2, <2>3, <2>4
<1>7. CASE task' = [task EXCEPT ![r].order = Tail(@)] /\ ensured' = ensured
  <2>1. u = [t EXCEPT !.order = Tail(t.order), !.eps = <<>>] /\ \A q \in Requests \ {r} : task'[q] = task[q]
    <3>1. u = [t EXCEPT !.order = Tail(t.order)] /\ \A q \in Requests \ {r} : task'[q] = task[q]
      BY <1>1, <1>7
    <3>2. [t EXCEPT !.order = Tail(t.order)] = [t EXCEPT !.order = Tail(t.order), !.eps = <<>>]
      BY <1>1, <1>2 DEF SelectTask
    <3> QED
      BY <3>1, <3>2
  <2>2. u.pc = "select" /\ u.order = Tail(t.order) /\ u.eps = <<>>
    BY <1>1, <1>2, <2>1 DEF SelectTask
  <2>3. Unresolved(r, p)
    BY <1>1, <2>2 DEF Unresolved
  <2>4. p \notin su.up
    BY <1>1, <2>2, <2>3, WatchEffect
  <2>5. <<>> \in Seq(Endpoints) /\ Distinct(<<>>) /\ ToSet(<<>>) = {}
    BY DEF Distinct, ToSet
  <2> QED
    BY <1>1, <1>5, <1>7, <2>1, <2>4, <2>5
<1> QED
  BY <1>6, <1>7 DEF Resolve

\* CountActive: the count read now is below max_conns if the peer is selectable now.
LEMMA CountActiveKeeps ==
    ASSUME TypeOK, TaskInv, Watch, NEW r \in Requests, CountActive(r)
    PROVE  /\ task'[r] \in SelectTask /\ SelectInv(task'[r], steady'[r])
           /\ \A q \in Requests \ {r} : task'[q] = task[q]
<1> DEFINE t == task[r]
           u == task'[r]
           st == steady[r]
           su == steady'[r]
           e == Head(t.eps)
           n == health[PeerOf(e)].active
<1>1. /\ upstream \in Upstreams /\ upstream' = upstream /\ health' = health
      /\ steady \in [Requests -> [up : SUBSET Peers, down : SUBSET Peers]]
      /\ health \in [Peers -> HealthType]
      /\ task \in [Requests -> TaskType] /\ t.pc = "select" /\ t.eps # <<>>
      /\ task' = [task EXCEPT ![r].counted = <<n>>]
  BY DEF TypeOK, CountActive
<1>2. t \in SelectTask /\ SelectInv(t, st)
  BY <1>1, SelectingRequest
<1>3. t.eps \in Seq(Endpoints) /\ t.isBackup \in BOOLEAN
  BY <1>2, SelectFields
<1>4. e \in ToSet(t.eps)
  <2>1. Distinct(t.eps)
    BY <1>2 DEF SelectInv
  <2> QED
    BY <1>1, <1>3, <2>1, HeadAndTail
<1>5. PICK owner \in PoolSet(t.isBackup) : e \in ToSet(upstream.endpoints[owner])
  BY <1>2, <1>4 DEF SelectInv
<1>6. PeerOf(e) = owner /\ owner \in Peers
  BY <1>1, <1>3, <1>5, PoolMembers
<1>7. n \in Nat
  BY <1>1, <1>6 DEF HealthType
<1> HIDE DEF e, n
<1>8. u = [t EXCEPT !.counted = <<n>>] /\ \A q \in Requests \ {r} : task'[q] = task[q]
  BY <1>1
<1>9. u \in SelectTask
  <2>1. <<n>> \in Seq(Nat)
    BY <1>7
  <2> QED
    BY <1>2, <1>8, <2>1 DEF SelectTask
<1>10. /\ u.order = t.order /\ u.eps = t.eps /\ u.found = t.found /\ u.peers = t.peers
       /\ u.kind = t.kind /\ u.isBackup = t.isBackup /\ u.pc = "select" /\ u.counted = <<n>>
  BY <1>2, <1>8 DEF SelectTask
<1>11. /\ su.up \subseteq st.up /\ su.down \subseteq st.down
       /\ \A p \in su.up : IsSelectable(p, health[p].active)'
  BY <1>1, <1>10, WatchEffect
<1>12. CountedInv(u, su)
  <2>1. ASSUME NEW p \in su.up, p = PeerOf(e) PROVE upstream.limit[p] = 0 \/ n < upstream.limit[p]
    BY <1>1, <1>11, <2>1 DEF IsSelectable, n
  <2>2. u.counted[1] = n /\ u.eps # <<>> /\ Head(u.eps) = e
    BY <1>1, <1>10 DEF e
  <2> HIDE DEF u, su
  <2> QED
    BY <2>1, <2>2 DEF CountedInv
<1>13. SelectInv(t, su)
  BY <1>2, <1>11, SelectInvSmaller
<1> HIDE DEF t, u, st, su
<1>14. SelectInv(u, su)
  BY <1>10, <1>12, <1>13 DEF SelectInv
<1> QED
  BY <1>8, <1>9, <1>14 DEF u, su

\* Examine: an endpoint is dropped only if its peer is not selectable at this
\* moment, and kept only if its peer is available at this moment.
LEMMA ExamineKeeps ==
    ASSUME TypeOK, TaskInv, Watch, NEW r \in Requests, Examine(r)
    PROVE  /\ task'[r] \in SelectTask /\ SelectInv(task'[r], steady'[r])
           /\ \A q \in Requests \ {r} : task'[q] = task[q]
<1> DEFINE t == task[r]
           u == task'[r]
           st == steady[r]
           su == steady'[r]
           e == Head(t.eps)
           p == PeerOf(e)
           n == t.counted[1]
           load == IF upstream.policy = "least_conn" THEN n ELSE 0
           found == IF IsSelectable(p, n) THEN Append(t.found, [endpoint |-> e, active |-> load]) ELSE t.found
<1>1. /\ upstream \in Upstreams /\ upstream' = upstream /\ health' = health
      /\ steady \in [Requests -> [up : SUBSET Peers, down : SUBSET Peers]]
      /\ health \in [Peers -> HealthType]
      /\ task \in [Requests -> TaskType] /\ t.pc = "select" /\ t.eps # <<>> /\ t.counted # <<>>
  BY DEF TypeOK, Examine
<1>2. task' = [task EXCEPT ![r].eps = Tail(@), ![r].counted = <<>>, ![r].found =
                 IF IsSelectable(p, n) THEN Append(@, [endpoint |-> e, active |-> load]) ELSE @]
  BY DEF Examine
<1>3. t \in SelectTask /\ SelectInv(t, st)
  BY <1>1, SelectingRequest
<1>4. /\ t.order \in Seq(Peers) /\ t.isBackup \in BOOLEAN /\ t.found \in FoundType /\ t.eps \in Seq(Endpoints)
      /\ t.counted \in Seq(Nat)
  BY <1>3, SelectFields
<1>5. u = [t EXCEPT !.eps = Tail(t.eps), !.counted = <<>>, !.found = found] /\ \A q \in Requests \ {r} : task'[q] = task[q]
  <2> HIDE DEF p, e, load, n
  <2> QED
    BY <1>1, <1>2
<1>6. /\ e \in Endpoints /\ Tail(t.eps) \in Seq(Endpoints) /\ Distinct(Tail(t.eps))
      /\ ToSet(t.eps) = {e} \cup ToSet(Tail(t.eps)) /\ e \notin ToSet(Tail(t.eps))
  <2>1. Distinct(t.eps)
    BY <1>3 DEF SelectInv
  <2> QED
    BY <1>1, <1>4, <2>1, HeadAndTail
<1>7. PICK owner \in PoolSet(t.isBackup) \ ToSet(t.order) : e \in ToSet(upstream.endpoints[owner])
  <2>1. e \in ToSet(t.eps)
    BY <1>6
  <2> QED
    BY <1>3, <2>1 DEF SelectInv
<1>8. p = owner /\ p \in Peers
  BY <1>1, <1>4, <1>7, PoolMembers
<1>9. load \in Nat /\ n \in Nat
  BY <1>1, <1>4
<1>10. /\ e \notin FoundSet(t.found) /\ FoundOnce(t.found)
  BY <1>3, <1>6 DEF SelectInv
<1>10a. p \in st.up => upstream.limit[p] = 0 \/ n < upstream.limit[p]
  <2>1. CountedInv(t, st)
    BY <1>3 DEF SelectInv
  <2> QED
    BY <1>1, <2>1 DEF CountedInv
<1> HIDE DEF e, load, n
<1>11. /\ found \in FoundType /\ FoundOnce(found)
       /\ FoundSet(found) = IF IsSelectable(p, n) THEN FoundSet(t.found) \cup {e} ELSE FoundSet(t.found)
  BY <1>4, <1>6, <1>9, <1>10, FoundAppended
<1> HIDE DEF found
<1>12. u \in SelectTask
  <2>1. <<>> \in Seq(Nat)
    OBVIOUS
  <2> QED
    BY <1>3, <1>5, <1>6, <1>11, <2>1 DEF SelectTask
<1>13. /\ u.order = t.order /\ u.eps = Tail(t.eps) /\ u.found = found /\ u.peers = t.peers
       /\ u.kind = t.kind /\ u.isBackup = t.isBackup /\ u.pc = "select" /\ u.counted = <<>>
  BY <1>3, <1>5 DEF SelectTask
<1>14. /\ su.up \subseteq st.up /\ su.down \subseteq st.down
       /\ owner \in su.up => IsSelectable(owner, health[owner].active)'
       /\ owner \in su.down => ~IsAvailable(health'[owner])
  BY <1>1, <1>13, WatchEffect
<1>15. /\ p \in su.up => IsSelectable(p, n)
       /\ p \in su.down => ~IsSelectable(p, n)
  <2>0. owner \in su.up => upstream.limit[owner] = 0 \/ n < upstream.limit[owner]
    BY <1>8, <1>10a, <1>14
  <2>1. owner \in su.up => IsSelectable(owner, n)
    BY <1>1, <1>14, <2>0 DEF IsSelectable
  <2>2. owner \in su.down => ~IsSelectable(owner, n)
    BY <1>1, <1>14 DEF IsSelectable
  <2> QED
    BY <1>8, <2>1, <2>2
<1> HIDE DEF t, u, st, su, p
<1>16. ToSet(Tail(t.eps)) \cap FoundSet(found) = {}
  <2>1. ToSet(t.eps) \cap FoundSet(t.found) = {}
    BY <1>3 DEF SelectInv
  <2> QED
    BY <1>6, <1>11, <2>1
<1>17. ToSet(Tail(t.eps)) \cup FoundSet(found) \subseteq ToSet(t.eps) \cup FoundSet(t.found)
  BY <1>6, <1>11
<1>18. \A x \in ToSet(Tail(t.eps)) \cup FoundSet(found) :
         \E q \in PoolSet(t.isBackup) \ ToSet(t.order) : x \in ToSet(upstream.endpoints[q])
  BY <1>3, <1>17 DEF SelectInv
<1>19. ASSUME NEW q \in su.up \cap PoolSet(t.isBackup), q \notin ToSet(t.order)
       PROVE  ToSet(upstream.endpoints[q]) \subseteq ToSet(Tail(t.eps)) \cup FoundSet(found)
  <2>1. ToSet(upstream.endpoints[q]) \subseteq ToSet(t.eps) \cup FoundSet(t.found)
    BY <1>3, <1>14, <1>19 DEF SelectInv
  <2>2. q \in Peers
    BY <1>1, <1>4, PoolMembers
  <2>3. e \in ToSet(upstream.endpoints[q]) => q = p
    BY <1>1, <1>4, <1>7, <1>8, <2>2, PoolMembers
  <2> QED
    BY <1>6, <1>11, <1>15, <2>1, <2>3
<1>20. \A x \in FoundSet(found) \cup ToSet(t.peers) : PeerOf(x) \notin su.down
  <2>1. \A x \in FoundSet(t.found) \cup ToSet(t.peers) : PeerOf(x) \notin su.down
    BY <1>3, <1>14 DEF SelectInv
  <2>2. IsSelectable(p, n) => PeerOf(e) \notin su.down
    BY <1>15 DEF p
  <2> QED
    BY <1>11, <2>1, <2>2
<1>21. SelectInv(u, su)
  <2>1. CountedInv(u, su)
    BY <1>13 DEF CountedInv
  <2> QED
    BY <1>3, <1>6, <1>11, <1>13, <1>14, <1>16, <1>18, <1>19, <1>20, <2>1 DEF SelectInv
<1> QED
  BY <1>5, <1>12, <1>21 DEF u, su

\* Where a selection stands at the end of a pool.  The endpoints chosen are
\* none twice and none too many; none belongs to a peer that was out all the
\* time; when they are fewer than asked for, no peer of the pools looked at
\* was missed; and a backup among them comes after every endpoint of every
\* primary that was selectable all the time.
ChosenInv(t, st, chosen) ==
    /\ chosen \in Seq(Endpoints) /\ Distinct(chosen) /\ Len(chosen) <= Limit(t.kind)
    /\ \A e \in ToSet(chosen) : \E p \in PoolSet(FALSE) \cup PoolSet(t.isBackup) : e \in ToSet(upstream.endpoints[p])
    /\ \A e \in ToSet(chosen) : PeerOf(e) \notin st.down
    /\ Len(chosen) < Limit(t.kind) =>
         /\ \A p \in st.up \cap PoolSet(t.isBackup) : ToSet(upstream.endpoints[p]) \subseteq ToSet(chosen)
         /\ t.isBackup => \A p \in st.up \cap PoolSet(FALSE) : ToSet(upstream.endpoints[p]) \subseteq ToSet(chosen)
    /\ \A i \in DOMAIN chosen : PeerOf(chosen[i]) \in upstream.backup =>
         \A p \in st.up \ upstream.backup : ToSet(upstream.endpoints[p]) \subseteq ToSet(SubSeq(chosen, 1, i - 1))

\* At the end of a pool the endpoints chosen are what SelectionCorrect asks for.
LEMMA PoolFinished ==
    ASSUME TypeOK, NEW t \in SelectTask, NEW st, SelectInv(t, st), t.order = <<>>, t.eps = <<>>
    PROVE  ChosenInv(t, st, t.peers \o PoolChoice(t.found, Limit(t.kind) - Len(t.peers)))
<1> DEFINE n == Limit(t.kind) - Len(t.peers)
           c == PoolChoice(t.found, n)
           chosen == t.peers \o c
<1>1. /\ upstream \in Upstreams /\ t.isBackup \in BOOLEAN /\ t.found \in FoundType /\ t.peers \in Seq(Endpoints)
  BY SelectFields DEF TypeOK
<1>2. /\ Distinct(t.peers) /\ Len(t.peers) < Limit(t.kind) /\ FoundOnce(t.found)
      /\ \A e \in ToSet(t.peers) : \E p \in PoolSet(FALSE) : e \in ToSet(upstream.endpoints[p])
      /\ ~t.isBackup => t.peers = <<>>
      /\ \A e \in FoundSet(t.found) \cup ToSet(t.peers) : PeerOf(e) \notin st.down
      /\ st.up \subseteq Inside
      /\ t.isBackup => \A p \in st.up \cap PoolSet(FALSE) : ToSet(upstream.endpoints[p]) \subseteq ToSet(t.peers)
  BY DEF SelectInv
<1>3. ToSet(t.order) = {} /\ ToSet(t.eps) = {}
  BY DEF ToSet
<1>4. /\ \A e \in FoundSet(t.found) : \E p \in PoolSet(t.isBackup) : e \in ToSet(upstream.endpoints[p])
      /\ \A p \in st.up \cap PoolSet(t.isBackup) : ToSet(upstream.endpoints[p]) \subseteq FoundSet(t.found)
  BY <1>3 DEF SelectInv
<1>5. Limit(t.kind) \in Nat /\ Len(t.peers) \in Nat /\ n \in Nat /\ Limit(t.kind) = Len(t.peers) + n
  <2>1. Limit(t.kind) \in {1, 2} /\ Len(t.peers) \in Nat
    BY <1>1 DEF Limit
  <2> QED
    BY <1>2, <2>1
<1> HIDE DEF n
<1>6. \A i \in DOMAIN t.found : PeerOf(t.found[i].endpoint) \in Peers
  <2> TAKE i \in DOMAIN t.found
  <2>1. t.found[i].endpoint \in FoundSet(t.found)
    BY DEF FoundSet
  <2> QED
    BY <1>1, <1>4, <2>1, PoolMembers
<1>7. /\ c \in Seq(Endpoints) /\ Len(c) <= n /\ Distinct(c) /\ ToSet(c) \subseteq FoundSet(t.found)
      /\ Len(c) < n => ToSet(c) = FoundSet(t.found)
  BY <1>1, <1>2, <1>5, <1>6, PoolChoiceProperties
<1> HIDE DEF c
<1>8. ToSet(t.peers) \cap ToSet(c) = {}
  <2>1. CASE ~t.isBackup
    BY <1>2, <2>1 DEF ToSet
  <2>2. CASE t.isBackup
    <3>1. ASSUME NEW e \in ToSet(t.peers), e \in ToSet(c) PROVE FALSE
      <4>1. PICK p \in PoolSet(FALSE) : e \in ToSet(upstream.endpoints[p])
        BY <1>2
      <4>2. PICK q \in PoolSet(TRUE) : e \in ToSet(upstream.endpoints[q])
        BY <1>4, <1>7, <2>2, <3>1
      <4>3. p = q
        BY <1>1, <4>1, <4>2, PoolMembers
      <4> QED
        BY <4>3 DEF PoolSet
    <3> QED
      BY <3>1
  <2> QED
    BY <1>1, <2>1, <2>2
<1>9. /\ chosen \in Seq(Endpoints) /\ Len(chosen) = Len(t.peers) + Len(c)
      /\ ToSet(chosen) = ToSet(t.peers) \cup ToSet(c) /\ Distinct(chosen)
  BY <1>1, <1>2, <1>7, <1>8, Concatenated
<1>10. Len(c) \in Nat
  BY <1>7
<1>11. Len(chosen) <= Limit(t.kind) /\ (Len(chosen) < Limit(t.kind) => Len(c) < n)
  BY <1>5, <1>7, <1>9, <1>10
<1>12. ASSUME NEW i \in DOMAIN chosen, PeerOf(chosen[i]) \in upstream.backup,
              NEW p \in st.up \ upstream.backup
       PROVE  ToSet(upstream.endpoints[p]) \subseteq ToSet(SubSeq(chosen, 1, i - 1))
  <2>1. p \in PoolSet(FALSE) /\ p \in st.up
    <3>1. p \in Inside /\ p \notin upstream.backup
      BY <1>2
    <3> QED
      BY <3>1 DEF PoolSet, Inside
  <2>2. chosen[i] \in ToSet(t.peers) \cup ToSet(c)
    BY <1>9 DEF ToSet
  <2>3. chosen[i] \notin ToSet(t.peers)
    <3>1. ASSUME chosen[i] \in ToSet(t.peers) PROVE FALSE
      <4>1. PICK q \in PoolSet(FALSE) : chosen[i] \in ToSet(upstream.endpoints[q])
        BY <1>2, <3>1
      <4>2. PeerOf(chosen[i]) = q
        BY <1>1, <4>1, PoolMembers
      <4> QED
        BY <1>12, <4>2 DEF PoolSet
    <3> QED
      BY <3>1
  <2>4. t.isBackup
    <3>1. ASSUME ~t.isBackup PROVE FALSE
      <4>1. PICK q \in PoolSet(FALSE) : chosen[i] \in ToSet(upstream.endpoints[q])
        BY <1>1, <1>4, <1>7, <2>2, <2>3, <3>1
      <4>2. PeerOf(chosen[i]) = q
        BY <1>1, <4>1, PoolMembers
      <4> QED
        BY <1>12, <4>2 DEF PoolSet
    <3> QED
      BY <1>1, <3>1
  <2>5. ToSet(upstream.endpoints[p]) \subseteq ToSet(t.peers)
    BY <1>2, <2>1, <2>4
  <2>6. ToSet(t.peers) \subseteq ToSet(SubSeq(chosen, 1, i - 1))
    <3> DEFINE m == Len(t.peers)
               s == SubSeq(chosen, 1, i - 1)
    <3>1. /\ DOMAIN t.peers = 1 .. m /\ m \in Nat /\ \A j \in 1 .. m : chosen[j] = t.peers[j]
          /\ i \in 1 .. Len(chosen) /\ Len(chosen) \in Nat
      BY <1>1, <1>7, <1>9
    <3>2. ~(i \in 1 .. m)
      BY <2>3, <3>1 DEF ToSet
    <3> HIDE DEF chosen
    <3>3. m < i /\ i - 1 \in 0 .. Len(chosen)
      BY <3>1, <3>2
    <3>4. DOMAIN s = 1 .. i - 1 /\ \A j \in 1 .. i - 1 : s[j] = chosen[j]
      BY <1>9, <3>3
    <3> HIDE DEF s, m
    <3>5. \A j \in 1 .. m : j \in DOMAIN s /\ s[j] = t.peers[j]
      BY <3>1, <3>3, <3>4
    <3>6. ToSet(t.peers) \subseteq ToSet(s)
      BY <3>1, <3>5 DEF ToSet
    <3> QED
      BY <3>6 DEF s
  <2> QED
    BY <2>5, <2>6
<1>13. \A e \in ToSet(chosen) :
          \E p \in PoolSet(FALSE) \cup PoolSet(t.isBackup) : e \in ToSet(upstream.endpoints[p])
  BY <1>2, <1>4, <1>7, <1>9
<1>14. \A e \in ToSet(chosen) : PeerOf(e) \notin st.down
  BY <1>2, <1>7, <1>9
<1>15. Len(chosen) < Limit(t.kind) =>
         /\ \A p \in st.up \cap PoolSet(t.isBackup) : ToSet(upstream.endpoints[p]) \subseteq ToSet(chosen)
         /\ t.isBackup => \A p \in st.up \cap PoolSet(FALSE) : ToSet(upstream.endpoints[p]) \subseteq ToSet(chosen)
  BY <1>2, <1>4, <1>7, <1>9, <1>11
<1> HIDE DEF chosen
<1>16. ChosenInv(t, st, chosen)
  BY <1>9, <1>11, <1>12, <1>13, <1>14, <1>15 DEF ChosenInv
<1> QED
  BY <1>16 DEF chosen, c, n

\* A request's step changes that request.
LEMMA OneTaskMoves ==
    ASSUME task \in [Requests -> TaskType], NEW r \in Requests, RequestStep(r)
    PROVE  task' = [task EXCEPT ![r] = task'[r]]
<1>1. CASE Begin(r) \/ FinishPool(r)
  BY <1>1 DEF Begin, FinishPool
<1>2. CASE Resolve(r)
  BY <1>2 DEF Resolve
<1>3. CASE Examine(r)
  <2>1. \E x, y, z : task' = [task EXCEPT ![r].eps = x, ![r].counted = y, ![r].found = z]
    BY <1>3 DEF Examine
  <2> QED
    BY <2>1
<1>3a. CASE CountActive(r)
  BY <1>3a DEF CountActive
<1>4. CASE Attempt(r) \/ Fail(r) \/ ClientBodyError(r)
  BY <1>4 DEF Attempt, Fail, ClientBodyError
<1>5. CASE Respond(r) \/ FinishBody(r)
  BY <1>5 DEF Respond, FinishBody, Succeed
<1>6. CASE Retry(r) \/ Finish(r) \/ Disconnect(r)
  <2>1. \E t : task' = [task EXCEPT ![r] = t]
    BY <1>6 DEF Retry, Finish, Disconnect, Release
  <2> QED
    BY <2>1
<1>7. CASE Abandon(r)
  BY <1>7 DEF Abandon
<1> QED
  BY <1>1, <1>2, <1>3, <1>3a, <1>4, <1>5, <1>6, <1>7 DEF RequestStep

\* The endpoint a request is at.
LEMMA CurrentEndpoint ==
    ASSUME upstream \in Upstreams, NEW t \in AttemptTask, AttemptInv(t), t.pc # "refused"
    PROVE  /\ t.peers[t.at] \in Endpoints /\ t.peers[t.at] # NoEndpoint /\ PeerOf(t.peers[t.at]) \in Peers
           /\ t.at \in DOMAIN t.peers
<1>1. t.peers \in Seq(Endpoints)
  BY AttemptFields
<1>2. t.at \in DOMAIN t.peers /\ \A e \in ToSet(t.peers) : \E p \in Peers : e \in ToSet(upstream.endpoints[p])
  BY DEF AttemptInv
<1>3. t.peers[t.at] \in ToSet(t.peers)
  BY <1>2 DEF ToSet
<1>4. t.peers[t.at] \in Endpoints
  BY <1>1, <1>2
<1>5. NoEndpoint \notin Endpoints
  BY PolicyAssumption, Zenon
<1> QED
  BY <1>2, <1>3, <1>4, <1>5, PoolMembers

\* What the proofs use of a request that has its endpoints.
LEMMA AttemptingRequest ==
    ASSUME TypeOK, TaskInv, NEW r \in Requests, task[r].pc \notin {"idle", "select"}
    PROVE  task[r] \in AttemptTask /\ AttemptInv(task[r])
<1>1. task[r] \in TaskType
  BY DEF TypeOK
<1>2. task[r] \in AttemptTask
  BY <1>1, TaskCases
<1>3. AttemptInv(task[r])
  BY DEF TaskInv, RequestInv
<1> QED
  BY <1>2, <1>3

\* The states of a request that holds a guard.
Underway == {"await", "body", "retry", "unwind", "responding"}

\* The guard a request holds.
GuardOf(t) == IF t.pc \in {"idle", "select"} THEN NoEndpoint ELSE t.guard

\* Between its first byte and its end a request keeps its guard.
LEMMA UnderwayKeeps ==
    ASSUME NEW t \in AttemptTask, AttemptInv(t), t.pc \in Underway, NEW pc \in Underway, pc = "retry" => CanRetry(t)
    PROVE  LET u == [t EXCEPT !.pc = pc] IN u \in AttemptTask /\ AttemptInv(u) /\ GuardOf(u) = GuardOf(t)
<1> DEFINE u == [t EXCEPT !.pc = pc]
<1>1. /\ u \in AttemptTask /\ u.pc = pc /\ u.kind = t.kind /\ u.peers = t.peers /\ u.at = t.at /\ u.guard = t.guard
  BY DEF AttemptTask, Underway
<1> HIDE DEF u
<1>2. CanRetry(u) = CanRetry(t)
  BY <1>1 DEF CanRetry
<1>3. pc \notin {"refused", "attempt", "idle", "select"} /\ t.pc \notin {"refused", "attempt", "idle", "select"}
  BY DEF Underway
<1>4. AttemptInv(u)
  BY <1>1, <1>2, <1>3 DEF AttemptInv
<1>5. GuardOf(u) = GuardOf(t)
  BY <1>1, <1>3 DEF GuardOf
<1> QED
  BY <1>1, <1>4, <1>5 DEF u

\* A request that starts at an endpoint, or is answered without one.
LEMMA FreshAttempt ==
    ASSUME upstream \in Upstreams, NEW t, t.kind \in Kinds, NEW chosen \in Seq(Endpoints), Distinct(chosen),
           Len(chosen) <= Limit(t.kind),
           \A e \in ToSet(chosen) : \E p \in Peers : e \in ToSet(upstream.endpoints[p]),
           NEW n \in {1, 2}, n > 1 => CanFailover(t.kind),
           NEW pc \in {"refused", "attempt"},
           IF pc = "refused" THEN n = 1 ELSE n \in DOMAIN chosen
    PROVE  LET u == Attempting(t, pc, chosen, n, NoEndpoint) IN
           u \in AttemptTask /\ AttemptInv(u) /\ GuardOf(u) = NoEndpoint
<1> DEFINE u == Attempting(t, pc, chosen, n, NoEndpoint)
<1>1. u = [pc |-> pc, kind |-> t.kind, peers |-> chosen, at |-> n, guard |-> NoEndpoint]
  BY DEF Attempting
<1>2. u \in AttemptTask
  BY <1>1 DEF AttemptTask
<1>3. u.pc = pc /\ u.kind = t.kind /\ u.peers = chosen /\ u.at = n /\ u.guard = NoEndpoint
  BY <1>1
<1> HIDE DEF u
<1>4. AttemptInv(u)
  BY <1>3 DEF AttemptInv
<1>5. GuardOf(u) = NoEndpoint
  BY <1>3 DEF GuardOf
<1> QED
  BY <1>2, <1>4, <1>5 DEF u

\* FinishPool: the request goes on to the backup pool, with what the primary
\* pool gave, or its selection is over.
LEMMA FinishPoolKeeps ==
    ASSUME TypeOK, TaskInv, Watch, NEW r \in Requests, FinishPool(r)
    PROVE  /\ task'[r] \in SelectTask \cup AttemptTask /\ RequestInv(task'[r], steady'[r])
           /\ GuardOf(task'[r]) = NoEndpoint /\ cursor' \in Nat
           /\ Selects(r) => \/ ~task[r].isBackup /\ Len(task'[r].peers) = Limit(task[r].kind)
                            \/ task[r].isBackup
           /\ Selects(r) => ChosenInv(task[r], steady[r], task'[r].peers)
<1> DEFINE t == task[r]
           u == task'[r]
           st == steady[r]
           su == steady'[r]
           limit == Limit(t.kind)
           chosen == t.peers \o PoolChoice(t.found, limit - Len(t.peers))
           refused == chosen = <<>>
<1>1. /\ upstream \in Upstreams /\ cursor \in Nat /\ task \in [Requests -> TaskType]
      /\ steady \in [Requests -> [up : SUBSET Peers, down : SUBSET Peers]]
      /\ t.pc = "select" /\ t.order = <<>> /\ t.eps = <<>>
  BY DEF TypeOK, FinishPool
<1>2. t \in SelectTask /\ SelectInv(t, st)
  BY <1>1, SelectingRequest
<1>3. t.kind \in Kinds /\ t.hash \in Hashes \cup {0} /\ t.isBackup \in BOOLEAN
  BY <1>2 DEF SelectTask
<1>4. ChosenInv(t, st, chosen)
  BY <1>1, <1>2, PoolFinished
<1>5. limit \in {1, 2}
  BY DEF Limit
<1>6. /\ ~t.isBackup /\ Len(chosen) < limit =>
           task' = [task EXCEPT ![r] = Selecting(t.kind, t.hash, TRUE, chosen)] /\ cursor' = CursorAfter(TRUE)
      /\ ~(~t.isBackup /\ Len(chosen) < limit) =>
           /\ task' = [task EXCEPT ![r] = Attempting(t, IF refused THEN "refused" ELSE "attempt", chosen, 1, NoEndpoint)]
           /\ cursor' = cursor
  BY DEF FinishPool
<1> HIDE DEF chosen, limit
<1>7. /\ chosen \in Seq(Endpoints) /\ Distinct(chosen) /\ Len(chosen) <= limit
      /\ \A e \in ToSet(chosen) : \E p \in PoolSet(FALSE) \cup PoolSet(t.isBackup) : e \in ToSet(upstream.endpoints[p])
      /\ \A e \in ToSet(chosen) : PeerOf(e) \notin st.down
  BY <1>4 DEF ChosenInv, limit
<1>8. CASE ~t.isBackup /\ Len(chosen) < limit
  <2>1. u = Selecting(t.kind, t.hash, TRUE, chosen) /\ cursor' = CursorAfter(TRUE)
    BY <1>1, <1>6, <1>8
  <2>2. u.pc = "select"
    BY <2>1 DEF Selecting
  <2>3. su.up \subseteq st.up /\ su.down \subseteq st.down
    BY <1>1, <2>2, WatchEffect
  <2>4. st.up \subseteq Inside
    BY <1>2 DEF SelectInv
  <2>5. \A p \in st.up \cap PoolSet(FALSE) : ToSet(upstream.endpoints[p]) \subseteq ToSet(chosen)
    BY <1>3, <1>4, <1>8 DEF ChosenInv, limit
  <2>6. \A e \in ToSet(chosen) : \E p \in PoolSet(FALSE) : e \in ToSet(upstream.endpoints[p])
    BY <1>3, <1>7, <1>8
  <2> DEFINE fresh == Selecting(t.kind, t.hash, TRUE, chosen)
  <2>7. /\ su.up \subseteq Inside
        /\ \A p \in su.up \cap PoolSet(FALSE) : ToSet(upstream.endpoints[p]) \subseteq ToSet(chosen)
        /\ \A e \in ToSet(chosen) : PeerOf(e) \notin su.down
    BY <1>7, <2>3, <2>4, <2>5
  <2>8. Len(chosen) < Limit(t.kind)
    BY <1>8 DEF limit
  <2> HIDE DEF t, st, su
  <2>9. fresh \in SelectTask /\ SelectInv(fresh, su)
    BY <1>1, <1>3, <1>7, <2>6, <2>7, <2>8, FreshSelection
  <2> HIDE DEF fresh
  <2>10. u \in SelectTask /\ SelectInv(u, su)
    BY <2>1, <2>9 DEF fresh
  <2>11. RequestInv(u, su) /\ GuardOf(u) = NoEndpoint
    BY <2>2, <2>10 DEF RequestInv, GuardOf
  <2>12. cursor' \in Nat
    BY <1>1, <2>1, CursorAfterType
  <2>13. ~Selects(r)
    BY <2>2 DEF Selects, u
  <2> QED
    BY <2>10, <2>11, <2>12, <2>13 DEF su, u
<1>9. CASE ~(~t.isBackup /\ Len(chosen) < limit)
  <2> DEFINE pc == IF refused THEN "refused" ELSE "attempt"
             fresh == Attempting(t, pc, chosen, 1, NoEndpoint)
  <2>1. u = fresh /\ cursor' = cursor
    BY <1>1, <1>6, <1>9
  <2>2. \A e \in ToSet(chosen) : \E p \in Peers : e \in ToSet(upstream.endpoints[p])
    BY <1>1, <1>3, <1>7, PoolMembers
  <2>3. pc \in {"refused", "attempt"} /\ (pc # "refused" => 1 \in DOMAIN chosen)
    <3>1. chosen # <<>> => 1 \in DOMAIN chosen
      BY <1>7
    <3> QED
      BY <3>1
  <2> HIDE DEF pc, t
  <2>4. fresh \in AttemptTask /\ AttemptInv(fresh) /\ GuardOf(fresh) = NoEndpoint
    BY <1>1, <1>3, <1>7, <2>2, <2>3, FreshAttempt DEF limit
  <2>5. fresh.peers = chosen /\ fresh.pc = pc
    BY DEF Attempting
  <2> HIDE DEF fresh
  <2>6. RequestInv(u, su)
    BY <2>1, <2>3, <2>4, <2>5 DEF RequestInv
  <2>7. t.isBackup \/ (~t.isBackup /\ Len(u.peers) = limit)
    <3>1. Len(chosen) \in Nat /\ limit \in Nat
      BY <1>5, <1>7
    <3> QED
      BY <1>3, <1>7, <1>9, <2>1, <2>5, <3>1
  <2>8. ChosenInv(t, st, u.peers)
    BY <1>4, <2>1, <2>5
  <2> QED
    BY <1>1, <2>1, <2>4, <2>6, <2>7, <2>8 DEF t, limit
<1> QED
  BY <1>8, <1>9

-----------------------------------------------------------------------------
(* The guards and the counters of active requests.                         *)

\* The requests that hold a guard of a peer.
Held(f, p) == {r \in Requests : GuardOf(f[r]) # NoEndpoint /\ PeerOf(GuardOf(f[r])) = p}

\* A request has a guard, or none, by its pc.
LEMMA GuardByState ==
    ASSUME NEW t \in TaskType
    PROVE  ("guard" \in DOMAIN t /\ t.guard # NoEndpoint) <=> (GuardOf(t) # NoEndpoint /\ GuardOf(t) = t.guard)
<1>1. CASE t = Idle
  BY <1>1 DEF Idle, GuardOf
<1>2. CASE t \in SelectTask
  BY <1>2 DEF SelectTask, GuardOf
<1>3. CASE t \in AttemptTask
  BY <1>3 DEF AttemptTask, GuardOf
<1> QED
  BY <1>1, <1>2, <1>3 DEF TaskType

\* The guards of a peer, told from the states of the requests.
LEMMA GuardsHeld ==
    ASSUME task \in [Requests -> TaskType], NEW p
    PROVE  Guards(p) = Held(task, p)
<1>1. \A r \in Requests : ("guard" \in DOMAIN task[r] /\ task[r].guard # NoEndpoint)
                            <=> (GuardOf(task[r]) # NoEndpoint /\ GuardOf(task[r]) = task[r].guard)
  BY GuardByState
<1>2. \A r \in Requests : GuardOf(task[r]) # NoEndpoint => GuardOf(task[r]) = task[r].guard
  BY DEF GuardOf
<1> QED
  BY <1>1, <1>2 DEF Guards, Held

\* The same after a step.
LEMMA GuardsHeldAfter ==
    ASSUME task' \in [Requests -> TaskType], upstream' = upstream, NEW p
    PROVE  Guards(p)' = Held(task', p)
<1>1. \A r \in Requests : ("guard" \in DOMAIN task'[r] /\ task'[r].guard # NoEndpoint)
                            <=> (GuardOf(task'[r]) # NoEndpoint /\ GuardOf(task'[r]) = task'[r].guard)
  BY GuardByState
<1>2. \A r \in Requests : GuardOf(task'[r]) # NoEndpoint => GuardOf(task'[r]) = task'[r].guard
  BY DEF GuardOf
<1>3. \A e : PeerOf(e)' = PeerOf(e)
  BY DEF PeerOf
<1>4. Guards(p)' = {r \in Requests : "guard" \in DOMAIN task'[r] /\ task'[r].guard # NoEndpoint
                                       /\ PeerOf(task'[r].guard) = p}
  BY DEF Guards, PeerOf
<1> QED
  BY <1>1, <1>2, <1>4 DEF Held

\* There are finitely many of them.
LEMMA HeldFinite ==
    ASSUME NEW f, NEW p
    PROVE  IsFiniteSet(Held(f, p)) /\ Cardinality(Held(f, p)) \in Nat
<1>1. IsFiniteSet(Requests)
  BY PolicyAssumption, Zenon
<1>2. Held(f, p) \subseteq Requests
  BY DEF Held
<1>3. IsFiniteSet(Held(f, p))
  BY <1>1, <1>2, FS_Subset
<1> QED
  BY <1>3, FS_CardinalityType

\* Steps that leave the guards and the counters alone.
LEMMA ExactKept ==
    ASSUME TypeOK, ActiveRequestsExact, upstream' = upstream, task' \in [Requests -> TaskType],
           \A r \in Requests : GuardOf(task'[r]) = GuardOf(task[r]),
           \A p \in Peers : health'[p].active = health[p].active
    PROVE  ActiveRequestsExact'
<1> SUFFICES ASSUME NEW p \in Peers PROVE health'[p].active = Cardinality(Guards(p)')
  BY DEF ActiveRequestsExact
<1>1. Guards(p)' = Held(task', p)
  BY GuardsHeldAfter
<1>2. Guards(p) = Held(task, p)
  BY GuardsHeld DEF TypeOK
<1>3. Held(task', p) = Held(task, p)
  BY DEF Held
<1>4. health[p].active = Cardinality(Guards(p))
  BY DEF ActiveRequestsExact
<1> QED
  BY <1>1, <1>2, <1>3, <1>4

\* track_active_request: one guard more, counted at its peer.
LEMMA ExactAdded ==
    ASSUME TypeOK, ActiveRequestsExact, upstream' = upstream, task' \in [Requests -> TaskType],
           NEW r \in Requests, \A x \in Requests \ {r} : task'[x] = task[x],
           NEW q \in Peers, GuardOf(task[r]) = NoEndpoint,
           GuardOf(task'[r]) # NoEndpoint, PeerOf(GuardOf(task'[r])) = q,
           health'[q].active = health[q].active + 1,
           \A p \in Peers \ {q} : health'[p].active = health[p].active
    PROVE  ActiveRequestsExact'
<1> SUFFICES ASSUME NEW p \in Peers PROVE health'[p].active = Cardinality(Guards(p)')
  BY DEF ActiveRequestsExact
<1>1. Guards(p)' = Held(task', p)
  BY GuardsHeldAfter
<1>2. Guards(p) = Held(task, p)
  BY GuardsHeld DEF TypeOK
<1>3. health[p].active = Cardinality(Held(task, p))
  BY <1>2 DEF ActiveRequestsExact
<1>4. CASE p # q
  <2>1. Held(task', p) = Held(task, p)
    BY <1>4 DEF Held
  <2> QED
    BY <1>1, <1>3, <1>4, <2>1
<1>5. CASE p = q
  <2>1. Held(task', p) = Held(task, p) \cup {r} /\ r \notin Held(task, p)
    BY <1>5 DEF Held
  <2>2. Cardinality(Held(task, p) \cup {r}) = Cardinality(Held(task, p)) + 1
    BY <2>1, HeldFinite, FS_AddElement
  <2> QED
    BY <1>1, <1>3, <1>5, <2>1, <2>2
<1> QED
  BY <1>4, <1>5

\* ActivePeerGuard::drop: one guard less.
LEMMA ExactRemoved ==
    ASSUME TypeOK, ActiveRequestsExact, upstream' = upstream, task' \in [Requests -> TaskType],
           NEW r \in Requests, \A x \in Requests \ {r} : task'[x] = task[x],
           NEW q \in Peers, GuardOf(task[r]) # NoEndpoint,
           GuardOf(task'[r]) = NoEndpoint, PeerOf(GuardOf(task[r])) = q,
           health'[q].active = IF health[q].active > 0 THEN health[q].active - 1 ELSE 0,
           \A p \in Peers \ {q} : health'[p].active = health[p].active
    PROVE  ActiveRequestsExact'
<1> SUFFICES ASSUME NEW p \in Peers PROVE health'[p].active = Cardinality(Guards(p)')
  BY DEF ActiveRequestsExact
<1>1. Guards(p)' = Held(task', p)
  BY GuardsHeldAfter
<1>2. Guards(p) = Held(task, p)
  BY GuardsHeld DEF TypeOK
<1>3. health[p].active = Cardinality(Held(task, p))
  BY <1>2 DEF ActiveRequestsExact
<1>4. CASE p # q
  <2>1. Held(task', p) = Held(task, p)
    BY <1>4 DEF Held
  <2> QED
    BY <1>1, <1>3, <1>4, <2>1
<1>5. CASE p = q
  <2>1. Held(task', p) = Held(task, p) \ {r} /\ r \in Held(task, p)
    BY <1>5 DEF Held
  <2>2. Cardinality(Held(task, p) \ {r}) = Cardinality(Held(task, p)) - 1
    BY <2>1, HeldFinite, FS_RemoveElement
  <2>3. Held(task, p) # {}
    BY <2>1
  <2>4. Cardinality(Held(task, p)) \in Nat \ {0}
    BY <2>3, HeldFinite, FS_EmptySet
  <2> QED
    BY <1>1, <1>3, <1>5, <2>1, <2>2, <2>4
<1> QED
  BY <1>4, <1>5

\* What the results recorded do to the counter of active requests.
LEMMA ActiveAfterRecords ==
    ASSUME NEW h \in HealthType
    PROVE  /\ RecordSuccess(h).active = h.active /\ RecordFailure(h).active = h.active
           /\ RecordActiveSuccess(h).active = h.active /\ RecordActiveFailure(h).active = h.active
           /\ [h EXCEPT !.until = "expired"].active = h.active
           /\ IncrementActive(h).active = h.active + 1
           /\ DecrementActive(h).active = IF h.active > 0 THEN h.active - 1 ELSE 0
<1>1. RecordSuccess(h).active = h.active /\ RecordActiveFailure(h).active = h.active
  BY DEF RecordSuccess, RecordActiveFailure, HealthType
<1>2. RecordFailure(h).active = h.active
  <2> DEFINE old == IF h.until = "expired" THEN [h EXCEPT !.until = "none", !.failures = 0] ELSE h
             m == old.failures + 1
  <2>1. RecordFailure(h) = IF old.until = "cooling" THEN [old EXCEPT !.failures = m]
                           ELSE IF m >= Threshold
                           THEN [old EXCEPT !.failures = m, !.until = "cooling", !.pending = TRUE]
                           ELSE [old EXCEPT !.failures = m]
    BY Zenon DEF RecordFailure
  <2>2. old \in HealthType /\ old.active = h.active
    BY DEF HealthType
  <2> HIDE DEF old, m
  <2> QED
    BY <2>1, <2>2 DEF HealthType
<1>3. RecordActiveSuccess(h).active = h.active
  BY DEF RecordActiveSuccess, HealthType
<1>4. IncrementActive(h).active = h.active + 1 /\ [h EXCEPT !.until = "expired"].active = h.active
  BY DEF IncrementActive, HealthType
<1>5. DecrementActive(h).active = IF h.active > 0 THEN h.active - 1 ELSE 0
  BY DEF DecrementActive, HealthType
<1> QED
  BY <1>1, <1>2, <1>3, <1>4, <1>5

\* What a step of r must keep: r's own state and the counters.
Moved(r) == task'[r] \in TaskType /\ RequestInv(task'[r], steady'[r]) /\ ActiveRequestsExact'

\* A request's step leaves the other requests alone, the task of which is
\* then one of the states.
LEMMA OtherTasks ==
    ASSUME task \in [Requests -> TaskType], NEW r \in Requests, RequestStep(r), task'[r] \in TaskType
    PROVE  task' \in [Requests -> TaskType] /\ \A x \in Requests \ {r} : task'[x] = task[x]
<1>1. task' = [task EXCEPT ![r] = task'[r]]
  BY OneTaskMoves
<1> DEFINE t == task'[r]
<1>2. task' = [task EXCEPT ![r] = t] /\ t \in TaskType
  BY <1>1
<1> HIDE DEF t
<1> QED
  BY <1>2

\* Without a guard before and after, the counters stay.
LEMMA GuardlessStep ==
    ASSUME TypeOK, ActiveRequestsExact, NEW r \in Requests, RequestStep(r),
           upstream' = upstream, health' = health,
           GuardOf(task[r]) = NoEndpoint, task'[r] \in TaskType, GuardOf(task'[r]) = NoEndpoint
    PROVE  ActiveRequestsExact'
<1>1. task' \in [Requests -> TaskType] /\ \A x \in Requests \ {r} : task'[x] = task[x]
  BY OtherTasks DEF TypeOK
<1>2. \A x \in Requests : GuardOf(task'[x]) = GuardOf(task[x])
  BY <1>1
<1> QED
  BY <1>1, <1>2, ExactKept

\* The steps of a selection.
LEMMA SelectionMoves ==
    ASSUME TypeOK, TaskInv, ActiveRequestsExact, Watch, NEW r \in Requests,
           Begin(r) \/ Resolve(r) \/ CountActive(r) \/ Examine(r) \/ FinishPool(r)
    PROVE  Moved(r)
<1>1. RequestStep(r)
  BY DEF RequestStep
<1>2. upstream' = upstream /\ health' = health /\ task[r].pc \in {"idle", "select"}
  BY DEF Begin, Resolve, CountActive, Examine, FinishPool
<1>3. GuardOf(task[r]) = NoEndpoint
  BY <1>2 DEF GuardOf
<1>4. ASSUME task'[r] \in SelectTask, SelectInv(task'[r], steady'[r])
      PROVE  task'[r] \in TaskType /\ RequestInv(task'[r], steady'[r]) /\ GuardOf(task'[r]) = NoEndpoint
  <2>1. task'[r].pc = "select"
    BY <1>4, SelectFields
  <2> QED
    BY <1>4, <2>1 DEF TaskType, RequestInv, GuardOf
<1>5. task'[r] \in TaskType /\ RequestInv(task'[r], steady'[r]) /\ GuardOf(task'[r]) = NoEndpoint
  <2>1. CASE Begin(r)
    BY <1>4, <2>1, BeginKeeps
  <2>2. CASE Resolve(r)
    BY <1>4, <2>2, ResolveKeeps
  <2>3. CASE Examine(r)
    BY <1>4, <2>3, ExamineKeeps
  <2>3a. CASE CountActive(r)
    BY <1>4, <2>3a, CountActiveKeeps
  <2>4. CASE FinishPool(r)
    <3>1. task'[r] \in SelectTask \cup AttemptTask /\ RequestInv(task'[r], steady'[r]) /\ GuardOf(task'[r]) = NoEndpoint
      BY <2>4, FinishPoolKeeps
    <3> QED
      BY <3>1 DEF TaskType
  <2> QED
    BY <2>1, <2>2, <2>3, <2>3a, <2>4
<1>6. ActiveRequestsExact'
  BY <1>1, <1>2, <1>3, <1>5, GuardlessStep
<1> QED
  BY <1>5, <1>6 DEF Moved

\* Without a guard a request may end at any time.
LEMMA AbandonMoves ==
    ASSUME TypeOK, TaskInv, ActiveRequestsExact, NEW r \in Requests, Abandon(r)
    PROVE  Moved(r)
<1>1. RequestStep(r)
  BY DEF RequestStep
<1>2. /\ upstream' = upstream /\ health' = health /\ task[r].pc \in {"select", "refused", "attempt"}
      /\ task' = [task EXCEPT ![r] = Idle] /\ task \in [Requests -> TaskType]
  BY DEF Abandon, TypeOK
<1>3. GuardOf(task[r]) = NoEndpoint
  <2>1. CASE task[r].pc = "select"
    BY <2>1 DEF GuardOf
  <2>2. CASE task[r].pc # "select"
    <3>1. AttemptInv(task[r])
      BY <1>2, <2>2, AttemptingRequest
    <3> QED
      BY <1>2, <2>2, <3>1 DEF AttemptInv, GuardOf
  <2> QED
    BY <2>1, <2>2
<1>4. task'[r] = Idle
  BY <1>2
<1>5. task'[r] \in TaskType /\ RequestInv(task'[r], steady'[r]) /\ GuardOf(task'[r]) = NoEndpoint
  BY <1>4 DEF TaskType, RequestInv, GuardOf, Idle
<1>6. ActiveRequestsExact'
  BY <1>1, <1>2, <1>3, <1>5, GuardlessStep
<1> QED
  BY <1>5, <1>6 DEF Moved

\* The steps between the first byte of an attempt and its end.
LEMMA UnderwayMoves ==
    ASSUME TypeOK, TaskInv, ActiveRequestsExact, NEW r \in Requests, RequestStep(r), upstream' = upstream,
           task[r].pc \in Underway, NEW pc \in Underway, pc = "retry" => CanRetry(task[r]),
           task' = [task EXCEPT ![r].pc = pc],
           \A p \in Peers : health'[p].active = health[p].active
    PROVE  Moved(r)
<1> DEFINE t == task[r]
           u == [t EXCEPT !.pc = pc]
<1>1. task \in [Requests -> TaskType] /\ t.pc \notin {"idle", "select"} /\ pc \notin {"idle", "select"}
  BY DEF TypeOK, Underway
<1>2. t \in AttemptTask /\ AttemptInv(t)
  BY <1>1, AttemptingRequest
<1>3. u \in AttemptTask /\ AttemptInv(u) /\ GuardOf(u) = GuardOf(t) /\ u.pc = pc
  <2>1. u.pc = pc
    BY <1>2 DEF AttemptTask
  <2>2. t.pc \in Underway /\ (pc = "retry" => CanRetry(t))
    OBVIOUS
  <2> HIDE DEF t
  <2> QED
    BY <1>2, <2>1, <2>2, UnderwayKeeps
<1>4. task'[r] = u
  BY <1>1
<1> HIDE DEF u
<1>5. task'[r] \in TaskType /\ RequestInv(task'[r], steady'[r])
  BY <1>1, <1>3, <1>4 DEF TaskType, RequestInv
<1>6. task' \in [Requests -> TaskType] /\ \A x \in Requests \ {r} : task'[x] = task[x]
  BY <1>1, <1>5, OtherTasks
<1>7. \A x \in Requests : GuardOf(task'[x]) = GuardOf(task[x])
  BY <1>3, <1>4, <1>6
<1>8. ActiveRequestsExact'
  BY <1>6, <1>7, ExactKept
<1> QED
  BY <1>5, <1>8 DEF Moved

\* A result is recorded in one entry.
LEMMA RecordedActive ==
    ASSUME TypeOK, NEW q \in Peers, NEW h, h.active = health[q].active, SetHealth(q, h)
    PROVE  \A p \in Peers : health'[p].active = health[p].active
  BY DEF SetHealth, TypeOK

\* Respond, FinishBody, Fail and ClientBodyError.
LEMMA ForwardMoves ==
    ASSUME TypeOK, TaskInv, ActiveRequestsExact, NEW r \in Requests,
           Respond(r) \/ FinishBody(r) \/ Fail(r) \/ ClientBodyError(r)
    PROVE  Moved(r)
<1>1. RequestStep(r) /\ upstream' = upstream /\ task[r].pc \in {"await", "body"}
  BY DEF RequestStep, Respond, FinishBody, Fail, ClientBodyError, Succeed
<1>2. task[r] \in AttemptTask /\ AttemptInv(task[r])
  BY <1>1, AttemptingRequest
<1>3. upstream \in Upstreams
  BY DEF TypeOK
<1>4. PICK e : e = Current(r) /\ PeerOf(e) \in Peers
  <2>1. PeerOf(task[r].peers[task[r].at]) \in Peers
    BY <1>1, <1>2, <1>3, CurrentEndpoint
  <2> QED
    BY <2>1 DEF Current
<1>5. PICK q \in Peers : q = PeerOf(Current(r))
  BY <1>4
<1>6. health[q] \in HealthType
  BY DEF TypeOK
<1>7. \A p \in Peers : health'[p].active = health[p].active
  <2>1. CASE health' = health
    BY <2>1
  <2>2. CASE Succeed(r)
    <3>1. SetHealth(q, RecordSuccess(health[q]))
      BY <1>5, <2>2 DEF Succeed
    <3> QED
      BY <1>6, <3>1, ActiveAfterRecords, RecordedActive
  <2>3. CASE Fail(r)
    <3>1. SetHealth(q, RecordFailure(health[q]))
      BY <1>5, <2>3 DEF Fail
    <3> QED
      BY <1>6, <3>1, ActiveAfterRecords, RecordedActive
  <2>4. health' = health \/ Succeed(r) \/ Fail(r)
    BY DEF Respond, FinishBody, ClientBodyError
  <2> QED
    BY <2>1, <2>2, <2>3, <2>4
<1>8. \E pc \in Underway : (pc = "retry" => CanRetry(task[r])) /\ task' = [task EXCEPT ![r].pc = pc]
  <2>1. \A pc \in {"responding", "unwind", "body"} : pc \in Underway /\ pc # "retry"
    BY DEF Underway
  <2>2. CASE Succeed(r)
    BY <2>1, <2>2 DEF Succeed
  <2>3. CASE Fail(r)
    <3>1. CASE CanRetry(task[r])
      <4>1. task' = [task EXCEPT ![r].pc = "retry"] /\ "retry" \in Underway
        BY <2>3, <3>1 DEF Fail, Underway
      <4> QED
        BY <3>1, <4>1
    <3>2. CASE ~CanRetry(task[r])
      <4>1. task' = [task EXCEPT ![r].pc = "unwind"]
        BY <2>3, <3>2 DEF Fail
      <4> QED
        BY <2>1, <4>1
    <3> QED
      BY <3>1, <3>2
  <2>4. CASE task' = [task EXCEPT ![r].pc = "body"] \/ task' = [task EXCEPT ![r].pc = "unwind"]
    BY <2>1, <2>4
  <2> QED
    BY <2>2, <2>3, <2>4 DEF Respond, FinishBody, ClientBodyError
<1>9. task[r].pc \in Underway
  BY <1>1 DEF Underway
<1> QED
  BY <1>1, <1>7, <1>8, <1>9, UnderwayMoves

\* Attempt: the guard is taken and counted.
LEMMA AttemptMoves ==
    ASSUME TypeOK, TaskInv, ActiveRequestsExact, NEW r \in Requests, Attempt(r)
    PROVE  Moved(r)
<1> DEFINE t == task[r]
           u == task'[r]
<1>1. RequestStep(r) /\ upstream' = upstream /\ t.pc = "attempt" /\ upstream \in Upstreams
      /\ task \in [Requests -> TaskType] /\ health \in [Peers -> HealthType]
  BY DEF RequestStep, Attempt, TypeOK
<1>2. t \in AttemptTask /\ AttemptInv(t)
  BY <1>1, AttemptingRequest
<1>3. PICK e \in Endpoints : e = Current(r) /\ e # NoEndpoint /\ PeerOf(e) \in Peers
  <2>1. /\ t.peers[t.at] \in Endpoints /\ t.peers[t.at] # NoEndpoint /\ PeerOf(t.peers[t.at]) \in Peers
    BY <1>1, <1>2, CurrentEndpoint
  <2> QED
    BY <2>1 DEF Current
<1>4. PICK q \in Peers : q = PeerOf(e)
  BY <1>3
<1>5. task' = [task EXCEPT ![r].pc = "await", ![r].guard = e] /\ SetHealth(q, IncrementActive(health[q]))
  BY <1>3, <1>4 DEF Attempt
<1>6. u = [t EXCEPT !.pc = "await", !.guard = e]
  BY <1>1, <1>5
<1>7. /\ u \in AttemptTask /\ u.pc = "await" /\ u.guard = e
      /\ u.kind = t.kind /\ u.peers = t.peers /\ u.at = t.at
  <2> HIDE DEF u, t
  <2> QED
    BY <1>2, <1>6 DEF AttemptTask
<1>8. e = t.peers[t.at]
  BY <1>3 DEF Current
<1> HIDE DEF t, u
<1>9. AttemptInv(u)
  BY <1>1, <1>2, <1>7, <1>8 DEF AttemptInv
<1>10. u \in TaskType /\ RequestInv(u, steady'[r])
  BY <1>7, <1>9 DEF TaskType, RequestInv
<1>11. GuardOf(t) = NoEndpoint /\ GuardOf(u) = e
  BY <1>1, <1>2, <1>7 DEF GuardOf, AttemptInv
<1>12. task' \in [Requests -> TaskType] /\ \A x \in Requests \ {r} : task'[x] = task[x]
  BY <1>1, <1>10, OtherTasks DEF u
<1>13. health'[q].active = health[q].active + 1 /\ \A p \in Peers \ {q} : health'[p].active = health[p].active
  <2>1. IncrementActive(health[q]).active = health[q].active + 1
    BY <1>1, ActiveAfterRecords
  <2> QED
    BY <1>1, <1>5, <2>1 DEF SetHealth
<1>14. ActiveRequestsExact'
  BY <1>1, <1>3, <1>4, <1>11, <1>12, <1>13, ExactAdded DEF t, u
<1> QED
  BY <1>10, <1>14 DEF Moved, u

\* Retry, Finish and Disconnect: the guard is dropped.
LEMMA ReleaseMoves ==
    ASSUME TypeOK, TaskInv, ActiveRequestsExact, NEW r \in Requests, Retry(r) \/ Finish(r) \/ Disconnect(r)
    PROVE  Moved(r)
<1> DEFINE t == task[r]
           u == task'[r]
<1>1. /\ RequestStep(r) /\ upstream' = upstream /\ t.pc \in Underway /\ upstream \in Upstreams
      /\ task \in [Requests -> TaskType] /\ health \in [Peers -> HealthType]
  BY DEF RequestStep, Retry, Finish, Disconnect, Release, TypeOK, Underway
<1>2. t.pc \notin {"idle", "select", "refused", "attempt"}
  BY <1>1 DEF Underway
<1>3. t \in AttemptTask /\ AttemptInv(t)
  BY <1>2, AttemptingRequest
<1>4. t.guard = t.peers[t.at] /\ GuardOf(t) = t.guard
  BY <1>2, <1>3 DEF AttemptInv, GuardOf
<1>5. t.guard # NoEndpoint /\ PeerOf(t.guard) \in Peers
  BY <1>1, <1>2, <1>3, <1>4, CurrentEndpoint
<1>6. PICK q \in Peers : q = PeerOf(task[r].guard)
  BY <1>5
<1>7. SetHealth(q, DecrementActive(health[q]))
  BY <1>6 DEF Retry, Finish, Disconnect, Release
<1>8. u \in TaskType /\ RequestInv(u, steady'[r]) /\ GuardOf(u) = NoEndpoint
  <2>1. CASE Retry(r)
    <3>1. u = Attempting(t, "attempt", t.peers, t.at + 1, NoEndpoint) /\ t.pc = "retry"
      BY <1>1, <2>1 DEF Retry, Release
    <3>2. /\ CanFailover(t.kind) /\ t.at < Len(t.peers) /\ Len(t.peers) <= 2 /\ t.kind \in Kinds
          /\ t.peers \in Seq(Endpoints) /\ t.at \in {1, 2} /\ Distinct(t.peers) /\ Len(t.peers) <= Limit(t.kind)
          /\ \A e \in ToSet(t.peers) : \E p \in Peers : e \in ToSet(upstream.endpoints[p])
      BY <1>3, <3>1, AttemptFields DEF AttemptInv, CanRetry, Limit
    <3>3. t.at + 1 \in {1, 2} /\ t.at + 1 \in DOMAIN t.peers
      BY <3>2
    <3> DEFINE n == t.at + 1
               fresh == Attempting(t, "attempt", t.peers, n, NoEndpoint)
    <3> HIDE DEF t, n
    <3>4. fresh \in AttemptTask /\ AttemptInv(fresh) /\ GuardOf(fresh) = NoEndpoint
      BY <1>1, <3>2, <3>3, FreshAttempt DEF n
    <3>5. fresh.pc = "attempt" /\ u = fresh
      BY <3>1 DEF Attempting, n
    <3> HIDE DEF fresh, u
    <3> QED
      BY <3>4, <3>5 DEF TaskType, RequestInv
  <2>2. CASE Finish(r) \/ Disconnect(r)
    <3>1. u = Idle
      BY <1>1, <2>2 DEF Finish, Disconnect, Release
    <3> QED
      BY <3>1 DEF TaskType, RequestInv, GuardOf, Idle
  <2> QED
    BY <2>1, <2>2
<1> HIDE DEF t, u
<1>9. task' \in [Requests -> TaskType] /\ \A x \in Requests \ {r} : task'[x] = task[x]
  BY <1>1, <1>8, OtherTasks DEF u
<1>10. /\ health'[q].active = IF health[q].active > 0 THEN health[q].active - 1 ELSE 0
       /\ \A p \in Peers \ {q} : health'[p].active = health[p].active
  <2>1. DecrementActive(health[q]).active = IF health[q].active > 0 THEN health[q].active - 1 ELSE 0
    BY <1>1, ActiveAfterRecords
  <2> QED
    BY <1>1, <1>7, <2>1 DEF SetHealth
<1>11. ActiveRequestsExact'
  BY <1>1, <1>4, <1>5, <1>6, <1>8, <1>9, <1>10, ExactRemoved DEF t, u
<1> QED
  BY <1>8, <1>11 DEF Moved, u

-----------------------------------------------------------------------------
(* The invariant, and what follows from it.                                *)

\* The states of a probe task.
Probes == [resolved : BOOLEAN, eps : Seq(Endpoints)]

\* A probe task that has resolved its peer has an endpoint left to probe.
ProbesInv == \A p \in DOMAIN probing : probing[p].resolved => probing[p].eps # <<>>

\* The inductive invariant of the peers and their requests.
PeersInv == HealthInv /\ TypeOK /\ ProbesInv /\ TaskInv /\ ActiveRequestsExact

\* The probe tasks of a round, after a step of one of them.
LEMMA ProbesLeftType ==
    ASSUME DOMAIN probing \subseteq Peers, \A p \in DOMAIN probing : probing[p] \in Probes, ProbesInv,
           NEW q \in DOMAIN probing, NEW eps \in Seq(Endpoints), NEW left,
           left \in {ProbesLeft(q, eps), WithoutProbe(q)}
    PROVE  /\ DOMAIN left \subseteq Peers /\ \A p \in DOMAIN left : left[p] \in Probes
           /\ \A p \in DOMAIN left : left[p].resolved => left[p].eps # <<>>
<1>1. CASE left = WithoutProbe(q)
  <2>1. DOMAIN left = DOMAIN probing \ {q} /\ \A p \in DOMAIN probing \ {q} : left[p] = probing[p]
    BY <1>1 DEF WithoutProbe
  <2> QED
    BY <2>1 DEF ProbesInv
<1>2. CASE left # WithoutProbe(q)
  <2> DEFINE new == [resolved |-> TRUE, eps |-> eps]
  <2>1. eps # <<>> /\ left = [probing EXCEPT ![q] = new]
    BY <1>2 DEF ProbesLeft
  <2>2. new \in Probes /\ new.eps # <<>>
    BY <2>1 DEF Probes
  <2> HIDE DEF new
  <2>3. DOMAIN left = DOMAIN probing /\ left[q] = new /\ \A p \in DOMAIN probing \ {q} : left[p] = probing[p]
    BY <2>1
  <2> QED
    BY <2>2, <2>3 DEF ProbesInv
<1> QED
  BY <1>1, <1>2

\* The steps of requests.
LEMMA RequestStepInv ==
    ASSUME PeersInv, Watch, NEW r \in Requests, RequestStep(r)
    PROVE  /\ task' \in [Requests -> TaskType] /\ TaskInv' /\ ActiveRequestsExact'
           /\ upstream' = upstream /\ probing' = probing
           /\ cursor' \in Nat /\ ensured' \subseteq Endpoints /\ faults' \in 0 .. MaxFaults
<1>1. /\ TypeOK /\ TaskInv /\ ActiveRequestsExact /\ task \in [Requests -> TaskType] /\ cursor \in Nat
      /\ steady \in [Requests -> [up : SUBSET Peers, down : SUBSET Peers]]
      /\ ensured \subseteq Endpoints /\ faults \in 0 .. MaxFaults /\ MaxFaults \in Nat
  BY PolicyAssumption DEF PeersInv, TypeOK
<1>2. Moved(r)
  <2>1. CASE Begin(r) \/ Resolve(r) \/ CountActive(r) \/ Examine(r) \/ FinishPool(r)
    BY <1>1, <2>1, SelectionMoves
  <2>2. CASE Respond(r) \/ FinishBody(r) \/ Fail(r) \/ ClientBodyError(r)
    BY <1>1, <2>2, ForwardMoves
  <2>3. CASE Retry(r) \/ Finish(r) \/ Disconnect(r)
    BY <1>1, <2>3, ReleaseMoves
  <2>4. CASE Attempt(r) \/ Abandon(r)
    BY <1>1, <2>4, AttemptMoves, AbandonMoves
  <2> QED
    BY <2>1, <2>2, <2>3, <2>4 DEF RequestStep
<1>3. /\ task'[r] \in TaskType /\ RequestInv(task'[r], steady'[r]) /\ ActiveRequestsExact'
  BY <1>2 DEF Moved
<1>4. task' \in [Requests -> TaskType] /\ \A x \in Requests \ {r} : task'[x] = task[x]
  BY <1>1, <1>3, OtherTasks
<1>5. upstream' = upstream /\ probing' = probing
  BY DEF RequestStep, Begin, Resolve, CountActive, Examine, FinishPool, Attempt, Respond, FinishBody, Succeed,
         Fail, ClientBodyError, Retry, Finish, Disconnect, Release, Abandon
<1>6. \A x \in Requests : RequestInv(task'[x], steady'[x])
  <2> SUFFICES ASSUME NEW x \in Requests, x # r PROVE RequestInv(task'[x], steady'[x])
    BY <1>3
  <2>1. task'[x] = task[x] /\ RequestInv(task[x], steady[x])
    BY <1>1, <1>4 DEF TaskInv
  <2> QED
    BY <1>1, <2>1, OthersKeep
<1>7. TaskInv'
  BY <1>5, <1>6, TaskInvAfter
<1>8. cursor' \in Nat
  <2>1. CASE Begin(r) \/ FinishPool(r)
    BY <1>1, <2>1, BeginKeeps, FinishPoolKeeps
  <2>2. CASE ~(Begin(r) \/ FinishPool(r))
    <3>1. cursor' = cursor
      BY <2>2 DEF RequestStep, Resolve, CountActive, Examine, Attempt, Respond, FinishBody, Succeed,
         Fail, ClientBodyError, Retry, Finish, Disconnect, Release, Abandon
    <3> QED
      BY <1>1, <3>1
  <2> QED
    BY <2>1, <2>2
<1>9. ensured' \subseteq Endpoints
  <2>1. CASE Resolve(r)
    BY <1>1, <2>1, ResolveKeeps
  <2>2. CASE ~Resolve(r)
    <3>1. ensured' = ensured
      BY <2>2 DEF RequestStep, Begin, FinishPool, CountActive, Examine, Attempt, Respond, FinishBody, Succeed,
         Fail, ClientBodyError, Retry, Finish, Disconnect, Release, Abandon
    <3> QED
      BY <1>1, <3>1
  <2> QED
    BY <2>1, <2>2
<1>10. faults' \in 0 .. MaxFaults
  <2>1. faults' = faults \/ (faults < MaxFaults /\ faults' = faults + 1)
    BY DEF RequestStep, Begin, Resolve, CountActive, Examine, FinishPool, Attempt, Respond, FinishBody, Succeed,
         Fail, ClientBodyError, Retry, Finish, Disconnect, Release, Abandon
  <2> QED
    BY <1>1, <2>1
<1> QED
  BY <1>3, <1>4, <1>5, <1>7, <1>8, <1>9, <1>10

\* The steps of the health checker and of time: requests stay as they are.
LEMMA OtherStepInv ==
    ASSUME PeersInv, Watch, NEW q \in Inside, NEW due \in SUBSET Inside,
           ProbeStep(q) \/ CooldownEnds(q) \/ StartRound(due)
    PROVE  /\ task' = task /\ TaskInv' /\ ActiveRequestsExact'
           /\ upstream' = upstream /\ cursor' = cursor /\ ensured' = ensured
           /\ DOMAIN probing' \subseteq Peers /\ \A p \in DOMAIN probing' : probing'[p] \in Probes
           /\ ProbesInv' /\ faults' \in 0 .. MaxFaults
<1>1. /\ TypeOK /\ TaskInv /\ ActiveRequestsExact /\ task \in [Requests -> TaskType] /\ cursor \in Nat
      /\ steady \in [Requests -> [up : SUBSET Peers, down : SUBSET Peers]]
      /\ faults \in 0 .. MaxFaults /\ MaxFaults \in Nat /\ upstream \in Upstreams
      /\ DOMAIN probing \subseteq Peers /\ (\A p \in DOMAIN probing : probing[p] \in Probes)
      /\ health \in [Peers -> HealthType] /\ ProbesInv
  BY PolicyAssumption DEF PeersInv, TypeOK, Probes
<1>2. q \in Peers /\ due \subseteq Peers
  BY DEF Inside
<1>3. task' = task /\ upstream' = upstream /\ cursor' = cursor /\ ensured' = ensured
  BY DEF ProbeStep, ProbeWithoutClient, ProbeResolve, ProbeGood, ProbeBad, Probed, CooldownEnds, StartRound
<1>4. \A x \in Requests : RequestInv(task'[x], steady'[x])
  <2> SUFFICES ASSUME NEW x \in Requests PROVE RequestInv(task'[x], steady'[x])
    OBVIOUS
  <2>1. task'[x] = task[x] /\ RequestInv(task[x], steady[x])
    BY <1>1, <1>3 DEF TaskInv
  <2> QED
    BY <1>1, <2>1, OthersKeep
<1>5. TaskInv'
  BY <1>3, <1>4, TaskInvAfter
<1>6. \A p \in Peers : health'[p].active = health[p].active
  <2>1. CASE health' = health
    BY <2>1
  <2>2. CASE ~(health' = health)
    <3>1. health[q] \in HealthType
      BY <1>1, <1>2
    <3>2. \/ SetHealth(q, health[q]) \/ SetHealth(q, RecordActiveSuccess(health[q]))
          \/ SetHealth(q, RecordActiveFailure(health[q])) \/ SetHealth(q, [health[q] EXCEPT !.until = "expired"])
      BY <2>2 DEF ProbeStep, ProbeWithoutClient, ProbeResolve, ProbeGood, ProbeBad, Probed, CooldownEnds, StartRound
    <3> QED
      BY <1>1, <1>2, <3>1, <3>2, ActiveAfterRecords, RecordedActive
  <2> QED
    BY <2>1, <2>2
<1>7. ActiveRequestsExact'
  BY <1>1, <1>3, <1>6, ExactKept
<1>8. faults' \in 0 .. MaxFaults
  <2>1. faults' = faults \/ (faults < MaxFaults /\ faults' = faults + 1)
    BY DEF ProbeStep, ProbeWithoutClient, ProbeResolve, ProbeGood, ProbeBad, Probed, CooldownEnds, StartRound
  <2> QED
    BY <1>1, <2>1
<1>9. /\ DOMAIN probing' \subseteq Peers /\ \A p \in DOMAIN probing' : probing'[p] \in Probes
      /\ \A p \in DOMAIN probing' : probing'[p].resolved => probing'[p].eps # <<>>
  <2>1. CASE StartRound(due)
    <3>1. probing' = [p \in due |-> [resolved |-> FALSE, eps |-> <<>>]]
      BY <2>1 DEF StartRound
    <3> QED
      BY <1>2, <3>1 DEF Probes
  <2>2. CASE CooldownEnds(q)
    BY <1>1, <2>2 DEF CooldownEnds, ProbesInv
  <2>2a. CASE ProbeWithoutClient(q)
    <3>1. q \in DOMAIN probing /\ probing' = WithoutProbe(q) /\ <<>> \in Seq(Endpoints)
      BY <2>2a DEF ProbeWithoutClient
    <3> QED
      BY <1>1, <3>1, ProbesLeftType
  <2>3. CASE ProbeResolve(q)
    <3>1. upstream.endpoints[q] \in Seq(Endpoints)
      BY <1>1, <1>2, UpstreamFacts
    <3>2. PICK eps \in Seq(Endpoints) : eps = upstream.endpoints[q]
      BY <3>1
    <3>3. q \in DOMAIN probing /\ (probing' = ProbesLeft(q, eps) \/ probing' = WithoutProbe(q))
      BY <2>3, <3>2 DEF ProbeResolve
    <3> QED
      BY <1>1, <3>3, ProbesLeftType
  <2>4. CASE ProbeGood(q) \/ ProbeBad(q)
    <3>1. q \in DOMAIN probing /\ probing[q].resolved /\ probing' = ProbesLeft(q, Tail(probing[q].eps))
      BY <2>4 DEF ProbeGood, ProbeBad, Probed
    <3>2. probing[q].eps \in Seq(Endpoints) /\ probing[q].eps # <<>>
      BY <1>1, <3>1 DEF Probes, ProbesInv
    <3>3. PICK eps \in Seq(Endpoints) : eps = Tail(probing[q].eps)
      <4>1. Tail(probing[q].eps) \in Seq(Endpoints)
        BY <3>2, HeadAndTail
      <4> QED
        BY <4>1
    <3>4. probing' = ProbesLeft(q, eps)
      BY <3>1, <3>3
    <3> QED
      BY <1>1, <3>1, <3>4, ProbesLeftType
  <2> QED
    BY <2>1, <2>2, <2>2a, <2>3, <2>4 DEF ProbeStep
<1> QED
  BY <1>3, <1>5, <1>7, <1>8, <1>9 DEF ProbesInv

\* Every step keeps the invariant.
LEMMA PeersInvNext == PeersInv /\ [Next]_vars => PeersInv'
<1> SUFFICES ASSUME PeersInv, [Next]_vars PROVE PeersInv'
  OBVIOUS
<1>0. HealthInv' /\ upstream \in Upstreams
  BY HealthInvNext DEF PeersInv, TypeOK
<1>1. CASE UNCHANGED vars
  <2>1. UNCHANGED <<upstream, cursor, health, ensured, task, probing, faults, steady, streak>>
    BY <1>1 DEF vars
  <2>2. TypeOK' /\ ProbesInv'
    BY <2>1 DEF PeersInv, TypeOK, ProbesInv
  <2>3. TaskInv'
    BY <2>1, TaskInvAfter DEF PeersInv, TaskInv
  <2>4. ActiveRequestsExact'
    BY <2>1, ExactKept DEF PeersInv, TypeOK
  <2> QED
    BY <1>0, <2>2, <2>3, <2>4 DEF PeersInv
<1>2. CASE Next
  <2>1. Watch /\ steady' \in [Requests -> [up : SUBSET Peers, down : SUBSET Peers]]
    BY <1>2, WatchEffect DEF Next, PeersInv, TypeOK
  <2>2. health' \in [Peers -> HealthType] /\ streak' \in [Peers -> 0 .. Required]
    BY <1>0 DEF HealthInv
  <2>3. CASE \E r \in Requests : RequestStep(r)
    <3>1. /\ task' \in [Requests -> TaskType] /\ TaskInv' /\ ActiveRequestsExact'
          /\ upstream' = upstream /\ probing' = probing
          /\ cursor' \in Nat /\ ensured' \subseteq Endpoints /\ faults' \in 0 .. MaxFaults
      BY <2>1, <2>3, RequestStepInv
    <3>2. ProbesInv' /\ TypeOK'
      BY <2>1, <2>2, <3>1 DEF PeersInv, TypeOK, ProbesInv
    <3> QED
      BY <1>0, <3>1, <3>2 DEF PeersInv
  <2>4. CASE \E q \in Inside, due \in SUBSET Inside : ProbeStep(q) \/ CooldownEnds(q) \/ StartRound(due)
    <3>1. /\ task' = task /\ TaskInv' /\ ActiveRequestsExact'
          /\ upstream' = upstream /\ cursor' = cursor /\ ensured' = ensured
          /\ DOMAIN probing' \subseteq Peers /\ (\A p \in DOMAIN probing' : probing'[p] \in Probes)
          /\ ProbesInv' /\ faults' \in 0 .. MaxFaults
      BY <2>1, <2>4, OtherStepInv
    <3>2. TypeOK'
      BY <2>1, <2>2, <3>1 DEF PeersInv, TypeOK, Probes
    <3> QED
      BY <1>0, <3>1, <3>2 DEF PeersInv
  <2>5. ASSUME NEW due \in SUBSET Inside, StartRound(due)
        PROVE  \E q \in Inside : TRUE
    BY <2>5 DEF StartRound
  <2> QED
    BY <1>2, <2>3, <2>4, <2>5 DEF Next
<1> QED
  BY <1>1, <1>2

\* It holds when the configuration comes into use.
LEMMA PeersInvInit == Init => PeersInv
<1> SUFFICES ASSUME Init PROVE PeersInv
  OBVIOUS
<1>1. Healthy \in HealthType /\ Required \in 0 .. Required /\ Earned(Healthy, Required) /\ MaxFaults \in Nat
  BY PolicyAssumption DEF Healthy, HealthType, Earned
<1>2. HealthInv
  BY <1>1 DEF Init, HealthInv
<1>3. Idle \in TaskType /\ Idle.pc = "idle"
  BY DEF TaskType, Idle
<1>4. TypeOK
  BY <1>1, <1>3 DEF Init, TypeOK
<1>5. ProbesInv
  BY DEF Init, ProbesInv
<1>6. TaskInv
  BY <1>3 DEF Init, TaskInv, RequestInv
<1>7. ActiveRequestsExact
  <2> SUFFICES ASSUME NEW p \in Peers PROVE health[p].active = Cardinality(Guards(p))
    BY DEF ActiveRequestsExact
  <2>1. Guards(p) = {}
    BY DEF Init, Guards, Idle
  <2>2. health[p].active = 0
    BY DEF Init, Healthy
  <2> QED
    BY <2>1, <2>2, FS_EmptySet
<1> QED
  BY <1>2, <1>4, <1>5, <1>6, <1>7 DEF PeersInv

\* What the load balancing policies go by is exact: active_requests of a peer is
\* the number of requests that hold a guard of it, however they end (answer,
\* failover, error, disconnect, end of a body), and round robin gives every
\* peer its weight in first places over one turn of the cursor, from wherever
\* the cursor is, for any weights and pools (track_active_request,
\* ActivePeerGuard::drop, weighted_peers_from_indices).
THEOREM BalancingIsExact == Spec => []BalancingSound
<1>1. PeersInv => BalancingSound
  BY SharesAreWeights DEF PeersInv, TypeOK, BalancingSound
<1> QED
  BY <1>1, PeersInvInit, PeersInvNext, PTL DEF Spec

\* A request is given to a second endpoint, or even selected one, only when its
\* method is idempotent, its whole body was in hand before the first attempt and
\* its route buffers requests, and then to one more only, whatever happened to
\* the peers and to its own attempts since (prepare_request_body,
\* can_retry_peer_request, prepare_forward_request).
THEOREM FailoverOnlyWhenSafe == Spec => []FailoverIsSafe
<1>1. ASSUME PeersInv PROVE FailoverIsSafe
  <2> DEFINE Safe(t) == /\ t.at \in DOMAIN t.peers /\ t.at <= 2
                        /\ t.at > 1 \/ Len(t.peers) > 1 =>
                              t.kind.idempotent /\ Collected(t.kind) /\ t.kind.buffering # "off"
  <2> SUFFICES ASSUME NEW r \in Requests, task[r].pc \notin {"idle", "select", "refused"}
               PROVE  Safe(task[r])
    BY DEF FailoverIsSafe
  <2> HIDE DEF Safe
  <2>1. TypeOK /\ TaskInv /\ task[r] \in TaskType
    BY <1>1 DEF PeersInv, TypeOK
  <2>3. task[r] \in AttemptTask /\ AttemptInv(task[r])
    BY <2>1, AttemptingRequest
  <2>4. task[r].at \in {1, 2} /\ task[r].peers \in Seq(Endpoints)
    BY <2>3, AttemptFields
  <2>5. /\ task[r].at > 1 => CanFailover(task[r].kind) /\ task[r].at \in DOMAIN task[r].peers
        /\ task[r].at \in DOMAIN task[r].peers /\ Len(task[r].peers) <= Limit(task[r].kind)
    BY <2>3 DEF AttemptInv
  <2>6. Len(task[r].peers) > 1 => CanFailover(task[r].kind)
    BY <2>4, <2>5 DEF Limit
  <2> QED
    BY <2>4, <2>5, <2>6 DEF CanFailover, Safe
<1> QED
  BY <1>1, PeersInvInit, PeersInvNext, PTL DEF Spec

\* Every selection is right for the whole time it took: it has no endpoint of a
\* peer that was out throughout, it comes back short only when it has every
\* endpoint of every peer that was selectable and resolved throughout, and it
\* falls back to backups only after all such primaries, while other requests
\* and probes change the registry between any two of its steps (select_peers,
\* select_available_peers, select_peers_by_least_conn_in_pool).
THEOREM SelectionsCorrect == Spec => SelectionCorrect
<1>1. ASSUME PeersInv, [Next]_vars PROVE [SoundStep /\ CompleteStep /\ PrimariesStep]_vars
  <2> SUFFICES ASSUME Next PROVE SoundStep /\ CompleteStep /\ PrimariesStep
    BY <1>1
  <2>0. TypeOK /\ TaskInv /\ Watch /\ upstream \in Upstreams /\ task \in [Requests -> TaskType]
    BY <1>1 DEF PeersInv, TypeOK, Next
  <2>1. ASSUME NEW r \in Requests, Selects(r) PROVE FinishPool(r)
    <3>1. task[r].pc = "select" /\ task'[r].pc \in {"attempt", "refused"} /\ task'[r] # task[r]
      BY <2>1 DEF Selects
    <3>2. PICK s \in Requests : RequestStep(s)
      <4>1. ASSUME NEW q, NEW due, ProbeStep(q) \/ CooldownEnds(q) \/ StartRound(due) PROVE task' = task
        BY <4>1 DEF ProbeStep, ProbeWithoutClient, ProbeResolve, ProbeGood, ProbeBad, Probed, CooldownEnds, StartRound
      <4> QED
        BY <3>1, <4>1 DEF Next
    <3>3. s = r
      <4>1. task' = [task EXCEPT ![s] = task'[s]]
        BY <2>0, <3>2, OneTaskMoves
      <4> DEFINE t == task'[s]
      <4>2. task' = [task EXCEPT ![s] = t]
        BY <4>1
      <4> HIDE DEF t
      <4> QED
        BY <2>0, <3>1, <4>2
    <3>4. CASE Resolve(r) \/ CountActive(r) \/ Examine(r)
      <4>1. task'[r] \in SelectTask
        BY <2>0, <3>4, ResolveKeeps, CountActiveKeeps, ExamineKeeps
      <4> QED
        BY <3>1, <4>1, SelectFields
    <3>5. CASE Abandon(r)
      <4>1. task'[r] = Idle
        BY <2>0, <3>5 DEF Abandon
      <4> QED
        BY <3>1, <4>1 DEF Idle
    <3>6. ~(Begin(r) \/ Attempt(r) \/ Respond(r) \/ FinishBody(r) \/ Fail(r) \/ ClientBodyError(r)
             \/ Retry(r) \/ Finish(r) \/ Disconnect(r))
      BY <3>1 DEF Begin, Attempt, Respond, FinishBody, Fail, ClientBodyError, Retry, Finish, Disconnect
    <3> QED
      BY <3>2, <3>3, <3>4, <3>5, <3>6 DEF RequestStep
  <2>2. ASSUME NEW r \in Requests, Selects(r)
        PROVE  /\ ChosenInv(task[r], steady[r], task'[r].peers)
               /\ \/ ~task[r].isBackup /\ Len(task'[r].peers) = Limit(task[r].kind)
                  \/ task[r].isBackup
               /\ steady[r].up \subseteq Inside /\ task[r].isBackup \in BOOLEAN
    <3>1. FinishPool(r) /\ task[r].pc = "select"
      BY <2>1, <2>2 DEF Selects
    <3>2. task[r] \in SelectTask /\ SelectInv(task[r], steady[r])
      BY <2>0, <3>1, SelectingRequest
    <3>3. steady[r].up \subseteq Inside /\ task[r].isBackup \in BOOLEAN
      BY <3>2, SelectFields DEF SelectInv
    <3> QED
      BY <2>0, <2>2, <3>1, <3>3, FinishPoolKeeps
  <2>3. SoundStep
    BY <2>2 DEF SoundStep, ChosenInv
  <2>4. PrimariesStep
    BY <2>2 DEF PrimariesStep, ChosenInv
  <2>5. CompleteStep
    <3> SUFFICES ASSUME NEW r \in Requests, Selects(r), Len(task'[r].peers) < Limit(task[r].kind),
                        NEW p \in steady[r].up
                 PROVE  ToSet(upstream.endpoints[p]) \subseteq ToSet(task'[r].peers)
      BY DEF CompleteStep
    <3>1. task[r].isBackup /\ p \in Inside /\ ChosenInv(task[r], steady[r], task'[r].peers)
      <4>1. Limit(task[r].kind) \in Nat
        BY DEF Limit
      <4> QED
        BY <2>2, <4>1
    <3>2. p \in PoolSet(TRUE) \/ p \in PoolSet(FALSE)
      BY <2>0, <3>1, PoolMembers DEF PoolSet
    <3>3. task[r].isBackup = TRUE
      BY <2>2, <3>1
    <3> QED
      BY <3>1, <3>2, <3>3 DEF ChosenInv
  <2> QED
    BY <2>3, <2>4, <2>5
<1> QED
  BY <1>1, PeersInvInit, PeersInvNext, PTL DEF Spec, SelectionCorrect

-----------------------------------------------------------------------------
(* The age of the addresses a name resolves to.                            *)

\* An entry that holds addresses is used at most max_ttl plus stale_if_error
\* beyond the end of its record.
EntryBounded(e) ==
    /\ e.until \in Nat /\ e.valid \in Nat /\ e.stale \in Nat
    /\ e.valid <= e.until + dns.max
    /\ e.stale <= e.until + dns.max + dns.stale

\* A request that has its answer asked before the record it holds ended.
Resolving == [pc : {"idle", "lookup", "answer", "failing"}, now : Nat, until : Int]
InTime(t) == t.now <= time /\ (t.pc = "answer" => t.until \in Nat /\ t.now <= t.until)

\* What the lookups and the entry know of their moments.
ResolverInv ==
    /\ dns \in DnsPolicies
    /\ time \in Nat /\ hickory \in Int
    /\ resolving \in [Resolvers -> Resolving]
    /\ \A q \in Resolvers : InTime(resolving[q])
    /\ ~entry.negative => EntryBounded(entry)
    /\ answered.asked \in Nat /\ answered.until \in Nat
    /\ answered.asked <= answered.until + dns.max + dns.stale

\* The time to live an entry gets is at most max_ttl.
LEMMA ClampTtlBounded ==
    ASSUME dns \in DnsPolicies, NEW ttl \in Nat
    PROVE  ClampTtl(ttl) \in Nat /\ ClampTtl(ttl) <= dns.max
BY ResolverAssumption DEF ClampTtl

\* Every step of a request, of the status pages and of the clock keeps it.
LEMMA ResolverInvNext == ResolverInv /\ [ResolverNext]_resolverVars => ResolverInv'
<1> SUFFICES ASSUME ResolverInv, [ResolverNext]_resolverVars PROVE ResolverInv'
  OBVIOUS
<1>0. /\ dns.max \in Nat /\ dns.stale \in Nat /\ dns.refresh \in Nat /\ dns.negative \in Nat
      /\ Unresolving \in Resolving /\ InTime(Unresolving) /\ time \in Nat
  BY ResolverAssumption DEF ResolverInv, Unresolving, Resolving, InTime
<1>1. ASSUME NEW q \in Resolvers, NEW now \in Nat, NEW until \in Nat, GiveAnswer(q, now, until),
             now <= until + dns.max + dns.stale, UNCHANGED <<dns, time, hickory>>,
             UNCHANGED entry \/ EntryBounded(entry')
      PROVE  ResolverInv'
  <2>1. /\ answered' = [asked |-> now, until |-> until]
        /\ resolving' = [resolving EXCEPT ![q] = Unresolving]
    BY <1>1 DEF GiveAnswer
  <2>2. ~entry'.negative => EntryBounded(entry)'
    BY <1>1 DEF ResolverInv, EntryBounded
  <2>3. \A x \in Resolvers : InTime(resolving[x])'
    BY <1>0, <1>1, <2>1 DEF ResolverInv, InTime
  <2>4. answered'.asked = now /\ answered'.until = until
    BY <2>1
  <2>5. resolving' \in [Resolvers -> Resolving]
    BY <1>0, <2>1 DEF ResolverInv
  <2> QED
    BY <1>0, <1>1, <2>2, <2>3, <2>4, <2>5 DEF ResolverInv
<1>2. ASSUME NEW q \in Resolvers, NEW t \in Resolving, InTime(t), resolving' = [resolving EXCEPT ![q] = t],
             UNCHANGED <<dns, time, answered>>, hickory' \in Int, UNCHANGED entry \/ entry'.negative = TRUE
      PROVE  ResolverInv'
  <2>1. ~entry'.negative => EntryBounded(entry)'
    BY <1>2 DEF ResolverInv, EntryBounded
  <2>2. \A x \in Resolvers : InTime(resolving[x])'
    BY <1>0, <1>2 DEF ResolverInv, InTime
  <2> QED
    BY <1>0, <1>2, <2>1, <2>2 DEF ResolverInv
<1>3. ASSUME NEW q \in Resolvers, ResolveHit(q) PROVE ResolverInv'
  <2>1. time \in Nat /\ entry.until \in Nat /\ time <= entry.until + dns.max + dns.stale
    BY <1>0, <1>3 DEF ResolveHit, ResolverInv, EntryBounded, RefreshDue
  <2> QED
    BY <1>1, <1>3, <2>1 DEF ResolveHit
<1>4. ASSUME NEW q \in Resolvers, LookupAnswers(q) PROVE ResolverInv'
  <2> DEFINE now == resolving[q].now
             until == resolving[q].until
  <2>0. now \in Nat /\ until \in Nat /\ now <= until
    BY <1>4 DEF LookupAnswers, ResolverInv, Resolving, InTime
  <2>1. PICK ttl \in TtlsLeft(until) :
           entry' = [negative |-> FALSE, valid |-> now + ClampTtl(ttl),
                     stale |-> now + ClampTtl(ttl) + dns.stale, until |-> until]
    BY <1>4 DEF LookupAnswers, ValidFrom
  <2>3. GiveAnswer(q, now, until) /\ UNCHANGED <<dns, time, hickory>>
    BY <1>4 DEF LookupAnswers
  <2> HIDE DEF now, until
  <2>2. ttl \in Nat
    BY <1>0, <2>0, <2>1 DEF TtlsLeft
  <2>2a. ClampTtl(ttl) \in Nat /\ ClampTtl(ttl) <= dns.max
    BY <2>2, ClampTtlBounded DEF ResolverInv
  <2>4. EntryBounded(entry') /\ now <= until + dns.max + dns.stale
    BY <1>0, <2>0, <2>1, <2>2a DEF EntryBounded
  <2> QED
    BY <1>1, <2>0, <2>3, <2>4
<1>5. ASSUME NEW q \in Resolvers, LookupFails(q) PROVE ResolverInv'
  <2> DEFINE now == resolving[q].now
  <2>1. CASE UsableStale(now) /\ GiveAnswer(q, now, entry.until)
    <3>1. now \in Nat /\ entry.until \in Nat /\ now <= entry.until + dns.max + dns.stale
      BY <1>0, <2>1 DEF UsableStale, ResolverInv, Resolving, EntryBounded
    <3> QED
      BY <1>1, <1>5, <2>1, <3>1 DEF LookupFails
  <2>2. CASE resolving' = [resolving EXCEPT ![q].pc = "failing"] /\ UNCHANGED answered
    <3>1. [resolving[q] EXCEPT !.pc = "failing"] \in Resolving /\ InTime([resolving[q] EXCEPT !.pc = "failing"])
      BY DEF ResolverInv, Resolving, InTime
    <3> QED
      BY <1>2, <1>5, <2>2, <3>1 DEF LookupFails, ResolverInv
  <2> QED
    BY <1>5, <2>1, <2>2 DEF LookupFails
<1>6. ASSUME NEW q \in Resolvers, StartLookup(q) \/ LookupEmpty(q) \/ StoreNegative(q) \/ DropResolve(q)
      PROVE  ResolverInv'
  <2>1. /\ [pc |-> "lookup", now |-> time, until |-> 0] \in Resolving
        /\ InTime([pc |-> "lookup", now |-> time, until |-> 0])
        /\ [resolving[q] EXCEPT !.pc = "failing"] \in Resolving
        /\ InTime([resolving[q] EXCEPT !.pc = "failing"])
    BY DEF ResolverInv, Resolving, InTime
  <2>2. /\ UNCHANGED <<dns, time, hickory, answered>> /\ (UNCHANGED entry \/ entry'.negative = TRUE)
        /\ \E t \in Resolving : InTime(t) /\ resolving' = [resolving EXCEPT ![q] = t]
    BY <1>0, <1>6, <2>1 DEF StartLookup, LookupEmpty, StoreNegative, DropResolve
  <2>3. hickory' \in Int
    BY <2>2 DEF ResolverInv
  <2> QED
    BY <1>2, <2>2, <2>3
<1>6a. ASSUME NEW q \in Resolvers, LookupIp(q) PROVE ResolverInv'
  <2>1. hickory' \in Nat /\ time <= hickory'
    BY <1>0, <1>6a, ResolverAssumption DEF LookupIp, ResolverInv
  <2>1a. PICK end \in Int : end = hickory'
    BY <2>1
  <2> DEFINE t == [resolving[q] EXCEPT !.pc = "answer", !.until = end]
  <2>2. resolving[q] \in Resolving /\ resolving[q].now <= time /\ resolving[q].now \in Nat
    BY DEF ResolverInv, InTime, Resolving
  <2>3. t \in Resolving /\ InTime(t)
    <3>0. PICK w \in Resolving : w = resolving[q]
      BY <2>2
    <3>1. /\ [w EXCEPT !.pc = "answer", !.until = end] \in Resolving
          /\ [w EXCEPT !.pc = "answer", !.until = end].pc = "answer"
          /\ [w EXCEPT !.pc = "answer", !.until = end].now = w.now
          /\ [w EXCEPT !.pc = "answer", !.until = end].until = end
      BY DEF Resolving
    <3>2. t \in Resolving /\ t.pc = "answer" /\ t.now = resolving[q].now /\ t.until = end
      BY <3>0, <3>1
    <3> HIDE DEF t
    <3> QED
      BY <1>0, <2>1, <2>1a, <2>2, <3>2 DEF InTime
  <2>4. resolving' = [resolving EXCEPT ![q] = t] /\ UNCHANGED <<dns, time, entry, answered>>
    BY <1>6a, <2>1a DEF LookupIp, ResolverInv
  <2>5. hickory' \in Int
    BY <2>1
  <2> HIDE DEF t
  <2> QED
    BY <1>2, <2>3, <2>4, <2>5
<1>7. CASE CachedEndpoints
  <2>1. time \in Nat /\ entry.until \in Nat /\ time <= entry.until + dns.max + dns.stale
    BY <1>0, <1>7 DEF CachedEndpoints, UsableStale, ResolverInv, EntryBounded
  <2> QED
    BY <1>7, <2>1 DEF CachedEndpoints, ResolverInv, EntryBounded, InTime
<1>8. CASE TimePasses
  <2>1. \A q \in Resolvers : InTime(resolving[q])'
    BY <1>8 DEF TimePasses, ResolverInv, InTime, Resolving
  <2> QED
    BY <1>8, <2>1 DEF TimePasses, ResolverInv, EntryBounded
<1>9. CASE UNCHANGED resolverVars
  BY <1>9 DEF resolverVars, ResolverInv, EntryBounded, InTime
<1> QED
  BY <1>3, <1>4, <1>5, <1>6, <1>6a, <1>7, <1>8, <1>9 DEF ResolverNext

\* No request and no status page is given an address more than max_ttl plus
\* stale_if_error after the end of the time to live its name server gave, for
\* every policy, every time to live and any number of concurrent lookups ending
\* in any order, each answered by the name servers or from hickory's own cache
\* (resolve_host, lookup_host, store_negative_and_fail, cached_peer_endpoints).
THEOREM AddressesNeverTooOld == ResolverSpec => []AnswersBounded
<1>1. ResolverInit => ResolverInv
  BY ResolverAssumption DEF ResolverInit, ResolverInv, NoEntry, Unresolving, Resolving, InTime
<1>2. ResolverInv => AnswersBounded
  BY ResolverAssumption DEF ResolverInv, AnswersBounded
<1> QED
  BY <1>1, <1>2, ResolverInvNext, PTL DEF ResolverSpec

-----------------------------------------------------------------------------
(* The endpoint clients.                                                   *)

\* The entries carry the last access of their address, no two addresses the
\* same, every address used later than one that has an entry has one too, and
\* an address that was used lacks one only while the cache is full.
ClientsInv ==
    /\ capacity \in Nat \ {0} /\ access \in Nat
    /\ used \in [Addresses -> Nat]
    /\ \A a \in Addresses : used[a] <= access
    /\ \A a, b \in Addresses : used[a] = used[b] /\ used[a] > 0 => a = b
    /\ DOMAIN clients \subseteq Addresses
    /\ \A a \in DOMAIN clients : clients[a] = used[a] /\ used[a] > 0
    /\ \A a \in DOMAIN clients, b \in Addresses : used[b] > used[a] => b \in DOMAIN clients
    /\ Cardinality(DOMAIN clients) <= capacity
    /\ Cardinality(DOMAIN clients) < capacity =>
         \A b \in Addresses : used[b] > 0 => b \in DOMAIN clients

\* Whatever the configured pool size, the cache holds at least one client.
LEMMA CapacityPositive ==
    \A pool \in PoolSizes : EndpointClientCacheCapacity(pool) \in Nat \ {0}
<1> SUFFICES ASSUME NEW pool \in PoolSizes PROVE EndpointClientCacheCapacity(pool) \in Nat \ {0}
  OBVIOUS
<1>1. \A x, y \in Nat : /\ Max({x, y}) \in {x, y} /\ Max({x, y}) >= x
                        /\ Min({x, y}) \in {x, y}
  <2> SUFFICES ASSUME NEW x \in Nat, NEW y \in Nat
               PROVE  /\ Max({x, y}) \in {x, y} /\ Max({x, y}) >= x
                      /\ Min({x, y}) \in {x, y}
    OBVIOUS
  <2>1. /\ \E m \in {x, y} : \A z \in {x, y} : m >= z
        /\ \E m \in {x, y} : \A z \in {x, y} : m <= z
    <3>1. CASE x >= y
      BY <3>1
    <3>2. CASE y >= x
      BY <3>2
    <3> QED
      BY <3>1, <3>2
  <2> QED
    BY <2>1 DEF Max, Min
<1>2. pool * Multiplier \in Nat /\ MinCapacity \in Nat /\ MaxCapacity \in Nat
  BY EndpointClientsAssumption
<1>3. Max({MinCapacity, pool * Multiplier}) \in Nat
  BY <1>1, <1>2
<1> DEFINE asked == Min({MaxCapacity, Max({MinCapacity, pool * Multiplier})})
<1>4. asked \in Nat
  BY <1>1, <1>2, <1>3
<1>5. EndpointClientCacheCapacity(pool) = Max({1, asked})
  BY DEF EndpointClientCacheCapacity
<1> HIDE DEF asked
<1>6. Max({1, asked}) \in {1, asked} /\ Max({1, asked}) >= 1
  BY <1>1, <1>4
<1> QED
  BY <1>4, <1>5, <1>6

\* The least recently used entry exists and is one.
LEMMA EvictLruDropsOldest ==
    ASSUME ClientsInv, DOMAIN clients # {}
    PROVE  \E old \in DOMAIN clients :
             /\ \A b \in DOMAIN clients : used[old] <= used[b]
             /\ EvictLru = [a \in DOMAIN clients \ {old} |-> clients[a]]
<1> DEFINE old == CHOOSE a \in DOMAIN clients : \A b \in DOMAIN clients : clients[a] <= clients[b]
<1>1. \E a \in DOMAIN clients : \A b \in DOMAIN clients : clients[a] <= clients[b]
  <2> DEFINE Stamps == {clients[a] : a \in DOMAIN clients}
  <2>1. Stamps \in SUBSET Nat /\ Stamps # {}
    BY DEF ClientsInv
  <2>2. \E x \in Stamps : \A y \in Stamps : x <= y
    <3> HIDE DEF Stamps
    <3> QED
      BY <2>1, LeastNatural, Zenon
  <2> QED
    BY <2>2
<1>2. old \in DOMAIN clients /\ \A b \in DOMAIN clients : clients[old] <= clients[b]
  BY <1>1
<1>3. EvictLru = [a \in DOMAIN clients \ {old} |-> clients[a]]
  BY DEF EvictLru
<1> HIDE DEF old
<1> QED
  BY <1>2, <1>3 DEF ClientsInv

\* A hit moves its address to the front; an insertion puts a new address
\* there and takes away the last one of a full cache.
LEMMA ClientsInvNext == ClientsInv /\ [ClientsNext]_clientVars => ClientsInv'
<1> SUFFICES ASSUME ClientsInv, [ClientsNext]_clientVars PROVE ClientsInv'
  OBVIOUS
<1>0. IsFiniteSet(DOMAIN clients) /\ Cardinality(DOMAIN clients) \in Nat
  BY EndpointClientsAssumption, FS_Subset, FS_CardinalityType, Zenon DEF ClientsInv
<1>1. ASSUME NEW a \in Addresses, GetClient(a) PROVE ClientsInv'
  <2>1. /\ a \in DOMAIN clients /\ access' = access + 1 /\ capacity' = capacity
        /\ used' = [used EXCEPT ![a] = access + 1]
        /\ clients' = [b \in DOMAIN clients \cup {a} |-> IF b = a THEN access + 1 ELSE clients[b]]
    BY <1>1 DEF GetClient, Touch, SetUsed, NoteUse
  <2>2. DOMAIN clients' = DOMAIN clients
    BY <2>1
  <2> QED
    BY <1>0, <2>1, <2>2 DEF ClientsInv
<1>2. ASSUME NEW a \in Addresses, InsertClient(a) PROVE ClientsInv'
  <2> DEFINE full == Cardinality(DOMAIN clients) >= capacity
             kept == IF full THEN EvictLru ELSE clients
  <2>1. /\ a \notin DOMAIN clients /\ access' = access + 2 /\ capacity' = capacity
        /\ used' = [used EXCEPT ![a] = access + 2]
        /\ clients' = [b \in DOMAIN kept \cup {a} |-> IF b = a THEN access + 2 ELSE kept[b]]
    BY <1>2 DEF InsertClient, SetUsed, NoteUse
  <2>2. CASE full
    <3>1. DOMAIN clients # {}
      BY <2>2, FS_EmptySet DEF ClientsInv
    <3>2. PICK old \in DOMAIN clients :
             /\ \A b \in DOMAIN clients : used[old] <= used[b]
             /\ EvictLru = [b \in DOMAIN clients \ {old} |-> clients[b]]
      BY <3>1, EvictLruDropsOldest
    <3>3. /\ DOMAIN clients' = (DOMAIN clients \ {old}) \cup {a}
          /\ \A b \in DOMAIN clients' : clients'[b] = IF b = a THEN access + 2 ELSE clients[b]
      BY <2>1, <2>2, <3>2
    <3>4. Cardinality(DOMAIN clients') = capacity
      <4>1. IsFiniteSet(DOMAIN clients \ {old}) /\ Cardinality(DOMAIN clients \ {old}) = Cardinality(DOMAIN clients) - 1
        BY <1>0, FS_RemoveElement
      <4>2. Cardinality((DOMAIN clients \ {old}) \cup {a}) = Cardinality(DOMAIN clients \ {old}) + 1
        BY <2>1, <4>1, FS_AddElement
      <4> QED
        BY <1>0, <2>2, <3>3, <4>1, <4>2 DEF ClientsInv
    <3> QED
      BY <1>0, <2>1, <3>2, <3>3, <3>4 DEF ClientsInv
  <2>3. CASE ~full
    <3>1. /\ DOMAIN clients' = DOMAIN clients \cup {a}
          /\ \A b \in DOMAIN clients' : clients'[b] = IF b = a THEN access + 2 ELSE clients[b]
      BY <2>1, <2>3
    <3>2. Cardinality(DOMAIN clients') = Cardinality(DOMAIN clients) + 1
      BY <1>0, <2>1, <3>1, FS_AddElement
    <3> QED
      BY <1>0, <2>1, <2>3, <3>1, <3>2 DEF ClientsInv
  <2> QED
    BY <2>2, <2>3
<1>3. CASE UNCHANGED clientVars
  BY <1>3 DEF clientVars, ClientsInv
<1> QED
  BY <1>1, <1>2, <1>3 DEF ClientsNext

\* The invariant says which addresses the cache holds.
LEMMA ClientsInvKeeps == ClientsInv => KeepsTheRecent
<1> SUFFICES ASSUME ClientsInv PROVE KeepsTheRecent
  OBVIOUS
<1> DEFINE Later(a) == {b \in Addresses : used[b] > used[a]}
<1>0. IsFiniteSet(DOMAIN clients) /\ Cardinality(DOMAIN clients) \in Nat
  BY EndpointClientsAssumption, FS_Subset, FS_CardinalityType, Zenon DEF ClientsInv
<1>1. ASSUME NEW a \in DOMAIN clients
      PROVE  a \in Addresses /\ used[a] > 0 /\ Cardinality(Later(a)) < capacity
  <2>1. Later(a) \subseteq DOMAIN clients \ {a}
    BY DEF ClientsInv
  <2>2. /\ IsFiniteSet(DOMAIN clients \ {a})
        /\ Cardinality(DOMAIN clients \ {a}) = Cardinality(DOMAIN clients) - 1
    BY <1>0, FS_RemoveElement
  <2> HIDE DEF Later
  <2>3. Cardinality(Later(a)) <= Cardinality(DOMAIN clients \ {a}) /\ Cardinality(Later(a)) \in Nat
    BY <2>1, <2>2, FS_Subset, FS_CardinalityType
  <2> QED
    BY <1>0, <2>2, <2>3 DEF ClientsInv
<1>2. ASSUME NEW a \in Addresses, used[a] > 0, a \notin DOMAIN clients
      PROVE  ~(Cardinality(Later(a)) < capacity)
  <2>1. DOMAIN clients \subseteq Later(a)
    BY <1>2 DEF ClientsInv
  <2>2. IsFiniteSet(Later(a))
    <3>1. Later(a) \subseteq Addresses
      OBVIOUS
    <3> HIDE DEF Later
    <3> QED
      BY <3>1, EndpointClientsAssumption, FS_Subset
  <2> HIDE DEF Later
  <2>3. Cardinality(DOMAIN clients) <= Cardinality(Later(a)) /\ Cardinality(Later(a)) \in Nat
    BY <2>1, <2>2, FS_Subset, FS_CardinalityType
  <2> QED
    BY <1>0, <1>2, <2>3 DEF ClientsInv
<1> QED
  BY <1>1, <1>2 DEF KeepsTheRecent

\* The bounded cache of endpoint clients always holds exactly the addresses
\* used last, for every set of addresses, pool size and capacity rule: an
\* endpoint in use is never the one evicted (client_for_peer, evict_lru).
THEOREM RecentClientsKept == ClientsSpec => []KeepsTheRecent
<1>1. ClientsInit => ClientsInv
  <2> SUFFICES ASSUME ClientsInit PROVE ClientsInv
    OBVIOUS
  <2>1. capacity \in Nat \ {0}
    BY CapacityPositive DEF ClientsInit
  <2>2. DOMAIN clients = {} /\ Cardinality(DOMAIN clients) = 0
    BY FS_EmptySet DEF ClientsInit
  <2> QED
    BY <2>1, <2>2 DEF ClientsInit, ClientsInv
<1> QED
  BY <1>1, ClientsInvNext, ClientsInvKeeps, PTL DEF ClientsSpec
=============================================================================
