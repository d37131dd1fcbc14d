----------------------------- MODULE CachePolicy -----------------------------
(***************************************************************************)
(* What the cache may answer: which requests it looks up and under which   *)
(* key, which responses it keeps and for how long, when it may answer      *)
(* without asking the origin, what a 304 does to an entry, and which bytes *)
(* of a stored slice a range request gets.  One resource, one zone.        *)
(*                                                                         *)
(* CacheStore has the files and the races of stores and purges, FillLock   *)
(* the fill lock: here a request that would wait for the lock just comes   *)
(* later, and one fetch is in flight at a time.                            *)
(*                                                                         *)
(* Headers are records; a header that is absent is NoHeader.  cc is        *)
(* Cache-Control: a function from its directives to their values.  An      *)
(* absent duration or deadline is NoTime, below every time.                *)
(***************************************************************************)
EXTENDS Integers, Sequences, FiniteSetsExt, TLC

CONSTANTS
    Mixes,       \* [rule, asks, statuses, replies, until, releases, fetches]: a
                 \* route's policy, requests, statuses and headers of the
                 \* origin's answers; bounds on time, versions and fetches
    Total,       \* bytes of the resource
    NoMix, NoHeader, NoRange, NotCached, NoFetch, NoAnswer

NoTime == -1

\* Requests and headers as they are parsed: durations and ends of ranges are
\* unsigned numbers, Expires a date.
IsAsk(r) ==
    /\ DOMAIN r = {"method", "marks", "range", "coding", "holds", "headers"}
    /\ r.range = NoRange \/ r.range \in Nat \X Nat

IsHeaders(h) ==
    /\ DOMAIN h = {"accel", "cc", "expires", "cookie", "vary", "type", "tag"}
    /\ h.accel = NoHeader \/ h.accel \in Nat
    /\ h.expires = NoHeader \/ h.expires \in Int
    /\ h.cc = NoHeader \/ \A d \in DOMAIN h.cc : h.cc[d] \in Nat

IsRule(p) ==
    /\ p.slice \in Nat
    /\ {p.grace, p.keep, p.stale_if_error, p.pass_ttl} \subseteq Nat \cup {NoTime}
    /\ p.default_ttl \in Nat
    /\ \A status \in DOMAIN p.ttl_by_status : p.ttl_by_status[status] \in Nat

ASSUME CachePolicyAssumption ==
    /\ Total \in Nat \ {0}
    /\ \A m \in Mixes :
         /\ {m.until, m.releases, m.fetches} \subseteq Nat
         /\ IsRule(m.rule)
         /\ \A r \in m.asks : IsAsk(r)
         /\ \A h \in m.replies : IsHeaders(h)
    /\ NoRange \notin (Nat \X Nat) \cup [skip : Nat, emit : Nat]

VARIABLES
    mix,     \* the member of Mixes this behaviour runs in
    origin,  \* the version the origin has now
    time,
    store,   \* CacheIndex.entries, with the responses
    uses,    \* CacheIndex.admission_counts
    fetch,   \* the CacheStoreContext of the request at the origin
    fetches, \* fetches so far
    answer   \* the last answer a client got

policyVars == <<mix, origin, time, store, uses, fetch, fetches, answer>>

rule == mix.rule

-----------------------------------------------------------------------------
\* The request (cache/request.rs, cache/vary.rs).

CacheMethod(r) == IF r.method = "HEAD" /\ rule.convert_head THEN "GET" ELSE r.method

\* A single range with both ends, inside one slice: what the client wants and
\* what is fetched and stored for it.
RangeOf(r) ==
    LET first == r.range[1]
        last == r.range[2]
        from == IF rule.slice = 0 THEN first ELSE (first \div rule.slice) * rule.slice
        to == IF rule.slice = 0 THEN last ELSE from + rule.slice - 1
    IN  IF /\ rule.range_requests = "cache"
           /\ CacheMethod(r) \in {"GET", "HEAD"}
           /\ r.range # NoRange
           /\ first <= last
           /\ last <= to
        THEN [first |-> first, last |-> last, from |-> from, to |-> to]
        ELSE NoRange

\* r.marks: what of these the request carries or matches.
CacheRequestBypass(r) ==
    \/ CacheMethod(r) \notin rule.methods
    \/ r.method \notin {"GET", "HEAD"}
    \/ r.marks \cap {"authorization", "no-store", "grpc", "cache_bypass"} # {}
    \/ r.method = "GET" /\ "if-range" \in r.marks /\ r.range # NoRange
    \/ r.range # NoRange /\ RangeOf(r) = NoRange

ForcesRevalidation(r) == "no-cache" \in r.marks

BaseKey(r) ==
    [method |-> IF rule.convert_head THEN "GET" ELSE CacheMethod(r),
     coding |-> r.coding,
     slice  |-> IF RangeOf(r) = NoRange THEN NoRange ELSE <<RangeOf(r).from, RangeOf(r).to>>]

\* Mutant: a header the request does not carry is not compared.
MatchesCarried(r, vary) ==
    \A n \in DOMAIN vary : r.headers[n] = NoHeader \/ r.headers[n] = vary[n]

MatchesVary(r, vary) == \A n \in DOMAIN vary : r.headers[n] = vary[n]

-----------------------------------------------------------------------------
\* The response (cache/policy.rs, cache/store/helpers.rs).

Ignores(name) == name \in rule.ignore_headers

CacheControl(h) == IF Ignores("cache-control") \/ h.cc = NoHeader THEN << >> ELSE h.cc
Contains(h, directives) == directives \cap DOMAIN CacheControl(h) # {}
Duration(h, directive) ==
    IF Contains(h, {directive}) THEN CacheControl(h)[directive] ELSE NoTime

OrElse(left, right) == IF left = NoTime THEN right ELSE left
Present(name, value) == IF Ignores(name) \/ value = NoHeader THEN NoTime ELSE value

\* Expires is a date, every other lifetime a duration.
ResponseTtl(status, h) ==
    OrElse(Present("x-accel-expires", h.accel),
    OrElse(OrElse(Duration(h, "s-maxage"), Duration(h, "max-age")),
    OrElse(IF Present("expires", h.expires) = NoTime THEN NoTime
           ELSE Max({h.expires - time, 0}),
    IF status \in DOMAIN rule.ttl_by_status THEN rule.ttl_by_status[status]
    ELSE rule.default_ttl)))

Freshness(status, h) ==
    [ttl |-> ResponseTtl(status, h),
     sie |-> OrElse(Duration(h, "stale-if-error"), rule.stale_if_error),
     swr |-> Duration(h, "stale-while-revalidate"),
     requires_revalidation |-> Contains(h, {"no-cache"}),
     must_revalidate |-> Contains(h, {"must-revalidate", "proxy-revalidate"})]

FreshnessIsCacheable(f) ==
    \/ f.ttl # 0
    \/ f.requires_revalidation
    \/ f.must_revalidate
    \/ f.sie # NoTime
    \/ f.swr # NoTime

VaryIsSupported(h) == Ignores("vary") \/ h.vary = NoHeader \/ "*" \notin h.vary

Personal(h) ==
    \/ ~Ignores("set-cookie") /\ h.cookie # NoHeader
    \/ ~VaryIsSupported(h)
    \/ h.type = "grpc"
    \/ Contains(h, {"no-store", "private"})

\* part is the Content-Range of a response.
ContentRangeMatches(r, part) ==
    /\ RangeOf(r) # NoRange
    /\ part # NoRange
    /\ part[1] = RangeOf(r).from
    /\ part[2] \in RangeOf(r).last .. RangeOf(r).to

Positions(res) ==
    IF res.part # NoRange THEN [i \in 1 .. res.part[2] - res.part[1] + 1 |-> res.part[1] + i - 1]
    ELSE IF res.status = 200 THEN [i \in 1 .. Total |-> i - 1]
    ELSE << >>

ResponseIsStorable(r, res) ==
    /\ \/ res.status \in rule.statuses
       \/ res.status = 206 /\ RangeOf(r) # NoRange
    /\ RangeOf(r) # NoRange => res.status = 206
    /\ IF res.status = 206 THEN ContentRangeMatches(r, res.part) ELSE res.part = NoRange
    /\ ~Personal(res.h)
    /\ Len(Positions(res)) <= rule.max_entry_bytes

ResponseNoCache(r, status) == "no_cache" \in r.marks \/ status \in rule.no_cache

ShouldRememberPass(h) == rule.pass_ttl # NoTime /\ Personal(h)

VaryValues(r, h) ==
    [n \in IF Ignores("vary") \/ h.vary = NoHeader \/ "*" \in h.vary THEN {} ELSE h.vary
        |-> r.headers[n]]

-----------------------------------------------------------------------------
\* Entries of the index.

Key(e) == <<e.base, e.vary>>

Deadline(expires, duration) == IF duration = NoTime THEN NoTime ELSE expires + duration

\* cache_metadata_input; max_deadline is Max, NoTime being the least.
\* fetched_by, confirmed and sure are history: the request the origin last
\* answered for this entry, the version it had then, and whether the 304s so
\* far were about this entry's own validator.
ResponseEntry(r, base, res, sure) ==
    LET f == Freshness(res.status, res.h)
        expires == time + f.ttl
        grace == Max({Deadline(expires, rule.grace), Deadline(expires, f.swr)})
    IN  [kind |-> "response", base |-> base, vary |-> VaryValues(r, res.h),
         stored |-> time, expires |-> expires, grace |-> grace,
         keep |-> Max({Deadline(expires, rule.keep), grace, Deadline(expires, f.sie)}),
         sie |-> Deadline(expires, f.sie), swr |-> Deadline(expires, f.swr),
         requires_revalidation |-> f.requires_revalidation,
         must_revalidate |-> f.must_revalidate,
         res |-> res, fetched_by |-> r, confirmed |-> origin, sure |-> sure]

PassEntry(r, base, res) ==
    [kind |-> "pass", base |-> base, vary |-> VaryValues(r, res.h),
     stored |-> time, expires |-> time + rule.pass_ttl, grace |-> NoTime,
     keep |-> time + rule.pass_ttl, sie |-> NoTime, swr |-> NoTime,
     requires_revalidation |-> FALSE, must_revalidate |-> FALSE,
     res |-> NoHeader, fetched_by |-> NoHeader, confirmed |-> 0, sure |-> TRUE]

\* update_index_after_store: the entry replaced, variants along other headers
\* and the previous entry of the key go.
AfterStore(entry, replaced) ==
    {e \in store : /\ e # replaced
                   /\ Key(e) # Key(entry)
                   /\ e.base = entry.base => DOMAIN e.vary = DOMAIN entry.vary} \cup {entry}

\* An entry that is inserted or removed takes the count of its key with it.
Store(entry, replaced) ==
    /\ store' = AfterStore(entry, replaced)
    /\ uses' = [k \in DOMAIN uses \ {Key(entry)} |-> uses[k]]

Phase(e) ==
    IF time <= e.expires THEN "fresh"
    ELSE IF time <= e.grace \/ time <= e.swr THEN "grace"
    ELSE IF e.keep = NoTime \/ time <= e.keep THEN "keep"
    ELSE "dead"

\* Mutant: must-revalidate is forgotten.
StaleWhenGraceful(r, e) ==
    /\ Phase(e) = "grace"
    /\ ~ForcesRevalidation(r) /\ ~e.requires_revalidation
    /\ "updating" \in rule.use_stale \/ time <= e.swr

StaleAllowed(r, e) ==
    /\ Phase(e) = "grace"
    /\ ~ForcesRevalidation(r) /\ ~e.requires_revalidation /\ ~e.must_revalidate
    /\ "updating" \in rule.use_stale \/ time <= e.swr

\* reason is "error", "timeout" or the status of the origin's answer.
CanServeStale(reason) ==
    /\ fetch.entry # NotCached
    /\ ~ForcesRevalidation(fetch.ask)
    /\ ~fetch.entry.requires_revalidation
    /\ ~fetch.entry.must_revalidate
    /\ Phase(fetch.entry) # "dead"
    /\ \/ Phase(fetch.entry) = "grace" /\ reason \in rule.use_stale
       \/ reason \in {"error", "timeout", "500", "503"} /\ time <= fetch.entry.sie

-----------------------------------------------------------------------------
\* The body a client gets (cache/entry/response.rs, cache/store/range.rs).

\* The bytes of the stored slice to drop and to send; NoRange: send it as it is.
\* Mutant: the last byte of the range is taken for its end.
TrimPlanShort(r, res) ==
    LET range == RangeOf(r)
    IN  IF \/ range = NoRange
           \/ range.first = range.from /\ range.last = range.to
           \/ res.status # 206
           \/ ~ContentRangeMatches(r, res.part)
        THEN NoRange
        ELSE [skip |-> range.first - res.part[1],
              emit |-> Min({range.last, res.part[2]}) - range.first]

TrimPlan(r, res) ==
    LET range == RangeOf(r)
    IN  IF \/ range = NoRange
           \/ range.first = range.from /\ range.last = range.to
           \/ res.status # 206
           \/ ~ContentRangeMatches(r, res.part)
        THEN NoRange
        ELSE [skip |-> range.first - res.part[1],
              emit |-> Min({range.last, res.part[2]}) - range.first + 1]

Frames(bytes, size) ==
    [i \in 1 .. (Len(bytes) + size - 1) \div size |->
        SubSeq(bytes, (i - 1) * size + 1, Min({i * size, Len(bytes)}))]

TrimFrame(state, frame) ==
    IF state.emit = 0 THEN state
    ELSE IF state.skip >= Len(frame) THEN [state EXCEPT !.skip = @ - Len(frame)]
    ELSE LET data == SubSeq(frame, state.skip + 1, Min({Len(frame), state.skip + state.emit}))
         IN  [skip |-> 0, emit |-> state.emit - Len(data), sent |-> state.sent \o data]

\* The body of a response trimmed frame by frame.
Trimmed(plan, frames) ==
    LET after[n \in 0 .. Len(frames)] ==
            IF n = 0 THEN [skip |-> plan.skip, emit |-> plan.emit, sent |-> << >>]
            ELSE TrimFrame(after[n - 1], frames[n])
    IN  after[Len(frames)].sent

\* The body arrives in frames of some size.
Delivered(r, res, size) ==
    LET plan == TrimPlan(r, res)
    IN  IF plan = NoRange THEN Positions(res)
        ELSE Trimmed(plan, Frames(Positions(res), size))

FrameSizes == 1 .. 2

Reply(from, r, entry, res) ==
    \E size \in FrameSizes :
        answer' = [from |-> from, ask |-> r, entry |-> entry, at |-> time, res |-> res,
                   body |-> Delivered(r, res, size)]

NoReply == answer' = NoAnswer

-----------------------------------------------------------------------------
\* Lookup (CacheManager::lookup, lookup_decision).

PolicyInit ==
    /\ mix \in Mixes
    /\ origin = 1
    /\ time = 0
    /\ store = {}
    /\ uses = << >>
    /\ fetch = NoFetch
    /\ fetches = 0
    /\ answer = NoAnswer

\* The part is not checked: used where the modules of the cache share a run.
PolicyOff ==
    /\ mix = NoMix
    /\ origin = 0 /\ time = 0 /\ store = {} /\ uses = << >>
    /\ fetch = NoFetch /\ fetches = 0 /\ answer = NoAnswer

Matching(r) == {e \in store : e.base = BaseKey(r) /\ MatchesVary(r, e.vary)}

\* A request that bypasses the cache, or hits a hit-for-pass entry, changes
\* nothing here.
LooksUp(r) == r \in mix.asks /\ ~CacheRequestBypass(r)

Hits(r, e) == LooksUp(r) /\ e \in Matching(r)

DropDead(r, e) ==
    /\ Hits(r, e)
    /\ Phase(e) = "dead"
    /\ store' = store \ {e}
    /\ NoReply
    /\ UNCHANGED <<mix, origin, time, uses, fetch, fetches>>

ServableFresh(r, e) ==
    /\ Phase(e) = "fresh"
    /\ ~e.requires_revalidation
    /\ ~ForcesRevalidation(r)

HitFresh(r, e) ==
    /\ Hits(r, e)
    /\ e.kind = "response"
    /\ ServableFresh(r, e)
    /\ Reply("hit", r, e, e.res)
    /\ UNCHANGED <<mix, origin, time, store, uses, fetch, fetches>>

MustAsk(r, e) ==
    /\ Hits(r, e)
    /\ e.kind = "response"
    /\ Phase(e) # "dead"
    /\ ~ServableFresh(r, e)

MayUpdate(r, e) == time > e.expires /\ StaleAllowed(r, e)

HitUpdating(r, e) ==
    /\ MustAsk(r, e)
    /\ fetch # NoFetch /\ fetch.lock = Key(e)
    /\ MayUpdate(r, e)
    /\ Reply("updating", r, e, e.res)
    /\ UNCHANGED <<mix, origin, time, store, uses, fetch, fetches>>

Fetch(context) ==
    /\ fetch = NoFetch
    /\ fetches < mix.fetches
    /\ fetch' = context
    /\ fetches' = fetches + 1

BackgroundUpdate(r, e) ==
    /\ MustAsk(r, e)
    /\ MayUpdate(r, e)
    /\ rule.background_update
    /\ Fetch([ask |-> [r EXCEPT !.method = "GET"], base |-> e.base, lock |-> Key(e),
              entry |-> e, background |-> TRUE, stores |-> TRUE])
    /\ Reply("updating", r, e, e.res)
    /\ UNCHANGED <<mix, origin, time, store, uses>>

\* store_response of the context: HEAD answers are kept only as GET.
Ask(r, base, lock, entry) ==
    /\ Fetch([ask |-> r, base |-> base, lock |-> lock, entry |-> entry,
              background |-> FALSE, stores |-> CacheMethod(r) = "GET"])
    /\ NoReply
    /\ UNCHANGED <<mix, origin, time, store, uses>>

MissExpired(r, e) ==
    /\ MustAsk(r, e)
    /\ ~(MayUpdate(r, e) /\ rule.background_update)
    /\ Ask(r, e.base, Key(e), e)

Miss(r) ==
    /\ LooksUp(r)
    /\ Matching(r) = {}
    /\ Ask(r, BaseKey(r), <<BaseKey(r), << >>>>, NotCached)

-----------------------------------------------------------------------------
\* The origin answers (finalize_upstream_success, the background refresh).

\* The tag of a response is the version it shows.
Stamped(h) == [h EXCEPT !.tag = IF @ = NoHeader THEN NoHeader ELSE origin]

\* The version the conditional request asks about; 0: unconditional.
\* Mutant: the condition of the client goes first.
ConditionOfClient ==
    IF fetch.ask.holds # 0 THEN fetch.ask.holds
    ELSE IF fetch.stores /\ fetch.entry # NotCached /\ fetch.entry.res.h.tag # NoHeader
    THEN fetch.entry.res.h.tag ELSE 0

Condition ==
    IF fetch.stores /\ fetch.entry # NotCached /\ fetch.entry.res.h.tag # NoHeader
    THEN fetch.entry.res.h.tag
    ELSE fetch.ask.holds

UpstreamRange ==
    IF fetch.stores /\ RangeOf(fetch.ask) # NoRange
    THEN <<RangeOf(fetch.ask).from, RangeOf(fetch.ask).to>>
    ELSE fetch.ask.range

\* What the origin may answer: it may ignore a range, it tells the truth about
\* the version the request asks about.
OriginResponse(status, h) ==
    [status |-> status, h |-> Stamped(h), ver |-> origin,
     part |-> IF status = 206 THEN <<UpstreamRange[1], Min({UpstreamRange[2], Total - 1})>>
              ELSE NoRange]

OriginMay(status) ==
    /\ status = 206 => UpstreamRange # NoRange /\ UpstreamRange[1] < Total
    /\ status = 304 => Condition = origin /\ fetch.entry = NotCached

RememberPass(res, replaced) == Store(PassEntry(fetch.ask, fetch.base, res), replaced)

Admitted(k) ==
    \/ rule.min_uses <= 1
    \/ \E e \in store : Key(e) = k
    \/ k \in DOMAIN uses /\ uses[k] + 1 >= rule.min_uses

CountUse(k) ==
    uses' = (k :> (IF k \in DOMAIN uses THEN uses[k] + 1 ELSE 1)) @@ uses

\* store_streaming_response; the size is known, so ResponseIsStorable has
\* already refused a body over max_entry_bytes.
StoreResponse(res) ==
    LET r == fetch.ask
        entry == ResponseEntry(r, fetch.base, res, TRUE)
        replaced == IF fetch.lock # Key(entry) THEN fetch.entry ELSE NotCached
    IN  IF \/ ~ResponseIsStorable(r, res)
           \/ ResponseNoCache(r, res.status)
           \/ ~FreshnessIsCacheable(Freshness(res.status, res.h))
        THEN IF ShouldRememberPass(res.h) THEN RememberPass(res, fetch.entry)
             ELSE UNCHANGED <<store, uses>>
        ELSE IF ~Admitted(Key(entry)) THEN CountUse(Key(entry)) /\ UNCHANGED store
        ELSE Store(entry, replaced)

OriginAnswers(status, h) ==
    LET res == OriginResponse(status, h)
    IN  /\ fetch # NoFetch
        /\ OriginMay(status)
        /\ IF ~fetch.background /\ CanServeStale(ToString(status))
           THEN Reply("stale", fetch.ask, fetch.entry, fetch.entry.res) /\ UNCHANGED <<store, uses>>
           ELSE /\ IF fetch.stores THEN StoreResponse(res) ELSE UNCHANGED <<store, uses>>
                /\ IF fetch.background THEN NoReply ELSE Reply("origin", fetch.ask, NotCached, res)
        /\ fetch' = NoFetch
        /\ UNCHANGED <<mix, origin, time, fetches>>

\* merge_not_modified_headers
Merge(cached, fresh) ==
    [f \in DOMAIN cached |-> IF fresh[f] = NoHeader THEN cached[f] ELSE fresh[f]]

\* Mutant: the merged headers are not judged again.
KeepsRefreshedUnjudged(entry) ==
    /\ FreshnessIsCacheable(Freshness(entry.res.status, entry.res.h))
    /\ Key(entry) = fetch.lock

KeepsRefreshed(entry) ==
    /\ ResponseIsStorable(fetch.ask, entry.res)
    /\ FreshnessIsCacheable(Freshness(entry.res.status, entry.res.h))
    /\ Key(entry) = fetch.lock

\* refresh_not_modified_response
NotModified(h) ==
    /\ fetch # NoFetch
    /\ fetch.entry # NotCached
    /\ Condition = origin
    /\ LET old == fetch.entry
           res == [old.res EXCEPT !.h = Merge(old.res.h, Stamped(h))]
           entry == ResponseEntry(fetch.ask, fetch.base, res, old.sure /\ old.res.h.tag # NoHeader)
           same == Key(entry) = fetch.lock
       IN  /\ IF ResponseNoCache(fetch.ask, res.status)
              THEN Store([entry EXCEPT !.requires_revalidation = TRUE],
                         IF same THEN NotCached ELSE old)
              ELSE IF KeepsRefreshed(entry) THEN Store(entry, NotCached)
              ELSE IF /\ same
                      /\ rule.pass_ttl # NoTime
                      /\ \/ ShouldRememberPass(res.h)
                         \/ ~FreshnessIsCacheable(Freshness(res.status, res.h))
                   THEN RememberPass(res, old)
              ELSE store' = store \ {old} /\ UNCHANGED uses
           /\ IF fetch.background THEN NoReply ELSE Reply("revalidated", fetch.ask, entry, res)
    /\ fetch' = NoFetch
    /\ UNCHANGED <<mix, origin, time, fetches>>

\* The request fails or times out at the last peer.
FetchFails(reason) ==
    /\ fetch # NoFetch
    /\ IF ~fetch.background /\ CanServeStale(reason)
       THEN Reply("stale", fetch.ask, fetch.entry, fetch.entry.res)
       ELSE NoReply
    /\ fetch' = NoFetch
    /\ UNCHANGED <<mix, origin, time, store, uses, fetches>>

OriginChanges ==
    /\ origin < mix.releases
    /\ origin' = origin + 1
    /\ NoReply
    /\ UNCHANGED <<mix, time, store, uses, fetch, fetches>>

TimePasses ==
    /\ time < mix.until
    /\ time' = time + 1
    /\ NoReply
    /\ UNCHANGED <<mix, origin, store, uses, fetch, fetches>>

PolicyNext ==
    /\ mix # NoMix
    /\ \/ \E r \in mix.asks, e \in store :
             DropDead(r, e) \/ HitFresh(r, e) \/ HitUpdating(r, e)
               \/ BackgroundUpdate(r, e) \/ MissExpired(r, e)
       \/ \E r \in mix.asks : Miss(r)
       \/ \E h \in mix.replies, status \in mix.statuses : OriginAnswers(status, h)
       \/ \E h \in mix.replies : NotModified(h)
       \/ \E reason \in {"error", "timeout"} : FetchFails(reason)
       \/ OriginChanges
       \/ TimePasses

PolicySpec == PolicyInit /\ [][PolicyNext]_policyVars

-----------------------------------------------------------------------------
FromStore == answer # NoAnswer /\ answer.from \in {"hit", "updating", "stale"}

\* An answer given without the origin's word is fresh, or stale within a
\* window the policy or the response opened and the response did not close
\* (must-revalidate, no-cache); a request with no-cache never gets one.
NothingServedTooOld ==
    FromStore =>
        LET e == answer.entry
            f == Freshness(e.res.status, e.res.h)
        IN  /\ ~ForcesRevalidation(answer.ask)
            /\ ~f.requires_revalidation
            /\ answer.at > e.expires =>
                 /\ ~f.must_revalidate
                 /\ answer.at <= e.expires + Max({rule.grace, f.swr, f.sie})

\* Nobody gets from the store what the origin, in the response or in a later
\* 304 about it, kept for one client, nor what was fetched with credentials.
PrivateStaysPrivate ==
    FromStore =>
        /\ ~Personal(answer.entry.res.h)
        /\ answer.entry.fetched_by.marks \cap {"authorization", "no-store"} = {}

\* An answer from the store was made for a request with the same values, or
\* absence, of the headers the response varies on, and the same codings.
VariantServed ==
    FromStore =>
        LET e == answer.entry
        IN  /\ e.fetched_by.coding = answer.ask.coding
            /\ (~Ignores("vary") /\ e.res.h.vary # NoHeader) =>
                 \A n \in e.res.h.vary : e.fetched_by.headers[n] = answer.ask.headers[n]

\* A partial answer holds exactly the bytes asked for, whatever slice was
\* fetched or stored, in whatever frames it arrives, and a range never gets
\* a whole stored body (ranges that end inside the resource).
RangeServed ==
    (answer # NoAnswer /\ answer.ask.range # NoRange /\ answer.ask.range[2] < Total) =>
        /\ answer.from # "origin" => answer.res.status = 206
        /\ answer.res.status = 206 =>
             answer.body = [i \in 1 .. answer.ask.range[2] - answer.ask.range[1] + 1
                              |-> answer.ask.range[1] + i - 1]

\* A stored body is a version the origin had when it last answered for it:
\* a 304 refreshes only the version it confirms.
RefreshesConfirmed ==
    \A e \in store : (e.kind = "response" /\ e.sure) => e.res.ver = e.confirmed

\* What comes from the store was meant for the one who asks: not kept for
\* another client, of the right variant, the bytes asked for.
AnswersTheAsker == PrivateStaysPrivate /\ VariantServed /\ RangeServed
=============================================================================
