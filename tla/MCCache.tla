------------------------------ MODULE MCCache ------------------------------
(***************************************************************************)
(* One zone's index and files (CacheStore), or one pass of the loops that  *)
(* choose what leaves the index (AccessSchedule), or the requests and      *)
(* responses of one resource (CachePolicy): a behaviour is of one of them. *)
(***************************************************************************)
EXTENDS CacheStore, AccessSchedule, CachePolicy
CONSTANTS a, b, c, t1, t2

TaskSymmetry == Permutations(Tasks)

\* Two bodies of one unit fit; a and b differ in size.
Sizes == [k \in {a, b} |-> IF k = a THEN 1 ELSE 2]

\* A body that alone fills the zone, one of half its size and an empty one.
IndexedSizes == [k \in {a, b, c} |-> CASE k = a -> 2 [] k = b -> 1 [] k = c -> 0]

\* Two tasks with stores, purges, cleanups and drops; two with refreshes as
\* well; one with everything.
TheSettings ==
    {[refresh |-> FALSE, no_cache |-> FALSE, invalidate |-> FALSE, io_fails |-> FALSE,
      concurrency |-> 2, versions |-> 3, dims |-> {"x"}],
     [refresh |-> TRUE, no_cache |-> FALSE, invalidate |-> FALSE, io_fails |-> FALSE,
      concurrency |-> 2, versions |-> 2, dims |-> {"x"}],
     [refresh |-> TRUE, no_cache |-> TRUE, invalidate |-> TRUE, io_fails |-> TRUE,
      concurrency |-> 1, versions |-> 2, dims |-> {"x", "y"}]}

-----------------------------------------------------------------------------
Rule == [methods |-> {"GET", "HEAD"}, convert_head |-> TRUE, range_requests |-> "cache", slice |-> 0,
     statuses |-> {200}, ttl_by_status |-> << >>, default_ttl |-> 1, grace |-> NoTime, keep |-> NoTime,
     stale_if_error |-> NoTime, use_stale |-> {}, background_update |-> FALSE, ignore_headers |-> {},
     pass_ttl |-> NoTime, min_uses |-> 1, max_entry_bytes |-> Total, no_cache |-> {}]
Get == [method |-> "GET", marks |-> {}, range |-> NoRange, coding |-> "", holds |-> 0,
        headers |-> [lang |-> NoHeader, device |-> NoHeader]]
Bare == [accel |-> NoHeader, cc |-> NoHeader, expires |-> NoHeader, cookie |-> NoHeader,
         vary |-> NoHeader, type |-> NoHeader, tag |-> NoHeader]
Aged == [Bare EXCEPT !.cc = "max-age" :> 1]
Tagged == [Aged EXCEPT !.tag = TRUE]
Marked(marks) == [Get EXCEPT !.marks = marks]
Ranged(first, last) == [Get EXCEPT !.range = <<first, last>>]
Speaks(lang) == [Get EXCEPT !.headers.lang = lang]

TheMixes ==
   {\* What is served stale, and for how long.
    [until |-> 3, releases |-> 2, fetches |-> 3,
     rule |-> [Rule EXCEPT !.grace = 1, !.stale_if_error = 2, !.use_stale = {"updating", "error", "503"},
                           !.background_update = TRUE],
     asks |-> {Get, Marked({"no-cache"})}, statuses |-> {200, 503},
     replies |-> {Tagged,
                  [Tagged EXCEPT !.cc = "s-maxage" :> 0 @@ "max-age" :> 1 @@ "must-revalidate" :> 0],
                  [Bare EXCEPT !.cc = "no-cache" :> 0]}],
    [until |-> 4, releases |-> 1, fetches |-> 3,
     rule |-> [Rule EXCEPT !.keep = 3, !.use_stale = {"timeout"}, !.ttl_by_status = 404 :> 2,
                           !.statuses = {200, 404}],
     asks |-> {Get}, statuses |-> {200, 404, 503},
     replies |-> {[Bare EXCEPT !.expires = 2], [Bare EXCEPT !.accel = 0],
                  [Tagged EXCEPT !.cc = "max-age" :> 1 @@ "stale-while-revalidate" :> 1],
                  [Bare EXCEPT !.cc = "stale-if-error" :> 1 @@ "max-age" :> 0]}],
    \* What is kept from others.
    [until |-> 3, releases |-> 1, fetches |-> 4,
     rule |-> [Rule EXCEPT !.grace = 1, !.pass_ttl = 1, !.min_uses = 2, !.use_stale = {"updating"},
                           !.background_update = TRUE],
     asks |-> {Get, Marked({"no_cache"}), Marked({"authorization"})}, statuses |-> {200},
     replies |-> {Tagged, [Tagged EXCEPT !.cc = "private" :> 0 @@ "max-age" :> 2],
                  [Tagged EXCEPT !.cookie = "id"], [Aged EXCEPT !.vary = {"*"}]}],
    [until |-> 2, releases |-> 1, fetches |-> 3,
     rule |-> [Rule EXCEPT !.ignore_headers = {"set-cookie", "x-accel-expires"}, !.no_cache = {200}],
     asks |-> {Get, [Get EXCEPT !.method = "HEAD"], [Get EXCEPT !.method = "POST"]}, statuses |-> {200, 404},
     replies |-> {[Tagged EXCEPT !.cookie = "id"], [Tagged EXCEPT !.type = "grpc", !.accel = 1]}],
    \* Variants.
    [until |-> 2, releases |-> 1, fetches |-> 3,
     rule |-> [Rule EXCEPT !.convert_head = FALSE],
     asks |-> {Get, Speaks("en"), Speaks("de"), [Speaks("en") EXCEPT !.headers.device = "phone"],
               [Speaks("en") EXCEPT !.coding = "gzip"], [Get EXCEPT !.method = "HEAD"]}, statuses |-> {200},
     replies |-> {Aged, [Tagged EXCEPT !.vary = {"lang"}], [Tagged EXCEPT !.vary = {"lang", "device"}]}],
    \* Slices of two bytes, the last one short.
    [until |-> 2, releases |-> 1, fetches |-> 3,
     rule |-> [Rule EXCEPT !.slice = 2],
     asks |-> {Get, Ranged(0, 0), Ranged(1, 1), Ranged(0, 1), Ranged(1, 2), Ranged(2, 1), Ranged(4, 4),
               Ranged(4, 5), [Ranged(1, 1) EXCEPT !.marks = {"if-range"}], [Ranged(1, 1) EXCEPT !.method = "HEAD"]},
     statuses |-> {200, 206}, replies |-> {Tagged}],
    \* Versions and conditions.
    [until |-> 3, releases |-> 3, fetches |-> 4,
     rule |-> [Rule EXCEPT !.default_ttl = 0, !.stale_if_error = 3],
     asks |-> {Get, [Get EXCEPT !.holds = 1], [Get EXCEPT !.holds = 2]}, statuses |-> {200, 304},
     replies |-> {Tagged, Bare}]}

-----------------------------------------------------------------------------
CacheInit ==
    \/ Init /\ ScheduleOff /\ PolicyOff
    \/ Init /\ ScheduleInit /\ PolicyOff
    \/ Init /\ ScheduleOff /\ PolicyInit

CacheNext ==
    \/ loop = "off" /\ mix = NoMix /\ Next /\ UNCHANGED <<scheduleVars, policyVars>>
    \/ ScheduleNext /\ UNCHANGED <<vars, policyVars>>
    \/ PolicyNext /\ UNCHANGED <<vars, scheduleVars>>

CacheSpec == CacheInit /\ [][CacheNext]_<<vars, scheduleVars, policyVars>>
=============================================================================
