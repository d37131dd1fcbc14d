------------------------------ MODULE Counters ------------------------------
(***************************************************************************)
(* The counters a request leaves behind (state/counters): those of         *)
(* connections, hosts and routes, the ends of gRPC calls, and the rolling  *)
(* counters beside them, which count the same events by the second.        *)
(***************************************************************************)
EXTENDS Dispatch, SnapshotBus

\* What was counted adds up, whoever leaves and whatever is reloaded: requests and
\* responses, ends of gRPC calls, and the increments of a rolling window.
CountersExact == CountersAddUp /\ GrpcEndsOnce /\ RecentCountsExact
=============================================================================
