------------------------------- MODULE MCEdge -------------------------------
(***************************************************************************)
(* From a configuration file to a counted request: a behaviour loads one   *)
(* of the configurations of MCConfig, or dispatches the requests of one of *)
(* the scenarios of MCDispatch, or checks requests against a rate limit,   *)
(* or records what happened and reports it to an administrator.            *)
(***************************************************************************)
EXTENDS MCConfig, MCDispatch, RateLimit, Counters
CONSTANTS k1, k2, t1, t2

\* A table of the process; a segment of two workers that disagree on its
\* size; a segment of one.
SomeRateModes ==
    {[shared |-> FALSE, capacity |-> <<2>>], [shared |-> TRUE, capacity |-> <<1, 2>>],
     [shared |-> TRUE, capacity |-> <<2>>]}
SomeRatePolicies == {[rate |-> 1, burst |-> 0], [rate |-> 1, burst |-> 1]}

\* Recorders that mark the same slots, and one that runs against itself.
SomeMixes ==
    {[lists |-> {RequestMarks, RouteMarks}, max |-> 2], [lists |-> {ConnectionMarks, GuardMarks}, max |-> 2],
     [lists |-> {PeerHealthMarks, CacheMarks}, max |-> 2], [lists |-> {UpstreamMarks}, max |-> 3]}

Init ==
    \E part \in {"load", "dispatch", "rate", "bus", "rolling"} :
        /\ IF part = "load" THEN LoadInit ELSE LoadOff
        /\ IF part = "dispatch" THEN DispatchInit ELSE DispatchOff
        /\ IF part = "rate" THEN RateInit ELSE RateOff
        /\ IF part = "bus" THEN BusInit ELSE BusOff
        /\ IF part = "rolling" THEN RollingInit ELSE rolling = NoRolling

Next ==
    \/ LoadNext /\ UNCHANGED <<dispatchVars, rateVars, busVars, rolling>>
    \/ DispatchNext /\ UNCHANGED <<loadVars, rateVars, busVars, rolling>>
    \/ RateNext /\ UNCHANGED <<loadVars, dispatchVars, busVars, rolling>>
    \/ BusNext /\ UNCHANGED <<loadVars, dispatchVars, rateVars, rolling>>
    \/ RollingNext /\ UNCHANGED <<loadVars, dispatchVars, rateVars, busVars>>

Spec == Init /\ [][Next]_<<loadVars, dispatchVars, rateVars, busVars, rolling>>

\* Clients differ in nothing but their names, and so do the requests checked.
RateSymmetry == Permutations({k1, k2}) \cup Permutations({t1, t2})
============================================================================
