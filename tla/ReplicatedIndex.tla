-------------------------- MODULE ReplicatedIndex --------------------------
(***************************************************************************)
(* What the shared cache index promises the workers of a zone: a log of    *)
(* the contents the index has had since it was last started again, and     *)
(* for each worker that follows the log a view, which is the contents at   *)
(* some point of the log and only ever moves to its end.  A worker that    *)
(* updates the index while it lags behind, or whose update is lost, stops  *)
(* following until it has loaded the whole index; nothing is promised      *)
(* about its view.  Module SharedIndex implements this specification.      *)
(***************************************************************************)
EXTENDS Sequences, SequencesExt

CONSTANTS Replicas,      \* the workers
          Empty          \* the contents of an index without entries

VARIABLES log,       \* the contents since the last restart, oldest first
          view,      \* view[w]: what w answers lookups from
          follows    \* the workers that follow the log

replicatedVars == <<log, view, follows>>

ReplicatedInit ==
    /\ log = <<Empty>>
    /\ view = [w \in Replicas |-> Empty]
    /\ follows \in SUBSET Replicas

OthersKeepTheirViews(w) == \A v \in Replicas \ {w} : view'[v] = view[v]

\* The index is updated; a follower at the end of the log stays there.
Update(w) ==
    /\ Len(log') > Len(log) /\ IsPrefix(log, log')
    /\ OthersKeepTheirViews(w)
    /\ \/ /\ w \in follows /\ view[w] = Last(log)
          /\ view'[w] = Last(log') /\ follows' = follows
       \/ follows' = follows \ {w}

\* The worker's view becomes the end of the log, and it follows it.
CatchUp(w) ==
    /\ view' = [view EXCEPT ![w] = Last(log)]
    /\ follows' = follows \cup {w}
    /\ log' = log

\* The worker stops, or has a change of its own that nobody else will see.
Stray(w) ==
    /\ OthersKeepTheirViews(w)
    /\ follows' = follows \ {w}
    /\ log' = log

\* The index starts again, from what one worker found on disk or from nothing.
Restart ==
    /\ Len(log') = 1
    /\ \A w \in follows' : view'[w] = log'[1]
    /\ \A w \in Replicas \ follows' : view'[w] = view[w]

ReplicatedNext == Restart \/ \E w \in Replicas : Update(w) \/ CatchUp(w) \/ Stray(w)

ReplicatedSpec == ReplicatedInit /\ [][ReplicatedNext]_replicatedVars
=============================================================================
