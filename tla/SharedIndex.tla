---------------------------- MODULE SharedIndex ----------------------------
(***************************************************************************)
(* The shared cache index: a document in shared memory, and the mirror of  *)
(* it that every worker keeps as its local CacheIndex.                     *)
(*                                                                         *)
(* Every access to the document happens under an exclusive file lock and   *)
(* is one step here.  What a worker does between two accesses is under the *)
(* zone's shared_index_sync_lock, so a worker runs one synchronisation or  *)
(* one update at a time; the workers interleave freely.                    *)
(*                                                                         *)
(* The document's maps (entries, admission counts) are one map: both are   *)
(* changed by blind writes to a key and by removals.  The rules are a set: *)
(* repeating one changes nothing a lookup can see.                         *)
(***************************************************************************)
EXTENDS Naturals, Sequences

CONSTANTS
    Workers,      \* cache managers attached to the zone's segment
    Started,      \* the ones that run from the beginning
    Keys, Vals, Rules,
    Batches,      \* the operation sequences a worker may publish
    RingCapacity, \* operation_ring_capacity
    MayReject,    \* whether a document may exceed the segment's capacity
    MayDieWriting,\* whether a worker may die inside write_document
    MaxSeq,       \* bound on last_change_seq
    MaxRebuilds,  \* bound on resets and rebuilds of the segment
    NoEntry, NoKey, NoVal

Entries == [val : Vals, touched : BOOLEAN]

\* What document and mirror have in common.
Contents == [entries : [Keys -> Entries \cup {NoEntry}],
             invalidations : SUBSET Rules]

\* SharedIndexOperation.
Operations ==
    [op : {"upsert"}, key : Keys, val : Vals]
      \cup [op : {"remove", "touch"}, key : Keys, val : {NoVal}]
      \cup [op : {"invalidate"}, key : {NoKey}, val : Rules]
      \cup [op : {"clear"}, key : {NoKey}, val : {NoVal}]

ASSUME SharedIndexAssumption ==
    /\ Started \subseteq Workers
    /\ RingCapacity \in Nat
    /\ MaxSeq \in Nat
    /\ MaxRebuilds \in Nat
    /\ MayReject \in BOOLEAN
    /\ MayDieWriting \in BOOLEAN
    /\ NoEntry \notin Entries
    /\ Batches \subseteq Seq(Operations)

Cursors == [generation : Nat, store_epoch : Nat, change_seq : Nat]

Documents == [ok : BOOLEAN, generation : Nat, store_epoch : Nat,
              last_change_seq : Nat, content : Contents,
              changes : Seq([seq : Nat, operation : Operations])]

VARIABLES
    doc,       \* the document; not ok after a torn write
    header,    \* the store_epoch of the segment header
    pc,        \* what each worker is doing
    mirror,    \* each worker's local index
    cursor,    \* shared_index_generation, _store_epoch and _change_seq
    rebuilds,  \* history: resets and rebuilds of the document so far
    origin,    \* history: the rebuild count at each worker's last full load
    strayed,   \* history: who changed its mirror without having all changes
    past       \* history: the contents at every change_seq since the rebuild

vars == <<doc, header, pc, mirror, cursor, rebuilds, origin, strayed, past>>

EmptyContent == [entries |-> [k \in Keys |-> NoEntry], invalidations |-> {}]

EmptyDocument(epoch) ==
    [ok |-> TRUE, generation |-> 0, store_epoch |-> epoch, last_change_seq |-> 0,
     content |-> EmptyContent, changes |-> <<>>]

CursorOf(d) == [generation |-> d.generation, store_epoch |-> d.store_epoch,
                change_seq |-> d.last_change_seq]

TypeOK ==
    /\ doc \in Documents
    /\ header \in Nat
    /\ pc \in [Workers -> {"down", "rebuild", "idle", "delta", "reload"}]
    /\ mirror \in [Workers -> Contents]
    /\ cursor \in [Workers -> Cursors]
    /\ rebuilds \in 0 .. MaxRebuilds
    /\ origin \in [Workers -> 0 .. MaxRebuilds]
    /\ strayed \subseteq Workers
    /\ past \in Seq(Contents)

\* The first worker has rebuilt an empty cache directory into the document.
Init ==
    /\ doc = [EmptyDocument(1) EXCEPT !.generation = 1]
    /\ header = 1
    /\ pc = [w \in Workers |-> IF w \in Started THEN "idle" ELSE "down"]
    /\ mirror = [w \in Workers |-> EmptyContent]
    /\ cursor = [w \in Workers |-> CursorOf(doc)]
    /\ rebuilds = 0
    /\ origin = [w \in Workers |-> 0]
    /\ strayed = {}
    /\ past = <<EmptyContent>>

-----------------------------------------------------------------------------
(* Operations on contents: apply_operation_to_document on the document,    *)
(* apply_shared_index_delta and the local update on a mirror.              *)

\* Mutant: touching an entry that is gone brings it back.
ApplyTouchAsUpsert(content, o) ==
    CASE o.op \in {"upsert", "touch"} ->
           [content EXCEPT !.entries[o.key] = [val |-> o.val, touched |-> o.op = "touch"]]
      [] o.op = "remove" -> [content EXCEPT !.entries[o.key] = NoEntry]
      [] o.op = "invalidate" ->
           [content EXCEPT !.invalidations = @ \cup {o.val}]
      [] o.op = "clear" -> [content EXCEPT !.invalidations = {}]

ApplyOperation(content, o) ==
    CASE o.op = "upsert" ->
           [content EXCEPT !.entries[o.key] = [val |-> o.val, touched |-> FALSE]]
      [] o.op = "remove" -> [content EXCEPT !.entries[o.key] = NoEntry]
      [] o.op = "touch" ->
           IF content.entries[o.key] = NoEntry THEN content
           ELSE [content EXCEPT !.entries[o.key].touched = TRUE]
      [] o.op = "invalidate" ->
           [content EXCEPT !.invalidations = @ \cup {o.val}]
      [] o.op = "clear" -> [content EXCEPT !.invalidations = {}]

\* The contents before the operations and after each of them.
Stages(content, ops) ==
    LET stage[n \in 0 .. Len(ops)] ==
          IF n = 0 THEN content ELSE ApplyOperation(stage[n - 1], ops[n])
    IN stage

ApplyOperations(content, ops) == Stages(content, ops)[Len(ops)]

\* Mutant: the oldest changes are kept.
TrimNewest(changes) ==
    IF Len(changes) > RingCapacity THEN SubSeq(changes, 1, RingCapacity) ELSE changes

\* trim_change_ring.
TrimChangeRing(changes) ==
    IF Len(changes) > RingCapacity
    THEN SubSeq(changes, Len(changes) - RingCapacity + 1, Len(changes))
    ELSE changes

\* apply_operations: one generation per batch, one sequence number per change.
ApplyToDocument(d, ops) ==
    [d EXCEPT
       !.generation = @ + 1,
       !.content = ApplyOperations(@, ops),
       !.last_change_seq = @ + Len(ops),
       !.changes = TrimChangeRing(@ \o
          [i \in 1 .. Len(ops) |-> [seq |-> d.last_change_seq + i, operation |-> ops[i]]])]

\* The operations of the changes that are newer than after, in order.
NewerOperations(changes, after) ==
    LET kept[n \in 0 .. Len(changes)] ==
          IF n = 0 THEN <<>>
          ELSE IF changes[n].seq > after THEN Append(kept[n - 1], changes[n].operation)
          ELSE kept[n - 1]
    IN kept[Len(changes)]

\* Mutant: changes that fell out of the ring are not missed.
OperationsInRing(d, after) == NewerOperations(d.changes, after)

\* operations_since: none when the cursor fell out of the ring.
OperationsSince(d, after) ==
    IF d.changes = <<>> \/ after + 1 < Head(d.changes).seq THEN <<>>
    ELSE NewerOperations(d.changes, after)

-----------------------------------------------------------------------------
(* Updates.                                                                *)

\* A worker purges and touches what its own index holds.
Applicable(w, o) ==
    CASE o.op = "remove" -> mirror[w].entries[o.key] # NoEntry
      [] o.op = "touch" -> /\ mirror[w].entries[o.key] # NoEntry
                           /\ ~mirror[w].entries[o.key].touched
      [] OTHER -> TRUE

\* store, purge, invalidate, clear and access recording: the local index is
\* changed, then apply_zone_shared_index_operations_locked publishes, and
\* moves the cursor to the document's on success.
Publish(w, ops) ==
    /\ pc[w] = "idle"
    /\ \A i \in 1 .. Len(ops) : Applicable(w, ops[i])
    /\ doc.last_change_seq + Len(ops) <= MaxSeq
    /\ mirror' = [mirror EXCEPT ![w] = ApplyOperations(@, ops)]
    /\ \/ /\ doc.ok
          /\ doc' = ApplyToDocument(doc, ops)
          /\ cursor' = [cursor EXCEPT ![w] = CursorOf(doc')]
          /\ strayed' = IF cursor[w] = CursorOf(doc) /\ origin[w] = rebuilds
                        THEN strayed ELSE strayed \cup {w}
          /\ past' = past \o [i \in 1 .. Len(ops) |-> Stages(doc.content, ops)[i]]
       \/ /\ ~doc.ok \/ MayReject
          /\ strayed' = strayed \cup {w}
          /\ UNCHANGED <<doc, cursor, past>>
    /\ UNCHANGED <<header, pc, rebuilds, origin>>

\* A worker dies between the length and the end of the payload.
DieWriting(w) ==
    /\ MayDieWriting
    /\ pc[w] = "idle"
    /\ doc' = [doc EXCEPT !.ok = FALSE]
    /\ pc' = [pc EXCEPT ![w] = "down"]
    /\ UNCHANGED <<header, mirror, cursor, rebuilds, origin, strayed, past>>

-----------------------------------------------------------------------------
(* sync_zone_shared_index_if_needed.                                       *)

Behind(w) == \/ doc.store_epoch # cursor[w].store_epoch
             \/ doc.generation > cursor[w].generation

\* The sync state, read under the sync lock (the unlocked reading before it
\* decides nothing that this one does not decide again).
SyncStart(w) ==
    /\ pc[w] = "idle"
    /\ doc.ok
    /\ Behind(w)
    /\ pc' = [pc EXCEPT ![w] =
         IF doc.store_epoch # cursor[w].store_epoch THEN "reload" ELSE "delta"]
    /\ UNCHANGED <<doc, header, mirror, cursor, rebuilds, origin, strayed, past>>

\* The delta is applied if it is of the same epoch, newer and not empty.
DeltaUsable(w) ==
    /\ doc.ok
    /\ doc.store_epoch = cursor[w].store_epoch
    /\ doc.generation > cursor[w].generation
    /\ doc.last_change_seq >= cursor[w].change_seq
    /\ OperationsSince(doc, cursor[w].change_seq) # <<>>

ApplyDelta(w) ==
    /\ pc[w] = "delta"
    /\ DeltaUsable(w)
    /\ mirror' = [mirror EXCEPT ![w] =
         ApplyOperations(@, OperationsSince(doc, cursor[w].change_seq))]
    /\ cursor' = [cursor EXCEPT ![w] = CursorOf(doc)]
    /\ pc' = [pc EXCEPT ![w] = "idle"]
    /\ UNCHANGED <<doc, header, rebuilds, origin, strayed, past>>

\* Mutant: an unusable delta is dropped without a reload.
DropDelta(w) ==
    /\ pc[w] = "delta"
    /\ ~DeltaUsable(w)
    /\ pc' = [pc EXCEPT ![w] = "idle"]
    /\ UNCHANGED <<doc, header, mirror, cursor, rebuilds, origin, strayed, past>>

RejectDelta(w) ==
    /\ pc[w] = "delta"
    /\ ~DeltaUsable(w)
    /\ pc' = [pc EXCEPT ![w] = "reload"]
    /\ UNCHANGED <<doc, header, mirror, cursor, rebuilds, origin, strayed, past>>

\* Take over the document as it is, as a new worker or as an old one.
Attach(w) ==
    /\ mirror' = [mirror EXCEPT ![w] = doc.content]
    /\ cursor' = [cursor EXCEPT ![w] = CursorOf(doc)]
    /\ origin' = [origin EXCEPT ![w] = rebuilds]
    /\ strayed' = strayed \ {w}
    /\ pc' = [pc EXCEPT ![w] = "idle"]
    /\ UNCHANGED <<doc, header, rebuilds, past>>

\* reload_zone_shared_index; an unreadable document leaves the mirror alone.
Reload(w) ==
    /\ pc[w] = "reload"
    /\ \/ doc.ok /\ Attach(w)
       \/ /\ ~doc.ok
          /\ pc' = [pc EXCEPT ![w] = "idle"]
          /\ UNCHANGED <<doc, header, mirror, cursor, rebuilds, origin, strayed, past>>

-----------------------------------------------------------------------------
(* Start-up and loss of the segment.                                       *)

\* shared_index_loaded.
Loadable == doc.ok /\ (doc.generation > 0 \/ doc.content # EmptyContent)

\* bootstrap_shared_index: attach to a usable document, else rebuild it.
Bootstrap(w) ==
    /\ pc[w] = "down"
    /\ \/ Loadable /\ Attach(w)
       \/ /\ ~Loadable
          /\ pc' = [pc EXCEPT ![w] = "rebuild"]
          /\ UNCHANGED <<doc, header, mirror, cursor, rebuilds, origin, strayed, past>>

\* bootstrap_shared_index_from_cache_files: recreate keeps the segment, and
\* its epoch, and starts generation and sequence numbers again.  The scan
\* finds some of the entries; invalidation rules are not on disk.
Rebuild(w) ==
    /\ pc[w] = "rebuild"
    /\ rebuilds < MaxRebuilds
    /\ \E found \in {doc.content.entries, EmptyContent.entries} :
         LET scanned == [EmptyContent EXCEPT !.entries = found] IN
         /\ doc' = [EmptyDocument(header) EXCEPT !.generation = 1, !.content = scanned]
         /\ mirror' = [mirror EXCEPT ![w] = scanned]
         /\ past' = <<scanned>>
    /\ cursor' = [cursor EXCEPT ![w] = CursorOf(doc')]
    /\ rebuilds' = rebuilds + 1
    /\ origin' = [origin EXCEPT ![w] = rebuilds + 1]
    /\ strayed' = strayed \ {w}
    /\ pc' = [pc EXCEPT ![w] = "idle"]
    /\ UNCHANGED header

\* open_or_create_segment finds no segment, or one with another layout, and
\* makes a new one, whose epoch is its creation time.
ResetSegment ==
    /\ rebuilds < MaxRebuilds
    /\ header' = header + 1
    /\ doc' = EmptyDocument(header + 1)
    /\ rebuilds' = rebuilds + 1
    /\ past' = <<EmptyContent>>
    /\ UNCHANGED <<pc, mirror, cursor, origin, strayed>>

SyncStep(w) == SyncStart(w) \/ ApplyDelta(w) \/ RejectDelta(w) \/ Reload(w)

Next ==
    \/ \E w \in Workers :
         \/ \E ops \in Batches : Publish(w, ops)
         \/ DieWriting(w)
         \/ SyncStep(w)
         \/ Bootstrap(w)
         \/ Rebuild(w)
    \/ ResetSegment

Spec == Init /\ [][Next]_vars

\* Every lookup synchronises first: a worker that serves requests keeps
\* synchronising.
Fairness == \A w \in Workers : WF_vars(SyncStep(w))

FairSpec == Spec /\ Fairness

-----------------------------------------------------------------------------
(* Properties.                                                             *)

\* The ring holds the last changes without a gap, whatever was trimmed.
RingContiguous ==
    /\ Len(doc.changes) <= RingCapacity
    /\ \A i \in 1 .. Len(doc.changes) :
         doc.changes[i].seq + Len(doc.changes) = doc.last_change_seq + i

\* A worker that published only when it had all changes, and that has loaded
\* the document since its last rebuild, mirrors the document as it was at
\* the worker's cursor: no change is skipped, repeated or mixed in.
MirrorsThePast ==
    \A w \in Workers :
        /\ pc[w] \in {"idle", "delta", "reload"}
        /\ origin[w] = rebuilds
        /\ w \notin strayed
        => /\ cursor[w].change_seq < Len(past)
           /\ mirror[w] = past[cursor[w].change_seq + 1]

\* Document and mirrors fit each other after any publications, deltas, full
\* loads, rebuilds and deaths: the ring has no gap and no more than its
\* capacity, and every worker in good standing has what the document had at
\* its cursor.
IndexSound == TypeOK /\ RingContiguous /\ MirrorsThePast

\* The documented effect of store_epoch: a cursor from before a rebuild is
\* never used to replay changes (unless the worker's own updates moved it).
OldCursorBlocked ==
    [][\A w \in Workers \ strayed : ApplyDelta(w) => origin[w] = rebuilds]_vars

\* A worker whose cursor says that it has every change has the document's
\* contents: purges and invalidations reach all the workers.
CaughtUpMeansEqual ==
    \A w \in Workers :
        pc[w] = "idle" /\ doc.ok /\ ~Behind(w) => mirror[w] = doc.content

\* A running worker that is behind the document catches up, by a delta or by
\* a full load, unless the document becomes unreadable or the worker dies.
Converges ==
    \A w \in Workers : (pc[w] \notin {"down", "rebuild"} /\ Behind(w))
                          ~> (~doc.ok \/ pc[w] = "down" \/ ~Behind(w))

\* The workers whose views the index vouches for: loaded since the last
\* restart, and without updates of their own that it did not take in order.
Following == {w \in Workers : /\ pc[w] \notin {"down", "rebuild"}
                             /\ origin[w] = rebuilds
                             /\ w \notin strayed}

Replicated == INSTANCE ReplicatedIndex
    WITH Replicas <- Workers, Empty <- EmptyContent,
         log <- past, view <- mirror, follows <- Following

\* Document, ring, cursors and partial reloads implement a log that every
\* worker in good standing follows without skipping, repeating or reordering
\* a change (apply_operations, operations_since, sync_zone_shared_index).
ImplementsReplicatedIndex == Replicated!ReplicatedSpec
=============================================================================
