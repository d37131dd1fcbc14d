------------------------- MODULE CacheStoreProofs --------------------------
(***************************************************************************)
(* What CacheStore promises for any number of keys, tasks and bodies, any  *)
(* sizes and any order of stores, refreshes, purges, cleanups, drops and   *)
(* invalidations; what the loops over the access schedule take out; and    *)
(* what clients are answered, for any policy, requests and responses.      *)
(***************************************************************************)
EXTENDS CacheStore, AccessSchedule, CachePolicy, FiniteSetTheorems, SequenceTheorems, DataInduction, TLAPS

\* Responses have a hash, hit-for-pass entries have none.
WellKinded(e) == IF e.kind = "response" THEN e.hash \in Keys ELSE e.hash = NoHash

Referring(idx, h) == {k \in Live(idx) : idx.entries[k].hash = h}

\* The parts of an index agree with its entries.
Sound(idx) ==
    /\ idx.entries \in [Keys -> Entries \cup {NoEntry}]
    /\ \A k \in Live(idx) : WellKinded(idx.entries[k])
    /\ idx.variants = Live(idx) /\ idx.scheduled = Live(idx)
    /\ idx.size = SizeOf(idx, Live(idx))
    /\ idx.refs \in [Keys -> Nat]
    /\ \A h \in Keys : idx.refs[h] = Cardinality(Referring(idx, h))

\* What a task saw was an entry, and one that it refreshes a response.
SeenInv ==
    \A t \in Tasks :
        /\ tasks[t].seen # NoEntry => WellKinded(tasks[t].seen)
        /\ tasks[t].pc \in {"lock_refresh", "refresh", "unstorable"} =>
             tasks[t].seen # NoEntry /\ tasks[t].seen.kind = "response"

IndexInv == TypeOK /\ Sound(TheIndex) /\ VariantsAgree /\ SeenInv

-----------------------------------------------------------------------------
\* Without 304 answers an entry is stored under the key that names its files.
OwnHashes ==
    \A k \in Keys : entries[k] # NoEntry /\ entries[k].kind = "response" => entries[k].hash = k

\* The hash whose I/O lock a task has, while it works on its files.
Holds(t, h) ==
    /\ tasks[t].pc \in {"commit", "index_store", "drop", "drop_files", "check", "delete"}
    /\ tasks[t].hash = h

TaskOk(t) ==
    /\ tasks[t].pc \notin {"lock_refresh", "refresh", "refresh_head", "unstorable", "bare_files"}
    /\ tasks[t].pending # {} =>
         tasks[t].pc \in {"store_head", "forget", "unlock", "sweep", "check", "delete"}
    /\ tasks[t].pc \in {"lock_store", "commit", "index_store"} =>
         tasks[t].version # 0 /\ tasks[t].hash = tasks[t].key
    /\ tasks[t].pc \in {"lock_drop", "drop", "drop_files"} =>
         tasks[t].seen # NoEntry /\ (tasks[t].seen.hash # NoHash => tasks[t].hash = tasks[t].seen.hash)
    /\ tasks[t].pc = "drop_files" => tasks[t].hash = tasks[t].seen.hash
    /\ \A h \in Keys : Holds(t, h) => io_locks[h] = t

TasksInv == \A t \in Tasks : TaskOk(t)

FilesAre(h, v) == body[h] = v /\ metadata[h] = v
Storing(t, h) == tasks[t].pc = "index_store" /\ tasks[t].hash = h
Deleting(t, h) == tasks[t].pc \in {"delete", "drop_files"} /\ tasks[t].hash = h

\* With OwnHashes, the same as HashIsReferenced.
IsIndexed(h) == entries[h] # NoEntry /\ entries[h].kind = "response"

\* The files are those of the entry or, for the length of a store, those of
\* the entry to come; what is being deleted is not referenced.
FilesInv ==
    /\ \A k \in Keys : IsIndexed(k) => FilesAre(k, entries[k].version) \/ \E t \in Tasks : Storing(t, k)
    /\ \A t \in Tasks, h \in Keys :
         /\ Storing(t, h) => FilesAre(h, tasks[t].version)
         /\ Deleting(t, h) => ~IsIndexed(h)

\* The task will look at the files of h.
Attending(t, h) ==
    \/ h \in tasks[t].pending
    \/ Storing(t, h) \/ Deleting(t, h)
    \/ tasks[t].pc = "check" /\ tasks[t].hash = h

OrphansInv ==
    \A h \in Keys \ strays : body[h] # 0 /\ ~IsIndexed(h) => \E t \in Tasks : Attending(t, h)

Disk == OwnHashes /\ TasksInv /\ FilesInv /\ OrphansInv

DiskInv == Undisturbed => Disk

-----------------------------------------------------------------------------
(* Counting.                                                               *)

\* Taking a part from a finite set takes its size.
LEMMA PartTaken ==
    ASSUME NEW S, IsFiniteSet(S), NEW T \in SUBSET S
    PROVE  /\ IsFiniteSet(T) /\ IsFiniteSet(S \ T)
           /\ Cardinality(S) \in Nat /\ Cardinality(T) \in Nat /\ Cardinality(S \ T) \in Nat
           /\ Cardinality(S \ T) = Cardinality(S) - Cardinality(T)
           /\ Cardinality(T) <= Cardinality(S)
<1>1. S \cap T = T
  OBVIOUS
<1>2. IsFiniteSet(T) /\ Cardinality(T) <= Cardinality(S)
  BY FS_Subset
<1>3. IsFiniteSet(S \ T) /\ Cardinality(S \ T) = Cardinality(S) - Cardinality(S \cap T)
  BY FS_Difference, Zenon
<1> QED
  BY <1>1, <1>2, <1>3, FS_CardinalityType

BytesOf(idx, ks) == {b \in ks \X (1 .. MaxSize) : b[2] <= Bytes(b[1], idx.entries[b[1]])}

\* The fields of an entry.
LEMMA EntryFields ==
    ASSUME NEW e \in Entries
    PROVE  /\ e.kind \in {"response", "pass"} /\ e.hash \in Keys \cup {NoHash} /\ e.dims \in Dims
           /\ e.stored_at \in Times /\ e.last_access \in Times /\ e.version \in Versions
  BY DEF Entries

\* No entry is larger than the zone.
LEMMA BytesBounded ==
    ASSUME NEW k \in Keys, NEW e \in Entries
    PROVE  Bytes(k, e) \in Nat /\ Bytes(k, e) <= MaxSize
  BY CacheStoreAssumption, EntryFields DEF Bytes

\* The bytes of some keys can be counted.
LEMMA BytesFinite ==
    ASSUME NEW idx, NEW ks \in SUBSET Keys
    PROVE  IsFiniteSet(BytesOf(idx, ks)) /\ SizeOf(idx, ks) = Cardinality(BytesOf(idx, ks)) /\ SizeOf(idx, ks) \in Nat
<1>1. IsFiniteSet(ks) /\ IsFiniteSet(1 .. MaxSize)
  BY CacheStoreAssumption, FS_Subset, FS_Interval
<1>2. IsFiniteSet(ks \X (1 .. MaxSize))
  BY <1>1, FS_Product, Zenon
<1>3. BytesOf(idx, ks) \in SUBSET (ks \X (1 .. MaxSize))
  BY DEF BytesOf
<1>4. IsFiniteSet(BytesOf(idx, ks))
  BY <1>2, <1>3, FS_Subset, Zenon
<1>5. SizeOf(idx, ks) = Cardinality(BytesOf(idx, ks))
  BY DEF SizeOf, BytesOf
<1> QED
  BY <1>4, <1>5, FS_CardinalityType

\* The bytes of some entries do not depend on the others.
LEMMA SameBytes ==
    ASSUME NEW idx, NEW jdx, NEW ks \in SUBSET Keys,
           \A k \in ks : Bytes(k, idx.entries[k]) = Bytes(k, jdx.entries[k])
    PROVE  BytesOf(idx, ks) = BytesOf(jdx, ks) /\ SizeOf(idx, ks) = SizeOf(jdx, ks)
<1>1. \A b \in ks \X (1 .. MaxSize) : b[1] \in ks
  OBVIOUS
<1>2. BytesOf(idx, ks) = BytesOf(jdx, ks)
  BY <1>1 DEF BytesOf
<1> QED
  BY <1>2 DEF SizeOf, BytesOf

\* Without some of the keys there are fewer bytes by theirs.
LEMMA SizeWithout ==
    ASSUME NEW idx, NEW ks \in SUBSET Keys, NEW js \in SUBSET ks
    PROVE  /\ SizeOf(idx, ks \ js) = SizeOf(idx, ks) - SizeOf(idx, js)
           /\ SizeOf(idx, js) <= SizeOf(idx, ks)
<1>1. BytesOf(idx, js) \in SUBSET BytesOf(idx, ks)
  BY DEF BytesOf
<1>2. BytesOf(idx, ks \ js) = BytesOf(idx, ks) \ BytesOf(idx, js)
  BY DEF BytesOf
<1>3. ks \ js \in SUBSET Keys /\ js \in SUBSET Keys
  OBVIOUS
<1>4. /\ SizeOf(idx, ks) = Cardinality(BytesOf(idx, ks)) /\ IsFiniteSet(BytesOf(idx, ks))
      /\ SizeOf(idx, js) = Cardinality(BytesOf(idx, js))
      /\ SizeOf(idx, ks \ js) = Cardinality(BytesOf(idx, ks \ js))
  BY <1>3, BytesFinite
<1> DEFINE K == BytesOf(idx, ks)
           J == BytesOf(idx, js)
<1> HIDE DEF K, J
<1>5. IsFiniteSet(K) /\ J \in SUBSET K
  BY <1>1, <1>4 DEF K, J
<1>6. Cardinality(K \ J) = Cardinality(K) - Cardinality(J) /\ Cardinality(J) <= Cardinality(K)
  BY <1>5, PartTaken
<1> QED
  BY <1>2, <1>4, <1>6 DEF K, J

\* One entry has its bytes.
LEMMA SizeOfOne ==
    ASSUME NEW idx, NEW k \in Keys, idx.entries[k] \in Entries
    PROVE  SizeOf(idx, {k}) = Bytes(k, idx.entries[k])
<1> DEFINE n == Bytes(k, idx.entries[k])
<1>1. n \in Nat /\ n <= MaxSize /\ MaxSize \in Nat
  BY BytesBounded, CacheStoreAssumption
<1>2. \A b \in {k} \X (1 .. MaxSize) : b[1] = k
  OBVIOUS
<1> HIDE DEF n
<1>3. {b \in {k} \X (1 .. MaxSize) : b[2] <= n} = {k} \X (1 .. n)
  <2>1. ASSUME NEW b \in {k} \X (1 .. n) PROVE b \in {k} \X (1 .. MaxSize) /\ b[2] <= n
    BY <1>1
  <2>2. ASSUME NEW b \in {k} \X (1 .. MaxSize), b[2] <= n PROVE b \in {k} \X (1 .. n)
    BY <1>1, <2>2
  <2> QED
    BY <2>1, <2>2
<1>4. {b \in {k} \X (1 .. MaxSize) : b[2] <= Bytes(b[1], idx.entries[b[1]])}
         = {b \in {k} \X (1 .. MaxSize) : b[2] <= n}
  BY <1>2 DEF n
<1>5. IsFiniteSet({k}) /\ Cardinality({k}) = 1
  BY FS_Singleton
<1>6. IsFiniteSet(1 .. n) /\ Cardinality(1 .. n) = n
  BY <1>1, FS_Interval
<1>7. Cardinality({k} \X (1 .. n)) = 1 * n
  <2> DEFINE S == {k}
             T == 1 .. n
  <2> HIDE DEF S, T
  <2>1. ASSUME IsFiniteSet(S), IsFiniteSet(T)
        PROVE  Cardinality(S \X T) = Cardinality(S) * Cardinality(T)
    BY <2>1, FS_Product, Zenon
  <2>2. Cardinality(S) * Cardinality(T) = 1 * n
    BY <1>5, <1>6, Zenon DEF S, T
  <2>3. Cardinality(S \X T) = 1 * n
    BY <1>5, <1>6, <2>1, <2>2, Zenon DEF S, T
  <2> QED
    BY <2>3, Zenon DEF S, T
<1>8. SizeOf(idx, {k}) = Cardinality({k} \X (1 .. n))
  BY <1>3, <1>4 DEF SizeOf
<1>9. SizeOf(idx, {k}) = n
  BY <1>1, <1>7, <1>8
<1> QED
  BY <1>9 DEF n

-----------------------------------------------------------------------------
(* The operations on the index keep its parts in step.                     *)

\* What is live is an entry.
LEMMA LiveEntries ==
    ASSUME NEW idx, Sound(idx)
    PROVE  Live(idx) \in SUBSET Keys /\ \A k \in Live(idx) : idx.entries[k] \in Entries
  BY DEF Live, Sound

\* References can be counted.
LEMMA ReferringFinite ==
    ASSUME NEW idx, NEW h
    PROVE  IsFiniteSet(Referring(idx, h)) /\ Cardinality(Referring(idx, h)) \in Nat
<1>1. Referring(idx, h) \in SUBSET Keys
  BY DEF Referring, Live
<1> QED
  BY <1>1, CacheStoreAssumption, FS_Subset, FS_CardinalityType

\* remove_entry for some keys: only they go, and the parts still agree.
LEMMA RemovedSound ==
    ASSUME NEW idx, Sound(idx), NEW ks \in SUBSET Keys
    PROVE  /\ Sound(RemoveEntries(idx, ks))
           /\ Live(RemoveEntries(idx, ks)) = Live(idx) \ ks
           /\ \A k \in Keys : RemoveEntries(idx, ks).entries[k] = IF k \in ks THEN NoEntry ELSE idx.entries[k]
           /\ RemoveEntries(idx, ks).size = idx.size - SizeOf(idx, ks \cap Live(idx))
<1> DEFINE gone == ks \cap Live(idx)
           r == RemoveEntries(idx, ks)
<1>1. /\ r.entries = [k \in Keys |-> IF k \in gone THEN NoEntry ELSE idx.entries[k]]
      /\ r.variants = idx.variants \ gone /\ r.scheduled = idx.scheduled \ gone
      /\ r.size = idx.size - SizeOf(idx, gone) /\ r.refs = Dereferenced(idx, gone)
  BY DEF RemoveEntries
<1> HIDE DEF r
<1>2. \A k \in Keys : r.entries[k] = IF k \in ks THEN NoEntry ELSE idx.entries[k]
  BY <1>1 DEF Live
<1>3. Live(r) = Live(idx) \ ks /\ Live(r) = Live(idx) \ gone
  BY <1>2 DEF Live
<1>4. \A k \in Live(r) : r.entries[k] = idx.entries[k]
  BY <1>2, <1>3 DEF Live
<1>5. r.entries \in [Keys -> Entries \cup {NoEntry}]
  BY <1>1 DEF Sound
<1>6. r.size = SizeOf(r, Live(r))
  <2>1. Live(idx) \in SUBSET Keys /\ gone \in SUBSET Live(idx) /\ Live(r) \in SUBSET Keys
    BY <1>3 DEF Live
  <2>2. SizeOf(idx, Live(idx) \ gone) = SizeOf(idx, Live(idx)) - SizeOf(idx, gone)
    BY <2>1, SizeWithout
  <2>3. SizeOf(idx, Live(r)) = SizeOf(r, Live(r))
    BY <1>4, <2>1, SameBytes
  <2>4. idx.size = SizeOf(idx, Live(idx))
    BY DEF Sound
  <2> QED
    BY <1>1, <1>3, <2>2, <2>3, <2>4
<1>7. ASSUME NEW h \in Keys
      PROVE  r.refs[h] = Cardinality(Referring(r, h)) /\ r.refs[h] \in Nat
  <2> DEFINE R == Referring(idx, h)
             G == {k \in gone : idx.entries[k].hash = h}
             n == Cardinality(G)
             m == idx.refs[h]
  <2>1. IsFiniteSet(R) /\ G \in SUBSET R /\ m = Cardinality(R)
    <3>1. G \in SUBSET R
      BY DEF Referring
    <3>2. m = Cardinality(R)
      BY DEF Sound
    <3> QED
      BY <3>1, <3>2, ReferringFinite
  <2>2. Referring(r, h) = R \ G
    BY <1>3, <1>4 DEF Referring
  <2>3. /\ Cardinality(R) \in Nat /\ n \in Nat /\ Cardinality(R \ G) \in Nat
        /\ Cardinality(R \ G) = Cardinality(R) - n /\ n <= Cardinality(R)
    BY <2>1, PartTaken
  <2>4. r.refs[h] = IF m > n THEN m - n ELSE 0
    BY <1>1 DEF Dereferenced
  <2> HIDE DEF R, G, n, m
  <2> QED
    BY <2>1, <2>2, <2>3, <2>4
<1>8. r.refs \in [Keys -> Nat]
  <2>1. r.refs = [h \in Keys |-> r.refs[h]]
    BY <1>1 DEF Dereferenced
  <2> QED
    BY <1>7, <2>1
<1>9. \A k \in Live(r) : WellKinded(r.entries[k])
  BY <1>3, <1>4 DEF Sound
<1>10. r.variants = Live(r) /\ r.scheduled = Live(r)
  BY <1>1, <1>3 DEF Sound
<1>11. Sound(r)
  BY <1>5, <1>6, <1>7, <1>8, <1>9, <1>10 DEF Sound
<1> QED
  BY <1>1, <1>2, <1>3, <1>11 DEF r

\* An entry under a free key: only it comes, and the parts still agree.
LEMMA PutSound ==
    ASSUME NEW idx, Sound(idx), NEW k \in Keys, k \notin Live(idx), NEW e \in Entries, WellKinded(e)
    PROVE  /\ Sound(Put(idx, k, e))
           /\ Live(Put(idx, k, e)) = Live(idx) \cup {k}
           /\ \A j \in Keys : Put(idx, k, e).entries[j] = IF j = k THEN e ELSE idx.entries[j]
<1> DEFINE r == Put(idx, k, e)
<1>1. /\ r.entries = [idx.entries EXCEPT ![k] = e]
      /\ r.variants = idx.variants \cup {k} /\ r.scheduled = idx.scheduled \cup {k}
      /\ r.size = idx.size + Bytes(k, e) /\ r.refs = Referenced(idx.refs, e.hash)
  BY DEF Put
<1> HIDE DEF r
<1>2. r.entries \in [Keys -> Entries \cup {NoEntry}] /\ \A j \in Keys : r.entries[j] = IF j = k THEN e ELSE idx.entries[j]
  BY <1>1 DEF Sound
<1>3. e # NoEntry
  BY CacheStoreAssumption
<1>4. Live(r) = Live(idx) \cup {k} /\ Live(idx) = Live(r) \ {k}
  BY <1>2, <1>3 DEF Live
<1>5. \A j \in Live(idx) : r.entries[j] = idx.entries[j]
  BY <1>2 DEF Live
<1>6. r.size = SizeOf(r, Live(r))
  <2>1. Live(r) \in SUBSET Keys /\ {k} \in SUBSET Live(r) /\ Live(idx) \in SUBSET Keys
    BY <1>4 DEF Live
  <2>2. SizeOf(r, Live(r) \ {k}) = SizeOf(r, Live(r)) - SizeOf(r, {k})
    BY <2>1, SizeWithout
  <2>3. SizeOf(r, {k}) = Bytes(k, e)
    BY <1>2, SizeOfOne
  <2>4. SizeOf(idx, Live(idx)) = SizeOf(r, Live(idx))
    BY <1>5, <2>1, SameBytes
  <2>5. SizeOf(r, Live(r)) \in Nat /\ Bytes(k, e) \in Nat
    BY <2>1, BytesFinite, BytesBounded
  <2>6. idx.size = SizeOf(idx, Live(idx))
    BY DEF Sound
  <2>7. SizeOf(r, Live(idx)) = SizeOf(r, Live(r)) - Bytes(k, e)
    BY <1>4, <2>2, <2>3
  <2>8. r.size = SizeOf(r, Live(idx)) + Bytes(k, e)
    BY <1>1, <2>4, <2>6
  <2> QED
    BY <2>5, <2>7, <2>8
<1>7. ASSUME NEW h \in Keys
      PROVE  r.refs[h] = Cardinality(Referring(r, h))
  <2>1. idx.refs \in [Keys -> Nat] /\ idx.refs[h] = Cardinality(Referring(idx, h))
    BY DEF Sound
  <2>2. CASE h = e.hash
    <3>1. Referring(r, h) = Referring(idx, h) \cup {k} /\ k \notin Referring(idx, h)
      BY <1>2, <1>4, <1>5, <2>2 DEF Referring
    <3>2. IsFiniteSet(Referring(idx, h))
      BY ReferringFinite
    <3>3. Cardinality(Referring(idx, h) \cup {k}) = Cardinality(Referring(idx, h)) + 1
      BY <3>1, <3>2, FS_AddElement
    <3>4. e.hash # NoHash
      BY <2>2, CacheStoreAssumption
    <3> QED
      BY <1>1, <2>1, <2>2, <3>1, <3>3, <3>4 DEF Referenced
  <2>3. CASE h # e.hash
    <3>1. Referring(r, h) = Referring(idx, h)
      BY <1>2, <1>4, <1>5, <2>3 DEF Referring
    <3>2. r.refs[h] = idx.refs[h]
      BY <1>1, <2>1, <2>3 DEF Referenced
    <3> QED
      BY <2>1, <3>1, <3>2
  <2> QED
    BY <2>2, <2>3
<1>8. r.refs \in [Keys -> Nat]
  <2>1. idx.refs \in [Keys -> Nat]
    BY DEF Sound
  <2> QED
    BY <1>1, <2>1, EntryFields DEF Referenced
<1>9. \A j \in Live(r) : WellKinded(r.entries[j])
  BY <1>2, <1>4 DEF Sound, Live
<1>10. r.variants = Live(r) /\ r.scheduled = Live(r)
  BY <1>1, <1>4 DEF Sound
<1>11. Sound(r)
  BY <1>2, <1>6, <1>7, <1>8, <1>9, <1>10 DEF Sound
<1> QED
  BY <1>2, <1>4, <1>11 DEF r

\* insert_entry, over another entry or not.
LEMMA InsertedSound ==
    ASSUME NEW idx, Sound(idx), NEW k \in Keys, NEW e \in Entries, WellKinded(e)
    PROVE  /\ Sound(InsertEntry(idx, k, e))
           /\ Live(InsertEntry(idx, k, e)) = Live(idx) \cup {k}
           /\ \A j \in Keys : InsertEntry(idx, k, e).entries[j] = IF j = k THEN e ELSE idx.entries[j]
<1> DEFINE rest == RemoveEntries(idx, {k})
<1>1. {k} \in SUBSET Keys
  OBVIOUS
<1>2. /\ Sound(rest) /\ Live(rest) = Live(idx) \ {k}
      /\ \A j \in Keys : rest.entries[j] = IF j \in {k} THEN NoEntry ELSE idx.entries[j]
  BY <1>1, RemovedSound
<1>3. InsertEntry(idx, k, e) = Put(rest, k, e)
  BY DEF InsertEntry, RemoveEntry
<1> HIDE DEF rest
<1>4. /\ Sound(Put(rest, k, e)) /\ Live(Put(rest, k, e)) = Live(rest) \cup {k}
      /\ \A j \in Keys : Put(rest, k, e).entries[j] = IF j = k THEN e ELSE rest.entries[j]
  BY <1>2, PutSound
<1> QED
  BY <1>2, <1>3, <1>4

\* What update_index_after_store does to an index whose parts agree: they
\* still do, it fits, the variants have the same dimensions, every entry is
\* the one stored or one that was there, and the files of what is not there
\* any more are to be looked at.
LEMMA StoredSound ==
    ASSUME Sound(TheIndex), NEW k \in Keys, NEW e \in Entries, WellKinded(e), NEW s \in Keys, NEW seen,
           NEW o \in StoreOutcomes(k, e, s, seen)
    PROVE  /\ Sound(o.idx) /\ o.idx.size \in 0 .. MaxSize
           /\ \A j \in Live(o.idx) : o.idx.entries[j].dims = e.dims
           /\ \A j \in Keys : \/ o.idx.entries[j] = NoEntry
                              \/ j # k /\ o.idx.entries[j] = entries[j]
                              \/ j = k /\ o.idx.entries[j] = e
           /\ \A j \in Keys : \/ entries[j] = NoEntry \/ o.idx.entries[j] = entries[j]
                              \/ entries[j].hash \in o.pending \cup {NoHash, e.hash}
           /\ o.pending \in SUBSET Keys /\ e.hash \notin o.pending /\ o.gone \in SUBSET Keys
<1> DEFINE idx0 == TheIndex
           replaced == IF StableEq(idx0.entries[s], seen) THEN {s} ELSE {}
           idx1 == RemoveEntries(idx0, replaced)
           odd == Incompatible(idx1, k, e)
           idx2 == RemoveEntries(idx1, odd)
           old == {k} \cap Live(idx2)
           idx3 == InsertEntry(idx2, k, e)
           dropped == Hashes(idx0, replaced) \cup Hashes(idx1, odd) \cup Hashes(idx2, old)
<1>1. PICK out \in EvictionCandidates(idx3) :
        o = [idx |-> RemoveEntries(idx3, out), pending |-> (dropped \cup Hashes(idx3, out)) \ {e.hash},
             gone |-> replaced \cup odd \cup old \cup out]
  BY DEF StoreOutcomes
<1>2. idx0.entries = entries /\ replaced \in SUBSET Keys
  BY DEF TheIndex
<1> HIDE DEF idx0, replaced
<1>3. /\ Sound(idx1) /\ Live(idx1) = Live(idx0) \ replaced
      /\ \A j \in Keys : idx1.entries[j] = IF j \in replaced THEN NoEntry ELSE idx0.entries[j]
  BY <1>2, RemovedSound DEF idx0
<1> HIDE DEF idx1
<1>4. odd \in SUBSET Keys /\ k \notin odd /\ \A j \in Live(idx1) \ (odd \cup {k}) : idx1.entries[j].dims = e.dims
  BY <1>3 DEF Incompatible, Sound, Live
<1> HIDE DEF odd
<1>5. /\ Sound(idx2) /\ Live(idx2) = Live(idx1) \ odd
      /\ \A j \in Keys : idx2.entries[j] = IF j \in odd THEN NoEntry ELSE idx1.entries[j]
  <2>1. Sound(idx1) /\ odd \in SUBSET Keys
    BY <1>3, <1>4
  <2> QED
    BY <2>1, RemovedSound, Zenon
<1> HIDE DEF idx2
<1>6. /\ Sound(idx3) /\ Live(idx3) = Live(idx2) \cup {k}
      /\ \A j \in Keys : idx3.entries[j] = IF j = k THEN e ELSE idx2.entries[j]
  BY <1>5, InsertedSound
<1> HIDE DEF idx3
<1>7. idx3.scheduled \cap Live(idx3) = Live(idx3) /\ Live(idx3) \in SUBSET Keys
  BY <1>6 DEF Sound, Live
<1>8. out \in SUBSET Live(idx3) /\ (idx3.size - SizeOf(idx3, out) <= MaxSize \/ out = Live(idx3))
  BY <1>1, <1>7 DEF EvictionCandidates
<1>9. out \in SUBSET Keys /\ out \cap Live(idx3) = out
  BY <1>7, <1>8
<1> DEFINE r == RemoveEntries(idx3, out)
<1>10. /\ Sound(r) /\ Live(r) = Live(idx3) \ out
       /\ \A j \in Keys : r.entries[j] = IF j \in out THEN NoEntry ELSE idx3.entries[j]
       /\ r.size = idx3.size - SizeOf(idx3, out)
  BY <1>6, <1>9, RemovedSound
<1>11. o.idx = r /\ o.pending = (dropped \cup Hashes(idx3, out)) \ {e.hash} /\ o.gone = replaced \cup odd \cup old \cup out
  BY <1>1
<1> HIDE DEF r, dropped, old
<1>12. r.size \in 0 .. MaxSize
  <2>1. Live(r) \in SUBSET Keys /\ r.size = SizeOf(r, Live(r))
    BY <1>10 DEF Sound, Live
  <2>2. r.size \in Nat
    BY <2>1, BytesFinite
  <2>3. CASE out = Live(idx3)
    <3>1. Live(r) = {}
      BY <1>10, <2>3
    <3>2. BytesOf(r, {}) = {}
      BY DEF BytesOf
    <3>3. SizeOf(r, {}) = 0
      BY <3>2, FS_EmptySet DEF SizeOf, BytesOf
    <3> QED
      BY <2>1, <3>1, <3>3, CacheStoreAssumption
  <2> QED
    BY <1>8, <1>10, <2>2, <2>3, CacheStoreAssumption
<1>13. ASSUME NEW j \in Live(r) PROVE r.entries[j].dims = e.dims
  <2>1. j \in Keys /\ j \in Live(idx3) /\ r.entries[j] = idx3.entries[j]
    BY <1>10 DEF Live
  <2>2. CASE j = k
    BY <1>6, <2>1, <2>2
  <2>3. CASE j # k
    <3>1. j \in Live(idx2) /\ j \in Live(idx1) /\ j \notin odd
      BY <1>5, <1>6, <2>1, <2>3
    <3> QED
      BY <1>4, <1>5, <1>6, <2>1, <2>3, <3>1
  <2> QED
    BY <2>2, <2>3
<1>14. ASSUME NEW j \in Keys
       PROVE  r.entries[j] = NoEntry \/ (j # k /\ r.entries[j] = entries[j]) \/ (j = k /\ r.entries[j] = e)
  BY <1>2, <1>3, <1>5, <1>6, <1>10
<1>15. ASSUME NEW j \in Keys, entries[j] # NoEntry, r.entries[j] # entries[j],
              entries[j].hash # NoHash, entries[j].hash # e.hash
       PROVE  entries[j].hash \in o.pending
  <2>1. CASE j \in replaced
    BY <1>2, <1>11, <1>15, <2>1 DEF dropped, Hashes
  <2>2. CASE j \notin replaced /\ j \in odd
    <3>1. idx1.entries[j] = entries[j]
      BY <1>2, <1>3, <2>2
    <3> QED
      BY <1>11, <1>15, <2>2, <3>1 DEF dropped, Hashes
  <2>3. CASE j \notin replaced /\ j \notin odd
    <3>1. idx2.entries[j] = entries[j]
      BY <1>2, <1>3, <1>5, <2>3
    <3>2. CASE j = k
      <4>1. j \in old
        BY <1>15, <3>1, <3>2 DEF old, Live
      <4> QED
        BY <1>11, <1>15, <3>1, <4>1 DEF dropped, Hashes
    <3>3. CASE j # k
      <4>1. idx3.entries[j] = entries[j] /\ j \in out
        BY <1>6, <1>10, <1>15, <3>1, <3>3
      <4> QED
        BY <1>11, <1>15, <4>1 DEF Hashes
    <3> QED
      BY <3>2, <3>3
  <2> QED
    BY <2>1, <2>2, <2>3
<1>16. o.pending \in SUBSET Keys
  <2>1. \A j \in replaced : entries[j].hash \in Keys \cup {NoHash}
    <3>1. CASE replaced = {}
      BY <3>1
    <3>2. CASE replaced # {}
      <4>1. replaced = {s} /\ entries[s] # NoEntry
        BY <1>2, <3>2 DEF replaced, StableEq
      <4>2. entries[s] \in Entries
        BY <1>2, <4>1 DEF Sound, idx0
      <4> QED
        BY <4>1, <4>2, EntryFields
    <3> QED
      BY <3>1, <3>2
  <2>2. Hashes(idx0, replaced) \in SUBSET Keys
    BY <1>2, <2>1 DEF Hashes
  <2>3. Hashes(idx1, odd) \in SUBSET Keys
    <3>1. odd \in SUBSET Live(idx1)
      BY DEF odd, Incompatible
    <3>2. \A j \in odd : idx1.entries[j].hash \in Keys \cup {NoHash}
      BY <1>3, <3>1, LiveEntries, EntryFields
    <3> QED
      BY <3>2 DEF Hashes
  <2>4. Hashes(idx2, old) \in SUBSET Keys
    <3>1. \A j \in old : idx2.entries[j].hash \in Keys \cup {NoHash}
      BY <1>5, LiveEntries, EntryFields DEF old
    <3> QED
      BY <3>1 DEF Hashes
  <2>5. Hashes(idx3, out) \in SUBSET Keys
    <3>1. \A j \in out : idx3.entries[j].hash \in Keys \cup {NoHash}
      BY <1>6, <1>8, LiveEntries, EntryFields
    <3> QED
      BY <3>1 DEF Hashes
  <2> QED
    BY <1>11, <2>2, <2>3, <2>4, <2>5 DEF dropped
<1>17. e.hash \notin o.pending /\ o.gone \in SUBSET Keys
  BY <1>2, <1>4, <1>9, <1>11 DEF old
<1> QED
  BY <1>10, <1>11, <1>12, <1>13, <1>14, <1>15, <1>16, <1>17

-----------------------------------------------------------------------------
(* Steps and the index.                                                    *)

\* The fields of a task.
LEMMA TaskFields ==
    ASSUME NEW x \in TaskStates
    PROVE  /\ x.pc \in Pcs /\ x.key \in Keys /\ x.seen \in Entries \cup {NoEntry} /\ x.seenKey \in Keys
           /\ x.at \in Times /\ x.version \in Versions /\ x.hash \in Keys /\ x.pending \in SUBSET Keys
           /\ x.gone \in SUBSET Keys
  BY DEF TaskStates

\* A task at rest.
LEMMA IdleFields ==
    /\ IdleTask \in TaskStates /\ IdleTask.pc = "idle" /\ IdleTask.seen = NoEntry
    /\ IdleTask.version = 0 /\ IdleTask.pending = {}
<1>1. (CHOOSE k \in Keys : TRUE) \in Keys
  BY CacheStoreAssumption
<1>2. 0 \in Times /\ 0 \in Versions
  BY CacheStoreAssumption DEF Times, Versions
<1> QED
  BY <1>1, <1>2 DEF IdleTask, TaskStates, Pcs

\* What TypeOK says, variable by variable.
LEMMA TypesOfState ==
    ASSUME TypeOK
    PROVE  /\ setting \in SettingType /\ hot \in [Keys -> Times] /\ invalidations \in SUBSET Times
           /\ body \in [Keys -> Versions] /\ metadata \in [Keys -> Versions]
           /\ io_locks \in [Keys -> Tasks \cup {NoTask}] /\ tasks \in [Tasks -> TaskStates]
           /\ clock \in Times /\ stored \in Nat /\ strays \in SUBSET Keys
           /\ current_size_bytes \in 0 .. MaxSize /\ entries \in [Keys -> Entries \cup {NoEntry}]
  BY CacheStoreAssumption DEF TypeOK, Versions

\* A step that leaves the index alone.
LEMMA Untouched ==
    ASSUME IndexInv, UNCHANGED index
    PROVE  Sound(TheIndex)' /\ VariantsAgree' /\ current_size_bytes' \in 0 .. MaxSize
<1>1. TheIndex' = TheIndex /\ entries' = entries /\ current_size_bytes' = current_size_bytes
  BY DEF index, TheIndex
<1> QED
  BY <1>1 DEF IndexInv, VariantsAgree, TypeOK

\* Soundness is about the fields.
LEMMA SoundFields ==
    ASSUME NEW idx, NEW jdx, Sound(idx), jdx.entries = idx.entries, jdx.variants = idx.variants,
           jdx.scheduled = idx.scheduled, jdx.size = idx.size, jdx.refs = idx.refs
    PROVE  Sound(jdx) /\ Live(jdx) = Live(idx)
<1>1. Live(jdx) = Live(idx) /\ Live(idx) \in SUBSET Keys
  BY DEF Live
<1>2. SizeOf(jdx, Live(jdx)) = SizeOf(idx, Live(idx))
  BY <1>1 DEF SizeOf
<1>3. \A h : Referring(jdx, h) = Referring(idx, h)
  BY <1>1 DEF Referring
<1> QED
  BY <1>1, <1>2, <1>3 DEF Sound

\* A step that writes an index whose parts agree and that fits.
LEMMA Changed ==
    ASSUME NEW idx, Sound(idx), SetIndex(idx), idx.size \in 0 .. MaxSize,
           \A i, j \in Live(idx) : idx.entries[i].dims = idx.entries[j].dims
    PROVE  Sound(TheIndex)' /\ VariantsAgree' /\ current_size_bytes' \in 0 .. MaxSize
<1>1. /\ TheIndex'.entries = idx.entries /\ TheIndex'.variants = idx.variants /\ TheIndex'.scheduled = idx.scheduled
      /\ TheIndex'.size = idx.size /\ TheIndex'.refs = idx.refs
  BY DEF SetIndex, TheIndex
<1>2. Sound(TheIndex') /\ Live(TheIndex') = Live(idx)
  BY <1>1, SoundFields
<1>3. entries' = idx.entries /\ current_size_bytes' = idx.size
  BY DEF SetIndex
<1> QED
  BY <1>2, <1>3 DEF VariantsAgree

\* A removal keeps the index within its size and its variants alike.
LEMMA RemovedFits ==
    ASSUME IndexInv, NEW ks \in SUBSET Keys, SetIndex(RemoveEntries(TheIndex, ks))
    PROVE  Sound(TheIndex)' /\ VariantsAgree' /\ current_size_bytes' \in 0 .. MaxSize
<1> DEFINE r == RemoveEntries(TheIndex, ks)
<1>1. /\ Sound(r) /\ Live(r) = Live(TheIndex) \ ks
      /\ \A k \in Keys : r.entries[k] = IF k \in ks THEN NoEntry ELSE TheIndex.entries[k]
      /\ r.size = TheIndex.size - SizeOf(TheIndex, ks \cap Live(TheIndex))
  BY RemovedSound DEF IndexInv
<1>2. SetIndex(r)
  OBVIOUS
<1> HIDE DEF r
<1>3. TheIndex.size = current_size_bytes /\ TheIndex.entries = entries
  BY DEF TheIndex
<1>4. r.size \in Nat /\ SizeOf(TheIndex, ks \cap Live(TheIndex)) \in Nat
  <2>1. Live(r) \in SUBSET Keys /\ ks \cap Live(TheIndex) \in SUBSET Keys /\ r.size = SizeOf(r, Live(r))
    BY <1>1 DEF Live, Sound
  <2> QED
    BY <2>1, BytesFinite
<1>5. r.size \in 0 .. MaxSize
  BY <1>1, <1>3, <1>4, CacheStoreAssumption DEF IndexInv, TypeOK
<1>6. \A i, j \in Live(r) : r.entries[i].dims = r.entries[j].dims
  BY <1>1, <1>3 DEF IndexInv, VariantsAgree, Live
<1> QED
  BY <1>1, <1>2, <1>5, <1>6, Changed

\* So does a store, which evicts.
LEMMA StoredFits ==
    ASSUME IndexInv, NEW k \in Keys, NEW e \in Entries, WellKinded(e), NEW s \in Keys, NEW seen,
           NEW o \in StoreOutcomes(k, e, s, seen), SetIndex(o.idx)
    PROVE  /\ Sound(TheIndex)' /\ VariantsAgree' /\ current_size_bytes' \in 0 .. MaxSize
           /\ o.pending \in SUBSET Keys /\ o.gone \in SUBSET Keys
<1>1. /\ Sound(o.idx) /\ o.idx.size \in 0 .. MaxSize /\ o.pending \in SUBSET Keys /\ o.gone \in SUBSET Keys
      /\ \A j \in Live(o.idx) : o.idx.entries[j].dims = e.dims
  BY StoredSound DEF IndexInv
<1> QED
  BY <1>1, Changed

\* What a step has to show.
LEMMA InvStep ==
    ASSUME IndexInv, UNCHANGED setting, Sound(TheIndex)', VariantsAgree', current_size_bytes' \in 0 .. MaxSize,
           tasks' \in [Tasks -> TaskStates], SeenInv', invalidations' \in SUBSET Times, hot' \in [Keys -> Times],
           body' \in [Keys -> Versions], metadata' \in [Keys -> Versions],
           io_locks' \in [Keys -> Tasks \cup {NoTask}], clock' \in Times, stored' \in Nat, strays' \in SUBSET Keys
    PROVE  IndexInv'
<1>1. /\ TheIndex'.entries = entries' /\ TheIndex'.variants = variants' /\ TheIndex'.scheduled = scheduled'
      /\ TheIndex'.refs = hash_ref_counts'
  BY DEF TheIndex
<1>2. entries' \in [Keys -> Entries \cup {NoEntry}] /\ variants' \in SUBSET Keys /\ scheduled' \in SUBSET Keys
  BY <1>1 DEF Sound, Live
<1>3. hash_ref_counts' \in [Keys -> 0 .. Cardinality(Keys)]
  <2>1. \A h \in Keys : Referring(TheIndex', h) \in SUBSET Keys
    BY DEF Referring, Live
  <2>2. \A h \in Keys : Cardinality(Referring(TheIndex', h)) <= Cardinality(Keys)
    BY <2>1, CacheStoreAssumption, FS_Subset
  <2>3. Cardinality(Keys) \in Nat
    BY CacheStoreAssumption, FS_CardinalityType
  <2>4. hash_ref_counts' \in [Keys -> Nat] /\ \A h \in Keys : hash_ref_counts'[h] <= Cardinality(Keys)
    BY <1>1, <2>2 DEF Sound
  <2> QED
    BY <2>3, <2>4
<1>4. setting' \in Settings
  BY DEF IndexInv, TypeOK
<1> QED
  BY <1>2, <1>3, <1>4 DEF IndexInv, TypeOK, Versions

Late == {"lock_refresh", "refresh", "unstorable"}

\* A task's new state.
LEMMA SetTask ==
    ASSUME IndexInv, NEW t \in Tasks, NEW x \in TaskStates, Set(t, x),
           x.seen # NoEntry => WellKinded(x.seen),
           x.pc \in Late => x.seen # NoEntry /\ x.seen.kind = "response"
    PROVE  tasks' \in [Tasks -> TaskStates] /\ SeenInv' /\ tasks'[t] = x /\ \A u \in Tasks \ {t} : tasks'[u] = tasks[u]
<1>1. tasks \in [Tasks -> TaskStates] /\ SeenInv
  BY TypesOfState DEF IndexInv
<1>2. tasks' \in [Tasks -> TaskStates] /\ tasks'[t] = x /\ \A u \in Tasks \ {t} : tasks'[u] = tasks[u]
  BY <1>1 DEF Set
<1> QED
  BY <1>1, <1>2 DEF SeenInv, Late

\* A task goes on with what it saw.
Goes(t, to, h, p) ==
    /\ tasks' \in [Tasks -> TaskStates] /\ SeenInv' /\ \A u \in Tasks \ {t} : tasks'[u] = tasks[u]
    /\ tasks'[t].pc = to /\ tasks'[t].hash = h /\ tasks'[t].pending = p
    /\ tasks'[t].key = tasks[t].key /\ tasks'[t].seen = tasks[t].seen /\ tasks'[t].version = tasks[t].version

\* Going on keeps what the task saw.
LEMMA GoOn ==
    ASSUME IndexInv, NEW t \in Tasks, NEW x \in TaskStates, Set(t, x), x.pc \in Late => tasks[t].pc \in Late,
           x.key = tasks[t].key, x.seen = tasks[t].seen, x.version = tasks[t].version
    PROVE  Goes(t, x.pc, x.hash, x.pending)
<1>1. tasks[t].seen # NoEntry => WellKinded(tasks[t].seen)
  BY DEF IndexInv, SeenInv
<1>2. tasks[t].pc \in Late => tasks[t].seen # NoEntry /\ tasks[t].seen.kind = "response"
  BY DEF IndexInv, SeenInv, Late
<1>3. tasks' \in [Tasks -> TaskStates] /\ SeenInv' /\ tasks'[t] = x /\ \A u \in Tasks \ {t} : tasks'[u] = tasks[u]
  BY <1>1, <1>2, SetTask
<1> QED
  BY <1>3 DEF Goes

\* A change of the program counter.
LEMMA GotoGoes ==
    ASSUME IndexInv, NEW t \in Tasks, NEW to \in Pcs, Goto(t, to), to \in Late => tasks[t].pc \in Late
    PROVE  Goes(t, to, tasks[t].hash, tasks[t].pending)
<1> DEFINE x == [tasks[t] EXCEPT !.pc = to]
<1>1. tasks[t] \in TaskStates
  BY TypesOfState DEF IndexInv
<1>2. /\ x \in TaskStates /\ x.pc = to /\ x.hash = tasks[t].hash /\ x.pending = tasks[t].pending
      /\ x.key = tasks[t].key /\ x.seen = tasks[t].seen /\ x.version = tasks[t].version
  BY <1>1 DEF TaskStates
<1>3. Set(t, x)
  BY DEF Goto
<1> HIDE DEF x
<1>4. Goes(t, x.pc, x.hash, x.pending)
  BY <1>2, <1>3, GoOn
<1> QED
  BY <1>2, <1>4

\* A change of the program counter and of the files to look at.
LEMMA PendingGoes ==
    ASSUME IndexInv, NEW t \in Tasks, NEW to \in Pcs \ Late, NEW p \in SUBSET Keys,
           Set(t, [tasks[t] EXCEPT !.pc = to, !.pending = p])
    PROVE  Goes(t, to, tasks[t].hash, p)
<1> DEFINE x == [tasks[t] EXCEPT !.pc = to, !.pending = p]
<1>1. tasks[t] \in TaskStates
  BY TypesOfState DEF IndexInv
<1>2. /\ x \in TaskStates /\ x.pc = to /\ x.hash = tasks[t].hash /\ x.pending = p
      /\ x.key = tasks[t].key /\ x.seen = tasks[t].seen /\ x.version = tasks[t].version
  BY <1>1 DEF TaskStates
<1>3. Set(t, x)
  OBVIOUS
<1> HIDE DEF x
<1>4. Goes(t, x.pc, x.hash, x.pending)
  BY <1>2, <1>3, GoOn
<1> QED
  BY <1>2, <1>4

\* A task that is done, or has files to look at.
LEMMA SweepSets ==
    ASSUME IndexInv, NEW t \in Tasks, NEW p \in SUBSET Keys, Sweep(t, p)
    PROVE  /\ tasks' \in [Tasks -> TaskStates] /\ SeenInv' /\ \A u \in Tasks \ {t} : tasks'[u] = tasks[u]
           /\ tasks'[t].pc \in {"idle", "sweep"} /\ tasks'[t].pending = p /\ (p # {} => tasks'[t].pc = "sweep")
<1> DEFINE x == IF p = {} THEN IdleTask ELSE [IdleTask EXCEPT !.pc = "sweep", !.pending = p]
<1>1. x \in TaskStates /\ x.pc \in {"idle", "sweep"} /\ x.pending = p /\ x.seen = NoEntry /\ (p # {} => x.pc = "sweep")
  BY IdleFields DEF TaskStates, Pcs
<1>2. Set(t, x)
  BY DEF Sweep
<1> HIDE DEF x
<1>3. tasks' \in [Tasks -> TaskStates] /\ SeenInv' /\ tasks'[t] = x /\ \A u \in Tasks \ {t} : tasks'[u] = tasks[u]
  BY <1>1, <1>2, SetTask DEF Late
<1> QED
  BY <1>1, <1>3

\* The tasks after a step of one of them.
Others(t) == tasks' \in [Tasks -> TaskStates] /\ SeenInv' /\ \A u \in Tasks \ {t} : tasks'[u] = tasks[u]

\* A task that has stored an entry.
LEMMA StoreSets ==
    ASSUME IndexInv, NEW t \in Tasks, NEW next \in Pcs \ Late, NEW k \in Keys, NEW h \in Keys, NEW at \in Times,
           NEW p \in SUBSET Keys, NEW g \in SUBSET Keys,
           Set(t, [tasks[t] EXCEPT !.pc = next, !.key = k, !.hash = h, !.at = at, !.pending = p, !.gone = g])
    PROVE  Others(t) /\ tasks'[t].pc = next /\ tasks'[t].pending = p
<1> DEFINE x == [tasks[t] EXCEPT !.pc = next, !.key = k, !.hash = h, !.at = at, !.pending = p, !.gone = g]
<1>1. tasks[t] \in TaskStates /\ (tasks[t].seen # NoEntry => WellKinded(tasks[t].seen))
  BY TypesOfState DEF IndexInv, SeenInv
<1>2. x \in TaskStates /\ x.pc = next /\ x.pending = p /\ x.seen = tasks[t].seen
  BY <1>1 DEF TaskStates
<1>3. Set(t, x)
  OBVIOUS
<1> HIDE DEF x
<1>4. tasks' \in [Tasks -> TaskStates] /\ SeenInv' /\ tasks'[t] = x /\ \A u \in Tasks \ {t} : tasks'[u] = tasks[u]
  BY <1>1, <1>2, <1>3, SetTask
<1> QED
  BY <1>2, <1>4 DEF Others

\* A task that has removed entries without holding an I/O lock.
LEMMA ForgetSets ==
    ASSUME IndexInv, NEW t \in Tasks, NEW ks \in SUBSET Keys, NEW p \in SUBSET Keys, Forget(t, ks, p)
    PROVE  Others(t) /\ tasks'[t].pc = "forget" /\ tasks'[t].pending = p
<1> DEFINE x == [IdleTask EXCEPT !.pc = "forget", !.pending = p, !.gone = ks]
<1>1. x \in TaskStates /\ x.pc = "forget" /\ x.pending = p /\ x.seen = NoEntry
  BY IdleFields DEF TaskStates, Pcs
<1>2. Set(t, x)
  BY DEF Forget
<1> HIDE DEF x
<1>3. tasks' \in [Tasks -> TaskStates] /\ SeenInv' /\ tasks'[t] = x /\ \A u \in Tasks \ {t} : tasks'[u] = tasks[u]
  BY <1>1, <1>2, SetTask DEF Late
<1> QED
  BY <1>1, <1>3 DEF Others

\* A step that leaves the index, the clock and the history alone.
LEMMA TaskAndFiles ==
    ASSUME IndexInv, UNCHANGED <<setting, index, invalidations, hot, clock, strays>>, stored' \in Nat,
           tasks' \in [Tasks -> TaskStates], SeenInv', body' \in [Keys -> Versions], metadata' \in [Keys -> Versions],
           io_locks' \in [Keys -> Tasks \cup {NoTask}]
    PROVE  IndexInv'
<1>1. /\ hot' \in [Keys -> Times] /\ invalidations' \in SUBSET Times /\ clock' \in Times /\ strays' \in SUBSET Keys
      /\ UNCHANGED <<setting, index>>
  BY TypesOfState DEF IndexInv
<1>2. Sound(TheIndex)' /\ VariantsAgree' /\ current_size_bytes' \in 0 .. MaxSize
  BY <1>1, Untouched
<1> QED
  BY <1>1, <1>2, InvStep

\* A step that changes the index and what depends on it, but no file.
LEMMA IndexAndTask ==
    ASSUME IndexInv, UNCHANGED <<setting, invalidations, body, io_locks, clock, stored>>,
           Sound(TheIndex)', VariantsAgree', current_size_bytes' \in 0 .. MaxSize, metadata' \in [Keys -> Versions],
           tasks' \in [Tasks -> TaskStates], SeenInv', hot' \in [Keys -> Times], strays' \in SUBSET Keys
    PROVE  IndexInv'
<1>1. /\ invalidations' \in SUBSET Times /\ clock' \in Times /\ stored' \in Nat /\ body' \in [Keys -> Versions]
      /\ io_locks' \in [Keys -> Tasks \cup {NoTask}]
  BY TypesOfState DEF IndexInv
<1> QED
  BY <1>1, InvStep

\* Hot state that is dropped is the time 0.
LEMMA ForgetHotType ==
    ASSUME IndexInv, NEW ks
    PROVE  ForgetHot(ks) \in [Keys -> Times]
<1>1. hot \in [Keys -> Times] /\ 0 \in Times
  BY TypesOfState, CacheStoreAssumption DEF IndexInv, Times
<1> QED
  BY <1>1 DEF ForgetHot

\* The entries are those of TheIndex.
LEMMA KnownEntries ==
    ASSUME IndexInv
    PROVE  /\ entries \in [Keys -> Entries \cup {NoEntry}] /\ clock \in Times
           /\ \A k \in Keys : entries[k] # NoEntry => entries[k] \in Entries /\ WellKinded(entries[k])
           /\ TheIndex.entries = entries /\ Live(TheIndex) = {k \in Keys : entries[k] # NoEntry}
<1>1. entries \in [Keys -> Entries \cup {NoEntry}] /\ clock \in Times
  BY TypesOfState DEF IndexInv
<1>2. TheIndex.entries = entries /\ Live(TheIndex) = {k \in Keys : entries[k] # NoEntry}
  BY DEF TheIndex, Live
<1>3. \A k \in Live(TheIndex) : WellKinded(entries[k])
  BY <1>2 DEF IndexInv, Sound
<1> QED
  BY <1>1, <1>2, <1>3

\* What a lookup leaves is a response or nothing.
LEMMA CachedEntries ==
    ASSUME IndexInv, NEW k \in Keys
    PROVE  /\ CachedEntry(k) \in Entries \cup {NoEntry}
           /\ CachedEntry(k) # NoEntry => /\ CachedEntry(k) = entries[k] /\ WellKinded(entries[k])
                                          /\ entries[k].kind = "response" /\ entries[k].hash \in Keys
<1>1. entries[k] # NoEntry => entries[k] \in Entries /\ WellKinded(entries[k])
  BY KnownEntries
<1> QED
  BY <1>1 DEF CachedEntry, WellKinded

\* A task that starts.
LEMMA StoreStarts ==
    ASSUME IndexInv, UNCHANGED setting, NEW t \in Tasks, BeginStore(t)
    PROVE  /\ IndexInv' /\ Others(t)
           /\ tasks'[t].pc = "lock_store" /\ tasks'[t].pending = {} /\ tasks'[t].version # 0
           /\ OwnHashes => tasks'[t].hash = tasks'[t].key
<1> USE DEF files, history
<1>1. /\ stored \in Nat /\ body \in [Keys -> Versions] /\ metadata \in [Keys -> Versions]
      /\ io_locks \in [Keys -> Tasks \cup {NoTask}]
  BY TypesOfState DEF IndexInv
<1> DEFINE v == stored + 1
<1>2. v \in Versions /\ v # 0 /\ v \in Nat
  BY <1>1 DEF Versions
<1>3. stored' = v
  BY DEF BeginStore
<1>4. PICK k \in Keys, old \in Keys :
        Set(t, [IdleTask EXCEPT !.pc = "lock_store", !.key = k, !.seenKey = old, !.seen = CachedEntry(old), !.at = clock,
                                !.version = v,
                                !.hash = IF CachedEntry(old) # NoEntry /\ old = k THEN CachedEntry(old).hash ELSE k])
  BY DEF BeginStore
<1> HIDE DEF v
<1> DEFINE seen == CachedEntry(old)
           h == IF seen # NoEntry /\ old = k THEN seen.hash ELSE k
           x == [IdleTask EXCEPT !.pc = "lock_store", !.key = k, !.seenKey = old, !.seen = seen, !.at = clock,
                                 !.version = v, !.hash = h]
<1>4a. /\ seen \in Entries \cup {NoEntry} /\ h \in Keys /\ (seen # NoEntry => WellKinded(seen))
       /\ OwnHashes => h = k
  BY CachedEntries DEF OwnHashes
<1>6. Set(t, x)
  BY <1>4
<1> HIDE DEF seen, h
<1>5. /\ x \in TaskStates /\ x.pc = "lock_store" /\ x.seen = seen /\ x.pending = {} /\ x.version = v
      /\ x.hash = h /\ x.key = k
  BY <1>2, <1>4a, KnownEntries, IdleFields DEF TaskStates, Pcs
<1> HIDE DEF x
<1>7. tasks' \in [Tasks -> TaskStates] /\ SeenInv' /\ tasks'[t] = x /\ \A u \in Tasks \ {t} : tasks'[u] = tasks[u]
  BY <1>4a, <1>5, <1>6, SetTask DEF Late
<1>8. /\ UNCHANGED <<setting, index, invalidations, hot, clock, strays>> /\ stored' \in Nat
      /\ body' \in [Keys -> Versions] /\ metadata' \in [Keys -> Versions] /\ io_locks' \in [Keys -> Tasks \cup {NoTask}]
  BY <1>1, <1>2, <1>3 DEF BeginStore
<1>9. IndexInv'
  BY <1>7, <1>8, TaskAndFiles
<1> QED
  BY <1>2, <1>4a, <1>5, <1>7, <1>9 DEF Others

\* A drop starts with the entry the lookup found, and locks its hash.
LEMMA DropStarts ==
    ASSUME IndexInv, UNCHANGED setting, NEW t \in Tasks, BeginDrop(t)
    PROVE  /\ IndexInv' /\ Others(t)
           /\ tasks'[t].pc = "lock_drop" /\ tasks'[t].pending = {} /\ tasks'[t].seen # NoEntry
           /\ tasks'[t].seen.hash # NoHash => tasks'[t].hash = tasks'[t].seen.hash
<1> USE DEF files, history
<1>1. /\ stored \in Nat /\ body \in [Keys -> Versions] /\ metadata \in [Keys -> Versions]
      /\ io_locks \in [Keys -> Tasks \cup {NoTask}]
  BY TypesOfState DEF IndexInv
<1>2. PICK k \in Keys :
        /\ entries[k] # NoEntry
        /\ Set(t, [IdleTask EXCEPT !.pc = "lock_drop", !.key = k, !.seen = entries[k],
                   !.hash = IF entries[k].hash = NoHash THEN k ELSE entries[k].hash])
  BY KnownEntries DEF BeginDrop
<1> DEFINE h == IF entries[k].hash = NoHash THEN k ELSE entries[k].hash
           x == [IdleTask EXCEPT !.pc = "lock_drop", !.key = k, !.seen = entries[k], !.hash = h]
<1>3. h \in Keys /\ (entries[k].hash # NoHash => h = entries[k].hash)
  BY <1>2, KnownEntries, EntryFields
<1> HIDE DEF h
<1>4. x \in TaskStates /\ x.pc = "lock_drop" /\ x.seen = entries[k] /\ x.pending = {} /\ x.hash = h
  BY <1>2, <1>3, KnownEntries, IdleFields DEF TaskStates, Pcs
<1>5. Set(t, x)
  BY <1>2 DEF h
<1> HIDE DEF x
<1>6. tasks' \in [Tasks -> TaskStates] /\ SeenInv' /\ tasks'[t] = x /\ \A u \in Tasks \ {t} : tasks'[u] = tasks[u]
  BY KnownEntries, <1>4, <1>5, SetTask DEF Late
<1>7. /\ UNCHANGED <<setting, index, invalidations, hot, clock, strays>> /\ stored' \in Nat
      /\ body' \in [Keys -> Versions] /\ metadata' \in [Keys -> Versions] /\ io_locks' \in [Keys -> Tasks \cup {NoTask}]
  BY <1>1 DEF BeginDrop
<1>8. IndexInv'
  BY <1>6, <1>7, TaskAndFiles
<1> QED
  BY <1>2, <1>3, <1>4, <1>6, <1>8 DEF Others

\* A revalidation starts with a response.
LEMMA RefreshStarts ==
    ASSUME IndexInv, UNCHANGED setting, NEW t \in Tasks, BeginRefresh(t)
    PROVE  IndexInv'
<1> USE DEF files, history
<1>1. /\ stored \in Nat /\ body \in [Keys -> Versions] /\ metadata \in [Keys -> Versions]
      /\ io_locks \in [Keys -> Tasks \cup {NoTask}]
  BY TypesOfState DEF IndexInv
<1>2. PICK k \in Keys, storable \in BOOLEAN :
        /\ entries[k] # NoEntry /\ entries[k].kind = "response"
        /\ Set(t, [IdleTask EXCEPT !.pc = IF storable THEN "lock_refresh" ELSE "unstorable",
                                   !.key = k, !.seenKey = k, !.seen = entries[k], !.at = clock])
  BY KnownEntries DEF BeginRefresh
<1> DEFINE to == IF storable THEN "lock_refresh" ELSE "unstorable"
           x == [IdleTask EXCEPT !.pc = to, !.key = k, !.seenKey = k, !.seen = entries[k], !.at = clock]
<1>3. to \in Pcs
  BY DEF Pcs
<1>4. Set(t, x)
  BY <1>2
<1> HIDE DEF to
<1>5. x \in TaskStates /\ x.seen = entries[k]
  BY <1>2, <1>3, KnownEntries, IdleFields DEF TaskStates
<1> HIDE DEF x
<1>6. tasks' \in [Tasks -> TaskStates] /\ SeenInv'
  BY <1>2, KnownEntries, <1>4, <1>5, SetTask
<1>7. /\ UNCHANGED <<setting, index, invalidations, hot, clock, strays>> /\ stored' \in Nat
      /\ body' \in [Keys -> Versions] /\ metadata' \in [Keys -> Versions] /\ io_locks' \in [Keys -> Tasks \cup {NoTask}]
  BY <1>1 DEF BeginRefresh
<1> QED
  BY <1>6, <1>7, TaskAndFiles

-----------------------------------------------------------------------------
(* Locks and files.                                                        *)

\* Taking the I/O lock of a hash.
LEMMA LockTaken ==
    ASSUME IndexInv, UNCHANGED setting, NEW t \in Tasks, NEW h, NEW to \in Pcs, LockIo(t, h, to),
           to \in Late => tasks[t].pc \in Late
    PROVE  IndexInv' /\ Goes(t, to, tasks[t].hash, tasks[t].pending)
<1> USE DEF files, history
<1>1. Goes(t, to, tasks[t].hash, tasks[t].pending)
  BY GotoGoes DEF LockIo
<1>2. /\ stored \in Nat /\ body \in [Keys -> Versions] /\ metadata \in [Keys -> Versions]
      /\ io_locks \in [Keys -> Tasks \cup {NoTask}]
  BY TypesOfState DEF IndexInv
<1>3. /\ UNCHANGED <<setting, index, invalidations, hot, clock, strays>> /\ stored' \in Nat
      /\ body' \in [Keys -> Versions] /\ metadata' \in [Keys -> Versions]
  BY <1>2 DEF LockIo
<1>4. io_locks' \in [Keys -> Tasks \cup {NoTask}]
  BY <1>2 DEF LockIo
<1> QED
  BY <1>1, <1>3, <1>4, TaskAndFiles DEF Goes

\* The hot state changes, and the task.
LEMMA HotAndTask ==
    ASSUME IndexInv, UNCHANGED <<setting, index, invalidations, body, metadata, io_locks, clock, stored, strays>>,
           hot' \in [Keys -> Times], tasks' \in [Tasks -> TaskStates], SeenInv'
    PROVE  IndexInv'
<1>1. /\ invalidations' \in SUBSET Times /\ clock' \in Times /\ stored' \in Nat /\ body' \in [Keys -> Versions]
      /\ io_locks' \in [Keys -> Tasks \cup {NoTask}] /\ metadata' \in [Keys -> Versions] /\ strays' \in SUBSET Keys
  BY TypesOfState DEF IndexInv
<1>2. Sound(TheIndex)' /\ VariantsAgree' /\ current_size_bytes' \in 0 .. MaxSize
  BY Untouched
<1> QED
  BY <1>1, <1>2, InvStep

\* The head of what was stored is kept; what the store drops stays pending,
\* unless the answer to a refresh cannot be built.
LEMMA HeadsStored ==
    ASSUME IndexInv, UNCHANGED setting, NEW t \in Tasks, StoreHead(t) \/ RefreshHead(t)
    PROVE  /\ IndexInv' /\ Others(t) /\ UNCHANGED <<entries, body, metadata, io_locks, strays>> /\ tasks'[t].pc = "unlock"
           /\ StoreHead(t) => tasks[t].pc = "store_head" /\ tasks'[t].pending = tasks[t].pending
<1> USE DEF files, history
<1>1. tasks[t] \in TaskStates /\ tasks[t].at \in Times
  BY TypesOfState, TaskFields DEF IndexInv
<1>2. hot' \in [Keys -> Times]
  <2>1. ForgetHot(tasks[t].gone) \in [Keys -> Times]
    BY ForgetHotType
  <2> QED
    BY <1>1, <2>1 DEF StoreHead, RefreshHead, StoreResponseHead
<1>3. UNCHANGED <<setting, index, invalidations, body, metadata, io_locks, clock, stored, strays>>
  BY DEF StoreHead, RefreshHead
<1>4. CASE Goto(t, "unlock")
  <2>1. Goes(t, "unlock", tasks[t].hash, tasks[t].pending)
    BY <1>4, GotoGoes DEF Pcs, Late
  <2>2. Others(t) /\ tasks'[t].pc = "unlock" /\ tasks'[t].pending = tasks[t].pending
    BY <2>1 DEF Goes, Others
  <2>3. IndexInv'
    BY <1>2, <1>3, <2>2, HotAndTask DEF Others
  <2> QED
    BY <1>3, <2>2, <2>3 DEF StoreHead, index
<1>5. CASE RefreshHead(t) /\ Set(t, [tasks[t] EXCEPT !.pc = "unlock", !.pending = {}])
  <2>1. Goes(t, "unlock", tasks[t].hash, {})
    BY <1>5, PendingGoes DEF Pcs, Late
  <2>2. Others(t) /\ tasks'[t].pc = "unlock"
    BY <2>1 DEF Goes, Others
  <2>3. IndexInv'
    BY <1>2, <1>3, <2>2, HotAndTask DEF Others
  <2> QED
    BY <1>3, <1>5, <2>2, <2>3 DEF StoreHead, RefreshHead, index
<1> QED
  BY <1>4, <1>5 DEF StoreHead, RefreshHead

\* The hot state of what was removed goes, its files stay pending.
LEMMA GoneForgotten ==
    ASSUME IndexInv, UNCHANGED setting, NEW t \in Tasks, ForgetGone(t)
    PROVE  /\ IndexInv' /\ Others(t) /\ UNCHANGED <<entries, body, metadata, io_locks, strays>> /\ tasks[t].pc = "forget"
           /\ tasks'[t].pc \in {"idle", "sweep"} /\ tasks'[t].pending = tasks[t].pending
           /\ tasks[t].pending # {} => tasks'[t].pc = "sweep"
<1> USE DEF files, history
<1>1. tasks[t] \in TaskStates /\ tasks[t].pending \in SUBSET Keys
  BY TypesOfState, TaskFields DEF IndexInv
<1>2. hot' \in [Keys -> Times]
  BY ForgetHotType DEF ForgetGone
<1>3. UNCHANGED <<setting, index, invalidations, body, metadata, io_locks, clock, stored, strays>> /\ tasks[t].pc = "forget"
  BY DEF ForgetGone
<1>4. /\ Others(t) /\ tasks'[t].pc \in {"idle", "sweep"} /\ tasks'[t].pending = tasks[t].pending
      /\ tasks[t].pending # {} => tasks'[t].pc = "sweep"
  BY <1>1, SweepSets DEF ForgetGone, Others
<1>5. IndexInv'
  BY <1>2, <1>3, <1>4, HotAndTask DEF Others
<1> QED
  BY <1>3, <1>4, <1>5 DEF index

\* A revalidation whose body cannot be read ends.
LEMMA UnstorableEnds ==
    ASSUME IndexInv, UNCHANGED setting, NEW t \in Tasks, UnstorableFails(t)
    PROVE  IndexInv'
<1> USE DEF files, history
<1>1. UNCHANGED <<setting, index, invalidations, hot, body, metadata, io_locks, clock, stored, strays>> /\ Set(t, IdleTask)
  BY DEF UnstorableFails
<1>2. tasks' \in [Tasks -> TaskStates] /\ SeenInv'
  BY <1>1, IdleFields, SetTask DEF Late
<1>3. hot' \in [Keys -> Times]
  BY <1>1, TypesOfState DEF IndexInv
<1> QED
  BY <1>1, <1>2, <1>3, HotAndTask

\* Steps on the files, the locks and the task only.
FileStep(t) ==
    \/ LockStore(t) \/ LockDrop(t) \/ LockRefresh(t) \/ RefreshFails(t)
    \/ Commit(t) \/ SweepCheck(t) \/ SweepDelete(t) \/ DropFiles(t) \/ BareFiles(t)

\* A change of files.
LEMMA FilesChange ==
    ASSUME IndexInv, UNCHANGED <<setting, index, invalidations, hot, io_locks, clock, history>>,
           NEW t \in Tasks, NEW to \in Pcs \ Late, Goto(t, to),
           body' \in [Keys -> Versions], metadata' \in [Keys -> Versions]
    PROVE  IndexInv' /\ Goes(t, to, tasks[t].hash, tasks[t].pending)
<1>1. Goes(t, to, tasks[t].hash, tasks[t].pending)
  BY GotoGoes
<1>2. stored \in Nat /\ io_locks \in [Keys -> Tasks \cup {NoTask}]
  BY TypesOfState DEF IndexInv
<1>3. /\ UNCHANGED <<setting, index, invalidations, hot, clock, strays>> /\ stored' \in Nat
      /\ io_locks' \in [Keys -> Tasks \cup {NoTask}]
  BY <1>2 DEF history
<1> QED
  BY <1>1, <1>3, TaskAndFiles DEF Goes

\* remove_cache_files_locked.
LEMMA FilesRemoved ==
    ASSUME IndexInv, NEW h, RemoveCacheFiles(h)
    PROVE  body' \in [Keys -> Versions] /\ metadata' \in [Keys -> Versions]
<1>1. body \in [Keys -> Versions] /\ metadata \in [Keys -> Versions] /\ 0 \in Versions
  BY TypesOfState DEF IndexInv, Versions
<1> QED
  BY <1>1 DEF RemoveCacheFiles

\* Where a step on files leads.
LEMMA FileStepGoes ==
    ASSUME IndexInv, UNCHANGED setting, NEW t \in Tasks, FileStep(t)
    PROVE  /\ IndexInv'
           /\ \E to \in Pcs : Goes(t, to, tasks[t].hash, tasks[t].pending)
           /\ LockStore(t) => Goes(t, "commit", tasks[t].hash, tasks[t].pending)
           /\ LockDrop(t) => Goes(t, "drop", tasks[t].hash, tasks[t].pending)
           /\ SweepDelete(t) \/ DropFiles(t) => Goes(t, "unlock", tasks[t].hash, tasks[t].pending)
           /\ Commit(t) /\ ~setting.io_fails => Goes(t, "index_store", tasks[t].hash, tasks[t].pending)
           /\ SweepCheck(t) => IF HashIsReferenced(tasks[t].hash)
                               THEN Goes(t, "unlock", tasks[t].hash, tasks[t].pending)
                               ELSE Goes(t, "delete", tasks[t].hash, tasks[t].pending)
<1> DEFINE G(to) == Goes(t, to, tasks[t].hash, tasks[t].pending)
<1> USE DEF files, history
<1>0. /\ body \in [Keys -> Versions] /\ metadata \in [Keys -> Versions] /\ tasks[t] \in TaskStates
      /\ 0 \in Versions
  BY TypesOfState DEF IndexInv, Versions
<1>1. CASE LockStore(t)
  <2>1. tasks[t].pc = "lock_store" /\ LockIo(t, tasks[t].hash, "commit")
    BY <1>1 DEF LockStore
  <2>2. IndexInv' /\ G("commit")
    BY <2>1, LockTaken DEF Pcs, Late
  <2> QED
    BY <2>1, <2>2 DEF LockDrop, SweepDelete, DropFiles, Commit, SweepCheck, Pcs
<1>2. CASE LockDrop(t)
  <2>1. tasks[t].pc = "lock_drop" /\ LockIo(t, tasks[t].hash, "drop")
    BY <1>2 DEF LockDrop
  <2>2. IndexInv' /\ G("drop")
    BY <2>1, LockTaken DEF Pcs, Late
  <2> QED
    BY <2>1, <2>2 DEF LockStore, SweepDelete, DropFiles, Commit, SweepCheck, Pcs
<1>3. CASE LockRefresh(t)
  <2>1. tasks[t].pc = "lock_refresh" /\ LockIo(t, tasks[t].seen.hash, "refresh")
    BY <1>3 DEF LockRefresh
  <2>2. IndexInv' /\ G("refresh")
    BY <2>1, LockTaken DEF Pcs, Late
  <2> QED
    BY <2>1, <2>2 DEF LockStore, LockDrop, SweepDelete, DropFiles, Commit, SweepCheck, Pcs
<1>4. CASE Commit(t)
  <2>1. tasks[t].pc = "commit" /\ UNCHANGED <<setting, index, invalidations, hot, io_locks, clock, history>>
    BY <1>4 DEF Commit
  <2>2. body' \in [Keys -> Versions] /\ metadata' \in [Keys -> Versions]
    BY <1>0, <1>4, TaskFields DEF Commit
  <2>3. PICK to \in {"index_store", "unlock"} : Goto(t, to) /\ (~setting.io_fails => to = "index_store")
    BY <1>4 DEF Commit
  <2>4. IndexInv' /\ G(to)
    BY <2>1, <2>2, <2>3, FilesChange DEF Pcs, Late
  <2> QED
    BY <2>1, <2>3, <2>4 DEF LockStore, LockDrop, SweepDelete, DropFiles, SweepCheck, Pcs
<1>5. CASE SweepCheck(t)
  <2> DEFINE to == IF HashIsReferenced(tasks[t].hash) THEN "unlock" ELSE "delete"
  <2>1. /\ tasks[t].pc = "check" /\ UNCHANGED <<setting, index, invalidations, hot, io_locks, clock, history>>
        /\ Goto(t, to) /\ body' \in [Keys -> Versions] /\ metadata' \in [Keys -> Versions]
    BY <1>0, <1>5 DEF SweepCheck
  <2>2. to \in Pcs \ Late /\ (HashIsReferenced(tasks[t].hash) => to = "unlock")
        /\ (~HashIsReferenced(tasks[t].hash) => to = "delete")
    BY DEF Pcs, Late
  <2> HIDE DEF to
  <2>3. IndexInv' /\ G(to)
    BY <2>1, <2>2, FilesChange
  <2> QED
    BY <2>1, <2>2, <2>3 DEF LockStore, LockDrop, SweepDelete, DropFiles, Commit
<1>6. CASE SweepDelete(t) \/ DropFiles(t) \/ BareFiles(t)
  <2>1. /\ tasks[t].pc \in {"delete", "drop_files", "bare_files"} /\ Goto(t, "unlock")
        /\ UNCHANGED <<setting, index, invalidations, hot, io_locks, clock, history>>
        /\ RemoveCacheFiles(tasks[t].hash) \/ RemoveCacheFiles(tasks[t].seen.hash)
    BY <1>6 DEF SweepDelete, DropFiles, BareFiles
  <2>2. body' \in [Keys -> Versions] /\ metadata' \in [Keys -> Versions]
    BY <2>1, FilesRemoved
  <2>3. IndexInv' /\ G("unlock")
    BY <2>1, <2>2, FilesChange DEF Pcs, Late
  <2> QED
    BY <2>1, <2>3 DEF LockStore, LockDrop, Commit, SweepCheck, Pcs
<1>7. CASE RefreshFails(t)
  <2>1. /\ tasks[t].pc = "refresh" /\ Goto(t, "unlock")
        /\ UNCHANGED <<setting, index, invalidations, hot, io_locks, clock, history>>
        /\ body' \in [Keys -> Versions] /\ metadata' \in [Keys -> Versions]
    BY <1>0, <1>7 DEF RefreshFails
  <2>2. IndexInv' /\ G("unlock")
    BY <2>1, FilesChange DEF Pcs, Late
  <2> QED
    BY <2>1, <2>2 DEF LockStore, LockDrop, SweepDelete, DropFiles, Commit, SweepCheck, Pcs
<1> QED
  BY <1>1, <1>2, <1>3, <1>4, <1>5, <1>6, <1>7 DEF FileStep

\* A task lets its locks go and keeps what it has to delete.
LEMMA Unlocked ==
    ASSUME IndexInv, UNCHANGED setting, NEW t \in Tasks, Unlock(t)
    PROVE  /\ IndexInv' /\ Others(t) /\ tasks'[t].pc \in {"idle", "sweep"} /\ tasks'[t].pending = tasks[t].pending
           /\ tasks[t].pending # {} => tasks'[t].pc = "sweep"
<1> USE DEF files, history
<1>1. /\ stored \in Nat /\ body \in [Keys -> Versions] /\ metadata \in [Keys -> Versions]
      /\ io_locks \in [Keys -> Tasks \cup {NoTask}] /\ tasks[t] \in TaskStates
  BY TypesOfState DEF IndexInv
<1>2. tasks[t].pending \in SUBSET Keys /\ Sweep(t, tasks[t].pending)
  BY <1>1, TaskFields DEF Unlock
<1>3. /\ Others(t) /\ tasks'[t].pc \in {"idle", "sweep"} /\ tasks'[t].pending = tasks[t].pending
      /\ tasks[t].pending # {} => tasks'[t].pc = "sweep"
  BY <1>2, SweepSets DEF Others
<1>4. /\ UNCHANGED <<setting, index, invalidations, hot, clock, strays>> /\ stored' \in Nat
      /\ body' \in [Keys -> Versions] /\ metadata' \in [Keys -> Versions] /\ io_locks' \in [Keys -> Tasks \cup {NoTask}]
  BY <1>1 DEF Unlock
<1> QED
  BY <1>3, <1>4, TaskAndFiles DEF Others

\* A sweep takes the lock of one of the hashes it has to look at.
LEMMA SweepLocked ==
    ASSUME IndexInv, UNCHANGED setting, NEW t \in Tasks, SweepLock(t)
    PROVE  /\ IndexInv' /\ Others(t) /\ tasks'[t].pc = "check"
           /\ \E h \in tasks[t].pending : /\ io_locks[h] = NoTask /\ io_locks' = [io_locks EXCEPT ![h] = t]
                                          /\ tasks'[t].hash = h /\ tasks'[t].pending = tasks[t].pending \ {h}
<1> USE DEF files, history
<1>1. /\ stored \in Nat /\ body \in [Keys -> Versions] /\ metadata \in [Keys -> Versions]
      /\ io_locks \in [Keys -> Tasks \cup {NoTask}] /\ tasks[t] \in TaskStates
  BY TypesOfState DEF IndexInv
<1>2. PICK h \in tasks[t].pending :
        /\ io_locks[h] = NoTask /\ io_locks' = [io_locks EXCEPT ![h] = t]
        /\ Set(t, [tasks[t] EXCEPT !.pc = "check", !.hash = h, !.pending = @ \ {h}])
  BY DEF SweepLock
<1> DEFINE p == tasks[t].pending \ {h}
           x == [tasks[t] EXCEPT !.pc = "check", !.hash = h, !.pending = p]
<1>3. h \in Keys /\ p \in SUBSET Keys
  BY <1>1, <1>2, TaskFields
<1>4. Set(t, x)
  BY <1>2
<1> HIDE DEF p
<1>5. /\ x \in TaskStates /\ x.pc = "check" /\ x.hash = h /\ x.pending = p /\ x.key = tasks[t].key
      /\ x.seen = tasks[t].seen /\ x.version = tasks[t].version
  BY <1>1, <1>3 DEF TaskStates, Pcs
<1> HIDE DEF x
<1>6. Goes(t, x.pc, x.hash, x.pending)
  BY <1>4, <1>5, GoOn DEF Late
<1>7. /\ UNCHANGED <<setting, index, invalidations, hot, clock, strays>> /\ stored' \in Nat
      /\ body' \in [Keys -> Versions] /\ metadata' \in [Keys -> Versions]
  BY <1>1 DEF SweepLock
<1>8. io_locks' \in [Keys -> Tasks \cup {NoTask}]
  BY <1>1, <1>2
<1>9. IndexInv'
  BY <1>6, <1>7, <1>8, TaskAndFiles DEF Goes
<1> QED
  BY <1>2, <1>5, <1>6, <1>9 DEF Goes, Others, p

-----------------------------------------------------------------------------
(* Removals and stores.                                                    *)

\* Live entries name hashes of keys.
LEMMA HashesOfLive ==
    ASSUME IndexInv, NEW ks \in SUBSET Live(TheIndex)
    PROVE  Hashes(TheIndex, ks) \in SUBSET Keys
<1>1. \A k \in ks : TheIndex.entries[k].hash \in Keys \cup {NoHash}
  BY KnownEntries, EntryFields
<1> QED
  BY <1>1 DEF Hashes

\* The entries of ks go, their files are to be looked at.
Removed(t, ks) ==
    /\ ks \in SUBSET Keys /\ SetIndex(RemoveEntries(TheIndex, ks)) /\ hot' \in [Keys -> Times]
    /\ UNCHANGED <<invalidations, body, metadata, io_locks, clock, stored, strays>>
    /\ Others(t)

\* A removal keeps the invariant.
LEMMA RemovedInv ==
    ASSUME IndexInv, UNCHANGED setting, NEW t, NEW ks, Removed(t, ks)
    PROVE  IndexInv'
<1>1. Sound(TheIndex)' /\ VariantsAgree' /\ current_size_bytes' \in 0 .. MaxSize
  BY RemovedFits DEF Removed
<1>2. hot' \in [Keys -> Times]
  BY DEF Removed
<1>3. metadata' \in [Keys -> Versions] /\ strays' \in SUBSET Keys
  BY TypesOfState DEF Removed, IndexInv
<1>4. UNCHANGED <<setting, invalidations, body, io_locks, clock, stored>> /\ tasks' \in [Tasks -> TaskStates] /\ SeenInv'
  BY DEF Removed, Others
<1> QED
  BY <1>1, <1>2, <1>3, <1>4, IndexAndTask

\* Purges and cleanups.
LEMMA PurgeRemoves ==
    ASSUME IndexInv, UNCHANGED setting, NEW t \in Tasks, Purge(t) \/ CleanupInactive(t)
    PROVE  /\ IndexInv' /\ tasks[t].pc = "idle" /\ tasks'[t].pc = "forget"
           /\ \E ks \in SUBSET Live(TheIndex) : Removed(t, ks) /\ tasks'[t].pending = Hashes(TheIndex, ks)
<1> USE DEF files, history
<1>1. PICK ks \in SUBSET Live(TheIndex) :
        SetIndex(RemoveEntries(TheIndex, ks)) /\ Forget(t, ks, Hashes(TheIndex, ks))
  BY DEF Purge, CleanupInactive
<1>2. Hashes(TheIndex, ks) \in SUBSET Keys
  BY HashesOfLive
<1>5. ks \in SUBSET Keys
  BY <1>1 DEF Live
<1>3. Others(t) /\ tasks'[t].pc = "forget" /\ tasks'[t].pending = Hashes(TheIndex, ks)
  BY <1>1, <1>2, <1>5, ForgetSets
<1>4. UNCHANGED <<invalidations, hot, body, metadata, io_locks, clock, stored, strays>> /\ tasks[t].pc = "idle"
  BY DEF Purge, CleanupInactive
<1>4a. hot' \in [Keys -> Times]
  BY <1>4, TypesOfState DEF IndexInv
<1>6. Removed(t, ks)
  BY <1>1, <1>3, <1>4, <1>4a, <1>5 DEF Removed
<1> QED
  BY <1>1, <1>3, <1>4, <1>6, RemovedInv

\* A drop removes the entry it saw, or nothing.
LEMMA DropRemoves ==
    ASSUME IndexInv, UNCHANGED <<setting, invalidations, body, metadata, io_locks, clock, stored, strays>>,
           NEW t \in Tasks, NEW next \in Pcs \ Late, RemoveIfMatches(t, next)
    PROVE  /\ IndexInv'
           /\ \E to \in {next, "unlock"} :
                /\ Goes(t, to, tasks[t].hash, tasks[t].pending)
                /\ \/ /\ to = "unlock" /\ UNCHANGED <<index, hot>>
                   \/ /\ StableEq(entries[tasks[t].key], tasks[t].seen) /\ Removed(t, {tasks[t].key})
                      /\ to = IF /\ tasks[t].seen.hash # NoHash
                                 /\ RemoveEntries(TheIndex, {tasks[t].key}).refs[tasks[t].seen.hash] = 0
                              THEN next ELSE "unlock"
<1>0. tasks[t] \in TaskStates /\ tasks[t].key \in Keys
  BY TypesOfState, TaskFields DEF IndexInv
<1>1. CASE StableEq(entries[tasks[t].key], tasks[t].seen)
  <2> DEFINE k == tasks[t].key
             to == IF tasks[t].seen.hash # NoHash /\ RemoveEntries(TheIndex, {k}).refs[tasks[t].seen.hash] = 0
                   THEN next ELSE "unlock"
  <2>1. SetIndex(RemoveEntries(TheIndex, {k})) /\ hot' = ForgetHot({k}) /\ Goto(t, to)
    BY <1>1 DEF RemoveIfMatches, RemoveEntry
  <2>2. to \in Pcs \ Late /\ to \in {next, "unlock"}
    BY DEF Pcs, Late
  <2>3. Goes(t, to, tasks[t].hash, tasks[t].pending)
    <3> HIDE DEF to
    <3> QED
      BY <2>1, <2>2, GotoGoes
  <2>4. Removed(t, {k})
    BY <1>0, <2>1, <2>3, ForgetHotType DEF Removed, Others, Goes
  <2> QED
    BY <1>1, <2>2, <2>3, <2>4, RemovedInv
<1>2. CASE ~StableEq(entries[tasks[t].key], tasks[t].seen)
  <2>1. Goto(t, "unlock") /\ UNCHANGED <<index, hot>>
    BY <1>2 DEF RemoveIfMatches
  <2>2. Goes(t, "unlock", tasks[t].hash, tasks[t].pending)
    BY <2>1, GotoGoes DEF Pcs, Late
  <2>3. /\ stored' \in Nat /\ body' \in [Keys -> Versions] /\ metadata' \in [Keys -> Versions]
        /\ io_locks' \in [Keys -> Tasks \cup {NoTask}]
    BY TypesOfState DEF IndexInv
  <2>4. IndexInv'
    BY <2>1, <2>2, <2>3, TaskAndFiles DEF Goes
  <2> QED
    BY <2>1, <2>2, <2>4
<1> QED
  BY <1>1, <1>2

\* A store of e under k.
StoredAs(t, k, e, o) ==
    /\ k \in Keys /\ e \in Entries /\ WellKinded(e)
    /\ \E s \in Keys : \E seen \in Entries \cup {NoEntry} : o \in StoreOutcomes(k, e, s, seen)
    /\ SetIndex(o.idx) /\ hot' \in [Keys -> Times] /\ strays' \in SUBSET Keys /\ metadata' \in [Keys -> Versions]
    /\ UNCHANGED <<invalidations, body, io_locks, clock, stored>>
    /\ Others(t)

\* A store keeps the invariant.
LEMMA StoredInv ==
    ASSUME IndexInv, UNCHANGED setting, NEW t, NEW k, NEW e, NEW o, StoredAs(t, k, e, o)
    PROVE  IndexInv'
<1>1. PICK s \in Keys, seen \in Entries \cup {NoEntry} : o \in StoreOutcomes(k, e, s, seen)
  BY DEF StoredAs
<1>2. Sound(TheIndex)' /\ VariantsAgree' /\ current_size_bytes' \in 0 .. MaxSize
  BY <1>1, StoredFits DEF StoredAs
<1>3. /\ UNCHANGED <<setting, invalidations, body, io_locks, clock, stored>> /\ metadata' \in [Keys -> Versions]
      /\ tasks' \in [Tasks -> TaskStates] /\ SeenInv' /\ hot' \in [Keys -> Times] /\ strays' \in SUBSET Keys
  BY DEF StoredAs, Others
<1> QED
  BY <1>2, <1>3, IndexAndTask

\* The index update of a store or of a refresh.
EntryStored(t, k, e, next) ==
    \E o : /\ StoredAs(t, k, e, o) /\ tasks'[t].pc = next /\ tasks'[t].pending = o.pending
           /\ strays' = IF o.idx.entries[k] = e THEN strays \ {e.hash} ELSE strays \cup {e.hash}

LEMMA StoreEntryStores ==
    ASSUME IndexInv, NEW t \in Tasks, NEW k \in Keys, NEW e \in Entries, WellKinded(e), e.hash \in Keys,
           NEW seen \in Entries \cup {NoEntry}, NEW next \in Pcs \ Late, StoreEntry(t, k, e, seen, next),
           UNCHANGED <<setting, invalidations, hot, body, io_locks, clock, stored>>, metadata' \in [Keys -> Versions]
    PROVE  IndexInv' /\ EntryStored(t, k, e, next)
<1>0. tasks[t] \in TaskStates /\ tasks[t].seenKey \in Keys
  BY TypesOfState, TaskFields DEF IndexInv
<1>1. PICK o \in StoreOutcomes(k, e, tasks[t].seenKey, seen) :
        /\ SetIndex(o.idx)
        /\ strays' = IF o.idx.entries[k] = e THEN strays \ {e.hash} ELSE strays \cup {e.hash}
        /\ Set(t, [tasks[t] EXCEPT !.pc = next, !.key = k, !.hash = e.hash, !.at = e.last_access,
                                   !.pending = o.pending, !.gone = o.gone])
  BY DEF StoreEntry
<1>2. o.pending \in SUBSET Keys /\ o.gone \in SUBSET Keys /\ e.last_access \in Times
  BY <1>0, <1>1, StoredFits, EntryFields
<1>3. Others(t) /\ tasks'[t].pc = next /\ tasks'[t].pending = o.pending
  BY <1>1, <1>2, StoreSets
<1>4. hot' \in [Keys -> Times]
  BY TypesOfState DEF IndexInv
<1>5. strays' \in SUBSET Keys
  BY <1>1, TypesOfState DEF IndexInv
<1>6. StoredAs(t, k, e, o)
  BY <1>0, <1>1, <1>3, <1>4, <1>5 DEF StoredAs
<1> QED
  BY <1>1, <1>3, <1>6, StoredInv DEF EntryStored

\* The dimensions upstreams answer with.
LEMMA DimsOfSetting ==
    ASSUME IndexInv
    PROVE  setting.dims \in SUBSET Dims
  BY TypesOfState DEF IndexInv, SettingType

\* A store indexes the version it committed, under its own hash.
LEMMA IndexStoreStores ==
    ASSUME IndexInv, UNCHANGED setting, NEW t \in Tasks, IndexStore(t)
    PROVE  /\ IndexInv' /\ tasks[t].pc = "index_store" /\ UNCHANGED metadata
           /\ tasks'[t].pc = "store_head"
           /\ \E o, e : /\ StoredAs(t, tasks[t].key, e, o) /\ tasks'[t].pending = o.pending
                        /\ e.hash = tasks[t].hash /\ e.version = tasks[t].version /\ e.kind = "response"
                        /\ strays' = IF o.idx.entries[tasks[t].key] = e
                                     THEN strays \ {e.hash} ELSE strays \cup {e.hash}
<1>0. tasks[t] \in TaskStates
  BY TypesOfState DEF IndexInv
<1>1. /\ tasks[t].key \in Keys /\ tasks[t].at \in Times /\ tasks[t].version \in Versions
      /\ tasks[t].hash \in Keys /\ tasks[t].seen \in Entries \cup {NoEntry}
  BY <1>0, TaskFields
<1>2. PICK d \in setting.dims :
        StoreEntry(t, tasks[t].key, [kind |-> "response", hash |-> tasks[t].hash, dims |-> d,
                           stored_at |-> tasks[t].at, last_access |-> tasks[t].at,
                           version |-> tasks[t].version], tasks[t].seen, "store_head")
  BY DEF IndexStore
<1> DEFINE e == [kind |-> "response", hash |-> tasks[t].hash, dims |-> d,
                 stored_at |-> tasks[t].at, last_access |-> tasks[t].at, version |-> tasks[t].version]
<1>3. d \in Dims
  BY <1>2, DimsOfSetting
<1>4. e \in Entries /\ e.kind = "response" /\ e.hash = tasks[t].hash /\ e.version = tasks[t].version /\ WellKinded(e)
  BY <1>1, <1>3 DEF Entries, WellKinded
<1>5. StoreEntry(t, tasks[t].key, e, tasks[t].seen, "store_head") /\ "store_head" \in Pcs \ Late
  BY <1>2 DEF Pcs, Late
<1>6. UNCHANGED <<setting, invalidations, hot, body, io_locks, clock, stored>> /\ UNCHANGED metadata /\ tasks[t].pc = "index_store"
  BY DEF IndexStore, files
<1>7. metadata' \in [Keys -> Versions]
  BY <1>6, TypesOfState DEF IndexInv
<1> HIDE DEF e
<1>8. IndexInv' /\ EntryStored(t, tasks[t].key, e, "store_head")
  <2>1. e.hash \in Keys
    BY <1>1, <1>4
  <2> QED
    BY <1>1, <1>4, <1>5, <1>6, <1>7, <2>1, StoreEntryStores
<1> QED
  BY <1>4, <1>6, <1>8 DEF EntryStored

\* A refresh stores a response again.
LEMMA RefreshStores ==
    ASSUME IndexInv, UNCHANGED setting, NEW t \in Tasks, Refresh(t)
    PROVE  IndexInv'
<1> DEFINE e == tasks[t].seen
<1>0. tasks[t] \in TaskStates /\ metadata \in [Keys -> Versions]
  BY TypesOfState DEF IndexInv
<1>1. e # NoEntry /\ e.kind = "response" /\ WellKinded(e)
  BY DEF IndexInv, SeenInv, Refresh
<1>2. e \in Entries
  BY <1>0, <1>1, TaskFields
<1>3. e.version \in Versions /\ e.hash \in Keys
  BY <1>1, <1>2, EntryFields DEF WellKinded
<1>4. metadata' \in [Keys -> Versions]
  BY <1>0, <1>3 DEF Refresh
<1>5. PICK k \in Keys, d \in setting.dims, now \in Arrivals(t) :
        StoreEntry(t, k, [e EXCEPT !.dims = d, !.stored_at = now, !.last_access = now],
                   IF k = tasks[t].key THEN NoEntry ELSE e, "refresh_head")
  BY DEF Refresh
<1> DEFINE fresh == [e EXCEPT !.dims = d, !.stored_at = now, !.last_access = now]
           seen == IF k = tasks[t].key THEN NoEntry ELSE e
<1>6. d \in Dims /\ now \in Times
  BY <1>5, DimsOfSetting DEF Arrivals
<1>7. fresh \in Entries /\ fresh.kind = e.kind /\ fresh.hash = e.hash
  BY <1>2, <1>6 DEF Entries
<1>8. seen \in Entries \cup {NoEntry}
  BY <1>2
<1>9. StoreEntry(t, k, fresh, seen, "refresh_head") /\ "refresh_head" \in Pcs \ Late
  BY <1>5 DEF Pcs, Late
<1>10. UNCHANGED <<setting, invalidations, hot, body, io_locks, clock, stored>>
  BY DEF Refresh
<1> HIDE DEF fresh, seen
<1>11. WellKinded(fresh) /\ fresh.hash \in Keys
  BY <1>1, <1>3, <1>7 DEF WellKinded
<1> QED
  BY <1>4, <1>7, <1>8, <1>9, <1>10, <1>11, StoreEntryStores

\* A hit-for-pass mark has no hash.
LEMMA PassStores ==
    ASSUME IndexInv, UNCHANGED setting, NEW t \in Tasks, RememberHitForPass(t)
    PROVE  /\ IndexInv' /\ tasks[t].pc \in {"lock_store", "unstorable"} /\ tasks'[t].pc = "forget"
           /\ UNCHANGED <<metadata, strays>>
           /\ \E k, o, e : /\ StoredAs(t, k, e, o) /\ tasks'[t].pending = o.pending
                           /\ e.hash = NoHash /\ e.kind = "pass"
<1> USE DEF files, history
<1>0. tasks[t] \in TaskStates
  BY TypesOfState DEF IndexInv
<1>0a. PICK k \in Keys, s \in Keys, seen \in Entries \cup {NoEntry} :
         k = tasks[t].key /\ s = tasks[t].seenKey /\ seen = tasks[t].seen
  BY <1>0, TaskFields
<1>1. PICK d \in setting.dims, now \in Arrivals(t) :
        \E o \in StoreOutcomes(k, [kind |-> "pass", hash |-> NoHash, dims |-> d, stored_at |-> now,
                                   last_access |-> now, version |-> 0], s, seen) :
          SetIndex(o.idx) /\ Forget(t, o.gone, o.pending)
  BY <1>0a DEF RememberHitForPass
<1> DEFINE e == [kind |-> "pass", hash |-> NoHash, dims |-> d, stored_at |-> now,
                 last_access |-> now, version |-> 0]
<1>2. PICK o \in StoreOutcomes(k, e, s, seen) : SetIndex(o.idx) /\ Forget(t, o.gone, o.pending)
  BY <1>1
<1>3. d \in Dims /\ now \in Times /\ 0 \in Versions
  BY <1>1, DimsOfSetting DEF Versions, Arrivals
<1>4. e \in Entries /\ e.kind = "pass" /\ e.hash = NoHash /\ WellKinded(e)
  BY <1>3 DEF Entries, WellKinded
<1> HIDE DEF e
<1>5. o.pending \in SUBSET Keys /\ o.gone \in SUBSET Keys
  BY <1>2, <1>4, StoredFits
<1>6. Others(t) /\ tasks'[t].pc = "forget" /\ tasks'[t].pending = o.pending
  BY <1>2, <1>5, ForgetSets
<1>7. /\ UNCHANGED <<invalidations, hot, body, metadata, io_locks, clock, stored, strays>>
      /\ tasks[t].pc \in {"lock_store", "unstorable"}
  BY DEF RememberHitForPass
<1>8. hot' \in [Keys -> Times] /\ metadata' \in [Keys -> Versions] /\ strays' \in SUBSET Keys
  BY <1>7, TypesOfState DEF IndexInv
<1>9. StoredAs(t, k, e, o)
  BY <1>2, <1>3, <1>4, <1>6, <1>7, <1>8 DEF StoredAs
<1> QED
  BY <1>4, <1>6, <1>7, <1>9, StoredInv

-----------------------------------------------------------------------------
(* Steps of no task.                                                       *)

\* What a hit writes to the index is only the time of the access.
LEMMA AccessFields ==
    ASSUME IndexInv, NEW k \in Keys, Access(k)
    PROVE  /\ entries' \in [Keys -> Entries \cup {NoEntry}]
           /\ \A j \in Keys : \/ entries'[j] = entries[j]
                              \/ /\ entries[j] # NoEntry /\ entries'[j] # NoEntry
                                 /\ entries'[j].kind = entries[j].kind /\ entries'[j].hash = entries[j].hash
                                 /\ entries'[j].dims = entries[j].dims /\ entries'[j].version = entries[j].version
<1>1. entries[k] # NoEntry /\ entries[k] \in Entries /\ clock \in Times
  BY KnownEntries DEF Access, Servable
<1> DEFINE a == [entries[k] EXCEPT !.last_access = clock]
<1>2. /\ a \in Entries /\ a.kind = entries[k].kind /\ a.hash = entries[k].hash /\ a.dims = entries[k].dims
      /\ a.version = entries[k].version
  BY <1>1 DEF Entries
<1>3. a # NoEntry
  BY <1>2, CacheStoreAssumption
<1>4. entries' = entries \/ entries' = [entries EXCEPT ![k] = a]
  BY DEF Access
<1> HIDE DEF a
<1> QED
  BY <1>1, <1>2, <1>3, <1>4, KnownEntries

\* A hit keeps the invariant.
LEMMA AccessInv ==
    ASSUME IndexInv, UNCHANGED setting, NEW k \in Keys, Access(k)
    PROVE  IndexInv'
<1> USE DEF files, history
<1>1. /\ entries' \in [Keys -> Entries \cup {NoEntry}]
      /\ \A j \in Keys : \/ entries'[j] = entries[j]
                         \/ /\ entries[j] # NoEntry /\ entries'[j] # NoEntry
                            /\ entries'[j].kind = entries[j].kind /\ entries'[j].hash = entries[j].hash
                            /\ entries'[j].dims = entries[j].dims /\ entries'[j].version = entries[j].version
  BY AccessFields
<1> DEFINE i == TheIndex
           n == TheIndex'
<1>2. /\ i.entries = entries /\ n.entries = entries' /\ n.variants = i.variants /\ n.scheduled = i.scheduled
      /\ n.size = i.size /\ n.refs = i.refs /\ i.size = current_size_bytes
  BY DEF TheIndex, Access
<1>3. Sound(i) /\ VariantsAgree /\ current_size_bytes \in 0 .. MaxSize
  BY DEF IndexInv, TypeOK
<1>3a. \A j1, j2 \in Live(i) : entries[j1].dims = entries[j2].dims
  BY <1>3 DEF VariantsAgree
<1> HIDE DEF i, n
<1>4. Live(n) = Live(i) /\ Live(i) \in SUBSET Keys
  BY <1>1, <1>2 DEF Live
<1>5. \A j \in Live(i) : /\ n.entries[j].kind = i.entries[j].kind /\ n.entries[j].hash = i.entries[j].hash
                         /\ n.entries[j].dims = i.entries[j].dims
  BY <1>1, <1>2, <1>4
<1>6. \A j \in Live(i) : Bytes(j, i.entries[j]) = Bytes(j, n.entries[j])
  BY <1>5 DEF Bytes
<1>7. SizeOf(i, Live(i)) = SizeOf(n, Live(n))
  BY <1>4, <1>6, SameBytes
<1>8. \A h : Referring(n, h) = Referring(i, h)
  BY <1>4, <1>5 DEF Referring
<1>9. \A j \in Live(n) : WellKinded(n.entries[j])
  BY <1>3, <1>4, <1>5 DEF Sound, WellKinded
<1>10. Sound(n)
  BY <1>1, <1>2, <1>3, <1>4, <1>7, <1>8, <1>9 DEF Sound
<1>11. VariantsAgree'
  BY <1>2, <1>3a, <1>4, <1>5 DEF VariantsAgree, n
<1>12. /\ UNCHANGED <<setting, invalidations, body, metadata, io_locks, clock, stored, strays, tasks>>
       /\ current_size_bytes' \in 0 .. MaxSize
  BY <1>3 DEF Access
<1>13. hot' \in [Keys -> Times]
  BY TypesOfState DEF IndexInv, Access
<1>14. /\ tasks' \in [Tasks -> TaskStates] /\ SeenInv' /\ metadata' \in [Keys -> Versions] /\ strays' \in SUBSET Keys
  BY <1>12, TypesOfState DEF IndexInv, SeenInv
<1> QED
  BY <1>10, <1>11, <1>12, <1>13, <1>14, IndexAndTask DEF n

\* Steps that leave the index, the files and the tasks alone.
LEMMA QuietInv ==
    ASSUME IndexInv, UNCHANGED <<setting, index, body, metadata, io_locks, tasks, stored, strays>>,
           hot' \in [Keys -> Times], invalidations' \in SUBSET Times, clock' \in Times
    PROVE  IndexInv'
<1>1. Sound(TheIndex)' /\ VariantsAgree' /\ current_size_bytes' \in 0 .. MaxSize
  BY Untouched
<1>2. /\ tasks' \in [Tasks -> TaskStates] /\ metadata' \in [Keys -> Versions] /\ strays' \in SUBSET Keys
      /\ body' \in [Keys -> Versions] /\ io_locks' \in [Keys -> Tasks \cup {NoTask}] /\ stored' \in Nat
  BY TypesOfState DEF IndexInv
<1>3. SeenInv'
  BY DEF IndexInv, SeenInv
<1> QED
  BY <1>1, <1>2, <1>3, InvStep

\* Invalidation rules and time.
LEMMA OperatorInv ==
    ASSUME IndexInv, UNCHANGED setting, Invalidate \/ ClearInvalidations \/ Tick
    PROVE  IndexInv' /\ UNCHANGED <<index, body, metadata, io_locks, tasks, strays>>
<1> USE DEF files, history
<1>1. clock \in Times /\ invalidations \in SUBSET Times /\ hot \in [Keys -> Times]
  BY TypesOfState DEF IndexInv
<1>2. UNCHANGED <<index, body, metadata, io_locks, tasks, stored, strays>>
  BY DEF Invalidate, ClearInvalidations, Tick
<1>3. hot' \in [Keys -> Times]
  BY <1>1, ForgetHotType DEF Invalidate, ClearInvalidations, Tick
<1>4. invalidations' \in SUBSET Times
  BY <1>1 DEF Invalidate, ClearInvalidations, Tick
<1>5. clock' \in Times
  BY <1>1, CacheStoreAssumption DEF Invalidate, ClearInvalidations, Tick, Times
<1> QED
  BY <1>2, <1>3, <1>4, <1>5, QuietInv

-----------------------------------------------------------------------------
\* An empty zone.
LEMMA IndexInvInit == Init => IndexInv
<1> SUFFICES ASSUME Init PROVE IndexInv
  OBVIOUS
<1> USE DEF Init
<1>1. Live(TheIndex) = {} /\ TheIndex.entries = [k \in Keys |-> NoEntry] /\ TheIndex.size = 0
      /\ TheIndex.refs = [k \in Keys |-> 0] /\ TheIndex.variants = {} /\ TheIndex.scheduled = {}
  BY DEF Live, TheIndex
<1>2. SizeOf(TheIndex, {}) = 0
  <2>1. BytesOf(TheIndex, {}) = {}
    BY DEF BytesOf
  <2> QED
    BY <2>1, FS_EmptySet DEF SizeOf, BytesOf
<1>3. \A h \in Keys : Cardinality(Referring(TheIndex, h)) = 0
  <2>1. \A h \in Keys : Referring(TheIndex, h) = {}
    BY <1>1 DEF Referring
  <2> QED
    BY <2>1, FS_EmptySet
<1>4. Sound(TheIndex)
  BY <1>1, <1>2, <1>3 DEF Sound
<1>5. VariantsAgree
  BY <1>1 DEF VariantsAgree
<1>6. tasks \in [Tasks -> TaskStates] /\ SeenInv
  BY IdleFields DEF SeenInv
<1>7. Cardinality(Keys) \in Nat /\ 0 \in Times /\ MaxSize \in Nat
  BY CacheStoreAssumption, FS_CardinalityType DEF Times
<1>8. TypeOK
  BY <1>6, <1>7 DEF TypeOK, Versions
<1> QED
  BY <1>4, <1>5, <1>6, <1>8 DEF IndexInv

\* Every step keeps the invariant of the index.
LEMMA IndexInvKept == IndexInv /\ [Next]_vars => IndexInv'
<1> SUFFICES ASSUME IndexInv, [Next]_vars PROVE IndexInv'
  OBVIOUS
<1>1. CASE UNCHANGED vars
  <2>1. UNCHANGED <<setting, index, body, metadata, io_locks, tasks, stored, strays, hot, invalidations, clock>>
    BY <1>1 DEF vars, files, history
  <2>2. hot' \in [Keys -> Times] /\ invalidations' \in SUBSET Times /\ clock' \in Times
    BY <2>1, TypesOfState DEF IndexInv
  <2> QED
    BY <2>1, <2>2, QuietInv
<1>2. CASE Next
  <2>1. UNCHANGED setting
    BY <1>2 DEF Next
  <2>2. ASSUME NEW t \in Tasks, TaskStep(t) PROVE IndexInv'
    <3>1. CASE FileStep(t)
      BY <2>1, <3>1, FileStepGoes
    <3>2. CASE BeginStore(t) \/ BeginDrop(t) \/ BeginRefresh(t)
      BY <2>1, <3>2, StoreStarts, DropStarts, RefreshStarts
    <3>3. CASE Unlock(t) \/ SweepLock(t)
      BY <2>1, <3>3, Unlocked, SweepLocked
    <3>4. CASE Purge(t) \/ CleanupInactive(t)
      BY <2>1, <3>4, PurgeRemoves
    <3>5. CASE DropEntry(t) \/ DropUnstorable(t)
      <4>1. PICK next \in {"drop_files", "bare_files"} : RemoveIfMatches(t, next)
        BY <3>5 DEF DropEntry, DropUnstorable
      <4>2. UNCHANGED <<setting, invalidations, body, metadata, io_locks, clock, stored, strays>>
        BY <2>1, <3>5 DEF DropEntry, DropUnstorable, files, history
      <4> QED
        BY <4>1, <4>2, DropRemoves DEF Pcs, Late
    <3>6. CASE IndexStore(t) \/ Refresh(t) \/ RememberHitForPass(t)
      BY <2>1, <3>6, IndexStoreStores, RefreshStores, PassStores
    <3>7. CASE StoreHead(t) \/ RefreshHead(t) \/ ForgetGone(t) \/ UnstorableFails(t)
      BY <2>1, <3>7, HeadsStored, GoneForgotten, UnstorableEnds
    <3> QED
      BY <2>2, <3>1, <3>2, <3>3, <3>4, <3>5, <3>6, <3>7 DEF TaskStep, FileStep
  <2>3. ASSUME NEW k \in Keys, Access(k) PROVE IndexInv'
    BY <2>1, <2>3, AccessInv
  <2>4. CASE Invalidate \/ ClearInvalidations \/ Tick
    BY <2>1, <2>4, OperatorInv
  <2> QED
    BY <1>2, <2>2, <2>3, <2>4 DEF Next
<1> QED
  BY <1>1, <1>2

\* Whatever is stored, evicted, refreshed, purged and dropped in whatever
\* order: index, schedule, variants, byte count and reference counts agree,
\* the zone is within its size and its variants have the same dimensions.
THEOREM IndexIsConsistent == Spec => []IndexConsistent
<1>1. IndexInv => IndexConsistent
  <2> SUFFICES ASSUME IndexInv PROVE IndexConsistent
    OBVIOUS
  <2>1. PartsAgree
    BY DEF IndexInv, Sound, PartsAgree, TheIndex, Referring
  <2> QED
    BY <2>1 DEF IndexInv, IndexConsistent
<1> QED
  BY <1>1, IndexInvInit, IndexInvKept, PTL DEF Spec

-----------------------------------------------------------------------------
(* Steps and the disk.                                                     *)

\* When every response is under its own hash, a hash is referenced exactly
\* when its key has a response.
LEMMA ReferencedOnce ==
    ASSUME NEW idx, Sound(idx), NEW h \in Keys,
           \A k \in Keys : idx.entries[k] # NoEntry /\ idx.entries[k].kind = "response" => idx.entries[k].hash = k
    PROVE  idx.refs[h] > 0 <=> (idx.entries[h] # NoEntry /\ idx.entries[h].kind = "response")
<1>0. \A k \in Live(idx) : WellKinded(idx.entries[k]) /\ idx.entries[k] # NoEntry /\ k \in Keys
  BY DEF Sound, Live
<1>1. \A k \in Referring(idx, h) : k = h /\ idx.entries[h] # NoEntry /\ idx.entries[h].kind = "response"
  BY <1>0, CacheStoreAssumption DEF Referring, WellKinded
<1>2. idx.entries[h] # NoEntry /\ idx.entries[h].kind = "response" => h \in Referring(idx, h)
  BY DEF Referring, Live
<1>3. idx.refs[h] = Cardinality(Referring(idx, h))
  BY DEF Sound
<1>4. CASE idx.entries[h] # NoEntry /\ idx.entries[h].kind = "response"
  <2>1. Referring(idx, h) = {h}
    BY <1>1, <1>2, <1>4
  <2>2. Cardinality({h}) = 1
    BY FS_Singleton, Zenon
  <2>3. idx.refs[h] = 1
    BY <1>3, <2>1, <2>2
  <2> QED
    BY <1>4, <2>3
<1>5. CASE ~(idx.entries[h] # NoEntry /\ idx.entries[h].kind = "response")
  <2>1. Referring(idx, h) = {}
    BY <1>1, <1>5
  <2> QED
    BY <1>3, <1>5, <2>1, FS_EmptySet
<1> QED
  BY <1>4, <1>5

\* hash_is_referenced asks whether the key of the hash has a response.
LEMMA ReferencedIsIndexed ==
    ASSUME IndexInv, OwnHashes, NEW h \in Keys
    PROVE  HashIsReferenced(h) <=> IsIndexed(h)
<1>1. TheIndex.entries = entries /\ TheIndex.refs = hash_ref_counts
  BY DEF TheIndex
<1>2. TheIndex.refs[h] > 0 <=> (TheIndex.entries[h] # NoEntry /\ TheIndex.entries[h].kind = "response")
  BY <1>1, ReferencedOnce DEF IndexInv, OwnHashes
<1> QED
  BY <1>1, <1>2 DEF HashIsReferenced, IsIndexed

\* The locks that others hold stay theirs.
LocksKept(t) == \A h \in Keys, u \in Tasks \ {t} : io_locks[h] = u => io_locks'[h] = u

\* A step of one task leaves the others as they were.
LEMMA OthersOk ==
    ASSUME TasksInv, NEW t \in Tasks, Others(t), LocksKept(t), TaskOk(t)'
    PROVE  TasksInv'
<1>1. ASSUME NEW u \in Tasks \ {t} PROVE TaskOk(u)'
  <2>1. tasks'[u] = tasks[u] /\ TaskOk(u)
    BY DEF Others, TasksInv
  <2>2. \A h \in Keys : Holds(u, h)' => io_locks'[h] = u
    BY <2>1 DEF Holds, TaskOk, LocksKept
  <2> QED
    BY <2>1, <2>2 DEF TaskOk
<1> QED
  BY <1>1 DEF TasksInv

\* A task that works on files has the lock alone.
LEMMA LockedAlone ==
    ASSUME TasksInv, NEW t \in Tasks, NEW u \in Tasks, NEW h \in Keys, Holds(t, h), Holds(u, h)
    PROVE  t = u
  BY DEF TasksInv, TaskOk

\* A step that changes entries and its task, and leaves the files alone.
LEMMA IndexSteps ==
    ASSUME IndexInv, Disk, NEW t \in Tasks, Others(t), LocksKept(t), TaskOk(t)', UNCHANGED <<body, metadata>>,
           tasks'[t].pc # "index_store",
           \A j \in Keys : \/ entries'[j] = NoEntry
                           \/ entries'[j] = entries[j] /\ ~Storing(t, j)
                           \/ entries'[j].kind = "pass"
                           \/ /\ Storing(t, j) /\ entries'[j].hash = j
                              /\ entries'[j].version = tasks[t].version,
           \A h \in Keys : Deleting(t, h)' => ~IsIndexed(h)',
           \A h \in Keys \ strays' : body[h] # 0 /\ ~IsIndexed(h)' =>
              h \notin strays /\ (IsIndexed(h) \/ Attending(t, h) => Attending(t, h)')
    PROVE  Disk'
<1>0. /\ OwnHashes /\ TasksInv /\ FilesInv /\ OrphansInv
      /\ \A u \in Tasks \ {t} : tasks'[u] = tasks[u]
      /\ "pass" # "response"
  BY DEF Disk, Others
<1>1. OwnHashes'
  <2> SUFFICES ASSUME NEW j \in Keys, entries'[j] # NoEntry, entries'[j].kind = "response" PROVE entries'[j].hash = j
    BY DEF OwnHashes
  <2> QED
    BY <1>0 DEF OwnHashes
<1>2. TasksInv'
  BY <1>0, OthersOk
<1>3. ASSUME NEW k \in Keys, IsIndexed(k)'
      PROVE  FilesAre(k, entries[k].version)' \/ \E u \in Tasks : Storing(u, k)'
  <2>1. CASE entries'[k] = entries[k] /\ ~Storing(t, k)
    <3>1. IsIndexed(k)
      BY <1>3, <2>1 DEF IsIndexed
    <3>2. CASE FilesAre(k, entries[k].version)
      BY <2>1, <3>2 DEF FilesAre
    <3>3. CASE \E u \in Tasks : Storing(u, k)
      BY <1>0, <2>1, <3>3 DEF Storing
    <3> QED
      BY <1>0, <3>1, <3>2, <3>3 DEF FilesInv
  <2>2. CASE Storing(t, k) /\ entries'[k].version = tasks[t].version
    BY <1>0, <2>2 DEF FilesInv, FilesAre
  <2> QED
    BY <1>0, <1>3, <2>1, <2>2 DEF IsIndexed
<1>4. ASSUME NEW u \in Tasks, NEW h \in Keys, Storing(u, h)' PROVE FilesAre(h, tasks[u].version)'
  <2>1. u # t /\ Storing(u, h) /\ tasks'[u] = tasks[u]
    BY <1>0, <1>4 DEF Storing
  <2> QED
    BY <1>0, <2>1 DEF FilesInv, FilesAre
<1>5. ASSUME NEW u \in Tasks, NEW h \in Keys, Deleting(u, h)', IsIndexed(h)' PROVE FALSE
  <2>1. u # t
    BY <1>5
  <2>2. Deleting(u, h)
    BY <1>0, <1>5, <2>1 DEF Deleting
  <2>3. ~IsIndexed(h)
    BY <1>0, <2>2 DEF FilesInv
  <2>4. Storing(t, h)
    BY <1>0, <1>5, <2>3 DEF IsIndexed
  <2>5. Holds(t, h) /\ Holds(u, h)
    BY <2>2, <2>4 DEF Holds, Storing, Deleting
  <2> QED
    BY <1>0, <2>1, <2>5, LockedAlone
<1>6. FilesInv'
  BY <1>3, <1>4, <1>5 DEF FilesInv
<1>7. ASSUME NEW h \in Keys \ strays', body'[h] # 0, ~IsIndexed(h)' PROVE \E u \in Tasks : Attending(u, h)'
  <2>1. h \notin strays /\ body[h] # 0 /\ (IsIndexed(h) \/ Attending(t, h) => Attending(t, h)')
    BY <1>7
  <2>2. CASE IsIndexed(h)
    BY <2>1, <2>2
  <2>3. CASE ~IsIndexed(h)
    <3>1. PICK u \in Tasks : Attending(u, h)
      BY <1>0, <2>1, <2>3 DEF OrphansInv
    <3>2. CASE u = t
      BY <2>1, <3>1, <3>2
    <3>3. CASE u # t
      BY <1>0, <3>1, <3>3 DEF Attending, Storing, Deleting
    <3> QED
      BY <3>2, <3>3
  <2> QED
    BY <2>2, <2>3
<1>8. OrphansInv'
  BY <1>7 DEF OrphansInv
<1> QED
  BY <1>1, <1>2, <1>6, <1>8 DEF Disk

\* A step of a task on the files of k, whose lock it has.
LEMMA FileSteps ==
    ASSUME IndexInv, Disk, NEW t \in Tasks, Others(t), TaskOk(t)', UNCHANGED <<entries, io_locks, strays>>,
           NEW k \in Keys, Holds(t, k), tasks[t].pc # "index_store",
           \A h \in Keys \ {k} : body'[h] = body[h] /\ metadata'[h] = metadata[h],
           \A h \in Keys : Storing(t, h)' => h = k /\ FilesAre(k, tasks[t].version)',
           \A h \in Keys : ~Deleting(t, h)',
           IsIndexed(k) \/ body'[k] # 0 => Storing(t, k)',
           \A h \in Keys \ {k} : Attending(t, h) => Attending(t, h)'
    PROVE  Disk'
<1>0. /\ OwnHashes /\ TasksInv /\ FilesInv /\ OrphansInv
      /\ \A u \in Tasks \ {t} : tasks'[u] = tasks[u]
      /\ \A h \in Keys : IsIndexed(h)' <=> IsIndexed(h)
  BY DEF Disk, Others, IsIndexed
<1>1. OwnHashes'
  BY <1>0 DEF OwnHashes
<1>2. TasksInv'
  BY <1>0, OthersOk DEF LocksKept
<1>3. ASSUME NEW j \in Keys, IsIndexed(j)'
      PROVE  FilesAre(j, entries[j].version)' \/ \E u \in Tasks : Storing(u, j)'
  <2>1. CASE j = k
    BY <1>0, <1>3, <2>1
  <2>2. CASE j # k
    <3>1. CASE FilesAre(j, entries[j].version)
      BY <2>2, <3>1 DEF FilesAre
    <3>2. CASE \E u \in Tasks : Storing(u, j)
      BY <1>0, <3>2 DEF Storing
    <3> QED
      BY <1>0, <1>3, <3>1, <3>2 DEF FilesInv
  <2> QED
    BY <2>1, <2>2
<1>4. ASSUME NEW u \in Tasks, NEW h \in Keys, Storing(u, h)' PROVE FilesAre(h, tasks[u].version)'
  <2>1. CASE u = t
    BY <1>4, <2>1
  <2>2. CASE u # t
    <3>1. Storing(u, h) /\ tasks'[u] = tasks[u] /\ Holds(u, h)
      BY <1>0, <1>4, <2>2 DEF Storing, Holds
    <3>2. h # k
      BY <1>0, <2>2, <3>1, LockedAlone
    <3> QED
      BY <1>0, <3>1, <3>2 DEF FilesInv, FilesAre
  <2> QED
    BY <2>1, <2>2
<1>5. ASSUME NEW u \in Tasks, NEW h \in Keys, Deleting(u, h)' PROVE ~IsIndexed(h)'
  <2>1. u # t
    BY <1>5
  <2>2. Deleting(u, h)
    BY <1>0, <1>5, <2>1 DEF Deleting
  <2> QED
    BY <1>0, <2>2 DEF FilesInv
<1>6. FilesInv'
  BY <1>3, <1>4, <1>5 DEF FilesInv
<1>7. ASSUME NEW h \in Keys \ strays', body'[h] # 0, ~IsIndexed(h)' PROVE \E u \in Tasks : Attending(u, h)'
  <2>1. CASE h = k
    BY <1>7, <2>1 DEF Attending
  <2>2. CASE h # k
    <3>1. PICK u \in Tasks : Attending(u, h)
      BY <1>0, <1>7, <2>2 DEF OrphansInv
    <3>2. CASE u = t
      BY <2>2, <3>1, <3>2
    <3>3. CASE u # t
      BY <1>0, <3>1, <3>3 DEF Attending, Storing, Deleting
    <3> QED
      BY <3>2, <3>3
  <2> QED
    BY <2>1, <2>2
<1>8. OrphansInv'
  BY <1>7 DEF OrphansInv
<1> QED
  BY <1>1, <1>2, <1>6, <1>8 DEF Disk

\* A step that leaves files, entries and tasks as they are, but for the time
\* of an access.
LEMMA IdleSteps ==
    ASSUME Disk, UNCHANGED <<tasks, io_locks, body, metadata, strays>>,
           \A j \in Keys : \/ entries'[j] = entries[j]
                           \/ /\ entries[j] # NoEntry /\ entries'[j] # NoEntry
                              /\ entries'[j].kind = entries[j].kind /\ entries'[j].hash = entries[j].hash
                              /\ entries'[j].version = entries[j].version
    PROVE  Disk'
<1>0. /\ OwnHashes /\ TasksInv /\ FilesInv /\ OrphansInv
      /\ \A h \in Keys : IsIndexed(h)' <=> IsIndexed(h)
      /\ \A h \in Keys : IsIndexed(h) => entries'[h].version = entries[h].version /\ entries'[h].hash = entries[h].hash
  BY DEF Disk, IsIndexed
<1>1. OwnHashes'
  BY <1>0 DEF OwnHashes, IsIndexed
<1>2. TasksInv'
  BY <1>0 DEF TasksInv, TaskOk, Holds
<1>3. FilesInv'
  BY <1>0 DEF FilesInv, FilesAre, Storing, Deleting
<1>4. OrphansInv'
  BY <1>0 DEF OrphansInv, Attending, Storing, Deleting
<1> QED
  BY <1>1, <1>2, <1>3, <1>4 DEF Disk

\* A step of a task on its own state and on locks.
LEMMA TaskSteps ==
    ASSUME IndexInv, Disk, NEW t \in Tasks, Others(t), LocksKept(t), TaskOk(t)',
           UNCHANGED <<entries, body, metadata, strays>>,
           tasks[t].pc # "index_store", tasks'[t].pc # "index_store",
           \A h \in Keys : Deleting(t, h)' => ~IsIndexed(h),
           \A h \in Keys : ~IsIndexed(h) /\ Attending(t, h) => Attending(t, h)'
    PROVE  Disk'
<1>1. \A j \in Keys : entries'[j] = entries[j] /\ ~Storing(t, j) /\ (IsIndexed(j)' <=> IsIndexed(j))
  BY DEF Storing, IsIndexed
<1>2. UNCHANGED <<body, metadata>> /\ strays' = strays
  OBVIOUS
<1> QED
  BY <1>1, <1>2, IndexSteps

\* A lock that is taken was free.
LEMMA LockFree ==
    ASSUME IndexInv, NEW t \in Tasks, NEW h \in Keys, io_locks[h] = NoTask, io_locks' = [io_locks EXCEPT ![h] = t]
    PROVE  /\ LocksKept(t) /\ io_locks'[h] = t /\ \A j \in Keys : io_locks[j] = t => io_locks'[j] = t
<1>1. io_locks \in [Keys -> Tasks \cup {NoTask}]
  BY TypesOfState DEF IndexInv
<1> QED
  BY <1>1, CacheStoreAssumption DEF LocksKept

\* Tasks that start attend to nothing yet.
LEMMA DiskOfStarts ==
    ASSUME IndexInv, Disk, UNCHANGED setting, NEW t \in Tasks, BeginStore(t) \/ BeginDrop(t)
    PROVE  Disk'
<1> USE DEF files, history
<1>1. TaskOk(t) /\ OwnHashes
  BY DEF Disk, TasksInv
<1>2. /\ tasks[t].pc = "idle" /\ UNCHANGED <<body, metadata, strays, index, io_locks>>
  BY DEF BeginStore, BeginDrop
<1>3. UNCHANGED entries /\ LocksKept(t)
  BY <1>2 DEF index, LocksKept
<1>4. /\ Others(t) /\ tasks'[t].pc \in {"lock_store", "lock_drop"} /\ tasks'[t].pending = {}
      /\ tasks'[t].pc = "lock_store" => tasks'[t].version # 0 /\ tasks'[t].hash = tasks'[t].key
      /\ tasks'[t].pc = "lock_drop" => /\ tasks'[t].seen # NoEntry
                                       /\ tasks'[t].seen.hash # NoHash => tasks'[t].hash = tasks'[t].seen.hash
  BY <1>1, StoreStarts, DropStarts
<1>5. TaskOk(t)'
  BY <1>4 DEF TaskOk, Holds
<1>6. \A h \in Keys : ~Attending(t, h) /\ ~Deleting(t, h)'
  BY <1>1, <1>2, <1>4 DEF TaskOk, Attending, Storing, Deleting
<1> QED
  BY <1>2, <1>3, <1>4, <1>5, <1>6, TaskSteps

\* Tasks that wait for a lock get it.
LEMMA DiskOfLocks ==
    ASSUME IndexInv, Disk, UNCHANGED setting, NEW t \in Tasks, LockStore(t) \/ LockDrop(t)
    PROVE  Disk'
<1> USE DEF files, history
<1>0. tasks[t] \in TaskStates /\ TaskOk(t)
  BY TypesOfState DEF IndexInv, Disk, TasksInv
<1>0a. tasks[t].key \in Keys /\ tasks[t].hash \in Keys
  BY <1>0, TaskFields
<1> DEFINE h == tasks[t].hash
<1>1. /\ tasks[t].pc \in {"lock_store", "lock_drop"} /\ UNCHANGED <<body, metadata, strays, index>>
      /\ h \in Keys /\ io_locks[h] = NoTask /\ io_locks' = [io_locks EXCEPT ![h] = t]
  BY <1>0a DEF LockStore, LockDrop, LockIo
<1>2. \/ tasks[t].pc = "lock_store" /\ Goes(t, "commit", tasks[t].hash, tasks[t].pending)
      \/ tasks[t].pc = "lock_drop" /\ Goes(t, "drop", tasks[t].hash, tasks[t].pending)
  BY FileStepGoes DEF FileStep, LockStore, LockDrop
<1>2a. h = tasks[t].hash
  OBVIOUS
<1> HIDE DEF h
<1>3. LocksKept(t) /\ io_locks'[h] = t
  BY <1>1, LockFree
<1>4. UNCHANGED entries
  BY <1>1 DEF index
<1>5. /\ Others(t) /\ tasks'[t].pc \in {"commit", "drop"} /\ tasks'[t].pending = {}
      /\ tasks'[t].seen = tasks[t].seen /\ tasks'[t].hash = tasks[t].hash /\ tasks'[t].version = tasks[t].version
      /\ tasks'[t].key = tasks[t].key
      /\ tasks'[t].pc = "commit" => tasks[t].pc = "lock_store"
      /\ tasks'[t].pc = "drop" => tasks[t].pc = "lock_drop"
  BY <1>0, <1>1, <1>2 DEF Goes, Others, TaskOk
<1>6. TaskOk(t)'
  BY <1>0, <1>2a, <1>3, <1>5 DEF TaskOk, Holds
<1>7. \A j \in Keys : ~Attending(t, j) /\ ~Deleting(t, j)'
  BY <1>0, <1>1, <1>5 DEF TaskOk, Attending, Storing, Deleting
<1> QED
  BY <1>1, <1>3, <1>4, <1>5, <1>6, <1>7, TaskSteps

\* What a task has to look at outlives its lock.
LEMMA DiskOfUnlock ==
    ASSUME IndexInv, Disk, UNCHANGED setting, NEW t \in Tasks, Unlock(t)
    PROVE  Disk'
<1> USE DEF files, history
<1>1. tasks[t].pc = "unlock" /\ UNCHANGED <<body, metadata, strays, index>>
  BY DEF Unlock
<1>2. UNCHANGED entries
  BY <1>1 DEF index
<1>3. LocksKept(t)
  BY DEF Unlock, LocksKept
<1>4. /\ Others(t) /\ tasks'[t].pc \in {"idle", "sweep"} /\ tasks'[t].pending = tasks[t].pending
      /\ tasks[t].pending # {} => tasks'[t].pc = "sweep"
  BY Unlocked
<1>5. TaskOk(t)'
  BY <1>4 DEF TaskOk, Holds
<1>6. \A h \in Keys : ~Deleting(t, h)' /\ (Attending(t, h) => Attending(t, h)')
  BY <1>1, <1>4 DEF Attending, Storing, Deleting
<1> QED
  BY <1>1, <1>2, <1>3, <1>4, <1>5, <1>6, TaskSteps

\* A pending hash becomes the one that is checked.
LEMMA DiskOfSweepLock ==
    ASSUME IndexInv, Disk, UNCHANGED setting, NEW t \in Tasks, SweepLock(t)
    PROVE  Disk'
<1> USE DEF files, history
<1>0. tasks[t] \in TaskStates
  BY TypesOfState DEF IndexInv
<1>1. tasks[t].pc = "sweep" /\ UNCHANGED <<body, metadata, strays, index>>
  BY DEF SweepLock
<1>2. UNCHANGED entries
  BY <1>1 DEF index
<1>3. Others(t) /\ tasks'[t].pc = "check"
  BY SweepLocked
<1>4. PICK h \in tasks[t].pending :
        /\ io_locks[h] = NoTask /\ io_locks' = [io_locks EXCEPT ![h] = t]
        /\ tasks'[t].hash = h /\ tasks'[t].pending = tasks[t].pending \ {h}
  BY SweepLocked
<1>5. h \in Keys
  BY <1>0, TaskFields
<1>6. LocksKept(t) /\ io_locks'[h] = t
  BY <1>4, <1>5, LockFree
<1>7. TaskOk(t)'
  BY <1>3, <1>4, <1>6 DEF TaskOk, Holds
<1>8. \A j \in Keys : ~Deleting(t, j)' /\ (Attending(t, j) => Attending(t, j)')
  BY <1>1, <1>3, <1>4 DEF Attending, Storing, Deleting
<1> QED
  BY <1>1, <1>2, <1>3, <1>6, <1>7, <1>8, TaskSteps

\* The files are deleted exactly when the hash is not referenced.
LEMMA DiskOfCheck ==
    ASSUME IndexInv, Disk, UNCHANGED setting, NEW t \in Tasks, SweepCheck(t)
    PROVE  Disk'
<1> USE DEF files, history
<1>0. tasks[t] \in TaskStates /\ TaskOk(t) /\ OwnHashes
  BY TypesOfState DEF IndexInv, Disk, TasksInv
<1>1. tasks[t].pc = "check" /\ UNCHANGED <<body, metadata, strays, index, io_locks>>
  BY DEF SweepCheck
<1>2. UNCHANGED entries /\ LocksKept(t)
  BY <1>1 DEF index, LocksKept
<1>3. tasks[t].hash \in Keys
  BY <1>0, TaskFields
<1>4. HashIsReferenced(tasks[t].hash) <=> IsIndexed(tasks[t].hash)
  BY <1>0, <1>3, ReferencedIsIndexed
<1>5. /\ Others(t) /\ tasks'[t].pc \in {"unlock", "delete"} /\ tasks'[t].pending = tasks[t].pending
      /\ tasks'[t].hash = tasks[t].hash
      /\ tasks'[t].pc = "delete" <=> ~IsIndexed(tasks[t].hash)
  BY <1>4, FileStepGoes DEF FileStep, Goes, Others
<1>6. TaskOk(t)'
  BY <1>0, <1>1, <1>5 DEF TaskOk, Holds
<1>7. \A h \in Keys : (Deleting(t, h)' => ~IsIndexed(h)) /\ (~IsIndexed(h) /\ Attending(t, h) => Attending(t, h)')
  BY <1>1, <1>5 DEF Attending, Storing, Deleting
<1> QED
  BY <1>1, <1>2, <1>5, <1>6, <1>7, TaskSteps

\* A commit writes both files, under the lock of their hash.
LEMMA DiskOfCommit ==
    ASSUME IndexInv, Disk, UNCHANGED setting, ~setting.io_fails, NEW t \in Tasks, Commit(t)
    PROVE  Disk' /\ \A h \in Keys : body[h] # 0 => body'[h] # 0
<1> USE DEF files, history
<1>0. /\ tasks[t] \in TaskStates /\ TaskOk(t)
      /\ body \in [Keys -> Versions] /\ metadata \in [Keys -> Versions]
  BY TypesOfState DEF IndexInv, Disk, TasksInv
<1>1. PICK k \in Keys, v \in Versions : k = tasks[t].hash /\ v = tasks[t].version
  BY <1>0, TaskFields
<1>2. /\ tasks[t].pc = "commit" /\ UNCHANGED <<strays, index, io_locks>>
      /\ body' = [body EXCEPT ![k] = v] /\ metadata' = [metadata EXCEPT ![k] = v]
  BY <1>1 DEF Commit
<1>3. v # 0 /\ tasks[t].pending = {} /\ tasks[t].key = k
  BY <1>0, <1>1, <1>2 DEF TaskOk
<1>4. /\ Others(t) /\ tasks'[t].pc = "index_store" /\ tasks'[t].pending = {} /\ tasks'[t].key = k
      /\ tasks'[t].hash = k /\ tasks'[t].version = v
  BY <1>1, <1>3, FileStepGoes DEF FileStep, Goes, Others
<1>5. UNCHANGED entries
  BY <1>2 DEF index
<1>6. Holds(t, k) /\ Storing(t, k)' /\ \A h \in Keys : ~Attending(t, h) /\ ~Deleting(t, h)' /\ (Storing(t, h)' => h = k)
  BY <1>1, <1>2, <1>3, <1>4 DEF Holds, Attending, Storing, Deleting
<1>7. /\ body'[k] = v /\ metadata'[k] = v
      /\ \A h \in Keys \ {k} : body'[h] = body[h] /\ metadata'[h] = metadata[h]
  BY <1>0, <1>1, <1>2
<1>8. TaskOk(t)'
  BY <1>0, <1>1, <1>2, <1>3, <1>4 DEF TaskOk, Holds
<1>9. FilesAre(k, tasks[t].version)'
  BY <1>4, <1>7 DEF FilesAre
<1>10. Disk'
  <2>1. tasks[t].pc # "index_store" /\ UNCHANGED <<entries, io_locks, strays>>
    BY <1>2, <1>5
  <2>2. /\ \A h \in Keys : Storing(t, h)' => h = k /\ FilesAre(k, tasks[t].version)'
        /\ \A h \in Keys : ~Deleting(t, h)'
        /\ \A h \in Keys \ {k} : Attending(t, h) => Attending(t, h)'
        /\ IsIndexed(k) \/ body'[k] # 0 => Storing(t, k)'
    BY <1>6, <1>9
  <2>3. Others(t) /\ Holds(t, k) /\ \A h \in Keys \ {k} : body'[h] = body[h] /\ metadata'[h] = metadata[h]
    BY <1>4, <1>6, <1>7
  <2> QED
    BY <1>1, <1>8, <2>1, <2>2, <2>3, FileSteps
<1> QED
  BY <1>3, <1>7, <1>10

\* A deletion hits files that no entry refers to.
LEMMA DiskOfDelete ==
    ASSUME IndexInv, Disk, UNCHANGED setting, NEW t \in Tasks, SweepDelete(t) \/ DropFiles(t)
    PROVE  Disk' /\ \A h \in Keys : body[h] # 0 /\ body'[h] = 0 => ~IsIndexed(h)
<1> USE DEF files, history
<1>0. /\ tasks[t] \in TaskStates /\ TaskOk(t) /\ FilesInv
      /\ body \in [Keys -> Versions] /\ metadata \in [Keys -> Versions]
  BY TypesOfState DEF IndexInv, Disk, TasksInv
<1> DEFINE k == tasks[t].hash
<1>1. k \in Keys
  BY <1>0, TaskFields
<1>2. tasks[t].pc \in {"delete", "drop_files"} /\ UNCHANGED <<strays, index, io_locks>> /\ RemoveCacheFiles(k)
  BY <1>0 DEF SweepDelete, DropFiles, TaskOk
<1>3. Holds(t, k) /\ Deleting(t, k)
  BY <1>2 DEF Holds, Deleting
<1>4. ~IsIndexed(k)
  BY <1>0, <1>1, <1>3 DEF FilesInv
<1>5. Others(t) /\ tasks'[t].pc = "unlock" /\ tasks'[t].pending = tasks[t].pending
  BY FileStepGoes DEF FileStep, Goes, Others
<1>6. UNCHANGED entries
  BY <1>2 DEF index
<1>7. body'[k] = 0 /\ \A h \in Keys \ {k} : body'[h] = body[h] /\ metadata'[h] = metadata[h]
  BY <1>0, <1>1, <1>2 DEF RemoveCacheFiles
<1>8. TaskOk(t)'
  BY <1>5 DEF TaskOk, Holds
<1>9. \A h \in Keys : ~Storing(t, h)' /\ ~Deleting(t, h)'
  BY <1>5 DEF Storing, Deleting
<1>10. \A h \in Keys \ {k} : Attending(t, h) => Attending(t, h)'
  BY <1>2, <1>5 DEF Attending, Storing, Deleting
<1> HIDE DEF k
<1>11. Disk'
  <2>1. tasks[t].pc # "index_store"
    BY <1>2
  <2> QED
    BY <1>1, <1>2, <1>3, <1>4, <1>5, <1>6, <1>7, <1>8, <1>9, <1>10, <2>1, FileSteps
<1> QED
  BY <1>4, <1>7, <1>11

\* The entries after a removal.
LEMMA EntriesRemoved ==
    ASSUME IndexInv, NEW t, NEW ks, Removed(t, ks)
    PROVE  \A k \in Keys : entries'[k] = IF k \in ks THEN NoEntry ELSE entries[k]
<1>1. TheIndex.entries = entries /\ Sound(TheIndex) /\ ks \in SUBSET Keys
  BY DEF TheIndex, IndexInv, Removed
<1>2. entries' = RemoveEntries(TheIndex, ks).entries
  BY DEF Removed, SetIndex
<1>3. \A k \in Keys : RemoveEntries(TheIndex, ks).entries[k] = IF k \in ks THEN NoEntry ELSE TheIndex.entries[k]
  BY <1>1, RemovedSound
<1> QED
  BY <1>1, <1>2, <1>3

\* The hashes of what a purge or a cleanup removes are pending.
LEMMA DiskOfPurge ==
    ASSUME IndexInv, Disk, UNCHANGED setting, NEW t \in Tasks, Purge(t) \/ CleanupInactive(t)
    PROVE  Disk'
<1>0. TaskOk(t) /\ OwnHashes
  BY DEF Disk, TasksInv
<1>1. tasks[t].pc = "idle" /\ tasks'[t].pc = "forget"
  BY PurgeRemoves
<1>2. PICK ks \in SUBSET Live(TheIndex) : Removed(t, ks) /\ tasks'[t].pending = Hashes(TheIndex, ks)
  BY PurgeRemoves
<1>3. \A k \in Keys : entries'[k] = IF k \in ks THEN NoEntry ELSE entries[k]
  BY <1>2, EntriesRemoved
<1>4. Others(t) /\ UNCHANGED <<body, metadata, strays, io_locks>> /\ LocksKept(t)
  BY <1>2 DEF Removed, LocksKept
<1>5. TaskOk(t)'
  BY <1>1, <1>2 DEF TaskOk, Holds
<1>6. \A h \in Keys : ~Storing(t, h) /\ ~Deleting(t, h)' /\ ~Attending(t, h)
  BY <1>0, <1>1 DEF TaskOk, Attending, Storing, Deleting
<1>7. ASSUME NEW h \in Keys, IsIndexed(h), ~IsIndexed(h)' PROVE Attending(t, h)'
  <2>1. h \in ks
    BY <1>3, <1>7 DEF IsIndexed
  <2>2. entries[h].hash = h
    BY <1>0, <1>7 DEF OwnHashes, IsIndexed
  <2>3. h # NoHash /\ TheIndex.entries = entries
    BY CacheStoreAssumption DEF TheIndex
  <2>4. h \in Hashes(TheIndex, ks)
    BY <2>1, <2>2, <2>3 DEF Hashes
  <2> QED
    BY <1>2, <2>4 DEF Attending
<1>8. tasks'[t].pc # "index_store" /\ UNCHANGED <<body, metadata>> /\ strays' = strays
  BY <1>1, <1>4
<1> QED
  BY <1>3, <1>4, <1>5, <1>6, <1>7, <1>8, IndexSteps

\* A drop that removes the last reference goes on to delete the files.
LEMMA DiskOfDrop ==
    ASSUME IndexInv, Disk, UNCHANGED setting, NEW t \in Tasks, DropEntry(t)
    PROVE  Disk'
<1> USE DEF files, history
<1>0. TaskOk(t) /\ OwnHashes /\ tasks[t] \in TaskStates
  BY TypesOfState DEF IndexInv, Disk, TasksInv
<1>1. /\ tasks[t].pc = "drop" /\ RemoveIfMatches(t, "drop_files")
      /\ UNCHANGED <<setting, invalidations, body, metadata, io_locks, clock, stored, strays>>
  BY DEF DropEntry
<1> DEFINE k == tasks[t].key
           seen == tasks[t].seen
           r == RemoveEntries(TheIndex, {k})
<1>2. "drop_files" \in Pcs \ Late
  BY DEF Pcs, Late
<1>3. PICK to \in {"drop_files", "unlock"} :
        /\ Goes(t, to, tasks[t].hash, tasks[t].pending)
        /\ \/ to = "unlock" /\ UNCHANGED <<index, hot>>
           \/ /\ StableEq(entries[k], seen) /\ Removed(t, {k})
              /\ to = IF seen.hash # NoHash /\ r.refs[seen.hash] = 0 THEN "drop_files" ELSE "unlock"
  BY <1>1, <1>2, DropRemoves
<1>4. /\ seen # NoEntry /\ (seen.hash # NoHash => tasks[t].hash = seen.hash) /\ tasks[t].pending = {}
      /\ k \in Keys /\ tasks[t].hash \in Keys
  BY <1>0, <1>1, TaskFields DEF TaskOk
<1>5. /\ Others(t) /\ LocksKept(t) /\ tasks'[t].pc = to /\ tasks'[t].pending = {} /\ tasks'[t].seen = seen
      /\ tasks'[t].hash = tasks[t].hash /\ tasks'[t].key = k
  BY <1>1, <1>3, <1>4 DEF Goes, Others, LocksKept
<1>6. \A h \in Keys : ~Storing(t, h) /\ ~Attending(t, h)
  BY <1>1, <1>4 DEF Attending, Storing, Deleting
<1>7. to = "drop_files" => seen.hash # NoHash
  BY <1>3
<1>8. TaskOk(t)'
  BY <1>0, <1>1, <1>4, <1>5, <1>7 DEF TaskOk, Holds
<1>9. CASE to = "unlock" /\ UNCHANGED <<index, hot>>
  <2>1. UNCHANGED <<entries, body, metadata, strays>> /\ tasks[t].pc # "index_store" /\ tasks'[t].pc # "index_store"
    BY <1>1, <1>5, <1>9 DEF index
  <2>2. \A h \in Keys : ~Deleting(t, h)'
    BY <1>5, <1>9 DEF Deleting
  <2> QED
    BY <1>5, <1>6, <1>8, <2>1, <2>2, TaskSteps
<1>10. CASE /\ StableEq(entries[k], seen) /\ Removed(t, {k})
            /\ to = IF seen.hash # NoHash /\ r.refs[seen.hash] = 0 THEN "drop_files" ELSE "unlock"
  <2>1. /\ \A j \in Keys : entries'[j] = IF j \in {k} THEN NoEntry ELSE entries[j]
        /\ entries[k] # NoEntry /\ entries[k].hash = seen.hash
    BY <1>10, EntriesRemoved DEF StableEq
  <2>2. /\ Sound(r) /\ \A j \in Keys : r.entries[j] = IF j \in {k} THEN NoEntry ELSE TheIndex.entries[j]
    <3>1. Sound(TheIndex) /\ {k} \in SUBSET Keys
      BY <1>4 DEF IndexInv
    <3> QED
      BY <3>1, RemovedSound, Zenon
  <2>3. TheIndex.entries = entries
    BY DEF TheIndex
  <2> HIDE DEF r, k, seen
  <2>4. \A j \in Keys : r.entries[j] = entries'[j]
    BY <2>1, <2>2, <2>3
  <2>5. \A j \in Keys : r.entries[j] # NoEntry /\ r.entries[j].kind = "response" => r.entries[j].hash = j
    BY <1>0, <2>1, <2>4 DEF OwnHashes
  <2>6. \A h \in Keys : r.refs[h] > 0 <=> IsIndexed(h)'
    BY <2>2, <2>4, <2>5, ReferencedOnce DEF IsIndexed
  <2>6a. \A h \in Keys : r.refs[h] \in Nat
    BY <2>2 DEF Sound
  <2>7. \A h \in Keys : Deleting(t, h)' => ~IsIndexed(h)'
    <3> SUFFICES ASSUME NEW h \in Keys, Deleting(t, h)' PROVE ~IsIndexed(h)'
      OBVIOUS
    <3>1. to = "drop_files" /\ h = tasks[t].hash
      BY <1>3, <1>5 DEF Deleting
    <3>2. h = seen.hash /\ r.refs[h] = 0
      BY <1>4, <1>10, <3>1
    <3> QED
      BY <2>6, <3>2
  <2>8. ASSUME NEW h \in Keys, IsIndexed(h), ~IsIndexed(h)' PROVE Attending(t, h)'
    <3>1. h = k
      BY <2>1, <2>8 DEF IsIndexed
    <3>2. seen.hash = h /\ h # NoHash
      BY <1>0, <2>1, <2>8, <3>1, CacheStoreAssumption DEF OwnHashes, IsIndexed
    <3>3. r.refs[h] = 0
      BY <2>6, <2>6a, <2>8
    <3>4. to = "drop_files" /\ tasks[t].hash = h
      BY <1>4, <1>10, <3>2, <3>3
    <3> QED
      BY <1>5, <3>4 DEF Attending, Deleting
  <2>9. /\ tasks'[t].pc # "index_store" /\ UNCHANGED <<body, metadata>> /\ strays' = strays
        /\ \A j \in Keys : entries'[j] = NoEntry \/ (entries'[j] = entries[j] /\ ~Storing(t, j))
    BY <1>1, <1>3, <1>5, <1>6, <2>1
  <2> QED
    BY <1>5, <1>6, <1>8, <2>7, <2>8, <2>9, IndexSteps
<1> QED
  BY <1>3, <1>9, <1>10

\* The entries after a store.
LEMMA EntriesStored ==
    ASSUME IndexInv, NEW t, NEW k, NEW e, NEW o, StoredAs(t, k, e, o)
    PROVE  /\ entries' = o.idx.entries
           /\ \A j \in Keys : \/ entries'[j] = NoEntry
                              \/ j # k /\ entries'[j] = entries[j]
                              \/ j = k /\ entries'[j] = e
           /\ \A j \in Keys : \/ entries[j] = NoEntry \/ entries'[j] = entries[j]
                              \/ entries[j].hash \in o.pending \cup {NoHash, e.hash}
           /\ k \in Keys /\ e # NoEntry
<1>1. PICK s \in Keys, seen \in Entries \cup {NoEntry} : o \in StoreOutcomes(k, e, s, seen)
  BY DEF StoredAs
<1>2. k \in Keys /\ e \in Entries /\ WellKinded(e) /\ entries' = o.idx.entries /\ Sound(TheIndex)
  BY DEF StoredAs, SetIndex, IndexInv
<1>3. /\ \A j \in Keys : \/ o.idx.entries[j] = NoEntry
                         \/ j # k /\ o.idx.entries[j] = entries[j]
                         \/ j = k /\ o.idx.entries[j] = e
      /\ \A j \in Keys : \/ entries[j] = NoEntry \/ o.idx.entries[j] = entries[j]
                         \/ entries[j].hash \in o.pending \cup {NoHash, e.hash}
  BY <1>1, <1>2, StoredSound
<1>4. e # NoEntry
  BY <1>2, CacheStoreAssumption
<1> QED
  BY <1>2, <1>3, <1>4

\* The new entry has its files, and the hashes of what it displaced are pending.
LEMMA DiskOfStore ==
    ASSUME IndexInv, Disk, UNCHANGED setting, NEW t \in Tasks, IndexStore(t)
    PROVE  Disk'
<1>0. TaskOk(t) /\ OwnHashes
  BY DEF Disk, TasksInv
<1> DEFINE k == tasks[t].key
<1>1. /\ tasks[t].pc = "index_store" /\ UNCHANGED metadata /\ tasks'[t].pc = "store_head"
      /\ tasks[t].hash = k
  BY <1>0, IndexStoreStores DEF TaskOk
<1>2. PICK o, e : /\ StoredAs(t, k, e, o) /\ tasks'[t].pending = o.pending
                  /\ e.hash = k /\ e.version = tasks[t].version /\ e.kind = "response"
                  /\ strays' = IF o.idx.entries[k] = e THEN strays \ {e.hash} ELSE strays \cup {e.hash}
  BY <1>1, IndexStoreStores
<1>3. /\ entries' = o.idx.entries
      /\ \A j \in Keys : \/ entries'[j] = NoEntry
                         \/ j # k /\ entries'[j] = entries[j]
                         \/ j = k /\ entries'[j] = e
      /\ \A j \in Keys : \/ entries[j] = NoEntry \/ entries'[j] = entries[j]
                         \/ entries[j].hash \in o.pending \cup {NoHash, e.hash}
      /\ k \in Keys /\ e # NoEntry
  BY <1>2, EntriesStored
<1>4. /\ Others(t) /\ UNCHANGED <<body, io_locks>> /\ LocksKept(t) /\ tasks'[t].pending = o.pending
  BY <1>2 DEF StoredAs, LocksKept
<1>5. TaskOk(t)'
  BY <1>1 DEF TaskOk, Holds
<1>6. \A h \in Keys : (Storing(t, h) <=> h = k) /\ ~Deleting(t, h)' /\ (Attending(t, h) => h = k)
  BY <1>0, <1>1, <1>4 DEF TaskOk, Attending, Storing, Deleting
<1>7. ASSUME NEW h \in Keys \ strays', ~IsIndexed(h)'
      PROVE  h # k /\ h \notin strays /\ (IsIndexed(h) => Attending(t, h)')
  <2>1. h # k
    <3> SUFFICES ASSUME h = k PROVE FALSE
      OBVIOUS
    <3>1. entries'[k] # e
      BY <1>2, <1>3, <1>7 DEF IsIndexed
    <3> QED
      BY <1>2, <1>3, <1>7, <3>1
  <2>2. h \notin strays
    BY <1>2, <1>7, <2>1
  <2>3. ASSUME IsIndexed(h) PROVE Attending(t, h)'
    <3>1. entries[h] # NoEntry /\ entries'[h] # entries[h] /\ entries[h].hash = h
      BY <1>0, <1>7, <2>3 DEF OwnHashes, IsIndexed
    <3>2. h # NoHash /\ h # e.hash
      BY <1>2, <2>1, CacheStoreAssumption
    <3>3. h \in o.pending
      BY <1>3, <3>1, <3>2
    <3> QED
      BY <1>4, <3>3 DEF Attending
  <2> QED
    BY <2>1, <2>2, <2>3
<1>8. \A j \in Keys : \/ entries'[j] = NoEntry
                      \/ entries'[j] = entries[j] /\ ~Storing(t, j)
                      \/ Storing(t, j) /\ entries'[j].hash = j /\ entries'[j].version = tasks[t].version
  BY <1>2, <1>3, <1>6
<1>9. tasks'[t].pc # "index_store" /\ UNCHANGED <<body, metadata>>
  BY <1>1, <1>4
<1> HIDE DEF k
<1> QED
  BY <1>4, <1>5, <1>6, <1>7, <1>8, <1>9, IndexSteps

\* The hashes of what a hit-for-pass mark displaced are pending.
LEMMA DiskOfPass ==
    ASSUME IndexInv, Disk, UNCHANGED setting, NEW t \in Tasks, RememberHitForPass(t)
    PROVE  Disk'
<1>0. TaskOk(t) /\ OwnHashes
  BY DEF Disk, TasksInv
<1>1. tasks[t].pc = "lock_store" /\ tasks'[t].pc = "forget" /\ UNCHANGED <<metadata, strays>>
  BY <1>0, PassStores DEF TaskOk
<1>2. PICK k, o, e : StoredAs(t, k, e, o) /\ tasks'[t].pending = o.pending /\ e.hash = NoHash /\ e.kind = "pass"
  BY PassStores
<1>3. /\ \A j \in Keys : \/ entries'[j] = NoEntry
                         \/ j # k /\ entries'[j] = entries[j]
                         \/ j = k /\ entries'[j] = e
      /\ \A j \in Keys : \/ entries[j] = NoEntry \/ entries'[j] = entries[j]
                         \/ entries[j].hash \in o.pending \cup {NoHash, e.hash}
  BY <1>2, EntriesStored
<1>4. Others(t) /\ UNCHANGED <<body, io_locks>> /\ LocksKept(t)
  BY <1>2 DEF StoredAs, LocksKept
<1>5. TaskOk(t)'
  BY <1>1 DEF TaskOk, Holds
<1>6. \A h \in Keys : ~Storing(t, h) /\ ~Deleting(t, h)' /\ ~Attending(t, h)
  BY <1>0, <1>1 DEF TaskOk, Attending, Storing, Deleting
<1>7. ASSUME NEW h \in Keys, IsIndexed(h), ~IsIndexed(h)' PROVE Attending(t, h)'
  <2>1. entries[h] # NoEntry /\ entries'[h] # entries[h] /\ entries[h].hash = h
    BY <1>0, <1>7 DEF OwnHashes, IsIndexed
  <2>2. h # NoHash
    BY CacheStoreAssumption
  <2>3. h \in o.pending
    BY <1>2, <1>3, <2>1, <2>2
  <2> QED
    BY <1>2, <2>3 DEF Attending
<1>8. \A j \in Keys : entries'[j] = NoEntry \/ (entries'[j] = entries[j] /\ ~Storing(t, j)) \/ entries'[j].kind = "pass"
  BY <1>2, <1>3, <1>6
<1>9. tasks'[t].pc # "index_store" /\ UNCHANGED <<body, metadata>> /\ strays' = strays
  BY <1>1, <1>4
<1> QED
  BY <1>4, <1>5, <1>6, <1>7, <1>8, <1>9, IndexSteps

\* What happens after the index lock is free changes no file.
LEMMA DiskOfHeads ==
    ASSUME IndexInv, Disk, UNCHANGED setting, NEW t \in Tasks, StoreHead(t) \/ ForgetGone(t)
    PROVE  Disk' /\ body' = body
<1>1. /\ Others(t) /\ UNCHANGED <<entries, body, metadata, io_locks, strays>>
      /\ tasks[t].pc \in {"store_head", "forget"} /\ tasks'[t].pc \in {"idle", "sweep", "unlock"}
      /\ tasks'[t].pending = tasks[t].pending /\ (tasks[t].pending # {} => tasks'[t].pc # "idle")
  <2>1. CASE StoreHead(t)
    BY <2>1, HeadsStored
  <2>2. CASE ForgetGone(t)
    BY <2>2, GoneForgotten
  <2> QED
    BY <2>1, <2>2
<1>2. TaskOk(t)' /\ LocksKept(t)
  BY <1>1 DEF TaskOk, Holds, LocksKept
<1>3. \A h \in Keys : ~Deleting(t, h)' /\ (Attending(t, h) => Attending(t, h)')
  BY <1>1 DEF Attending, Storing, Deleting
<1>4. tasks[t].pc # "index_store" /\ tasks'[t].pc # "index_store"
  BY <1>1
<1> QED
  BY <1>1, <1>2, <1>3, <1>4, TaskSteps

-----------------------------------------------------------------------------
(* The disk.                                                               *)

StoreInv == IndexInv /\ DiskInv

\* An empty disk.
LEMMA DiskInit == Init => DiskInv
<1> SUFFICES ASSUME Init PROVE Disk
  BY DEF DiskInv
<1> USE DEF Init
<1>1. \A t \in Tasks : tasks[t] = IdleTask
  OBVIOUS
<1>2. TasksInv
  BY <1>1, IdleFields DEF TasksInv, TaskOk, Holds
<1>3. OwnHashes /\ \A k \in Keys : ~IsIndexed(k) /\ body[k] = 0
  BY DEF OwnHashes, IsIndexed
<1>4. FilesInv
  BY <1>1, <1>3, IdleFields DEF FilesInv, Storing, Deleting
<1>5. OrphansInv
  BY <1>3 DEF OrphansInv
<1> QED
  BY <1>2, <1>3, <1>4, <1>5 DEF Disk

\* A step keeps the disk in step with the index and deletes no file of an
\* indexed response.
LEMMA DiskStep ==
    ASSUME IndexInv, Disk, Undisturbed, Next
    PROVE  Disk' /\ \A h \in Keys : body[h] # 0 /\ body'[h] = 0 => ~IsIndexed(h)
<1>0. UNCHANGED setting /\ ~setting.refresh /\ ~setting.io_fails
  BY DEF Next, Undisturbed
<1>1. ASSUME NEW t \in Tasks, TaskStep(t)
      PROVE  Disk' /\ \A h \in Keys : body[h] # 0 /\ body'[h] = 0 => ~IsIndexed(h)
  <2>0. tasks[t].pc \notin {"lock_refresh", "refresh", "refresh_head", "unstorable", "bare_files"}
    BY DEF Disk, TasksInv, TaskOk
  <2>1. CASE Commit(t) \/ SweepDelete(t) \/ DropFiles(t)
    BY <1>0, <2>1, DiskOfCommit, DiskOfDelete
  <2>2. CASE BeginStore(t) \/ BeginDrop(t)
    <3>1. body' = body
      BY <2>2 DEF BeginStore, BeginDrop, files
    <3> QED
      BY <1>0, <2>2, <3>1, DiskOfStarts
  <2>3. CASE LockStore(t) \/ LockDrop(t)
    <3>1. body' = body
      BY <2>3 DEF LockStore, LockDrop, LockIo, files
    <3> QED
      BY <1>0, <2>3, <3>1, DiskOfLocks
  <2>4. CASE Unlock(t) \/ SweepLock(t) \/ SweepCheck(t)
    <3>1. body' = body
      BY <2>4 DEF Unlock, SweepLock, SweepCheck, files
    <3> QED
      BY <1>0, <2>4, <3>1, DiskOfUnlock, DiskOfSweepLock, DiskOfCheck
  <2>5. CASE Purge(t) \/ CleanupInactive(t)
    <3>1. body' = body
      BY <2>5 DEF Purge, CleanupInactive, files
    <3> QED
      BY <1>0, <2>5, <3>1, DiskOfPurge
  <2>6. CASE DropEntry(t)
    <3>1. body' = body
      BY <2>6 DEF DropEntry, files
    <3> QED
      BY <1>0, <2>6, <3>1, DiskOfDrop
  <2>7. CASE IndexStore(t) \/ RememberHitForPass(t)
    <3>1. body' = body
      BY <2>7 DEF IndexStore, RememberHitForPass, files
    <3> QED
      BY <1>0, <2>7, <3>1, DiskOfStore, DiskOfPass
  <2>8. CASE \/ BeginRefresh(t) \/ LockRefresh(t) \/ Refresh(t) \/ RefreshFails(t) \/ RefreshHead(t)
             \/ UnstorableFails(t) \/ DropUnstorable(t) \/ BareFiles(t)
    BY <1>0, <2>0, <2>8 DEF BeginRefresh, LockRefresh, Refresh, RefreshFails, RefreshHead,
                            UnstorableFails, DropUnstorable, BareFiles
  <2>9. CASE StoreHead(t) \/ ForgetGone(t)
    BY <1>0, <2>9, DiskOfHeads
  <2> QED
    BY <1>1, <2>1, <2>2, <2>3, <2>4, <2>5, <2>6, <2>7, <2>8, <2>9 DEF TaskStep
<1>2. ASSUME NEW k \in Keys, Access(k)
      PROVE  Disk' /\ \A h \in Keys : body[h] # 0 /\ body'[h] = 0 => ~IsIndexed(h)
  <2>1. UNCHANGED <<tasks, io_locks, body, metadata, strays>>
    BY <1>2 DEF Access, files, history
  <2>2. \A j \in Keys : \/ entries'[j] = entries[j]
                        \/ /\ entries[j] # NoEntry /\ entries'[j] # NoEntry
                           /\ entries'[j].kind = entries[j].kind /\ entries'[j].hash = entries[j].hash
                           /\ entries'[j].version = entries[j].version
    BY <1>2, AccessFields
  <2> QED
    BY <2>1, <2>2, IdleSteps
<1>3. CASE Invalidate \/ ClearInvalidations \/ Tick
  <2>1. UNCHANGED <<index, tasks, io_locks, body, metadata, strays>>
    BY <1>0, <1>3, OperatorInv
  <2>2. UNCHANGED <<tasks, io_locks, body, metadata, strays>> /\ entries' = entries
    BY <2>1 DEF index
  <2> QED
    BY <2>2, IdleSteps
<1> QED
  BY <1>1, <1>2, <1>3 DEF Next

\* Every step keeps both invariants.
LEMMA StoreInvKept == StoreInv /\ [Next]_vars => StoreInv'
<1> SUFFICES ASSUME StoreInv, [Next]_vars PROVE StoreInv'
  OBVIOUS
<1>1. IndexInv /\ IndexInv'
  BY IndexInvKept DEF StoreInv
<1>2. UNCHANGED setting
  BY DEF Next, vars
<1>3. ASSUME Undisturbed PROVE Disk'
  <2>1. Disk
    BY <1>3 DEF StoreInv, DiskInv
  <2>2. CASE Next
    BY <1>1, <1>3, <2>1, <2>2, DiskStep
  <2>3. CASE UNCHANGED vars
    <3>1. UNCHANGED <<tasks, io_locks, body, metadata, strays>> /\ entries' = entries
      BY <2>3 DEF vars, index, files, history
    <3> QED
      BY <2>1, <3>1, IdleSteps
  <2> QED
    BY <2>2, <2>3
<1>4. Undisturbed' <=> Undisturbed
  BY <1>2 DEF Undisturbed
<1> QED
  BY <1>1, <1>3, <1>4 DEF StoreInv, DiskInv

\* However stores, purges, cleanups, evictions and drops interleave with each
\* other's file operations: when nobody holds the I/O lock of an indexed
\* response its two files hold the version the index describes, and files
\* that no entry refers to are about to be deleted by someone.
THEOREM DiskMatchesIndex == Spec => []FilesMatchIndex
<1>1. StoreInv => FilesMatchIndex
  <2> SUFFICES ASSUME StoreInv, Undisturbed
               PROVE  /\ \A k \in Live(TheIndex) :
                           entries[k].kind = "response" /\ io_locks[entries[k].hash] = NoTask
                             => body[entries[k].hash] = entries[k].version /\ metadata[entries[k].hash] = entries[k].version
                      /\ \A h \in Keys \ strays : body[h] # 0 /\ ~HashIsReferenced(h) =>
                           io_locks[h] # NoTask \/ \E t \in Tasks : h \in tasks[t].pending
    BY DEF FilesMatchIndex, IndexMatchesDisk, NoOrphanFiles
  <2>1. IndexInv /\ OwnHashes /\ TasksInv /\ FilesInv /\ OrphansInv
    BY DEF StoreInv, DiskInv, Disk
  <2>2. \A t \in Tasks, h \in Keys : Holds(t, h) => io_locks[h] # NoTask
    BY <2>1, CacheStoreAssumption DEF TasksInv, TaskOk
  <2>3. ASSUME NEW k \in Live(TheIndex), entries[k].kind = "response", io_locks[entries[k].hash] = NoTask
        PROVE  body[entries[k].hash] = entries[k].version /\ metadata[entries[k].hash] = entries[k].version
    <3>1. k \in Keys /\ IsIndexed(k)
      BY <2>1, <2>3, KnownEntries DEF IsIndexed
    <3>2. entries[k].hash = k
      BY <2>1, <3>1 DEF OwnHashes, IsIndexed
    <3>3. \A t \in Tasks : ~Storing(t, k)
      BY <2>2, <2>3, <3>1, <3>2 DEF Storing, Holds
    <3>4. FilesAre(k, entries[k].version)
      BY <2>1, <3>1, <3>3 DEF FilesInv
    <3> QED
      BY <3>2, <3>4 DEF FilesAre
  <2>4. ASSUME NEW h \in Keys \ strays, body[h] # 0, ~HashIsReferenced(h), io_locks[h] = NoTask
        PROVE  \E t \in Tasks : h \in tasks[t].pending
    <3>1. ~IsIndexed(h)
      BY <2>1, <2>4, ReferencedIsIndexed
    <3>2. PICK t \in Tasks : Attending(t, h)
      BY <2>1, <2>4, <3>1 DEF OrphansInv
    <3>3. ~Holds(t, h)
      BY <2>2, <2>4
    <3> QED
      BY <3>2, <3>3 DEF Attending, Holds, Storing, Deleting
  <2> QED
    BY <2>3, <2>4
<1>2. Init => StoreInv
  BY IndexInvInit, DiskInit DEF StoreInv
<1> QED
  BY <1>1, <1>2, StoreInvKept, PTL DEF Spec

\* No step deletes the body of an entry that is in the index: what a purge,
\* an eviction or a drop decided to delete is not referenced when it goes.
THEOREM IndexedFilesAreKept == Spec => IndexedFilesNeverDeleted
<1> DEFINE Kept == Undisturbed => \A h \in Keys : body[h] # 0 /\ body'[h] = 0 => ~HashIsReferenced(h)
<1>1. StoreInv /\ [Next]_vars => [Kept]_vars
  <2> SUFFICES ASSUME StoreInv, Next, Undisturbed, NEW h \in Keys, body[h] # 0, body'[h] = 0
               PROVE  ~HashIsReferenced(h)
    OBVIOUS
  <2>1. IndexInv /\ Disk /\ OwnHashes
    BY DEF StoreInv, DiskInv, Disk
  <2>2. ~IsIndexed(h)
    BY <2>1, DiskStep
  <2> QED
    BY <2>1, <2>2, ReferencedIsIndexed
<1>2. Init => StoreInv
  BY IndexInvInit, DiskInit DEF StoreInv
<1> QED
  BY <1>1, <1>2, StoreInvKept, PTL DEF Spec, IndexedFilesNeverDeleted

-----------------------------------------------------------------------------
(* The loops over the access schedule.                                     *)

\* A place in the schedule.
Place == [at : Nat, ticket : Nat]

\* The entries accessed since they were scheduled.
Stale == {k \in live : access_schedule[k].at < effective[k]}

\* What the loops rely on: every entry has one place, not after its effective
\* time, with a ticket of its own; what has left had been used no later than
\* what is left; every rescheduling uses up one of the stale entries, and
\* every hit makes one at most.
ScheduleInv ==
    /\ live \in SUBSET Indexed /\ removed \in SUBSET Indexed
    /\ effective \in [Indexed -> Nat] /\ taken \in [Indexed -> Nat] /\ next_ticket \in Nat /\ hits \in Nat
    /\ access_schedule \in [Indexed -> Place \cup {NotScheduled}]
    /\ \A k \in Indexed : access_schedule[k] # NotScheduled <=> k \in live
    /\ \A k \in live : access_schedule[k].at <= effective[k] /\ access_schedule[k].ticket < next_ticket
    /\ \A j, k \in live : access_schedule[j].ticket = access_schedule[k].ticket => j = k
    /\ \A k \in removed, j \in live : taken[k] <= effective[j]
    /\ next_ticket + Cardinality(Stale) <= 2 * Cardinality(Indexed) + hits
    /\ loop \in {"evict", "cleanup", "evicted", "more", "cleaned"}
    /\ loop \in {"evict", "evicted"} /\ removed # {} =>
         \E last \in removed : SizeOfAll(live \cup {last}) > SizeLimit
    /\ loop = "evicted" => SizeOfAll(live) <= SizeLimit
    /\ loop \in {"cleanup", "more", "cleaned"} => \A k \in removed : taken[k] + InactiveAfter < Now
    /\ loop = "cleaned" => \A k \in live : effective[k] + InactiveAfter >= Now

\* The facts about the constants.
LEMMA ScheduleConstants ==
    /\ IsFiniteSet(Indexed) /\ Cardinality(Indexed) \in Nat /\ SizeLimit \in Nat /\ InactiveAfter \in Nat
    /\ Now \in Nat /\ NotScheduled \notin Place
<1>1. IsFiniteSet(Indexed) /\ SizeLimit \in Nat /\ InactiveAfter \in Nat
      /\ Now \in Nat /\ NotScheduled \notin Place
  BY AccessScheduleAssumption DEF Place
<1> QED
  BY <1>1, FS_CardinalityType

\* The entries and their places.
LEMMA ScheduledPlaces ==
    ASSUME ScheduleInv
    PROVE  /\ Scheduled = live
           /\ \A k \in live : access_schedule[k] \in Place /\ access_schedule[k].at \in Nat
                              /\ access_schedule[k].ticket \in Nat /\ effective[k] \in Nat
<1>1. Scheduled = live
  BY DEF ScheduleInv, Scheduled
<1>2. \A k \in live : access_schedule[k] \in Place
  BY DEF ScheduleInv
<1>3. \A x \in Place : x.at \in Nat /\ x.ticket \in Nat
  BY DEF Place
<1> QED
  BY <1>1, <1>2, <1>3 DEF ScheduleInv

\* The schedule has a first entry: the least time, then the least ticket.
LEMMA OldestIsFirst ==
    ASSUME ScheduleInv, Scheduled # {}
    PROVE  /\ Oldest \in live
           /\ \A j \in live : access_schedule[Oldest].at <= access_schedule[j].at
<1>0. /\ Scheduled = live
      /\ \A k \in live : access_schedule[k].at \in Nat /\ access_schedule[k].ticket \in Nat
      /\ \A j, k \in live : access_schedule[j].ticket = access_schedule[k].ticket => j = k
  BY ScheduledPlaces DEF ScheduleInv
<1> DEFINE Moments == {access_schedule[k].at : k \in live}
<1>1. PICK t \in Moments : \A u \in Moments : t <= u
  <2>1. Moments \in SUBSET Nat /\ Moments # {}
    BY <1>0
  <2> HIDE DEF Moments
  <2> QED
    BY <2>1, LeastNatural
<1> DEFINE First == {k \in live : access_schedule[k].at = t}
           Tickets == {access_schedule[k].ticket : k \in First}
<1>2. PICK n \in Tickets : \A m \in Tickets : n <= m
  <2>1. First # {}
    BY <1>1
  <2>2. Tickets \in SUBSET Nat /\ Tickets # {}
    BY <1>0, <2>1
  <2> HIDE DEF Tickets
  <2> QED
    BY <2>2, LeastNatural
<1>3. PICK k \in First : access_schedule[k].ticket = n
  BY <1>2
<1>4. k \in Scheduled /\ \A j \in Scheduled \ {k} : Before(access_schedule[k], access_schedule[j])
  <2> SUFFICES ASSUME NEW j \in live, j # k PROVE Before(access_schedule[k], access_schedule[j])
    BY <1>0, <1>3
  <2>1. t <= access_schedule[j].at /\ access_schedule[k].at = t
    BY <1>1, <1>3
  <2>2. CASE access_schedule[j].at = t
    <3>1. j \in First
      BY <2>2
    <3>2. n <= access_schedule[j].ticket
      BY <1>2, <3>1
    <3>3. access_schedule[j].ticket # access_schedule[k].ticket
      BY <1>0, <1>3
    <3> QED
      BY <1>0, <1>3, <2>1, <2>2, <3>2, <3>3 DEF Before
  <2>3. CASE access_schedule[j].at # t
    BY <1>0, <1>3, <2>1, <2>3 DEF Before
  <2> QED
    BY <2>2, <2>3
<1> HIDE DEF Moments, First, Tickets
<1>5. Oldest \in Scheduled /\ \A j \in Scheduled \ {Oldest} : Before(access_schedule[Oldest], access_schedule[j])
  BY <1>4 DEF Oldest
<1> QED
  BY <1>0, <1>5 DEF Before

\* There are finitely many stale entries.
LEMMA StaleFinite ==
    ASSUME ScheduleInv
    PROVE  IsFiniteSet(Stale) /\ Cardinality(Stale) \in Nat /\ Stale \subseteq live
<1>1. Stale \subseteq Indexed /\ Stale \subseteq live
  BY DEF Stale, ScheduleInv
<1>2. IsFiniteSet(Stale)
  BY <1>1, ScheduleConstants, FS_Subset
<1> QED
  BY <1>1, <1>2, FS_CardinalityType

\* An entry that was accessed goes back behind the others, once.
LEMMA RescheduleKeeps ==
    ASSUME ScheduleInv, NEW k \in live, access_schedule[k].at < effective[k], Reschedule(k),
           UNCHANGED <<effective, loop, hits>>
    PROVE  ScheduleInv'
<1> DEFINE new == [at |-> effective[k], ticket |-> next_ticket]
<1>1. /\ access_schedule' = [access_schedule EXCEPT ![k] = new] /\ next_ticket' = next_ticket + 1
      /\ live' = live /\ removed' = removed /\ effective' = effective /\ loop' = loop
      /\ hits' = hits /\ taken' = taken
  BY DEF Reschedule
<1>2. /\ live \in SUBSET Indexed /\ effective \in [Indexed -> Nat] /\ next_ticket \in Nat /\ k \in Indexed
      /\ access_schedule \in [Indexed -> Place \cup {NotScheduled}]
      /\ \A j \in live : access_schedule[j].at \in Nat /\ access_schedule[j].ticket \in Nat /\ effective[j] \in Nat
      /\ \A j \in live : access_schedule[j].at <= effective[j] /\ access_schedule[j].ticket < next_ticket
  BY ScheduledPlaces DEF ScheduleInv
<1>3. new \in Place /\ new # NotScheduled /\ new.at = effective[k] /\ new.ticket = next_ticket
  <2>1. new \in Place
    BY <1>2 DEF Place
  <2> QED
    BY <2>1, ScheduleConstants
<1> HIDE DEF new
<1>4. access_schedule'[k] = new /\ \A j \in Indexed \ {k} : access_schedule'[j] = access_schedule[j]
  BY <1>1, <1>2
<1>5. access_schedule' \in [Indexed -> Place \cup {NotScheduled}]
  BY <1>1, <1>2, <1>3
<1>6. \A j \in Indexed : access_schedule'[j] # NotScheduled <=> j \in live'
  BY <1>1, <1>3, <1>4 DEF ScheduleInv
<1>7. \A j \in live' : access_schedule'[j].at <= effective'[j] /\ access_schedule'[j].ticket < next_ticket'
  BY <1>1, <1>2, <1>3, <1>4
<1>8. \A i, j \in live' : access_schedule'[i].ticket = access_schedule'[j].ticket => i = j
  <2>1. \A j \in live \ {k} : access_schedule'[j].ticket # next_ticket
    BY <1>2, <1>4
  <2>2. \A i, j \in live : access_schedule[i].ticket = access_schedule[j].ticket => i = j
    BY DEF ScheduleInv
  <2>3. live \subseteq Indexed
    BY <1>2
  <2> QED
    BY <1>1, <1>3, <1>4, <2>1, <2>2, <2>3
<1>9. next_ticket' + Cardinality(Stale') <= 2 * Cardinality(Indexed) + hits'
  <2>1. Stale' = Stale \ {k} /\ k \in Stale
    <3>1. Stale' = {j \in live : access_schedule'[j].at < effective[j]}
      BY <1>1 DEF Stale
    <3>2. ~(access_schedule'[k].at < effective[k])
      BY <1>2, <1>3, <1>4
    <3>3. \A j \in live \ {k} : access_schedule'[j] = access_schedule[j]
      BY <1>2, <1>4
    <3> QED
      BY <3>1, <3>2, <3>3 DEF Stale
  <2>2. Cardinality(Stale \ {k}) = Cardinality(Stale) - 1 /\ Cardinality(Stale) \in Nat
    BY <2>1, StaleFinite, FS_RemoveElement
  <2>3. next_ticket + Cardinality(Stale) <= 2 * Cardinality(Indexed) + hits /\ Cardinality(Indexed) \in Nat /\ hits \in Nat
    BY ScheduleConstants DEF ScheduleInv
  <2> QED
    BY <1>1, <1>2, <2>1, <2>2, <2>3
<1>10. /\ \A i \in removed', j \in live' : taken'[i] <= effective'[j]
       /\ loop' \in {"evict", "cleanup", "evicted", "more", "cleaned"}
       /\ removed' \in SUBSET Indexed /\ live' \in SUBSET Indexed /\ effective' \in [Indexed -> Nat]
       /\ next_ticket' \in Nat /\ hits' \in Nat /\ taken' \in [Indexed -> Nat]
  BY <1>1, <1>2 DEF ScheduleInv
<1>11. /\ loop' \in {"evict", "evicted"} /\ removed' # {} =>
           \E last \in removed' : SizeOfAll(live' \cup {last}) > SizeLimit
       /\ loop' = "evicted" => SizeOfAll(live') <= SizeLimit
       /\ loop' \in {"cleanup", "more", "cleaned"} => \A i \in removed' : taken'[i] + InactiveAfter < Now
       /\ loop' = "cleaned" => \A i \in live' : effective'[i] + InactiveAfter >= Now
  BY <1>1 DEF ScheduleInv
<1>12. \A last : SizeOfAll(live \cup {last})' = SizeOfAll(live' \cup {last})
  BY DEF SizeOfAll
<1>13. SizeOfAll(live)' = SizeOfAll(live')
  BY DEF SizeOfAll
<1> QED
  BY <1>5, <1>6, <1>7, <1>8, <1>9, <1>10, <1>11, <1>12, <1>13 DEF ScheduleInv

\* The first entry of the schedule, not accessed since, leaves the index.
LEMMA TakeOutKeeps ==
    ASSUME ScheduleInv, NEW k \in live, ~(access_schedule[k].at < effective[k]),
           \A j \in live : access_schedule[k].at <= access_schedule[j].at,
           TakeOut(k), UNCHANGED <<effective, loop, hits>>,
           \/ loop = "evict" /\ SizeOfAll(live) > SizeLimit
           \/ loop = "cleanup" /\ effective[k] + InactiveAfter < Now
    PROVE  ScheduleInv'
<1>1. /\ access_schedule' = [access_schedule EXCEPT ![k] = NotScheduled] /\ next_ticket' = next_ticket
      /\ live' = live \ {k} /\ removed' = removed \cup {k} /\ effective' = effective /\ loop' = loop
      /\ hits' = hits /\ taken' = [taken EXCEPT ![k] = effective[k]]
  BY DEF TakeOut
<1>2. /\ live \in SUBSET Indexed /\ effective \in [Indexed -> Nat] /\ next_ticket \in Nat /\ k \in Indexed
      /\ removed \in SUBSET Indexed /\ live \subseteq Indexed
      /\ access_schedule \in [Indexed -> Place \cup {NotScheduled}]
      /\ \A j \in live : access_schedule[j].at \in Nat /\ access_schedule[j].ticket \in Nat /\ effective[j] \in Nat
      /\ \A j \in live : access_schedule[j].at <= effective[j] /\ access_schedule[j].ticket < next_ticket
      /\ \A i, j \in live : access_schedule[i].ticket = access_schedule[j].ticket => i = j
      /\ \A i \in removed, j \in live : taken[i] <= effective[j]
      /\ hits \in Nat /\ taken \in [Indexed -> Nat]
  BY ScheduledPlaces DEF ScheduleInv
<1>3. access_schedule'[k] = NotScheduled /\ \A j \in Indexed \ {k} : access_schedule'[j] = access_schedule[j]
  BY <1>1, <1>2
<1>3a. /\ taken' \in [Indexed -> Nat] /\ taken'[k] = effective[k]
       /\ \A i \in Indexed \ {k} : taken'[i] = taken[i]
  BY <1>1, <1>2
<1>4. access_schedule' \in [Indexed -> Place \cup {NotScheduled}]
  BY <1>1, <1>2
<1>5. \A j \in Indexed : access_schedule'[j] # NotScheduled <=> j \in live'
  BY <1>1, <1>3 DEF ScheduleInv
<1>6. \A j \in live' : j \in live /\ access_schedule'[j] = access_schedule[j]
  BY <1>1, <1>2, <1>3
<1>7. /\ \A j \in live' : access_schedule'[j].at <= effective'[j] /\ access_schedule'[j].ticket < next_ticket'
      /\ \A i, j \in live' : access_schedule'[i].ticket = access_schedule'[j].ticket => i = j
  BY <1>1, <1>2, <1>6
<1>8. next_ticket' + Cardinality(Stale') <= 2 * Cardinality(Indexed) + hits'
  <2>1. Stale' = Stale
    <3>1. Stale' = {j \in live' : access_schedule'[j].at < effective[j]}
      BY <1>1 DEF Stale
    <3>2. \A j \in live \ {k} : j \in live'
      BY <1>1
    <3> QED
      BY <1>6, <3>1, <3>2 DEF Stale
  <2> QED
    BY <1>1, <2>1 DEF ScheduleInv
<1>9. \A i \in removed', j \in live' : taken'[i] <= effective'[j]
  <2>1. \A j \in live : effective[k] <= effective[j]
    <3> SUFFICES ASSUME NEW j \in live PROVE effective[k] <= effective[j]
      OBVIOUS
    <3>1. access_schedule[k].at <= access_schedule[j].at /\ access_schedule[j].at <= effective[j]
      BY <1>2
    <3>2. effective[k] <= access_schedule[k].at
      BY <1>2
    <3> QED
      BY <1>2, <3>1, <3>2
  <2> QED
    <3> SUFFICES ASSUME NEW i \in removed', NEW j \in live' PROVE taken'[i] <= effective[j]
      BY <1>1
    <3>1. CASE i = k
      BY <1>3a, <1>6, <2>1, <3>1
    <3>2. CASE i # k
      BY <1>1, <1>2, <1>3a, <1>6, <3>2
    <3> QED
      BY <3>1, <3>2
<1>10. /\ loop' \in {"evict", "cleanup", "evicted", "more", "cleaned"}
       /\ removed' \in SUBSET Indexed /\ live' \in SUBSET Indexed /\ effective' \in [Indexed -> Nat]
       /\ next_ticket' \in Nat /\ hits' \in Nat /\ taken' \in [Indexed -> Nat]
  BY <1>1, <1>2, <1>3a DEF ScheduleInv
<1>11. /\ loop' \in {"evict", "evicted"} /\ removed' # {} =>
           \E last \in removed' : SizeOfAll(live' \cup {last}) > SizeLimit
       /\ loop' = "evicted" => SizeOfAll(live') <= SizeLimit
       /\ loop' \in {"cleanup", "more", "cleaned"} => \A i \in removed' : taken'[i] + InactiveAfter < Now
       /\ loop' = "cleaned" => \A i \in live' : effective'[i] + InactiveAfter >= Now
  <2>1. CASE loop = "evict" /\ SizeOfAll(live) > SizeLimit
    <3>1. live' \cup {k} = live /\ k \in removed'
      BY <1>1
    <3>2. SizeOfAll(live' \cup {k}) > SizeLimit
      BY <2>1, <3>1
    <3> QED
      BY <1>1, <2>1, <3>1, <3>2
  <2>2. CASE loop = "cleanup" /\ effective[k] + InactiveAfter < Now
    <3>1. \A i \in removed : i \in Indexed /\ taken[i] + InactiveAfter < Now
      BY <1>2, <2>2 DEF ScheduleInv
    <3>2. \A i \in removed' : taken'[i] + InactiveAfter < Now
      BY <1>1, <1>3a, <2>2, <3>1
    <3> QED
      BY <1>1, <2>2, <3>2
  <2> QED
    BY <2>1, <2>2
<1>12. \A last : SizeOfAll(live \cup {last})' = SizeOfAll(live' \cup {last})
  BY DEF SizeOfAll
<1>13. SizeOfAll(live)' = SizeOfAll(live')
  BY DEF SizeOfAll
<1> QED
  BY <1>4, <1>5, <1>7, <1>8, <1>9, <1>10, <1>11, <1>12, <1>13 DEF ScheduleInv

\* The end of a loop: nothing but loop changes.
LEMMA EndKeeps ==
    ASSUME ScheduleInv, UNCHANGED <<live, access_schedule, next_ticket, effective, removed, hits, taken>>,
           \/ loop' = loop
           \/ loop = "evict" /\ loop' = "evicted" /\ SizeOfAll(live) <= SizeLimit
           \/ loop = "cleanup" /\ loop' = "more"
           \/ loop = "cleanup" /\ loop' = "cleaned" /\ \A k \in live : effective[k] + InactiveAfter >= Now
    PROVE  ScheduleInv'
<1>1. /\ live' = live /\ access_schedule' = access_schedule /\ next_ticket' = next_ticket
      /\ effective' = effective /\ removed' = removed /\ Stale' = Stale /\ hits' = hits /\ taken' = taken
  BY DEF Stale
<1>2. (\A last : SizeOfAll(live \cup {last})' = SizeOfAll(live \cup {last})) /\ SizeOfAll(live)' = SizeOfAll(live)
  BY DEF SizeOfAll
<1> QED
  BY <1>1, <1>2 DEF ScheduleInv

\* A hit makes one more entry stale at most, and none older.
LEMMA HitKeeps ==
    ASSUME ScheduleInv, NEW k \in Indexed, RecordEntryAccess(k)
    PROVE  ScheduleInv'
<1>1. PICK at \in 0 .. (Now + 1) : at > effective[k] /\ effective' = [effective EXCEPT ![k] = at]
  BY DEF RecordEntryAccess
<1>2. /\ live' = live /\ access_schedule' = access_schedule /\ next_ticket' = next_ticket
      /\ removed' = removed /\ loop' = loop /\ taken' = taken /\ hits' = hits + 1
      /\ loop \in {"evict", "cleanup"}
  BY DEF RecordEntryAccess
<1>3. /\ live \subseteq Indexed /\ removed \subseteq Indexed /\ effective \in [Indexed -> Nat] /\ next_ticket \in Nat
      /\ hits \in Nat /\ taken \in [Indexed -> Nat] /\ Now \in Nat /\ Cardinality(Indexed) \in Nat
      /\ \A j \in live : access_schedule[j].at \in Nat
  BY ScheduledPlaces, ScheduleConstants DEF ScheduleInv
<1>4. effective' \in [Indexed -> Nat] /\ \A j \in Indexed : effective[j] <= effective'[j] /\ (j # k => effective'[j] = effective[j])
  BY <1>1, <1>3
<1>5. \A j \in live : access_schedule'[j].at <= effective'[j] /\ access_schedule'[j].ticket < next_ticket'
  BY <1>2, <1>3, <1>4 DEF ScheduleInv
<1>6. \A i \in removed', j \in live' : taken'[i] <= effective'[j]
  <2> SUFFICES ASSUME NEW i \in removed, NEW j \in live PROVE taken[i] <= effective'[j]
    BY <1>2
  <2>1. taken[i] <= effective[j] /\ effective[j] <= effective'[j]
    BY <1>3, <1>4 DEF ScheduleInv
  <2> QED
    BY <1>3, <1>4, <2>1
<1>7. next_ticket' + Cardinality(Stale') <= 2 * Cardinality(Indexed) + hits'
  <2>1. Stale' \subseteq Stale \cup {k}
    BY <1>2, <1>3, <1>4 DEF Stale
  <2>2. IsFiniteSet(Stale) /\ Cardinality(Stale) \in Nat
    BY StaleFinite
  <2>3. IsFiniteSet(Stale \cup {k}) /\ Cardinality(Stale \cup {k}) <= Cardinality(Stale) + 1
    <3>1. /\ IsFiniteSet(Stale \cup {k})
          /\ Cardinality(Stale \cup {k}) = IF k \in Stale THEN Cardinality(Stale) ELSE Cardinality(Stale) + 1
      BY <2>2, FS_AddElement, Zenon
    <3> QED
      BY <2>2, <3>1
  <2>4. Cardinality(Stale') <= Cardinality(Stale \cup {k}) /\ Cardinality(Stale') \in Nat
        /\ Cardinality(Stale \cup {k}) \in Nat
    BY <2>1, <2>3, FS_Subset, FS_CardinalityType
  <2>5. next_ticket + Cardinality(Stale) <= 2 * Cardinality(Indexed) + hits
    BY DEF ScheduleInv
  <2> QED
    BY <1>2, <1>3, <2>2, <2>3, <2>4, <2>5
<1>8. (\A last : SizeOfAll(live \cup {last})' = SizeOfAll(live \cup {last})) /\ SizeOfAll(live)' = SizeOfAll(live)
  BY <1>2 DEF SizeOfAll
<1> QED
  BY <1>2, <1>3, <1>4, <1>5, <1>6, <1>7, <1>8 DEF ScheduleInv

\* Every step keeps the invariant.
LEMMA ScheduleInvNext == ScheduleInv /\ [ScheduleNext]_scheduleVars => ScheduleInv'
<1> SUFFICES ASSUME ScheduleInv, [ScheduleNext]_scheduleVars PROVE ScheduleInv'
  OBVIOUS
<1>0. /\ Scheduled = live
      /\ \A k \in live : access_schedule[k].at \in Nat /\ effective[k] \in Nat /\ access_schedule[k].at <= effective[k]
      /\ InactiveAfter \in Nat /\ Now \in Nat /\ SizeLimit \in Nat
  BY ScheduledPlaces, ScheduleConstants DEF ScheduleInv
<1>1. ASSUME Scheduled # {}
      PROVE  Oldest \in live /\ \A j \in live : access_schedule[Oldest].at <= access_schedule[j].at
  BY <1>1, OldestIsFirst
<1>2. CASE Evict
  <2>1. loop = "evict" /\ SizeOfAll(live) > SizeLimit /\ Scheduled # {} /\ Pop /\ UNCHANGED <<effective, loop, hits>>
    BY <1>2 DEF Evict
  <2>2. PICK k \in live : k = Oldest /\ \A j \in live : access_schedule[k].at <= access_schedule[j].at
    BY <1>1, <2>1
  <2>3. CASE effective[k] > access_schedule[k].at
    <3>1. Reschedule(k)
      BY <2>1, <2>2, <2>3 DEF Pop
    <3> QED
      BY <1>0, <2>1, <2>3, <3>1, RescheduleKeeps
  <2>4. CASE ~(effective[k] > access_schedule[k].at)
    <3>1. TakeOut(k)
      BY <2>1, <2>2, <2>4 DEF Pop
    <3> QED
      BY <1>0, <2>1, <2>2, <2>4, <3>1, TakeOutKeeps
  <2> QED
    BY <2>3, <2>4
<1>3. CASE EvictEnd
  <2>1. SizeOfAll({}) = 0
    BY FS_EmptySet DEF SizeOfAll
  <2>2. SizeOfAll(live) <= SizeLimit
    BY <1>0, <1>3, <2>1 DEF EvictEnd
  <2> QED
    BY <1>3, <2>2, EndKeeps DEF EvictEnd
<1>4. CASE Cleanup
  <2>1. /\ loop = "cleanup" /\ Scheduled # {} /\ access_schedule[Oldest].at < Cutoff
        /\ UNCHANGED <<effective, loop, hits>>
    BY <1>4 DEF Cleanup, CleanupDue
  <2>2. PICK k \in live : k = Oldest /\ \A j \in live : access_schedule[k].at <= access_schedule[j].at
    BY <1>1, <2>1
  <2>3. access_schedule[k].at + InactiveAfter < Now
    BY <1>0, <2>1, <2>2 DEF Cutoff
  <2>4. CASE effective[k] > access_schedule[k].at \/ effective[k] + InactiveAfter >= Now
    <3>1. Reschedule(k)
      BY <1>4, <2>2, <2>4 DEF Cleanup
    <3>2. access_schedule[k].at < effective[k]
      BY <1>0, <2>3, <2>4
    <3> QED
      BY <2>1, <3>1, <3>2, RescheduleKeeps
  <2>5. CASE ~(effective[k] > access_schedule[k].at \/ effective[k] + InactiveAfter >= Now)
    <3>1. TakeOut(k)
      BY <1>4, <2>2, <2>5 DEF Cleanup
    <3> QED
      BY <1>0, <2>1, <2>2, <2>5, <3>1, TakeOutKeeps
  <2> QED
    BY <2>4, <2>5
<1>5. CASE CleanupEnd
  <2>1. loop = "cleanup" /\ UNCHANGED <<live, access_schedule, next_ticket, effective, removed, hits, taken>>
    BY <1>5 DEF CleanupEnd
  <2>2. CASE CleanupDue
    BY <1>5, <2>1, <2>2, EndKeeps DEF CleanupEnd
  <2>3. CASE ~CleanupDue
    <3>1. loop' = "cleaned"
      BY <1>5, <2>3 DEF CleanupEnd
    <3>2. ASSUME NEW k \in live PROVE effective[k] + InactiveAfter >= Now
      <4>1. Scheduled # {}
        BY <1>0
      <4>2. PICK o \in live : o = Oldest /\ \A j \in live : access_schedule[o].at <= access_schedule[j].at
        BY <1>1, <4>1
      <4>3. ~(access_schedule[o].at < Cutoff)
        BY <2>3, <4>1, <4>2 DEF CleanupDue
      <4>4. access_schedule[o].at <= access_schedule[k].at
        BY <4>2
      <4> QED
        BY <1>0, <4>3, <4>4 DEF Cutoff
    <3> QED
      BY <2>1, <3>1, <3>2, EndKeeps
  <2> QED
    BY <2>2, <2>3
<1>6. CASE UNCHANGED scheduleVars
  BY <1>6, EndKeeps DEF scheduleVars
<1> QED
  BY <1>2, <1>3, <1>4, <1>5, <1>6, HitKeeps DEF ScheduleNext

\* A loop starts in such a state.
LEMMA ScheduleInvInit == ScheduleInit => ScheduleInv
<1> SUFFICES ASSUME ScheduleInit PROVE ScheduleInv
  OBVIOUS
<1> DEFINE c == Cardinality(Indexed)
<1>0. c \in Nat /\ IsFiniteSet(Indexed) /\ NotScheduled \notin Place /\ Now \in Nat
  BY ScheduleConstants
<1>1. /\ live \in SUBSET Indexed /\ effective \in [Indexed -> AccessTimes] /\ next_ticket = c
      /\ removed = {} /\ loop \in {"evict", "cleanup"} /\ hits = 0 /\ taken = [k \in Indexed |-> 0]
  BY DEF ScheduleInit
<1>2. PICK at \in [Indexed -> AccessTimes], ticket \in [Indexed -> 0 .. (c - 1)] :
         /\ \A k \in Indexed : at[k] <= effective[k]
         /\ \A j, k \in Indexed : ticket[j] = ticket[k] => j = k
         /\ access_schedule = [k \in Indexed |->
              IF k \in live THEN [at |-> at[k], ticket |-> ticket[k]] ELSE NotScheduled]
  BY DEF ScheduleInit
<1>3. \A k \in Indexed : at[k] \in Nat /\ ticket[k] \in Nat /\ ticket[k] < c /\ effective[k] \in Nat
  BY <1>0, <1>1, <1>2 DEF AccessTimes
<1>4. \A k \in Indexed : [at |-> at[k], ticket |-> ticket[k]] \in Place
  BY <1>3 DEF Place
<1>5. /\ \A k \in live : access_schedule[k] = [at |-> at[k], ticket |-> ticket[k]]
      /\ \A k \in Indexed : access_schedule[k] # NotScheduled <=> k \in live
      /\ access_schedule \in [Indexed -> Place \cup {NotScheduled}]
  BY <1>0, <1>1, <1>2, <1>4
<1>6. /\ \A k \in live : access_schedule[k].at <= effective[k] /\ access_schedule[k].ticket < next_ticket
      /\ \A j, k \in live : access_schedule[j].ticket = access_schedule[k].ticket => j = k
  BY <1>1, <1>2, <1>3, <1>5
<1>7. next_ticket + Cardinality(Stale) <= 2 * c + hits
  <2>1. Stale \subseteq Indexed
    BY <1>1 DEF Stale
  <2>2. Cardinality(Stale) <= c /\ Cardinality(Stale) \in Nat
    BY <1>0, <2>1, FS_Subset, FS_CardinalityType
  <2> QED
    BY <1>0, <1>1, <2>2
<1>8. effective \in [Indexed -> Nat] /\ taken \in [Indexed -> Nat] /\ hits \in Nat
  BY <1>1, <1>3
<1> QED
  BY <1>0, <1>1, <1>5, <1>6, <1>7, <1>8 DEF ScheduleInv

\* The two loops that choose what leaves the index remove what they should and
\* nothing else, for any sizes, access times and limits, although hits do not
\* touch the schedule and may come while a loop runs: eviction leaves an index
\* that fits, takes only entries used, by then, no later than the rest and not
\* one more than needed; a cleanup takes only entries unused for too long and,
\* when it reports no more, leaves none; an entry is put back once, and once
\* more for every hit, so that a loop ends (eviction_candidates,
\* inactive_cleanup_candidates).
THEOREM LoopsTakeTheRightEntries == ScheduleSpec => []LoopsCorrect
<1>1. ASSUME ScheduleInv PROVE LoopsCorrect
  <2>1. EveryEntryScheduled
    BY <1>1, ScheduledPlaces DEF EveryEntryScheduled
  <2>2. EvictsTheLeastRecentlyUsed
    BY <1>1 DEF ScheduleInv, EvictsTheLeastRecentlyUsed
  <2>3. CleansUpTheInactive
    BY <1>1 DEF ScheduleInv, CleansUpTheInactive
  <2>4. LoopsBounded
    <3>1. /\ Cardinality(Stale) \in Nat /\ Cardinality(Indexed) \in Nat /\ next_ticket \in Nat /\ hits \in Nat
          /\ next_ticket + Cardinality(Stale) <= 2 * Cardinality(Indexed) + hits
      BY <1>1, StaleFinite, ScheduleConstants DEF ScheduleInv
    <3> QED
      BY <3>1 DEF LoopsBounded
  <2> QED
    BY <2>1, <2>2, <2>3, <2>4 DEF LoopsCorrect
<1> QED
  BY <1>1, ScheduleInvInit, ScheduleInvNext, PTL DEF ScheduleSpec

-----------------------------------------------------------------------------
(* What the cache answers (CachePolicy): the bytes of a range first, then  *)
(* what is known of every stored entry and of the fetch in flight.         *)

\* The smaller of two numbers.
LEMMA MinOfTwo ==
    ASSUME NEW x \in Int, NEW y \in Int
    PROVE  Min({x, y}) = IF x <= y THEN x ELSE y
BY DEF Min

\* The larger of two numbers.
LEMMA MaxOfTwo ==
    ASSUME NEW x \in Int, NEW y \in Int
    PROVE  Max({x, y}) = IF x >= y THEN x ELSE y
BY DEF Max

TrimStates == [skip : Nat, emit : Nat, sent : Seq(Nat)]

\* Trimming a frame leads from a state to a state.
LEMMA TrimFrameType ==
    ASSUME NEW state \in TrimStates, NEW frame \in Seq(Nat)
    PROVE  TrimFrame(state, frame) \in TrimStates
<1>1. state.skip \in Nat /\ state.emit \in Nat /\ state.sent \in Seq(Nat) /\ Len(frame) \in Nat
      /\ \A i \in 1 .. Len(frame) : frame[i] \in Nat
  BY DEF TrimStates
<1>2. CASE state.emit = 0
  BY <1>2 DEF TrimFrame
<1>3. CASE state.emit # 0 /\ state.skip >= Len(frame)
  <2>1. TrimFrame(state, frame) = [state EXCEPT !.skip = state.skip - Len(frame)]
    BY <1>3, Zenon DEF TrimFrame
  <2>2. state.skip - Len(frame) \in Nat
    BY <1>1, <1>3
  <2> QED
    BY <2>1, <2>2 DEF TrimStates
<1>4. CASE state.emit # 0 /\ ~(state.skip >= Len(frame))
  <2> DEFINE end == Min({Len(frame), state.skip + state.emit})
             data == SubSeq(frame, state.skip + 1, end)
  <2>1. TrimFrame(state, frame) = [skip |-> 0, emit |-> state.emit - Len(data), sent |-> state.sent \o data]
    BY <1>4, Zenon DEF TrimFrame
  <2>2. Len(frame) \in Int /\ state.skip + state.emit \in Int
    BY <1>1
  <2>3. end = IF Len(frame) <= state.skip + state.emit THEN Len(frame) ELSE state.skip + state.emit
    BY <2>2, MinOfTwo, Zenon
  <2> HIDE DEF end
  <2>4. end \in Int /\ end <= Len(frame) /\ end <= state.skip + state.emit /\ state.skip < end
        /\ state.skip + 1 \in Int /\ end - (state.skip + 1) + 1 = end - state.skip /\ state.skip + 1 <= end
    <3> DEFINE k == state.skip
               w == state.emit
               l == Len(frame)
    <3>1. k \in Nat /\ w \in Nat /\ w # 0 /\ l \in Nat /\ k < l /\ end = IF l <= k + w THEN l ELSE k + w
      BY <1>1, <1>4, <2>3
    <3> HIDE DEF k, w, l
    <3>2. end \in Int /\ end <= l /\ end <= k + w /\ k < end /\ k + 1 \in Int
          /\ end - (k + 1) + 1 = end - k /\ k + 1 <= end
      BY <3>1
    <3> QED
      BY <3>2 DEF k, w, l
  <2>5. \A i \in state.skip + 1 .. end : frame[i] \in Nat
    <3> DEFINE k == state.skip
               l == Len(frame)
    <3>1. k \in Nat /\ l \in Nat /\ end \in Int /\ end <= l /\ \A i \in 1 .. l : frame[i] \in Nat
      BY <1>1, <2>4
    <3> HIDE DEF k, l
    <3>2. \A i \in k + 1 .. end : frame[i] \in Nat
      BY <3>1
    <3> QED
      BY <3>2 DEF k
  <2>6. data \in Seq(Nat) /\ Len(data) = end - state.skip
    <3> DEFINE i == state.skip + 1
    <3>1. i \in Int /\ i <= end /\ end - i + 1 = end - state.skip /\ \A j \in i .. end : frame[j] \in Nat
      BY <2>4, <2>5
    <3> HIDE DEF i
    <3>2. SubSeq(frame, i, end) \in Seq(Nat) /\ Len(SubSeq(frame, i, end)) = end - i + 1
      BY <2>4, <3>1, SubSeqProperties
    <3> QED
      BY <3>1, <3>2 DEF i
  <2> HIDE DEF data
  <2>7. state.emit - Len(data) \in Nat /\ state.sent \o data \in Seq(Nat)
    <3> DEFINE k == state.skip
               w == state.emit
               x == state.sent
    <3>1. k \in Nat /\ w \in Nat /\ x \in Seq(Nat) /\ end <= k + w /\ k < end
      BY <1>1, <2>4
    <3>2. end \in Int /\ Len(data) = end - k /\ data \in Seq(Nat)
      BY <2>4, <2>6
    <3> HIDE DEF k, w, x
    <3>3. w - Len(data) \in Nat /\ x \o data \in Seq(Nat)
      BY <3>1, <3>2
    <3> QED
      BY <3>3 DEF k, w, x
  <2> QED
    BY <2>1, <2>7 DEF TrimStates
<1> QED
  BY <1>2, <1>3, <1>4

\* The states Trimmed goes through.
Trims(after, plan, frames) ==
    /\ after \in [0 .. Len(frames) -> TrimStates]
    /\ after[0] = [skip |-> plan.skip, emit |-> plan.emit, sent |-> << >>]
    /\ \A n \in 1 .. Len(frames) : after[n] = TrimFrame(after[n - 1], frames[n])
    /\ Trimmed(plan, frames) = after[Len(frames)].sent

\* The recursive function inside Trimmed exists.
LEMMA TrimmedRuns ==
    ASSUME NEW plan \in [skip : Nat, emit : Nat], NEW frames \in Seq(Seq(Nat))
    PROVE  \E after : Trims(after, plan, frames)
<1> DEFINE m == Len(frames)
           c == [skip |-> plan.skip, emit |-> plan.emit, sent |-> << >>]
           step == [x \in TrimStates \X (1 .. m) |-> TrimFrame(x[1], frames[x[2]])]
           Equation(f) == f = [n \in 0 .. Len(frames) |->
                                 IF n = 0 THEN [skip |-> plan.skip, emit |-> plan.emit, sent |-> << >>]
                                 ELSE TrimFrame(f[n - 1], frames[n])]
<1>1. m \in Nat /\ c \in TrimStates /\ \A n \in 1 .. m : frames[n] \in Seq(Nat)
  BY DEF TrimStates
<1>2. step \in [TrimStates \X (1 .. m) -> TrimStates]
  <2>1. ASSUME NEW x \in TrimStates \X (1 .. m) PROVE TrimFrame(x[1], frames[x[2]]) \in TrimStates
    <3>1. x[1] \in TrimStates /\ x[2] \in 1 .. m
      OBVIOUS
    <3> QED
      BY <1>1, <3>1, TrimFrameType
  <2> QED
    BY <2>1
<1>3. \A x \in TrimStates, n \in 1 .. m : step[<<x, n>>] = TrimFrame(x, frames[n])
  OBVIOUS
<1> HIDE DEF step
<1>4. PICK f : Iterates(f, TrimStates, c, m, step)
  <2> HIDE DEF m, c
  <2> QED
    BY <1>1, <1>2, IterationExists, Zenon
<1>5. ASSUME NEW n \in 1 .. m PROVE f[n] = TrimFrame(f[n - 1], frames[n])
  <2>1. f[n] = step[<<f[n - 1], n>>]
    BY <1>4 DEF Iterates
  <2>2. f \in [0 .. m -> TrimStates] /\ n - 1 \in 0 .. m
    BY <1>1, <1>4 DEF Iterates
  <2>3. f[n - 1] \in TrimStates
    BY <2>2
  <2> QED
    BY <1>3, <2>1, <2>3
<1>6. Equation(f)
  <2>1. f \in [0 .. m -> TrimStates] /\ f[0] = c
    BY <1>4 DEF Iterates
  <2> QED
    BY <1>1, <1>5, <2>1
<1> DEFINE g == CHOOSE g : Equation(g)
<1>7. Trimmed(plan, frames) = g[Len(frames)].sent
  BY Zenon DEF Trimmed
<1>8. Equation(g)
  <2> HIDE DEF Equation
  <2> QED
    BY <1>6, Zenon
<1> HIDE DEF g
<1>9. g[0] = c /\ \A n \in 1 .. m : g[n] = TrimFrame(g[n - 1], frames[n])
  <2>1. \A n \in 0 .. m : g[n] = IF n = 0 THEN c ELSE TrimFrame(g[n - 1], frames[n])
    BY <1>8
  <2> QED
    BY <1>1, <2>1
<1> DEFINE S == {n \in Nat : n <= m => g[n] \in TrimStates}
<1>10. \A n \in 0 .. m : n \in S
  <2>1. 0 \in S
    BY <1>1, <1>9
  <2>2. \A n \in Nat : n < m /\ n \in S => n + 1 \in S
    <3> TAKE n \in Nat
    <3> HAVE n < m /\ n \in S
    <3>1. g[n] \in TrimStates /\ n + 1 \in 1 .. m /\ (n + 1) - 1 = n
      OBVIOUS
    <3>2. g[n + 1] = TrimFrame(g[n], frames[n + 1])
      BY <1>9, <3>1
    <3>3. g[n + 1] \in TrimStates
      BY <1>1, <3>1, <3>2, TrimFrameType
    <3> QED
      BY <3>3
  <2> HIDE DEF S, m
  <2> QED
    BY <1>1, <2>1, <2>2, BoundedInduction, Zenon
<1>11. g \in [0 .. m -> TrimStates]
  <2>1. \A n \in 0 .. m : g[n] \in TrimStates
    BY <1>10
  <2>2. g = [n \in 0 .. m |-> g[n]]
    BY <1>8
  <2> QED
    BY <2>1, <2>2
<1> WITNESS g
<1> QED
  BY <1>7, <1>9, <1>11 DEF Trims

\* The frames of a body, cut at these places.
CutAt(frames, bytes, cut) ==
    /\ cut \in [0 .. Len(frames) -> 0 .. Len(bytes)]
    /\ cut[0] = 0
    /\ cut[Len(frames)] = Len(bytes)
    /\ \A n \in 1 .. Len(frames) :
         cut[n - 1] < cut[n] /\ frames[n] = SubSeq(bytes, cut[n - 1] + 1, cut[n])

\* How many of the t bytes after the first s are among the first c.
Taken(s, t, c) == IF c <= s THEN 0 ELSE IF c - s <= t THEN c - s ELSE t

\* The state once c bytes have passed.
Passed(bytes, s, t, c) ==
    [skip |-> IF c <= s THEN s - c ELSE 0,
     emit |-> t - Taken(s, t, c),
     sent |-> SubSeq(bytes, s + 1, s + Taken(s, t, c))]

\* One frame leads from the state before it to the state after it.
LEMMA FramePassed ==
    ASSUME NEW bytes \in Seq(Nat), NEW s \in Nat, NEW t \in Nat, t > 0, s + t <= Len(bytes),
           NEW c \in Nat, NEW d \in Nat, c < d, d <= Len(bytes)
    PROVE  TrimFrame(Passed(bytes, s, t, c), SubSeq(bytes, c + 1, d)) = Passed(bytes, s, t, d)
<1> DEFINE frame == SubSeq(bytes, c + 1, d)
           b == Taken(s, t, c)
           e == Taken(s, t, d)
           old == SubSeq(bytes, s + 1, s + b)
<1>1. Len(bytes) \in Nat /\ \A i \in 1 .. Len(bytes) : bytes[i] \in Nat
  OBVIOUS
<1>2. frame \in Seq(Nat) /\ Len(frame) = d - c
  <2>1. \A i \in c + 1 .. d : bytes[i] \in Nat
    BY <1>1
  <2> QED
    BY <1>1, <2>1, SubSeqProperties
<1>3. /\ b \in 0 .. t /\ e \in 0 .. t
      /\ c <= s => b = 0
      /\ c > s /\ c - s < t => b = c - s
      /\ c > s /\ c - s >= t => b = t
      /\ d <= s => e = 0
      /\ d > s => e > 0
      /\ d > s /\ d - s < t => e = d - s
      /\ d > s /\ d - s >= t => e = t
  BY DEF Taken
<1>4. Passed(bytes, s, t, c) = [skip |-> IF c <= s THEN s - c ELSE 0, emit |-> t - b, sent |-> old]
  BY Zenon DEF Passed
<1>5. Passed(bytes, s, t, d) = [skip |-> IF d <= s THEN s - d ELSE 0, emit |-> t - e,
                                sent |-> SubSeq(bytes, s + 1, s + e)]
  BY Zenon DEF Passed
<1> HIDE DEF b, e
<1>6. CASE d <= s
  <2>1. b = 0 /\ e = 0 /\ c <= s /\ t - 0 # 0 /\ s - c >= d - c /\ (s - c) - (d - c) = s - d
    BY <1>3, <1>6
  <2>2. Passed(bytes, s, t, c) = [skip |-> s - c, emit |-> t - 0, sent |-> SubSeq(bytes, s + 1, s + 0)]
    BY <1>4, <2>1
  <2>3. Passed(bytes, s, t, d) = [skip |-> s - d, emit |-> t - 0, sent |-> SubSeq(bytes, s + 1, s + 0)]
    BY <1>5, <1>6, <2>1
  <2> DEFINE from == [skip |-> s - c, emit |-> t - 0, sent |-> SubSeq(bytes, s + 1, s + 0)]
  <2>4. TrimFrame(from, frame) = [from EXCEPT !.skip = (s - c) - (d - c)]
    <3> HIDE DEF frame
    <3> QED
      BY <1>2, <2>1 DEF TrimFrame
  <2> QED
    BY <2>1, <2>2, <2>3, <2>4
<1>7. CASE s < d /\ (c <= s \/ c - s < t)
  <2> DEFINE k == IF c <= s THEN s - c ELSE 0
             data == SubSeq(frame, k + 1, k + (e - b))
             from == [skip |-> k, emit |-> t - b, sent |-> old]
  <2>1. /\ k \in Nat /\ k < d - c /\ t - b # 0 /\ b < e /\ c + k = s + b /\ k + (e - b) <= d - c
        /\ s + e <= d
        /\ (IF d - c <= k + (t - b) THEN d - c ELSE k + (t - b)) = k + (e - b)
    BY <1>3, <1>7
  <2> HIDE DEF k
  <2>2. Min({Len(frame), k + (t - b)}) = k + (e - b)
    <3>1. d - c \in Int /\ k + (t - b) \in Int
      BY <1>3, <2>1
    <3>2. Min({d - c, k + (t - b)}) = IF d - c <= k + (t - b) THEN d - c ELSE k + (t - b)
      BY <3>1, MinOfTwo, Zenon
    <3>3. Len(frame) = d - c
      BY <1>2
    <3> HIDE DEF frame
    <3> QED
      BY <2>1, <3>2, <3>3
  <2>3. data = SubSeq(bytes, (s + b) + 1, s + e)
    <3> DEFINE i == c + 1
               u == k + 1
               v == k + (e - b)
    <3>1. i \in 1 .. Len(bytes) /\ d \in 1 .. Len(bytes)
      BY <1>1
    <3>2. /\ u \in 1 .. d - i + 1 /\ v \in 1 .. d - i + 1
          /\ i + u - 1 = (s + b) + 1 /\ i + v - 1 = s + e
      BY <1>3, <2>1
    <3> HIDE DEF i, u, v
    <3>3. SubSeq(SubSeq(bytes, i, d), u, v) = SubSeq(bytes, i + u - 1, i + v - 1)
      BY <3>1, <3>2, SubSeqOfSubSeq
    <3> QED
      BY <3>2, <3>3 DEF i, u, v
  <2>4. Len(data) = e - b
    <3>1. \A i \in (s + b) + 1 .. s + e : bytes[i] \in Nat
      BY <1>1, <1>3, <2>1
    <3>2. s + b \in Int /\ (s + b) + 1 \in Int /\ s + e \in Int /\ (s + b) + 1 <= s + e
          /\ (s + e) - ((s + b) + 1) + 1 = e - b
      BY <1>3, <2>1
    <3>3. Len(SubSeq(bytes, (s + b) + 1, s + e)) = e - b
      BY <3>1, <3>2, SubSeqProperties
    <3> QED
      BY <2>3, <3>3
  <2>5. old \o data = SubSeq(bytes, s + 1, s + e)
    <3> DEFINE j == s + b
    <3>1. s + 1 \in 1 .. Len(bytes) + 1 /\ j \in (s + 1) - 1 .. Len(bytes) /\ s + e \in j .. Len(bytes)
      BY <1>1, <1>3, <2>1
    <3> HIDE DEF j
    <3>2. SubSeq(bytes, s + 1, j) \o SubSeq(bytes, j + 1, s + e) = SubSeq(bytes, s + 1, s + e)
      BY <3>1, ConcatAdjacentSubSeq
    <3> QED
      BY <2>3, <3>2 DEF j
  <2>6. from.emit # 0 /\ ~(from.skip >= Len(frame))
    <3> HIDE DEF frame, old
    <3> QED
      BY <1>2, <2>1
  <2>7. SubSeq(frame, from.skip + 1, Min({Len(frame), from.skip + from.emit})) = data
    <3> HIDE DEF frame, old
    <3> QED
      BY <2>2
  <2>8. from.emit = t - b /\ from.sent = old
    <3> HIDE DEF old
    <3> QED
      OBVIOUS
  <2>9. Passed(bytes, s, t, c) = from
    BY <1>4 DEF k
  <2> HIDE DEF from, frame, data, old
  <2>10. TrimFrame(from, frame) = [skip |-> 0, emit |-> (t - b) - Len(data), sent |-> old \o data]
    BY <2>6, <2>7, <2>8 DEF TrimFrame
  <2>11. (t - b) - (e - b) = t - e
    BY <1>3
  <2>12. Passed(bytes, s, t, d) = [skip |-> 0, emit |-> t - e, sent |-> SubSeq(bytes, s + 1, s + e)]
    <3>1. ~(d <= s)
      BY <1>7
    <3> QED
      BY <1>5, <3>1, Zenon
  <2> QED
    BY <2>4, <2>5, <2>9, <2>10, <2>11, <2>12 DEF frame
<1>8. CASE s < c /\ c - s >= t
  <2>1. b = t /\ e = t /\ ~(c <= s) /\ ~(d <= s) /\ t - t = 0
    BY <1>3, <1>8
  <2> HIDE DEF frame, old
  <2>2. Passed(bytes, s, t, c) = [skip |-> 0, emit |-> 0, sent |-> old]
    BY <1>4, <2>1
  <2>3. Passed(bytes, s, t, d) = [skip |-> 0, emit |-> 0, sent |-> old]
    BY <1>5, <2>1 DEF old
  <2>4. TrimFrame([skip |-> 0, emit |-> 0, sent |-> old], frame) = [skip |-> 0, emit |-> 0, sent |-> old]
    BY DEF TrimFrame
  <2> QED
    BY <2>2, <2>3, <2>4 DEF frame
<1> QED
  BY <1>6, <1>7, <1>8

\* However the body is cut into frames, what is sent is the wanted part of it.
LEMMA TrimmedIsPart ==
    ASSUME NEW bytes \in Seq(Nat), NEW s \in Nat, NEW t \in Nat, t > 0, s + t <= Len(bytes),
           NEW frames \in Seq(Seq(Nat)), NEW cut, CutAt(frames, bytes, cut)
    PROVE  Trimmed([skip |-> s, emit |-> t], frames) = SubSeq(bytes, s + 1, s + t)
<1> DEFINE m == Len(frames)
           plan == [skip |-> s, emit |-> t]
<1>1. PICK after : Trims(after, plan, frames)
  BY TrimmedRuns
<1>2. m \in Nat
  OBVIOUS
<1> DEFINE S == {n \in Nat : n <= m => after[n] = Passed(bytes, s, t, cut[n])}
<1>3. 0 \in S
  <2>1. SubSeq(bytes, s + 1, s + 0) = << >>
    BY SubSeqEmpty
  <2>2. after[0] = [skip |-> s, emit |-> t, sent |-> << >>] /\ cut[0] = 0
    BY <1>1 DEF Trims, CutAt
  <2>3. Taken(s, t, 0) = 0 /\ 0 <= s /\ s - 0 = s /\ t - 0 = t
    BY DEF Taken
  <2>4. Passed(bytes, s, t, 0) = [skip |-> s, emit |-> t, sent |-> << >>]
    BY <2>1, <2>3 DEF Passed
  <2> QED
    BY <2>2, <2>4
<1>4. \A n \in Nat : n < m /\ n \in S => n + 1 \in S
  <2> TAKE n \in Nat
  <2> HAVE n < m /\ n \in S
  <2>1. after[n] = Passed(bytes, s, t, cut[n]) /\ n + 1 \in 1 .. m /\ (n + 1) - 1 = n
        /\ n \in 0 .. m /\ n + 1 \in 0 .. m
    BY <1>2
  <2>2. after[n + 1] = TrimFrame(after[n], frames[n + 1])
    BY <1>1, <2>1 DEF Trims
  <2>3. /\ cut[n] < cut[n + 1] /\ frames[n + 1] = SubSeq(bytes, cut[n] + 1, cut[n + 1])
        /\ cut[n] \in Nat /\ cut[n + 1] \in Nat /\ cut[n + 1] <= Len(bytes)
    <3>1. cut \in [0 .. m -> 0 .. Len(bytes)]
      BY DEF CutAt
    <3>2. cut[n] \in 0 .. Len(bytes) /\ cut[n + 1] \in 0 .. Len(bytes)
      <4> HIDE DEF m, S
      <4> QED
        BY <2>1, <3>1
    <3>3. \A j \in 1 .. m : cut[j - 1] < cut[j] /\ frames[j] = SubSeq(bytes, cut[j - 1] + 1, cut[j])
      BY DEF CutAt
    <3> HIDE DEF m, S
    <3>4. cut[n] < cut[n + 1] /\ frames[n + 1] = SubSeq(bytes, cut[n] + 1, cut[n + 1])
      BY <2>1, <3>3
    <3> QED
      BY <3>2, <3>4
  <2> HIDE DEF m
  <2>4. TrimFrame(Passed(bytes, s, t, cut[n]), SubSeq(bytes, cut[n] + 1, cut[n + 1])) = Passed(bytes, s, t, cut[n + 1])
    <3> DEFINE c == cut[n]
               d == cut[n + 1]
    <3>1. c \in Nat /\ d \in Nat /\ c < d /\ d <= Len(bytes)
      BY <2>3
    <3> HIDE DEF c, d
    <3>2. TrimFrame(Passed(bytes, s, t, c), SubSeq(bytes, c + 1, d)) = Passed(bytes, s, t, d)
      BY <3>1, FramePassed
    <3> QED
      BY <3>2 DEF c, d
  <2>5. after[n + 1] = Passed(bytes, s, t, cut[n + 1])
    BY <2>1, <2>2, <2>3, <2>4
  <2> QED
    BY <2>5
<1> HIDE DEF S
<1>5. \A n \in 0 .. m : n \in S
  <2> HIDE DEF m
  <2> QED
    BY <1>2, <1>3, <1>4, BoundedInduction, Zenon
<1>6. after[m] = Passed(bytes, s, t, Len(bytes))
  BY <1>2, <1>5 DEF S, CutAt
<1>7. Taken(s, t, Len(bytes)) = t
  BY DEF Taken
<1>8. Passed(bytes, s, t, Len(bytes)).sent = SubSeq(bytes, s + 1, s + t)
  BY <1>7 DEF Passed
<1> QED
  BY <1>1, <1>6, <1>8 DEF Trims

\* Frames cuts a body at increasing places, from its start to its end.
LEMMA FramesCut ==
    ASSUME NEW bytes \in Seq(Nat), NEW size \in FrameSizes
    PROVE  /\ Frames(bytes, size) \in Seq(Seq(Nat))
           /\ \E cut : CutAt(Frames(bytes, size), bytes, cut)
<1> DEFINE L == Len(bytes)
           m == (L + size - 1) \div size
           end(n) == Min({n * size, L})
           cut == [n \in 0 .. m |-> IF n * size <= L THEN n * size ELSE L]
           frame(n) == SubSeq(bytes, (n - 1) * size + 1, Min({n * size, L}))
<1>1. L \in Nat /\ (size = 1 \/ size = 2) /\ \A i \in 1 .. L : bytes[i] \in Nat
  BY DEF FrameSizes
<1>2. /\ m \in Nat
      /\ \A n \in 1 .. m : (n - 1) * size < L /\ n * size \in Int /\ (n - 1) * size \in Nat
      /\ m * size >= L
      /\ \A n \in 1 .. m : (n - 1) * size < n * size
      /\ \A n \in 0 .. m : n * size \in Nat
  <2> HIDE DEF L
  <2>1. CASE size = 1
    BY <1>1, <2>1
  <2>2. CASE size = 2
    BY <1>1, <2>2
  <2> QED
    BY <1>1, <2>1, <2>2
<1> HIDE DEF m, L
<1>3. ASSUME NEW n \in 1 .. m
      PROVE  /\ Min({n * size, L}) = cut[n]
             /\ cut[n - 1] = (n - 1) * size
             /\ cut[n - 1] < cut[n]
             /\ cut[n] <= L
             /\ cut[n] \in Nat /\ cut[n - 1] \in Nat
  <2> DEFINE x == n * size
             y == (n - 1) * size
  <2>1. x \in Int /\ y \in Nat /\ y < L /\ y < x /\ n - 1 \in 0 .. m /\ n \in 0 .. m
    BY <1>2
  <2>2. cut[n] = IF x <= L THEN x ELSE L
    BY <2>1
  <2>3. cut[n - 1] = IF y <= L THEN y ELSE L
    BY <2>1
  <2> HIDE DEF x, y, cut
  <2>4. Min({x, L}) = IF x <= L THEN x ELSE L
    BY <1>1, <2>1, MinOfTwo
  <2>5. Min({x, L}) = cut[n] /\ cut[n - 1] = y /\ cut[n - 1] < cut[n] /\ cut[n] <= L /\ cut[n] \in Nat
        /\ cut[n - 1] \in Nat
    BY <1>1, <2>1, <2>2, <2>3, <2>4
  <2> QED
    BY <2>5 DEF x, y
<1>4. ASSUME NEW n \in 1 .. m
      PROVE  frame(n) = SubSeq(bytes, cut[n - 1] + 1, cut[n]) /\ frame(n) \in Seq(Nat)
  <2>1. frame(n) = SubSeq(bytes, cut[n - 1] + 1, cut[n])
    <3> HIDE DEF cut
    <3> QED
      BY <1>3
  <2> DEFINE i == cut[n - 1] + 1
             j == cut[n]
  <2>2. i \in Int /\ j \in Int /\ i >= 1 /\ j <= L
    <3> HIDE DEF cut, frame
    <3>1. cut[n] <= L /\ cut[n] \in Nat /\ cut[n - 1] \in Nat
      BY <1>3, Zenon
    <3> QED
      BY <1>1, <3>1
  <2>3. \A k \in i .. j : bytes[k] \in Nat
    <3> HIDE DEF i, j
    <3> QED
      BY <1>1, <2>2
  <2>4. SubSeq(bytes, i, j) \in Seq(Nat)
    <3> HIDE DEF i, j
    <3> QED
      BY <2>2, <2>3, SubSeqProperties
  <2> HIDE DEF frame, cut
  <2> QED
    BY <2>1, <2>4
<1>5. Frames(bytes, size) = [n \in 1 .. m |-> frame(n)]
  BY DEF Frames, m, L
<1>6. Frames(bytes, size) \in Seq(Seq(Nat)) /\ Len(Frames(bytes, size)) = m
  <2> HIDE DEF frame
  <2>1. [n \in 1 .. m |-> frame(n)] \in [1 .. m -> Seq(Nat)]
    BY <1>4
  <2> QED
    BY <1>2, <1>5, <2>1
<1>7. cut \in [0 .. m -> 0 .. L]
  <2>1. ASSUME NEW n \in 0 .. m PROVE (IF n * size <= L THEN n * size ELSE L) \in 0 .. L
    <3> DEFINE x == n * size
    <3>1. x \in Nat
      BY <1>2
    <3> HIDE DEF x
    <3>2. (IF x <= L THEN x ELSE L) \in 0 .. L
      BY <1>1, <3>1
    <3> QED
      BY <3>2 DEF x
  <2> QED
    BY <2>1
<1>8. cut[0] = 0 /\ cut[m] = L
  <2>1. 0 * size = 0 /\ 0 \in 0 .. m /\ m \in 0 .. m
    BY <1>1, <1>2
  <2>2. cut[0] = 0
    BY <1>1, <2>1
  <2>3. cut[m] = L
    BY <1>1, <1>2, <2>1
  <2> QED
    BY <2>2, <2>3
<1> HIDE DEF cut, frame
<1>9. \A n \in 1 .. m : Frames(bytes, size)[n] = frame(n)
  BY <1>5
<1>10. CutAt(Frames(bytes, size), bytes, cut)
  BY <1>3, <1>4, <1>6, <1>7, <1>8, <1>9 DEF CutAt, L
<1> QED
  BY <1>6, <1>10

-----------------------------------------------------------------------------
\* What is known of the mix of a behaviour.
LEMMA MixFacts ==
    ASSUME mix \in Mixes
    PROVE  IsRule(rule) /\ (\A r \in mix.asks : IsAsk(r)) /\ \A h \in mix.replies : IsHeaders(h)
BY CachePolicyAssumption DEF rule

\* A slice begins at or before each of its bytes.
LEMMA SliceFacts ==
    ASSUME NEW x \in Nat, NEW s \in Nat \ {0}
    PROVE  (x \div s) * s \in Nat /\ (x \div s) * s <= x
<1> DEFINE q == x \div s
           m == x % s
<1>1. q \in Nat /\ m \in 0 .. s - 1 /\ x = s * q + m
  BY RemainderSplit
<1> HIDE DEF q, m
<1>2. q * s = s * q /\ s * q \in Nat
  BY <1>1
<1>3. q * s \in Nat /\ q * s <= x
  BY <1>1, <1>2
<1> QED
  BY <1>3 DEF q

\* A range that is cached lies in its slice.
LEMMA RangeFacts ==
    ASSUME IsRule(rule), NEW r, IsAsk(r), RangeOf(r) # NoRange
    PROVE  LET g == RangeOf(r) IN
           /\ r.range \in Nat \X Nat
           /\ g.first = r.range[1] /\ g.last = r.range[2]
           /\ g.first \in Nat /\ g.last \in Nat /\ g.from \in Nat /\ g.to \in Nat
           /\ g.from <= g.first /\ g.first <= g.last /\ g.last <= g.to
<1> DEFINE first == r.range[1]
           last == r.range[2]
           from == IF rule.slice = 0 THEN first ELSE (first \div rule.slice) * rule.slice
           to == IF rule.slice = 0 THEN last ELSE from + rule.slice - 1
           cond == /\ rule.range_requests = "cache"
                   /\ CacheMethod(r) \in {"GET", "HEAD"}
                   /\ r.range # NoRange
                   /\ first <= last
                   /\ last <= to
<1>1. RangeOf(r) = IF cond THEN [first |-> first, last |-> last, from |-> from, to |-> to] ELSE NoRange
  BY Zenon DEF RangeOf
<1>2. cond
  BY <1>1
<1>3. r.range \in Nat \X Nat /\ first \in Nat /\ last \in Nat
  BY <1>2 DEF IsAsk
<1>4. rule.slice \in Nat
  BY DEF IsRule
<1>5. from \in Nat /\ from <= first
  <2> HIDE DEF first
  <2>1. CASE rule.slice = 0
    BY <1>3, <2>1
  <2>2. CASE rule.slice # 0
    BY <1>3, <1>4, <2>2, SliceFacts
  <2> QED
    BY <2>1, <2>2
<1> HIDE DEF from
<1>6. to \in Nat
  BY <1>3, <1>4, <1>5
<1>7. first <= last /\ last <= to
  BY <1>2
<1> HIDE DEF to, first, last
<1>8. RangeOf(r) = [first |-> first, last |-> last, from |-> from, to |-> to]
  BY <1>1, <1>2, Zenon
<1> QED
  BY <1>3, <1>5, <1>6, <1>7, <1>8 DEF first, last

\* The bytes from one position to another.
Stretch(first, last) == [i \in 1 .. last - first + 1 |-> first + i - 1]

\* The bytes from first to last among those from from to p.
Within(from, p, first, last) ==
    {from, p, first, last} \subseteq Nat /\ from <= first /\ first <= last /\ last <= p

PartOf(from, p, first, last) ==
    SubSeq(Stretch(from, p), (first - from) + 1, (first - from) + (last - first + 1))

\* A part of consecutive bytes is consecutive bytes.
LEMMA BytesWithin ==
    ASSUME NEW from, NEW p, NEW first, NEW last, Within(from, p, first, last)
    PROVE  PartOf(from, p, first, last) = Stretch(first, last)
<1> DEFINE s == first - from
           t == last - first + 1
<1>0. s \in Nat /\ t \in Nat /\ t > 0 /\ s + t <= p - from + 1 /\ from + s = first /\ from + s + t - 1 = last
      /\ from \in Nat /\ p \in Nat
  BY DEF Within
<1> HIDE DEF s, t
<1> DEFINE b == Stretch(from, p)
<1>1. b \in Seq(Nat) /\ Len(b) = p - from + 1 /\ \A i \in 1 .. p - from + 1 : b[i] = from + i - 1
  <2>1. from \in Nat /\ p \in Nat /\ p - from + 1 \in Nat
    BY <1>0
  <2> QED
    BY <2>1 DEF Stretch
<1>2. Stretch(from + s, from + s + t - 1) = [i \in 1 .. t |-> from + s + i - 1]
  <2>1. (from + s + t - 1) - (from + s) + 1 = t
    BY <1>0
  <2> QED
    BY <2>1 DEF Stretch
<1> HIDE DEF b
<1>3. SubSeq(b, s + 1, s + t) = [i \in 1 .. t |-> b[s + i]]
  <2>1. \A i \in s + 1 .. s + t : b[i] \in Nat
    BY <1>0, <1>1
  <2>2. /\ SubSeq(b, s + 1, s + t) \in Seq(Nat)
        /\ Len(SubSeq(b, s + 1, s + t)) = t
        /\ \A i \in 1 .. t : SubSeq(b, s + 1, s + t)[i] = b[s + i]
    <3> DEFINE m == s + 1
               n == s + t
    <3>1. m \in Int /\ n \in Int /\ m <= n /\ n - m + 1 = t /\ \A i \in 1 .. t : m + i - 1 = s + i
      BY <1>0
    <3>2. \A i \in m .. n : b[i] \in Nat
      BY <2>1
    <3> HIDE DEF m, n
    <3>3. /\ SubSeq(b, m, n) \in Seq(Nat)
          /\ Len(SubSeq(b, m, n)) = IF m <= n THEN n - m + 1 ELSE 0
          /\ \A i \in 1 .. n - m + 1 : SubSeq(b, m, n)[i] = b[m + i - 1]
      BY <3>1, <3>2, SubSeqProperties
    <3>4. Len(SubSeq(b, m, n)) = t /\ \A i \in 1 .. t : SubSeq(b, m, n)[i] = b[s + i]
      BY <3>1, <3>3
    <3> QED
      BY <3>3, <3>4 DEF m, n
  <2> DEFINE d == SubSeq(b, s + 1, s + t)
  <2> HIDE DEF d
  <2>3. d \in Seq(Nat) /\ Len(d) = t /\ \A i \in 1 .. t : d[i] = b[s + i]
    BY <2>2 DEF d
  <2>4. d = [i \in 1 .. t |-> b[s + i]]
    BY <1>0, <2>3
  <2> QED
    BY <2>4 DEF d
<1>4. \A i \in 1 .. t : b[s + i] = from + s + i - 1
  <2> TAKE i \in 1 .. t
  <2>1. s + i \in 1 .. p - from + 1 /\ from + (s + i) - 1 = from + s + i - 1
    BY <1>0
  <2> QED
    BY <1>1, <2>1
<1>5. SubSeq(b, s + 1, s + t) = Stretch(from + s, from + s + t - 1)
  BY <1>2, <1>3, <1>4
<1> QED
  BY <1>0, <1>5 DEF b, s, t, PartOf

\* A slice that has the range a request asks for answers it with exactly the
\* bytes asked for.
LEMMA DeliveredRight ==
    ASSUME IsRule(rule), NEW r, IsAsk(r), RangeOf(r) # NoRange,
           NEW res, res.status = 206, NEW p \in Nat, res.part = <<RangeOf(r).from, p>>,
           RangeOf(r).last <= p, p <= RangeOf(r).to, NEW size \in FrameSizes
    PROVE  Delivered(r, res, size) = Stretch(r.range[1], r.range[2])
<1> DEFINE first == RangeOf(r).first
           last == RangeOf(r).last
           from == RangeOf(r).from
           to == RangeOf(r).to
<1>1. /\ r.range[1] = first /\ r.range[2] = last
      /\ first \in Nat /\ last \in Nat /\ from \in Nat /\ to \in Nat
      /\ from <= first /\ first <= last /\ last <= to
  BY RangeFacts
<1>2. res.part[1] = from /\ res.part[2] = p /\ last <= p /\ p <= to /\ res.part # NoRange
  <2>1. res.part \in Nat \X Nat
    BY <1>1
  <2> QED
    BY <2>1, CachePolicyAssumption
<1>3. Positions(res) = Stretch(from, p)
  BY <1>2 DEF Positions, Stretch
<1>4. ContentRangeMatches(r, res.part)
  BY <1>1, <1>2 DEF ContentRangeMatches
<1> DEFINE plan == TrimPlan(r, res)
<1>5. plan = IF first = from /\ last = to THEN NoRange
             ELSE [skip |-> first - from, emit |-> Min({last, p}) - first + 1]
  BY <1>2, <1>4 DEF TrimPlan
<1>6. Delivered(r, res, size) = IF plan = NoRange THEN Stretch(from, p)
                                ELSE Trimmed(plan, Frames(Stretch(from, p), size))
  BY <1>3, Zenon DEF Delivered
<1> HIDE DEF plan, first, last, from, to
<1>7. CASE first = from /\ last = to
  <2>1. last = p
    BY <1>1, <1>2, <1>7
  <2> QED
    BY <1>1, <1>5, <1>6, <1>7, <2>1
<1>8. CASE ~(first = from /\ last = to)
  <2> DEFINE s == first - from
             t == last - first + 1
             bytes == Stretch(from, p)
  <2>1. Min({last, p}) = last
    BY <1>1, <1>2, MinOfTwo
  <2>2. s \in Nat /\ t \in Nat /\ t > 0 /\ s + t <= p - from + 1 /\ p - from + 1 \in Nat
    BY <1>1, <1>2
  <2>3. bytes \in Seq(Nat) /\ Len(bytes) = p - from + 1
    BY <1>1, <2>2 DEF Stretch
  <2>4. plan = [skip |-> s, emit |-> t]
    BY <1>5, <1>8, <2>1
  <2> HIDE DEF s, t
  <2>5. plan # NoRange
    <3>1. plan \in [skip : Nat, emit : Nat]
      BY <2>2, <2>4
    <3> QED
      BY <3>1, CachePolicyAssumption
  <2> DEFINE frames == Frames(bytes, size)
  <2>6. frames \in Seq(Seq(Nat)) /\ \E cut : CutAt(frames, bytes, cut)
    <3> HIDE DEF bytes
    <3> QED
      BY <2>3, FramesCut
  <2> HIDE DEF frames, bytes
  <2>7. Trimmed(plan, frames) = SubSeq(bytes, s + 1, s + t)
    <3>1. s + t <= Len(bytes)
      BY <2>2, <2>3
    <3>2. PICK cut : CutAt(frames, bytes, cut)
      BY <2>6
    <3>3. Trimmed([skip |-> s, emit |-> t], frames) = SubSeq(bytes, s + 1, s + t)
      <4>1. bytes \in Seq(Nat) /\ frames \in Seq(Seq(Nat)) /\ s \in Nat /\ t \in Nat /\ t > 0
        BY <2>2, <2>3, <2>6
      <4> QED
        BY <3>1, <3>2, <4>1, TrimmedIsPart, Zenon
    <3> QED
      BY <2>4, <3>3
  <2>8. SubSeq(bytes, s + 1, s + t) = Stretch(first, last)
    <3>1. Within(from, p, first, last)
      BY <1>1, <1>2 DEF Within
    <3>2. PartOf(from, p, first, last) = Stretch(first, last)
      BY <3>1, BytesWithin, Zenon
    <3> QED
      BY <3>2 DEF PartOf, bytes, s, t
  <2> QED
    BY <1>1, <1>6, <2>5, <2>7, <2>8 DEF frames, bytes
<1> QED
  BY <1>7, <1>8
-----------------------------------------------------------------------------
\* What a response says about its own age.
Swr(h) == Duration(h, "stale-while-revalidate")
Sie(h) == OrElse(Duration(h, "stale-if-error"), rule.stale_if_error)
Unusable(h) == Contains(h, {"no-cache"})
Strict(h) == Contains(h, {"must-revalidate", "proxy-revalidate"})

\* The parts of Freshness by name.
LEMMA FreshnessParts ==
    ASSUME NEW status, NEW h
    PROVE  /\ Freshness(status, h).ttl = ResponseTtl(status, h)
           /\ Freshness(status, h).sie = Sie(h)
           /\ Freshness(status, h).swr = Swr(h)
           /\ Freshness(status, h).requires_revalidation = Unusable(h)
           /\ Freshness(status, h).must_revalidate = Strict(h)
BY DEF Freshness, Sie, Swr, Unusable, Strict

Durations == Nat \cup {NoTime}

\* A directive of Cache-Control is absent or a duration.
LEMMA DurationType ==
    ASSUME NEW h, IsHeaders(h), NEW d
    PROVE  Duration(h, d) \in Durations
<1>1. CASE Ignores("cache-control") \/ h.cc = NoHeader
  <2>1. CacheControl(h) = << >>
    BY <1>1 DEF CacheControl
  <2>2. ~Contains(h, {d})
    BY <2>1 DEF Contains
  <2> QED
    BY <2>2 DEF Duration, Durations
<1>2. CASE ~(Ignores("cache-control") \/ h.cc = NoHeader)
  <2>1. CacheControl(h) = h.cc /\ \A x \in DOMAIN h.cc : h.cc[x] \in Nat
    BY <1>2 DEF CacheControl, IsHeaders
  <2> QED
    BY <2>1 DEF Duration, Contains, Durations
<1> QED
  BY <1>1, <1>2

\* Every response has a lifetime; its windows of staleness may be absent.
LEMMA LifetimeTypes ==
    ASSUME IsRule(rule), NEW h, IsHeaders(h), time \in Nat, NEW status
    PROVE  ResponseTtl(status, h) \in Nat /\ Swr(h) \in Durations /\ Sie(h) \in Durations
<1>1. /\ Duration(h, "s-maxage") \in Durations /\ Duration(h, "max-age") \in Durations
      /\ Duration(h, "stale-if-error") \in Durations /\ Duration(h, "stale-while-revalidate") \in Durations
  BY DurationType
<1>2. rule.stale_if_error \in Durations /\ rule.default_ttl \in Nat
      /\ (status \in DOMAIN rule.ttl_by_status => rule.ttl_by_status[status] \in Nat)
  BY DEF IsRule, Durations
<1>3. Swr(h) \in Durations /\ Sie(h) \in Durations
  BY <1>1, <1>2 DEF Swr, Sie, OrElse
<1> DEFINE a == Present("x-accel-expires", h.accel)
           b == OrElse(Duration(h, "s-maxage"), Duration(h, "max-age"))
           c == IF Present("expires", h.expires) = NoTime THEN NoTime ELSE Max({h.expires - time, 0})
           d == IF status \in DOMAIN rule.ttl_by_status THEN rule.ttl_by_status[status]
                ELSE rule.default_ttl
<1>4. a \in Durations
  BY DEF Present, IsHeaders, Durations
<1>5. b \in Durations
  BY <1>1 DEF OrElse
<1>6. c \in Durations
  <2>1. CASE Present("expires", h.expires) = NoTime
    BY <2>1 DEF Durations
  <2>2. CASE Present("expires", h.expires) # NoTime
    <3>1. h.expires \in Int
      BY <2>2 DEF Present, IsHeaders
    <3> DEFINE x == h.expires - time
    <3>2. x \in Int /\ 0 \in Int
      BY <3>1
    <3> HIDE DEF x
    <3>3. Max({x, 0}) = IF x >= 0 THEN x ELSE 0
      BY <3>2, MaxOfTwo
    <3>4. Max({x, 0}) \in Nat
      BY <3>2, <3>3
    <3> QED
      BY <2>2, <3>4 DEF x, Durations
  <2> QED
    BY <2>1, <2>2
<1>7. d \in Nat
  BY <1>2
<1>8. ResponseTtl(status, h) = OrElse(a, OrElse(b, OrElse(c, d)))
  BY Zenon DEF ResponseTtl
<1> HIDE DEF a, b, c, d
<1>9. OrElse(a, OrElse(b, OrElse(c, d))) \in Nat
  BY <1>4, <1>5, <1>6, <1>7 DEF OrElse, Durations
<1> QED
  BY <1>3, <1>8, <1>9

\* A request that is looked up, or what the background update makes of one.
AskInv(r) ==
    /\ IsAsk(r)
    /\ r.method \in {"GET", "HEAD"}
    /\ r.marks \cap {"authorization", "no-store"} = {}
    /\ r.range # NoRange => RangeOf(r) # NoRange

\* A response kept for a range is the part of the resource in its slice.
SliceInv(r, res) ==
    RangeOf(r) # NoRange =>
        res.status = 206 /\ res.part = <<RangeOf(r).from, Min({RangeOf(r).to, Total - 1})>>

\* The deadlines of an entry come from its headers and the rule, its key from
\* the request it was fetched for, and what its tag says is known.
EntryShape(e) ==
    /\ e.kind = "response"
    /\ DOMAIN e.res = {"status", "h", "ver", "part"} /\ IsHeaders(e.res.h)
    /\ e.expires \in Nat
    /\ e.grace = Max({Deadline(e.expires, rule.grace), Deadline(e.expires, Swr(e.res.h))})
    /\ e.sie = Deadline(e.expires, Sie(e.res.h)) /\ e.swr = Deadline(e.expires, Swr(e.res.h))
    /\ Unusable(e.res.h) => e.requires_revalidation
    /\ Strict(e.res.h) => e.must_revalidate
    /\ AskInv(e.fetched_by)
    /\ e.base = BaseKey(e.fetched_by) /\ e.base.method = "GET"
    /\ e.vary = VaryValues(e.fetched_by, e.res.h)
    /\ e.sure => e.res.ver = e.confirmed /\ e.res.h.tag \in {NoHeader, e.res.ver}
    /\ SliceInv(e.fetched_by, e.res)

\* What was not meant for all is kept only to be asked about.
EntryInv(e) == EntryShape(e) /\ (e.requires_revalidation \/ ~Personal(e.res.h))

FetchInv(f) ==
    /\ AskInv(f.ask)
    /\ f.base = BaseKey(f.ask)
    /\ f.stores => f.base.method = "GET"
    /\ f.entry # NotCached =>
         f.stores /\ EntryInv(f.entry) /\ f.entry.base = f.base /\ MatchesVary(f.ask, f.entry.vary)

PolicyInv ==
    /\ mix \in Mixes /\ time \in Nat
    /\ \A e \in store : e.kind = "response" => EntryInv(e)
    /\ fetch # NoFetch => FetchInv(fetch)

\* Everything above depends on the mix alone, which never changes.
LEMMA Steady ==
    ASSUME mix' = mix
    PROVE  /\ \A r : RangeOf(r)' = RangeOf(r)
           /\ \A r : BaseKey(r)' = BaseKey(r)
           /\ \A h : Swr(h)' = Swr(h)
           /\ \A h : Sie(h)' = Sie(h)
           /\ \A h : Unusable(h)' <=> Unusable(h)
           /\ \A h : Strict(h)' <=> Strict(h)
           /\ \A h : Personal(h)' <=> Personal(h)
           /\ \A r, h : VaryValues(r, h)' = VaryValues(r, h)
<1>1. rule' = rule
  BY DEF rule
<1>2. \A n : Ignores(n)' <=> Ignores(n)
  BY <1>1 DEF Ignores
<1>3. \A h : CacheControl(h)' = CacheControl(h)
  BY <1>2 DEF CacheControl
<1>4. \A h, ds : Contains(h, ds)' <=> Contains(h, ds)
  BY <1>3 DEF Contains
<1>5. \A h, d : Duration(h, d)' = Duration(h, d)
  BY <1>3, <1>4 DEF Duration
<1>6. \A h : Swr(h)' = Swr(h) /\ Sie(h)' = Sie(h)
  BY <1>1, <1>5 DEF Swr, Sie, OrElse
<1>7. \A h : (Unusable(h)' <=> Unusable(h)) /\ (Strict(h)' <=> Strict(h))
  BY <1>4 DEF Unusable, Strict
<1>8. \A h : Personal(h)' <=> Personal(h)
  BY <1>2, <1>4 DEF Personal, VaryIsSupported
<1>9. \A r : CacheMethod(r)' = CacheMethod(r)
  BY <1>1 DEF CacheMethod
<1>10. \A r : RangeOf(r)' = RangeOf(r)
  BY <1>1, <1>9 DEF RangeOf
<1>11. \A r : BaseKey(r)' = BaseKey(r)
  BY <1>1, <1>9, <1>10 DEF BaseKey
<1>12. \A r, h : VaryValues(r, h)' = VaryValues(r, h)
  <2> TAKE r, h
  <2> DEFINE S == IF Ignores("vary") \/ h.vary = NoHeader \/ "*" \in h.vary THEN {} ELSE h.vary
  <2>1. VaryValues(r, h) = [n \in S |-> r.headers[n]]
    BY DEF VaryValues
  <2>2. VaryValues(r, h)' = [n \in S' |-> r.headers[n]]
    BY DEF VaryValues
  <2>3. S' = S
    BY <1>2
  <2> HIDE DEF S
  <2> QED
    BY <2>1, <2>2, <2>3
<1> QED
  BY <1>6, <1>7, <1>8, <1>10, <1>11, <1>12

\* So what is known of an entry or a fetch stays known.
LEMMA SteadyEntries ==
    ASSUME mix' = mix
    PROVE  /\ \A r : AskInv(r) => AskInv(r)'
           /\ \A e : EntryInv(e) => EntryInv(e)'
           /\ \A f : FetchInv(f) => FetchInv(f)'
<1>1. rule' = rule
  BY DEF rule
<1>2. \A r : RangeOf(r)' = RangeOf(r)
  BY Steady
<1>3. \A r : AskInv(r) => AskInv(r)'
  BY <1>2 DEF AskInv
<1>4. \A r, res : SliceInv(r, res) => SliceInv(r, res)'
  BY <1>2 DEF SliceInv
<1>5. \A e : EntryInv(e) => EntryInv(e)'
  <2> TAKE e
  <2> HAVE EntryInv(e)
  <2>1. /\ Swr(e.res.h)' = Swr(e.res.h) /\ Sie(e.res.h)' = Sie(e.res.h)
        /\ Unusable(e.res.h)' <=> Unusable(e.res.h)
        /\ Strict(e.res.h)' <=> Strict(e.res.h)
        /\ Personal(e.res.h)' <=> Personal(e.res.h)
        /\ BaseKey(e.fetched_by)' = BaseKey(e.fetched_by)
        /\ VaryValues(e.fetched_by, e.res.h)' = VaryValues(e.fetched_by, e.res.h)
    BY Steady, Zenon
  <2>2. AskInv(e.fetched_by)' /\ SliceInv(e.fetched_by, e.res)'
    BY <1>3, <1>4 DEF EntryInv, EntryShape
  <2> QED
    BY <1>1, <2>1, <2>2 DEF EntryInv, EntryShape
<1>6. \A f : FetchInv(f) => FetchInv(f)'
  <2> TAKE f
  <2> HAVE FetchInv(f)
  <2>1. BaseKey(f.ask)' = BaseKey(f.ask)
    BY Steady, Zenon
  <2> QED
    BY <1>3, <1>5, <2>1 DEF FetchInv
<1> QED
  BY <1>3, <1>5, <1>6

-----------------------------------------------------------------------------
\* Requests that are looked up are plain ones.
LEMMA AskOfLookup ==
    ASSUME mix \in Mixes, NEW r, LooksUp(r)
    PROVE  AskInv(r)
<1>1. r \in mix.asks /\ ~CacheRequestBypass(r)
  BY DEF LooksUp
<1>2. IsAsk(r)
  BY <1>1, MixFacts
<1>3. /\ r.method \in {"GET", "HEAD"}
      /\ r.marks \cap {"authorization", "no-store"} = {}
      /\ r.range # NoRange => RangeOf(r) # NoRange
  BY <1>1 DEF CacheRequestBypass
<1> QED
  BY <1>2, <1>3 DEF AskInv

\* Two requests with one key ask for the same slice and coding.
LEMMA SameKey ==
    ASSUME IsRule(rule), NEW q, AskInv(q), NEW r, AskInv(r), BaseKey(q) = BaseKey(r)
    PROVE  q.coding = r.coding /\ \A res : SliceInv(q, res) => SliceInv(r, res)
<1>1. q.coding = r.coding
  BY DEF BaseKey
<1>2. (IF RangeOf(q) = NoRange THEN NoRange ELSE <<RangeOf(q).from, RangeOf(q).to>>)
        = (IF RangeOf(r) = NoRange THEN NoRange ELSE <<RangeOf(r).from, RangeOf(r).to>>)
  BY DEF BaseKey
<1>3. CASE RangeOf(r) = NoRange
  BY <1>1, <1>3 DEF SliceInv
<1>4. CASE RangeOf(r) # NoRange
  <2>1. RangeOf(r).from \in Nat /\ RangeOf(r).to \in Nat
    BY <1>4, RangeFacts DEF AskInv
  <2>2. <<RangeOf(r).from, RangeOf(r).to>> # NoRange
    <3>1. <<RangeOf(r).from, RangeOf(r).to>> \in Nat \X Nat
      BY <2>1
    <3> QED
      BY <3>1, CachePolicyAssumption
  <2>3. RangeOf(q) # NoRange /\ RangeOf(q).from = RangeOf(r).from /\ RangeOf(q).to = RangeOf(r).to
    BY <1>2, <1>4, <2>2
  <2> QED
    BY <1>1, <1>4, <2>3 DEF SliceInv
<1> QED
  BY <1>3, <1>4

\* A request whose answers may be kept, and the same one made a GET in the
\* background, have a key of the method GET.
LEMMA KeyOfGet ==
    ASSUME NEW r, AskInv(r)
    PROVE  /\ BaseKey(r).method = "GET" <=> CacheMethod(r) = "GET"
           /\ BaseKey(r).method = "GET" =>
                AskInv([r EXCEPT !.method = "GET"]) /\ BaseKey([r EXCEPT !.method = "GET"]) = BaseKey(r)
<1> DEFINE g == [r EXCEPT !.method = "GET"]
<1>1. r.method \in {"GET", "HEAD"} /\ DOMAIN r = {"method", "marks", "range", "coding", "holds", "headers"}
  BY DEF AskInv, IsAsk
<1>2. BaseKey(r).method = "GET" <=> CacheMethod(r) = "GET"
  BY <1>1 DEF BaseKey, CacheMethod
<1>3. /\ g.method = "GET" /\ g.marks = r.marks /\ g.range = r.range /\ g.coding = r.coding
      /\ DOMAIN g = DOMAIN r
  BY <1>1
<1> HIDE DEF g
<1>4. CacheMethod(r) \in {"GET", "HEAD"} /\ CacheMethod(g) = "GET"
  BY <1>1, <1>3 DEF CacheMethod
<1>5. RangeOf(g) = RangeOf(r)
  BY <1>3, <1>4 DEF RangeOf
<1>6. AskInv(g)
  BY <1>3, <1>5 DEF AskInv, IsAsk
<1>7. BaseKey(r).method = "GET" => BaseKey(g) = BaseKey(r)
  BY <1>2, <1>3, <1>4, <1>5 DEF BaseKey
<1> QED
  BY <1>2, <1>6, <1>7 DEF g

\* What is known of a response when an entry is made of it.
EntryReady(r, res, sure) ==
    /\ AskInv(r) /\ BaseKey(r).method = "GET"
    /\ DOMAIN res = {"status", "h", "ver", "part"} /\ IsHeaders(res.h)
    /\ SliceInv(r, res)
    /\ sure => res.ver = origin /\ res.h.tag \in {NoHeader, res.ver}

EntrySound(e, res) ==
    /\ EntryShape(e) /\ EntryShape([e EXCEPT !.requires_revalidation = TRUE])
    /\ e.res = res /\ [e EXCEPT !.requires_revalidation = TRUE].requires_revalidation

\* A response made an entry has the shape of one.
LEMMA EntryMade ==
    ASSUME IsRule(rule), time \in Nat, NEW r, NEW res, NEW sure, EntryReady(r, res, sure)
    PROVE  EntrySound(ResponseEntry(r, BaseKey(r), res, sure), res)
<1>0. /\ AskInv(r) /\ BaseKey(r).method = "GET"
      /\ DOMAIN res = {"status", "h", "ver", "part"} /\ IsHeaders(res.h)
      /\ SliceInv(r, res)
      /\ sure => res.ver = origin /\ res.h.tag \in {NoHeader, res.ver}
  BY DEF EntryReady
<1> DEFINE base == BaseKey(r)
           e == ResponseEntry(r, base, res, sure)
<1> DEFINE f == Freshness(res.status, res.h)
           expires == time + f.ttl
           grace == Max({Deadline(expires, rule.grace), Deadline(expires, f.swr)})
           keep == Max({Deadline(expires, rule.keep), grace, Deadline(expires, f.sie)})
<1>1. f.ttl \in Nat /\ f.sie = Sie(res.h) /\ f.swr = Swr(res.h)
      /\ f.requires_revalidation = Unusable(res.h) /\ f.must_revalidate = Strict(res.h)
  <2>1. ResponseTtl(res.status, res.h) \in Nat
    BY <1>0, LifetimeTypes
  <2> HIDE DEF f
  <2> QED
    BY <2>1, FreshnessParts DEF f
<1>2. ResponseEntry(r, base, res, sure) =
        [kind |-> "response", base |-> base, vary |-> VaryValues(r, res.h),
         stored |-> time, expires |-> expires, grace |-> grace,
         keep |-> keep,
         sie |-> Deadline(expires, f.sie), swr |-> Deadline(expires, f.swr),
         requires_revalidation |-> f.requires_revalidation,
         must_revalidate |-> f.must_revalidate,
         res |-> res, fetched_by |-> r, confirmed |-> origin, sure |-> sure]
  BY Zenon DEF ResponseEntry
<1> HIDE DEF f, base
<1>3. expires \in Nat
  BY <1>1
<1>4. grace = Max({Deadline(expires, rule.grace), Deadline(expires, Swr(res.h))})
  BY <1>1
<1> HIDE DEF expires, grace, keep, e
<1>a. e = [kind |-> "response", base |-> base, vary |-> VaryValues(r, res.h),
           stored |-> time, expires |-> expires, grace |-> grace,
           keep |-> keep,
           sie |-> Deadline(expires, f.sie), swr |-> Deadline(expires, f.swr),
           requires_revalidation |-> f.requires_revalidation,
           must_revalidate |-> f.must_revalidate,
           res |-> res, fetched_by |-> r, confirmed |-> origin, sure |-> sure]
  BY <1>2 DEF e
<1> DEFINE n == [e EXCEPT !.requires_revalidation = TRUE]
<1>5. /\ e.kind = "response" /\ e.base = base /\ e.vary = VaryValues(r, res.h)
      /\ e.expires = expires /\ e.grace = grace
      /\ e.sie = Deadline(expires, f.sie) /\ e.swr = Deadline(expires, f.swr)
      /\ e.requires_revalidation = f.requires_revalidation /\ e.must_revalidate = f.must_revalidate
      /\ e.res = res /\ e.fetched_by = r /\ e.confirmed = origin /\ e.sure = sure
  BY <1>a
<1>6. /\ n.kind = "response" /\ n.base = base /\ n.vary = VaryValues(r, res.h)
      /\ n.expires = expires /\ n.grace = grace
      /\ n.sie = Deadline(expires, f.sie) /\ n.swr = Deadline(expires, f.swr)
      /\ n.requires_revalidation = TRUE /\ n.must_revalidate = f.must_revalidate
      /\ n.res = res /\ n.fetched_by = r /\ n.confirmed = origin /\ n.sure = sure
  BY <1>a
<1> HIDE DEF n
<1>7. EntryShape(e)
  BY <1>0, <1>1, <1>3, <1>4, <1>5 DEF EntryShape, base
<1>8. EntryShape(n)
  BY <1>0, <1>1, <1>3, <1>4, <1>6 DEF EntryShape, base
<1> QED
  BY <1>5, <1>6, <1>7, <1>8 DEF n, e, base, EntrySound

-----------------------------------------------------------------------------
\* What an answer from the store must satisfy, as a condition on the answer.
InTime(r, e, at) ==
    /\ ~ForcesRevalidation(r)
    /\ ~Unusable(e.res.h)
    /\ at > e.expires =>
         ~Strict(e.res.h) /\ at <= e.expires + Max({rule.grace, Swr(e.res.h), Sie(e.res.h)})

ForAll(r, e) ==
    /\ ~Personal(e.res.h)
    /\ e.fetched_by.marks \cap {"authorization", "no-store"} = {}
    /\ e.fetched_by.coding = r.coding
    /\ (~Ignores("vary") /\ e.res.h.vary # NoHeader) =>
         \A n \in e.res.h.vary : e.fetched_by.headers[n] = r.headers[n]

Partial(from, r, res) ==
    (r.range # NoRange /\ r.range[2] < Total) =>
        /\ from # "origin" => res.status = 206
        /\ res.status = 206 =>
             \A size \in FrameSizes : Delivered(r, res, size) = Stretch(r.range[1], r.range[2])

AnswerInv == NothingServedTooOld /\ AnswersTheAsker

\* An answer with these three conditions satisfies the properties.
LEMMA Replied ==
    ASSUME mix' = mix, NEW from, NEW r, NEW e, NEW res, Reply(from, r, e, res),
           from \in {"hit", "updating", "stale"} => InTime(r, e, time) /\ ForAll(r, e),
           Partial(from, r, res)
    PROVE  AnswerInv'
<1>1. PICK size \in FrameSizes :
         answer' = [from |-> from, ask |-> r, entry |-> e, at |-> time, res |-> res,
                    body |-> Delivered(r, res, size)]
  BY DEF Reply
<1> DEFINE sent == Delivered(r, res, size)
<1> HIDE DEF sent
<1>2. /\ answer'.from = from /\ answer'.ask = r /\ answer'.entry = e /\ answer'.at = time
      /\ answer'.res = res /\ answer'.body = sent
  BY <1>1 DEF sent
<1>3. rule' = rule /\ Ignores("vary")' = Ignores("vary")
  BY DEF rule, Ignores
<1>4. NothingServedTooOld'
  <2> SUFFICES ASSUME FromStore'
               PROVE  LET f == Freshness(e.res.status, e.res.h)'
                      IN  /\ ~ForcesRevalidation(r)
                          /\ ~f.requires_revalidation
                          /\ time > e.expires =>
                               /\ ~f.must_revalidate
                               /\ time <= e.expires + Max({rule.grace, f.swr, f.sie})
    BY <1>2, <1>3 DEF NothingServedTooOld, Freshness
  <2> DEFINE f == Freshness(e.res.status, e.res.h)
  <2>1. InTime(r, e, time)
    BY <1>2 DEF FromStore
  <2>2. /\ f'.sie = Sie(e.res.h)' /\ f'.swr = Swr(e.res.h)'
        /\ f'.requires_revalidation = Unusable(e.res.h)' /\ f'.must_revalidate = Strict(e.res.h)'
    BY DEF Freshness, Sie, Swr, Unusable, Strict
  <2>3. /\ f'.sie = Sie(e.res.h) /\ f'.swr = Swr(e.res.h)
        /\ f'.requires_revalidation <=> Unusable(e.res.h)
        /\ f'.must_revalidate <=> Strict(e.res.h)
    <3> HIDE DEF f
    <3> QED
      BY <2>2, Steady
  <2> HIDE DEF f
  <2>4. /\ ~ForcesRevalidation(r)
        /\ ~f'.requires_revalidation
        /\ time > e.expires =>
             /\ ~f'.must_revalidate
             /\ time <= e.expires + Max({rule.grace, f'.swr, f'.sie})
    BY <2>1, <2>3 DEF InTime
  <2> QED
    BY <2>4 DEF f
<1>5. PrivateStaysPrivate'
  <2>1. Personal(e.res.h)' <=> Personal(e.res.h)
    BY Steady
  <2> QED
    BY <1>2, <2>1 DEF PrivateStaysPrivate, FromStore, ForAll
<1>6. VariantServed'
  BY <1>2, <1>3 DEF VariantServed, FromStore, ForAll
<1>7. RangeServed'
  <2> SUFFICES ASSUME r.range # NoRange, r.range[2] < Total
               PROVE  /\ from # "origin" => res.status = 206
                      /\ res.status = 206 => sent = Stretch(r.range[1], r.range[2])
    BY <1>2 DEF RangeServed, Stretch
  <2> QED
    BY DEF Partial, sent
<1> QED
  BY <1>4, <1>5, <1>6, <1>7 DEF AnswerInv, AnswersTheAsker

\* Neither does a step that answers nobody break them.
LEMMA NotReplied == NoReply => AnswerInv'
BY DEF NoReply, AnswerInv, AnswersTheAsker, NothingServedTooOld, PrivateStaysPrivate, VariantServed,
       RangeServed, FromStore

\* The largest of three numbers is at least each of them.
LEMMA MaxOfThree ==
    ASSUME NEW x \in Int, NEW y \in Int, NEW z \in Int
    PROVE  Max({x, y, z}) \in Int /\ x <= Max({x, y, z}) /\ y <= Max({x, y, z}) /\ z <= Max({x, y, z})
<1> DEFINE S == {x, y, z}
<1>1. \E m \in S : \A n \in S : m >= n
  <2>1. CASE x >= y /\ x >= z
    BY <2>1
  <2>2. CASE y >= x /\ y >= z
    BY <2>2
  <2>3. CASE z >= x /\ z >= y
    BY <2>3
  <2> QED
    BY <2>1, <2>2, <2>3
<1>2. Max(S) \in S /\ \A n \in S : Max(S) >= n
  <2> HIDE DEF S
  <2> QED
    BY <1>1 DEF Max
<1> QED
  BY <1>2

\* When an entry may answer without the origin's word.
Usable(r, e) ==
    /\ ~ForcesRevalidation(r) /\ ~e.requires_revalidation
    /\ \/ time <= e.expires
       \/ ~e.must_revalidate /\ (time <= e.grace \/ time <= e.swr \/ time <= e.sie)

\* An entry that may answer is not too old: its deadlines come from its headers.
LEMMA UsableInTime ==
    ASSUME IsRule(rule), time \in Nat, NEW e, EntryInv(e), NEW r, Usable(r, e)
    PROVE  InTime(r, e, time)
<1> DEFINE h == e.res.h
           x == e.expires
           g == rule.grace
           w == Swr(h)
           s == Sie(h)
<1>1. /\ IsHeaders(h) /\ x \in Nat
      /\ e.grace = Max({Deadline(x, g), Deadline(x, w)}) /\ e.sie = Deadline(x, s) /\ e.swr = Deadline(x, w)
      /\ ~Unusable(h) /\ (Strict(h) => e.must_revalidate)
  BY DEF EntryInv, EntryShape, Usable
<1>2. g \in Durations /\ w \in Durations /\ s \in Durations
  BY <1>1, LifetimeTypes DEF IsRule, Durations
<1> HIDE DEF h, x, g, w, s
<1>3. \A d \in Durations : Deadline(x, d) \in Int /\ (time <= Deadline(x, d) => time <= x + d)
  BY <1>1 DEF Deadline, Durations, NoTime
<1>4. time <= e.grace => time <= Deadline(x, g) \/ time <= Deadline(x, w)
  <2> DEFINE a == Deadline(x, g)
             b == Deadline(x, w)
  <2>1. a \in Int /\ b \in Int /\ e.grace = Max({a, b})
    BY <1>1, <1>2, <1>3
  <2> HIDE DEF a, b
  <2>2. e.grace = IF a >= b THEN a ELSE b
    BY <2>1, MaxOfTwo
  <2>3. time <= e.grace => time <= a \/ time <= b
    BY <2>1, <2>2
  <2> QED
    BY <2>3 DEF a, b
<1>5. g \in Int /\ w \in Int /\ s \in Int
  BY <1>2 DEF Durations, NoTime
<1> DEFINE m == Max({g, w, s})
<1>6. m \in Int /\ g <= m /\ w <= m /\ s <= m
  BY <1>5, MaxOfThree
<1> HIDE DEF m
<1>7. ASSUME time > x PROVE ~Strict(h) /\ time <= x + m
  <2>1. ~e.must_revalidate /\ (time <= e.grace \/ time <= e.swr \/ time <= e.sie)
    BY <1>1, <1>7 DEF Usable, x
  <2>2. time <= x + g \/ time <= x + w \/ time <= x + s
    BY <1>1, <1>2, <1>3, <1>4, <2>1
  <2> QED
    BY <1>1, <1>5, <1>6, <2>1, <2>2
<1> QED
  BY <1>1, <1>7 DEF InTime, Usable, h, x, g, w, s, m

\* An entry that matches a request, and may be used, was meant for it.
LEMMA MatchingForAll ==
    ASSUME IsRule(rule), NEW e, EntryInv(e), ~e.requires_revalidation, NEW r, AskInv(r),
           e.base = BaseKey(r), MatchesVary(r, e.vary)
    PROVE  ForAll(r, e)
<1>1. ~Personal(e.res.h) /\ AskInv(e.fetched_by) /\ BaseKey(e.fetched_by) = BaseKey(r)
      /\ e.vary = VaryValues(e.fetched_by, e.res.h)
  BY DEF EntryInv, EntryShape
<1>2. e.fetched_by.coding = r.coding
  BY <1>1, SameKey
<1>3. e.fetched_by.marks \cap {"authorization", "no-store"} = {}
  BY <1>1 DEF AskInv
<1>4. ASSUME ~Ignores("vary"), e.res.h.vary # NoHeader, NEW n \in e.res.h.vary
      PROVE  e.fetched_by.headers[n] = r.headers[n]
  <2>1. "*" \notin e.res.h.vary
    BY <1>1, <1>4 DEF Personal, VaryIsSupported
  <2>2. e.vary = [k \in e.res.h.vary |-> e.fetched_by.headers[k]]
    BY <1>1, <1>4, <2>1 DEF VaryValues
  <2>3. n \in DOMAIN e.vary /\ e.vary[n] = e.fetched_by.headers[n]
    BY <1>4, <2>2
  <2> QED
    BY <2>3 DEF MatchesVary
<1> QED
  BY <1>1, <1>2, <1>3, <1>4 DEF ForAll

\* A stored slice answers every range that is cached in it.
LEMMA SlicePartial ==
    ASSUME IsRule(rule), NEW r, AskInv(r), NEW res, SliceInv(r, res), NEW from
    PROVE  Partial(from, r, res)
<1> SUFFICES ASSUME r.range # NoRange, r.range[2] < Total
             PROVE  /\ res.status = 206
                    /\ \A size \in FrameSizes : Delivered(r, res, size) = Stretch(r.range[1], r.range[2])
  BY DEF Partial
<1> DEFINE g == RangeOf(r)
<1>1. g # NoRange /\ IsAsk(r)
  BY DEF AskInv
<1>2. /\ g.last = r.range[2]
      /\ g.last \in Nat /\ g.from \in Nat /\ g.to \in Nat /\ g.last <= g.to
  BY <1>1, RangeFacts
<1>3. res.status = 206 /\ res.part = <<g.from, Min({g.to, Total - 1})>>
  BY <1>1 DEF SliceInv
<1> DEFINE p == Min({g.to, Total - 1})
<1>4. p \in Nat /\ g.last <= p /\ p <= g.to
  <2> DEFINE a == g.to
             b == Total - 1
  <2>1. a \in Nat /\ b \in Nat /\ g.last <= a /\ g.last <= b
    BY <1>2, CachePolicyAssumption
  <2> HIDE DEF a, b
  <2>2. Min({a, b}) = IF a <= b THEN a ELSE b
    BY <2>1, MinOfTwo
  <2>3. Min({a, b}) \in Nat /\ g.last <= Min({a, b}) /\ Min({a, b}) <= a
    <3> HIDE DEF g
    <3> QED
      BY <1>2, <2>1, <2>2
  <2> QED
    BY <2>3 DEF a, b
<1> HIDE DEF p
<1>5. res.part = <<RangeOf(r).from, p>> /\ RangeOf(r).last <= p /\ p <= RangeOf(r).to
  BY <1>3, <1>4 DEF p
<1> QED
  BY <1>1, <1>3, <1>4, <1>5, DeliveredRight

\* So an answer from the store satisfies the properties.
LEMMA ServedFromStore ==
    ASSUME PolicyInv, mix' = mix, NEW e, EntryInv(e), NEW r, AskInv(r), e.base = BaseKey(r),
           MatchesVary(r, e.vary), Usable(r, e), NEW from \in {"hit", "updating", "stale"},
           Reply(from, r, e, e.res)
    PROVE  AnswerInv'
<1>1. IsRule(rule) /\ time \in Nat
  BY MixFacts DEF PolicyInv
<1>2. InTime(r, e, time)
  BY <1>1, UsableInTime
<1>3. ForAll(r, e)
  BY <1>1, MatchingForAll DEF Usable
<1>4. SliceInv(r, e.res)
  <2>1. AskInv(e.fetched_by) /\ BaseKey(e.fetched_by) = BaseKey(r) /\ SliceInv(e.fetched_by, e.res)
    BY DEF EntryInv, EntryShape
  <2> QED
    BY <1>1, <2>1, SameKey
<1>5. Partial(from, r, e.res)
  BY <1>1, <1>4, SlicePartial
<1> QED
  BY <1>2, <1>3, <1>5, Replied

-----------------------------------------------------------------------------
\* Lookups.

\* An entry that a request hits is one made for a request with the same key.
LEMMA HitFacts ==
    ASSUME PolicyInv, NEW r, NEW e, Hits(r, e)
    PROVE  /\ AskInv(r) /\ e \in store /\ e.base = BaseKey(r) /\ MatchesVary(r, e.vary)
           /\ e.kind = "response" => EntryInv(e)
  BY AskOfLookup DEF Hits, Matching, PolicyInv

\* What StaleAllowed allows is usable.
LEMMA GracefulUsable ==
    ASSUME NEW r, NEW e, StaleAllowed(r, e)
    PROVE  Usable(r, e)
<1>1. time <= e.grace \/ time <= e.swr
  BY DEF StaleAllowed, Phase
<1> QED
  BY <1>1 DEF StaleAllowed, Usable

\* A step that leaves the mix alone, adds only sound entries and starts only
\* sound fetches.
LEMMA PolicyInvKept ==
    ASSUME PolicyInv, mix' = mix, time' \in Nat,
           \A e \in store' : e \in store \/ e.kind = "pass" \/ EntryInv(e),
           fetch' # NoFetch => fetch' = fetch \/ FetchInv(fetch')
    PROVE  PolicyInv'
<1>1. \A e : EntryInv(e) => EntryInv(e)'
  BY SteadyEntries
<1>2. \A f : FetchInv(f) => FetchInv(f)'
  BY SteadyEntries
<1>3. PICK f : f = fetch'
  OBVIOUS
<1>4. f # NoFetch => FetchInv(f)
  BY <1>3 DEF PolicyInv
<1>5. f # NoFetch => FetchInv(f)'
  BY <1>2, <1>4
<1>6. (fetch # NoFetch => FetchInv(fetch))'
  BY <1>3, <1>5 DEF FetchInv
<1>7. PICK s : s = store'
  OBVIOUS
<1>8. \A e \in s : e.kind = "response" => EntryInv(e)
  BY <1>7 DEF PolicyInv
<1>9. \A e \in s : e.kind = "response" => EntryInv(e)'
  BY <1>1, <1>8
<1>10. mix' \in Mixes
  BY DEF PolicyInv
<1> QED
  BY <1>6, <1>7, <1>9, <1>10 DEF PolicyInv

Kept == PolicyInv' /\ AnswerInv'

\* Lookups that need no fetch.
LEMMA KeptByLookup ==
    ASSUME PolicyInv, NEW r \in mix.asks, NEW e \in store,
           DropDead(r, e) \/ HitFresh(r, e) \/ HitUpdating(r, e)
    PROVE  Kept
<1>1. mix' = mix /\ time' = time /\ fetch' = fetch /\ store' \subseteq store
  BY DEF DropDead, HitFresh, HitUpdating
<1>2. PolicyInv'
  <2>1. time' \in Nat
    BY <1>1 DEF PolicyInv
  <2>2. \A x \in store' : x \in store
    BY <1>1
  <2> QED
    BY <1>1, <2>1, <2>2, PolicyInvKept
<1>3. CASE DropDead(r, e)
  BY <1>2, <1>3, NotReplied DEF DropDead, Kept
<1>4. CASE HitFresh(r, e)
  <2>1. AskInv(r) /\ EntryInv(e) /\ e.base = BaseKey(r) /\ MatchesVary(r, e.vary)
    BY <1>4, HitFacts DEF HitFresh
  <2>2. Usable(r, e)
    BY <1>4 DEF HitFresh, ServableFresh, Phase, Usable
  <2>3. Reply("hit", r, e, e.res)
    BY <1>4 DEF HitFresh
  <2>4. AnswerInv'
    BY <1>1, <2>1, <2>2, <2>3, ServedFromStore
  <2> QED
    BY <1>2, <2>4 DEF Kept
<1>5. CASE HitUpdating(r, e)
  <2>1. AskInv(r) /\ EntryInv(e) /\ e.base = BaseKey(r) /\ MatchesVary(r, e.vary)
    BY <1>5, HitFacts DEF HitUpdating, MustAsk
  <2>2. Usable(r, e)
    BY <1>5, GracefulUsable DEF HitUpdating, MayUpdate
  <2>3. Reply("updating", r, e, e.res)
    BY <1>5 DEF HitUpdating
  <2>4. AnswerInv'
    BY <1>1, <2>1, <2>2, <2>3, ServedFromStore
  <2> QED
    BY <1>2, <2>4 DEF Kept
<1> QED
  BY <1>3, <1>4, <1>5

\* A stale answer with an update in the background.
LEMMA KeptByBackground ==
    ASSUME PolicyInv, NEW r \in mix.asks, NEW e \in store, BackgroundUpdate(r, e)
    PROVE  Kept
<1>1. mix' = mix /\ time' = time /\ store' = store /\ Reply("updating", r, e, e.res)
  BY DEF BackgroundUpdate
<1>2. AskInv(r) /\ EntryInv(e) /\ e.base = BaseKey(r) /\ MatchesVary(r, e.vary)
  BY HitFacts DEF BackgroundUpdate, MustAsk
<1>3. Usable(r, e)
  BY GracefulUsable DEF BackgroundUpdate, MayUpdate
<1>4. AnswerInv'
  BY <1>1, <1>2, <1>3, ServedFromStore
<1> DEFINE g == [r EXCEPT !.method = "GET"]
<1>5. e.base.method = "GET"
  BY <1>2 DEF EntryInv, EntryShape
<1>6. AskInv(g) /\ BaseKey(g) = e.base
  BY <1>2, <1>5, KeyOfGet
<1>7. g.headers = r.headers
  BY <1>2 DEF AskInv, IsAsk
<1>8. MatchesVary(g, e.vary)
  BY <1>2, <1>7 DEF MatchesVary
<1> HIDE DEF g
<1>9. fetch' = [ask |-> g, base |-> e.base, lock |-> Key(e), entry |-> e, background |-> TRUE, stores |-> TRUE]
  BY DEF BackgroundUpdate, Fetch, g
<1>10. FetchInv([ask |-> g, base |-> e.base, lock |-> Key(e), entry |-> e, background |-> TRUE, stores |-> TRUE])
  BY <1>2, <1>5, <1>6, <1>8 DEF FetchInv
<1>11. PolicyInv'
  <2>1. time' \in Nat /\ (\A x \in store' : x \in store) /\ FetchInv(fetch')
    BY <1>1, <1>9, <1>10 DEF PolicyInv
  <2> QED
    BY <1>1, <2>1, PolicyInvKept
<1> QED
  BY <1>4, <1>11 DEF Kept

\* Lookups that ask the origin.
LEMMA KeptByMiss ==
    ASSUME PolicyInv, NEW r \in mix.asks, Miss(r) \/ \E e \in store : MissExpired(r, e)
    PROVE  Kept
<1>1. PICK base, lock, entry : /\ Ask(r, base, lock, entry) /\ AskInv(r) /\ base = BaseKey(r)
                               /\ entry # NotCached => EntryInv(entry) /\ entry.base = base
                                                        /\ MatchesVary(r, entry.vary)
  <2>1. CASE Miss(r)
    <3>1. AskInv(r)
      BY <2>1, AskOfLookup DEF Miss, PolicyInv
    <3> QED
      BY <2>1, <3>1 DEF Miss
  <2>2. ASSUME NEW e \in store, MissExpired(r, e)
        PROVE  Ask(r, e.base, Key(e), e) /\ AskInv(r) /\ e.base = BaseKey(r) /\ EntryInv(e)
               /\ MatchesVary(r, e.vary)
    BY <2>2, HitFacts DEF MissExpired, MustAsk
  <2> QED
    BY <2>1, <2>2
<1> DEFINE f == [ask |-> r, base |-> base, lock |-> lock, entry |-> entry,
                 background |-> FALSE, stores |-> CacheMethod(r) = "GET"]
<1>2. mix' = mix /\ time' = time /\ store' = store /\ fetch' = f /\ NoReply
  BY <1>1 DEF Ask, Fetch
<1>3. FetchInv(f)
  <2>1. f.ask = r /\ f.base = base /\ f.entry = entry /\ f.stores = (CacheMethod(r) = "GET")
    OBVIOUS
  <2> HIDE DEF f
  <2>2. f.stores <=> f.base.method = "GET"
    <3>1. BaseKey(r).method = "GET" <=> CacheMethod(r) = "GET"
      BY <1>1, KeyOfGet
    <3> QED
      BY <1>1, <2>1, <3>1, Zenon
  <2>3. entry # NotCached => f.base.method = "GET"
    BY <1>1, <2>1 DEF EntryInv, EntryShape
  <2> QED
    BY <1>1, <2>1, <2>2, <2>3 DEF FetchInv
<1>4. PolicyInv'
  <2>1. time' \in Nat /\ (\A x \in store' : x \in store) /\ FetchInv(fetch')
    BY <1>2, <1>3 DEF PolicyInv
  <2> QED
    BY <1>2, <2>1, PolicyInvKept
<1> QED
  BY <1>2, <1>4, NotReplied DEF Kept

-----------------------------------------------------------------------------
\* The origin's answers.

\* The origin's headers are headers, and their tag is its version.
LEMMA StampedHeaders ==
    ASSUME NEW h, IsHeaders(h)
    PROVE  IsHeaders(Stamped(h)) /\ Stamped(h).tag \in {NoHeader, origin}
<1> DEFINE s == Stamped(h)
<1>1. DOMAIN h = {"accel", "cc", "expires", "cookie", "vary", "type", "tag"}
  BY DEF IsHeaders
<1>2. /\ DOMAIN s = DOMAIN h
      /\ s.accel = h.accel /\ s.expires = h.expires /\ s.cc = h.cc
      /\ s.tag = IF h.tag = NoHeader THEN NoHeader ELSE origin
  BY <1>1 DEF Stamped
<1> HIDE DEF s
<1>3. IsHeaders(s) /\ s.tag \in {NoHeader, origin}
  BY <1>2 DEF IsHeaders
<1> QED
  BY <1>3 DEF s

\* Headers of a 304 merged into stored ones are headers.
LEMMA MergedHeaders ==
    ASSUME NEW c, IsHeaders(c), NEW h, IsHeaders(h)
    PROVE  IsHeaders(Merge(c, h)) /\ Merge(c, h).tag \in {c.tag, h.tag}
<1> DEFINE m == Merge(c, h)
<1>1. DOMAIN c = {"accel", "cc", "expires", "cookie", "vary", "type", "tag"}
  BY DEF IsHeaders
<1>2. /\ DOMAIN m = DOMAIN c
      /\ m.accel \in {c.accel, h.accel} /\ m.expires \in {c.expires, h.expires}
      /\ m.cc \in {c.cc, h.cc} /\ m.tag \in {c.tag, h.tag}
  BY <1>1 DEF Merge
<1> HIDE DEF m
<1>3. IsHeaders(m)
  BY <1>2 DEF IsHeaders
<1> QED
  BY <1>2, <1>3 DEF m

\* What CanServeStale allows is usable.
LEMMA StaleUsable ==
    ASSUME NEW reason, CanServeStale(reason)
    PROVE  fetch.entry # NotCached /\ Usable(fetch.ask, fetch.entry)
<1>1. time <= fetch.entry.expires \/ time <= fetch.entry.grace \/ time <= fetch.entry.swr
        \/ time <= fetch.entry.sie
  BY DEF CanServeStale, Phase
<1>2. /\ fetch.entry # NotCached /\ ~ForcesRevalidation(fetch.ask)
      /\ ~fetch.entry.requires_revalidation /\ ~fetch.entry.must_revalidate
  BY DEF CanServeStale
<1> QED
  BY <1>1, <1>2 DEF Usable

\* An answer in place of the origin's satisfies the properties.
LEMMA StaleServed ==
    ASSUME PolicyInv, fetch # NoFetch, mix' = mix, NEW reason, CanServeStale(reason),
           Reply("stale", fetch.ask, fetch.entry, fetch.entry.res)
    PROVE  AnswerInv'
<1>1. PICK e, r : e = fetch.entry /\ r = fetch.ask
  OBVIOUS
<1>2. e # NotCached /\ Usable(r, e)
  BY <1>1, StaleUsable
<1>3. AskInv(r) /\ EntryInv(e) /\ e.base = BaseKey(r) /\ MatchesVary(r, e.vary)
  BY <1>1, <1>2 DEF PolicyInv, FetchInv
<1>4. Reply("stale", r, e, e.res)
  BY <1>1
<1> QED
  BY <1>2, <1>3, <1>4, ServedFromStore

\* A store replaces entries by one.
LEMMA StoreAdds ==
    ASSUME NEW entry, NEW replaced, Store(entry, replaced)
    PROVE  \A e \in store' : e \in store \/ e = entry
  BY DEF Store, AfterStore

\* A hit-for-pass mark adds no response.
LEMMA PassAdds ==
    ASSUME NEW res, NEW replaced, RememberPass(res, replaced)
    PROVE  \A e \in store' : e \in store \/ e.kind = "pass"
<1>1. PassEntry(fetch.ask, fetch.base, res).kind = "pass"
  BY DEF PassEntry
<1> QED
  BY <1>1, StoreAdds DEF RememberPass

\* What is known of an answer of the origin, and of the body passed on.
LEMMA OriginFacts ==
    ASSUME PolicyInv, fetch # NoFetch, NEW h \in mix.replies, NEW status, OriginMay(status),
           NEW res, res = OriginResponse(status, h)
    PROVE  /\ DOMAIN res = {"status", "h", "ver", "part"} /\ IsHeaders(res.h) /\ res.status = status
           /\ res.ver = origin /\ res.h.tag \in {NoHeader, res.ver}
           /\ fetch.stores /\ (RangeOf(fetch.ask) # NoRange => status = 206) => SliceInv(fetch.ask, res)
           /\ Partial("origin", fetch.ask, res)
<1>1. PICK r : r = fetch.ask
  OBVIOUS
<1>2. IsRule(rule) /\ IsHeaders(h) /\ AskInv(r) /\ IsAsk(r)
  BY <1>1, MixFacts DEF PolicyInv, FetchInv, AskInv
<1>3. IsHeaders(Stamped(h)) /\ Stamped(h).tag \in {NoHeader, origin}
  BY <1>2, StampedHeaders
<1> DEFINE part == IF status = 206 THEN <<UpstreamRange[1], Min({UpstreamRange[2], Total - 1})>> ELSE NoRange
<1>4. res = [status |-> status, h |-> Stamped(h), ver |-> origin, part |-> part]
  BY Zenon DEF OriginResponse
<1> HIDE DEF part
<1>5. /\ DOMAIN res = {"status", "h", "ver", "part"} /\ res.h = Stamped(h) /\ res.status = status
      /\ res.ver = origin /\ res.part = part
  BY <1>4
<1>6. IsHeaders(res.h) /\ res.h.tag \in {NoHeader, res.ver}
  BY <1>3, <1>5
<1>7. ASSUME fetch.stores, RangeOf(r) # NoRange => status = 206
      PROVE  SliceInv(r, res)
  <2> SUFFICES ASSUME RangeOf(r) # NoRange
               PROVE  res.status = 206 /\ res.part = <<RangeOf(r).from, Min({RangeOf(r).to, Total - 1})>>
    BY DEF SliceInv
  <2>1. status = 206
    BY <1>7
  <2>2. UpstreamRange = <<RangeOf(r).from, RangeOf(r).to>>
    BY <1>1, <1>7 DEF UpstreamRange
  <2> QED
    BY <1>5, <2>1, <2>2 DEF part
<1>8. Partial("origin", r, res)
  <2> SUFFICES ASSUME r.range # NoRange, r.range[2] < Total, status = 206, NEW size \in FrameSizes
               PROVE  Delivered(r, res, size) = Stretch(r.range[1], r.range[2])
    BY <1>5 DEF Partial
  <2>1. CASE fetch.stores
    <3>1. Partial("origin", r, res)
      BY <1>2, <1>7, <2>1, SlicePartial
    <3> QED
      BY <1>5, <3>1 DEF Partial
  <2>2. CASE ~fetch.stores
    <3> DEFINE g == RangeOf(r)
               first == r.range[1]
               last == r.range[2]
    <3>1. g # NoRange
      BY <1>2 DEF AskInv
    <3>2. /\ r.range \in Nat \X Nat /\ g.first = first /\ g.last = last
          /\ first \in Nat /\ last \in Nat /\ g.from \in Nat /\ g.to \in Nat
          /\ g.from <= first /\ first <= last /\ last <= g.to
      <4> HIDE DEF g
      <4>1. /\ r.range \in Nat \X Nat
            /\ g.first = r.range[1] /\ g.last = r.range[2]
            /\ g.first \in Nat /\ g.last \in Nat /\ g.from \in Nat /\ g.to \in Nat
            /\ g.from <= g.first /\ g.first <= g.last /\ g.last <= g.to
        BY <1>2, <3>1, RangeFacts DEF g
      <4> QED
        BY <4>1
    <3>3. UpstreamRange = r.range
      BY <1>1, <2>2 DEF UpstreamRange
    <3>4. Min({last, Total - 1}) = last
      <4> HIDE DEF last
      <4>1. Total - 1 \in Int /\ last \in Int /\ last <= Total - 1
        BY <3>2, CachePolicyAssumption DEF last
      <4>2. Min({last, Total - 1}) = IF last <= Total - 1 THEN last ELSE Total - 1
        BY <4>1, MinOfTwo, Zenon
      <4> QED
        BY <4>1, <4>2
    <3>5. res.part = <<first, last>>
      BY <1>5, <3>3, <3>4 DEF part
    <3>6. CASE first = g.from
      <4>1. res.part = <<RangeOf(r).from, last>> /\ RangeOf(r).last <= last /\ last <= RangeOf(r).to
        BY <3>2, <3>5, <3>6
      <4>2. last \in Nat /\ res.status = 206
        BY <1>5, <3>2
      <4> HIDE DEF last
      <4>3. Delivered(r, res, size) = Stretch(r.range[1], r.range[2])
        BY <1>2, <3>1, <4>1, <4>2, DeliveredRight
      <4> QED
        BY <4>3 DEF last
    <3>7. CASE first # g.from
      <4>1. ~ContentRangeMatches(r, res.part)
        BY <3>5, <3>7 DEF ContentRangeMatches
      <4>2. TrimPlan(r, res) = NoRange
        BY <4>1 DEF TrimPlan
      <4>3. Delivered(r, res, size) = Positions(res)
        BY <4>2 DEF Delivered
      <4>4. res.part # NoRange
        <5>1. res.part \in Nat \X Nat
          BY <3>2, <3>5
        <5> QED
          BY <5>1, CachePolicyAssumption
      <4>5. Positions(res) = Stretch(first, last)
        BY <3>5, <4>4 DEF Positions, Stretch
      <4> QED
        BY <4>3, <4>5
    <3> QED
      BY <3>6, <3>7
  <2> QED
    BY <2>1, <2>2
<1> QED
  BY <1>1, <1>5, <1>6, <1>7, <1>8

\* A response is stored as a sound entry.
LEMMA StoredResponse ==
    ASSUME PolicyInv, fetch # NoFetch, fetch.stores, NEW h \in mix.replies, NEW status, OriginMay(status),
           NEW res, res = OriginResponse(status, h), StoreResponse(res)
    PROVE  \A e \in store' : e \in store \/ e.kind = "pass" \/ EntryInv(e)
<1>1. PICK r, base : r = fetch.ask /\ base = fetch.base
  OBVIOUS
<1>2. IsRule(rule) /\ time \in Nat /\ AskInv(r) /\ base = BaseKey(r) /\ base.method = "GET"
  BY <1>1, MixFacts DEF PolicyInv, FetchInv
<1>3. /\ DOMAIN res = {"status", "h", "ver", "part"} /\ IsHeaders(res.h) /\ res.status = status
      /\ res.ver = origin /\ res.h.tag \in {NoHeader, res.ver}
      /\ (RangeOf(r) # NoRange => status = 206) => SliceInv(r, res)
  <2> HIDE DEF OriginResponse
  <2> QED
    BY <1>1, OriginFacts
<1> DEFINE entry == ResponseEntry(r, base, res, TRUE)
           replaced == IF fetch.lock # Key(entry) THEN fetch.entry ELSE NotCached
           refused == \/ ~ResponseIsStorable(r, res)
                      \/ ResponseNoCache(r, res.status)
                      \/ ~FreshnessIsCacheable(Freshness(res.status, res.h))
<1>4. IF refused
      THEN IF ShouldRememberPass(res.h) THEN RememberPass(res, fetch.entry)
           ELSE UNCHANGED <<store, uses>>
      ELSE IF ~Admitted(Key(entry)) THEN CountUse(Key(entry)) /\ UNCHANGED store
      ELSE Store(entry, replaced)
  BY <1>1, Zenon DEF StoreResponse
<1>5. ~refused => ~Personal(res.h) /\ (RangeOf(r) # NoRange => status = 206)
  BY <1>3 DEF ResponseIsStorable
<1> HIDE DEF refused, entry, replaced
<1>6. ~refused => EntryInv(entry)
  <2> SUFFICES ASSUME ~refused PROVE EntryInv(entry)
    OBVIOUS
  <2>1. SliceInv(r, res)
    BY <1>3, <1>5
  <2>2. EntryShape(entry) /\ entry.res = res
    <3>1. EntryReady(r, res, TRUE)
      BY <1>2, <1>3, <2>1 DEF EntryReady
    <3>2. EntrySound(ResponseEntry(r, BaseKey(r), res, TRUE), res)
      BY <1>2, <3>1, EntryMade, Zenon
    <3>3. entry = ResponseEntry(r, BaseKey(r), res, TRUE)
      BY <1>2 DEF entry
    <3> QED
      BY <3>2, <3>3, Zenon DEF EntrySound
  <2> QED
    BY <1>5, <2>2 DEF EntryInv
<1>7. \/ store' = store
      \/ RememberPass(res, fetch.entry)
      \/ ~refused /\ Store(entry, replaced)
  BY <1>4
<1> QED
  BY <1>6, <1>7, PassAdds, StoreAdds

\* The origin's answers other than 304.
LEMMA KeptByAnswer ==
    ASSUME PolicyInv, NEW h \in mix.replies, NEW status, OriginAnswers(status, h)
    PROVE  Kept
<1>1. PICK res : res = OriginResponse(status, h)
  OBVIOUS
<1>2. /\ fetch # NoFetch /\ OriginMay(status) /\ fetch' = NoFetch /\ mix' = mix /\ time' = time
      /\ \/ /\ CanServeStale(ToString(status))
            /\ Reply("stale", fetch.ask, fetch.entry, fetch.entry.res) /\ store' = store
         \/ /\ (fetch.stores /\ StoreResponse(res)) \/ store' = store
            /\ NoReply \/ Reply("origin", fetch.ask, NotCached, res)
  <2> HIDE DEF OriginResponse, CanServeStale, Reply, NoReply, StoreResponse, OriginMay
  <2> QED
    BY <1>1 DEF OriginAnswers
<1>3. \A e \in store' : e \in store \/ e.kind = "pass" \/ EntryInv(e)
  <2>1. (fetch.stores /\ StoreResponse(res)) \/ store' = store
    BY <1>2
  <2> QED
    BY <1>1, <1>2, <2>1, StoredResponse
<1>4. PolicyInv'
  <2>1. time' \in Nat
    BY <1>2 DEF PolicyInv
  <2> QED
    BY <1>2, <1>3, <2>1, PolicyInvKept
<1>5. AnswerInv'
  <2>1. CASE CanServeStale(ToString(status)) /\ Reply("stale", fetch.ask, fetch.entry, fetch.entry.res)
    BY <1>2, <2>1, StaleServed
  <2>2. CASE NoReply
    BY <2>2, NotReplied
  <2>3. CASE Reply("origin", fetch.ask, NotCached, res)
    <3>1. Partial("origin", fetch.ask, res)
      BY <1>1, <1>2, OriginFacts
    <3>2. "origin" \notin {"hit", "updating", "stale"}
      OBVIOUS
    <3>3. PICK r : r = fetch.ask
      OBVIOUS
    <3>4. Reply("origin", r, NotCached, res) /\ Partial("origin", r, res)
      BY <2>3, <3>1, <3>3
    <3> QED
      BY <1>2, <3>2, <3>4, Replied
  <2> QED
    BY <1>2, <2>1, <2>2, <2>3
<1> QED
  BY <1>4, <1>5 DEF Kept

\* 304 answers.
LEMMA KeptByRefresh ==
    ASSUME PolicyInv, NEW h \in mix.replies, NotModified(h)
    PROVE  Kept
<1>1. PICK old, r, base : old = fetch.entry /\ r = fetch.ask /\ base = fetch.base
  OBVIOUS
<1> DEFINE res == [old.res EXCEPT !.h = Merge(old.res.h, Stamped(h))]
           sure == old.sure /\ old.res.h.tag # NoHeader
           entry == ResponseEntry(r, base, res, sure)
           marked == [entry EXCEPT !.requires_revalidation = TRUE]
           same == Key(entry) = fetch.lock
<1>2. /\ fetch # NoFetch /\ old # NotCached /\ Condition = origin
      /\ fetch' = NoFetch /\ mix' = mix /\ time' = time
  BY <1>1 DEF NotModified
<1>3. /\ IF ResponseNoCache(r, res.status)
         THEN Store(marked, IF same THEN NotCached ELSE old)
         ELSE IF KeepsRefreshed(entry) THEN Store(entry, NotCached)
         ELSE IF /\ same
                 /\ rule.pass_ttl # NoTime
                 /\ \/ ShouldRememberPass(res.h)
                    \/ ~FreshnessIsCacheable(Freshness(res.status, res.h))
              THEN RememberPass(res, old)
         ELSE store' = store \ {old} /\ UNCHANGED uses
      /\ IF fetch.background THEN NoReply ELSE Reply("revalidated", r, entry, res)
  BY <1>1, Zenon DEF NotModified
<1>4. /\ IsRule(rule) /\ time \in Nat /\ AskInv(r) /\ base = BaseKey(r) /\ base.method = "GET"
      /\ fetch.stores /\ EntryInv(old) /\ old.base = base /\ IsHeaders(h)
  BY <1>1, <1>2, MixFacts DEF PolicyInv, FetchInv
<1>5. /\ DOMAIN old.res = {"status", "h", "ver", "part"} /\ IsHeaders(old.res.h)
      /\ AskInv(old.fetched_by) /\ BaseKey(old.fetched_by) = BaseKey(r)
      /\ SliceInv(old.fetched_by, old.res)
      /\ old.sure => old.res.h.tag \in {NoHeader, old.res.ver}
  BY <1>4 DEF EntryInv, EntryShape
<1>6. /\ DOMAIN res = {"status", "h", "ver", "part"} /\ res.status = old.res.status
      /\ res.h = Merge(old.res.h, Stamped(h)) /\ res.ver = old.res.ver /\ res.part = old.res.part
  BY <1>5
<1> HIDE DEF res
<1>7. IsHeaders(Stamped(h)) /\ Stamped(h).tag \in {NoHeader, origin}
  BY <1>4, StampedHeaders
<1>8. IsHeaders(res.h) /\ res.h.tag \in {old.res.h.tag, Stamped(h).tag}
  BY <1>5, <1>6, <1>7, MergedHeaders
<1>9. SliceInv(r, res)
  <2>1. SliceInv(r, old.res)
    BY <1>4, <1>5, SameKey
  <2> QED
    BY <1>6, <2>1 DEF SliceInv
<1>10. sure => res.ver = origin /\ res.h.tag \in {NoHeader, res.ver}
  <2> SUFFICES ASSUME sure PROVE res.ver = origin /\ res.h.tag \in {NoHeader, res.ver}
    OBVIOUS
  <2>1. old.res.h.tag # NoHeader /\ old.res.h.tag = old.res.ver
    BY <1>5
  <2>2. old.res.h.tag = origin
    BY <1>1, <1>2, <1>4, <2>1 DEF Condition
  <2> QED
    BY <1>6, <1>7, <1>8, <2>1, <2>2
<1> HIDE DEF sure
<1>11. /\ EntryShape(entry) /\ entry.res = res
       /\ EntryShape(marked) /\ marked.requires_revalidation
  <2>1. EntryReady(r, res, sure)
    BY <1>4, <1>6, <1>8, <1>9, <1>10 DEF EntryReady
  <2>2. EntrySound(ResponseEntry(r, BaseKey(r), res, sure), res)
    BY <1>4, <2>1, EntryMade, Zenon
  <2>3. entry = ResponseEntry(r, BaseKey(r), res, sure)
    BY <1>4
  <2> HIDE DEF entry
  <2>4. EntrySound(entry, res)
    BY <2>2, <2>3, Zenon
  <2> QED
    BY <2>4, Zenon DEF EntrySound
<1>12. KeepsRefreshed(entry) => ~Personal(entry.res.h)
  BY DEF KeepsRefreshed, ResponseIsStorable
<1> HIDE DEF entry, marked, same
<1>13. EntryInv(marked) /\ (KeepsRefreshed(entry) => EntryInv(entry))
  BY <1>11, <1>12 DEF EntryInv
<1>14. \/ \E replaced : Store(marked, replaced)
       \/ KeepsRefreshed(entry) /\ Store(entry, NotCached)
       \/ RememberPass(res, old)
       \/ store' = store \ {old}
  BY <1>3
<1>15. \A e \in store' : e \in store \/ e.kind = "pass" \/ EntryInv(e)
  <2>1. CASE \E replaced : Store(marked, replaced)
    BY <1>13, <2>1, StoreAdds
  <2>2. CASE KeepsRefreshed(entry) /\ Store(entry, NotCached)
    BY <1>13, <2>2, StoreAdds
  <2>3. CASE RememberPass(res, old)
    BY <2>3, PassAdds
  <2>4. CASE store' = store \ {old}
    BY <2>4
  <2> QED
    BY <1>14, <2>1, <2>2, <2>3, <2>4
<1>16. PolicyInv'
  <2>1. time' \in Nat
    BY <1>2, <1>4
  <2> QED
    BY <1>2, <1>15, <2>1, PolicyInvKept
<1>17. AnswerInv'
  <2>1. CASE NoReply
    BY <2>1, NotReplied
  <2>2. CASE Reply("revalidated", r, entry, res)
    <3>1. Partial("revalidated", r, res)
      BY <1>4, <1>9, SlicePartial
    <3>2. "revalidated" \notin {"hit", "updating", "stale"}
      OBVIOUS
    <3>3. PICK e : e = entry
      OBVIOUS
    <3>4. PICK x : x = res
      OBVIOUS
    <3> QED
      BY <1>2, <2>2, <3>1, <3>2, <3>3, <3>4, Replied
  <2> QED
    BY <1>3, <2>1, <2>2
<1> QED
  BY <1>16, <1>17 DEF Kept

\* Failed fetches.
LEMMA KeptByFailure ==
    ASSUME PolicyInv, NEW reason, FetchFails(reason)
    PROVE  Kept
<1>1. /\ fetch # NoFetch /\ fetch' = NoFetch /\ mix' = mix /\ time' = time /\ store' = store
      /\ \/ CanServeStale(reason) /\ Reply("stale", fetch.ask, fetch.entry, fetch.entry.res)
         \/ NoReply
  BY DEF FetchFails
<1>2. PolicyInv'
  <2>1. time' \in Nat /\ \A x \in store' : x \in store
    BY <1>1 DEF PolicyInv
  <2> QED
    BY <1>1, <2>1, PolicyInvKept
<1>3. AnswerInv'
  BY <1>1, StaleServed, NotReplied
<1> QED
  BY <1>2, <1>3 DEF Kept

\* The origin changes, time passes.
LEMMA KeptByWorld ==
    ASSUME PolicyInv, OriginChanges \/ TimePasses
    PROVE  Kept
<1>1. fetch' = fetch /\ mix' = mix /\ time' \in Nat /\ store' = store /\ NoReply
  BY DEF OriginChanges, TimePasses, PolicyInv
<1>2. PolicyInv'
  <2>1. \A x \in store' : x \in store
    BY <1>1
  <2> QED
    BY <1>1, <2>1, PolicyInvKept
<1> QED
  BY <1>1, <1>2, NotReplied DEF Kept

\* Every step keeps the invariant.
LEMMA PolicyStep == PolicyInv /\ AnswerInv /\ [PolicyNext]_policyVars => PolicyInv' /\ AnswerInv'
<1> SUFFICES ASSUME PolicyInv, AnswerInv, [PolicyNext]_policyVars
             PROVE  PolicyInv' /\ AnswerInv'
  OBVIOUS
<1>1. ASSUME NEW r \in mix.asks, NEW e \in store,
             DropDead(r, e) \/ HitFresh(r, e) \/ HitUpdating(r, e)
      PROVE  Kept
  BY <1>1, KeptByLookup
<1>2. ASSUME NEW r \in mix.asks, NEW e \in store, BackgroundUpdate(r, e)
      PROVE  Kept
  BY <1>2, KeptByBackground
<1>3. ASSUME NEW r \in mix.asks, Miss(r) \/ \E e \in store : MissExpired(r, e)
      PROVE  Kept
  BY <1>3, KeptByMiss
<1>4. ASSUME NEW h \in mix.replies, NEW status \in mix.statuses, OriginAnswers(status, h)
      PROVE  Kept
  BY <1>4, KeptByAnswer
<1>5. ASSUME NEW h \in mix.replies, NotModified(h)
      PROVE  Kept
  BY <1>5, KeptByRefresh
<1>6. ASSUME NEW reason \in {"error", "timeout"}, FetchFails(reason)
      PROVE  Kept
  BY <1>6, KeptByFailure
<1>7. CASE OriginChanges \/ TimePasses
  BY <1>7, KeptByWorld DEF Kept
<1>8. CASE UNCHANGED policyVars
  <2>1. UNCHANGED <<mix, origin, time, store, uses, fetch, fetches, answer>>
    BY <1>8 DEF policyVars
  <2>2. PolicyInv'
    <3>1. fetch' = fetch /\ mix' = mix /\ time' \in Nat /\ \A x \in store' : x \in store
      BY <2>1 DEF PolicyInv
    <3> QED
      BY <3>1, PolicyInvKept
  <2>3. AnswerInv'
    <3>1. rule' = rule /\ answer' = answer /\ (Ignores("vary")' <=> Ignores("vary"))
      BY <2>1 DEF rule, Ignores
    <3>2. \A h : Personal(h)' <=> Personal(h)
      BY <2>1, Steady
    <3>3. PICK e : e = answer.entry
      OBVIOUS
    <3>4. /\ Freshness(e.res.status, e.res.h)'.sie = Freshness(e.res.status, e.res.h).sie
          /\ Freshness(e.res.status, e.res.h)'.swr = Freshness(e.res.status, e.res.h).swr
          /\ Freshness(e.res.status, e.res.h)'.requires_revalidation
                <=> Freshness(e.res.status, e.res.h).requires_revalidation
          /\ Freshness(e.res.status, e.res.h)'.must_revalidate
                <=> Freshness(e.res.status, e.res.h).must_revalidate
      <4> DEFINE f == Freshness(e.res.status, e.res.h)
      <4>1. /\ f'.sie = Sie(e.res.h)' /\ f'.swr = Swr(e.res.h)'
            /\ f'.requires_revalidation = Unusable(e.res.h)' /\ f'.must_revalidate = Strict(e.res.h)'
        BY DEF Freshness, Sie, Swr, Unusable, Strict
      <4>2. /\ f.sie = Sie(e.res.h) /\ f.swr = Swr(e.res.h)
            /\ f.requires_revalidation = Unusable(e.res.h) /\ f.must_revalidate = Strict(e.res.h)
        BY FreshnessParts
      <4>3. /\ Sie(e.res.h)' = Sie(e.res.h) /\ Swr(e.res.h)' = Swr(e.res.h)
            /\ Unusable(e.res.h)' <=> Unusable(e.res.h)
            /\ Strict(e.res.h)' <=> Strict(e.res.h)
        BY <2>1, Steady
      <4> HIDE DEF f
      <4>4. /\ f'.sie = f.sie /\ f'.swr = f.swr
            /\ f'.requires_revalidation <=> f.requires_revalidation
            /\ f'.must_revalidate <=> f.must_revalidate
        BY <4>1, <4>2, <4>3
      <4> QED
        BY <4>4 DEF f
    <3>5. NothingServedTooOld'
      <4>1. NothingServedTooOld
        BY DEF AnswerInv
      <4> QED
        BY <3>1, <3>3, <3>4, <4>1 DEF NothingServedTooOld, FromStore
    <3>6. PrivateStaysPrivate' /\ VariantServed' /\ RangeServed'
      BY <3>1, <3>2 DEF AnswerInv, AnswersTheAsker, PrivateStaysPrivate, VariantServed, RangeServed, FromStore
    <3> QED
      BY <3>5, <3>6 DEF AnswerInv, AnswersTheAsker
  <2> QED
    BY <2>2, <2>3 DEF Kept
<1> QED
  BY <1>1, <1>2, <1>3, <1>4, <1>5, <1>6, <1>7, <1>8, Zenon DEF PolicyNext, Kept

\* The invariant holds at first.
LEMMA PolicyStart == PolicyInit => PolicyInv /\ AnswerInv
BY DEF PolicyInit, PolicyInv, AnswerInv, NothingServedTooOld, AnswersTheAsker, PrivateStaysPrivate,
       VariantServed, RangeServed, FromStore

\* For every policy, every request and every answer of the origin: what is
\* served without the origin's word is fresh, or within a window of staleness
\* that is open (lookup_decision, can_serve_stale).
THEOREM NothingTooOldIsServed == PolicySpec => []NothingServedTooOld
<1>1. PolicyInv /\ AnswerInv => NothingServedTooOld
  BY DEF AnswerInv
<1> QED
  BY <1>1, PolicyStart, PolicyStep, PTL DEF PolicySpec

\* Whoever is answered from the store gets what was meant for all, of the
\* variant it asked for, and exactly the bytes of its range.
THEOREM AskersGetTheirAnswers == PolicySpec => []AnswersTheAsker
<1>1. PolicyInv /\ AnswerInv => AnswersTheAsker
  BY DEF AnswerInv
<1> QED
  BY <1>1, PolicyStart, PolicyStep, PTL DEF PolicySpec

\* A stored body is the version the origin last confirmed, as long as every
\* 304 was about the validator of the entry itself.
THEOREM RefreshesAreConfirmed == PolicySpec => []RefreshesConfirmed
<1>1. PolicyInv /\ AnswerInv => RefreshesConfirmed
  BY DEF PolicyInv, EntryInv, EntryShape, RefreshesConfirmed
<1> QED
  BY <1>1, PolicyStart, PolicyStep, PTL DEF PolicySpec
=============================================================================
