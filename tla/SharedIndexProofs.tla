------------------------- MODULE SharedIndexProofs -------------------------
(***************************************************************************)
(* Proofs about the shared cache index, for any workers, contents, batches *)
(* of operations, ring capacity and bounds: the ring and the mirrors fit   *)
(* the document (IndexSound), and the index implements the replicated log  *)
(* of ReplicatedIndex.                                                     *)
(***************************************************************************)
EXTENDS SharedIndex, DataInduction, SequenceTheorems

Changes == [seq : Nat, operation : Operations]

-----------------------------------------------------------------------------
(* Operations on contents.                                                 *)

\* Applying an operation to contents gives contents.
LEMMA ApplyOperationType ==
    ASSUME NEW c \in Contents, NEW o \in Operations
    PROVE  ApplyOperation(c, o) \in Contents
<1>1. CASE o.op = "upsert"
  <2>1. o.key \in Keys /\ o.val \in Vals
    BY <1>1 DEF Operations
  <2> QED
    BY <1>1, <2>1 DEF ApplyOperation, Contents, Entries
<1>2. CASE o.op = "remove"
  <2>1. o.key \in Keys
    BY <1>2 DEF Operations
  <2> QED
    BY <1>2, <2>1 DEF ApplyOperation, Contents, Entries
<1>3. CASE o.op = "touch"
  <2>1. o.key \in Keys
    BY <1>3 DEF Operations
  <2>2. CASE c.entries[o.key] = NoEntry
    BY <1>3, <2>1, <2>2 DEF ApplyOperation
  <2>3. CASE c.entries[o.key] # NoEntry
    <3>1. c.entries[o.key] \in Entries
      BY <2>1, <2>3 DEF Contents
    <3>2. [c.entries[o.key] EXCEPT !.touched = TRUE] \in Entries
      BY <3>1 DEF Entries
    <3>3. ApplyOperation(c, o)
            = [c EXCEPT !.entries[o.key] = [c.entries[o.key] EXCEPT !.touched = TRUE]]
      BY <1>3, <2>3 DEF ApplyOperation
    <3> QED
      BY <2>1, <3>2, <3>3 DEF Contents
  <2> QED
    BY <2>2, <2>3
<1>4. CASE o.op = "invalidate"
  <2>1. o.val \in Rules
    BY <1>4 DEF Operations
  <2> QED
    BY <1>4, <2>1 DEF ApplyOperation, Contents
<1>5. CASE o.op = "clear"
  BY <1>5 DEF ApplyOperation, Contents
<1>6. o.op \in {"upsert", "remove", "touch", "invalidate", "clear"}
  BY DEF Operations
<1> QED
  BY <1>1, <1>2, <1>3, <1>4, <1>5, <1>6

\* The stages start with the contents given, and each is the one before it
\* with the next operation applied.
LEMMA StagesProperties ==
    ASSUME NEW c \in Contents, NEW ops \in Seq(Operations)
    PROVE  /\ Stages(c, ops) \in [0 .. Len(ops) -> Contents]
           /\ Stages(c, ops)[0] = c
           /\ \A n \in 1 .. Len(ops) :
                Stages(c, ops)[n] = ApplyOperation(Stages(c, ops)[n - 1], ops[n])
<1> DEFINE m == Len(ops)
           step == [x \in Contents \X (1 .. m) |-> ApplyOperation(x[1], ops[x[2]])]
           Equation(f) == f = [n \in 0 .. Len(ops) |->
                                 IF n = 0 THEN c ELSE ApplyOperation(f[n - 1], ops[n])]
<1>1. m \in Nat
  OBVIOUS
<1>2. step \in [Contents \X (1 .. m) -> Contents]
  BY ApplyOperationType
<1>3. \A x \in Contents, n \in 1 .. m : step[<<x, n>>] = ApplyOperation(x, ops[n])
  OBVIOUS
<1>4. PICK f : Iterates(f, Contents, c, m, step)
  <2> HIDE DEF step, m
  <2> QED
    BY <1>1, <1>2, IterationExists, Zenon
<1> HIDE DEF step
<1>5. ASSUME NEW n \in 1 .. m PROVE f[n] = ApplyOperation(f[n - 1], ops[n])
  <2>1. f[n] = step[<<f[n - 1], n>>]
    BY <1>4 DEF Iterates
  <2>2. f[n - 1] \in Contents
    BY <1>1, <1>4 DEF Iterates
  <2> QED
    BY <1>3, <2>1, <2>2
<1>6. Equation(f)
  BY <1>1, <1>4, <1>5 DEF Iterates
<1>7. Equation(Stages(c, ops))
  <2>1. Stages(c, ops) = CHOOSE g : Equation(g)
    BY Zenon DEF Stages
  <2> HIDE DEF Equation
  <2> QED
    BY <1>6, <2>1, Zenon
<1> DEFINE s == Stages(c, ops)
<1>8. DOMAIN s = 0 .. m /\ s[0] = c /\ \A n \in 1 .. m : s[n] = ApplyOperation(s[n - 1], ops[n])
  <2> HIDE DEF s
  <2>1. s = [n \in 0 .. m |-> IF n = 0 THEN c ELSE ApplyOperation(s[n - 1], ops[n])]
    BY <1>7 DEF s
  <2>2. DOMAIN s = 0 .. m
    BY <2>1
  <2>3. \A n \in 0 .. m : s[n] = IF n = 0 THEN c ELSE ApplyOperation(s[n - 1], ops[n])
    BY <2>1
  <2> QED
    BY <1>1, <2>2, <2>3
<1>9. \A n \in 0 .. m : s[n] \in Contents
  <2> DEFINE S == {n \in Nat : s[n] \in Contents}
  <2> HIDE DEF s
  <2>1. 0 \in S
    BY <1>8
  <2>2. ASSUME NEW n \in Nat, n < m, n \in S PROVE n + 1 \in S
    <3>1. n + 1 \in 1 .. m /\ (n + 1) - 1 = n /\ ops[n + 1] \in Operations
      BY <1>1, <2>2
    <3>2. s[n + 1] = ApplyOperation(s[n], ops[n + 1])
      BY <1>8, <3>1
    <3> QED
      BY <2>2, <3>1, <3>2, ApplyOperationType
  <2> HIDE DEF S, m
  <2>3. \A n \in 0 .. m : n \in S
    BY <1>1, <2>1, <2>2, BoundedInduction, Zenon
  <2> QED
    BY <2>3 DEF S
<1>10. s = [n \in 0 .. m |-> s[n]]
  BY <1>7
<1>11. s \in [0 .. m -> Contents]
  <2> HIDE DEF s
  <2> QED
    BY <1>9, <1>10
<1> QED
  BY <1>8, <1>11

\* Whatever goes through the same operations from the same contents goes
\* through the stages.
LEMMA StagesUnique ==
    ASSUME NEW c \in Contents, NEW ops \in Seq(Operations), NEW f, f[0] = c,
           \A n \in 1 .. Len(ops) : f[n] = ApplyOperation(f[n - 1], ops[n])
    PROVE  \A n \in 0 .. Len(ops) : Stages(c, ops)[n] = f[n]
<1> DEFINE s == Stages(c, ops)
           m == Len(ops)
           S == {n \in Nat : s[n] = f[n]}
<1>1. m \in Nat
  OBVIOUS
<1>2. s[0] = c /\ \A n \in 1 .. m : s[n] = ApplyOperation(s[n - 1], ops[n])
  BY StagesProperties
<1> HIDE DEF s
<1>3. 0 \in S
  BY <1>2
<1>4. ASSUME NEW n \in Nat, n < m, n \in S PROVE n + 1 \in S
  <2>1. n + 1 \in 1 .. m /\ (n + 1) - 1 = n
    BY <1>1, <1>4
  <2>2. s[n + 1] = ApplyOperation(s[n], ops[n + 1]) /\ f[n + 1] = ApplyOperation(f[n], ops[n + 1])
    BY <1>2, <2>1
  <2> QED
    BY <1>4, <2>2
<1> HIDE DEF S, m
<1>5. \A n \in 0 .. m : n \in S
  BY <1>1, <1>3, <1>4, BoundedInduction, Zenon
<1> QED
  BY <1>5 DEF S, s, m

-----------------------------------------------------------------------------
(* The ring of changes.                                                    *)

\* The document d has the changes of the ring without a gap, up to its last
\* one, and p holds the contents before and after each of them.
Recorded(d, p) ==
    /\ Len(d.changes) <= RingCapacity
    /\ Len(d.changes) <= d.last_change_seq
    /\ \A i \in 1 .. Len(d.changes) :
         d.changes[i].seq + Len(d.changes) = d.last_change_seq + i
    /\ Len(p) = d.last_change_seq + 1
    /\ p[d.last_change_seq + 1] = d.content
    /\ \A i \in 1 .. Len(d.changes) :
         p[d.changes[i].seq + 1] = ApplyOperation(p[d.changes[i].seq], d.changes[i].operation)

\* Of changes without a gap up to the number last, the ones after a number
\* that the ring still reaches are the end of the ring.
LEMMA NewerOperationsAreTheEnd ==
    ASSUME NEW changes \in Seq(Changes), NEW last \in Nat, NEW after \in Nat,
           \A i \in 1 .. Len(changes) : changes[i].seq + Len(changes) = last + i,
           after <= last, last <= after + Len(changes)
    PROVE  LET skip == after + Len(changes) - last
           IN  /\ NewerOperations(changes, after) \in Seq(Operations)
               /\ Len(NewerOperations(changes, after)) = last - after
               /\ \A i \in 1 .. last - after :
                    NewerOperations(changes, after)[i] = changes[skip + i].operation
<1> DEFINE m == Len(changes)
           skip == after + m - last
           End(n) == [i \in 1 .. n - skip |-> changes[skip + i].operation]
           g == [n \in 0 .. m |-> IF n <= skip THEN <<>> ELSE End(n)]
           Equation(f) ==
             f = [n \in 0 .. m |->
                    IF n = 0 THEN <<>>
                    ELSE IF changes[n].seq > after THEN Append(f[n - 1], changes[n].operation)
                    ELSE f[n - 1]]
<1>1. m \in Nat /\ skip \in 0 .. m /\ m - skip = last - after
  OBVIOUS
<1>2. \A n \in 1 .. m : changes[n].operation \in Operations /\ (changes[n].seq > after <=> n > skip)
  <2> TAKE n \in 1 .. m
  <2>1. changes[n] \in Changes
    OBVIOUS
  <2>2. changes[n].seq + m = last + n /\ changes[n].seq \in Nat
    BY <2>1 DEF Changes
  <2> QED
    BY <2>1, <2>2, <1>1 DEF Changes
<1> HIDE DEF m, skip
<1>3. \A n \in skip + 1 .. m :
        /\ End(n) \in Seq(Operations)
        /\ Len(End(n)) = n - skip
        /\ \A i \in 1 .. n - skip : End(n)[i] = changes[skip + i].operation
  <2> TAKE n \in skip + 1 .. m
  <2>1. n - skip \in Nat
    BY <1>1
  <2>2. \A i \in 1 .. n - skip : changes[skip + i].operation \in Operations
    BY <1>1, <1>2
  <2> QED
    BY <2>1, <2>2
<1> HIDE DEF End
<1>4. ASSUME NEW n \in 1 .. m, n > skip
      PROVE  End(n) = Append(IF n - 1 <= skip THEN <<>> ELSE End(n - 1), changes[n].operation)
  <2> DEFINE before == IF n - 1 <= skip THEN <<>> ELSE End(n - 1)
             longer == Append(before, changes[n].operation)
  <2>0. changes[n].operation \in Operations /\ n \in skip + 1 .. m /\ n - skip - 1 \in Nat
    BY <1>1, <1>2, <1>4
  <2>1. /\ before \in Seq(Operations)
        /\ Len(before) = n - skip - 1
        /\ \A i \in 1 .. n - skip - 1 : before[i] = changes[skip + i].operation
    <3>1. CASE n - 1 <= skip
      BY <3>1, <1>1, <1>4
    <3>2. CASE ~(n - 1 <= skip)
      <4>1. n - 1 \in skip + 1 .. m /\ (n - 1) - skip = n - skip - 1
        BY <3>2, <1>1
      <4> QED
        BY <3>2, <4>1, <1>3
    <3> QED
      BY <3>1, <3>2
  <2> HIDE DEF before
  <2>2. /\ longer \in Seq(Operations)
        /\ Len(longer) = n - skip
        /\ \A i \in 1 .. n - skip : longer[i] = changes[skip + i].operation
    <3>1. /\ longer \in Seq(Operations)
          /\ Len(longer) = Len(before) + 1
          /\ \A i \in 1 .. Len(before) : longer[i] = before[i]
          /\ longer[Len(before) + 1] = changes[n].operation
      BY <2>0, <2>1, AppendProperties
    <3> HIDE DEF longer
    <3>2. Len(before) + 1 = n - skip /\ skip + (n - skip) = n
      BY <2>0, <2>1, <1>1
    <3>3. longer[n - skip] = changes[skip + (n - skip)].operation
      BY <3>1, <3>2
    <3>4. ASSUME NEW i \in 1 .. n - skip PROVE longer[i] = changes[skip + i].operation
      <4>1. CASE i = n - skip
        BY <4>1, <3>3
      <4>2. CASE i # n - skip
        <5>1. i \in 1 .. Len(before) /\ i \in 1 .. n - skip - 1
          BY <4>2, <2>0, <2>1, <1>1
        <5> QED
          BY <5>1, <3>1, <2>1
      <4> QED
        BY <4>1, <4>2
    <3> QED
      BY <3>1, <3>2, <3>4
  <2> HIDE DEF longer
  <2>3. End(n) \in Seq(Operations) /\ Len(End(n)) = n - skip
    BY <2>0, <1>3
  <2>4. \A i \in 1 .. Len(longer) : longer[i] = End(n)[i]
    BY <2>0, <2>2, <1>3
  <2>5. End(n) = longer
    BY <2>2, <2>3, <2>4, SeqEqual
  <2> QED
    BY <2>5 DEF longer, before
<1>5. Equation(g)
  <2>1. ASSUME NEW n \in 0 .. m
        PROVE  g[n] = IF n = 0 THEN <<>>
                      ELSE IF changes[n].seq > after THEN Append(g[n - 1], changes[n].operation)
                      ELSE g[n - 1]
    <3>1. CASE n = 0
      BY <3>1, <1>1
    <3>2. CASE n # 0 /\ n > skip
      <4>1. n \in 1 .. m /\ n - 1 \in 0 .. m
        BY <3>2, <1>1
      <4>2. g[n] = End(n) /\ g[n - 1] = IF n - 1 <= skip THEN <<>> ELSE End(n - 1)
        BY <3>2, <4>1, <1>1
      <4> QED
        BY <3>2, <4>1, <4>2, <1>2, <1>4
    <3>3. CASE n # 0 /\ ~(n > skip)
      <4>1. n \in 1 .. m /\ n - 1 \in 0 .. m /\ n <= skip /\ n - 1 <= skip
        BY <3>3, <1>1
      <4>2. g[n] = <<>> /\ g[n - 1] = <<>>
        BY <4>1
      <4> QED
        BY <3>3, <4>1, <4>2, <1>2
    <3> QED
      BY <3>1, <3>2, <3>3
  <2>2. g = [n \in 0 .. m |-> g[n]]
    OBVIOUS
  <2> HIDE DEF g
  <2> QED
    BY <2>1, <2>2
<1> DEFINE kept == CHOOSE f : Equation(f)
<1>6. NewerOperations(changes, after) = kept[m]
  BY Zenon DEF NewerOperations, m
<1>7. Equation(kept)
  <2> HIDE DEF Equation
  <2> QED
    BY <1>5, Zenon
<1>8. \A n \in 0 .. m : kept[n] = g[n]
  <2> DEFINE S == {n \in Nat : kept[n] = g[n]}
  <2>1. \A n \in 0 .. m :
          /\ kept[n] = IF n = 0 THEN <<>>
                       ELSE IF changes[n].seq > after THEN Append(kept[n - 1], changes[n].operation)
                       ELSE kept[n - 1]
          /\ g[n] = IF n = 0 THEN <<>>
                    ELSE IF changes[n].seq > after THEN Append(g[n - 1], changes[n].operation)
                    ELSE g[n - 1]
    <3> HIDE DEF g, kept
    <3> QED
      BY <1>5, <1>7
  <2> HIDE DEF g, kept, Equation
  <2>2. 0 \in S
    <3>1. 0 \in 0 .. m
      BY <1>1
    <3>2. kept[0] = <<>> /\ g[0] = <<>>
      BY <2>1, <3>1, Zenon
    <3> QED
      BY <3>2
  <2>3. ASSUME NEW n \in Nat, n < m, n \in S PROVE n + 1 \in S
    <3>1. n + 1 \in 0 .. m /\ (n + 1) - 1 = n /\ n + 1 # 0
      BY <1>1, <2>3
    <3> QED
      BY <2>1, <2>3, <3>1
  <2> HIDE DEF S
  <2>4. \A n \in 0 .. m : n \in S
    BY <1>1, <2>2, <2>3, BoundedInduction, Zenon
  <2> QED
    BY <2>4 DEF S
<1>9. NewerOperations(changes, after) = IF m <= skip THEN <<>> ELSE End(m)
  <2>1. g[m] = IF m <= skip THEN <<>> ELSE End(m)
    BY <1>1
  <2> HIDE DEF g, kept
  <2> QED
    BY <1>1, <1>6, <1>8, <2>1
<1>10. CASE m <= skip
  <2>1. last - after = 0
    BY <1>10, <1>1
  <2> QED
    BY <1>9, <1>10, <2>1
<1>11. CASE ~(m <= skip)
  <2>1. m \in skip + 1 .. m
    BY <1>11, <1>1
  <2> QED
    BY <1>1, <1>3, <1>9, <1>11, <2>1 DEF skip, m
<1> QED
  BY <1>10, <1>11

\* The document d2 with the past p2 comes after d with p by the operations.
Follows(d, p, ops, d2, p2) ==
    /\ d2 \in Documents
    /\ p2 \in Seq(Contents)
    /\ Recorded(d2, p2)
    /\ Len(p2) = Len(p) + Len(ops)
    /\ \A i \in 1 .. Len(p) : p2[i] = p[i]
    /\ d2.content = ApplyOperations(d.content, ops)

\* Publishing a batch keeps the ring and the history in step: the numbers go
\* on without a gap, what trim_change_ring drops is the oldest, and the past
\* is only extended.
LEMMA PublishedIsRecorded ==
    ASSUME NEW d \in Documents, NEW p \in Seq(Contents), Recorded(d, p),
           NEW ops \in Seq(Operations), NEW d2, d2 = ApplyToDocument(d, ops),
           NEW p2, p2 = p \o [i \in 1 .. Len(ops) |-> Stages(d.content, ops)[i]]
    PROVE  Follows(d, p, ops, d2, p2)
<1> DEFINE k == Len(ops)
           ring == d.changes
           n == Len(ring)
           last == d.last_change_seq
           stages == [i \in 1 .. k |-> Stages(d.content, ops)[i]]
           added == [i \in 1 .. k |-> [seq |-> last + i, operation |-> ops[i]]]
           whole == ring \o added
           off == IF n + k > RingCapacity THEN n + k - RingCapacity ELSE 0
<1>1. /\ k \in Nat /\ last \in Nat /\ n \in Nat /\ RingCapacity \in Nat
      /\ k = Len(ops) /\ n = Len(ring)
      /\ d.content \in Contents /\ ring \in Seq(Changes)
      /\ d.generation \in Nat /\ d.store_epoch \in Nat /\ d.ok \in BOOLEAN
  BY SharedIndexAssumption DEF Documents, Changes
<1>2. /\ Stages(d.content, ops)[0] = d.content
      /\ \A i \in 0 .. k : Stages(d.content, ops)[i] \in Contents
      /\ \A i \in 1 .. k :
           Stages(d.content, ops)[i] = ApplyOperation(Stages(d.content, ops)[i - 1], ops[i])
  BY <1>1, StagesProperties
<1>3. stages \in Seq(Contents) /\ Len(stages) = k /\ \A i \in 1 .. k : stages[i] = Stages(d.content, ops)[i]
  BY <1>1, <1>2
<1>4. /\ added \in Seq(Changes) /\ Len(added) = k
      /\ \A i \in 1 .. k : added[i] = [seq |-> last + i, operation |-> ops[i]]
  <2>1. \A i \in 1 .. k : [seq |-> last + i, operation |-> ops[i]] \in Changes
    BY <1>1 DEF Changes
  <2> QED
    BY <1>1, <2>1
<1>5. p2 = p \o stages
  OBVIOUS
<1>6. /\ Len(p) = last + 1 /\ p[last + 1] = d.content /\ n <= last
      /\ \A i \in 1 .. n : /\ ring[i].seq + n = last + i
                           /\ p[ring[i].seq + 1] = ApplyOperation(p[ring[i].seq], ring[i].operation)
  BY DEF Recorded
<1> HIDE DEF stages, added, k, n, ring, last
<1>7. /\ p2 \in Seq(Contents)
      /\ Len(p2) = Len(p) + k
      /\ \A i \in 1 .. Len(p) : p2[i] = p[i]
      /\ \A i \in 0 .. k : p2[last + 1 + i] = Stages(d.content, ops)[i]
  <2>1. /\ p2 \in Seq(Contents)
        /\ Len(p2) = Len(p) + k
        /\ \A i \in 1 .. Len(p) + k : p2[i] = IF i <= Len(p) THEN p[i] ELSE stages[i - Len(p)]
    <3>1. /\ p \o stages \in Seq(Contents)
          /\ Len(p \o stages) = Len(p) + Len(stages)
          /\ \A i \in 1 .. Len(p) + Len(stages) :
               (p \o stages)[i] = IF i <= Len(p) THEN p[i] ELSE stages[i - Len(p)]
      BY <1>3, ConcatProperties, Zenon
    <3> QED
      BY <3>1, <1>3, <1>5, Zenon
  <2>2. \A i \in 1 .. Len(p) : p2[i] = p[i]
    BY <2>1, <1>1
  <2>3. ASSUME NEW i \in 0 .. k PROVE p2[last + 1 + i] = Stages(d.content, ops)[i]
    <3>1. CASE i = 0
      <4>1. last + 1 + i \in 1 .. Len(p) /\ last + 1 + i = last + 1
        BY <3>1, <1>1, <1>6
      <4> QED
        BY <3>1, <4>1, <2>2, <1>2, <1>6
    <3>2. CASE i # 0
      <4>1. /\ i \in 1 .. k /\ last + 1 + i \in 1 .. Len(p) + k
            /\ ~(last + 1 + i <= Len(p)) /\ (last + 1 + i) - Len(p) = i
        BY <3>2, <1>1, <1>6
      <4> QED
        BY <4>1, <2>1, <1>3
    <3> QED
      BY <3>1, <3>2
  <2> QED
    BY <2>1, <2>2, <2>3
<1>8. /\ whole \in Seq(Changes)
      /\ Len(whole) = n + k
      /\ \A i \in 1 .. n + k : whole[i] = IF i <= n THEN ring[i] ELSE added[i - n]
  <2>1. /\ ring \o added \in Seq(Changes)
        /\ Len(ring \o added) = Len(ring) + Len(added)
        /\ \A i \in 1 .. Len(ring) + Len(added) :
             (ring \o added)[i] = IF i <= Len(ring) THEN ring[i] ELSE added[i - Len(ring)]
    BY <1>1, <1>4, ConcatProperties, Zenon
  <2> QED
    BY <2>1, <1>1, <1>4, Zenon
<1> HIDE DEF whole
<1>9. ASSUME NEW i \in 1 .. n + k
      PROVE  /\ whole[i].seq + (n + k) = (last + k) + i
             /\ p2[whole[i].seq + 1] = ApplyOperation(p2[whole[i].seq], whole[i].operation)
  <2>1. CASE i <= n
    <3>1. whole[i] = ring[i] /\ i \in 1 .. n
      BY <2>1, <1>8, <1>1
    <3>2. /\ ring[i].seq + n = last + i
          /\ p[ring[i].seq + 1] = ApplyOperation(p[ring[i].seq], ring[i].operation)
      BY <3>1, <1>6
    <3>3. ring[i] \in Changes
      BY <3>1, <1>1, ElementOfSeq
    <3> DEFINE x == ring[i].seq
    <3>4. x \in Nat
      BY <3>3 DEF Changes
    <3>5. x + n = last + i
      BY <3>2
    <3> HIDE DEF x
    <3>6. x \in 1 .. last + 1 /\ x + 1 \in 1 .. last + 1 /\ x + (n + k) = (last + k) + i
      <4>1. i \in Nat /\ i >= 1 /\ i <= n /\ n <= last
        BY <3>1, <1>1, <1>6
      <4>2. k \in Nat /\ last \in Nat /\ n \in Nat
        BY <1>1
      <4> QED
        BY ONLY <3>4, <3>5, <4>1, <4>2
    <3>7. p2[x] = p[x] /\ p2[x + 1] = p[x + 1]
      BY <3>6, <1>6, <1>7
    <3>8. x = whole[i].seq /\ p[x + 1] = ApplyOperation(p[x], whole[i].operation)
      BY <3>1, <3>2 DEF x
    <3> QED
      BY <3>6, <3>7, <3>8
  <2>2. CASE ~(i <= n)
    <3> DEFINE j == i - n
    <3>1. j \in 1 .. k /\ j - 1 \in 0 .. k /\ j \in 0 .. k /\ i = n + j
      BY <2>2, <1>1
    <3>2. whole[i].seq = last + j /\ whole[i].operation = ops[j]
      BY <2>2, <3>1, <1>4, <1>8
    <3> HIDE DEF j
    <3>3. /\ p2[last + 1 + j] = Stages(d.content, ops)[j]
          /\ p2[last + 1 + (j - 1)] = Stages(d.content, ops)[j - 1]
      BY <3>1, <1>7
    <3>4. last + 1 + (j - 1) = last + j /\ last + 1 + j = last + j + 1
      BY <3>1, <1>1
    <3>5. p2[last + j + 1] = ApplyOperation(p2[last + j], ops[j])
      BY <3>1, <3>3, <3>4, <1>2
    <3>6. (last + j) + (n + k) = (last + k) + i
      BY <1>1, <3>1
    <3> QED
      BY <3>2, <3>5, <3>6
  <2> QED
    BY <2>1, <2>2
<1>10. /\ d2.changes = TrimChangeRing(whole)
       /\ d2.content = ApplyOperations(d.content, ops)
       /\ d2.last_change_seq = last + k
       /\ d2.generation = d.generation + 1
       /\ d2.store_epoch = d.store_epoch /\ d2.ok = d.ok
       /\ d2 = [ok |-> d2.ok, generation |-> d2.generation, store_epoch |-> d2.store_epoch,
                last_change_seq |-> d2.last_change_seq, content |-> d2.content, changes |-> d2.changes]
  BY DEF ApplyToDocument, Documents, whole, added, ring, k, last
<1>11. /\ d2.changes \in Seq(Changes)
       /\ Len(d2.changes) = n + k - off
       /\ \A i \in 1 .. n + k - off : d2.changes[i] = whole[i + off]
  <2>1. CASE n + k > RingCapacity
    <3>1. d2.changes = SubSeq(whole, n + k - RingCapacity + 1, n + k)
      <4>1. Len(whole) > RingCapacity /\ Len(whole) = n + k
        BY <2>1, <1>8
      <4>2. TrimChangeRing(whole) = SubSeq(whole, Len(whole) - RingCapacity + 1, Len(whole))
        BY <4>1, Zenon DEF TrimChangeRing
      <4>3. d2.changes = TrimChangeRing(whole) /\ Len(whole) = n + k
        BY <1>10, <4>1
      <4>4. k \in Nat /\ n \in Nat /\ RingCapacity \in Nat
        BY <1>1
      <4> QED
        BY ONLY <4>2, <4>3, <4>4
    <3>2. off = n + k - RingCapacity /\ off + 1 \in 1 .. n + k + 1 /\ off \in Nat
      BY <2>1, <1>1
    <3>3. \A i \in off + 1 .. n + k : whole[i] \in Changes
      BY <3>2, <1>1, <1>8
    <3> HIDE DEF off
    <3>4. /\ SubSeq(whole, off + 1, n + k) \in Seq(Changes)
          /\ Len(SubSeq(whole, off + 1, n + k)) = IF off + 1 <= n + k THEN (n + k) - (off + 1) + 1 ELSE 0
          /\ \A i \in 1 .. (n + k) - (off + 1) + 1 :
               SubSeq(whole, off + 1, n + k)[i] = whole[(off + 1) + i - 1]
      BY <3>2, <3>3, <1>1, SubSeqProperties
    <3>5. d2.changes = SubSeq(whole, off + 1, n + k)
      BY <3>1, <3>2
    <3>6. (n + k) - (off + 1) + 1 = n + k - off
      BY <1>1, <3>2
    <3>7. Len(d2.changes) = n + k - off
      BY <1>1, <3>2, <3>4, <3>5
    <3>8. \A i \in 1 .. n + k - off : (off + 1) + i - 1 = i + off
      BY <1>1, <3>2
    <3> QED
      BY <3>4, <3>5, <3>6, <3>7, <3>8
  <2>2. CASE ~(n + k > RingCapacity)
    BY <2>2, <1>1, <1>8, <1>10 DEF TrimChangeRing
  <2> QED
    BY <2>1, <2>2
<1>12. off \in 0 .. n + k /\ n + k - off <= RingCapacity /\ n + k - off \in Nat
  BY <1>1
<1> HIDE DEF off
<1>13. \A i \in 1 .. n + k - off :
         /\ d2.changes[i].seq + (n + k - off) = (last + k) + i
         /\ p2[d2.changes[i].seq + 1] = ApplyOperation(p2[d2.changes[i].seq], d2.changes[i].operation)
  <2> TAKE i \in 1 .. n + k - off
  <2>1. i + off \in 1 .. n + k
    BY <1>1, <1>12
  <2>2. d2.changes[i] = whole[i + off] /\ whole[i + off] \in Changes
    BY <1>8, <1>11, <2>1
  <2> DEFINE x == whole[i + off].seq
  <2>3. x \in Nat
    BY <2>2 DEF Changes
  <2>4. x + (n + k) = (last + k) + (i + off)
    BY <2>1, <1>9
  <2> HIDE DEF x
  <2>5. x + (n + k - off) = (last + k) + i
    BY <1>1, <1>12, <2>3, <2>4
  <2>6. x = d2.changes[i].seq
    BY <2>2 DEF x
  <2> QED
    BY <2>1, <2>2, <2>5, <2>6, <1>9
<1>14. d2.content = Stages(d.content, ops)[k] /\ d2.content \in Contents
  <2>1. d2.content = Stages(d.content, ops)[k]
    BY <1>10, Zenon DEF ApplyOperations, k
  <2>2. k \in 0 .. k
    BY <1>1
  <2> QED
    BY <1>2, <2>1, <2>2
<1>15. p2[(last + k) + 1] = d2.content
  <2>1. k \in 0 .. k /\ last + 1 + k = (last + k) + 1
    BY <1>1
  <2> QED
    BY <2>1, <1>7, <1>14
<1>16. Recorded(d2, p2)
  <2>1. Len(d2.changes) = n + k - off /\ d2.last_change_seq = last + k
    BY <1>10, <1>11
  <2>2. n + k - off <= last + k
    BY <1>1, <1>6, <1>12
  <2>3. Len(p2) = (last + k) + 1
    BY <1>1, <1>6, <1>7
  <2> QED
    BY <2>1, <2>2, <2>3, <1>12, <1>13, <1>15 DEF Recorded
<1>17. d2 \in Documents
  <2>1. d2.last_change_seq \in Nat /\ d2.generation \in Nat /\ d2.store_epoch \in Nat /\ d2.ok \in BOOLEAN
    BY <1>1, <1>10
  <2>2. d2.changes \in Seq([seq : Nat, operation : Operations])
    BY <1>11 DEF Changes
  <2> QED
    BY <1>10, <1>14, <2>1, <2>2 DEF Documents
<1> QED
  BY <1>7, <1>10, <1>16, <1>17 DEF k, Follows

\* A delta that operations_since returns is a sequence of operations, and
\* takes contents from where the document was at the cursor to where it is.
LEMMA DeltaCatchesUp ==
    ASSUME NEW d \in Documents, NEW p \in Seq(Contents), Recorded(d, p),
           NEW after \in Nat, after <= d.last_change_seq, OperationsSince(d, after) # <<>>
    PROVE  /\ OperationsSince(d, after) \in Seq(Operations)
           /\ ApplyOperations(p[after + 1], OperationsSince(d, after)) = d.content
<1> DEFINE ring == d.changes
           n == Len(ring)
           last == d.last_change_seq
           ops == OperationsSince(d, after)
           skip == after + n - last
<1>1. ring \in Seq(Changes) /\ n \in Nat /\ last \in Nat /\ n = Len(ring)
  BY DEF Documents, Changes
<1>2. /\ Len(p) = last + 1 /\ p[last + 1] = d.content /\ after <= last
      /\ \A i \in 1 .. n : /\ ring[i].seq + n = last + i
                           /\ p[ring[i].seq + 1] = ApplyOperation(p[ring[i].seq], ring[i].operation)
  BY DEF Recorded
<1>3. ops = NewerOperations(ring, after) /\ ring # <<>> /\ ~(after + 1 < Head(ring).seq)
  BY Zenon DEF OperationsSince
<1> HIDE DEF ring, n, last, ops
<1>4. last <= after + n
  <2>1. n >= 1 /\ Head(ring) = ring[1] /\ 1 \in 1 .. n /\ ring[1] \in Changes
    BY <1>1, <1>3
  <2> DEFINE x == ring[1].seq
  <2>2. x \in Nat /\ x + n = last + 1 /\ ~(after + 1 < x)
    BY <1>2, <1>3, <2>1 DEF Changes
  <2> HIDE DEF x
  <2> QED
    BY <1>1, <2>2
<1>5. /\ ops \in Seq(Operations)
      /\ Len(ops) = last - after
      /\ \A i \in 1 .. last - after : ops[i] = ring[skip + i].operation
  <2>1. \A i \in 1 .. Len(ring) : ring[i].seq + Len(ring) = last + i
    BY <1>1, <1>2
  <2>2. after <= last /\ last <= after + Len(ring)
    BY <1>1, <1>2, <1>4
  <2>3. /\ NewerOperations(ring, after) \in Seq(Operations)
        /\ Len(NewerOperations(ring, after)) = last - after
        /\ \A i \in 1 .. last - after :
             NewerOperations(ring, after)[i] = ring[after + Len(ring) - last + i].operation
    BY <1>1, <2>1, <2>2, NewerOperationsAreTheEnd, Zenon
  <2> QED
    BY <1>1, <1>3, <2>3, Zenon
<1> DEFINE f == [j \in 0 .. last - after |-> p[after + 1 + j]]
<1>6. f[0] = p[after + 1] /\ p[after + 1] \in Contents
  BY <1>1, <1>2
<1>7. ASSUME NEW i \in 1 .. Len(ops) PROVE f[i] = ApplyOperation(f[i - 1], ops[i])
  <2> DEFINE j == skip + i
             x == ring[j].seq
  <2>1. i \in 1 .. last - after /\ j \in 1 .. n
    BY <1>1, <1>2, <1>4, <1>5
  <2>2. ring[j] \in Changes
    BY <1>1, <2>1, ElementOfSeq
  <2>3. x \in Nat /\ x + n = last + j
    BY <2>1, <2>2, <1>2 DEF Changes
  <2>4. p[x + 1] = ApplyOperation(p[x], ops[i])
    BY <1>2, <1>5, <2>1
  <2> HIDE DEF x
  <2>5. x = after + i
    BY <1>1, <2>1, <2>3
  <2>6. f[i] = p[x + 1] /\ f[i - 1] = p[x]
    <3>1. i \in 0 .. last - after /\ i - 1 \in 0 .. last - after
      BY <1>1, <2>1
    <3>2. after + 1 + i = x + 1 /\ after + 1 + (i - 1) = x
      BY <2>5
    <3>3. f[i] = p[after + 1 + i] /\ f[i - 1] = p[after + 1 + (i - 1)]
      BY <3>1
    <3> QED
      BY <3>2, <3>3
  <2> HIDE DEF f
  <2> QED
    BY <2>4, <2>6
<1>8. f[last - after] = d.content
  <2>1. last - after \in 0 .. last - after /\ after + 1 + (last - after) = last + 1
    BY <1>1, <1>2
  <2>2. f[last - after] = p[after + 1 + (last - after)]
    BY <2>1
  <2> QED
    BY <2>1, <2>2, <1>2
<1> HIDE DEF f
<1>9. Stages(p[after + 1], ops)[Len(ops)] = f[Len(ops)]
  <2>1. \A j \in 0 .. Len(ops) : Stages(p[after + 1], ops)[j] = f[j]
    BY <1>5, <1>6, <1>7, StagesUnique, Zenon
  <2>2. Len(ops) \in 0 .. Len(ops)
    BY <1>5
  <2> QED
    BY <2>1, <2>2
<1> QED
  BY <1>5, <1>8, <1>9 DEF ApplyOperations, ops

-----------------------------------------------------------------------------
(* The inductive invariant.                                                *)

\* The ring and the history record the document, the mirrors fit the
\* history, and nobody loaded the document after a rebuild yet to come.
IndexInv ==
    /\ TypeOK
    /\ Recorded(doc, past)
    /\ MirrorsThePast
    /\ \A w \in Workers : origin[w] <= rebuilds

\* The contents of an index without entries are contents.
LEMMA EmptyContentType == EmptyContent \in Contents
BY DEF EmptyContent, Contents

\* The document as recreate and a new segment leave it.
StartDocument(c, e, g) ==
    [ok |-> TRUE, generation |-> g, store_epoch |-> e, last_change_seq |-> 0,
     content |-> c, changes |-> <<>>]

\* A document that starts again, with any contents, is recorded by a past
\* that starts with them.
LEMMA StartIsRecorded ==
    ASSUME NEW c \in Contents, NEW e \in Nat, NEW g \in Nat
    PROVE  /\ StartDocument(c, e, g) \in Documents
           /\ <<c>> \in Seq(Contents)
           /\ Recorded(StartDocument(c, e, g), <<c>>)
<1>1. <<>> \in Seq([seq : Nat, operation : Operations]) /\ Len(<<>>) = 0
  OBVIOUS
<1>2. StartDocument(c, e, g) \in Documents
  BY <1>1 DEF Documents, StartDocument
<1>3. RingCapacity \in Nat
  BY SharedIndexAssumption
<1>4. Len(<<c>>) = 1 /\ <<c>>[1] = c
  OBVIOUS
<1>5. Recorded(StartDocument(c, e, g), <<c>>)
  BY <1>1, <1>3, <1>4 DEF Recorded, StartDocument
<1> QED
  BY <1>2, <1>5

\* The first worker starts with an empty index that everybody mirrors.
LEMMA InitIndexInv == Init => IndexInv
<1> SUFFICES ASSUME Init PROVE IndexInv
  OBVIOUS
<1> USE DEF Init
<1>1. doc \in Documents /\ past \in Seq(Contents) /\ Recorded(doc, past)
  <2>1. doc = StartDocument(EmptyContent, 1, 1)
    BY DEF EmptyDocument, StartDocument
  <2> QED
    BY <2>1, EmptyContentType, StartIsRecorded
<1>2. cursor \in [Workers -> Cursors] /\ \A w \in Workers : cursor[w].change_seq = 0
  BY DEF CursorOf, Cursors, EmptyDocument
<1>3. TypeOK
  <2>1. rebuilds \in 0 .. MaxRebuilds /\ origin \in [Workers -> 0 .. MaxRebuilds]
    BY SharedIndexAssumption
  <2> QED
    BY <1>1, <1>2, <2>1, EmptyContentType DEF TypeOK
<1>4. MirrorsThePast
  BY <1>2 DEF MirrorsThePast
<1> QED
  BY <1>1, <1>3, <1>4 DEF IndexInv

\* Applying typed operations to typed contents gives contents.
LEMMA ApplyOperationsType ==
    ASSUME NEW c \in Contents, NEW ops \in Seq(Operations)
    PROVE  ApplyOperations(c, ops) \in Contents
<1>1. Stages(c, ops) \in [0 .. Len(ops) -> Contents]
  BY StagesProperties
<1>2. Len(ops) \in 0 .. Len(ops)
  OBVIOUS
<1> QED
  BY <1>1, <1>2 DEF ApplyOperations

\* The cursor of a document is a cursor.
LEMMA CursorOfType ==
    ASSUME NEW d \in Documents
    PROVE  CursorOf(d) \in Cursors /\ CursorOf(d).change_seq = d.last_change_seq
BY DEF CursorOf, Cursors, Documents

\* An update keeps the invariant: a worker with all changes moves along with
\* the document, any other one is marked as strayed.
LEMMA PublishIndexInv ==
    ASSUME IndexInv, NEW w \in Workers, NEW ops \in Batches, Publish(w, ops)
    PROVE  IndexInv'
<1>1. ops \in Seq(Operations)
  BY SharedIndexAssumption
<1>2. /\ doc \in Documents /\ past \in Seq(Contents) /\ Recorded(doc, past)
      /\ mirror \in [Workers -> Contents] /\ cursor \in [Workers -> Cursors]
      /\ strayed \subseteq Workers
  BY DEF IndexInv, TypeOK
<1>3. /\ pc[w] = "idle"
      /\ mirror' = [mirror EXCEPT ![w] = ApplyOperations(mirror[w], ops)]
      /\ UNCHANGED <<header, pc, rebuilds, origin>>
  BY DEF Publish
<1>4. mirror' \in [Workers -> Contents] /\ mirror'[w] = ApplyOperations(mirror[w], ops)
      /\ \A v \in Workers \ {w} : mirror'[v] = mirror[v]
  BY <1>1, <1>2, <1>3, ApplyOperationsType
<1>5. \A v \in Workers : origin'[v] <= rebuilds'
  BY <1>3 DEF IndexInv
<1>6. CASE /\ doc' = ApplyToDocument(doc, ops)
           /\ cursor' = [cursor EXCEPT ![w] = CursorOf(doc')]
           /\ strayed' = IF cursor[w] = CursorOf(doc) /\ origin[w] = rebuilds
                         THEN strayed ELSE strayed \cup {w}
           /\ past' = past \o [i \in 1 .. Len(ops) |-> Stages(doc.content, ops)[i]]
  <2>1. /\ doc' \in Documents /\ past' \in Seq(Contents) /\ Recorded(doc', past')
        /\ Len(past') = Len(past) + Len(ops)
        /\ \A i \in 1 .. Len(past) : past'[i] = past[i]
        /\ doc'.content = ApplyOperations(doc.content, ops)
    <3>1. Follows(doc, past, ops, doc', past')
      BY <1>1, <1>2, <1>6, PublishedIsRecorded, Zenon
    <3> QED
      BY <3>1 DEF Follows
  <2>2. CursorOf(doc') \in Cursors /\ CursorOf(doc').change_seq = doc'.last_change_seq
    BY <2>1, CursorOfType
  <2>3. /\ cursor' \in [Workers -> Cursors]
        /\ cursor'[w] = CursorOf(doc')
        /\ \A v \in Workers \ {w} : cursor'[v] = cursor[v]
    BY <1>2, <1>6, <2>2
  <2>4. strayed' \subseteq Workers /\ strayed \subseteq strayed'
    BY <1>2, <1>6
  <2>5. TypeOK'
    BY <1>3, <1>4, <2>1, <2>3, <2>4 DEF IndexInv, TypeOK
  <2>6. /\ Len(past') = doc'.last_change_seq + 1
        /\ past'[doc'.last_change_seq + 1] = doc'.content
        /\ Len(past) = doc.last_change_seq + 1
        /\ past[doc.last_change_seq + 1] = doc.content
    BY <2>1, <1>2 DEF Recorded
  <2>7. doc.last_change_seq \in Nat /\ doc'.last_change_seq \in Nat /\ Len(ops) \in Nat
    BY <1>1, <1>2, <2>1 DEF Documents
  <2>8. ASSUME NEW v \in Workers, pc'[v] \in {"idle", "delta", "reload"},
               origin'[v] = rebuilds', v \notin strayed'
        PROVE  cursor'[v].change_seq < Len(past') /\ mirror'[v] = past'[cursor'[v].change_seq + 1]
    <3>1. v \notin strayed /\ pc[v] \in {"idle", "delta", "reload"} /\ origin[v] = rebuilds
      BY <1>3, <2>4, <2>8
    <3>2. cursor[v].change_seq < Len(past) /\ mirror[v] = past[cursor[v].change_seq + 1]
      BY <3>1 DEF IndexInv, MirrorsThePast
    <3>3. CASE v = w
      <4>1. cursor[w] = CursorOf(doc)
        BY <2>8, <3>3, <1>6
      <4>2. mirror[w] = doc.content
        BY <4>1, <3>2, <3>3, <2>6, <1>2, CursorOfType
      <4>3. cursor'[w].change_seq = doc'.last_change_seq
        BY <2>2, <2>3
      <4> QED
        BY <3>3, <4>2, <4>3, <1>4, <2>1, <2>6, <2>7
    <3>4. CASE v # w
      <4>1. cursor'[v] = cursor[v] /\ mirror'[v] = mirror[v]
        BY <3>4, <1>4, <2>3
      <4> DEFINE x == cursor[v].change_seq
      <4>2. x \in Nat /\ x < Len(past) /\ Len(past) \in Nat /\ Len(past') = Len(past) + Len(ops)
        BY <1>2, <3>2, <2>1, <2>6, <2>7 DEF Cursors
      <4> HIDE DEF x
      <4>3. x + 1 \in 1 .. Len(past) /\ x < Len(past')
        BY <4>2, <2>7
      <4>4. past'[x + 1] = past[x + 1]
        BY <4>3, <2>1
      <4> QED
        BY <4>1, <4>3, <4>4, <3>2 DEF x
    <3> QED
      BY <3>3, <3>4
  <2>9. MirrorsThePast'
    BY <2>8 DEF MirrorsThePast
  <2> QED
    BY <1>5, <2>1, <2>5, <2>9 DEF IndexInv
<1>7. CASE strayed' = strayed \cup {w} /\ UNCHANGED <<doc, cursor, past>>
  <2>1. TypeOK'
    BY <1>2, <1>3, <1>4, <1>7 DEF IndexInv, TypeOK
  <2>2. Recorded(doc', past')
    BY <1>2, <1>7
  <2>3. MirrorsThePast'
    BY <1>3, <1>4, <1>7 DEF IndexInv, MirrorsThePast
  <2> QED
    BY <1>5, <2>1, <2>2, <2>3 DEF IndexInv
<1> QED
  BY <1>6, <1>7 DEF Publish

\* Taking over the document keeps the invariant.
LEMMA AttachIndexInv ==
    ASSUME IndexInv, NEW w \in Workers, Attach(w)
    PROVE  IndexInv'
<1>1. /\ doc \in Documents /\ past \in Seq(Contents) /\ Recorded(doc, past)
      /\ mirror \in [Workers -> Contents] /\ cursor \in [Workers -> Cursors]
      /\ doc.content \in Contents /\ doc.last_change_seq \in Nat
  BY DEF IndexInv, TypeOK, Documents
<1>2. CursorOf(doc) \in Cursors /\ CursorOf(doc).change_seq = doc.last_change_seq
  BY <1>1, CursorOfType
<1>3. TypeOK'
  BY <1>1, <1>2 DEF IndexInv, TypeOK, Attach
<1>4. Recorded(doc', past')
  BY <1>1 DEF Attach
<1>5. Len(past) = doc.last_change_seq + 1 /\ past[doc.last_change_seq + 1] = doc.content
  BY <1>1 DEF Recorded
<1>6. ASSUME NEW v \in Workers, pc'[v] \in {"idle", "delta", "reload"},
             origin'[v] = rebuilds', v \notin strayed'
      PROVE  cursor'[v].change_seq < Len(past') /\ mirror'[v] = past'[cursor'[v].change_seq + 1]
  <2>1. CASE v = w
    <3>1. cursor'[v] = CursorOf(doc) /\ mirror'[v] = doc.content /\ past' = past
      BY <2>1, <1>1 DEF Attach
    <3> QED
      BY <3>1, <1>1, <1>2, <1>5
  <2>2. CASE v # w
    <3>1. /\ cursor'[v] = cursor[v] /\ mirror'[v] = mirror[v] /\ past' = past /\ pc'[v] = pc[v]
          /\ origin'[v] = origin[v] /\ v \notin strayed /\ rebuilds' = rebuilds
      BY <2>2, <1>1, <1>6 DEF Attach, IndexInv, TypeOK
    <3> QED
      BY <3>1, <1>6 DEF IndexInv, MirrorsThePast
  <2> QED
    BY <2>1, <2>2
<1>7. MirrorsThePast'
  BY <1>6 DEF MirrorsThePast
<1>8. \A v \in Workers : origin'[v] <= rebuilds'
  BY DEF IndexInv, TypeOK, Attach
<1> QED
  BY <1>3, <1>4, <1>7, <1>8 DEF IndexInv

\* A step that changes what one worker does, or whether the document can be
\* read, and nothing else the invariant speaks of, keeps it, unless the
\* worker starts to answer lookups.
LEMMA QuietIndexInv ==
    ASSUME IndexInv, NEW w \in Workers, NEW at,
           at \in {"down", "rebuild"} \/ (at \in {"idle", "delta", "reload"}
                                         /\ pc[w] \in {"idle", "delta", "reload"}),
           pc' = [pc EXCEPT ![w] = at],
           doc' = doc \/ doc' = [doc EXCEPT !.ok = FALSE],
           UNCHANGED <<header, mirror, cursor, rebuilds, origin, strayed, past>>
    PROVE  IndexInv'
<1>1. doc \in Documents /\ Recorded(doc, past) /\ pc \in [Workers -> {"down", "rebuild", "idle", "delta", "reload"}]
  BY DEF IndexInv, TypeOK
<1>2. /\ doc' \in Documents /\ doc'.changes = doc.changes /\ doc'.content = doc.content
      /\ doc'.last_change_seq = doc.last_change_seq
  BY <1>1 DEF Documents
<1>3. TypeOK'
  BY <1>1, <1>2 DEF IndexInv, TypeOK
<1>4. Recorded(doc', past')
  BY <1>1, <1>2 DEF Recorded
<1>5. MirrorsThePast'
  BY <1>1 DEF IndexInv, MirrorsThePast
<1>6. \A v \in Workers : origin'[v] <= rebuilds'
  BY DEF IndexInv
<1> QED
  BY <1>3, <1>4, <1>5, <1>6 DEF IndexInv

\* A delta keeps the invariant: it takes a worker in good standing to the
\* contents the document has now.
LEMMA ApplyDeltaIndexInv ==
    ASSUME IndexInv, NEW w \in Workers, ApplyDelta(w)
    PROVE  /\ IndexInv'
           /\ w \in Following => mirror' = [mirror EXCEPT ![w] = doc.content]
<1> DEFINE after == cursor[w].change_seq
           ops == OperationsSince(doc, after)
<1>1. /\ doc \in Documents /\ past \in Seq(Contents) /\ Recorded(doc, past)
      /\ mirror \in [Workers -> Contents] /\ cursor \in [Workers -> Cursors]
      /\ pc \in [Workers -> {"down", "rebuild", "idle", "delta", "reload"}]
      /\ doc.last_change_seq \in Nat /\ after \in Nat
  BY DEF IndexInv, TypeOK, Documents, Cursors
<1>2. /\ pc[w] = "delta" /\ after <= doc.last_change_seq /\ ops # <<>>
      /\ mirror' = [mirror EXCEPT ![w] = ApplyOperations(mirror[w], ops)]
      /\ cursor' = [cursor EXCEPT ![w] = CursorOf(doc)]
      /\ pc' = [pc EXCEPT ![w] = "idle"]
      /\ UNCHANGED <<doc, header, rebuilds, origin, strayed, past>>
  <2>1. doc.last_change_seq >= after
    BY DEF ApplyDelta, DeltaUsable
  <2>2. after <= doc.last_change_seq
    <3> HIDE DEF after
    <3> QED
      BY <1>1, <2>1
  <2> QED
    BY <2>2, Zenon DEF ApplyDelta, DeltaUsable
<1>3. CursorOf(doc) \in Cursors /\ CursorOf(doc).change_seq = doc.last_change_seq
  BY <1>1, CursorOfType
<1> HIDE DEF after, ops
<1>4. ops \in Seq(Operations) /\ ApplyOperations(past[after + 1], ops) = doc.content
  BY <1>1, <1>2, DeltaCatchesUp, Zenon DEF ops
<1>5. mirror[w] \in Contents
  BY <1>1
<1>6. ApplyOperations(mirror[w], ops) \in Contents
  BY <1>4, <1>5, ApplyOperationsType
<1>7. TypeOK'
  BY <1>1, <1>2, <1>3, <1>6 DEF IndexInv, TypeOK
<1>8. Recorded(doc', past')
  BY <1>1, <1>2
<1>9. Len(past) = doc.last_change_seq + 1 /\ past[doc.last_change_seq + 1] = doc.content
  BY <1>1 DEF Recorded
<1>10. ASSUME w \notin strayed, origin[w] = rebuilds
       PROVE  ApplyOperations(mirror[w], ops) = doc.content
  <2>1. mirror[w] = past[after + 1]
    BY <1>2, <1>10 DEF IndexInv, MirrorsThePast, after
  <2> QED
    BY <1>4, <2>1
<1>11. ASSUME NEW v \in Workers, pc'[v] \in {"idle", "delta", "reload"},
              origin'[v] = rebuilds', v \notin strayed'
       PROVE  cursor'[v].change_seq < Len(past') /\ mirror'[v] = past'[cursor'[v].change_seq + 1]
  <2>1. CASE v = w
    <3>1. cursor'[v] = CursorOf(doc) /\ mirror'[v] = doc.content /\ past' = past
      BY <2>1, <1>1, <1>2, <1>10, <1>11
    <3> QED
      BY <3>1, <1>1, <1>3, <1>9
  <2>2. CASE v # w
    <3>1. /\ cursor'[v] = cursor[v] /\ mirror'[v] = mirror[v] /\ past' = past /\ pc'[v] = pc[v]
          /\ origin[v] = rebuilds /\ v \notin strayed
      BY <2>2, <1>1, <1>2, <1>11
    <3> QED
      BY <3>1, <1>11 DEF IndexInv, MirrorsThePast
  <2> QED
    BY <2>1, <2>2
<1>12. MirrorsThePast'
  BY <1>11 DEF MirrorsThePast
<1>13. \A v \in Workers : origin'[v] <= rebuilds'
  BY <1>2 DEF IndexInv
<1>14. w \in Following => mirror' = [mirror EXCEPT ![w] = doc.content]
  BY <1>2, <1>10 DEF Following
<1> QED
  BY <1>7, <1>8, <1>12, <1>13, <1>14 DEF IndexInv

\* After a rebuild only the worker that made it has loaded the document.
LEMMA RebuildIndexInv ==
    ASSUME IndexInv, NEW w \in Workers, Rebuild(w)
    PROVE  /\ IndexInv'
           /\ Len(past') = 1
           /\ Following' = {w}
           /\ mirror'[w] = past'[1]
           /\ \A v \in Workers \ {w} : mirror'[v] = mirror[v]
<1>1. /\ doc \in Documents /\ header \in Nat /\ rebuilds \in 0 .. MaxRebuilds /\ MaxRebuilds \in Nat
      /\ mirror \in [Workers -> Contents] /\ cursor \in [Workers -> Cursors]
      /\ pc \in [Workers -> {"down", "rebuild", "idle", "delta", "reload"}]
      /\ origin \in [Workers -> 0 .. MaxRebuilds] /\ strayed \subseteq Workers
      /\ doc.content \in Contents
  BY SharedIndexAssumption DEF IndexInv, TypeOK, Documents
<1>2. PICK found \in {doc.content.entries, EmptyContent.entries} :
        LET scanned == [EmptyContent EXCEPT !.entries = found] IN
         /\ doc' = [EmptyDocument(header) EXCEPT !.generation = 1, !.content = scanned]
         /\ mirror' = [mirror EXCEPT ![w] = scanned]
         /\ past' = <<scanned>>
  BY DEF Rebuild
<1> DEFINE scanned == [EmptyContent EXCEPT !.entries = found]
<1>3. scanned \in Contents
  BY <1>1 DEF EmptyContent, Contents
<1>4. /\ doc' = StartDocument(scanned, header, 1)
      /\ mirror' = [mirror EXCEPT ![w] = scanned]
      /\ past' = <<scanned>>
  <2> HIDE DEF scanned
  <2>1. doc' = [EmptyDocument(header) EXCEPT !.generation = 1, !.content = scanned]
    BY <1>2, Zenon DEF scanned
  <2>2. doc' = StartDocument(scanned, header, 1)
    BY <2>1 DEF EmptyDocument, StartDocument
  <2> QED
    BY <1>2, <2>2, Zenon DEF scanned
<1> HIDE DEF scanned
<1>5. /\ cursor' = [cursor EXCEPT ![w] = CursorOf(doc')] /\ rebuilds' = rebuilds + 1
      /\ origin' = [origin EXCEPT ![w] = rebuilds + 1] /\ strayed' = strayed \ {w}
      /\ pc' = [pc EXCEPT ![w] = "idle"] /\ header' = header /\ rebuilds < MaxRebuilds
  BY DEF Rebuild
<1>6. doc' \in Documents /\ past' \in Seq(Contents) /\ Recorded(doc', past')
  BY <1>1, <1>3, <1>4, StartIsRecorded
<1>7. CursorOf(doc') \in Cursors /\ CursorOf(doc').change_seq = 0
  BY <1>4, <1>6, CursorOfType DEF StartDocument
<1>8. rebuilds' \in 0 .. MaxRebuilds /\ origin' \in [Workers -> 0 .. MaxRebuilds]
  BY <1>1, <1>5
<1>9. TypeOK'
  BY <1>1, <1>3, <1>4, <1>5, <1>6, <1>7, <1>8 DEF TypeOK
<1>10. \A v \in Workers \ {w} : origin'[v] = origin[v] /\ origin[v] <= rebuilds /\ origin[v] \in Nat
  BY <1>1, <1>5 DEF IndexInv
<1>11. origin'[w] = rebuilds' /\ cursor'[w] = CursorOf(doc') /\ mirror'[w] = scanned
       /\ pc'[w] = "idle" /\ w \notin strayed'
  BY <1>1, <1>4, <1>5
<1>12. \A v \in Workers \ {w} : origin'[v] # rebuilds'
  BY <1>1, <1>5, <1>10
<1>13. Len(past') = 1 /\ past'[1] = scanned
  BY <1>4
<1>14. MirrorsThePast'
  <2> SUFFICES ASSUME NEW v \in Workers, pc'[v] \in {"idle", "delta", "reload"},
                      origin'[v] = rebuilds', v \notin strayed'
               PROVE  cursor'[v].change_seq < Len(past') /\ mirror'[v] = past'[cursor'[v].change_seq + 1]
    BY DEF MirrorsThePast
  <2>1. v = w
    BY <1>12
  <2>2. cursor'[v].change_seq = 0 /\ mirror'[v] = scanned
    BY <2>1, <1>7, <1>11
  <2> QED
    BY <2>2, <1>13
<1>15. \A v \in Workers : origin'[v] <= rebuilds'
  BY <1>1, <1>5, <1>10, <1>11
<1>16. Following' = {w}
  BY <1>11, <1>12 DEF Following
<1> QED
  BY <1>1, <1>4, <1>6, <1>9, <1>11, <1>13, <1>14, <1>15, <1>16 DEF IndexInv

\* After the loss of the segment nobody has loaded the new document.
LEMMA ResetSegmentIndexInv ==
    ASSUME IndexInv, ResetSegment
    PROVE  IndexInv' /\ Len(past') = 1 /\ Following' = {} /\ mirror' = mirror
<1>1. /\ header \in Nat /\ rebuilds \in 0 .. MaxRebuilds /\ MaxRebuilds \in Nat
      /\ origin \in [Workers -> 0 .. MaxRebuilds]
  BY SharedIndexAssumption DEF IndexInv, TypeOK
<1>2. /\ rebuilds < MaxRebuilds /\ header' = header + 1 /\ rebuilds' = rebuilds + 1
      /\ past' = <<EmptyContent>> /\ UNCHANGED <<pc, mirror, cursor, origin, strayed>>
  BY DEF ResetSegment
<1>3. doc' = StartDocument(EmptyContent, header + 1, 0)
  BY DEF ResetSegment, EmptyDocument, StartDocument
<1>4. header + 1 \in Nat /\ rebuilds + 1 \in 0 .. MaxRebuilds
  BY <1>1, <1>2
<1>5. doc' \in Documents /\ past' \in Seq(Contents) /\ Recorded(doc', past')
  BY <1>2, <1>3, <1>4, EmptyContentType, StartIsRecorded
<1>6. TypeOK'
  BY <1>2, <1>4, <1>5 DEF IndexInv, TypeOK
<1>7. \A v \in Workers : origin'[v] <= rebuilds' /\ origin'[v] # rebuilds'
  <2> TAKE v \in Workers
  <2>1. origin'[v] = origin[v] /\ origin[v] \in Nat /\ origin[v] <= rebuilds
    BY <1>1, <1>2 DEF IndexInv
  <2> QED
    BY <1>1, <1>2, <2>1
<1>8. MirrorsThePast'
  BY <1>7 DEF MirrorsThePast
<1>9. Following' = {}
  BY <1>7 DEF Following
<1>10. Len(past') = 1
  BY <1>2
<1> QED
  BY <1>2, <1>5, <1>6, <1>7, <1>8, <1>9, <1>10 DEF IndexInv

\* Every step keeps the invariant.
LEMMA NextIndexInv == IndexInv /\ [Next]_vars => IndexInv'
<1> SUFFICES ASSUME IndexInv, [Next]_vars PROVE IndexInv'
  OBVIOUS
<1>1. ASSUME NEW w \in Workers, NEW ops \in Batches, Publish(w, ops) PROVE IndexInv'
  BY <1>1, PublishIndexInv
<1>2. ASSUME NEW w \in Workers, DieWriting(w) PROVE IndexInv'
  BY <1>2, QuietIndexInv DEF DieWriting
<1>3. ASSUME NEW w \in Workers, SyncStart(w) PROVE IndexInv'
  <2> DEFINE at == IF doc.store_epoch # cursor[w].store_epoch THEN "reload" ELSE "delta"
  <2>1. /\ pc[w] = "idle" /\ pc' = [pc EXCEPT ![w] = at]
        /\ UNCHANGED <<doc, header, mirror, cursor, rebuilds, origin, strayed, past>>
    BY <1>3 DEF SyncStart
  <2>2. at \in {"idle", "delta", "reload"}
    OBVIOUS
  <2> HIDE DEF at
  <2> QED
    BY <2>1, <2>2, QuietIndexInv
<1>4. ASSUME NEW w \in Workers, ApplyDelta(w) PROVE IndexInv'
  BY <1>4, ApplyDeltaIndexInv
<1>5. ASSUME NEW w \in Workers, RejectDelta(w) PROVE IndexInv'
  BY <1>5, QuietIndexInv DEF RejectDelta
<1>6. ASSUME NEW w \in Workers, Reload(w) PROVE IndexInv'
  BY <1>6, AttachIndexInv, QuietIndexInv DEF Reload
<1>7. ASSUME NEW w \in Workers, Bootstrap(w) PROVE IndexInv'
  BY <1>7, AttachIndexInv, QuietIndexInv DEF Bootstrap
<1>8. ASSUME NEW w \in Workers, Rebuild(w) PROVE IndexInv'
  BY <1>8, RebuildIndexInv
<1>9. ASSUME ResetSegment PROVE IndexInv'
  BY <1>9, ResetSegmentIndexInv
<1>10. CASE UNCHANGED vars
  BY <1>10 DEF vars, IndexInv, TypeOK, Recorded, MirrorsThePast
<1> QED
  BY <1>1, <1>2, <1>3, <1>4, <1>5, <1>6, <1>7, <1>8, <1>9, <1>10 DEF Next, SyncStep

\* The invariant holds in every state.
LEMMA IndexInvHolds == Spec => []IndexInv
BY InitIndexInv, NextIndexInv, PTL DEF Spec

\* Document and mirrors fit each other, whatever is published, trimmed,
\* replayed, reloaded, rejected, torn, rebuilt or lost: the ring has no gap,
\* and every worker in good standing mirrors the document as it was at its
\* cursor (apply_operations, trim_change_ring, operations_since,
\* apply_shared_index_delta, bootstrap_shared_index).
THEOREM IndexIsSound == Spec => []IndexSound
<1>1. IndexInv => IndexSound
  BY DEF IndexInv, IndexSound, Recorded, RingContiguous
<1> QED
  BY <1>1, IndexInvHolds, PTL

-----------------------------------------------------------------------------
(* The refinement of ReplicatedIndex.                                      *)

\* The index starts as a log of one empty contents that everybody has.
LEMMA InitRefines == Init => Replicated!ReplicatedInit
BY DEF Init, Replicated!ReplicatedInit, Following

\* Publishing is an update of the log, or, for a worker that lags behind or
\* whose update is rejected, the end of its following.
LEMMA PublishRefines ==
    ASSUME IndexInv, NEW w \in Workers, NEW ops \in Batches, Publish(w, ops)
    PROVE  [Replicated!ReplicatedNext]_<<past, mirror, Following>>
<1>1. ops \in Seq(Operations) /\ Len(ops) \in Nat
  BY SharedIndexAssumption
<1>2. /\ doc \in Documents /\ past \in Seq(Contents) /\ Recorded(doc, past)
      /\ mirror \in [Workers -> Contents] /\ doc.content \in Contents
      /\ doc.last_change_seq \in Nat
  BY DEF IndexInv, TypeOK, Documents
<1>3. /\ pc[w] = "idle"
      /\ mirror' = [mirror EXCEPT ![w] = ApplyOperations(mirror[w], ops)]
      /\ UNCHANGED <<header, pc, rebuilds, origin>>
  BY DEF Publish
<1>4. \A v \in Workers \ {w} : mirror'[v] = mirror[v]
  BY <1>2, <1>3
<1>5. mirror'[w] = ApplyOperations(mirror[w], ops)
  BY <1>2, <1>3
<1>6. CASE /\ doc' = ApplyToDocument(doc, ops)
           /\ strayed' = IF cursor[w] = CursorOf(doc) /\ origin[w] = rebuilds
                         THEN strayed ELSE strayed \cup {w}
           /\ past' = past \o [i \in 1 .. Len(ops) |-> Stages(doc.content, ops)[i]]
  <2>1. Follows(doc, past, ops, doc', past')
    BY <1>1, <1>2, <1>6, PublishedIsRecorded, Zenon
  <2>2. /\ past' \in Seq(Contents) /\ Len(past') = Len(past) + Len(ops)
        /\ \A i \in 1 .. Len(past) : past'[i] = past[i]
        /\ Replicated!Last(past') = doc'.content /\ Replicated!Last(past) = doc.content
        /\ doc'.content = ApplyOperations(doc.content, ops)
    BY <2>1, <1>2 DEF Follows, Recorded, Replicated!Last
  <2>3. Replicated!IsPrefix(past, past')
    <3>1. Len(past) <= Len(past')
      BY <1>1, <1>2, <2>2
    <3>2. SubSeq(past, 1, Len(past)) = SubSeq(past', 1, Len(past))
      BY <1>2, <2>2, <3>1
    <3> QED
      BY <3>1, <3>2 DEF Replicated!IsPrefix
  <2>4. CASE w \in Following /\ strayed' = strayed
    <3>1. mirror[w] = Replicated!Last(past)
      <4>1. cursor[w] = CursorOf(doc)
        BY <1>6, <2>4 DEF Following
      <4>2. cursor[w].change_seq = doc.last_change_seq
        BY <4>1, <1>2, CursorOfType
      <4>3. mirror[w] = past[doc.last_change_seq + 1]
        BY <4>2, <2>4, <1>3 DEF IndexInv, MirrorsThePast, Following
      <4> QED
        BY <4>3, <2>2, <1>2 DEF Recorded
    <3>2. mirror'[w] = Replicated!Last(past')
      BY <3>1, <1>5, <2>2
    <3>3. Following' = Following
      BY <2>4, <1>3 DEF Following
    <3>4. CASE Len(ops) > 0
      <4>1. Len(past') > Len(past)
        BY <3>4, <1>1, <1>2, <2>2
      <4>2. Replicated!Update(w)
        BY <4>1, <1>4, <2>3, <2>4, <3>1, <3>2, <3>3 DEF Replicated!Update, Replicated!OthersKeepTheirViews
      <4> QED
        BY <4>2 DEF Replicated!ReplicatedNext
    <3>5. CASE Len(ops) = 0
      <4>1. past' = past
        BY <3>5, <1>2, <2>2, SeqEqual
      <4>2. mirror' = mirror
        BY <4>1, <3>1, <3>2, <1>2, <1>3, <1>5
      <4> QED
        BY <4>1, <4>2, <3>3
    <3> QED
      BY <3>4, <3>5, <1>1
  <2>5. CASE ~(w \in Following /\ strayed' = strayed)
    <3>1. Following' = Following \ {w}
      BY <2>5, <1>3, <1>6 DEF Following
    <3>2. CASE Len(ops) > 0
      <4>1. Len(past') > Len(past)
        BY <3>2, <1>1, <1>2, <2>2
      <4>2. Replicated!Update(w)
        BY <4>1, <1>4, <2>3, <3>1 DEF Replicated!Update, Replicated!OthersKeepTheirViews
      <4> QED
        BY <4>2 DEF Replicated!ReplicatedNext
    <3>3. CASE Len(ops) = 0
      <4>1. past' = past
        BY <3>3, <1>2, <2>2, SeqEqual
      <4>2. Replicated!Stray(w)
        BY <4>1, <1>4, <3>1 DEF Replicated!Stray, Replicated!OthersKeepTheirViews
      <4> QED
        BY <4>2 DEF Replicated!ReplicatedNext
    <3> QED
      BY <3>2, <3>3, <1>1
  <2> QED
    BY <2>4, <2>5
<1>7. CASE strayed' = strayed \cup {w} /\ UNCHANGED <<doc, cursor, past>>
  <2>1. Following' = Following \ {w}
    BY <1>3, <1>7 DEF Following
  <2>2. Replicated!Stray(w)
    BY <1>4, <1>7, <2>1 DEF Replicated!Stray, Replicated!OthersKeepTheirViews
  <2> QED
    BY <2>2 DEF Replicated!ReplicatedNext
<1> QED
  BY <1>6, <1>7 DEF Publish

\* A worker that takes over the document catches up with the log.
LEMMA AttachRefines ==
    ASSUME IndexInv, NEW w \in Workers, Attach(w)
    PROVE  Replicated!ReplicatedNext
<1>1. /\ doc \in Documents /\ past \in Seq(Contents) /\ Recorded(doc, past)
      /\ pc \in [Workers -> {"down", "rebuild", "idle", "delta", "reload"}]
      /\ origin \in [Workers -> 0 .. MaxRebuilds]
  BY DEF IndexInv, TypeOK
<1>2. Replicated!Last(past) = doc.content
  BY <1>1 DEF Recorded, Replicated!Last
<1>3. Following' = Following \cup {w}
  BY <1>1 DEF Attach, Following
<1>4. Replicated!CatchUp(w)
  BY <1>2, <1>3 DEF Replicated!CatchUp, Attach
<1> QED
  BY <1>4 DEF Replicated!ReplicatedNext

\* Every step of the index is a step of the replicated log, or none.
LEMMA NextRefines ==
    ASSUME IndexInv, [Next]_vars
    PROVE  [Replicated!ReplicatedNext]_<<past, mirror, Following>>
<1>0. /\ doc \in Documents /\ past \in Seq(Contents) /\ Recorded(doc, past)
      /\ pc \in [Workers -> {"down", "rebuild", "idle", "delta", "reload"}]
      /\ mirror \in [Workers -> Contents]
  BY DEF IndexInv, TypeOK
<1>1. ASSUME NEW w \in Workers, NEW ops \in Batches, Publish(w, ops)
      PROVE  [Replicated!ReplicatedNext]_<<past, mirror, Following>>
  BY <1>1, PublishRefines
<1>2. ASSUME NEW w \in Workers, DieWriting(w) PROVE Replicated!ReplicatedNext
  <2>1. Following' = Following \ {w} /\ past' = past /\ mirror' = mirror
    BY <1>0, <1>2 DEF DieWriting, Following
  <2>2. Replicated!Stray(w)
    BY <2>1 DEF Replicated!Stray, Replicated!OthersKeepTheirViews
  <2> QED
    BY <2>2 DEF Replicated!ReplicatedNext
<1>3. ASSUME NEW w \in Workers, SyncStart(w) PROVE UNCHANGED <<past, mirror, Following>>
  BY <1>0, <1>3 DEF SyncStart, Following
<1>4. ASSUME NEW w \in Workers, ApplyDelta(w) PROVE Replicated!ReplicatedNext
  <2>1. w \in Following => mirror' = [mirror EXCEPT ![w] = doc.content]
    BY <1>4, ApplyDeltaIndexInv
  <2>2. Following' = Following /\ past' = past
    BY <1>0, <1>4 DEF ApplyDelta, Following
  <2>3. Replicated!Last(past) = doc.content
    BY <1>0 DEF Recorded, Replicated!Last
  <2>4. CASE w \in Following
    <3>1. Replicated!CatchUp(w)
      BY <2>1, <2>2, <2>3, <2>4 DEF Replicated!CatchUp
    <3> QED
      BY <3>1 DEF Replicated!ReplicatedNext
  <2>5. CASE w \notin Following
    <3>1. \A v \in Workers \ {w} : mirror'[v] = mirror[v]
      BY <1>0, <1>4 DEF ApplyDelta
    <3>2. Replicated!Stray(w)
      BY <3>1, <2>2, <2>5 DEF Replicated!Stray, Replicated!OthersKeepTheirViews
    <3> QED
      BY <3>2 DEF Replicated!ReplicatedNext
  <2> QED
    BY <2>4, <2>5
<1>5. ASSUME NEW w \in Workers, RejectDelta(w) PROVE UNCHANGED <<past, mirror, Following>>
  BY <1>0, <1>5 DEF RejectDelta, Following
<1>6. ASSUME NEW w \in Workers, Reload(w)
      PROVE  Replicated!ReplicatedNext \/ UNCHANGED <<past, mirror, Following>>
  <2>1. CASE Attach(w)
    BY <2>1, AttachRefines
  <2>2. CASE ~Attach(w)
    BY <1>0, <1>6, <2>2 DEF Reload, Following
  <2> QED
    BY <2>1, <2>2
<1>7. ASSUME NEW w \in Workers, Bootstrap(w)
      PROVE  Replicated!ReplicatedNext \/ UNCHANGED <<past, mirror, Following>>
  <2>1. CASE Attach(w)
    BY <2>1, AttachRefines
  <2>2. CASE ~Attach(w)
    BY <1>0, <1>7, <2>2 DEF Bootstrap, Following
  <2> QED
    BY <2>1, <2>2
<1>8. ASSUME NEW w \in Workers, Rebuild(w) PROVE Replicated!ReplicatedNext
  <2>1. /\ Len(past') = 1 /\ Following' = {w} /\ mirror'[w] = past'[1]
        /\ \A v \in Workers \ {w} : mirror'[v] = mirror[v]
    BY <1>8, RebuildIndexInv
  <2>2. Replicated!Restart
    BY <2>1 DEF Replicated!Restart
  <2> QED
    BY <2>2 DEF Replicated!ReplicatedNext
<1>9. ASSUME ResetSegment PROVE Replicated!ReplicatedNext
  <2>1. Len(past') = 1 /\ Following' = {} /\ mirror' = mirror
    BY <1>9, ResetSegmentIndexInv
  <2>2. Replicated!Restart
    BY <2>1 DEF Replicated!Restart
  <2> QED
    BY <2>2 DEF Replicated!ReplicatedNext
<1>10. CASE UNCHANGED vars
  BY <1>10 DEF vars, Following
<1> QED
  BY <1>1, <1>2, <1>3, <1>4, <1>5, <1>6, <1>7, <1>8, <1>9, <1>10 DEF Next, SyncStep

\* Document, ring, cursors and reloads implement a log that every worker in
\* good standing follows without skipping, repeating or reordering a change.
THEOREM IndexImplementsLog == Spec => ImplementsReplicatedIndex
<1>1. IndexInv /\ [Next]_vars => [Replicated!ReplicatedNext]_<<past, mirror, Following>>
  BY NextRefines
<1> QED
  BY <1>1, InitRefines, IndexInvHolds, PTL
     DEF Spec, ImplementsReplicatedIndex, Replicated!ReplicatedSpec, Replicated!replicatedVars
=============================================================================
