----------------------------- MODULE EdgeProofs -----------------------------
(***************************************************************************)
(* Proofs about the edge: the admin clients of the snapshot bus, the rate  *)
(* limit, and the dispatch of requests (client address, virtual host,      *)
(* route, checks, headers) with its counters, for any recorders, clients,  *)
(* policies, times, bounds, configurations and requests.                   *)
(***************************************************************************)
EXTENDS RateLimit, Counters, FiniteSetTheorems, DataInduction, TLAPS

-----------------------------------------------------------------------------
(* The snapshot bus.                                                       *)

AdminPcs == {"snapshot", "snapshotVersion", "wait", "registered", "notified", "checked", "waiting",
             "delta", "slots", "fetch"}
AdminType == [pc : AdminPcs, since : Nat, seen : [Slots -> Nat], changed : SUBSET Slots,
              current : Nat, exposed : BOOLEAN]
RecorderType == {Resting} \cup [pc : {"changed", "marking"}, list : Seq(Slots), mine : Nat]

BusTypes ==
    /\ mix \in Mixes /\ version \in Nat
    /\ slots \in [Slots -> Nat] /\ data \in [Slots -> Nat]
    /\ recorder \in [Recorders -> RecorderType]
    /\ admin \in [Admins -> AdminType]

\* The version a client will ask from next, or asks from.
Asks(a) == IF admin[a].pc = "fetch" THEN admin[a].current ELSE admin[a].since

Subscribed(a) == admin[a].pc \notin {"snapshot", "snapshotVersion"}

\* Versions are taken before they are told, and a client that is not exposed
\* asks from a version up to which every recorder has stored its number: a
\* store cannot put a slot back to a version the client has passed.
VersionsInv ==
    \A a \in Admins :
        /\ admin[a].since <= version
        /\ admin[a].pc \in {"slots", "fetch"} => admin[a].current <= version
        /\ admin[a].pc # "fetch" => admin[a].changed = {}
        /\ Subscribed(a) /\ ~admin[a].exposed =>
             ~MarkingUpTo(admin[a].since) /\ ~MarkingUpTo(Asks(a))

BusInv == BusTypes /\ VersionsInv /\ NoWaiterForgotten /\ DeltasMissNothing

\* What the types say of one recorder and one client.
LEMMA BusTypesAt ==
    ASSUME BusTypes
    PROVE  /\ DOMAIN recorder = Recorders /\ DOMAIN admin = Admins
           /\ \A r \in Recorders : recorder[r].pc # "idle" =>
                /\ recorder[r] \in [pc : {"changed", "marking"}, list : Seq(Slots), mine : Nat]
                /\ recorder[r].list \in Seq(Slots) /\ recorder[r].mine \in Nat
           /\ \A a \in Admins :
                /\ admin[a] \in AdminType /\ admin[a].pc \in AdminPcs
                /\ admin[a].since \in Nat /\ admin[a].current \in Nat
                /\ admin[a].seen \in [Slots -> Nat] /\ admin[a].changed \subseteq Slots
BY DEF BusTypes, RecorderType, AdminType, Resting

\* Every list of a mix names slots.
LEMMA ListsNameSlots ==
    ASSUME mix \in Mixes, NEW list \in mix.lists
    PROVE  list \in Seq(Slots) /\ list # <<>> /\ Range(list) \subseteq Slots
<1>1. list \in Seq(STRING) /\ list # <<>>
  BY BusAssumption
<1>2. Range(list) \subseteq Slots
  BY DEF Slots
<1>3. \A i \in 1 .. Len(list) : list[i] \in Slots
  BY <1>1, <1>2 DEF Range
<1> QED
  BY <1>1, <1>2, <1>3

\* A recorder changes the data of its slots.
LEMMA BusInvChangeData ==
    ASSUME BusInv, NEW r \in Recorders, NEW list \in mix.lists, ChangeData(r, list)
    PROVE  BusInv'
<1> DEFINE rec == [pc |-> "changed", list |-> list, mine |-> 0]
<1>0. /\ BusTypes /\ VersionsInv /\ NoWaiterForgotten /\ DeltasMissNothing
  BY DEF BusInv
<1>1. /\ list \in Seq(Slots) /\ Range(list) \subseteq Slots
  BY <1>0, ListsNameSlots DEF BusTypes
<1>2. /\ recorder[r].pc = "idle" /\ UNCHANGED <<mix, version, slots, admin>>
      /\ data' = [s \in Slots |-> IF s \in Range(list) THEN data[s] + 1 ELSE data[s]]
      /\ recorder' = [recorder EXCEPT ![r] = rec]
  BY DEF ChangeData
<1>3. Slots' = Slots
  BY <1>2 DEF Slots
<1>4. rec \in RecorderType
  BY <1>1 DEF RecorderType
<1>5. BusTypes'
  <2>1. data' \in [Slots -> Nat]
    BY <1>0, <1>2 DEF BusTypes
  <2>2. recorder' \in [Recorders -> RecorderType']
    BY <1>0, <1>2, <1>3, <1>4 DEF BusTypes, RecorderType
  <2> QED
    BY <1>0, <1>2, <1>3, <2>1, <2>2 DEF BusTypes, AdminType
<1>6. /\ recorder'[r] = rec /\ DOMAIN recorder' = Recorders
      /\ \A x \in Recorders : x # r => recorder'[x] = recorder[x]
  BY <1>0, <1>2 DEF BusTypes
<1>7. VersionsInv'
  BY <1>0, <1>2, <1>6, BusTypesAt DEF VersionsInv, MarkingUpTo, Subscribed, Asks
<1>8. NoWaiterForgotten'
  BY <1>0, <1>2, <1>6, BusTypesAt DEF NoWaiterForgotten
<1>9. DeltasMissNothing'
  <2> SUFFICES ASSUME NEW a \in Admins, Subscribed(a), ~admin[a].exposed,
                      NEW s \in Slots, data'[s] # admin[a].seen[s], s \notin admin[a].changed
               PROVE  Announced(s, Asks(a))'
    BY <1>0, <1>2, <1>3, BusTypesAt DEF DeltasMissNothing, Subscribed, Asks
  <2>1. CASE s \in Range(list)
    BY <1>2, <1>6, <2>1 DEF Announced
  <2>2. CASE s \notin Range(list)
    <3>1. data[s] # admin[a].seen[s]
      BY <1>2, <2>2
    <3>2. Announced(s, Asks(a))
      BY <1>0, <3>1, BusTypesAt DEF DeltasMissNothing, Subscribed, Asks
    <3> QED
      BY <1>0, <1>2, <1>6, <3>2, BusTypesAt DEF Announced, Asks
  <2> QED
    BY <2>1, <2>2
<1> QED
  BY <1>5, <1>7, <1>8, <1>9 DEF BusInv

\* A recorder takes its number: it is above every version a client knows.
LEMMA BusInvTakeVersion ==
    ASSUME BusInv, NEW r \in Recorders, TakeVersion(r)
    PROVE  BusInv'
<1> DEFINE rec == [recorder[r] EXCEPT !.pc = "marking", !.mine = version + 1]
<1>0. BusTypes /\ VersionsInv /\ NoWaiterForgotten /\ DeltasMissNothing /\ version \in Nat
  BY DEF BusInv, BusTypes
<1>1. /\ recorder[r].pc = "changed" /\ UNCHANGED <<mix, slots, data, admin>>
      /\ version' = version + 1 /\ recorder' = [recorder EXCEPT ![r] = rec]
  BY DEF TakeVersion
<1>2. Slots' = Slots
  BY <1>1 DEF Slots
<1>3. /\ rec \in [pc : {"changed", "marking"}, list : Seq(Slots), mine : Nat]
      /\ rec.pc = "marking" /\ rec.mine = version + 1 /\ rec.list = recorder[r].list
  <2>1. recorder[r] \in [pc : {"changed", "marking"}, list : Seq(Slots), mine : Nat] /\ version + 1 \in Nat
    BY <1>0, <1>1, BusTypesAt
  <2> QED
    BY <2>1
<1>4. /\ recorder'[r] = rec /\ DOMAIN recorder' = Recorders
      /\ \A x \in Recorders : x # r => recorder'[x] = recorder[x]
  BY <1>0, <1>1 DEF BusTypes
<1> HIDE DEF rec
<1>5. BusTypes'
  <2>1. recorder' \in [Recorders -> RecorderType']
    BY <1>0, <1>1, <1>2, <1>3 DEF BusTypes, RecorderType
  <2> QED
    BY <1>0, <1>1, <1>2, <2>1 DEF BusTypes, AdminType
<1>6. VersionsInv'
  <2> SUFFICES ASSUME NEW a \in Admins
               PROVE  /\ admin[a].since <= version + 1
                      /\ admin[a].pc \in {"slots", "fetch"} => admin[a].current <= version + 1
                      /\ admin[a].pc # "fetch" => admin[a].changed = {}
                      /\ Subscribed(a) /\ ~admin[a].exposed =>
                           ~MarkingUpTo(admin[a].since)' /\ ~MarkingUpTo(Asks(a))'
    BY <1>1 DEF VersionsInv, Subscribed
  <2>1. /\ admin[a].since \in Nat /\ admin[a].current \in Nat /\ admin[a].since <= version
        /\ admin[a].pc \in {"slots", "fetch"} => admin[a].current <= version
        /\ admin[a].pc # "fetch" => admin[a].changed = {}
    BY <1>0, BusTypesAt DEF VersionsInv
  <2>2. ASSUME NEW v \in Nat, v <= version, ~MarkingUpTo(v) PROVE ~MarkingUpTo(v)'
    BY <1>0, <1>1, <1>3, <1>4, <2>2, BusTypesAt DEF MarkingUpTo
  <2>3. Asks(a)' = Asks(a) /\ Asks(a) \in Nat /\ Asks(a) <= version /\ admin' = admin
    BY <1>1, <2>1 DEF Asks
  <2>4. Subscribed(a) /\ ~admin[a].exposed => ~MarkingUpTo(admin[a].since) /\ ~MarkingUpTo(Asks(a))
    BY <1>0 DEF VersionsInv
  <2> QED
    BY <1>0, <2>1, <2>2, <2>3, <2>4
<1>7. NoWaiterForgotten'
  <2> SUFFICES ASSUME NEW a \in Admins
               PROVE  recorder'[r].pc = "marking" /\ recorder'[r].mine > admin[a].since
    BY <1>0, <1>1, <1>4, BusTypesAt DEF NoWaiterForgotten
  <2>1. admin[a].since \in Nat /\ admin[a].since <= version
    BY <1>0, BusTypesAt DEF VersionsInv
  <2> QED
    BY <1>0, <1>3, <1>4, <2>1
<1>8. DeltasMissNothing'
  <2> SUFFICES ASSUME NEW a \in Admins, Subscribed(a), ~admin[a].exposed,
                      NEW s \in Slots, data[s] # admin[a].seen[s], s \notin admin[a].changed
               PROVE  Announced(s, Asks(a))'
    BY <1>0, <1>1, <1>2, BusTypesAt DEF DeltasMissNothing, Subscribed, Asks
  <2>1. Announced(s, Asks(a))
    BY <1>0, BusTypesAt DEF DeltasMissNothing, Subscribed, Asks
  <2>2. Asks(a) \in Nat /\ Asks(a) <= version
    BY <1>0, BusTypesAt DEF VersionsInv, Asks
  <2>3. version + 1 > Asks(a)
    BY <1>0, <2>2
  <2> QED
    BY <1>0, <1>1, <1>3, <1>4, <2>1, <2>3, BusTypesAt DEF Announced, Asks
<1> QED
  BY <1>5, <1>6, <1>7, <1>8 DEF BusInv

\* A recorder stores its number in a slot: over a later number, but over none
\* that a client that is not exposed has passed.
LEMMA BusInvStoreVersion ==
    ASSUME BusInv, NEW r \in Recorders, StoreVersion(r)
    PROVE  BusInv'
<1> DEFINE rec == [recorder[r] EXCEPT !.list = Tail(recorder[r].list)]
           list == recorder[r].list
<1>0. BusTypes /\ VersionsInv /\ NoWaiterForgotten /\ DeltasMissNothing /\ version \in Nat
  BY DEF BusInv, BusTypes
<1>1. /\ recorder[r].pc = "marking" /\ list # <<>> /\ UNCHANGED <<mix, version, data, admin>>
      /\ slots' = [slots EXCEPT ![Head(list)] = recorder[r].mine]
      /\ recorder' = [recorder EXCEPT ![r] = rec]
  BY DEF StoreVersion, Stored
<1>2. Slots' = Slots
  BY <1>1 DEF Slots
<1>3. /\ recorder[r] \in [pc : {"changed", "marking"}, list : Seq(Slots), mine : Nat]
      /\ list \in Seq(Slots) /\ recorder[r].mine \in Nat
  BY <1>0, <1>1, BusTypesAt
<1>4. /\ Tail(list) \in Seq(Slots) /\ Head(list) \in Slots
      /\ \A s \in Range(list) : s = Head(list) \/ s \in Range(Tail(list))
  <2>1. Tail(list) \in Seq(Slots) /\ Head(list) \in Slots
    BY <1>1, <1>3
  <2>2. /\ Len(Tail(list)) = Len(list) - 1 /\ Len(list) \in Nat
        /\ Head(list) = list[1] /\ \A i \in 1 .. Len(list) - 1 : Tail(list)[i] = list[i + 1]
    BY <1>1, <1>3
  <2>3. ASSUME NEW i \in 1 .. Len(list), i # 1 PROVE list[i] \in Range(Tail(list))
    <3>1. i - 1 \in 1 .. Len(Tail(list)) /\ Tail(list)[i - 1] = list[i]
      BY <2>2, <2>3
    <3>2. DOMAIN Tail(list) = 1 .. Len(Tail(list))
      BY <2>1
    <3> QED
      BY <3>1, <3>2 DEF Range
  <2>4. DOMAIN list = 1 .. Len(list)
    BY <1>3
  <2> QED
    BY <2>1, <2>2, <2>3, <2>4 DEF Range
<1>5. /\ rec \in [pc : {"changed", "marking"}, list : Seq(Slots), mine : Nat]
      /\ rec.pc = "marking" /\ rec.mine = recorder[r].mine /\ rec.list = Tail(list)
  BY <1>1, <1>3, <1>4
<1>6. /\ recorder'[r] = rec /\ DOMAIN recorder' = Recorders
      /\ \A x \in Recorders : x # r => recorder'[x] = recorder[x]
  BY <1>0, <1>1 DEF BusTypes
<1>7. /\ slots' \in [Slots -> Nat] /\ slots'[Head(list)] = recorder[r].mine
      /\ \A s \in Slots : s # Head(list) => slots'[s] = slots[s]
  BY <1>0, <1>1, <1>3, <1>4 DEF BusTypes
<1> HIDE DEF rec
<1>8. BusTypes'
  <2>1. recorder' \in [Recorders -> RecorderType']
    BY <1>0, <1>1, <1>2, <1>5 DEF BusTypes, RecorderType
  <2> QED
    BY <1>0, <1>1, <1>2, <1>7, <2>1 DEF BusTypes, AdminType
<1>9. VersionsInv'
  BY <1>0, <1>1, <1>5, <1>6, BusTypesAt DEF VersionsInv, MarkingUpTo, Subscribed, Asks
<1>10. NoWaiterForgotten'
  <2> SUFFICES ASSUME NEW a \in Admins, admin[a].pc \in {"checked", "waiting"},
                      version > admin[a].since
               PROVE  \E x \in Recorders : recorder'[x].pc = "marking" /\ recorder'[x].mine > admin[a].since
    BY <1>0, <1>1, <1>6, BusTypesAt DEF NoWaiterForgotten
  <2>1. PICK x \in Recorders : recorder[x].pc = "marking" /\ recorder[x].mine > admin[a].since
    BY <1>0, BusTypesAt DEF NoWaiterForgotten
  <2>2. recorder'[x].pc = recorder[x].pc /\ recorder'[x].mine = recorder[x].mine
    BY <1>1, <1>5, <1>6
  <2> QED
    BY <2>1, <2>2
<1>11. DeltasMissNothing'
  <2> SUFFICES ASSUME NEW a \in Admins, Subscribed(a), ~admin[a].exposed,
                      NEW s \in Slots, data[s] # admin[a].seen[s], s \notin admin[a].changed
               PROVE  Announced(s, Asks(a))'
    BY <1>0, <1>1, <1>2, BusTypesAt DEF DeltasMissNothing, Subscribed, Asks
  <2>1. Announced(s, Asks(a))
    BY <1>0, BusTypesAt DEF DeltasMissNothing, Subscribed, Asks
  <2>2. Asks(a) \in Nat /\ Asks(a)' = Asks(a)
    BY <1>0, <1>1, BusTypesAt DEF Asks
  <2>3. recorder[r].mine > Asks(a)
    <3>1. ~MarkingUpTo(Asks(a)) /\ r \in DOMAIN recorder
      BY <1>0, BusTypesAt DEF VersionsInv
    <3>2. ~(recorder[r].mine <= Asks(a))
      BY <1>1, <3>1 DEF MarkingUpTo
    <3> QED
      BY <1>3, <2>2, <3>2
  <2>4. CASE s = Head(list)
    BY <1>7, <2>2, <2>3, <2>4 DEF Announced
  <2>5. CASE s # Head(list)
    <3>1. CASE slots[s] > Asks(a)
      BY <1>7, <2>2, <2>5, <3>1 DEF Announced
    <3>2. CASE s \in Range(list)
      BY <1>4, <1>5, <1>6, <2>2, <2>3, <2>5, <3>2 DEF Announced
    <3>3. CASE /\ ~(slots[s] > Asks(a)) /\ s \notin Range(list)
      <4>1. PICK x \in Recorders : /\ recorder[x].pc # "idle" /\ s \in Range(recorder[x].list)
                                   /\ recorder[x].pc = "changed" \/ recorder[x].mine > Asks(a)
        BY <1>0, <2>1, <3>3, BusTypesAt DEF Announced
      <4>2. recorder'[x] = recorder[x] /\ x \in DOMAIN recorder'
        BY <1>6, <3>3, <4>1
      <4> QED
        BY <2>2, <4>1, <4>2 DEF Announced
    <3> QED
      BY <3>1, <3>2, <3>3
  <2> QED
    BY <2>4, <2>5
<1> QED
  BY <1>8, <1>9, <1>10, <1>11 DEF BusInv

\* A recorder notifies: nobody sleeps on, and nothing else changes.
LEMMA BusInvNotify ==
    ASSUME BusInv, NEW r \in Recorders, Notify(r)
    PROVE  BusInv'
<1>0. BusTypes /\ VersionsInv /\ NoWaiterForgotten /\ DeltasMissNothing /\ version \in Nat
  BY DEF BusInv, BusTypes
<1>1. /\ recorder[r].pc = "marking" /\ recorder[r].list = <<>> /\ UNCHANGED <<mix, version, slots, data>>
      /\ recorder' = [recorder EXCEPT ![r] = Resting]
      /\ admin' = [a \in Admins |-> [admin[a] EXCEPT !.pc = Woken(@)]]
  BY DEF Notify
<1>2. Slots' = Slots
  BY <1>1 DEF Slots
<1>3. \A a \in Admins :
        /\ admin'[a] \in AdminType /\ admin'[a].pc = Woken(admin[a].pc)
        /\ admin'[a].since = admin[a].since /\ admin'[a].current = admin[a].current
        /\ admin'[a].seen = admin[a].seen /\ admin'[a].changed = admin[a].changed
        /\ admin'[a].exposed = admin[a].exposed
  <2> SUFFICES ASSUME NEW a \in Admins
               PROVE  /\ admin'[a] \in AdminType /\ admin'[a].pc = Woken(admin[a].pc)
                      /\ admin'[a].since = admin[a].since /\ admin'[a].current = admin[a].current
                      /\ admin'[a].seen = admin[a].seen /\ admin'[a].changed = admin[a].changed
                      /\ admin'[a].exposed = admin[a].exposed
    OBVIOUS
  <2>1. admin[a] \in AdminType /\ admin[a].pc \in AdminPcs
    BY <1>0, BusTypesAt
  <2>2. admin'[a] = [admin[a] EXCEPT !.pc = Woken(admin[a].pc)]
    BY <1>1
  <2>3. Woken(admin[a].pc) \in AdminPcs
    BY <2>1 DEF AdminPcs, Woken
  <2> QED
    BY <2>1, <2>2, <2>3 DEF AdminType
<1>4. \A a \in Admins :
        /\ admin'[a].pc \notin {"checked", "waiting"}
        /\ admin'[a].pc \in {"slots", "fetch"} => admin'[a].pc = admin[a].pc
        /\ admin[a].pc = "fetch" => admin'[a].pc = "fetch"
        /\ Subscribed(a)' <=> Subscribed(a)
        /\ Asks(a)' = Asks(a)
  BY <1>0, <1>3, BusTypesAt DEF AdminPcs, Woken, Subscribed, Asks
<1>5. /\ recorder'[r] = Resting /\ DOMAIN recorder' = Recorders /\ DOMAIN admin' = Admins
      /\ \A x \in Recorders : x # r => recorder'[x] = recorder[x]
  BY <1>0, <1>1 DEF BusTypes
<1>6. BusTypes'
  <2>1. recorder' \in [Recorders -> RecorderType']
    BY <1>0, <1>1, <1>2 DEF BusTypes, RecorderType
  <2>2. admin' \in [Admins -> AdminType']
    BY <1>1, <1>2, <1>3 DEF AdminType
  <2> QED
    BY <1>0, <1>1, <1>2, <2>1, <2>2 DEF BusTypes
<1>7. VersionsInv'
  <2>1. ASSUME NEW v, ~MarkingUpTo(v) PROVE ~MarkingUpTo(v)'
    BY <1>0, <1>1, <1>5, <2>1, BusTypesAt DEF MarkingUpTo, Resting
  <2> SUFFICES ASSUME NEW a \in Admins
               PROVE  /\ admin'[a].since <= version'
                      /\ admin'[a].pc \in {"slots", "fetch"} => admin'[a].current <= version'
                      /\ admin'[a].pc # "fetch" => admin'[a].changed = {}
                      /\ Subscribed(a)' /\ ~admin'[a].exposed =>
                           ~MarkingUpTo(admin[a].since)' /\ ~MarkingUpTo(Asks(a))'
    BY DEF VersionsInv
  <2>2. /\ admin[a].since <= version
        /\ admin[a].pc \in {"slots", "fetch"} => admin[a].current <= version
        /\ admin[a].pc # "fetch" => admin[a].changed = {}
        /\ Subscribed(a) /\ ~admin[a].exposed =>
              ~MarkingUpTo(admin[a].since) /\ ~MarkingUpTo(Asks(a))
    BY <1>0 DEF VersionsInv
  <2>3. /\ admin'[a].since <= version'
        /\ admin'[a].pc # "fetch" => admin'[a].changed = {}
    BY <1>1, <1>3, <1>4, <2>2
  <2>4. admin'[a].pc \in {"slots", "fetch"} => admin'[a].current <= version'
    BY <1>1, <1>3, <1>4, <2>2
  <2>5. ASSUME Subscribed(a)', ~admin'[a].exposed
        PROVE  ~MarkingUpTo(admin[a].since)' /\ ~MarkingUpTo(Asks(a))'
    <3>1. ~MarkingUpTo(admin[a].since) /\ ~MarkingUpTo(Asks(a))
      BY <1>3, <1>4, <2>2, <2>5
    <3>2. PICK s : s = admin[a].since /\ s = admin'[a].since
      BY <1>3
    <3>3. PICK v : v = Asks(a) /\ v = Asks(a)'
      BY <1>4
    <3>4. ~MarkingUpTo(s)' /\ ~MarkingUpTo(v)'
      BY <2>1, <3>1, <3>2, <3>3
    <3> QED
      BY <3>2, <3>3, <3>4 DEF MarkingUpTo
  <2> QED
    BY <2>3, <2>4, <2>5
<1>8. NoWaiterForgotten'
  BY <1>4, <1>5 DEF NoWaiterForgotten
<1>9. DeltasMissNothing'
  <2> SUFFICES ASSUME NEW a \in Admins, Subscribed(a)', ~admin'[a].exposed,
                      NEW s \in Slots, data[s] # admin'[a].seen[s], s \notin admin'[a].changed
               PROVE  Announced(s, Asks(a))'
    BY <1>1, <1>2, <1>5 DEF DeltasMissNothing, Subscribed, Asks
  <2>1. Announced(s, Asks(a))
    BY <1>0, <1>3, <1>4, BusTypesAt DEF DeltasMissNothing, Subscribed, Asks
  <2>2. s \notin Range(recorder[r].list)
    BY <1>1 DEF Range
  <2>3. Asks(a)' = Asks(a) /\ slots' = slots
    BY <1>1, <1>4
  <2>4. CASE slots[s] > Asks(a)
    BY <2>3, <2>4 DEF Announced
  <2>5. CASE ~(slots[s] > Asks(a))
    <3>1. PICK x \in Recorders : /\ recorder[x].pc # "idle" /\ s \in Range(recorder[x].list)
                                 /\ recorder[x].pc = "changed" \/ recorder[x].mine > Asks(a)
      BY <1>0, <2>1, <2>5, BusTypesAt DEF Announced
    <3>2. recorder'[x] = recorder[x] /\ x \in DOMAIN recorder'
      BY <1>5, <2>2, <3>1
    <3> QED
      BY <2>3, <3>1, <3>2 DEF Announced
  <2> QED
    BY <2>4, <2>5
<1> QED
  BY <1>6, <1>7, <1>8, <1>9 DEF BusInv

\* What a client t may become by a step of its own.
ClientFits(t) ==
    LET asks == IF t.pc = "fetch" THEN t.current ELSE t.since
    IN  /\ t \in AdminType
        /\ t.since <= version
        /\ t.pc \in {"slots", "fetch"} => t.current <= version
        /\ t.pc # "fetch" => t.changed = {}
        /\ t.pc \notin {"snapshot", "snapshotVersion"} /\ ~t.exposed =>
             /\ ~MarkingUpTo(t.since) /\ ~MarkingUpTo(asks)
             /\ \A s \in Slots : data[s] # t.seen[s] => s \in t.changed \/ Announced(s, asks)
        /\ t.pc \in {"checked", "waiting"} /\ version > t.since =>
             \E r \in Recorders : recorder[r].pc = "marking" /\ recorder[r].mine > t.since

\* Between the steps every client fits.
LEMMA ClientsFit ==
    ASSUME BusInv, NEW a \in Admins
    PROVE  ClientFits(admin[a])
BY BusTypesAt DEF BusInv, ClientFits, VersionsInv, NoWaiterForgotten, DeltasMissNothing, Subscribed, Asks

\* A step of one client to such a state keeps the invariant.
LEMMA BusInvClient ==
    ASSUME BusInv, NEW a \in Admins, NEW t, ClientFits(t),
           admin' = [admin EXCEPT ![a] = t], KeepRecorders
    PROVE  BusInv'
<1>1. UNCHANGED <<mix, version, slots, data, recorder>> /\ Slots' = Slots
  BY DEF KeepRecorders, Slots
<1>2. /\ DOMAIN admin' = Admins /\ DOMAIN recorder = Recorders
      /\ \A b \in Admins : admin'[b] = IF b = a THEN t ELSE admin[b]
  BY BusTypesAt DEF BusInv
<1>3. \A b \in Admins : ClientFits(admin'[b])
  BY <1>2, ClientsFit
<1>4. BusTypes'
  <2>1. admin' \in [Admins -> AdminType']
    BY <1>1, <1>2, <1>3 DEF ClientFits, AdminType
  <2> QED
    BY <1>1, <2>1 DEF BusInv, BusTypes, RecorderType
<1>5. VersionsInv'
  BY <1>1, <1>3 DEF VersionsInv, ClientFits, MarkingUpTo, Subscribed, Asks
<1>6. NoWaiterForgotten'
  BY <1>1, <1>2, <1>3 DEF NoWaiterForgotten, ClientFits
<1>7. DeltasMissNothing'
  BY <1>1, <1>2, <1>3 DEF DeltasMissNothing, ClientFits, Announced
<1> QED
  BY <1>4, <1>5, <1>6, <1>7 DEF BusInv

\* The steps of a client.
LEMMA BusInvAdmin ==
    ASSUME BusInv, NEW a \in Admins,
           FetchSnapshot(a) \/ FetchVersion(a) \/ Register(a) \/ CheckVersion(a) \/ Await(a)
             \/ WaitTimesOut(a) \/ DeltaVersion(a) \/ ReadSlots(a) \/ FetchChanged(a)
    PROVE  BusInv'
<1> DEFINE x == admin[a]
<1>0. /\ x \in AdminType /\ ClientFits(x) /\ version \in Nat /\ data \in [Slots -> Nat]
      /\ x.since \in Nat /\ x.current \in Nat /\ slots \in [Slots -> Nat]
  BY BusTypesAt, ClientsFit DEF BusInv, BusTypes
<1> HIDE DEF x
<1>1. CASE FetchSnapshot(a)
  <2> DEFINE t == [x EXCEPT !.pc = "snapshotVersion", !.seen = data]
  <2>1. admin' = [admin EXCEPT ![a] = t] /\ KeepRecorders /\ x.pc = "snapshot"
    BY <1>1 DEF FetchSnapshot, x
  <2>2. /\ t \in AdminType /\ t.pc = "snapshotVersion" /\ t.since = x.since /\ t.changed = x.changed
    BY <1>0 DEF AdminType, AdminPcs
  <2> HIDE DEF t
  <2>3. ClientFits(t)
    BY <1>0, <2>1, <2>2 DEF ClientFits
  <2> QED
    BY <2>1, <2>3, BusInvClient
<1>2. CASE FetchVersion(a)
  <2> DEFINE t == [x EXCEPT !.pc = "wait", !.since = version, !.exposed = MarkingUpTo(version) \/ data # x.seen]
  <2>1. admin' = [admin EXCEPT ![a] = t] /\ KeepRecorders /\ x.pc = "snapshotVersion"
    BY <1>2 DEF FetchVersion, x
  <2>2. /\ t \in AdminType /\ t.pc = "wait" /\ t.since = version /\ t.seen = x.seen /\ t.changed = x.changed
        /\ t.exposed <=> MarkingUpTo(version) \/ data # x.seen
    BY <1>0 DEF AdminType, AdminPcs
  <2> HIDE DEF t
  <2>3. ClientFits(t)
    BY <1>0, <2>1, <2>2 DEF ClientFits
  <2> QED
    BY <2>1, <2>3, BusInvClient
<1>3. ASSUME NEW to \in {"wait", "registered", "checked", "waiting", "delta"}, To(a, to), KeepRecorders,
             x.pc \in {"wait", "registered", "notified", "checked", "waiting"},
             to = "checked" => ~(version > x.since),
             to = "waiting" => x.pc = "checked"
      PROVE  BusInv'
  <2> DEFINE t == [x EXCEPT !.pc = to]
  <2>1. admin' = [admin EXCEPT ![a] = t] /\ KeepRecorders
    BY <1>3 DEF To, x
  <2>2. /\ t \in AdminType /\ t.pc = to /\ t.since = x.since /\ t.seen = x.seen
        /\ t.current = x.current /\ t.changed = x.changed /\ t.exposed = x.exposed
    BY <1>0, <1>3 DEF AdminType, AdminPcs
  <2> HIDE DEF t
  <2>3. ClientFits(t)
    BY <1>0, <1>3, <2>2 DEF ClientFits
  <2> QED
    BY <2>1, <2>3, BusInvClient
<1>4. CASE Register(a) \/ CheckVersion(a) \/ Await(a) \/ WaitTimesOut(a)
  BY <1>3, <1>4 DEF Register, CheckVersion, Await, WaitTimesOut, x
<1>5. CASE DeltaVersion(a)
  <2> DEFINE t == [x EXCEPT !.pc = "slots", !.current = version]
  <2>1. admin' = [admin EXCEPT ![a] = t] /\ KeepRecorders /\ x.pc = "delta"
    BY <1>5 DEF DeltaVersion, x
  <2>2. /\ t \in AdminType /\ t.pc = "slots" /\ t.since = x.since /\ t.seen = x.seen
        /\ t.current = version /\ t.changed = x.changed /\ t.exposed = x.exposed
    BY <1>0 DEF AdminType, AdminPcs
  <2> HIDE DEF t
  <2>3. ClientFits(t)
    BY <1>0, <2>1, <2>2 DEF ClientFits
  <2> QED
    BY <2>1, <2>3, BusInvClient
<1>6. CASE ReadSlots(a)
  <2> DEFINE t == [x EXCEPT !.pc = "fetch", !.changed = ChangedSince(x.since),
                            !.exposed = x.exposed \/ MarkingUpTo(x.current)]
  <2>1. admin' = [admin EXCEPT ![a] = t] /\ KeepRecorders /\ x.pc = "slots"
    BY <1>6 DEF ReadSlots, x
  <2>2. /\ t \in AdminType /\ t.pc = "fetch" /\ t.since = x.since /\ t.seen = x.seen
        /\ t.current = x.current /\ t.changed = ChangedSince(x.since)
        /\ t.exposed <=> x.exposed \/ MarkingUpTo(x.current)
    BY <1>0 DEF AdminType, AdminPcs, ChangedSince
  <2> HIDE DEF t
  <2>3. ASSUME ~t.exposed, NEW s \in Slots, data[s] # t.seen[s], s \notin t.changed
        PROVE  Announced(s, x.current)
    <3>1. Announced(s, x.since) /\ ~MarkingUpTo(x.current)
      BY <1>0, <2>1, <2>2, <2>3 DEF ClientFits
    <3>2. ~(slots[s] > x.since)
      BY <2>2, <2>3 DEF ChangedSince
    <3>3. PICK r \in DOMAIN recorder :
             /\ recorder[r].pc # "idle" /\ s \in Range(recorder[r].list)
             /\ recorder[r].pc = "changed" \/ recorder[r].mine > x.since
      BY <3>1, <3>2 DEF Announced
    <3>4. /\ r \in Recorders /\ recorder[r].list # <<>> /\ recorder[r].mine \in Nat
          /\ recorder[r].pc \in {"changed", "marking"}
      BY <3>3, BusTypesAt DEF BusInv, Range
    <3>5. recorder[r].pc = "changed" \/ recorder[r].mine > x.current
      BY <1>0, <3>1, <3>3, <3>4 DEF MarkingUpTo
    <3> QED
      BY <3>3, <3>5 DEF Announced
  <2>4. ClientFits(t)
    BY <1>0, <2>1, <2>2, <2>3 DEF ClientFits
  <2> QED
    BY <2>1, <2>4, BusInvClient
<1>7. CASE FetchChanged(a)
  <2> DEFINE t == [x EXCEPT !.pc = "wait", !.changed = {}, !.since = x.current,
                            !.seen = [s \in Slots |-> IF s \in x.changed THEN data[s] ELSE x.seen[s]]]
  <2>1. admin' = [admin EXCEPT ![a] = t] /\ KeepRecorders /\ x.pc = "fetch"
    BY <1>7 DEF FetchChanged, x
  <2>2. /\ t \in AdminType /\ t.pc = "wait" /\ t.since = x.current /\ t.changed = {}
        /\ t.seen = [s \in Slots |-> IF s \in x.changed THEN data[s] ELSE x.seen[s]]
        /\ t.exposed = x.exposed
    BY <1>0 DEF AdminType, AdminPcs
  <2> HIDE DEF t
  <2>3. ClientFits(t)
    BY <1>0, <2>1, <2>2 DEF ClientFits
  <2> QED
    BY <2>1, <2>3, BusInvClient
<1> QED
  BY <1>1, <1>2, <1>4, <1>5, <1>6, <1>7

\* An admin client that repeats "wait, then ask what changed" learns of every
\* change whose recorder did not run into its reads and sleeps through no
\* newer version, for any recorders, slots and clients (notify_waiters,
\* wait_for_snapshot_change, snapshot_delta_since).
THEOREM ClientsLearnOfChanges == BusSpec => []ChangesReachClients
<1>1. BusInit => BusInv
  <2> SUFFICES ASSUME BusInit PROVE BusInv
    OBVIOUS
  <2>1. BusTypes
    BY DEF BusInit, BusTypes, RecorderType, AdminType, AdminPcs
  <2>2. VersionsInv /\ NoWaiterForgotten /\ DeltasMissNothing
    BY DEF BusInit, VersionsInv, NoWaiterForgotten, DeltasMissNothing, Subscribed
  <2> QED
    BY <2>1, <2>2 DEF BusInv
<1>2. BusInv /\ [BusNext]_busVars => BusInv'
  <2> SUFFICES ASSUME BusInv, [BusNext]_busVars PROVE BusInv'
    OBVIOUS
  <2>1. DOMAIN recorder = Recorders /\ DOMAIN admin = Admins
    BY BusTypesAt DEF BusInv
  <2>2. CASE UNCHANGED busVars
    <3>1. BusTypes'
      BY <2>2 DEF busVars, BusInv, BusTypes, RecorderType, AdminType, Slots
    <3>2. VersionsInv'
      BY <2>2 DEF busVars, BusInv, VersionsInv, Subscribed, Asks, MarkingUpTo
    <3>3. NoWaiterForgotten' /\ DeltasMissNothing'
      BY <2>2 DEF busVars, BusInv, NoWaiterForgotten, DeltasMissNothing, Announced, Slots
    <3> QED
      BY <3>1, <3>2, <3>3 DEF BusInv
  <2> QED
    BY <2>1, <2>2, BusInvChangeData, BusInvTakeVersion, BusInvStoreVersion, BusInvNotify, BusInvAdmin DEF BusNext
<1>3. BusInv => ChangesReachClients
  BY DEF BusInv, ChangesReachClients
<1> QED
  BY <1>1, <1>2, <1>3, PTL DEF BusSpec

-----------------------------------------------------------------------------
(* The rate limit: arithmetic and buckets.                                 *)

\* Multiplication by a natural number keeps the order.
LEMMA TimesMonotone ==
    ASSUME NEW a \in Nat, NEW b \in Nat, NEW d \in Nat, a <= b
    PROVE  a * d \in Nat /\ b * d \in Nat /\ a * d <= b * d
<1>1. /\ a * d \in Nat /\ b * d \in Nat /\ b - a \in Nat /\ (b - a) * d \in Nat
  OBVIOUS
<1>2. b * d = a * d + (b - a) * d
  OBVIOUS
<1> QED
  BY <1>1, <1>2

\* A finite set of natural numbers that is not empty has a greatest element,
\* and Most is it.
LEMMA MostIsGreatest ==
    ASSUME NEW S \in SUBSET Nat, IsFiniteSet(S), S # {}
    PROVE  Most(S) \in S /\ \A y \in S : y <= Most(S)
<1> DEFINE HasMost(T) == \E m \in T : \A y \in T : y <= m
           N == {n \in Nat : \A T \in SUBSET Nat : IsFiniteSet(T) /\ Cardinality(T) = n /\ T # {} => HasMost(T)}
<1>1. 0 \in N
  BY FS_EmptySet
<1>2. ASSUME NEW n \in Nat, n \in N PROVE n + 1 \in N
  <2> SUFFICES ASSUME NEW T \in SUBSET Nat, IsFiniteSet(T), Cardinality(T) = n + 1, T # {}
               PROVE  HasMost(T)
    OBVIOUS
  <2>1. PICK x \in T : TRUE
    OBVIOUS
  <2>2. /\ IsFiniteSet(T \ {x}) /\ Cardinality(T \ {x}) = n /\ T \ {x} \in SUBSET Nat
    <3>1. IsFiniteSet(T \ {x}) /\ Cardinality(T \ {x}) = Cardinality(T) - 1
      BY <2>1, FS_RemoveElement, Zenon
    <3>2. Cardinality(T \ {x}) = n
      BY <3>1
    <3> QED
      BY <3>1, <3>2
  <2>3. CASE T \ {x} = {}
    BY <2>3
  <2>4. CASE T \ {x} # {}
    <3>1. PICK m \in T \ {x} : \A y \in T \ {x} : y <= m
      BY <1>2, <2>2, <2>4
    <3>2. CASE x <= m
      BY <3>1, <3>2
    <3>3. CASE m <= x
      BY <3>1, <3>3
    <3> QED
      BY <3>1, <3>2, <3>3
  <2> QED
    BY <2>3, <2>4
<1>3. \A n \in Nat : n \in N
  <2> HIDE DEF N
  <2> QED
    BY <1>1, <1>2, NatSetInduction, Zenon
<1>4. HasMost(S)
  BY <1>3, FS_CardinalityType
<1>5. \E m \in S : \A y \in S : m >= y
  BY <1>4
<1>6. Most(S) \in S /\ \A y \in S : Most(S) >= y
  BY <1>5, Zenon DEF Most
<1> QED
  BY <1>6

\* The largest capacity and the fastest rate bound those of every policy.
LEMMA PolicyBounds ==
    /\ LargestCapacity \in Nat /\ FastestRate \in Nat
    /\ \A p \in Policies : /\ Capacity(p) \in Nat /\ p.rate \in Nat
                            /\ Capacity(p) <= LargestCapacity /\ p.rate <= FastestRate
<1> DEFINE C == {Capacity(p) : p \in Policies}
           R == {p.rate : p \in Policies}
<1>1. \A p \in Policies : p.rate \in Nat /\ p.burst \in Nat /\ Capacity(p) \in Nat
  BY RateAssumption DEF Capacity
<1>2. C \in SUBSET Nat /\ C # {} /\ R \in SUBSET Nat /\ R # {}
  BY <1>1, RateAssumption
<1>3. IsFiniteSet(C)
  <2> DEFINE f == [p \in Policies |-> Capacity(p)]
  <2>1. f \in Surjection(Policies, C)
    BY DEF Surjection
  <2> HIDE DEF f, C
  <2> QED
    BY <2>1, RateAssumption, FS_Surjection
<1>4. IsFiniteSet(R)
  <2> DEFINE f == [p \in Policies |-> p.rate]
  <2>1. f \in Surjection(Policies, R)
    BY DEF Surjection
  <2> HIDE DEF f, R
  <2> QED
    BY <2>1, RateAssumption, FS_Surjection
<1>5. /\ LargestCapacity = Most(C) /\ FastestRate = Most(R)
      /\ \A p \in Policies : Capacity(p) \in C /\ p.rate \in R
  BY DEF LargestCapacity, FastestRate
<1> HIDE DEF C, R
<1>6. /\ Most(C) \in C /\ \A y \in C : y <= Most(C)
      /\ Most(R) \in R /\ \A y \in R : y <= Most(R)
  BY <1>2, <1>3, <1>4, MostIsGreatest
<1> QED
  BY <1>1, <1>2, <1>5, <1>6

BucketType == [policy : Policies, tokens : Nat, lastRefill : Nat]

\* What a refill makes of a bucket.
LEMMA RefillType ==
    ASSUME NEW b \in BucketType, NEW now \in Nat
    PROVE  /\ Refill(b, now) \in BucketType
           /\ Refill(b, now).policy = b.policy /\ Refill(b, now).lastRefill = now
           /\ Since(now, b.lastRefill) \in Nat
           /\ Since(now, b.lastRefill) * b.policy.rate \in Nat
           /\ Refill(b, now).tokens =
                AtMost(b.tokens + Since(now, b.lastRefill) * b.policy.rate, Capacity(b.policy))
<1> DEFINE gain == Since(now, b.lastRefill) * b.policy.rate
<1>1. b.policy \in Policies /\ b.tokens \in Nat /\ b.lastRefill \in Nat
  BY DEF BucketType
<1>2. Since(now, b.lastRefill) \in Nat
  BY <1>1 DEF Since
<1>3. gain \in Nat
  BY <1>1, <1>2, PolicyBounds
<1>4. Refill(b, now) = [b EXCEPT !.tokens = AtMost(b.tokens + gain, Capacity(b.policy)), !.lastRefill = now]
  BY DEF Refill
<1> HIDE DEF gain
<1>5. AtMost(b.tokens + gain, Capacity(b.policy)) \in Nat
  BY <1>1, <1>3, PolicyBounds DEF AtMost
<1> QED
  BY <1>1, <1>2, <1>3, <1>4, <1>5 DEF BucketType, gain

\* A refill never takes tokens away but for the capacity, and more tokens, or an
\* earlier last refill, never make fewer.
LEMMA RefillBounds ==
    ASSUME NEW b \in BucketType, NEW now \in Nat
    PROVE  /\ Refill(b, now).tokens <= Capacity(b.policy)
           /\ Refill(Refill(b, now), now).tokens = Refill(b, now).tokens
           /\ Refill(b, now).tokens <= b.tokens + FastestRate * Since(now, b.lastRefill)
           /\ FastestRate * Since(now, b.lastRefill) \in Nat
<1> DEFINE s == Since(now, b.lastRefill)
           r == Refill(b, now)
<1>1. /\ b.policy \in Policies /\ b.tokens \in Nat /\ b.policy.rate \in Nat /\ Capacity(b.policy) \in Nat
      /\ b.policy.rate <= FastestRate /\ FastestRate \in Nat
  BY PolicyBounds DEF BucketType
<1>2. r \in BucketType /\ r.policy = b.policy /\ r.lastRefill = now /\ s \in Nat /\ s * b.policy.rate \in Nat
      /\ r.tokens = AtMost(b.tokens + s * b.policy.rate, Capacity(b.policy))
  BY RefillType
<1>3. r.tokens \in Nat
  BY <1>2 DEF BucketType
<1> HIDE DEF r, s
<1>4. Refill(r, now).tokens = AtMost(r.tokens + Since(now, now) * r.policy.rate, Capacity(r.policy))
  BY <1>2, RefillType
<1>5. Since(now, now) = 0 /\ 0 * b.policy.rate = 0
  BY <1>1 DEF Since
<1>6. Refill(r, now).tokens = AtMost(r.tokens, Capacity(b.policy))
  BY <1>2, <1>3, <1>4, <1>5
<1>7. /\ s * b.policy.rate <= FastestRate * s /\ FastestRate * s \in Nat
  <2>1. b.policy.rate * s <= FastestRate * s /\ FastestRate * s \in Nat
    BY <1>1, <1>2, TimesMonotone
  <2>2. s * b.policy.rate = b.policy.rate * s
    BY <1>1, <1>2
  <2> QED
    BY <2>1, <2>2
<1>8. r.tokens <= Capacity(b.policy) /\ r.tokens <= b.tokens + FastestRate * s
  BY <1>1, <1>2, <1>7 DEF AtMost
<1>9. Refill(r, now).tokens = r.tokens
  BY <1>1, <1>3, <1>6, <1>8 DEF AtMost
<1> QED
  BY <1>7, <1>8, <1>9 DEF r, s

\* The bucket that a check takes from holds what a refill leaves, up to the capacity of
\* the check's policy.
LEMMA PreparedBucket ==
    ASSUME NEW b \in BucketType, NEW p \in Policies, NEW now \in Nat
    PROVE  LET q == Refill(Reconfigure(b, p, now), now) IN
           /\ q \in BucketType /\ q.policy = p /\ q.lastRefill = now
           /\ q.tokens = AtMost(Refill(b, now).tokens, Capacity(p))
<1> DEFINE r == Refill(b, now)
           c == Reconfigure(b, p, now)
<1>1. /\ r \in BucketType /\ r.lastRefill = now /\ r.tokens \in Nat /\ r.tokens <= Capacity(b.policy)
      /\ Capacity(p) \in Nat
  BY RefillType, RefillBounds, PolicyBounds DEF BucketType
<1>2. CASE b.policy = p
  <2>1. c = b
    BY <1>2 DEF Reconfigure
  <2>2. r.tokens = AtMost(r.tokens, Capacity(p))
    BY <1>1, <1>2 DEF AtMost
  <2>3. r.policy = p
    BY <1>2, RefillType
  <2>4. Refill(c, now) = r
    BY <2>1
  <2> HIDE DEF r, c
  <2> QED
    BY <1>1, <2>2, <2>3, <2>4 DEF r, c
<1>3. CASE b.policy # p
  <2>1. c = [r EXCEPT !.tokens = AtMost(r.tokens, Capacity(p)), !.policy = p]
    BY <1>3 DEF Reconfigure
  <2>2. AtMost(r.tokens, Capacity(p)) \in Nat /\ AtMost(r.tokens, Capacity(p)) <= Capacity(p)
    BY <1>1 DEF AtMost
  <2> HIDE DEF r
  <2>3. c \in BucketType /\ c.policy = p /\ c.lastRefill = now /\ c.tokens = AtMost(r.tokens, Capacity(p))
    BY <1>1, <2>1, <2>2 DEF BucketType
  <2> HIDE DEF c
  <2>4. /\ Refill(c, now) \in BucketType /\ Refill(c, now).policy = p /\ Refill(c, now).lastRefill = now
        /\ Refill(c, now).tokens = AtMost(c.tokens + Since(now, c.lastRefill) * c.policy.rate, Capacity(p))
    BY <2>3, RefillType
  <2>5. Since(now, c.lastRefill) = 0 /\ 0 * c.policy.rate = 0
    BY <2>3, PolicyBounds DEF Since
  <2>6. AtMost(c.tokens + Since(now, c.lastRefill) * c.policy.rate, Capacity(p)) = c.tokens
    BY <1>1, <2>2, <2>3, <2>5 DEF AtMost
  <2> QED
    BY <2>3, <2>4, <2>6 DEF r, c
<1> QED
  BY <1>2, <1>3

-----------------------------------------------------------------------------
(* The rate limit: the budget of a bucket.                                 *)

Budget(fo, cr, gr) == LargestCapacity * (1 + fo) + FastestRate * cr + gr

\* The bucket b of a client that was admitted a times: what it has left is within the
\* budget, and no less than the ideal bucket i has.
BucketFits(b, i, a, fo, cr, gr) ==
  /\ b.lastRefill = cr /\ a + b.tokens <= Budget(fo, cr, gr)
  /\ b.policy = i.policy /\ i.tokens <= b.tokens /\ b.lastRefill <= i.lastRefill

\* A client that has no bucket may get a full one.
AbsenceFits(i, a, fo, cr, gr) == a + Capacity(i.policy) <= Budget(fo, cr, gr)

LEMMA BudgetType ==
    ASSUME NEW fo \in Nat, NEW cr \in Nat, NEW gr \in Nat
    PROVE  Budget(fo, cr, gr) \in Nat
<1>1. /\ LargestCapacity \in Nat /\ FastestRate \in Nat /\ 1 + fo \in Nat
  BY PolicyBounds
<1>2. LargestCapacity * (1 + fo) \in Nat /\ FastestRate * cr \in Nat
  BY <1>1
<1> QED
  BY <1>2 DEF Budget

\* Time credited is in the budget, and so is time credited again.
LEMMA BudgetMoves ==
    \A fo, cr, gr, now \in Nat :
           /\ FastestRate * Since(cr, now) \in Nat /\ FastestRate * Since(now, cr) \in Nat
           /\ Budget(fo, cr, gr) + FastestRate * Since(now, cr) = Budget(fo, now, gr + FastestRate * Since(cr, now))
<1> TAKE fo, cr, gr, now \in Nat
<1> DEFINE F == FastestRate
           C == LargestCapacity * (1 + fo)
<1>1. F \in Nat /\ C \in Nat
  BY PolicyBounds
<1> HIDE DEF F, C
<1>2. CASE now > cr
  <2>1. Since(now, cr) = now - cr /\ Since(cr, now) = 0 /\ now - cr \in Nat
    BY <1>2 DEF Since
  <2>2. F * 0 = 0 /\ F * (now - cr) \in Nat /\ F * now = F * cr + F * (now - cr) /\ F * cr \in Nat /\ F * now \in Nat
    BY <1>1, <2>1
  <2> QED
    BY <1>1, <2>1, <2>2 DEF Budget, F, C
<1>3. CASE now <= cr
  <2>1. Since(now, cr) = 0 /\ Since(cr, now) = cr - now /\ cr - now \in Nat
    BY <1>3 DEF Since
  <2>2. F * 0 = 0 /\ F * (cr - now) \in Nat /\ F * cr = F * now + F * (cr - now) /\ F * cr \in Nat /\ F * now \in Nat
    BY <1>1, <2>1
  <2> QED
    BY <1>1, <2>1, <2>2 DEF Budget, F, C
<1> QED
  BY <1>2, <1>3

\* The ideal bucket, refilled: at no earlier time, and with no more tokens than the
\* bucket it is compared with.
LEMMA RenewedType ==
    ASSUME NEW i \in BucketType, NEW now \in Nat
    PROVE  /\ Renewed(i, now) \in BucketType /\ Renewed(i, now).policy = i.policy
           /\ Renewed(i, now).lastRefill >= now /\ Renewed(i, now).lastRefill \in Nat
           /\ Renewed(i, now).tokens \in Nat /\ Renewed(i, now).tokens <= Capacity(i.policy)
<1> DEFINE at == IF i.lastRefill > now THEN i.lastRefill ELSE now
<1>1. at \in Nat /\ at >= now
  BY DEF BucketType
<1>2. Renewed(i, now) = Refill(i, at)
  BY DEF Renewed
<1> HIDE DEF at
<1>3. /\ Refill(i, at) \in BucketType /\ Refill(i, at).policy = i.policy /\ Refill(i, at).lastRefill = at
      /\ Refill(i, at).tokens <= Capacity(i.policy)
  BY <1>1, RefillType, RefillBounds
<1>4. Refill(i, at).tokens \in Nat
  BY <1>3 DEF BucketType
<1> QED
  BY <1>1, <1>2, <1>3, <1>4

LEMMA RenewedHasNoMore ==
    ASSUME NEW b \in BucketType, NEW i \in BucketType, NEW now \in Nat,
           b.policy = i.policy, i.tokens <= b.tokens, b.lastRefill <= i.lastRefill
    PROVE  Renewed(i, now).tokens <= Refill(b, now).tokens
<1> DEFINE at == IF i.lastRefill > now THEN i.lastRefill ELSE now
           d == b.policy.rate
           u == Since(at, i.lastRefill)
           v == Since(now, b.lastRefill)
<1>1. at \in Nat /\ Renewed(i, now) = Refill(i, at)
  BY DEF Renewed, BucketType
<1>2. /\ b.tokens \in Nat /\ i.tokens \in Nat /\ b.lastRefill \in Nat /\ i.lastRefill \in Nat /\ d \in Nat
      /\ Capacity(b.policy) \in Nat
  BY PolicyBounds DEF BucketType
<1>3. u <= v /\ u \in Nat /\ v \in Nat
  BY <1>2 DEF Since
<1>4. Refill(i, at).tokens = AtMost(i.tokens + u * d, Capacity(b.policy))
  <2> HIDE DEF at
  <2>1. Refill(i, at).tokens = AtMost(i.tokens + Since(at, i.lastRefill) * i.policy.rate, Capacity(i.policy))
    BY <1>1, RefillType
  <2> QED
    BY <2>1
<1>5. Refill(b, now).tokens = AtMost(b.tokens + v * d, Capacity(b.policy))
  BY RefillType
<1> HIDE DEF at, u, v, d
<1>6. u * d <= v * d /\ u * d \in Nat /\ v * d \in Nat
  BY <1>2, <1>3, TimesMonotone
<1>7. AtMost(i.tokens + u * d, Capacity(b.policy)) <= AtMost(b.tokens + v * d, Capacity(b.policy))
  BY <1>2, <1>6 DEF AtMost
<1> QED
  BY <1>1, <1>4, <1>5, <1>7

\* The ideal bucket that a check takes from.
LEMMA OwnedBucket ==
    ASSUME NEW i \in BucketType, NEW p \in Policies, NEW now \in Nat
    PROVE  /\ Owned(i, p, now) \in BucketType /\ Owned(i, p, now).policy = p
           /\ Owned(i, p, now).lastRefill >= now
           /\ Owned(i, p, now).tokens = AtMost(Renewed(i, now).tokens, Capacity(p))
<1> DEFINE r == Renewed(i, now)
<1>1. /\ r \in BucketType /\ r.lastRefill >= now /\ r.lastRefill \in Nat /\ r.tokens \in Nat
      /\ r.tokens <= Capacity(r.policy)
  BY RenewedType
<1>2. Owned(i, p, now) = Refill(Reconfigure(r, p, r.lastRefill), r.lastRefill)
  BY DEF Owned
<1> HIDE DEF r
<1>3. Refill(r, r.lastRefill).tokens = r.tokens
  <2>1. Refill(r, r.lastRefill).tokens =
          AtMost(r.tokens + Since(r.lastRefill, r.lastRefill) * r.policy.rate, Capacity(r.policy))
    BY <1>1, RefillType
  <2>2. Since(r.lastRefill, r.lastRefill) = 0 /\ 0 * r.policy.rate = 0 /\ Capacity(r.policy) \in Nat
    BY <1>1, PolicyBounds DEF Since, BucketType
  <2> QED
    BY <1>1, <2>1, <2>2 DEF AtMost
<1> DEFINE q == Refill(Reconfigure(r, p, r.lastRefill), r.lastRefill)
<1>4. /\ q \in BucketType /\ q.policy = p /\ q.lastRefill = r.lastRefill
      /\ q.tokens = AtMost(Refill(r, r.lastRefill).tokens, Capacity(p))
  <2> DEFINE t == r.lastRefill
  <2>1. r \in BucketType /\ t \in Nat
    BY <1>1
  <2> HIDE DEF t
  <2>2. /\ Refill(Reconfigure(r, p, t), t) \in BucketType /\ Refill(Reconfigure(r, p, t), t).policy = p
        /\ Refill(Reconfigure(r, p, t), t).lastRefill = t
        /\ Refill(Reconfigure(r, p, t), t).tokens = AtMost(Refill(r, t).tokens, Capacity(p))
    BY <2>1, PreparedBucket
  <2> QED
    BY <2>2 DEF t
<1> HIDE DEF q
<1>5. Owned(i, p, now) = q
  BY <1>2 DEF q
<1> QED
  BY <1>1, <1>3, <1>4, <1>5 DEF r

\* A refill at any time keeps a bucket within its budget.
LEMMA FitRefilled ==
    ASSUME NEW b \in BucketType, NEW i \in BucketType, NEW now \in Nat,
           NEW a \in Nat, NEW fo \in Nat, NEW cr \in Nat, NEW gr \in Nat, BucketFits(b, i, a, fo, cr, gr)
    PROVE  BucketFits(Refill(b, now), Renewed(i, now), a, fo, now, gr + FastestRate * Since(cr, now))
<1> DEFINE r == Refill(b, now)
           g == gr + FastestRate * Since(cr, now)
           gain == FastestRate * Since(now, cr)
<1>1. /\ b.tokens \in Nat /\ b.lastRefill = cr /\ b.policy = i.policy /\ i.tokens <= b.tokens
      /\ b.lastRefill <= i.lastRefill /\ a + b.tokens <= Budget(fo, cr, gr)
  BY DEF BucketFits, BucketType
<1>2. r \in BucketType /\ r.policy = b.policy /\ r.lastRefill = now
  BY RefillType
<1>3. r.tokens <= b.tokens + gain /\ gain \in Nat
  BY <1>1, RefillBounds
<1>4. Budget(fo, cr, gr) + gain = Budget(fo, now, g) /\ Budget(fo, cr, gr) \in Nat
  <2>1. Budget(fo, cr, gr) + gain = Budget(fo, now, g)
    BY BudgetMoves
  <2> QED
    BY <2>1, BudgetType
<1>5. Renewed(i, now).tokens <= r.tokens
  BY <1>1, RenewedHasNoMore
<1>6. Renewed(i, now).policy = i.policy /\ now <= Renewed(i, now).lastRefill
  BY RenewedType
<1>7. r.tokens \in Nat
  BY <1>2 DEF BucketType
<1> HIDE DEF r, g, gain
<1>8. a + r.tokens <= Budget(fo, now, g)
  BY <1>1, <1>3, <1>4, <1>7
<1> QED
  BY <1>1, <1>2, <1>5, <1>6, <1>8 DEF BucketFits, r, g

\* A bucket that is full when it is dropped leaves room for a new one.
LEMMA FitEvicted ==
    ASSUME NEW b \in BucketType, NEW i \in BucketType, NEW now \in Nat,
           NEW a \in Nat, NEW fo \in Nat, NEW cr \in Nat, NEW gr \in Nat, BucketFits(b, i, a, fo, cr, gr),
           Evictable(b, now)
    PROVE  AbsenceFits(Renewed(i, now), a, fo, now, gr + FastestRate * Since(cr, now))
<1> DEFINE r == Refill(b, now)
           g == gr + FastestRate * Since(cr, now)
<1>1. BucketFits(r, Renewed(i, now), a, fo, now, g)
  BY FitRefilled
<1>2. r \in BucketType /\ r.policy = b.policy /\ r.tokens <= Capacity(b.policy) /\ r.tokens >= Capacity(b.policy)
  BY RefillType, RefillBounds DEF Evictable
<1>3. r.tokens \in Nat /\ Capacity(r.policy) \in Nat
  BY <1>2, PolicyBounds DEF BucketType
<1> HIDE DEF r, g
<1>4. r.tokens = Capacity(Renewed(i, now).policy)
  BY <1>1, <1>2, <1>3 DEF BucketFits
<1> QED
  BY <1>1, <1>4 DEF BucketFits, AbsenceFits, g

LEMMA FitAbsent ==
    ASSUME NEW i \in BucketType, NEW now \in Nat,
           NEW a \in Nat, NEW fo \in Nat, NEW cr \in Nat, NEW gr \in Nat, AbsenceFits(i, a, fo, cr, gr)
    PROVE  AbsenceFits(i, a, fo, now, gr + FastestRate * Since(cr, now))
<1> DEFINE g == gr + FastestRate * Since(cr, now)
           gain == FastestRate * Since(now, cr)
<1>1. Budget(fo, cr, gr) + gain = Budget(fo, now, g) /\ gain \in Nat /\ Budget(fo, cr, gr) \in Nat
  <2>1. Budget(fo, cr, gr) + gain = Budget(fo, now, g)
    BY BudgetMoves
  <2>2. gain \in Nat
    BY BudgetMoves
  <2> QED
    BY <2>1, <2>2, BudgetType
<1>2. Capacity(i.policy) \in Nat
  BY PolicyBounds DEF BucketType
<1> HIDE DEF g, gain
<1>3. a + Capacity(i.policy) <= Budget(fo, now, g)
  BY <1>1, <1>2 DEF AbsenceFits
<1> QED
  BY <1>3 DEF AbsenceFits, g

\* The budget grows with what is granted.
LEMMA BudgetGrows ==
    ASSUME NEW fo \in Nat, NEW cr \in Nat, NEW gr \in Nat, NEW e \in Nat
    PROVE  Budget(fo, cr, gr + e) = Budget(fo, cr, gr) + e
<1>1. LargestCapacity * (1 + fo) \in Nat /\ FastestRate * cr \in Nat
  BY PolicyBounds
<1> QED
  BY <1>1 DEF Budget

\* The bucket of a check, made from one that the client has...
LEMMA FitPrepared ==
    ASSUME NEW b \in BucketType, NEW i \in BucketType, NEW p \in Policies, NEW now \in Nat,
           NEW a \in Nat, NEW fo \in Nat, NEW gr \in Nat, NEW e \in Nat,
           BucketFits(Refill(b, now), Renewed(i, now), a, fo, now, gr)
    PROVE  BucketFits(Refill(Reconfigure(b, p, now), now), Owned(i, p, now), a, fo, now, gr + e)
<1> DEFINE q == Refill(Reconfigure(b, p, now), now)
           r == Refill(b, now)
           o == Owned(i, p, now)
           n == Renewed(i, now)
<1>1. /\ q.policy = p /\ q.lastRefill = now /\ q.tokens = AtMost(r.tokens, Capacity(p))
  BY PreparedBucket
<1>2. /\ o.policy = p /\ o.lastRefill >= now /\ o.tokens = AtMost(n.tokens, Capacity(p)) /\ o \in BucketType
  BY OwnedBucket
<1>3. r.tokens \in Nat /\ n.tokens \in Nat /\ Capacity(p) \in Nat /\ o.lastRefill \in Nat
  BY <1>2, RefillType, RenewedType, PolicyBounds DEF BucketType
<1>4. a + r.tokens <= Budget(fo, now, gr) /\ n.tokens <= r.tokens
  BY DEF BucketFits
<1>5. Budget(fo, now, gr + e) = Budget(fo, now, gr) + e /\ Budget(fo, now, gr) \in Nat
  BY BudgetGrows, BudgetType
<1> HIDE DEF q, r, o, n
<1>6. q.tokens \in Nat /\ q.tokens <= r.tokens /\ o.tokens <= q.tokens
  BY <1>1, <1>2, <1>3, <1>4 DEF AtMost
<1>7. a + q.tokens <= Budget(fo, now, gr + e)
  BY <1>3, <1>4, <1>5, <1>6
<1>8. q.lastRefill <= o.lastRefill
  BY <1>1, <1>2, <1>3
<1> QED
  BY <1>1, <1>2, <1>6, <1>7, <1>8 DEF BucketFits, q, o

\* ... or for one that has none: a raised burst is granted.
LEMMA FitFresh ==
    ASSUME NEW j \in BucketType, NEW i \in BucketType, NEW p \in Policies, NEW now \in Nat,
           NEW a \in Nat, NEW fo \in Nat, NEW gr \in Nat,
           AbsenceFits(j, a, fo, now, gr), j.policy = i.policy
    PROVE  BucketFits(Refill(Reconfigure(NewBucket(p, now), p, now), now), Owned(i, p, now), a, fo, now,
                      gr + Since(Capacity(p), Capacity(i.policy)))
<1> DEFINE b == NewBucket(p, now)
           q == Refill(Reconfigure(b, p, now), now)
           o == Owned(i, p, now)
           e == Since(Capacity(p), Capacity(i.policy))
<1>1. Capacity(p) \in Nat /\ Capacity(i.policy) \in Nat
  BY PolicyBounds DEF BucketType
<1>2. b \in BucketType
  BY <1>1 DEF NewBucket, BucketType
<1>3. e \in Nat /\ Capacity(p) <= Capacity(i.policy) + e
  BY <1>1 DEF Since
<1>4. /\ q \in BucketType /\ q.policy = p /\ q.lastRefill = now
      /\ q.tokens = AtMost(Refill(b, now).tokens, Capacity(p))
  BY <1>2, PreparedBucket
<1>5. Refill(b, now).tokens = Capacity(p)
  <2>1. b.policy = p /\ b.tokens = Capacity(p) /\ b.lastRefill = now
    BY DEF NewBucket
  <2>2. Refill(b, now).tokens = AtMost(b.tokens + Since(now, b.lastRefill) * b.policy.rate, Capacity(b.policy))
    BY <1>2, RefillType
  <2>3. Since(now, now) = 0 /\ 0 * p.rate = 0
    BY PolicyBounds DEF Since
  <2> QED
    BY <1>1, <2>1, <2>2, <2>3 DEF AtMost
<1>6. /\ o.policy = p /\ o.lastRefill >= now /\ o.tokens = AtMost(Renewed(i, now).tokens, Capacity(p)) /\ o \in BucketType
      /\ Renewed(i, now).tokens \in Nat
  BY OwnedBucket, RenewedType
<1>7. o.lastRefill \in Nat
  BY <1>6 DEF BucketType
<1>8. Budget(fo, now, gr + e) = Budget(fo, now, gr) + e /\ Budget(fo, now, gr) \in Nat
  BY <1>3, BudgetGrows, BudgetType
<1> HIDE DEF b, q, o, e
<1>9. q.tokens = Capacity(p) /\ o.tokens <= Capacity(p)
  BY <1>1, <1>4, <1>5, <1>6 DEF AtMost
<1>10. a + q.tokens <= Budget(fo, now, gr + e)
  BY <1>1, <1>3, <1>8, <1>9 DEF AbsenceFits
<1> QED
  BY <1>4, <1>6, <1>7, <1>9, <1>10 DEF BucketFits, b, q, o, e

\* What an admission takes, it takes from both buckets; a denial finds both empty.
Spent(o, allowed) == [o EXCEPT !.tokens = IF allowed /\ @ > 0 THEN @ - 1 ELSE @]

LEMMA FitTaken ==
    ASSUME NEW q \in BucketType, NEW o \in BucketType,
           NEW a \in Nat, NEW fo \in Nat, NEW cr \in Nat, NEW gr \in Nat, BucketFits(q, o, a, fo, cr, gr)
    PROVE  LET allowed == q.tokens >= 1 IN
           /\ TryAcquire(q) \in BucketType /\ Spent(o, allowed) \in BucketType
           /\ BucketFits(TryAcquire(q), Spent(o, allowed), a + (IF allowed THEN 1 ELSE 0), fo, cr, gr)
           /\ ~allowed => ~(o.tokens >= 1)
<1>1. /\ q.tokens \in Nat /\ o.tokens \in Nat /\ q.lastRefill \in Nat /\ o.lastRefill \in Nat
      /\ q.policy \in Policies /\ o.policy \in Policies
      /\ Budget(fo, cr, gr) \in Nat
  BY BudgetType DEF BucketType
<1>2. CASE q.tokens >= 1
  <2> DEFINE x == [q EXCEPT !.tokens = @ - 1]
             y == [o EXCEPT !.tokens = IF @ > 0 THEN @ - 1 ELSE @]
  <2>1. TryAcquire(q) = x /\ Spent(o, q.tokens >= 1) = y
    BY <1>1, <1>2 DEF TryAcquire, Spent
  <2>2. q.tokens - 1 \in Nat /\ (IF o.tokens > 0 THEN o.tokens - 1 ELSE o.tokens) \in Nat
    BY <1>1, <1>2
  <2>3. /\ x \in BucketType /\ x.tokens = q.tokens - 1 /\ x.policy = q.policy /\ x.lastRefill = q.lastRefill
    BY <1>1, <2>2 DEF BucketType
  <2>4. /\ y \in BucketType /\ y.tokens = (IF o.tokens > 0 THEN o.tokens - 1 ELSE o.tokens)
        /\ y.policy = o.policy /\ y.lastRefill = o.lastRefill
    BY <1>1, <2>2 DEF BucketType
  <2> HIDE DEF x, y
  <2>5. BucketFits(x, y, a + 1, fo, cr, gr)
    BY <1>1, <1>2, <2>3, <2>4 DEF BucketFits
  <2> QED
    BY <1>2, <2>1, <2>3, <2>4, <2>5
<1>3. CASE ~(q.tokens >= 1)
  <2>1. TryAcquire(q) = q /\ q.tokens = 0 /\ o.tokens = 0
    BY <1>1, <1>3 DEF TryAcquire, BucketFits
  <2>2. Spent(o, q.tokens >= 1) = o
    BY <1>3 DEF Spent, BucketType
  <2> QED
    BY <1>1, <1>3, <2>1, <2>2
<1> QED
  BY <1>2, <1>3

-----------------------------------------------------------------------------
(* The rate limit: the invariant.                                          *)

TableType(t) ==
  /\ t = [buckets |-> t.buckets, nextCleanup |-> t.nextCleanup] /\ t.nextCleanup \in Nat
  /\ DOMAIN t.buckets \subseteq Buckets
  /\ \A k \in DOMAIN t.buckets : t.buckets[k] \in BucketType

SampledType(c) ==
  c.pc = "sampled" => c.bucket \in Buckets /\ c.policy \in Policies /\ c.now \in Nat /\ c.now <= latest

RateTypes ==
  /\ clock \in Nat /\ latest \in Nat /\ clock <= latest /\ policy \in Policies /\ forgotten \in Nat
  /\ DOMAIN check = Checks /\ \A t \in Checks : SampledType(check[t])
  /\ TableType(table)
  /\ admitted \in [Buckets -> Nat] /\ credited \in [Buckets -> Nat] /\ granted \in [Buckets -> Nat]
  /\ ideal \in [Buckets -> BucketType]
  /\ \A k \in Buckets : credited[k] <= latest

AccountFits(bs, k, i, a, fo, cr, gr) ==
  IF k \in DOMAIN bs THEN BucketFits(bs[k], i, a, fo, cr, gr) ELSE AbsenceFits(i, a, fo, cr, gr)

BudgetsKept ==
  \A k \in Buckets : AccountFits(table.buckets, k, ideal[k], admitted[k], forgotten, credited[k], granted[k])

RateInv == RateTypes /\ BudgetsKept /\ unjust = {}

\* A cleanup sweeps every bucket there is: it refills it, or drops it when it is full.
LEMMA CleanupFits ==
    ASSUME NEW base, TableType(base), NEW k \in Buckets, NEW now \in Nat, NEW i \in BucketType,
           NEW a \in Nat, NEW fo \in Nat, NEW cr \in Nat, NEW gr \in Nat,
           AccountFits(base.buckets, k, i, a, fo, cr, gr)
    PROVE  LET cleaned == Cleanup(base, now)
               bs == cleaned.buckets
               g == gr + FastestRate * Since(cr, now)
           IN  /\ TableType(cleaned) /\ DOMAIN bs \subseteq DOMAIN base.buckets
               /\ k \in DOMAIN base.buckets /\ now >= base.nextCleanup
                    => /\ AccountFits(bs, k, Renewed(i, now), a, fo, now, g)
                       /\ k \in DOMAIN bs => bs[k] = Refill(base.buckets[k], now)
               /\ ~(k \in DOMAIN base.buckets /\ now >= base.nextCleanup)
                    => /\ k \in DOMAIN bs <=> k \in DOMAIN base.buckets
                       /\ k \in DOMAIN bs => bs[k] = base.buckets[k]
<1> DEFINE cleaned == Cleanup(base, now)
           bs == cleaned.buckets
           g == gr + FastestRate * Since(cr, now)
           kept == {x \in DOMAIN base.buckets : ~Evictable(base.buckets[x], now)}
<1>1. base.nextCleanup \in Nat /\ now + CleanupInterval \in Nat
  BY RateAssumption DEF TableType
<1>2. CASE now < base.nextCleanup
  <2>1. cleaned = base
    BY <1>2 DEF Cleanup
  <2>2. ~(now >= base.nextCleanup)
    BY <1>1, <1>2
  <2> QED
    BY <2>1, <2>2
<1>3. CASE ~(now < base.nextCleanup)
  <2>1. cleaned = [buckets |-> [x \in kept |-> Refill(base.buckets[x], now)], nextCleanup |-> now + CleanupInterval]
    BY <1>3 DEF Cleanup
  <2>2. bs = [x \in kept |-> Refill(base.buckets[x], now)] /\ cleaned.nextCleanup = now + CleanupInterval
    BY <2>1
  <2>3. DOMAIN bs = kept /\ \A x \in kept : bs[x] = Refill(base.buckets[x], now)
    BY <2>2
  <2>4. \A x \in kept : x \in Buckets /\ base.buckets[x] \in BucketType /\ Refill(base.buckets[x], now) \in BucketType
    BY RefillType DEF TableType
  <2>5. cleaned = [buckets |-> bs, nextCleanup |-> cleaned.nextCleanup]
    BY <2>1, <2>2
  <2> HIDE DEF cleaned, g
  <2>6. TableType(cleaned) /\ kept \subseteq DOMAIN base.buckets
    BY <1>1, <2>2, <2>3, <2>4, <2>5 DEF TableType
  <2>7. ASSUME k \in DOMAIN base.buckets
        PROVE  /\ AccountFits(bs, k, Renewed(i, now), a, fo, now, g)
               /\ k \in kept => bs[k] = Refill(base.buckets[k], now)
    <3>1. base.buckets[k] \in BucketType /\ BucketFits(base.buckets[k], i, a, fo, cr, gr)
      BY <2>7 DEF TableType, AccountFits
    <3>2. CASE k \in kept
      <4>1. BucketFits(Refill(base.buckets[k], now), Renewed(i, now), a, fo, now, g)
        BY <3>1, FitRefilled DEF g
      <4> QED
        BY <2>3, <3>2, <4>1 DEF AccountFits
    <3>3. CASE k \notin kept
      <4>1. Evictable(base.buckets[k], now)
        BY <2>7, <3>3
      <4>2. AbsenceFits(Renewed(i, now), a, fo, now, g)
        BY <3>1, <4>1, FitEvicted DEF g
      <4> QED
        BY <2>3, <3>3, <4>2 DEF AccountFits
    <3> QED
      BY <3>2, <3>3
  <2>8. now >= base.nextCleanup
    BY <1>1, <1>3
  <2>9. k \notin DOMAIN base.buckets => k \notin kept
    OBVIOUS
  <2> HIDE DEF kept
  <2> QED
    BY <2>3, <2>6, <2>7, <2>8, <2>9 DEF cleaned, g
<1> QED
  BY <1>2, <1>3

\* The bucket a check takes from, whether the client had one, kept it or lost it to the
\* cleanup.
LEMMA FitChecked ==
    ASSUME NEW base, TableType(base), NEW k \in Buckets, NEW p \in Policies, NEW now \in Nat, NEW i \in BucketType,
           NEW a \in Nat, NEW fo \in Nat, NEW cr \in Nat, NEW gr \in Nat,
           AccountFits(base.buckets, k, i, a, fo, cr, gr)
    PROVE  LET q == Prepared(Cleanup(base, now), k, p, now)
           IN  /\ q \in BucketType
               /\ BucketFits(q, Owned(i, p, now), a, fo, now,
                     gr + FastestRate * Since(cr, now) + Since(Capacity(p), Capacity(i.policy)))
<1> DEFINE cleaned == Cleanup(base, now)
           bs == cleaned.buckets
           g == gr + FastestRate * Since(cr, now)
           e == Since(Capacity(p), Capacity(i.policy))
           q == Prepared(cleaned, k, p, now)
<1>1. g \in Nat /\ e \in Nat /\ Capacity(p) \in Nat
  <2>1. FastestRate * Since(cr, now) \in Nat
    BY BudgetMoves
  <2>2. Capacity(p) \in Nat /\ Capacity(i.policy) \in Nat
    BY PolicyBounds DEF BucketType
  <2> QED
    BY <2>1, <2>2 DEF Since
<1>2. /\ TableType(cleaned) /\ DOMAIN bs \subseteq DOMAIN base.buckets
      /\ k \in DOMAIN base.buckets /\ now >= base.nextCleanup
           => /\ AccountFits(bs, k, Renewed(i, now), a, fo, now, g)
              /\ k \in DOMAIN bs => bs[k] = Refill(base.buckets[k], now)
      /\ ~(k \in DOMAIN base.buckets /\ now >= base.nextCleanup)
           => /\ k \in DOMAIN bs <=> k \in DOMAIN base.buckets
              /\ k \in DOMAIN bs => bs[k] = base.buckets[k]
  BY CleanupFits
<1> HIDE DEF cleaned, g, e
<1>3. CASE k \in DOMAIN bs
  <2> DEFINE b == bs[k]
  <2>1. b \in BucketType
    BY <1>2, <1>3 DEF TableType
  <2>2. q = Refill(Reconfigure(b, p, now), now)
    BY <1>3 DEF Prepared
  <2>3. k \in DOMAIN base.buckets
    BY <1>2, <1>3
  <2>4. BucketFits(Refill(b, now), Renewed(i, now), a, fo, now, g)
    <3>1. CASE now >= base.nextCleanup
      <4>1. BucketFits(b, Renewed(i, now), a, fo, now, g)
        BY <1>2, <1>3, <2>3, <3>1 DEF AccountFits
      <4>2. b = Refill(base.buckets[k], now) /\ base.buckets[k] \in BucketType
        BY <1>2, <1>3, <2>3, <3>1 DEF TableType
      <4> HIDE DEF b
      <4>3. Refill(b, now).tokens = b.tokens
        BY <4>2, RefillBounds
      <4>4. Refill(b, now).policy = b.policy /\ Refill(b, now).lastRefill = now
        BY <2>1, RefillType
      <4> QED
        BY <4>1, <4>3, <4>4 DEF BucketFits
    <3>2. CASE ~(now >= base.nextCleanup)
      <4>1. b = base.buckets[k]
        BY <1>2, <1>3, <3>2
      <4>2. BucketFits(base.buckets[k], i, a, fo, cr, gr)
        BY <2>3 DEF AccountFits
      <4> HIDE DEF b
      <4> QED
        BY <2>1, <4>1, <4>2, FitRefilled DEF g
    <3> QED
      BY <3>1, <3>2
  <2> HIDE DEF b
  <2>5. q \in BucketType
    BY <2>1, <2>2, PreparedBucket
  <2>6. BucketFits(q, Owned(i, p, now), a, fo, now, g + e)
    <3> HIDE DEF q
    <3> QED
      BY <1>1, <2>1, <2>2, <2>4, FitPrepared
  <2> QED
    BY <2>5, <2>6 DEF cleaned, g, e
<1>4. CASE k \notin DOMAIN bs
  <2>1. q = Refill(Reconfigure(NewBucket(p, now), p, now), now)
    BY <1>4 DEF Prepared
  <2>2. \E j \in BucketType : AbsenceFits(j, a, fo, now, g) /\ j.policy = i.policy
    <3>1. CASE k \in DOMAIN base.buckets
      <4>1. AbsenceFits(Renewed(i, now), a, fo, now, g)
        BY <1>2, <1>4, <3>1 DEF AccountFits
      <4> QED
        BY <4>1, RenewedType
    <3>2. CASE k \notin DOMAIN base.buckets
      <4>1. AbsenceFits(i, a, fo, cr, gr)
        BY <3>2 DEF AccountFits
      <4> QED
        BY <4>1, FitAbsent DEF g
    <3> QED
      BY <3>1, <3>2
  <2>3. BucketFits(q, Owned(i, p, now), a, fo, now, g + e)
    BY <1>1, <2>1, <2>2, FitFresh DEF e
  <2>4. NewBucket(p, now) \in BucketType
    BY <1>1 DEF NewBucket, BucketType
  <2>5. q \in BucketType
    BY <2>1, <2>4, PreparedBucket
  <2> QED
    BY <2>3, <2>5 DEF cleaned, g, e
<1> QED
  BY <1>3, <1>4

\* A check that had its answer keeps the invariant, whatever table it found.
LEMMA RateInvAccounted ==
    ASSUME RateInv, NEW t \in Checks, check[t].pc = "sampled",
           NEW base, TableType(base), NEW fo \in Nat,
           \A k \in Buckets : AccountFits(base.buckets, k, ideal[k], admitted[k], fo, credited[k], granted[k]),
           table' = AfterCheck(t, base), forgotten' = fo, Account(t, base, Allowed(t, base)),
           check' = [check EXCEPT ![t] = Idle], UNCHANGED <<clock, policy, latest>>
    PROVE  RateInv'
<1> DEFINE c == check[t]
           k == c.bucket
           now == c.now
           cleaned == Cleanup(base, now)
           bs == cleaned.buckets
           q == Prepared(cleaned, k, c.policy, now)
           allowed == q.tokens >= 1
           own == Owned(ideal[k], c.policy, now)
           swept(x) == x \in DOMAIN base.buckets /\ now >= base.nextCleanup
           back(x) == FastestRate * Since(credited[x], now)
           raised == Since(Capacity(c.policy), Capacity(ideal[k].policy))
<1>1. k \in Buckets /\ c.policy \in Policies /\ now \in Nat /\ now <= latest
  BY DEF RateInv, RateTypes, SampledType
<1>2. \A x \in Buckets : /\ ideal[x] \in BucketType /\ admitted[x] \in Nat /\ credited[x] \in Nat /\ granted[x] \in Nat
                          /\ credited[x] <= latest
  BY DEF RateInv, RateTypes
<1>3. /\ q \in BucketType /\ own \in BucketType
      /\ BucketFits(q, own, admitted[k], fo, now, granted[k] + back(k) + raised)
  BY <1>1, <1>2, FitChecked, OwnedBucket
<1>4. \A x \in Buckets : back(x) \in Nat
  BY <1>1, <1>2, BudgetMoves
<1>5. raised \in Nat
  <2>1. Capacity(c.policy) \in Nat /\ Capacity(ideal[k].policy) \in Nat
    BY <1>1, <1>2, PolicyBounds DEF BucketType
  <2> QED
    BY <2>1 DEF Since
<1>6. \A x \in Buckets :
        /\ TableType(cleaned) /\ DOMAIN bs \subseteq DOMAIN base.buckets
        /\ swept(x) => AccountFits(bs, x, Renewed(ideal[x], now), admitted[x], fo, now, granted[x] + back(x))
        /\ ~swept(x) => /\ x \in DOMAIN bs <=> x \in DOMAIN base.buckets
                        /\ x \in DOMAIN bs => bs[x] = base.buckets[x]
  <2> SUFFICES ASSUME NEW x \in Buckets
               PROVE  /\ TableType(cleaned) /\ DOMAIN bs \subseteq DOMAIN base.buckets
                      /\ swept(x) => AccountFits(bs, x, Renewed(ideal[x], now), admitted[x], fo, now, granted[x] + back(x))
                      /\ ~swept(x) => /\ x \in DOMAIN bs <=> x \in DOMAIN base.buckets
                                      /\ x \in DOMAIN bs => bs[x] = base.buckets[x]
    OBVIOUS
  <2>1. /\ AccountFits(base.buckets, x, ideal[x], admitted[x], fo, credited[x], granted[x])
        /\ ideal[x] \in BucketType /\ admitted[x] \in Nat /\ credited[x] \in Nat /\ granted[x] \in Nat
    BY <1>2
  <2> DEFINE i == ideal[x]
             a == admitted[x]
             cr == credited[x]
             gr == granted[x]
             g == gr + FastestRate * Since(cr, now)
  <2> HIDE DEF now, i, a, cr, gr
  <2>2. /\ TableType(cleaned) /\ DOMAIN bs \subseteq DOMAIN base.buckets
        /\ swept(x) => AccountFits(bs, x, Renewed(i, now), a, fo, now, g)
        /\ ~swept(x) => /\ x \in DOMAIN bs <=> x \in DOMAIN base.buckets
                        /\ x \in DOMAIN bs => bs[x] = base.buckets[x]
    <3>1. AccountFits(base.buckets, x, i, a, fo, cr, gr) /\ i \in BucketType
          /\ a \in Nat /\ cr \in Nat /\ gr \in Nat /\ now \in Nat
      BY <1>1, <2>1 DEF i, a, cr, gr
    <3> QED
      BY <3>1, CleanupFits
  <2> QED
    BY <2>2 DEF i, a, cr, gr
<1> DEFINE taken == TryAcquire(q)
           spent == Spent(own, allowed)
<1>7. /\ taken \in BucketType /\ spent \in BucketType
      /\ BucketFits(taken, spent, admitted[k] + (IF allowed THEN 1 ELSE 0), fo, now, granted[k] + back(k) + raised)
      /\ ~allowed => ~(own.tokens >= 1)
  <2> DEFINE g == granted[k] + back(k) + raised
  <2>1. g \in Nat
    BY <1>1, <1>2, <1>4, <1>5
  <2> HIDE DEF g, q, own
  <2>2. BucketFits(q, own, admitted[k], fo, now, g)
    BY <1>3 DEF g
  <2>3. /\ TryAcquire(q) \in BucketType /\ Spent(own, q.tokens >= 1) \in BucketType
        /\ BucketFits(TryAcquire(q), Spent(own, q.tokens >= 1), admitted[k] + (IF q.tokens >= 1 THEN 1 ELSE 0), fo, now, g)
        /\ ~(q.tokens >= 1) => ~(own.tokens >= 1)
    BY <1>1, <1>2, <1>3, <2>1, <2>2, FitTaken
  <2> QED
    BY <2>3 DEF g
<1>8. Allowed(t, base) = allowed
  BY DEF Allowed
<1>9. /\ table'.buckets = [x \in DOMAIN bs \cup {k} |-> IF x = k THEN taken ELSE bs[x]]
      /\ table' = [buckets |-> table'.buckets, nextCleanup |-> cleaned.nextCleanup]
      /\ table'.nextCleanup = cleaned.nextCleanup
  <2>1. cleaned = [buckets |-> bs, nextCleanup |-> cleaned.nextCleanup]
    BY <1>1, <1>6 DEF TableType
  <2>2. table' = [cleaned EXCEPT !.buckets = [x \in DOMAIN bs \cup {k} |-> IF x = k THEN taken ELSE bs[x]]]
    BY DEF AfterCheck
  <2> HIDE DEF cleaned, taken
  <2> QED
    BY <2>1, <2>2
<1>10. /\ credited' = [x \in Buckets |-> IF x = k \/ swept(x) THEN now ELSE credited[x]]
       /\ granted' = [x \in Buckets |-> granted[x] + (IF x = k \/ swept(x) THEN back(x) ELSE 0)
                                                   + (IF x = k THEN Since(Capacity(c.policy), Capacity(ideal[x].policy)) ELSE 0)]
       /\ ideal' = [x \in Buckets |-> IF x = k THEN spent ELSE IF swept(x) THEN Renewed(ideal[x], now) ELSE ideal[x]]
       /\ admitted' = [admitted EXCEPT ![k] = @ + (IF allowed THEN 1 ELSE 0)]
       /\ unjust' = IF ~allowed /\ own.tokens >= 1 THEN unjust \cup {k} ELSE unjust
  <2>1. \A x : x \in Touched(t, base, k) <=> x = k \/ swept(x)
    BY DEF Touched
  <2>2. \A x \in Buckets : (x \in Touched(t, base, k) /\ x # k) <=> (swept(x) /\ x # k)
    BY <2>1
  <2> HIDE DEF q, own, swept
  <2>3. spent = [own EXCEPT !.tokens = IF allowed /\ @ > 0 THEN @ - 1 ELSE @]
    BY DEF Spent
  <2>4. /\ credited' = [x \in Buckets |-> IF x \in Touched(t, base, k) THEN now ELSE credited[x]]
        /\ granted' = [x \in Buckets |->
             granted[x] + (IF x \in Touched(t, base, k) THEN back(x) ELSE 0)
                        + (IF x = k THEN Since(Capacity(c.policy), Capacity(ideal[x].policy)) ELSE 0)]
        /\ ideal' = [x \in Buckets |->
             IF x = k THEN spent ELSE IF x \in Touched(t, base, k) THEN Renewed(ideal[x], now) ELSE ideal[x]]
        /\ admitted' = [admitted EXCEPT ![k] = @ + (IF allowed THEN 1 ELSE 0)]
        /\ unjust' = IF ~allowed /\ own.tokens >= 1 THEN unjust \cup {k} ELSE unjust
    BY <1>8, <2>3 DEF Account, own
  <2> HIDE DEF spent, allowed
  <2> QED
    BY <2>1, <2>2, <2>4, Zenon
<1> HIDE DEF c
<1> HIDE DEF cleaned, q, own, swept, back, raised, taken, spent, allowed
<1>11. unjust' = {}
  BY <1>7, <1>10 DEF RateInv
<1>12. TableType(table)'
  <2>1. TableType(cleaned) /\ DOMAIN bs \subseteq Buckets /\ \A x \in DOMAIN bs : bs[x] \in BucketType
    BY <1>1, <1>6 DEF TableType
  <2>2. DOMAIN table'.buckets = DOMAIN bs \cup {k}
    BY <1>9
  <2>3. \A x \in DOMAIN table'.buckets : table'.buckets[x] \in BucketType
    BY <1>7, <1>9, <2>1
  <2>4. cleaned.nextCleanup \in Nat
    BY <2>1 DEF TableType
  <2> QED
    BY <1>1, <1>9, <2>1, <2>2, <2>3, <2>4 DEF TableType
<1>13. admitted' \in [Buckets -> Nat] /\ credited' \in [Buckets -> Nat] /\ ideal' \in [Buckets -> BucketType]
       /\ \A x \in Buckets : credited'[x] <= latest
  <2>1. admitted' \in [Buckets -> Nat]
    <3>1. admitted[k] + (IF allowed THEN 1 ELSE 0) \in Nat
      BY <1>1, <1>2
    <3> QED
      BY <1>10, <3>1 DEF RateInv, RateTypes
  <2>2. credited' \in [Buckets -> Nat] /\ \A x \in Buckets : credited'[x] <= latest
    BY <1>1, <1>2, <1>10
  <2>3. \A x \in Buckets : Renewed(ideal[x], now) \in BucketType
    BY <1>1, <1>2, RenewedType
  <2> QED
    BY <1>2, <1>7, <1>10, <2>1, <2>2, <2>3
<1>14. \A x \in Buckets : granted'[x] = granted[x] + (IF x = k \/ swept(x) THEN back(x) ELSE 0) + (IF x = k THEN raised ELSE 0)
  BY <1>10 DEF raised
<1>15. granted' \in [Buckets -> Nat]
  <2>1. \A x \in Buckets : granted'[x] \in Nat
    BY <1>2, <1>4, <1>5, <1>14
  <2> QED
    BY <1>10, <2>1
<1>16. RateTypes'
  <2>1. DOMAIN check' = Checks /\ \A u \in Checks : check'[u] = IF u = t THEN Idle ELSE check[u]
    BY DEF RateInv, RateTypes
  <2>2. Idle.pc # "sampled"
    BY DEF Idle
  <2>3. \A u \in Checks : SampledType(check[u])'
    BY <2>1, <2>2 DEF RateInv, RateTypes, SampledType
  <2> QED
    BY <1>12, <1>13, <1>15, <2>1, <2>3 DEF RateInv, RateTypes
<1>17. ASSUME NEW x \in Buckets
       PROVE  AccountFits(table'.buckets, x, ideal'[x], admitted'[x], fo, credited'[x], granted'[x])
  <2>1. CASE x = k
    <3>1. x \in DOMAIN table'.buckets /\ table'.buckets[x] = taken
      BY <1>9, <2>1
    <3>2. ideal'[x] = spent /\ credited'[x] = now
      BY <1>10, <2>1
    <3>3. granted'[x] = granted[k] + back(k) + raised
      BY <1>14, <2>1
    <3>4. admitted'[x] = admitted[k] + (IF allowed THEN 1 ELSE 0)
      BY <1>10, <2>1 DEF RateInv, RateTypes
    <3> QED
      BY <1>7, <3>1, <3>2, <3>3, <3>4 DEF AccountFits
  <2>2. CASE x # k
    <3>1. x \in DOMAIN table'.buckets <=> x \in DOMAIN bs
      BY <1>9, <2>2
    <3>2. x \in DOMAIN bs => table'.buckets[x] = bs[x]
      BY <1>9, <2>2
    <3>3. admitted'[x] = admitted[x]
      BY <1>10, <2>2 DEF RateInv, RateTypes
    <3>4. CASE swept(x)
      <4>1. ideal'[x] = Renewed(ideal[x], now) /\ credited'[x] = now
        BY <1>10, <2>2, <3>4
      <4>2. granted'[x] = granted[x] + back(x)
        BY <1>2, <1>4, <1>14, <2>2, <3>4
      <4>3. AccountFits(bs, x, Renewed(ideal[x], now), admitted[x], fo, now, granted[x] + back(x))
        BY <1>6, <3>4
      <4> QED
        BY <3>1, <3>2, <3>3, <4>1, <4>2, <4>3 DEF AccountFits
    <3>5. CASE ~swept(x)
      <4>1. ideal'[x] = ideal[x] /\ credited'[x] = credited[x]
        BY <1>10, <2>2, <3>5
      <4>2. granted'[x] = granted[x]
        BY <1>2, <1>14, <2>2, <3>5
      <4>3. /\ x \in DOMAIN bs <=> x \in DOMAIN base.buckets
            /\ x \in DOMAIN bs => bs[x] = base.buckets[x]
        BY <1>6, <3>5
      <4> QED
        BY <3>1, <3>2, <3>3, <4>1, <4>2, <4>3 DEF AccountFits
    <3> QED
      BY <3>4, <3>5
  <2> QED
    BY <2>1, <2>2
<1> QED
  BY <1>11, <1>16, <1>17 DEF RateInv, BudgetsKept

\* A segment made anew forgets the buckets, and the budget says so.
LEMMA OpenedFits ==
    ASSUME RateInv, NEW p
    PROVE  /\ TableType(Opened(p)) /\ forgotten + Lost(p) \in Nat
           /\ \A k \in Buckets : AccountFits(Opened(p).buckets, k, ideal[k], admitted[k], forgotten + Lost(p),
                                             credited[k], granted[k])
<1>1. CASE Attaches(p)
  <2>1. Opened(p) = table /\ Lost(p) = 0 /\ forgotten + 0 = forgotten
    BY <1>1 DEF Opened, Lost, RateInv, RateTypes
  <2> QED
    BY <2>1 DEF RateInv, RateTypes, BudgetsKept
<1>2. CASE ~Attaches(p)
  <2>1. Opened(p) = [buckets |-> <<>>, nextCleanup |-> 0]
    BY <1>2 DEF Opened, EmptyTable
  <2>2. Opened(p).buckets = <<>> /\ DOMAIN Opened(p).buckets = {}
    BY <2>1
  <2>3. TableType(Opened(p))
    BY <2>1, <2>2 DEF TableType
  <2>4. Lost(p) \in Nat /\ forgotten + Lost(p) \in Nat
    BY DEF Lost, RateInv, RateTypes
  <2>5. ASSUME NEW k \in Buckets
        PROVE  AbsenceFits(ideal[k], admitted[k], forgotten + Lost(p), credited[k], granted[k])
    <3>1. /\ AccountFits(table.buckets, k, ideal[k], admitted[k], forgotten, credited[k], granted[k])
          /\ ideal[k] \in BucketType /\ admitted[k] \in Nat /\ credited[k] \in Nat /\ granted[k] \in Nat
          /\ forgotten \in Nat
      BY DEF RateInv, RateTypes, BudgetsKept
    <3>2. CASE k \in DOMAIN table.buckets
      <4>1. Lost(p) = 1
        <5>1. table.buckets # <<>>
          BY <3>2
        <5> QED
          BY <1>2, <5>1 DEF Lost
      <4>2. admitted[k] + table.buckets[k].tokens <= Budget(forgotten, credited[k], granted[k])
        BY <3>1, <3>2 DEF AccountFits, BucketFits
      <4>3. table.buckets[k].tokens \in Nat
        BY <3>2 DEF RateInv, RateTypes, TableType, BucketType
      <4>4. Capacity(ideal[k].policy) \in Nat /\ Capacity(ideal[k].policy) <= LargestCapacity /\ LargestCapacity \in Nat
        BY <3>1, PolicyBounds DEF BucketType
      <4>5. Budget(forgotten + 1, credited[k], granted[k]) = Budget(forgotten, credited[k], granted[k]) + LargestCapacity
        <5> DEFINE C == LargestCapacity
                   d == FastestRate * credited[k]
        <5>1. C * (1 + (forgotten + 1)) = C * (1 + forgotten) + C /\ C * (1 + forgotten) \in Nat
          BY <3>1, <4>4
        <5>2. d \in Nat
          BY <3>1, PolicyBounds
        <5> HIDE DEF C, d
        <5> QED
          BY <3>1, <4>4, <5>1, <5>2 DEF Budget, C, d
      <4>6. Budget(forgotten, credited[k], granted[k]) \in Nat
        BY <3>1, BudgetType
      <4> QED
        BY <3>1, <4>1, <4>2, <4>3, <4>4, <4>5, <4>6 DEF AbsenceFits
    <3>3. CASE k \notin DOMAIN table.buckets
      <4>1. AbsenceFits(ideal[k], admitted[k], forgotten, credited[k], granted[k])
        BY <3>1, <3>3 DEF AccountFits
      <4>2. CASE Lost(p) = 0
        BY <3>1, <4>1, <4>2
      <4>3. CASE Lost(p) = 1
        <5>1. LargestCapacity \in Nat /\ LargestCapacity * (1 + forgotten) \in Nat /\ FastestRate * credited[k] \in Nat
          BY <3>1, PolicyBounds
        <5>2. LargestCapacity * (1 + (forgotten + 1)) = LargestCapacity * (1 + forgotten) + LargestCapacity
          BY <3>1, <5>1
        <5>3. Capacity(ideal[k].policy) \in Nat
          BY <3>1, PolicyBounds DEF BucketType
        <5> QED
          BY <3>1, <4>1, <4>3, <5>1, <5>2, <5>3 DEF AbsenceFits, Budget
      <4> QED
        BY <4>2, <4>3 DEF Lost
    <3> QED
      BY <3>2, <3>3
  <2> QED
    BY <2>2, <2>3, <2>4, <2>5 DEF AccountFits
<1> QED
  BY <1>1, <1>2

\* The variables of the buckets and their history do not move.
RateRest == <<table, admitted, credited, granted, forgotten, ideal, unjust>>

LEMMA RateInvRest ==
    ASSUME RateInv, UNCHANGED RateRest, clock' \in Nat, latest' \in Nat, clock' <= latest', latest <= latest',
           policy' \in Policies, DOMAIN check' = Checks, \A t \in Checks : SampledType(check[t])'
    PROVE  RateInv'
<1>1. BudgetsKept' /\ unjust' = {}
  BY DEF RateInv, BudgetsKept, RateRest
<1>2. TableType(table)' /\ \A k \in Buckets : credited'[k] <= latest'
  BY DEF RateInv, RateTypes, TableType, RateRest
<1> QED
  BY <1>1, <1>2 DEF RateInv, RateTypes, RateRest

LEMMA RateInvStep ==
    ASSUME RateInv, [RateNext]_rateVars
    PROVE  RateInv'
<1>1. /\ DOMAIN check = Checks /\ clock \in Nat /\ latest \in Nat /\ clock <= latest /\ policy \in Policies
      /\ forgotten \in Nat /\ \A t \in Checks : SampledType(check[t])
  BY DEF RateInv, RateTypes
<1>2. Idle.pc # "sampled"
  BY DEF Idle
<1>3. ASSUME NEW t \in Checks, NEW k \in Buckets, Sample(t, k) PROVE RateInv'
  <2>1. PICK p : check' = [check EXCEPT ![t] =
                   [pc |-> "sampled", process |-> p, bucket |-> k, policy |-> policy, now |-> clock]]
    BY <1>3 DEF Sample
  <2>2. DOMAIN check' = Checks /\ \A u \in Checks : SampledType(check[u])'
    BY <1>1, <1>3, <2>1 DEF SampledType, Sample
  <2> QED
    BY <1>1, <1>3, <2>2, RateInvRest DEF Sample, RateRest
<1>4. ASSUME NEW t \in Checks, CheckLocal(t) PROVE RateInv'
  <2>1. TableType(table) /\ \A k \in Buckets :
          AccountFits(table.buckets, k, ideal[k], admitted[k], forgotten, credited[k], granted[k])
    BY DEF RateInv, RateTypes, BudgetsKept
  <2> QED
    BY <1>1, <1>4, <2>1, RateInvAccounted DEF CheckLocal
<1>5. ASSUME NEW t \in Checks, CheckShared(t) PROVE RateInv'
  <2> DEFINE p == check[t].process
  <2>1. /\ TableType(Opened(p)) /\ forgotten + Lost(p) \in Nat
        /\ \A k \in Buckets : AccountFits(Opened(p).buckets, k, ideal[k], admitted[k], forgotten + Lost(p),
                                           credited[k], granted[k])
    BY OpenedFits
  <2>2. /\ check[t].pc = "sampled" /\ table' = AfterCheck(t, Opened(p)) /\ forgotten' = forgotten + Lost(p)
        /\ Account(t, Opened(p), Allowed(t, Opened(p))) /\ check' = [check EXCEPT ![t] = Idle]
        /\ UNCHANGED <<clock, policy, latest>>
    BY <1>5 DEF CheckShared
  <2> HIDE DEF p
  <2> QED
    BY <2>1, <2>2, RateInvAccounted
<1>6. ASSUME NEW t \in Checks, CheckFails(t) PROVE RateInv'
  <2> DEFINE p == check[t].process
  <2>1. /\ TableType(Opened(p)) /\ forgotten + Lost(p) \in Nat
        /\ \A k \in Buckets : AccountFits(Opened(p).buckets, k, ideal[k], admitted[k], forgotten + Lost(p),
                                           credited[k], granted[k])
    BY OpenedFits
  <2>2. /\ table' = Opened(p) /\ forgotten' = forgotten + Lost(p) /\ check' = [check EXCEPT ![t] = Idle]
        /\ UNCHANGED <<clock, policy, latest, admitted, credited, granted, ideal, unjust>>
    BY <1>6 DEF CheckFails
  <2> HIDE DEF p
  <2>3. DOMAIN check' = Checks /\ \A u \in Checks : SampledType(check[u])'
    BY <1>1, <1>2, <2>2 DEF SampledType
  <2>4. BudgetsKept'
    BY <2>1, <2>2 DEF BudgetsKept
  <2>5. TableType(table)'
    BY <2>1, <2>2 DEF TableType
  <2> QED
    BY <1>1, <2>1, <2>2, <2>3, <2>4, <2>5 DEF RateInv, RateTypes
<1>7. ASSUME NEW t \in Checks, DieWritingDocument(t) PROVE RateInv'
  <2>1. DOMAIN check' = Checks /\ \A u \in Checks : check'[u] = Idle \/ check'[u] = check[u]
    BY <1>7 DEF DieWritingDocument
  <2>2. \A u \in Checks : SampledType(check[u])'
    BY <1>1, <1>2, <1>7, <2>1 DEF SampledType, DieWritingDocument
  <2> QED
    BY <1>1, <1>7, <2>1, <2>2, RateInvRest DEF DieWritingDocument, RateRest
<1>8. CASE Tick
  <2>1. /\ clock' \in Nat /\ latest' \in Nat /\ clock' <= latest' /\ latest <= latest'
    BY <1>1, <1>8 DEF Tick
  <2>2. \A u \in Checks : SampledType(check[u])'
    BY <1>1, <1>8, <2>1 DEF SampledType, Tick
  <2> QED
    BY <1>1, <1>8, <2>1, <2>2, RateInvRest DEF Tick, RateRest
<1>9. CASE StepBack
  <2>1. /\ clock' \in Nat /\ clock' <= latest
    BY <1>1, <1>9 DEF StepBack
  <2>2. \A u \in Checks : SampledType(check[u])'
    BY <1>1, <1>9 DEF SampledType, StepBack
  <2> QED
    BY <1>1, <1>9, <2>1, <2>2, RateInvRest DEF StepBack, RateRest
<1>10. CASE ChangePolicy
  <2>1. \A u \in Checks : SampledType(check[u])'
    BY <1>1, <1>10 DEF SampledType, ChangePolicy
  <2> QED
    BY <1>1, <1>10, <2>1, RateInvRest DEF ChangePolicy, RateRest
<1>11. CASE UNCHANGED rateVars
  <2>1. \A u \in Checks : SampledType(check[u])'
    BY <1>1, <1>11 DEF SampledType, rateVars
  <2> QED
    BY <1>1, <1>11, <2>1, RateInvRest DEF rateVars, RateRest
<1> QED
  BY <1>1, <1>3, <1>4, <1>5, <1>6, <1>7, <1>8, <1>9, <1>10, <1>11 DEF RateNext

\* The rate limiter, local or shared, is exact in every interleaving of its checks,
\* clock steps, deaths and reloads: it admits no client more often than burst and time
\* allow, and denies none that has tokens left (check_at, maybe_cleanup_buckets,
\* reconfigure, open_or_create_segment).
THEOREM LimitIsExact == RateSpec => []LimitExact
<1>1. RateInit => RateInv
  <2> SUFFICES ASSUME RateInit PROVE RateInv
    OBVIOUS
  <2>1. /\ policy \in Policies /\ Capacity(policy) \in Nat /\ Capacity(policy) <= LargestCapacity
        /\ LargestCapacity \in Nat /\ FastestRate \in Nat
    BY PolicyBounds DEF RateInit
  <2>2. \A k \in Buckets : ideal[k] = [policy |-> policy, tokens |-> Capacity(policy), lastRefill |-> 0]
    BY DEF RateInit
  <2>3. ideal \in [Buckets -> BucketType]
    BY <2>1 DEF RateInit, BucketType
  <2>4. DOMAIN table.buckets = {} /\ TableType(table)
    <3>1. PICK n \in Nat : table = [buckets |-> <<>>, nextCleanup |-> n]
      BY RateAssumption DEF RateInit, EmptyTable
    <3> QED
      BY <3>1 DEF TableType
  <2>5. LargestCapacity * (1 + 0) = LargestCapacity /\ FastestRate * 0 = 0
    BY <2>1
  <2>6. BudgetsKept
    BY <2>1, <2>2, <2>4, <2>5 DEF RateInit, BudgetsKept, AccountFits, AbsenceFits, Budget
  <2>7. \A t \in Checks : SampledType(check[t])
    BY DEF RateInit, SampledType, Idle
  <2>8. DOMAIN check = Checks
    BY DEF RateInit
  <2> QED
    BY <2>1, <2>3, <2>4, <2>6, <2>7, <2>8 DEF RateInv, RateTypes, RateInit
<1>2. RateInv /\ [RateNext]_rateVars => RateInv'
  BY RateInvStep
<1>3. RateInv => LimitExact
  <2> SUFFICES ASSUME RateInv, NEW k \in Buckets
               PROVE  admitted[k] <= LargestCapacity * (1 + forgotten) + FastestRate * latest + granted[k]
    BY DEF LimitExact, AdmittedWithinBudget, PoliteClientAdmitted, RateInv
  <2>1. /\ AccountFits(table.buckets, k, ideal[k], admitted[k], forgotten, credited[k], granted[k])
        /\ ideal[k] \in BucketType /\ admitted[k] \in Nat /\ credited[k] \in Nat /\ granted[k] \in Nat
        /\ forgotten \in Nat /\ latest \in Nat /\ credited[k] <= latest
    BY DEF RateInv, RateTypes, BudgetsKept
  <2>2. \A q \in DOMAIN table.buckets : table.buckets[q].tokens \in Nat
    BY DEF RateInv, RateTypes, TableType, BucketType
  <2>3. Capacity(ideal[k].policy) \in Nat /\ Budget(forgotten, credited[k], granted[k]) \in Nat
    BY <2>1, PolicyBounds, BudgetType DEF BucketType
  <2>4. admitted[k] <= Budget(forgotten, credited[k], granted[k])
    BY <2>1, <2>2, <2>3 DEF AccountFits, BucketFits, AbsenceFits
  <2>5. FastestRate * credited[k] <= FastestRate * latest /\ FastestRate * latest \in Nat /\ FastestRate * credited[k] \in Nat
    <3>1. credited[k] * FastestRate <= latest * FastestRate /\ latest * FastestRate \in Nat /\ credited[k] * FastestRate \in Nat
      BY <2>1, PolicyBounds, TimesMonotone
    <3>2. FastestRate * credited[k] = credited[k] * FastestRate /\ FastestRate * latest = latest * FastestRate
      BY <2>1, PolicyBounds
    <3> QED
      BY <3>1, <3>2
  <2>6. LargestCapacity * (1 + forgotten) \in Nat
    BY <2>1, PolicyBounds
  <2> QED
    BY <2>1, <2>4, <2>5, <2>6 DEF Budget
<1> QED
  BY <1>1, <1>2, <1>3, PTL DEF RateSpec

-----------------------------------------------------------------------------
(* Dispatch: the client's address.                                         *)

\* The largest element of a set of positions.
LEMMA LastPosition ==
    ASSUME NEW n \in Nat, NEW I \in SUBSET (1 .. n), I # {}
    PROVE  \E i \in I : \A j \in I : j <= i
<1> DEFINE J == {n - i : i \in I}
<1>1. J \in SUBSET Nat /\ J # {}
  <2>1. \A i \in I : n - i \in Nat
    OBVIOUS
  <2>2. PICK i : i \in I
    OBVIOUS
  <2>3. n - i \in J
    BY <2>2
  <2> QED
    BY <2>1, <2>3
<1>2. PICK x \in J : \A y \in J : x <= y
  BY <1>1, LeastNatural, Zenon
<1>3. PICK i \in I : x = n - i
  OBVIOUS
<1>4. ASSUME NEW j \in I PROVE j <= i
  <2>1. n - j \in J
    OBVIOUS
  <2> QED
    BY <1>2, <1>3, <2>1
<1> QED
  BY <1>4

\* What resolve_client_address says of the address it believes.
Vouched(a, server, q) ==
    LET trusted == server.trusted
        near == ImmediatePeer(q)
        chain == a.source = "x_forwarded_for"
    IN  /\ q.peer \notin trusted => a.source = "socket_peer" /\ a.ip = q.peer
        /\ a.source = "socket_peer" => a.ip \in {q.peer, near}
        /\ a.source = "client_ip_header" => server.ipHeader
        /\ chain /\ near \in trusted => Reported(a.ip, Append(q.forwarded, near), trusted)
        /\ chain /\ near \notin trusted =>
             \/ Reported(a.ip, q.forwarded, trusted)
             \/ a.ip = near /\ Range(q.forwarded) \subseteq trusted

\* Everything to the right of the hop that is believed is trusted.
LEMMA SelectClientVouched ==
    ASSUME NEW hops \in Seq(Int), hops # <<>>, NEW immediate, NEW trusted
    PROVE  \/ Reported(SelectClient(hops, immediate, trusted), hops, trusted)
           \/ /\ SelectClient(hops, immediate, trusted) = immediate /\ immediate \notin trusted
              /\ Range(hops) \subseteq trusted
<1> USE DEF Reported
<1> DEFINE untrusted == {i \in DOMAIN hops : hops[i] \notin trusted}
<1>1. Len(hops) \in Nat /\ DOMAIN hops = 1 .. Len(hops) /\ 1 \in DOMAIN hops
  OBVIOUS
<1>2. CASE untrusted # {}
  <2>1. \E i \in untrusted : \A j \in untrusted : j <= i
    BY <1>1, <1>2, LastPosition
  <2> DEFINE last == CHOOSE i \in untrusted : \A j \in untrusted : j <= i
  <2>2. last \in untrusted /\ \A j \in untrusted : j <= last
    BY <2>1
  <2>3. SelectClient(hops, immediate, trusted) = hops[last]
    BY <1>2 DEF SelectClient
  <2> HIDE DEF last
  <2>4. \A j \in (last + 1) .. Len(hops) : hops[j] \in trusted
    BY <1>1, <2>2
  <2> QED
    BY <2>2, <2>3, <2>4
<1>3. CASE untrusted = {}
  <2>1. \A j \in DOMAIN hops : hops[j] \in trusted
    BY <1>3
  <2>2. Range(hops) \subseteq trusted
    BY <2>1 DEF Range
  <2>3. SelectClient(hops, immediate, trusted) = IF immediate \notin trusted THEN immediate ELSE hops[1]
    BY <1>3 DEF SelectClient
  <2>4. \A j \in (1 + 1) .. Len(hops) : hops[j] \in trusted
    BY <1>1, <2>1
  <2> QED
    BY <1>1, <2>2, <2>3, <2>4
<1> QED
  BY <1>2, <1>3

\* What is reported by a chain is reported by it and a trusted hop.
LEMMA ReportedOn ==
    ASSUME NEW hops \in Seq(Int), NEW ip, NEW trusted, NEW near \in trusted, Reported(ip, hops, trusted)
    PROVE  Reported(ip, Append(hops, near), trusted)
<1> DEFINE n == Len(hops)
           more == Append(hops, near)
<1>1. n \in Nat /\ DOMAIN hops = 1 .. n /\ DOMAIN more = 1 .. n + 1 /\ Len(more) = n + 1
      /\ more[n + 1] = near /\ \A i \in 1 .. n : more[i] = hops[i]
  OBVIOUS
<1>2. PICK i \in DOMAIN hops : ip = hops[i] /\ \A j \in (i + 1) .. Len(hops) : hops[j] \in trusted
  BY Zenon DEF Reported
<1> HIDE DEF more
<1>3. \A j \in (i + 1) .. Len(more) : more[j] \in trusted
  BY <1>1, <1>2
<1>4. i \in DOMAIN more /\ ip = more[i]
  BY <1>1, <1>2
<1> QED
  BY <1>3, <1>4, Zenon DEF Reported, more

\* resolve_client_address believes only what is vouched for.
LEMMA AddressIsVouched ==
    ASSUME NEW server, NEW q, IsRequest(q)
    PROVE  Vouched(ClientAddress(server, q, q), server, q)
<1> DEFINE immediate == ImmediatePeer(q)
           header == IF server.ipHeader THEN HeaderAddress(q.ipHeader) ELSE {}
           chain == ForwardedChain(q.forwarded)
           a == ClientAddress(server, q, q)
<1>2. CASE q.peer \notin server.trusted
  BY <1>2 DEF ClientAddress, Vouched
<1>3. CASE q.peer \in server.trusted /\ header # {}
  <2>1. a.source = "client_ip_header" /\ server.ipHeader
    BY <1>3 DEF ClientAddress
  <2> QED
    BY <1>3, <2>1 DEF Vouched
<1>4. CASE q.peer \in server.trusted /\ header = {} /\ chain = {}
  <2>1. a.source = "socket_peer" /\ a.ip = immediate
    BY <1>4 DEF ClientAddress
  <2> QED
    BY <1>4, <2>1 DEF Vouched
<1>5. CASE q.peer \in server.trusted /\ header = {} /\ chain # {}
  <2>1. chain = {q.forwarded} /\ q.forwarded # <<>> /\ q.forwarded \in Seq(Int)
    BY <1>5 DEF ForwardedChain, IsRequest
  <2>2. a.source = "x_forwarded_for" /\ a.ip = SelectClient(q.forwarded, immediate, server.trusted)
    BY <1>5, <2>1 DEF ClientAddress
  <2> HIDE DEF immediate, a, chain, header
  <2>3. \/ Reported(a.ip, q.forwarded, server.trusted)
        \/ a.ip = immediate /\ immediate \notin server.trusted /\ Range(q.forwarded) \subseteq server.trusted
    BY <2>1, <2>2, SelectClientVouched
  <2>4. immediate \in server.trusted => Reported(a.ip, Append(q.forwarded, immediate), server.trusted)
    BY <2>1, <2>3, ReportedOn
  <2>5. a.source # "socket_peer" /\ a.source # "client_ip_header"
    BY <2>2
  <2> QED
    BY <1>5, <2>2, <2>3, <2>4, <2>5, Zenon DEF Vouched, a, immediate
<1> QED
  BY <1>2, <1>3, <1>4, <1>5

-----------------------------------------------------------------------------
(* Dispatch: the choice of the route.                                      *)

\* The order select_more_specific compares candidates by.
Beats(routes, i, j) ==
    LET a == Candidate(routes, i)
        b == Candidate(routes, j)
    IN  \/ a.length > b.length
        \/ /\ a.length = b.length
           /\ \/ a.preferred /\ ~b.preferred
              \/ /\ a.preferred = b.preferred
                 /\ a.rank > b.rank \/ (a.rank = b.rank /\ i < j)

\* The routes of some kinds of matcher that match, among the first n.
HitsUpTo(routes, context, kinds, n) ==
    {i \in 1 .. n : routes[i].matcher.kind \in kinds /\ RouteMatches(routes[i], context)}

PathKinds == {"exact", "prefix", "preferred"}

\* What the types say of a route.
LEMMA RouteFacts ==
    ASSUME NEW routes, IsRoutes(routes)
    PROVE  /\ Len(routes) \in Nat /\ DOMAIN routes = 1 .. Len(routes)
           /\ \A i \in 1 .. Len(routes) : IsRoute(routes[i])
<1>1. routes \in Seq(Range(routes))
  BY DEF IsRoutes, IsSequence
<1>2. DOMAIN routes = 1 .. Len(routes) /\ Len(routes) \in Nat
  BY <1>1
<1>3. \A i \in DOMAIN routes : routes[i] \in Range(routes)
  BY DEF Range
<1> QED
  BY <1>2, <1>3 DEF IsRoutes

\* What gRPC asks for in a route is counted by a natural number.
LEMMA GrpcRankType ==
    ASSUME NEW r, IsRoute(r), r.grpc # {}
    PROVE  GrpcRank(CHOOSE g \in r.grpc : TRUE) \in Nat
<1> DEFINE g == CHOOSE g \in r.grpc : TRUE
           F == {f \in DOMAIN g : g[f] # "any"}
<1>1. g \in [service : STRING, method : STRING]
  <2>1. g \in r.grpc
    OBVIOUS
  <2> QED
    BY <2>1 DEF IsRoute
<1>2. F \subseteq {"service", "method"}
  BY <1>1
<1> HIDE DEF g
<1>3. IsFiniteSet({"service", "method"})
  <2>1. IsFiniteSet({"service"}) /\ IsFiniteSet({"method"})
    BY FS_Singleton
  <2>2. {"service", "method"} = {"service"} \cup {"method"}
    OBVIOUS
  <2> QED
    BY <2>1, <2>2, FS_Union
<1>4. Cardinality(F) \in Nat
  BY <1>2, <1>3, FS_Subset, FS_CardinalityType
<1> QED
  BY <1>4 DEF GrpcRank, g

\* A candidate compares by numbers.
LEMMA CandidateType ==
    ASSUME NEW routes, NEW i, IsRoute(routes[i]), routes[i].matcher.kind \in PathKinds
    PROVE  Candidate(routes, i).length \in Int /\ Candidate(routes, i).rank \in Nat
           /\ Candidate(routes, i).preferred \in BOOLEAN /\ Candidate(routes, i).index = i
<1>1. routes[i].matcher.path \in PathType
  BY DEF IsRoute, PathKinds
<1>2. TextLength(routes[i].matcher.path) \in Int
  <2> DEFINE p == routes[i].matcher.path
  <2>1. p.segs \in Seq(STRING)
    BY <1>1 DEF PathType
  <2> HIDE DEF p
  <2>2. Len(p.segs) \in Nat
    BY <2>1
  <2> QED
    BY <2>2 DEF TextLength, p
<1>3. (IF routes[i].grpc = {} THEN 0 ELSE GrpcRank(CHOOSE g \in routes[i].grpc : TRUE)) \in Nat
  BY GrpcRankType
<1> QED
  BY <1>2, <1>3 DEF Candidate

\* The comparison of select_more_specific, with the later route.
LEMMA MoreSpecificIs ==
    ASSUME NEW routes, NEW i \in Nat, NEW n \in Nat, i < n, IsRoute(routes[i]), IsRoute(routes[n]),
           routes[i].matcher.kind \in PathKinds, routes[n].matcher.kind \in PathKinds
    PROVE  /\ Beats(routes, n, i) => MoreSpecific({Candidate(routes, i)}, Candidate(routes, n)) = {Candidate(routes, n)}
           /\ ~Beats(routes, n, i) =>
                /\ MoreSpecific({Candidate(routes, i)}, Candidate(routes, n)) = {Candidate(routes, i)}
                /\ Beats(routes, i, n)
<1> DEFINE a == Candidate(routes, n)
           b == Candidate(routes, i)
<1>1. a.length \in Int /\ a.rank \in Nat /\ a.preferred \in BOOLEAN /\ a.index = n
  BY CandidateType
<1>2. b.length \in Int /\ b.rank \in Nat /\ b.preferred \in BOOLEAN /\ b.index = i
  BY CandidateType
<1>3. (CHOOSE x \in {b} : TRUE) = b /\ {b} # {}
  OBVIOUS
<1>4. MoreSpecific({b}, a) =
        IF a.length # b.length THEN (IF a.length > b.length THEN {a} ELSE {b})
        ELSE IF a.preferred # b.preferred THEN (IF a.preferred THEN {a} ELSE {b})
        ELSE IF a.rank # b.rank THEN (IF a.rank > b.rank THEN {a} ELSE {b})
        ELSE IF a.index < b.index THEN {a} ELSE {b}
  <2> HIDE DEF a, b
  <2> QED
    BY <1>3 DEF MoreSpecific
<1>5. Beats(routes, n, i) <=>
        \/ a.length > b.length
        \/ /\ a.length = b.length
           /\ \/ a.preferred /\ ~b.preferred
              \/ a.preferred = b.preferred /\ (a.rank > b.rank \/ (a.rank = b.rank /\ n < i))
  BY DEF Beats
<1>6. Beats(routes, i, n) <=>
        \/ b.length > a.length
        \/ /\ b.length = a.length
           /\ \/ b.preferred /\ ~a.preferred
              \/ a.preferred = b.preferred /\ (b.rank > a.rank \/ (a.rank = b.rank /\ i < n))
  BY DEF Beats
<1> HIDE DEF a, b
<1>7. Beats(routes, n, i) => MoreSpecific({b}, a) = {a}
  BY <1>1, <1>2, <1>4, <1>5
<1>8. ~Beats(routes, n, i) => MoreSpecific({b}, a) = {b} /\ Beats(routes, i, n)
  BY <1>1, <1>2, <1>4, <1>5, <1>6
<1> QED
  BY <1>7, <1>8 DEF a, b

\* Candidates are strictly ordered.
LEMMA BeatsOrders ==
    ASSUME NEW routes, NEW I \in SUBSET Nat,
           \A i \in I : IsRoute(routes[i]) /\ routes[i].matcher.kind \in PathKinds
    PROVE  /\ \A i, j, k \in I : Beats(routes, i, j) /\ Beats(routes, j, k) => Beats(routes, i, k)
           /\ \A i, j \in I : Beats(routes, i, j) => ~Beats(routes, j, i)
<1> DEFINE c(i) == Candidate(routes, i)
<1>1. \A i \in I : c(i).length \in Int /\ c(i).rank \in Nat /\ c(i).preferred \in BOOLEAN /\ i \in Nat
  BY CandidateType
<1>2. \A i, j \in I : Beats(routes, i, j) <=>
        \/ c(i).length > c(j).length
        \/ /\ c(i).length = c(j).length
           /\ \/ c(i).preferred /\ ~c(j).preferred
              \/ c(i).preferred = c(j).preferred /\ (c(i).rank > c(j).rank \/ (c(i).rank = c(j).rank /\ i < j))
  BY DEF Beats
<1> HIDE DEF c
<1>3. ASSUME NEW i \in I, NEW j \in I, NEW k \in I, Beats(routes, i, j), Beats(routes, j, k)
      PROVE  Beats(routes, i, k)
  BY <1>1, <1>2, <1>3
<1>4. ASSUME NEW i \in I, NEW j \in I, Beats(routes, i, j) PROVE ~Beats(routes, j, i)
  BY <1>1, <1>2, <1>4
<1> QED
  BY <1>3, <1>4

\* best is the only candidate of the hits, or there is none.
IsBest(routes, hits, best) ==
    \/ hits = {} /\ best = {}
    \/ \E i \in hits : best = {Candidate(routes, i)} /\ \A j \in hits \ {i} : Beats(routes, i, j)

\* One turn of the loop.
LEMMA ConsiderRoute ==
    ASSUME NEW routes, IsRoutes(routes), NEW context, NEW kinds \in SUBSET PathKinds,
           NEW n \in 1 .. Len(routes), NEW best, IsBest(routes, HitsUpTo(routes, context, kinds, n - 1), best)
    PROVE  IsBest(routes, HitsUpTo(routes, context, kinds, n),
                  IF routes[n].matcher.kind \in kinds /\ RouteMatches(routes[n], context)
                  THEN MoreSpecific(best, Candidate(routes, n)) ELSE best)
<1> DEFINE hit(i) == routes[i].matcher.kind \in kinds /\ RouteMatches(routes[i], context)
           old == HitsUpTo(routes, context, kinds, n - 1)
           new == HitsUpTo(routes, context, kinds, n)
<1>1. Len(routes) \in Nat /\ \A i \in 1 .. Len(routes) : IsRoute(routes[i])
  BY RouteFacts
<1>2. old \subseteq 1 .. n - 1 /\ \A i \in old : i \in 1 .. Len(routes) /\ routes[i].matcher.kind \in kinds
  BY <1>1 DEF HitsUpTo
<1>3. n \in Nat /\ n \notin old /\ (n - 1) + 1 = n
  BY <1>1, <1>2
<1>4. CASE ~hit(n)
  <2>1. new = old
    BY <1>1, <1>4 DEF HitsUpTo
  <2> QED
    BY <1>4, <2>1
<1>5. CASE hit(n)
  <2>1. new = old \cup {n}
    BY <1>1, <1>5 DEF HitsUpTo
  <2>2. \A i \in new : IsRoute(routes[i]) /\ routes[i].matcher.kind \in PathKinds /\ i \in Nat
    BY <1>1, <1>2, <1>5, <2>1
  <2> HIDE DEF old, new, hit
  <2>3. CASE old = {} /\ best = {}
    <3>1. MoreSpecific(best, Candidate(routes, n)) = {Candidate(routes, n)}
      BY <2>3 DEF MoreSpecific
    <3>2. new = {n}
      BY <2>1, <2>3
    <3>3. IsBest(routes, new, MoreSpecific(best, Candidate(routes, n)))
      BY <3>1, <3>2, Zenon DEF IsBest
    <3> QED
      BY <1>5, <3>3 DEF hit, new
  <2>4. ASSUME NEW i \in old, best = {Candidate(routes, i)}, \A j \in old \ {i} : Beats(routes, i, j)
        PROVE  IsBest(routes, new, MoreSpecific(best, Candidate(routes, n)))
    <3>1. i \in Nat /\ i < n /\ i \in new /\ n \in new
      BY <1>2, <1>3, <2>1, <2>4
    <3>2. /\ Beats(routes, n, i) => MoreSpecific(best, Candidate(routes, n)) = {Candidate(routes, n)}
          /\ ~Beats(routes, n, i) =>
                MoreSpecific(best, Candidate(routes, n)) = {Candidate(routes, i)} /\ Beats(routes, i, n)
      <4>1. IsRoute(routes[i]) /\ IsRoute(routes[n]) /\ routes[i].matcher.kind \in PathKinds
            /\ routes[n].matcher.kind \in PathKinds
        BY <2>2, <3>1
      <4>2. /\ Beats(routes, n, i) => MoreSpecific({Candidate(routes, i)}, Candidate(routes, n)) = {Candidate(routes, n)}
            /\ ~Beats(routes, n, i) =>
                 /\ MoreSpecific({Candidate(routes, i)}, Candidate(routes, n)) = {Candidate(routes, i)}
                 /\ Beats(routes, i, n)
        BY <1>3, <3>1, <4>1, MoreSpecificIs, Zenon
      <4> QED
        BY <2>4, <4>2, Zenon
    <3>3. \A x, y, z \in new : Beats(routes, x, y) /\ Beats(routes, y, z) => Beats(routes, x, z)
      <4>1. new \in SUBSET Nat
        BY <2>2
      <4> QED
        BY <2>2, <4>1, BeatsOrders
    <3>4. CASE Beats(routes, n, i)
      <4>1. \A j \in new \ {n} : Beats(routes, n, j)
        BY <2>1, <2>4, <3>1, <3>3, <3>4, Zenon
      <4> QED
        BY <3>1, <3>2, <3>4, <4>1, Zenon DEF IsBest
    <3>5. CASE ~Beats(routes, n, i)
      <4>1. \A j \in new \ {i} : Beats(routes, i, j)
        BY <2>1, <2>4, <3>2, <3>5
      <4> QED
        BY <3>1, <3>2, <3>5, <4>1, Zenon DEF IsBest
    <3> QED
      BY <3>4, <3>5
  <2> QED
    BY <1>5, <2>3, <2>4 DEF IsBest, hit, old, new
<1> QED
  BY <1>4, <1>5

\* The loop over the routes of select_route_with_context.
LEMMA BestCandidateIs ==
    ASSUME NEW routes, IsRoutes(routes), NEW context, NEW kinds \in SUBSET PathKinds
    PROVE  IsBest(routes, HitsUpTo(routes, context, kinds, Len(routes)), BestCandidate(routes, context, kinds))
<1> DEFINE m == Len(routes)
           T == SUBSET {Candidate(routes, i) : i \in 1 .. m}
           turn(b, n) == IF routes[n].matcher.kind \in kinds /\ RouteMatches(routes[n], context)
                         THEN MoreSpecific(b, Candidate(routes, n)) ELSE b
           step == [x \in T \X (1 .. m) |-> turn(x[1], x[2])]
           Equation(f) == f = [n \in 0 .. Len(routes) |->
                                 IF n = 0 THEN {}
                                 ELSE IF routes[n].matcher.kind \in kinds /\ RouteMatches(routes[n], context)
                                 THEN MoreSpecific(f[n - 1], Candidate(routes, n)) ELSE f[n - 1]]
<1>1. m \in Nat /\ {} \in T
  BY RouteFacts
<1>2. ASSUME NEW b \in T, NEW n \in 1 .. m PROVE turn(b, n) \in T
  <2>1. MoreSpecific(b, Candidate(routes, n)) \in {b, {Candidate(routes, n)}}
    BY DEF MoreSpecific
  <2>2. {Candidate(routes, n)} \in T
    OBVIOUS
  <2> QED
    BY <2>1, <2>2
<1> HIDE DEF T, turn
<1>3. step \in [T \X (1 .. m) -> T]
  BY <1>2
<1>4. \A b \in T, n \in 1 .. m : step[<<b, n>>] = turn(b, n)
  OBVIOUS
<1> HIDE DEF step
<1>5. PICK f : Iterates(f, T, {}, m, step)
  <2> HIDE DEF m
  <2> QED
    BY <1>1, <1>3, IterationExists, Zenon
<1>6. f \in [0 .. m -> T] /\ f[0] = {}
  BY <1>5 DEF Iterates
<1>7. ASSUME NEW n \in 1 .. m PROVE f[n] = turn(f[n - 1], n)
  <2>1. f[n] = step[<<f[n - 1], n>>]
    BY <1>5 DEF Iterates
  <2>2. f[n - 1] \in T
    BY <1>1, <1>6
  <2> QED
    BY <1>4, <2>1, <2>2
<1>8. Equation(f)
  BY <1>1, <1>6, <1>7 DEF turn
<1> DEFINE g == CHOOSE g : Equation(g)
<1>9. BestCandidate(routes, context, kinds) = g[m]
  BY Zenon DEF BestCandidate
<1>10. Equation(g)
  <2> HIDE DEF Equation
  <2> QED
    BY <1>8, Zenon
<1> HIDE DEF g
<1>11. g[0] = {} /\ \A n \in 1 .. m : g[n] = turn(g[n - 1], n)
  <2>1. g = [n \in 0 .. m |-> IF n = 0 THEN {} ELSE turn(g[n - 1], n)]
    BY <1>10 DEF turn
  <2>2. \A n \in 0 .. m : g[n] = IF n = 0 THEN {} ELSE turn(g[n - 1], n)
    <3> HIDE DEF Equation
    <3> QED
      BY <2>1
  <2> QED
    BY <1>1, <2>2
<1> DEFINE S == {n \in Nat : IsBest(routes, HitsUpTo(routes, context, kinds, n), g[n])}
<1>12. 0 \in S
  <2>1. HitsUpTo(routes, context, kinds, 0) = {}
    BY DEF HitsUpTo
  <2> QED
    BY <1>11, <2>1 DEF IsBest
<1>13. ASSUME NEW n \in Nat, n < m, n \in S PROVE n + 1 \in S
  <2>1. n + 1 \in 1 .. m /\ (n + 1) - 1 = n
    BY <1>1, <1>13
  <2>2. IsBest(routes, HitsUpTo(routes, context, kinds, (n + 1) - 1), g[n])
    BY <1>13, <2>1
  <2> DEFINE k == n + 1
  <2> HIDE DEF k, m
  <2>3. IsBest(routes, HitsUpTo(routes, context, kinds, k), turn(g[n], k))
    <3>1. k \in 1 .. Len(routes)
      BY <2>1 DEF k, m
    <3>2. IsBest(routes, HitsUpTo(routes, context, kinds, k - 1), g[n])
      BY <2>2 DEF k
    <3> QED
      BY <3>1, <3>2, ConsiderRoute, Zenon DEF turn
  <2>4. g[k] = turn(g[n], k)
    BY <1>11, <2>1 DEF k
  <2> QED
    BY <2>3, <2>4 DEF k
<1>14. \A n \in 0 .. m : n \in S
  <2> HIDE DEF S, m
  <2> QED
    BY <1>1, <1>12, <1>13, BoundedInduction
<1> QED
  BY <1>1, <1>9, <1>14

\* Who outranks whom, class by class.
LEMMA OutranksByClass ==
    ASSUME NEW routes, NEW i \in Nat, NEW j \in Nat, IsRoute(routes[i]), IsRoute(routes[j])
    PROVE  LET ki == routes[i].matcher.kind
               kj == routes[j].matcher.kind
           IN  /\ ki = "exact" /\ kj # "exact" => Outranks(routes, i, j) /\ ~Outranks(routes, j, i)
               /\ ki = "regex" /\ kj = "regex" => (Outranks(routes, i, j) <=> i < j)
               /\ ki = "regex" /\ kj = "prefix" => Outranks(routes, i, j) /\ ~Outranks(routes, j, i)
               /\ ki = "preferred" /\ kj = "regex" => Outranks(routes, i, j) /\ ~Outranks(routes, j, i)
<1> DEFINE ki == routes[i].matcher.kind
           kj == routes[j].matcher.kind
<1>1. ki \in {"exact", "prefix", "preferred", "regex"} /\ kj \in {"exact", "prefix", "preferred", "regex"}
  BY DEF IsRoute
<1>2. ki = "exact" /\ kj # "exact" => Outranks(routes, i, j) /\ ~Outranks(routes, j, i)
  BY <1>1 DEF Outranks
<1>3. ki = "regex" /\ kj = "regex" => (Outranks(routes, i, j) <=> i < j)
  BY <1>1 DEF Outranks
<1>4. ki = "regex" /\ kj = "prefix" => Outranks(routes, i, j) /\ ~Outranks(routes, j, i)
  BY <1>1 DEF Outranks
<1>5. ki = "preferred" /\ kj = "regex" => Outranks(routes, i, j) /\ ~Outranks(routes, j, i)
  BY <1>1 DEF Outranks
<1> QED
  BY <1>2, <1>3, <1>4, <1>5

\* Among prefixes, to outrank is to beat.
LEMMA PrefixOutranks ==
    ASSUME NEW routes, NEW i \in Nat, NEW j \in Nat, IsRoute(routes[i]), IsRoute(routes[j]),
           routes[i].matcher.kind \in {"prefix", "preferred"}, routes[j].matcher.kind \in {"prefix", "preferred"}
    PROVE  Outranks(routes, i, j) <=> Beats(routes, i, j)
<1> DEFINE a == Candidate(routes, i)
           b == Candidate(routes, j)
           pi == routes[i].matcher.path
           pj == routes[j].matcher.path
           ki == routes[i].matcher.kind
           kj == routes[j].matcher.kind
           grpc == a.rank > b.rank \/ (a.rank = b.rank /\ i < j)
<1>1. a.length = TextLength(pi) /\ b.length = TextLength(pj)
      /\ a.preferred = (ki = "preferred") /\ b.preferred = (kj = "preferred")
  BY DEF Candidate
<1>2. a.length \in Int /\ b.length \in Int
  BY CandidateType DEF PathKinds
<1>3. Outranks(routes, i, j) <=>
        \/ TextLength(pi) > TextLength(pj)
        \/ TextLength(pi) = TextLength(pj) /\ (IF ki = kj THEN grpc ELSE ki = "preferred")
  <2> HIDE DEF a, b
  <2> QED
    BY DEF Outranks, a, b
<1>4. Beats(routes, i, j) <=>
        \/ a.length > b.length
        \/ /\ a.length = b.length
           /\ (a.preferred /\ ~b.preferred) \/ (a.preferred = b.preferred /\ grpc)
  BY DEF Beats
<1> HIDE DEF a, b, pi, pj, grpc
<1> QED
  BY <1>1, <1>2, <1>3, <1>4

\* Among exact matches of one path too.
LEMMA ExactOutranks ==
    ASSUME NEW routes, NEW i \in Nat, NEW j \in Nat, IsRoute(routes[i]), IsRoute(routes[j]),
           routes[i].matcher.kind = "exact", routes[j].matcher.kind = "exact",
           NEW context, RouteMatches(routes[i], context), RouteMatches(routes[j], context)
    PROVE  Outranks(routes, i, j) <=> Beats(routes, i, j)
<1> DEFINE a == Candidate(routes, i)
           b == Candidate(routes, j)
           grpc == a.rank > b.rank \/ (a.rank = b.rank /\ i < j)
<1>1. routes[i].matcher.path = context.path /\ routes[j].matcher.path = context.path
  BY DEF RouteMatches, MatcherMatches
<1>2. a.length = b.length /\ a.preferred = b.preferred
  BY <1>1 DEF Candidate
<1>3. a.length \in Int /\ b.length \in Int /\ a.preferred \in BOOLEAN
  BY CandidateType DEF PathKinds
<1>4. Outranks(routes, i, j) <=> grpc
  <2> HIDE DEF a, b
  <2> QED
    BY DEF Outranks, a, b
<1>5. Beats(routes, i, j) <=>
        \/ a.length > b.length
        \/ /\ a.length = b.length
           /\ (a.preferred /\ ~b.preferred) \/ (a.preferred = b.preferred /\ grpc)
  BY DEF Beats
<1> HIDE DEF a, b, grpc
<1> QED
  BY <1>2, <1>3, <1>4, <1>5

\* The first regex that matches.
LEMMA FirstRegexIs ==
    ASSUME NEW routes, IsRoutes(routes), NEW context, NEW X,
           X = {i \in DOMAIN routes : routes[i].matcher.kind = "regex" /\ RouteMatches(routes[i], context)}
    PROVE  /\ FirstRegex(routes, context) = {i \in X : \A j \in X \ {i} : i < j}
           /\ X # {} => FirstRegex(routes, context) # {}
<1>1. X \in SUBSET Nat
  BY RouteFacts
<1>2. FirstRegex(routes, context) = {i \in X : \A j \in X : i <= j}
  BY DEF FirstRegex
<1>3. X # {} => \E i \in X : \A j \in X : i <= j
  BY <1>1, LeastNatural
<1>4. \A i \in X : (\A j \in X : i <= j) <=> (\A j \in X \ {i} : i < j)
  BY <1>1
<1> QED
  BY <1>2, <1>3, <1>4

\* select_route_with_context selects the most specific route.
LEMMA RouteSelection ==
    ASSUME NEW routes, IsRoutes(routes), NEW context
    PROVE  SelectRoute(routes, context) = MostSpecific(routes, context)
<1> DEFINE m == Len(routes)
           hits == {i \in DOMAIN routes : RouteMatches(routes[i], context)}
           kind(i) == routes[i].matcher.kind
           E == HitsUpTo(routes, context, {"exact"}, m)
           P == HitsUpTo(routes, context, {"prefix", "preferred"}, m)
           X == {i \in DOMAIN routes : routes[i].matcher.kind = "regex" /\ RouteMatches(routes[i], context)}
           exact == BestCandidate(routes, context, {"exact"})
           prefix == BestCandidate(routes, context, {"prefix", "preferred"})
           first == FirstRegex(routes, context)
           hidden == {i \in P : \E j \in P : i # j /\ Outranks(routes, j, i)}
           shown == hits \ hidden
           Over(i, j) == Outranks(routes, i, j)
           top == {i \in shown : \A j \in shown \ {i} : Over(i, j)}
           indices(candidates) == {c.index : c \in candidates}
<1>1. DOMAIN routes = 1 .. m /\ m \in Nat /\ \A i \in 1 .. m : IsRoute(routes[i])
  BY RouteFacts
<1>2. hits = E \cup P \cup X /\ hits \subseteq Nat /\ \A i \in hits : IsRoute(routes[i])
  <2>1. \A i \in 1 .. m : kind(i) \in {"exact", "prefix", "preferred", "regex"}
    BY <1>1 DEF IsRoute
  <2> QED
    BY <1>1, <2>1 DEF HitsUpTo
<1>3. /\ \A i \in E : kind(i) = "exact" /\ RouteMatches(routes[i], context)
      /\ \A i \in P : kind(i) \in {"prefix", "preferred"}
      /\ \A i \in X : kind(i) = "regex"
  BY DEF HitsUpTo
<1>4. MostSpecific(routes, context) = top
  <2>1. {i \in hits : routes[i].matcher.kind \in {"prefix", "preferred"}} = P
    BY <1>1 DEF HitsUpTo
  <2> HIDE DEF P
  <2> QED
    BY <2>1 DEF MostSpecific
<1>5. SelectRoute(routes, context) =
        IF exact # {} THEN indices(exact)
        ELSE IF \E c \in prefix : c.preferred THEN indices(prefix)
        ELSE IF first # {} THEN first ELSE indices(prefix)
  BY DEF SelectRoute
<1>6. IsBest(routes, E, exact) /\ IsBest(routes, P, prefix)
  <2>1. {"exact"} \in SUBSET PathKinds /\ {"prefix", "preferred"} \in SUBSET PathKinds
    BY DEF PathKinds
  <2> QED
    BY <2>1, BestCandidateIs
<1>7. first = {i \in X : \A j \in X \ {i} : i < j} /\ (X # {} => first # {})
  <2> DEFINE Y == X
  <2>1. Y = X
    OBVIOUS
  <2> QED
    BY <2>1, FirstRegexIs, Zenon
<1>8. /\ \A i \in E, j \in P \cup X : Over(i, j) /\ ~Over(j, i)
      /\ \A i \in X, j \in X : Over(i, j) <=> i < j
      /\ \A i \in X, j \in P : kind(j) = "prefix" => Over(i, j) /\ ~Over(j, i)
      /\ \A i \in X, j \in P : kind(j) = "preferred" => Over(j, i) /\ ~Over(i, j)
  <2> HIDE DEF E, P, X, hits
  <2>1. \A i \in hits : i \in Nat /\ IsRoute(routes[i])
    BY <1>2
  <2>2. ASSUME NEW i \in E, NEW j \in P \cup X PROVE Over(i, j) /\ ~Over(j, i)
    <3>1. i \in hits /\ j \in hits /\ kind(i) = "exact" /\ kind(j) # "exact"
      BY <1>2, <1>3
    <3> QED
      BY <2>1, <3>1, OutranksByClass
  <2>3. ASSUME NEW i \in X, NEW j \in X PROVE Over(i, j) <=> i < j
    <3>1. i \in hits /\ j \in hits /\ kind(i) = "regex" /\ kind(j) = "regex"
      BY <1>2, <1>3
    <3> QED
      BY <2>1, <3>1, OutranksByClass
  <2>4. ASSUME NEW i \in X, NEW j \in P, kind(j) = "prefix" PROVE Over(i, j) /\ ~Over(j, i)
    <3>1. i \in hits /\ j \in hits /\ kind(i) = "regex"
      BY <1>2, <1>3
    <3> QED
      BY <2>1, <2>4, <3>1, OutranksByClass
  <2>5. ASSUME NEW i \in X, NEW j \in P, kind(j) = "preferred" PROVE Over(j, i) /\ ~Over(i, j)
    <3>1. i \in hits /\ j \in hits /\ kind(i) = "regex"
      BY <1>2, <1>3
    <3> QED
      BY <2>1, <2>5, <3>1, OutranksByClass
  <2> QED
    BY <2>2, <2>3, <2>4, <2>5
<1>9. /\ \A i, j \in P : Over(i, j) <=> Beats(routes, i, j)
      /\ \A i, j \in E : Over(i, j) <=> Beats(routes, i, j)
  <2> HIDE DEF E, P, X, hits
  <2>1. \A i \in E \cup P : i \in Nat /\ IsRoute(routes[i])
    BY <1>2
  <2>2. ASSUME NEW i \in P, NEW j \in P PROVE Over(i, j) <=> Beats(routes, i, j)
    BY <1>3, <2>1, PrefixOutranks
  <2>3. ASSUME NEW i \in E, NEW j \in E PROVE Over(i, j) <=> Beats(routes, i, j)
    BY <1>3, <2>1, ExactOutranks
  <2> QED
    BY <2>2, <2>3
<1>10. /\ \A i, j \in P : Beats(routes, i, j) => ~Beats(routes, j, i)
       /\ \A i, j \in E : Beats(routes, i, j) => ~Beats(routes, j, i)
  <2> HIDE DEF E, P, X, hits
  <2>1. P \in SUBSET Nat /\ E \in SUBSET Nat
    BY <1>2
  <2>2. \A i \in P : IsRoute(routes[i]) /\ routes[i].matcher.kind \in PathKinds
    BY <1>2, <1>3 DEF PathKinds
  <2>3. \A i \in E : IsRoute(routes[i]) /\ routes[i].matcher.kind \in PathKinds
    BY <1>2, <1>3 DEF PathKinds
  <2>4. \A i, j \in P : Beats(routes, i, j) => ~Beats(routes, j, i)
    BY <2>1, <2>2, BeatsOrders
  <2>5. \A i, j \in E : Beats(routes, i, j) => ~Beats(routes, j, i)
    BY <2>1, <2>3, BeatsOrders
  <2> QED
    BY <2>4, <2>5
<1>11. \A i : Candidate(routes, i).index = i /\ (Candidate(routes, i).preferred <=> kind(i) = "preferred")
  BY DEF Candidate
<1>12. E \cap P = {} /\ E \cap X = {} /\ P \cap X = {}
  <2> HIDE DEF E, P, X
  <2> QED
    BY <1>3
<1> HIDE DEF E, P, X, hits, exact, prefix, first, Over, kind, m
<1>13. CASE E # {}
  <2>1. PICK e \in E : exact = {Candidate(routes, e)} /\ \A j \in E \ {e} : Beats(routes, e, j)
    BY <1>6, <1>13 DEF IsBest
  <2>2. indices(exact) = {e} /\ exact # {}
    BY <1>11, <2>1
  <2>3. e \in shown
    BY <1>2, <1>12, <2>1
  <2>4. \A j \in shown \ {e} : Over(e, j) /\ ~Over(j, e)
    BY <1>2, <1>8, <1>9, <1>10, <2>1
  <2>5. top = {e}
    BY <2>3, <2>4
  <2> QED
    BY <1>4, <1>5, <2>2, <2>5
<1>14. CASE E = {} /\ P # {}
  <2>1. PICK p \in P : prefix = {Candidate(routes, p)} /\ \A j \in P \ {p} : Beats(routes, p, j)
    BY <1>6, <1>14 DEF IsBest
  <2>2. indices(prefix) = {p} /\ ((\E c \in prefix : c.preferred) <=> kind(p) = "preferred") /\ exact = {}
    BY <1>6, <1>11, <1>14, <2>1 DEF IsBest
  <2>3. hidden = P \ {p}
    <3>1. \A j \in P \ {p} : j \in hidden
      BY <1>9, <2>1 DEF Over
    <3>2. p \notin hidden
      BY <1>9, <1>10, <2>1 DEF Over
    <3> QED
      BY <3>1, <3>2
  <2> HIDE DEF hidden
  <2>4. shown = X \cup {p} /\ p \notin X
    BY <1>2, <1>12, <1>14, <2>1, <2>3
  <2> HIDE DEF shown
  <2>5. CASE kind(p) = "preferred"
    <3>1. \A j \in shown \ {p} : Over(p, j) /\ ~Over(j, p)
      BY <1>8, <2>1, <2>4, <2>5
    <3>2. top = {p}
      BY <2>4, <3>1
    <3> QED
      BY <1>4, <1>5, <2>2, <2>5, <3>2
  <2>6. CASE kind(p) = "prefix" /\ X = {}
    <3>1. top = {p}
      BY <2>4, <2>6
    <3>2. first = {}
      BY <1>7, <2>6
    <3> QED
      BY <1>4, <1>5, <2>2, <2>6, <3>1, <3>2
  <2>7. CASE kind(p) = "prefix" /\ X # {}
    <3>1. \A x \in X : Over(x, p) /\ ~Over(p, x)
      BY <1>8, <2>1, <2>7
    <3>2. p \notin top
      BY <2>4, <2>7, <3>1
    <3>3. \A i \in X : i \in top <=> i \in first
      BY <1>7, <1>8, <2>4, <3>1
    <3>4. top = first
      BY <1>7, <2>4, <3>2, <3>3
    <3> QED
      BY <1>4, <1>5, <1>7, <2>2, <2>7, <3>4
  <2> QED
    BY <1>3, <2>1, <2>5, <2>6, <2>7
<1>15. CASE E = {} /\ P = {}
  <2>1. exact = {} /\ prefix = {}
    BY <1>6, <1>15 DEF IsBest
  <2>2. shown = X
    BY <1>2, <1>15
  <2> HIDE DEF shown
  <2>3. top = first
    BY <1>7, <1>8, <2>2
  <2>4. indices(prefix) = {}
    BY <2>1
  <2> QED
    BY <1>4, <1>5, <2>1, <2>3, <2>4
<1> QED
  BY <1>13, <1>14, <1>15

-----------------------------------------------------------------------------
(* Dispatch: the choice of the virtual host.                               *)

Priorities == Nat \X Nat

\* Priorities are compared like numbers.
LEMMA PrioritiesOrdered ==
    ASSUME NEW p \in Priorities, NEW q \in Priorities, NEW r \in Priorities
    PROVE  /\ ~Above(p, q) /\ ~Above(q, r) => ~Above(p, r)
           /\ Above(p, q) /\ ~Above(r, q) => Above(p, r)
           /\ Above(p, q) => ~Above(q, p)
<1>1. p[1] \in Nat /\ p[2] \in Nat /\ q[1] \in Nat /\ q[2] \in Nat /\ r[1] \in Nat /\ r[2] \in Nat
  BY DEF Priorities
<1> QED
  BY <1>1 DEF Above

\* A name matches with at most one priority.
LEMMA MatchType ==
    ASSUME NEW n, n.form \in {"exact", "dot", "leading", "trailing"}, n.labels \in Seq(STRING) \ {<<>>}, NEW host
    PROVE  MatchServerName(n, host) = {} \/ \E p \in Priorities : MatchServerName(n, host) = {p}
<1> DEFINE k == LabelsLength(n.labels)
           M == MatchServerName(n, host)
<1>1. k \in Nat
  <2>1. Len(n.labels) \in Nat \ {0}
    OBVIOUS
  <2> QED
    BY <2>1 DEF LabelsLength
<1>2. M \in {{}, {<<2, k>>}, {<<1, k>>}, {<<4, 0>>}}
  <2>1. CASE n.form = "exact"
    BY <2>1 DEF MatchServerName
  <2>2. CASE n.form = "dot"
    BY <2>2 DEF MatchServerName
  <2>3. CASE n.form = "leading"
    BY <2>3 DEF MatchServerName
  <2>4. CASE n.form = "trailing"
    BY <2>4 DEF MatchServerName
  <2> QED
    BY <2>1, <2>2, <2>3, <2>4
<1>3. <<2, k>> \in Priorities /\ <<1, k>> \in Priorities /\ <<4, 0>> \in Priorities
  BY <1>1 DEF Priorities
<1> HIDE DEF M, k
<1>4. M = {} \/ \E p \in Priorities : M = {p}
  BY <1>2, <1>3
<1> QED
  BY <1>4 DEF M

\* p is one of the priorities of M that none of M is above.
IsTop(p, M) == p \in M /\ \A q \in M : ~Above(q, p)

\* The names of a virtual host that match have a best one.
LEMMA BestNameExists ==
    ASSUME NEW names, IsNames(names), NEW host
    PROVE  /\ NameMatches(names, host) \subseteq Priorities
           /\ NameMatches(names, host) # {} => \E p : IsTop(p, NameMatches(names, host))
<1> DEFINE m == Len(names)
           match(i) == MatchServerName(names[i], host)
           M(k) == UNION {match(i) : i \in 1 .. k}
           S == {k \in Nat : M(k) # {} => \E p : IsTop(p, M(k))}
<1>1. m \in Nat /\ DOMAIN names = 1 .. m
      /\ \A i \in 1 .. m : match(i) = {} \/ \E p \in Priorities : match(i) = {p}
  <2>1. names \in Seq(Range(names))
    BY DEF IsNames, IsSequence
  <2>2. m \in Nat /\ DOMAIN names = 1 .. m
    BY <2>1
  <2>3. \A i \in 1 .. m : names[i] \in Range(names)
    BY <2>2 DEF Range
  <2>4. ASSUME NEW i \in 1 .. m PROVE match(i) = {} \/ \E p \in Priorities : match(i) = {p}
    <3>1. names[i].form \in {"exact", "dot", "leading", "trailing"} /\ names[i].labels \in Seq(STRING) \ {<<>>}
      BY <2>3 DEF IsNames
    <3> QED
      BY <3>1, MatchType
  <2> QED
    BY <2>2, <2>4
<1>2. NameMatches(names, host) = M(m)
  BY <1>1 DEF NameMatches, Range
<1> HIDE DEF match, m
<1>3. \A k \in 0 .. m : M(k) \subseteq Priorities
  <2>1. ASSUME NEW k \in 0 .. m, NEW p \in M(k) PROVE p \in Priorities
    <3>1. PICK i \in 1 .. k : p \in match(i)
      OBVIOUS
    <3>2. i \in 1 .. m
      BY <1>1
    <3> QED
      BY <1>1, <3>1, <3>2
  <2> QED
    BY <2>1
<1>4. 0 \in S
  <2>1. M(0) = {}
    OBVIOUS
  <2> QED
    BY <2>1
<1>5. ASSUME NEW k \in Nat, k < m, k \in S PROVE k + 1 \in S
  <2>1. k + 1 \in 1 .. m /\ k \in 0 .. m /\ k + 1 \in 0 .. m /\ 1 .. (k + 1) = (1 .. k) \cup {k + 1}
    BY <1>1, <1>5
  <2>2. M(k + 1) = M(k) \cup match(k + 1)
    BY <2>1
  <2>3. M(k) \subseteq Priorities /\ M(k + 1) \subseteq Priorities
    BY <1>3, <2>1
  <2> DEFINE A == M(k)
             B == M(k + 1)
  <2>4. (A # {} => \E p : IsTop(p, A)) /\ B = A \cup match(k + 1) /\ A \subseteq Priorities
    BY <1>5, <2>2, <2>3
  <2> HIDE DEF A, B, M
  <2>5. B # {} => \E p : IsTop(p, B)
    <3>1. CASE match(k + 1) = {}
      BY <2>4, <3>1
    <3>2. ASSUME NEW q \in Priorities, match(k + 1) = {q} PROVE \E p : IsTop(p, B)
      <4>0. ~Above(q, q)
        BY PrioritiesOrdered
      <4>1. CASE A = {}
        <5>1. B = {q}
          BY <2>4, <3>2, <4>1
        <5> QED
          BY <4>0, <5>1 DEF IsTop
      <4>2. CASE A # {}
        <5>1. PICK p : IsTop(p, A)
          BY <2>4, <4>2
        <5>2. p \in Priorities /\ B = A \cup {q}
          BY <2>4, <3>2, <5>1 DEF IsTop
        <5>3. CASE Above(q, p)
          <6>1. \A r \in A : ~Above(r, q)
            <7>1. ASSUME NEW r \in A PROVE ~Above(r, q)
              <8>1. r \in Priorities /\ ~Above(r, p)
                BY <2>4, <5>1 DEF IsTop
              <8> QED
                BY <5>2, <5>3, <8>1, PrioritiesOrdered
            <7> QED
              BY <7>1
          <6> QED
            BY <4>0, <5>2, <6>1 DEF IsTop
        <5>4. CASE ~Above(q, p)
          BY <5>1, <5>2, <5>4 DEF IsTop
        <5> QED
          BY <5>3, <5>4
      <4> QED
        BY <4>1, <4>2
    <3> QED
      BY <1>1, <2>1, <3>1, <3>2
  <2> QED
    BY <2>5 DEF B
<1>6. \A k \in 0 .. m : k \in S
  <2> HIDE DEF S
  <2> QED
    BY <1>1, <1>4, <1>5, BoundedInduction
<1>7. m \in 0 .. m
  BY <1>1
<1> QED
  BY <1>2, <1>3, <1>6, <1>7

VhostStates == [vhost : Nat, priority : Priorities]

\* b is the choice among the first n virtual hosts.
ChosenAmong(vhosts, host, n, b) ==
    IF b.vhost = 0 THEN \A w \in 1 .. n : NameMatches(vhosts[w].names, host) = {}
    ELSE /\ b.vhost \in 1 .. n /\ b.priority \in NameMatches(vhosts[b.vhost].names, host)
         /\ \A w \in 1 .. n : \A q \in NameMatches(vhosts[w].names, host) :
              ~Above(q, b.priority) /\ (w < b.vhost => Above(b.priority, q))

\* The virtual hosts of a configuration.
IsVhosts(vhosts) == IsSequence(vhosts) /\ \A v \in Range(vhosts) : IsNames(v.names)

LEMMA VhostFacts ==
    ASSUME NEW vhosts, IsVhosts(vhosts)
    PROVE  /\ Len(vhosts) \in Nat /\ DOMAIN vhosts = 1 .. Len(vhosts)
           /\ \A v \in 1 .. Len(vhosts) : vhosts[v] \in Range(vhosts) /\ IsNames(vhosts[v].names)
<1>1. vhosts \in Seq(Range(vhosts))
  BY DEF IsVhosts, IsSequence
<1>2. DOMAIN vhosts = 1 .. Len(vhosts) /\ Len(vhosts) \in Nat
  BY <1>1
<1>3. \A i \in DOMAIN vhosts : vhosts[i] \in Range(vhosts)
  BY DEF Range
<1> QED
  BY <1>2, <1>3 DEF IsVhosts

\* One turn of the loop.
LEMMA ConsiderVhostKeeps ==
    ASSUME NEW vhosts, IsVhosts(vhosts), NEW host, NEW n \in 1 .. Len(vhosts),
           NEW b \in VhostStates
    PROVE  LET c == ConsiderVhost(b, n, BestServerName(vhosts[n].names, host))
           IN  /\ c \in VhostStates
               /\ ChosenAmong(vhosts, host, n - 1, b) => ChosenAmong(vhosts, host, n, c)
<1> DEFINE M(w) == NameMatches(vhosts[w].names, host)
           found == BestServerName(vhosts[n].names, host)
           p == CHOOSE x \in found : TRUE
           c == ConsiderVhost(b, n, found)
<1>1. /\ Len(vhosts) \in Nat /\ n \in Nat /\ n # 0
      /\ \A w \in 1 .. Len(vhosts) : M(w) \subseteq Priorities /\ (M(w) # {} => \E q : IsTop(q, M(w)))
  BY VhostFacts, BestNameExists
<1>2. found = {q \in M(n) : IsTop(q, M(n))}
  BY DEF BestServerName, IsTop
<1>3. b.vhost \in Nat /\ b.priority \in Priorities /\ M(n) \subseteq Priorities
  BY <1>1 DEF VhostStates
<1>4. ChosenAmong(vhosts, host, n - 1, b) =
        IF b.vhost = 0 THEN \A w \in 1 .. (n - 1) : M(w) = {}
        ELSE /\ b.vhost \in 1 .. (n - 1) /\ b.priority \in M(b.vhost)
             /\ \A w \in 1 .. (n - 1) : \A q \in M(w) : ~Above(q, b.priority) /\ (w < b.vhost => Above(b.priority, q))
  BY Zenon DEF ChosenAmong
<1>5. ChosenAmong(vhosts, host, n, c) =
        IF c.vhost = 0 THEN \A w \in 1 .. n : M(w) = {}
        ELSE /\ c.vhost \in 1 .. n /\ c.priority \in M(c.vhost)
             /\ \A w \in 1 .. n : \A q \in M(w) : ~Above(q, c.priority) /\ (w < c.vhost => Above(c.priority, q))
  BY Zenon DEF ChosenAmong
<1>6. 1 .. n = (1 .. (n - 1)) \cup {n} /\ \A w \in 1 .. (n - 1) : w \in 1 .. Len(vhosts) /\ w < n
  BY <1>1
<1> HIDE DEF M, found
<1>7. CASE found = {}
  <2>1. c = b /\ M(n) = {}
    BY <1>1, <1>2, <1>7 DEF ConsiderVhost, IsTop
  <2> HIDE DEF c
  <2>2. ASSUME ChosenAmong(vhosts, host, n - 1, b) PROVE ChosenAmong(vhosts, host, n, c)
    BY <1>4, <1>5, <1>6, <2>1, <2>2
  <2> QED
    BY <2>1, <2>2 DEF c, found
<1>8. CASE found # {}
  <2>1. p \in M(n) /\ p \in Priorities /\ \A q \in M(n) : ~Above(q, p)
    BY <1>2, <1>3, <1>8 DEF IsTop
  <2>2. c = IF b.vhost = 0 \/ Above(p, b.priority) THEN [vhost |-> n, priority |-> p] ELSE b
    BY <1>8 DEF ConsiderVhost
  <2> HIDE DEF p, c
  <2>3. c \in VhostStates
    BY <1>1, <2>1, <2>2 DEF VhostStates
  <2>4. ASSUME ChosenAmong(vhosts, host, n - 1, b) PROVE ChosenAmong(vhosts, host, n, c)
    <3>1. CASE b.vhost = 0
      <4>1. c.vhost = n /\ c.priority = p
        BY <2>2, <3>1
      <4>2. \A w \in 1 .. (n - 1) : M(w) = {}
        BY <1>4, <2>4, <3>1
      <4> QED
        BY <1>1, <1>5, <1>6, <2>1, <4>1, <4>2
    <3>2. CASE b.vhost # 0 /\ Above(p, b.priority)
      <4>1. c.vhost = n /\ c.priority = p
        BY <2>2, <3>2
      <4>2. ASSUME NEW w \in 1 .. (n - 1), NEW q \in M(w) PROVE ~Above(q, p) /\ Above(p, q)
        <5>1. q \in Priorities /\ ~Above(q, b.priority)
          BY <1>1, <1>4, <1>6, <2>4, <3>2
        <5> QED
          BY <1>3, <2>1, <3>2, <5>1, PrioritiesOrdered
      <4> QED
        BY <1>1, <1>5, <1>6, <2>1, <4>1, <4>2
    <3>3. CASE b.vhost # 0 /\ ~Above(p, b.priority)
      <4>1. c = b /\ b.vhost \in 1 .. (n - 1)
        BY <1>4, <2>2, <2>4, <3>3
      <4>2. ASSUME NEW q \in M(n) PROVE ~Above(q, b.priority)
        <5>1. q \in Priorities /\ ~Above(q, p)
          BY <1>3, <2>1
        <5> QED
          BY <1>3, <2>1, <3>3, <5>1, PrioritiesOrdered
      <4>3. /\ b.priority \in M(b.vhost)
            /\ \A w \in 1 .. (n - 1) : \A q \in M(w) : ~Above(q, b.priority) /\ (w < b.vhost => Above(b.priority, q))
        BY <1>4, <2>4, <3>3
      <4>4. b.vhost \in 1 .. n /\ ~(n < b.vhost)
        BY <1>1, <4>1
      <4>5. \A w \in 1 .. n : \A q \in M(w) : ~Above(q, b.priority) /\ (w < b.vhost => Above(b.priority, q))
        BY <1>6, <4>2, <4>3, <4>4
      <4> QED
        BY <1>5, <3>3, <4>1, <4>3, <4>4, <4>5
    <3> QED
      BY <3>1, <3>2, <3>3
  <2> QED
    BY <2>3, <2>4 DEF c, found
<1> QED
  BY <1>7, <1>8

\* select_vhost selects the first best virtual host.
LEMMA VhostSelection ==
    ASSUME NEW vhosts, IsVhosts(vhosts), NEW host
    PROVE  FirstBestVhost(vhosts, host, SelectVhost(vhosts, host)) /\ SelectVhost(vhosts, host) \in 0 .. Len(vhosts)
<1> DEFINE m == Len(vhosts)
           T == VhostStates
           start == [vhost |-> 0, priority |-> <<0, 0>>]
           turn(b, n) == ConsiderVhost(b, n, BestServerName(vhosts[n].names, host))
           step == [x \in T \X (1 .. m) |-> turn(x[1], x[2])]
           Equation(f) == f = [n \in 0 .. Len(vhosts) |->
                                 IF n = 0 THEN [vhost |-> 0, priority |-> <<0, 0>>]
                                 ELSE ConsiderVhost(f[n - 1], n, BestServerName(vhosts[n].names, host))]
<1>1. m \in Nat /\ DOMAIN vhosts = 1 .. m /\ start \in T
  BY VhostFacts DEF VhostStates, Priorities
<1>2. ASSUME NEW b \in T, NEW n \in 1 .. m
      PROVE  turn(b, n) \in T
             /\ (ChosenAmong(vhosts, host, n - 1, b) => ChosenAmong(vhosts, host, n, turn(b, n)))
  BY ConsiderVhostKeeps, Zenon
<1> HIDE DEF T, turn, start
<1>3. step \in [T \X (1 .. m) -> T]
  BY <1>2
<1>4. \A b \in T, n \in 1 .. m : step[<<b, n>>] = turn(b, n)
  OBVIOUS
<1> HIDE DEF step
<1>5. PICK f : Iterates(f, T, start, m, step)
  <2> HIDE DEF m
  <2> QED
    BY <1>1, <1>3, IterationExists, Zenon
<1>6. f \in [0 .. m -> T] /\ f[0] = start
  BY <1>5 DEF Iterates
<1>7. ASSUME NEW n \in 1 .. m PROVE f[n] = turn(f[n - 1], n)
  <2>1. f[n] = step[<<f[n - 1], n>>]
    BY <1>5 DEF Iterates
  <2>2. f[n - 1] \in T
    BY <1>1, <1>6
  <2> QED
    BY <1>4, <2>1, <2>2
<1>8. Equation(f)
  BY <1>1, <1>6, <1>7 DEF turn, start
<1> DEFINE g == CHOOSE g : Equation(g)
<1>9. SelectVhost(vhosts, host) = g[m].vhost
  BY Zenon DEF SelectVhost
<1>10. Equation(g)
  <2> HIDE DEF Equation
  <2> QED
    BY <1>8, Zenon
<1> HIDE DEF g
<1>11. g[0] = start /\ \A n \in 1 .. m : g[n] = turn(g[n - 1], n)
  <2>1. g = [n \in 0 .. m |-> IF n = 0 THEN start ELSE turn(g[n - 1], n)]
    BY <1>10 DEF turn, start
  <2>2. \A n \in 0 .. m : g[n] = IF n = 0 THEN start ELSE turn(g[n - 1], n)
    <3> HIDE DEF Equation
    <3> QED
      BY <2>1
  <2> QED
    BY <1>1, <2>2
<1> DEFINE S == {n \in Nat : g[n] \in T /\ ChosenAmong(vhosts, host, n, g[n])}
<1>12. 0 \in S
  <2>1. ChosenAmong(vhosts, host, 0, start)
    BY DEF ChosenAmong, start
  <2> QED
    BY <1>1, <1>11, <2>1
<1>13. ASSUME NEW n \in Nat, n < m, n \in S PROVE n + 1 \in S
  <2>1. n + 1 \in 1 .. m /\ (n + 1) - 1 = n
    BY <1>1, <1>13
  <2> DEFINE k == n + 1
  <2>2. k \in 1 .. m /\ k - 1 = n /\ k \in Nat
    BY <2>1, <1>1
  <2> HIDE DEF k
  <2>3. g[k] = turn(g[n], k)
    BY <1>11, <2>2
  <2>4. turn(g[n], k) \in T /\ ChosenAmong(vhosts, host, k, turn(g[n], k))
    BY <1>2, <1>13, <2>2
  <2>5. k \in S
    BY <2>2, <2>3, <2>4
  <2> QED
    BY <2>5 DEF k
<1>14. \A n \in 0 .. m : n \in S
  <2> HIDE DEF S, m
  <2> QED
    BY <1>1, <1>12, <1>13, BoundedInduction
<1> DEFINE b == g[m]
<1>15. b \in T /\ ChosenAmong(vhosts, host, m, b)
  BY <1>1, <1>14
<1>16. b.vhost \in Nat /\ SelectVhost(vhosts, host) = b.vhost
  BY <1>9, <1>15 DEF T, VhostStates
<1> HIDE DEF b, m, S
<1>17. b.vhost \in 0 .. m
  BY <1>1, <1>15, <1>16 DEF ChosenAmong
<1>18. FirstBestVhost(vhosts, host, b.vhost)
  <2>1. CASE b.vhost = 0
    BY <1>1, <1>15, <2>1 DEF ChosenAmong, FirstBestVhost
  <2>2. CASE b.vhost # 0
    BY <1>1, <1>15, <2>2, Zenon DEF ChosenAmong, FirstBestVhost
  <2> QED
    BY <2>1, <2>2
<1> QED
  BY <1>16, <1>17, <1>18 DEF m

-----------------------------------------------------------------------------
(* Dispatch: paths.                                                        *)

\* What a segment can be (the provers know of no literal that it is a string), and one of
\* a normalised path.
Segment == STRING \cup {"", "*"}
Clean == Segment \ {"", ".", ".."}

LEMMA TextIsSegments ==
    ASSUME NEW s \in Seq(STRING)
    PROVE  s \in Seq(Segment)
<1>1. STRING \subseteq Segment
  BY Zenon DEF Segment
<1>2. ASSUME NEW S, NEW T, S \subseteq T, NEW t \in Seq(S) PROVE t \in Seq(T)
  BY <1>2
<1> QED
  BY <1>1, <1>2, Zenon

\* Sequences are equal when their elements are.
LEMMA SameSequence ==
    ASSUME NEW S, NEW s \in Seq(S), NEW t \in Seq(S), Len(s) = Len(t), \A i \in 1 .. Len(s) : s[i] = t[i]
    PROVE  s = t
  OBVIOUS

\* A sequence with one element more.
LEMMA OneMore ==
    ASSUME NEW S, NEW s \in Seq(S), NEW e \in S
    PROVE  /\ s \o <<e>> \in Seq(S) /\ Len(s \o <<e>>) = Len(s) + 1
           /\ \A i \in 1 .. Len(s) : (s \o <<e>>)[i] = s[i]
           /\ (s \o <<e>>)[Len(s) + 1] = e
  OBVIOUS

\* The first elements of a sequence.
LEMMA FirstElements ==
    ASSUME NEW S, NEW s \in Seq(S), NEW n \in 0 .. Len(s)
    PROVE  /\ SubSeq(s, 1, n) \in Seq(S) /\ Len(SubSeq(s, 1, n)) = n
           /\ \A i \in 1 .. n : SubSeq(s, 1, n)[i] = s[i]
  OBVIOUS

\* And one more of them.
LEMMA FirstElementsAppend ==
    ASSUME NEW S, NEW s \in Seq(S), NEW n \in Nat, n < Len(s)
    PROVE  Append(SubSeq(s, 1, n), s[n + 1]) = SubSeq(s, 1, n + 1)
<1> DEFINE a == SubSeq(s, 1, n)
           b == SubSeq(s, 1, n + 1)
           c == Append(a, s[n + 1])
<1>1. n \in 0 .. Len(s) /\ n + 1 \in 0 .. Len(s) /\ s[n + 1] \in S
  OBVIOUS
<1>2. a \in Seq(S) /\ Len(a) = n /\ \A i \in 1 .. n : a[i] = s[i]
  BY <1>1, FirstElements
<1>3. b \in Seq(S) /\ Len(b) = n + 1 /\ \A i \in 1 .. n + 1 : b[i] = s[i]
  BY <1>1, FirstElements
<1> HIDE DEF a, b
<1>4. c \in Seq(S) /\ Len(c) = n + 1 /\ \A i \in 1 .. n + 1 : c[i] = s[i]
  BY <1>1, <1>2
<1> HIDE DEF c
<1>5. c = b
  BY <1>3, <1>4, SameSequence
<1> QED
  BY <1>5 DEF a, b, c

\* What follows a prefix.
LEMMA PrefixAndRest ==
    ASSUME NEW S, NEW T \in SUBSET S, NEW s \in Seq(S), NEW t \in Seq(T), IsPrefix(s, t)
    PROVE  LET r == SubSeq(t, Len(s) + 1, Len(t)) IN r \in Seq(T) /\ s \o r = t
<1> DEFINE r == SubSeq(t, Len(s) + 1, Len(t))
<1>1. Len(s) \in Nat /\ Len(t) \in Nat /\ t \in Seq(S)
  OBVIOUS
<1>2. Len(s) <= Len(t) /\ SubSeq(s, 1, Len(s)) = SubSeq(t, 1, Len(s))
  BY DEF IsPrefix
<1>3. \A i \in 1 .. Len(s) : s[i] = t[i]
  <2>1. Len(s) \in 0 .. Len(s) /\ Len(s) \in 0 .. Len(t)
    BY <1>1, <1>2
  <2>2. \A i \in 1 .. Len(s) : SubSeq(s, 1, Len(s))[i] = s[i]
    BY <2>1, FirstElements
  <2>3. \A i \in 1 .. Len(s) : SubSeq(t, 1, Len(s))[i] = t[i]
    BY <1>1, <2>1, FirstElements
  <2> QED
    BY <1>2, <2>2, <2>3
<1>4. r \in Seq(T) /\ Len(r) = Len(t) - Len(s)
  BY <1>1, <1>2
<1>5. \A i \in 1 .. Len(r) : r[i] = t[Len(s) + i]
  BY <1>1, <1>2, <1>4
<1> HIDE DEF r
<1>6. r \in Seq(S)
  BY <1>4
<1>7. s \o r \in Seq(S) /\ Len(s \o r) = Len(s) + Len(r)
      /\ \A i \in 1 .. Len(s) + Len(r) : (s \o r)[i] = IF i <= Len(s) THEN s[i] ELSE r[i - Len(s)]
  BY <1>6
<1>8. \A i \in 1 .. Len(t) : (s \o r)[i] = t[i]
  BY <1>1, <1>2, <1>3, <1>4, <1>5, <1>7
<1>9. s \o r = t
  <2>1. Len(s \o r) = Len(t) /\ \A i \in 1 .. Len(s \o r) : (s \o r)[i] = t[i]
    BY <1>1, <1>4, <1>7, <1>8
  <2> QED
    BY <1>1, <1>7, <2>1, SameSequence
<1> QED
  BY <1>4, <1>9 DEF r

WalkStates == [segs : Seq(Clean), above : BOOLEAN]

\* A dot segment is never kept.
LEMMA PushSegmentType ==
    ASSUME NEW acc \in WalkStates, NEW seg \in Segment
    PROVE  PushSegment(acc, seg) \in WalkStates
<1>1. acc.segs \in Seq(Clean) /\ acc.above \in BOOLEAN /\ DOMAIN acc = {"segs", "above"}
  BY DEF WalkStates
<1>2. CASE acc.above \/ seg \in {"", "."}
  BY <1>2 DEF PushSegment
<1>3. CASE ~acc.above /\ seg \notin {"", ".", ".."}
  <2>0. seg \in Clean
    BY <1>3 DEF Clean
  <2>1. Append(acc.segs, seg) \in Seq(Clean)
    BY <1>1, <2>0
  <2> QED
    BY <1>1, <1>3, <2>1 DEF PushSegment, WalkStates
<1>4. CASE ~acc.above /\ seg = ".." /\ acc.segs = <<>>
  BY <1>1, <1>4 DEF PushSegment, WalkStates
<1>5. CASE ~acc.above /\ seg = ".." /\ acc.segs # <<>>
  <2>1. Front(acc.segs) \in Seq(Clean)
    BY <1>1, <1>5 DEF Front
  <2> QED
    BY <1>1, <1>5, <2>1 DEF PushSegment, WalkStates
<1> QED
  BY <1>2, <1>3, <1>4, <1>5

\* The states of a walk.
Walks(after, raw) ==
    /\ after \in [0 .. Len(raw) -> WalkStates]
    /\ after[0] = [segs |-> <<>>, above |-> FALSE]
    /\ \A n \in 1 .. Len(raw) : after[n] = PushSegment(after[n - 1], raw[n])
    /\ Walk(raw) = after[Len(raw)]

\* The recursive function inside Walk exists.
LEMMA WalkRuns ==
    ASSUME NEW raw \in Seq(Segment)
    PROVE  \E after : Walks(after, raw)
<1> DEFINE m == Len(raw)
           T == WalkStates
           start == [segs |-> <<>>, above |-> FALSE]
           turn(b, n) == PushSegment(b, raw[n])
           step == [x \in T \X (1 .. m) |-> turn(x[1], x[2])]
           Equation(f) == f = [n \in 0 .. Len(raw) |->
                                 IF n = 0 THEN [segs |-> <<>>, above |-> FALSE] ELSE PushSegment(f[n - 1], raw[n])]
<1>1. m \in Nat /\ start \in T /\ \A n \in 1 .. m : raw[n] \in Segment
  BY DEF WalkStates
<1>2. ASSUME NEW b \in T, NEW n \in 1 .. m PROVE turn(b, n) \in T
  BY <1>1, PushSegmentType
<1> HIDE DEF T, turn, start
<1>3. step \in [T \X (1 .. m) -> T]
  BY <1>2
<1>4. \A b \in T, n \in 1 .. m : step[<<b, n>>] = turn(b, n)
  OBVIOUS
<1> HIDE DEF step
<1>5. PICK f : Iterates(f, T, start, m, step)
  <2> HIDE DEF m
  <2> QED
    BY <1>1, <1>3, IterationExists, Zenon
<1>6. f \in [0 .. m -> T] /\ f[0] = start
  BY <1>5 DEF Iterates
<1>7. ASSUME NEW n \in 1 .. m PROVE f[n] = turn(f[n - 1], n)
  <2>1. f[n] = step[<<f[n - 1], n>>]
    BY <1>5 DEF Iterates
  <2>2. f[n - 1] \in T
    BY <1>1, <1>6
  <2> QED
    BY <1>4, <2>1, <2>2
<1>8. Equation(f)
  BY <1>1, <1>6, <1>7 DEF turn, start
<1> DEFINE g == CHOOSE g : Equation(g)
<1>9. Walk(raw) = g[m]
  BY Zenon DEF Walk
<1>10. Equation(g)
  <2> HIDE DEF Equation
  <2> QED
    BY <1>8, Zenon
<1> HIDE DEF g
<1>11. DOMAIN g = 0 .. m /\ g = [n \in 0 .. m |-> g[n]] /\ g[0] = start /\ \A n \in 1 .. m : g[n] = turn(g[n - 1], n)
  <2>1. g = [n \in 0 .. m |-> IF n = 0 THEN start ELSE turn(g[n - 1], n)]
    BY <1>10 DEF turn, start
  <2>2. DOMAIN g = 0 .. m /\ \A n \in 0 .. m : g[n] = IF n = 0 THEN start ELSE turn(g[n - 1], n)
    <3> HIDE DEF Equation
    <3> QED
      BY <2>1
  <2> QED
    BY <1>1, <2>1, <2>2
<1> DEFINE S == {n \in Nat : g[n] \in T}
<1>12. 0 \in S
  BY <1>1, <1>11
<1>13. ASSUME NEW n \in Nat, n < m, n \in S PROVE n + 1 \in S
  <2>1. n + 1 \in 1 .. m /\ (n + 1) - 1 = n
    BY <1>1, <1>13
  <2>2. g[n + 1] = turn(g[n], n + 1)
    BY <1>11, <2>1
  <2> QED
    BY <1>2, <1>13, <2>1, <2>2
<1>14. \A n \in 0 .. m : n \in S
  <2> HIDE DEF S, m
  <2> QED
    BY <1>1, <1>12, <1>13, BoundedInduction
<1>15. g \in [0 .. m -> T]
  BY <1>11, <1>14
<1> QED
  BY <1>9, <1>11, <1>15, Zenon DEF Walks, T, turn, start

\* A walk over clean segments keeps them all.
LEMMA WalkKeepsClean ==
    ASSUME NEW raw \in Seq(Segment), NEW after, Walks(after, raw), NEW k \in 0 .. Len(raw),
           \A i \in 1 .. k : raw[i] \in Clean
    PROVE  after[k] = [segs |-> SubSeq(raw, 1, k), above |-> FALSE]
<1> DEFINE m == Len(raw)
           S == {n \in Nat : after[n] = [segs |-> SubSeq(raw, 1, n), above |-> FALSE]}
<1>1. m \in Nat /\ k \in Nat /\ k <= m
  OBVIOUS
<1>2. 0 \in S
  <2>1. SubSeq(raw, 1, 0) = <<>>
    OBVIOUS
  <2> QED
    BY <2>1 DEF Walks
<1>3. ASSUME NEW n \in Nat, n < k, n \in S PROVE n + 1 \in S
  <2>1. n + 1 \in 1 .. m /\ n + 1 \in 1 .. k /\ (n + 1) - 1 = n
    BY <1>1, <1>3
  <2>2. after[n + 1] = PushSegment(after[n], raw[n + 1])
    BY <2>1 DEF Walks
  <2>3. raw[n + 1] \in Clean
    BY <2>1
  <2> DEFINE segs == SubSeq(raw, 1, n)
             last == raw[n + 1]
  <2>4. after[n] = [segs |-> segs, above |-> FALSE]
    BY <1>3
  <2>5. Append(segs, last) = SubSeq(raw, 1, n + 1)
    BY <1>1, <2>1, FirstElementsAppend
  <2> HIDE DEF segs, last
  <2>6. PushSegment([segs |-> segs, above |-> FALSE], last) = [segs |-> Append(segs, last), above |-> FALSE]
    BY <2>3 DEF PushSegment, Clean, last
  <2> QED
    BY <2>2, <2>4, <2>5, <2>6 DEF last
<1>4. \A n \in 0 .. k : n \in S
  <2> HIDE DEF S
  <2> QED
    BY <1>1, <1>2, <1>3, BoundedInduction
<1> QED
  BY <1>1, <1>4

\* The empty segment, which a slash at the end of a path leaves.
Blank == ""

LEMMA BlankFacts ==
    /\ Blank \in Segment /\ Blank \notin Clean
    /\ \A acc : PushSegment(acc, Blank) = acc
    /\ Asterisk \in Seq(Clean) /\ Asterisk # <<>> /\ Asterisk[Len(Asterisk)] # Blank
<1>1. Blank \in Segment /\ Blank \notin Clean
  <2> DEFINE dots == {"", ".", ".."}
  <2>2. "" \in dots
    BY Zenon
  <2> HIDE DEF dots
  <2>3. Blank \in Segment
    BY Zenon DEF Segment, Blank
  <2>4. Blank \in dots
    BY <2>2, Zenon DEF Blank
  <2>5. Clean = Segment \ dots
    BY Zenon DEF Clean, dots
  <2> QED
    BY <2>3, <2>4, <2>5, Zenon
<1>2. \A acc : PushSegment(acc, Blank) = acc
  BY Zenon DEF PushSegment, Blank
<1> DEFINE star == "*"
<1>3. star \in Clean /\ star # Blank
  <2> DEFINE dots == {"", ".", ".."}
  <2>2. "*" # ""
    OBVIOUS
  <2>3. "*" # "."
    OBVIOUS
  <2>4. "*" # ".."
    OBVIOUS
  <2>5. star \notin dots
    BY <2>2, <2>3, <2>4, Zenon
  <2>6. star \in Segment
    BY Zenon DEF Segment
  <2>7. Clean = Segment \ dots
    BY Zenon DEF Clean
  <2>8. star # Blank
    BY <2>2, Zenon DEF Blank
  <2> HIDE DEF dots, star
  <2> QED
    BY <2>5, <2>6, <2>7, <2>8, Zenon
<1>4. Asterisk = <<star>>
  BY Zenon DEF Asterisk
<1> HIDE DEF star
<1>5. <<star>> \in Seq(Clean) /\ Len(<<star>>) = 1 /\ <<star>>[1] = star
  BY <1>3
<1> QED
  BY <1>1, <1>2, <1>3, <1>4, <1>5

\* What a walk that stays below the root makes of a path.
LEMMA NormalizeStep ==
    ASSUME NEW raw, NEW segs, Walk(raw) = [segs |-> segs, above |-> FALSE]
    PROVE  /\ raw # Asterisk /\ raw[Len(raw)] = Blank => NormalizePath(raw) = PathOf(segs, TRUE)
           /\ raw # Asterisk /\ raw[Len(raw)] # Blank => NormalizePath(raw) = PathOf(segs, FALSE)
           /\ raw = Asterisk => NormalizePath(raw) = PathOf(raw, FALSE)
<1>1. Walk(raw).segs = segs /\ Walk(raw).above = FALSE
  OBVIOUS
<1>2. NormalizePath(raw) = IF raw = Asterisk THEN PathOf(raw, FALSE)
                           ELSE IF Walk(raw).above THEN RootPath
                           ELSE PathOf(Walk(raw).segs, raw[Len(raw)] = Blank)
  BY Zenon DEF NormalizePath, Blank
<1>3. CASE raw[Len(raw)] = Blank
  <2>1. (raw[Len(raw)] = Blank) = TRUE
    BY <1>3
  <2> QED
    BY <1>1, <1>2, <1>3, <2>1, Zenon
<1>4. CASE raw[Len(raw)] # Blank
  <2>1. (raw[Len(raw)] = Blank) = FALSE
    BY <1>4
  <2> QED
    BY <1>1, <1>2, <1>4, <2>1, Zenon
<1> QED
  BY <1>3, <1>4

\* A normalised path has no dot segments and no empty ones.
IsNormal(path) ==
    /\ path \in [segs : Seq(Clean), slash : BOOLEAN]
    /\ path.segs = <<>> => path.slash

LEMMA NormalizePathType ==
    ASSUME NEW raw \in Seq(Segment), raw # <<>>
    PROVE  IsNormal(NormalizePath(raw))
<1>1. \A segs \in Seq(Clean), slash \in BOOLEAN : IsNormal(PathOf(segs, slash))
  BY DEF IsNormal, PathOf
<1>2. Asterisk \in Seq(Clean)
  BY BlankFacts
<1>3. Walk(raw) \in WalkStates
  <2>1. PICK after : Walks(after, raw)
    BY WalkRuns
  <2> QED
    BY <2>1 DEF Walks
<1>4. Walk(raw).segs \in Seq(Clean) /\ <<>> \in Seq(Clean)
  BY <1>3 DEF WalkStates
<1>5. NormalizePath(raw) = IF raw = Asterisk THEN PathOf(Asterisk, FALSE)
                           ELSE IF Walk(raw).above THEN PathOf(<<>>, TRUE)
                           ELSE PathOf(Walk(raw).segs, raw[Len(raw)] = "")
  BY DEF NormalizePath, RootPath
<1> QED
  BY <1>1, <1>2, <1>4, <1>5

\* The segments of a normalised path are segments.
LEMMA CleanSequence ==
    ASSUME NEW segs \in Seq(Clean)
    PROVE  /\ segs \in Seq(Segment) /\ Len(segs) \in Nat
           /\ \A i \in 1 .. Len(segs) : segs[i] \in Clean /\ segs[i] # Blank
<1>1. Clean \subseteq Segment /\ Blank \notin Clean
  BY BlankFacts DEF Clean
<1>2. Len(segs) \in Nat /\ \A i \in 1 .. Len(segs) : segs[i] \in Clean
  OBVIOUS
<1> QED
  BY <1>1, <1>2

\* The text of a normalised path.
TextOf(path) == path.segs \o (IF path.slash THEN <<"">> ELSE <<>>)

\* A walk over clean segments, with or without a slash at the end.
LEMMA WalkAgain ==
    ASSUME NEW segs \in Seq(Clean), NEW raw \in {segs, segs \o <<Blank>>}
    PROVE  raw \in Seq(Segment) /\ Walk(raw) = [segs |-> segs, above |-> FALSE]
<1> DEFINE n == Len(segs)
<1>1. segs \in Seq(Segment) /\ n \in Nat /\ \A i \in 1 .. n : segs[i] \in Clean
  BY CleanSequence
<1>3. /\ raw \in Seq(Segment) /\ n <= Len(raw) /\ \A i \in 1 .. n : raw[i] = segs[i]
      /\ Len(raw) = n \/ (Len(raw) = n + 1 /\ raw[n + 1] = Blank)
  <2>1. CASE raw = segs
    BY <1>1, <2>1
  <2>2. CASE raw = segs \o <<Blank>>
    <3>1. raw \in Seq(Segment) /\ Len(raw) = n + 1 /\ raw[n + 1] = Blank /\ \A i \in 1 .. n : raw[i] = segs[i]
      BY <1>1, <2>2, BlankFacts, OneMore
    <3> QED
      BY <1>1, <3>1
  <2> QED
    BY <2>1, <2>2
<1>4. SubSeq(raw, 1, n) = segs
  <2>1. n \in 0 .. Len(raw)
    BY <1>1, <1>3
  <2> DEFINE f == SubSeq(raw, 1, n)
  <2>2. f \in Seq(Segment) /\ Len(f) = n /\ \A i \in 1 .. n : f[i] = raw[i]
    BY <1>3, <2>1, FirstElements
  <2> HIDE DEF f
  <2>3. f = segs
    BY <1>1, <1>3, <2>2, SameSequence
  <2> QED
    BY <2>3 DEF f
<1>5. PICK after : Walks(after, raw)
  BY <1>3, WalkRuns
<1>6. after[n] = [segs |-> segs, above |-> FALSE]
  <2>1. n \in 0 .. Len(raw) /\ \A i \in 1 .. n : raw[i] \in Clean
    BY <1>1, <1>3
  <2> QED
    BY <1>3, <1>4, <1>5, <2>1, WalkKeepsClean
<1>7. Walk(raw) = after[Len(raw)]
  BY <1>5 DEF Walks
<1>8. CASE Len(raw) = n
  BY <1>3, <1>6, <1>7, <1>8
<1>9. CASE Len(raw) = n + 1 /\ raw[n + 1] = Blank
  <2>1. n + 1 \in 1 .. Len(raw) /\ (n + 1) - 1 = n
    BY <1>1, <1>9
  <2>2. after[n + 1] = PushSegment(after[n], Blank)
    BY <1>5, <1>9, <2>1 DEF Walks
  <2>3. PushSegment(after[n], Blank) = after[n]
    BY BlankFacts
  <2> QED
    BY <1>3, <1>6, <1>7, <1>9, <2>2, <2>3
<1> QED
  BY <1>3, <1>8, <1>9

\* Only a path with a slash at the end ends in an empty segment.
LEMMA EndOfText ==
    ASSUME NEW segs \in Seq(Clean)
    PROVE  /\ segs # <<>> => segs[Len(segs)] # Blank
           /\ (segs \o <<Blank>>)[Len(segs \o <<Blank>>)] = Blank /\ segs \o <<Blank>> # Asterisk
<1> DEFINE n == Len(segs)
           raw == segs \o <<Blank>>
<1>1. segs \in Seq(Segment) /\ n \in Nat /\ \A i \in 1 .. n : segs[i] # Blank
  BY CleanSequence
<1>2. segs # <<>> => n \in 1 .. n
  BY <1>1
<1>4. Asterisk[Len(Asterisk)] # Blank
  BY BlankFacts
<1>5. Len(raw) = n + 1 /\ raw[n + 1] = Blank
  BY <1>1, BlankFacts, OneMore
<1> HIDE DEF raw
<1>7. raw[Len(raw)] = Blank
  BY <1>5
<1>8. raw # Asterisk
  BY <1>4, <1>7, Zenon
<1> QED
  BY <1>1, <1>2, <1>7, <1>8 DEF raw

\* A normalised path is not changed by a second normalisation.
LEMMA NormalAgain ==
    ASSUME NEW path, IsNormal(path)
    PROVE  NormalizePath(TextOf(path)) = path
<1> DEFINE segs == path.segs
<1>1. segs \in Seq(Clean) /\ path.slash \in BOOLEAN /\ path = [segs |-> segs, slash |-> path.slash]
      /\ (segs = <<>> => path.slash)
  BY DEF IsNormal
<1> HIDE DEF segs
<1>2. CASE path.slash
  <2> DEFINE raw == segs \o <<Blank>>
  <2>1. TextOf(path) = raw
    BY <1>2, Zenon DEF TextOf, segs, Blank
  <2>2. Walk(raw) = [segs |-> segs, above |-> FALSE]
    BY <1>1, WalkAgain
  <2>3. raw[Len(raw)] = Blank /\ raw # Asterisk
    BY <1>1, EndOfText
  <2> HIDE DEF raw
  <2>4. NormalizePath(raw) = PathOf(segs, TRUE)
    BY <2>2, <2>3, NormalizeStep
  <2>5. PathOf(segs, TRUE) = [segs |-> segs, slash |-> TRUE]
    BY DEF PathOf
  <2> QED
    BY <1>1, <1>2, <2>1, <2>4, <2>5
<1>3. CASE ~path.slash
  <2>1. TextOf(path) = segs
    <3>1. TextOf(path) = segs \o <<>>
      BY <1>3 DEF TextOf, segs
    <3> QED
      BY <1>1, <3>1
  <2>2. Walk(segs) = [segs |-> segs, above |-> FALSE]
    BY <1>1, WalkAgain
  <2>3. segs[Len(segs)] # Blank /\ segs # <<>>
    BY <1>1, <1>3, EndOfText
  <2>4. NormalizePath(segs) = PathOf(segs, FALSE)
    BY <2>2, <2>3, NormalizeStep
  <2>5. PathOf(segs, FALSE) = [segs |-> segs, slash |-> FALSE]
    BY <2>3 DEF PathOf
  <2> QED
    BY <1>1, <1>3, <2>1, <2>4, <2>5
<1> QED
  BY <1>1, <1>2, <1>3

\* build_proxy_uri sends a normalised path: the one that was matched, or what follows a
\* prefix that matches it.
LEMMA ProxyPathIs ==
    ASSUME NEW raw \in Seq(Segment), raw # <<>>, NEW strip, IsOption(strip), strip \subseteq PathType
    PROVE  LET sent == ProxyPath(raw, strip)
               path == NormalizePath(raw)
           IN  /\ IsNormal(sent)
               /\ sent = path \/ \E p \in strip : PrefixMatches(p, path) /\ p.segs \o sent.segs = path.segs
<1> DEFINE path == NormalizePath(raw)
           rest(p) == SubSeq(path.segs, Len(p.segs) + 1, Len(path.segs))
           strips(p) == /\ IsPrefix(p.segs, path.segs)
                        /\ p.slash => p.segs = path.segs /\ path.slash
           sent == ProxyPath(raw, strip)
<1>1. IsNormal(path)
  BY NormalizePathType
<1>2. path.segs \in Seq(Clean) /\ path.slash \in BOOLEAN
  BY <1>1 DEF IsNormal
<1> HIDE DEF path
<1>3. CASE ~\E p \in strip : strips(p)
  <2>1. sent = path
    BY <1>3 DEF ProxyPath, path
  <2> QED
    BY <1>1, <2>1 DEF path
<1>4. ASSUME NEW p \in strip, strips(p)
      PROVE  IsNormal(sent) /\ PrefixMatches(p, path) /\ p.segs \o sent.segs = path.segs
  <2>1. (CHOOSE x \in strip : TRUE) = p
    BY DEF IsOption
  <2>2. sent = IF rest(p) = <<>> THEN RootPath ELSE PathOf(rest(p), path.slash)
    BY <1>4, <2>1 DEF ProxyPath, path
  <2>3. p.segs \in Seq(Segment) /\ Len(p.segs) \in Nat
    <3>1. p.segs \in Seq(STRING)
      BY DEF PathType
    <3>2. p.segs \in Seq(Segment)
      BY <3>1, TextIsSegments, Zenon
    <3> QED
      BY <3>1, <3>2
  <2>4. PrefixMatches(p, path)
    BY <1>4 DEF PrefixMatches
  <2> DEFINE s == p.segs
             t == path.segs
             r == rest(p)
  <2>5. s \in Seq(Segment) /\ t \in Seq(Clean) /\ Clean \in SUBSET Segment /\ IsPrefix(s, t)
    BY <1>2, <1>4, <2>3 DEF Clean
  <2>6. r = SubSeq(t, Len(s) + 1, Len(t))
    OBVIOUS
  <2> HIDE DEF s, t, r
  <2>7. r \in Seq(Clean) /\ s \o r = t
    BY <2>5, <2>6, PrefixAndRest
  <2>9. sent.segs = r /\ IsNormal(sent)
    <3> DEFINE x == sent
    <3>0. x = IF r = <<>> THEN RootPath ELSE PathOf(r, path.slash)
      BY <2>2 DEF r
    <3> HIDE DEF x
    <3>1. CASE r = <<>>
      <4>1. x = [segs |-> r, slash |-> TRUE]
        BY <3>0, <3>1 DEF RootPath, PathOf
      <4> QED
        BY <2>7, <4>1 DEF IsNormal, x
    <3>2. CASE r # <<>>
      <4>1. x = [segs |-> r, slash |-> path.slash]
        BY <1>2, <3>0, <3>2 DEF PathOf
      <4> QED
        BY <1>2, <2>7, <3>2, <4>1 DEF IsNormal, x
    <3> QED
      BY <3>1, <3>2
  <2> QED
    BY <2>4, <2>7, <2>9 DEF s, t
<1> QED
  BY <1>3, <1>4, Zenon DEF path

-----------------------------------------------------------------------------
(* Dispatch: headers.                                                      *)

\* What inserting a header makes of the headers.
IsInserted(g, f, n, v) ==
    /\ DOMAIN g = DOMAIN f \cup {n} /\ g[n] = v
    /\ \A h \in DOMAIN f : h # n => g[h] = f[h]
    /\ \E D, V : g \in [D -> V]

LEMMA InsertFacts == \A f, n, v : IsInserted(Insert(f, n, v), f, n, v)
<1> SUFFICES ASSUME NEW f, NEW n, NEW v PROVE IsInserted(Insert(f, n, v), f, n, v)
  BY Zenon
<1> DEFINE g == Insert(f, n, v)
           D == DOMAIN f \cup {n}
           V == {IF h = n THEN v ELSE f[h] : h \in D}
<1>1. g = [h \in D |-> IF h = n THEN v ELSE f[h]]
  BY Zenon DEF Insert
<1>2. DOMAIN g = D /\ g[n] = v /\ \A h \in DOMAIN f : h # n => g[h] = f[h]
  <2> HIDE DEF g
  <2> QED
    BY <1>1
<1>3. g \in [D -> V]
  <2> HIDE DEF g
  <2> QED
    BY <1>1
<1> QED
  BY <1>2, <1>3 DEF IsInserted

\* A header that no override names is left as it is.
LEMMA OverrideKeeps ==
    ASSUME NEW f, NEW original, NEW client, NEW o, NEW x, x # o.name
    PROVE  LET g == ApplyOverride(f, original, client, o)
           IN  /\ x \in DOMAIN g <=> x \in DOMAIN f
               /\ x \in DOMAIN f => g[x] = f[x]
<1> DEFINE g == ApplyOverride(f, original, client, o)
           n == o.name
           v == CHOOSE v \in Override(original, client, o) : TRUE
<1>1. g \in {[h \in DOMAIN f \ {n} |-> f[h]], f, Insert(f, n, v)}
  BY DEF ApplyOverride
<1> HIDE DEF g, v
<1>2. CASE g = [h \in DOMAIN f \ {n} |-> f[h]]
  BY <1>2 DEF g
<1>3. CASE g = f
  BY <1>3 DEF g
<1>4. CASE g = Insert(f, n, v)
  <2>1. DOMAIN g = DOMAIN f \cup {n} /\ \A h \in DOMAIN f : h # n => g[h] = f[h]
    <3>1. IsInserted(g, f, n, v)
      BY <1>4, InsertFacts, Zenon
    <3> QED
      BY <3>1 DEF IsInserted
  <2> QED
    BY <2>1 DEF g
<1> QED
  BY <1>1, <1>2, <1>3, <1>4

\* The headers as the route's overrides leave them.
LEMMA OverridesKeep ==
    ASSUME NEW base, \E D, V : base \in [D -> V], NEW original, NEW client, NEW overrides, IsSequence(overrides),
           NEW x, \A o \in Range(overrides) : x # o.name
    PROVE  LET g == WithOverrides(base, original, client, overrides)
           IN  /\ x \in DOMAIN g <=> x \in DOMAIN base
               /\ x \in DOMAIN base => g[x] = base[x]
<1> DEFINE m == Len(overrides)
           name(i) == overrides[i].name
           value(i) == CHOOSE v \in Override(original, client, overrides[i]) : TRUE
           N == DOMAIN base \cup {name(i) : i \in 1 .. m}
           V == {base[h] : h \in DOMAIN base} \cup {value(i) : i \in 1 .. m}
           T == UNION {[D -> V] : D \in SUBSET N}
           turn(f, n) == ApplyOverride(f, original, client, overrides[n])
           step == [y \in T \X (1 .. m) |-> turn(y[1], y[2])]
           Equation(f) == f = [n \in 0 .. Len(overrides) |->
                                 IF n = 0 THEN base ELSE ApplyOverride(f[n - 1], original, client, overrides[n])]
<1>1. m \in Nat /\ \A i \in 1 .. m : overrides[i] \in Range(overrides)
  <2>1. overrides \in Seq(Range(overrides))
    BY DEF IsSequence
  <2>2. m \in Nat /\ DOMAIN overrides = 1 .. m
    BY <2>1
  <2> QED
    BY <2>2 DEF Range
<1>2. base \in T
  <2>1. base \in [DOMAIN base -> {base[h] : h \in DOMAIN base}]
    OBVIOUS
  <2>2. base \in [DOMAIN base -> V]
    BY <2>1
  <2> QED
    BY <2>2
<1>3. ASSUME NEW f \in T, NEW n \in 1 .. m PROVE turn(f, n) \in T
  <2>1. PICK D \in SUBSET N : f \in [D -> V]
    OBVIOUS
  <2>2. DOMAIN f = D /\ name(n) \in N /\ value(n) \in V
    BY <2>1
  <2>3. turn(f, n) \in {[h \in D \ {name(n)} |-> f[h]], f, [h \in D \cup {name(n)} |-> IF h = name(n) THEN value(n) ELSE f[h]]}
    BY <2>2, Zenon DEF ApplyOverride, Insert
  <2> HIDE DEF N, V, name, value, turn
  <2>4. [h \in D \ {name(n)} |-> f[h]] \in [D \ {name(n)} -> V] /\ D \ {name(n)} \in SUBSET N
    BY <2>1
  <2>5. [h \in D \cup {name(n)} |-> IF h = name(n) THEN value(n) ELSE f[h]] \in [D \cup {name(n)} -> V]
        /\ D \cup {name(n)} \in SUBSET N
    BY <2>1, <2>2
  <2>6. \A E \in SUBSET N : \A g \in [E -> V] : g \in T
    OBVIOUS
  <2>7. [h \in D \ {name(n)} |-> f[h]] \in T
    BY <2>4, <2>6, Zenon
  <2>8. [h \in D \cup {name(n)} |-> IF h = name(n) THEN value(n) ELSE f[h]] \in T
    BY <2>5, <2>6, Zenon
  <2> QED
    BY <2>3, <2>7, <2>8, Zenon
<1> HIDE DEF T, turn
<1>4. step \in [T \X (1 .. m) -> T]
  BY <1>3
<1>5. \A f \in T, n \in 1 .. m : step[<<f, n>>] = turn(f, n)
  OBVIOUS
<1> HIDE DEF step
<1>6. PICK f : Iterates(f, T, base, m, step)
  <2> HIDE DEF m
  <2> QED
    BY <1>1, <1>2, <1>4, IterationExists, Zenon
<1>7. f \in [0 .. m -> T] /\ f[0] = base
  BY <1>6 DEF Iterates
<1>8. ASSUME NEW n \in 1 .. m PROVE f[n] = turn(f[n - 1], n)
  <2>1. f[n] = step[<<f[n - 1], n>>]
    BY <1>6 DEF Iterates
  <2>2. f[n - 1] \in T
    BY <1>1, <1>7
  <2> QED
    BY <1>5, <2>1, <2>2
<1>9. Equation(f)
  BY <1>1, <1>7, <1>8 DEF turn
<1> DEFINE g == CHOOSE g : Equation(g)
<1>10. WithOverrides(base, original, client, overrides) = g[m]
  BY Zenon DEF WithOverrides
<1>11. Equation(g)
  <2> HIDE DEF Equation
  <2> QED
    BY <1>9, Zenon
<1> HIDE DEF g
<1>12. g[0] = base /\ \A n \in 1 .. m : g[n] = turn(g[n - 1], n)
  <2>1. g = [n \in 0 .. m |-> IF n = 0 THEN base ELSE turn(g[n - 1], n)]
    BY <1>11 DEF turn
  <2>2. \A n \in 0 .. m : g[n] = IF n = 0 THEN base ELSE turn(g[n - 1], n)
    <3> HIDE DEF Equation
    <3> QED
      BY <2>1
  <2> QED
    BY <1>1, <2>2
<1> DEFINE Same(h) == (x \in DOMAIN h <=> x \in DOMAIN base) /\ (x \in DOMAIN base => h[x] = base[x])
           S == {n \in Nat : Same(g[n])}
<1>13. 0 \in S
  BY <1>12
<1>14. ASSUME NEW n \in Nat, n < m, n \in S PROVE n + 1 \in S
  <2>1. n + 1 \in 1 .. m /\ (n + 1) - 1 = n
    BY <1>1, <1>14
  <2>2. g[n + 1] = turn(g[n], n + 1)
    BY <1>12, <2>1
  <2>3. x # overrides[n + 1].name
    BY <1>1, <2>1
  <2> DEFINE a == g[n]
             b == g[n + 1]
  <2>4. (x \in DOMAIN b <=> x \in DOMAIN a) /\ (x \in DOMAIN a => b[x] = a[x])
    BY <2>2, <2>3, OverrideKeeps DEF turn
  <2>5. Same(a)
    BY <1>14
  <2> HIDE DEF a, b
  <2>6. Same(b)
    BY <2>4, <2>5
  <2> QED
    BY <1>14, <2>6 DEF b
<1>15. \A n \in 0 .. m : n \in S
  <2> HIDE DEF S, m
  <2> QED
    BY <1>1, <1>13, <1>14, BoundedInduction
<1>16. Same(g[m])
  BY <1>1, <1>15
<1> QED
  BY <1>10, <1>16

\* What the proxy sets itself, and what it lets through.
OurHeaders(H, headers, listed, client, grpcWeb) ==
    /\ "x-forwarded-for" \in DOMAIN H /\ H["x-forwarded-for"] = client.forwardedFor
    /\ "x-forwarded-proto" \in DOMAIN H /\ H["x-forwarded-proto"] = "proxy"
    /\ \A h \in (HopByHop \cup listed) \cap DOMAIN H :
         \/ h \in {"connection", "upgrade"} /\ Upgrades(headers, listed)
         \/ h = "te" /\ H[h] = "trailers"
         \/ h = "content-type" /\ grpcWeb
         \/ h \in {"host", "x-forwarded-for", "x-forwarded-proto", "x-forwarded-host"}

LEMMA BareHeaders ==
    ASSUME NEW headers, NEW listed
    PROVE  \A h \in (HopByHop \cup listed) \cap DOMAIN WithoutHopByHop(headers, listed) :
             h \in {"connection", "upgrade"} /\ Upgrades(headers, listed)
<1> DEFINE gone == IF Upgrades(headers, listed) THEN (listed \ {"upgrade"}) \cup (HopByHop \ {"connection", "upgrade"})
                   ELSE listed \cup HopByHop
<1>1. DOMAIN WithoutHopByHop(headers, listed) = DOMAIN headers \ gone
  BY DEF WithoutHopByHop
<1> HIDE DEF gone
<1>2. CASE Upgrades(headers, listed)
  <2>1. gone = (listed \ {"upgrade"}) \cup (HopByHop \ {"connection", "upgrade"})
    BY <1>2 DEF gone
  <2> QED
    BY <1>1, <1>2, <2>1
<1>3. CASE ~Upgrades(headers, listed)
  <2>1. gone = listed \cup HopByHop
    BY <1>3 DEF gone
  <2> QED
    BY <1>1, <2>1
<1> QED
  BY <1>2, <1>3

LEMMA ProxyHeadersOurs ==
    ASSUME NEW headers, NEW listed, NEW client, NEW preserveHost, NEW grpcWeb
    PROVE  LET H == ProxyHeaders(headers, listed, client, preserveHost, grpcWeb)
           IN  OurHeaders(H, headers, listed, client, grpcWeb) /\ \E D, V : H \in [D -> V]
<1> DEFINE has(h) == h \in DOMAIN headers
           up == Upgrades(headers, listed)
           bare == WithoutHopByHop(headers, listed)
           hostIs == IF preserveHost /\ has("host") THEN headers["host"] ELSE "authority"
           host == Insert(bare, "host", hostIs)
           proto == Insert(host, "x-forwarded-proto", "proxy")
           named == IF has("host") THEN Insert(proto, "x-forwarded-host", headers["host"]) ELSE proto
           forwarded == Insert(named, "x-forwarded-for", client.forwardedFor)
           less == [h \in DOMAIN forwarded \ {"content-length", "x-grpc-web"} |-> forwarded[h]]
           typed == IF grpcWeb THEN Insert(less, "content-type", "application/grpc") ELSE forwarded
           te == IF grpcWeb \/ TeTrailers(headers) THEN Insert(typed, "te", "trailers") ELSE typed
           conn == Insert(te, "connection", "upgrade")
           full == Insert(conn, "upgrade", headers["upgrade"])
           H == IF up THEN full ELSE te
<1>1. ProxyHeaders(headers, listed, client, preserveHost, grpcWeb) = H
  BY Zenon DEF ProxyHeaders
<1>2. DOMAIN host = DOMAIN bare \cup {"host"}
  <2>1. IsInserted(host, bare, "host", hostIs)
    BY InsertFacts, Zenon
  <2> HIDE DEF host, bare, hostIs
  <2> QED
    BY <2>1 DEF IsInserted
<1>3. DOMAIN proto = DOMAIN host \cup {"x-forwarded-proto"} /\ proto["x-forwarded-proto"] = "proxy"
  <2>1. IsInserted(proto, host, "x-forwarded-proto", "proxy")
    BY InsertFacts, Zenon
  <2> HIDE DEF host, proto
  <2> QED
    BY <2>1 DEF IsInserted
<1>4. /\ DOMAIN named \subseteq DOMAIN proto \cup {"x-forwarded-host"}
      /\ "x-forwarded-proto" \in DOMAIN named /\ named["x-forwarded-proto"] = "proxy"
  <2> DEFINE value == headers["host"]
             i == Insert(proto, "x-forwarded-host", value)
  <2> HIDE DEF proto, value
  <2>1. DOMAIN i = DOMAIN proto \cup {"x-forwarded-host"}
        /\ \A h \in DOMAIN proto : h # "x-forwarded-host" => i[h] = proto[h]
    <3>1. IsInserted(i, proto, "x-forwarded-host", value)
      BY InsertFacts, Zenon
    <3> HIDE DEF i
    <3> QED
      BY <3>1 DEF IsInserted
  <2>2. "x-forwarded-proto" # "x-forwarded-host"
    OBVIOUS
  <2>3. named = i \/ named = proto
    BY DEF value
  <2> HIDE DEF i, named
  <2> QED
    BY <1>3, <2>1, <2>2, <2>3, Zenon
<1>5. /\ DOMAIN forwarded = DOMAIN named \cup {"x-forwarded-for"}
      /\ forwarded["x-forwarded-for"] = client.forwardedFor /\ forwarded["x-forwarded-proto"] = "proxy"
      /\ \E D, V : forwarded \in [D -> V]
  <2> DEFINE value == client.forwardedFor
  <2> HIDE DEF named, value
  <2>1. IsInserted(forwarded, named, "x-forwarded-for", value)
    BY InsertFacts, Zenon DEF value
  <2>2. "x-forwarded-proto" # "x-forwarded-for"
    OBVIOUS
  <2> HIDE DEF forwarded
  <2>3. forwarded["x-forwarded-proto"] = "proxy"
    BY <1>4, <2>1, <2>2, Zenon DEF IsInserted
  <2> QED
    BY <2>1, <2>3, Zenon DEF IsInserted, value
<1> DEFINE Ours(f) == /\ "x-forwarded-for" \in DOMAIN f /\ f["x-forwarded-for"] = client.forwardedFor
                      /\ "x-forwarded-proto" \in DOMAIN f /\ f["x-forwarded-proto"] = "proxy"
                      /\ \E D, V : f \in [D -> V]
<1>6. Ours(forwarded)
  BY <1>4, <1>5
<1>7. ASSUME NEW f, Ours(f), NEW n, NEW v, n # "x-forwarded-for", n # "x-forwarded-proto"
      PROVE  Ours(Insert(f, n, v))
  <2> DEFINE g == Insert(f, n, v)
  <2>1. IsInserted(g, f, n, v)
    BY InsertFacts, Zenon
  <2> HIDE DEF g
  <2>2. Ours(g)
    BY <1>7, <2>1, Zenon DEF IsInserted
  <2> QED
    BY <2>2 DEF g
<1>8. Ours(less) /\ DOMAIN less \subseteq DOMAIN forwarded
  <2> HIDE DEF forwarded
  <2>1. DOMAIN less = DOMAIN forwarded \ {"content-length", "x-grpc-web"}
        /\ \A h \in DOMAIN less : less[h] = forwarded[h]
    OBVIOUS
  <2>2. "x-forwarded-for" \notin {"content-length", "x-grpc-web"} /\ "x-forwarded-proto" \notin {"content-length", "x-grpc-web"}
    OBVIOUS
  <2>3. \E D, V : less \in [D -> V]
    <3> DEFINE D == DOMAIN forwarded \ {"content-length", "x-grpc-web"}
               V == {forwarded[h] : h \in D}
    <3>1. less \in [D -> V]
      OBVIOUS
    <3> QED
      BY <3>1
  <2> HIDE DEF less
  <2> QED
    BY <1>6, <2>1, <2>2, <2>3
<1> HIDE DEF forwarded, less
<1>9. Ours(typed) /\ DOMAIN typed \subseteq DOMAIN forwarded \cup {"content-type"}
      /\ (~grpcWeb => DOMAIN typed = DOMAIN forwarded)
  <2>1. CASE grpcWeb
    <3>1. typed = Insert(less, "content-type", "application/grpc")
      BY <2>1
    <3>2. DOMAIN typed = DOMAIN less \cup {"content-type"}
      <4> HIDE DEF typed
      <4>1. IsInserted(typed, less, "content-type", "application/grpc")
        BY <3>1, InsertFacts, Zenon
      <4> QED
        BY <4>1 DEF IsInserted
    <3>3. "content-type" # "x-forwarded-for" /\ "content-type" # "x-forwarded-proto"
      OBVIOUS
    <3>4. Ours(typed)
      <4> HIDE DEF Ours, typed
      <4> QED
        BY <1>7, <1>8, <3>1, <3>3, Zenon
    <3> QED
      BY <1>8, <2>1, <3>2, <3>4
  <2>2. CASE ~grpcWeb
    BY <1>6, <2>2
  <2> QED
    BY <2>1, <2>2
<1> HIDE DEF typed
<1>10. Ours(te) /\ DOMAIN te \subseteq DOMAIN typed \cup {"te"} /\ (te = typed \/ te["te"] = "trailers")
  <2> DEFINE i == Insert(typed, "te", "trailers")
  <2>1. DOMAIN i = DOMAIN typed \cup {"te"} /\ i["te"] = "trailers"
    <3>1. IsInserted(i, typed, "te", "trailers")
      BY InsertFacts, Zenon
    <3> HIDE DEF i
    <3> QED
      BY <3>1 DEF IsInserted
  <2>2. "te" # "x-forwarded-for" /\ "te" # "x-forwarded-proto"
    OBVIOUS
  <2>3. Ours(i)
    <3> HIDE DEF Ours
    <3> QED
      BY <1>7, <1>9, <2>2, Zenon
  <2>4. te = i \/ te = typed
    OBVIOUS
  <2> HIDE DEF i, te, Ours
  <2> QED
    BY <1>9, <2>1, <2>3, <2>4
<1> HIDE DEF te
<1>11. Ours(full) /\ DOMAIN full = DOMAIN te \cup {"connection", "upgrade"}
       /\ ("te" \in DOMAIN te => full["te"] = te["te"])
  <2> DEFINE value == headers["upgrade"]
  <2> HIDE DEF value
  <2>1. DOMAIN conn = DOMAIN te \cup {"connection"} /\ \A h \in DOMAIN te : h # "connection" => conn[h] = te[h]
    <3>1. IsInserted(conn, te, "connection", "upgrade")
      BY InsertFacts, Zenon
    <3> HIDE DEF conn
    <3> QED
      BY <3>1 DEF IsInserted
  <2>2. Ours(conn)
    <3>1. "connection" # "x-forwarded-for" /\ "connection" # "x-forwarded-proto"
      OBVIOUS
    <3> HIDE DEF Ours
    <3> QED
      BY <1>7, <1>10, <3>1, Zenon
  <2> HIDE DEF conn
  <2>3. full = Insert(conn, "upgrade", value)
    BY DEF value
  <2>4. DOMAIN full = DOMAIN conn \cup {"upgrade"} /\ \A h \in DOMAIN conn : h # "upgrade" => full[h] = conn[h]
    <3> HIDE DEF full
    <3>1. IsInserted(full, conn, "upgrade", value)
      BY <2>3, InsertFacts, Zenon
    <3> QED
      BY <3>1 DEF IsInserted
  <2>5. Ours(full)
    <3>1. "upgrade" # "x-forwarded-for" /\ "upgrade" # "x-forwarded-proto"
      OBVIOUS
    <3> HIDE DEF Ours, full
    <3> QED
      BY <1>7, <2>2, <2>3, <3>1, Zenon
  <2> HIDE DEF full, Ours
  <2>6. "te" # "connection" /\ "te" # "upgrade"
    OBVIOUS
  <2> QED
    BY <2>1, <2>4, <2>5, <2>6
<1> HIDE DEF full
<1>12. Ours(H)
  <2> HIDE DEF Ours
  <2> QED
    BY <1>10, <1>11
<1>13. \A h \in DOMAIN H : h \in DOMAIN bare \/ h \in {"host", "x-forwarded-proto", "x-forwarded-host", "x-forwarded-for"}
         \/ (h = "content-type" /\ grpcWeb) \/ h = "te" \/ (up /\ h \in {"connection", "upgrade"})
  <2>1. DOMAIN H \subseteq DOMAIN te \cup (IF up THEN {"connection", "upgrade"} ELSE {})
    BY <1>11
  <2>2. DOMAIN typed \subseteq DOMAIN forwarded \cup (IF grpcWeb THEN {"content-type"} ELSE {})
    BY <1>9
  <2> HIDE DEF H, up, bare, host, proto, named
  <2>3. DOMAIN forwarded \subseteq DOMAIN bare \cup {"host", "x-forwarded-proto", "x-forwarded-host", "x-forwarded-for"}
    BY <1>2, <1>3, <1>4, <1>5
  <2> QED
    BY <1>10, <2>1, <2>2, <2>3
<1>14. "te" \in DOMAIN H => H["te"] = "trailers"
  <2>0. "te" \in HopByHop /\ "te" \notin {"connection", "upgrade"}
    BY DEF HopByHop
  <2>1. "te" \notin DOMAIN bare
    BY <2>0, BareHeaders
  <2> HIDE DEF bare, up, host, proto, named
  <2>2. "te" \notin DOMAIN forwarded
    BY <1>2, <1>3, <1>4, <1>5, <2>1
  <2>3. "te" \notin DOMAIN typed
    BY <1>9, <2>2
  <2>4. "te" \in DOMAIN te => te["te"] = "trailers"
    BY <1>10, <2>3
  <2> QED
    BY <1>11, <2>0, <2>4
<1> HIDE DEF H, bare, up
<1>15. \A h \in (HopByHop \cup listed) \cap DOMAIN bare : h \in {"connection", "upgrade"} /\ up
  BY BareHeaders DEF bare, up
<1>16. \A h \in (HopByHop \cup listed) \cap DOMAIN H :
         \/ h \in {"connection", "upgrade"} /\ up
         \/ h = "te" /\ H[h] = "trailers"
         \/ h = "content-type" /\ grpcWeb
         \/ h \in {"host", "x-forwarded-for", "x-forwarded-proto", "x-forwarded-host"}
  BY <1>13, <1>14, <1>15
<1> QED
  BY <1>1, <1>12, <1>16, Zenon DEF OurHeaders, up

-----------------------------------------------------------------------------
(* Dispatch: what is known of one request.                                 *)

\* What is decided for the request of client c of scenario s, from the configuration in
\* its record r.
ConfigAt(s, r) == s.configs[r.config]
AddressAt(s, c, r) == ClientAddress(ConfigAt(s, r), s.requests[c], s.requests[c])
VhostAt(s, c, r) == SelectVhost(ConfigAt(s, r).vhosts, s.requests[c].host)
PathAt(s, c) == NormalizePath(s.requests[c].raw)
ContextAt(s, c) == [path |-> PathAt(s, c), grpc |-> GrpcMetadata(s.requests[c].grpc, PathAt(s, c))]
RouteAt(s, c, r) == SelectRoute(VhostRoutes(ConfigAt(s, r), VhostAt(s, c, r)), ContextAt(s, c))
TakenAt(s, r) == VhostRoutes(ConfigAt(s, r), r.vhost)[CHOOSE i \in r.route : TRUE]
IdsAt(s, r) == {VhostRoutes(ConfigAt(s, r), r.vhost)[i].id : i \in r.route}

\* What its record holds of it.
SentAt(s, c, r) ==
    LET q == s.requests[c]
    IN  [path |-> ProxyPath(q.raw, TakenAt(s, r).strip),
         headers |-> SanitizeRequestHeaders(q.headers, q.listed, CHOOSE a \in r.client : TRUE,
                                            TakenAt(s, r).preserveHost, q.grpc = "grpc-web", TakenAt(s, r).overrides)]
Chosen(s, c, r) ==
    r.client = {AddressAt(s, c, r)} /\ r.vhost = VhostAt(s, c, r) /\ r.route = RouteAt(s, c, r)
Checked(s, c, r) ==
    /\ r.client # {} /\ r.route # {}
    /\ s.requests[c].early => TakenAt(s, r).early
    /\ Allows(TakenAt(s, r), AddressAt(s, c, r).ip)

RequestPcs == {"new", "never", "snapshot", "executing", "forwarded", "answered", "streaming", "ended", "done", "gone"}

EntryOf(pc, config, vhost, route, client, status, sent) ==
    [pc |-> pc, config |-> config, vhost |-> vhost, route |-> route, client |-> client, status |-> status,
     sent |-> sent]
IsEntry(r) == r = EntryOf(r.pc, r.config, r.vhost, r.route, r.client, r.status, r.sent)

\* A request that was given a route keeps what the selection decided, sends what follows
\* from it, and is executed only after its checks; the others hold nothing yet.
EntryFits(s, a, c, r) ==
    /\ IsEntry(r) /\ r.pc \in RequestPcs
    /\ r.pc \notin {"new", "never"} => r.config \in 1 .. a
    /\ r.client = {} => r.sent = {} /\ r.pc \in {"new", "never", "snapshot", "done"}
    /\ r.client # {} => r.pc \notin {"new", "never", "snapshot"} /\ Chosen(s, c, r)
    /\ r.sent \subseteq {SentAt(s, c, r)}
    /\ r.sent # {} => r.route # {}
    /\ r.pc \in {"executing", "forwarded"} => Checked(s, c, r)

Clients == DOMAIN scenario.requests

RequestsInv ==
    /\ scenario \in DispatchScenarios /\ active \in 1 .. Len(scenario.configs)
    /\ request = [c \in Clients |-> request[c]]
    /\ \A c \in Clients : EntryFits(scenario, active, c, request[c])

\* The fields of a record.
Fields(r, pc, config, vhost, route, client, status, sent) ==
    /\ r.pc = pc /\ r.config = config /\ r.vhost = vhost /\ r.route = route /\ r.client = client
    /\ r.status = status /\ r.sent = sent
    /\ IsEntry(r)

LEMMA EntryFields ==
    ASSUME NEW pc, NEW config, NEW vhost, NEW route, NEW client, NEW status, NEW sent
    PROVE  Fields(EntryOf(pc, config, vhost, route, client, status, sent),
                  pc, config, vhost, route, client, status, sent)
<1> DEFINE r == EntryOf(pc, config, vhost, route, client, status, sent)
<1>1. /\ r.pc = pc /\ r.config = config /\ r.vhost = vhost /\ r.route = route /\ r.client = client
      /\ r.status = status /\ r.sent = sent
  BY DEF EntryOf
<1>2. r = EntryOf(pc, config, vhost, route, client, status, sent)
  OBVIOUS
<1> HIDE DEF r
<1>3. IsEntry(r)
  BY <1>1, <1>2, Zenon DEF IsEntry
<1>4. Fields(r, pc, config, vhost, route, client, status, sent)
  BY <1>1, <1>3, Zenon DEF Fields
<1> QED
  BY <1>4 DEF r

\* What is decided depends on the configuration only, and what is sent on the selection.
LEMMA SameDecisions ==
    ASSUME NEW s, NEW c, NEW r, NEW e, e.config = r.config
    PROVE  /\ AddressAt(s, c, e) = AddressAt(s, c, r) /\ VhostAt(s, c, e) = VhostAt(s, c, r)
           /\ RouteAt(s, c, e) = RouteAt(s, c, r)
           /\ e.vhost = r.vhost /\ e.route = r.route =>
                TakenAt(s, e) = TakenAt(s, r) /\ IdsAt(s, e) = IdsAt(s, r)
           /\ e.vhost = r.vhost /\ e.route = r.route /\ e.client = r.client =>
                SentAt(s, c, e) = SentAt(s, c, r)
<1>1. ConfigAt(s, e) = ConfigAt(s, r)
  BY Zenon DEF ConfigAt
<1>2. AddressAt(s, c, e) = AddressAt(s, c, r) /\ VhostAt(s, c, e) = VhostAt(s, c, r)
  BY <1>1, Zenon DEF AddressAt, VhostAt
<1>3. RouteAt(s, c, e) = RouteAt(s, c, r)
  BY <1>1, <1>2, Zenon DEF RouteAt
<1>4. ASSUME e.vhost = r.vhost, e.route = r.route PROVE TakenAt(s, e) = TakenAt(s, r)
  BY <1>1, <1>4, Zenon DEF TakenAt
<1>5. ASSUME e.vhost = r.vhost, e.route = r.route PROVE IdsAt(s, e) = IdsAt(s, r)
  BY <1>1, <1>5, Zenon DEF IdsAt
<1>6. ASSUME e.vhost = r.vhost, e.route = r.route, e.client = r.client PROVE SentAt(s, c, e) = SentAt(s, c, r)
  BY <1>4, <1>6, Zenon DEF SentAt
<1> QED
  BY <1>2, <1>3, <1>4, <1>5, <1>6, Zenon

\* The snapshot is taken.
LEMMA EntrySnapshot ==
    ASSUME NEW s, NEW a \in Nat, a > 0, NEW c, NEW r, EntryFits(s, a, c, r), r.pc = "new",
           NEW e, e = EntryOf("snapshot", a, r.vhost, r.route, r.client, r.status, r.sent)
    PROVE  EntryFits(s, a, c, e)
<1>0. Fields(e, "snapshot", a, r.vhost, r.route, r.client, r.status, r.sent)
  BY EntryFields, Zenon
<1>1. e.pc = "snapshot" /\ e.config = a /\ e.client = r.client /\ e.sent = r.sent /\ IsEntry(e)
  BY <1>0, Zenon DEF Fields
<1>2. r.client = {} /\ r.sent = {}
  BY DEF EntryFits
<1> QED
  BY <1>1, <1>2 DEF EntryFits, RequestPcs

\* The request is answered, ends or is left, and keeps what was decided.
LEMMA EntryMoves ==
    ASSUME NEW s, NEW a, NEW c, NEW r, EntryFits(s, a, c, r), NEW p, NEW st,
           \/ p \in {"answered", "streaming", "ended", "done", "gone"} /\ r.client # {}
           \/ p = "never" /\ r.pc = "new"
           \/ p = "done" /\ r.pc = "snapshot",
           NEW e, e = EntryOf(p, r.config, r.vhost, r.route, r.client, st, r.sent)
    PROVE  EntryFits(s, a, c, e)
<1>0. Fields(e, p, r.config, r.vhost, r.route, r.client, st, r.sent)
  BY EntryFields, Zenon
<1>1. /\ e.pc = p /\ e.config = r.config /\ e.vhost = r.vhost /\ e.route = r.route /\ e.client = r.client
      /\ e.sent = r.sent /\ IsEntry(e)
  BY <1>0, Zenon DEF Fields
<1>2. SentAt(s, c, e) = SentAt(s, c, r)
  BY <1>1, SameDecisions, Zenon
<1>3. Chosen(s, c, r) => Chosen(s, c, e)
  <2>1. AddressAt(s, c, e) = AddressAt(s, c, r) /\ VhostAt(s, c, e) = VhostAt(s, c, r) /\ RouteAt(s, c, e) = RouteAt(s, c, r)
    BY <1>1, SameDecisions
  <2> QED
    BY <1>1, <2>1 DEF Chosen
<1> QED
  BY <1>1, <1>2, <1>3 DEF EntryFits, RequestPcs

\* The selection is made; a request that is executed has passed its checks.
LEMMA EntrySelected ==
    ASSUME NEW s, NEW a, NEW c, NEW r, EntryFits(s, a, c, r), r.pc = "snapshot", NEW p, NEW st,
           NEW e, e = EntryOf(p, r.config, VhostAt(s, c, r), RouteAt(s, c, r), {AddressAt(s, c, r)}, st, r.sent),
           p = "answered" \/ (p = "executing" /\ Checked(s, c, e))
    PROVE  EntryFits(s, a, c, e)
<1>0. Fields(e, p, r.config, VhostAt(s, c, r), RouteAt(s, c, r), {AddressAt(s, c, r)}, st, r.sent)
  BY EntryFields, Zenon
<1>1. /\ e.pc = p /\ e.config = r.config /\ e.vhost = VhostAt(s, c, r) /\ e.route = RouteAt(s, c, r)
      /\ e.client = {AddressAt(s, c, r)} /\ e.sent = r.sent /\ IsEntry(e)
  BY <1>0, Zenon DEF Fields
<1>2. Chosen(s, c, e)
  <2>1. AddressAt(s, c, e) = AddressAt(s, c, r) /\ VhostAt(s, c, e) = VhostAt(s, c, r) /\ RouteAt(s, c, e) = RouteAt(s, c, r)
    BY <1>1, SameDecisions
  <2> QED
    BY <1>1, <2>1 DEF Chosen
<1>3. r.sent = {}
  BY DEF EntryFits
<1>4. e.client # {}
  BY <1>1
<1> QED
  BY <1>1, <1>2, <1>3, <1>4 DEF EntryFits, RequestPcs

\* The request goes upstream.
LEMMA EntryForwarded ==
    ASSUME NEW s, NEW a, NEW c, NEW r, EntryFits(s, a, c, r), r.pc = "executing",
           NEW e, e = EntryOf("forwarded", r.config, r.vhost, r.route, r.client, r.status, {SentAt(s, c, r)})
    PROVE  EntryFits(s, a, c, e)
<1>0. Fields(e, "forwarded", r.config, r.vhost, r.route, r.client, r.status, {SentAt(s, c, r)})
  BY EntryFields, Zenon
<1>1. /\ e.pc = "forwarded" /\ e.config = r.config /\ e.vhost = r.vhost /\ e.route = r.route /\ e.client = r.client
      /\ e.sent = {SentAt(s, c, r)} /\ IsEntry(e)
  BY <1>0, Zenon DEF Fields
<1>2. SentAt(s, c, e) = SentAt(s, c, r)
  BY <1>1, SameDecisions, Zenon
<1>3. Chosen(s, c, r) /\ Checked(s, c, r)
  BY DEF EntryFits, Checked
<1>4. Chosen(s, c, e) /\ Checked(s, c, e)
  <2>1. AddressAt(s, c, e) = AddressAt(s, c, r) /\ VhostAt(s, c, e) = VhostAt(s, c, r) /\ RouteAt(s, c, e) = RouteAt(s, c, r)
    BY <1>1, SameDecisions
  <2>2. TakenAt(s, e) = TakenAt(s, r)
    BY <1>1, SameDecisions
  <2> QED
    BY <1>1, <1>3, <2>1, <2>2 DEF Chosen, Checked
<1> QED
  BY <1>1, <1>2, <1>3, <1>4 DEF EntryFits, RequestPcs, Checked

\* A reload adds a configuration.
LEMMA EntryReload ==
    ASSUME NEW s, NEW a \in Nat, NEW c, NEW r, EntryFits(s, a, c, r)
    PROVE  EntryFits(s, a + 1, c, r)
BY DEF EntryFits

\* The assignments the steps make to the record of c in f.
SetPc(f, c, p) == [f EXCEPT ![c].pc = p]
SetConfig(f, c, p, x) == [f EXCEPT ![c].pc = p, ![c].config = x]
SetStatus(f, c, p, x) == [f EXCEPT ![c].pc = p, ![c].status = x]
SetSent(f, c, p, x) == [f EXCEPT ![c].pc = p, ![c].sent = x]
SetChoice(f, c, p, x, v, i, q) ==
    [f EXCEPT ![c].pc = p, ![c].status = x, ![c].vhost = v, ![c].route = i, ![c].client = q]
Put(f, c, e) == [f EXCEPT ![c] = e]

LEMMA RecordUpdates ==
    ASSUME NEW f, NEW D, f = [d \in D |-> f[d]], NEW c \in D, NEW r, r = f[c], IsEntry(r),
           NEW p, NEW x, NEW v, NEW i, NEW q
    PROVE  /\ SetPc(f, c, p) = Put(f, c, EntryOf(p, r.config, r.vhost, r.route, r.client, r.status, r.sent))
           /\ SetConfig(f, c, p, x) = Put(f, c, EntryOf(p, x, r.vhost, r.route, r.client, r.status, r.sent))
           /\ SetStatus(f, c, p, x) = Put(f, c, EntryOf(p, r.config, r.vhost, r.route, r.client, x, r.sent))
           /\ SetSent(f, c, p, x) = Put(f, c, EntryOf(p, r.config, r.vhost, r.route, r.client, r.status, x))
           /\ SetChoice(f, c, p, x, v, i, q) = Put(f, c, EntryOf(p, r.config, v, i, q, x, r.sent))
<1>1. r = EntryOf(r.pc, r.config, r.vhost, r.route, r.client, r.status, r.sent)
  BY Zenon DEF IsEntry
<1>2. /\ [r EXCEPT !.pc = p] = EntryOf(p, r.config, r.vhost, r.route, r.client, r.status, r.sent)
      /\ [[r EXCEPT !.pc = p] EXCEPT !.config = x] = EntryOf(p, x, r.vhost, r.route, r.client, r.status, r.sent)
      /\ [[r EXCEPT !.pc = p] EXCEPT !.status = x] = EntryOf(p, r.config, r.vhost, r.route, r.client, x, r.sent)
      /\ [[r EXCEPT !.pc = p] EXCEPT !.sent = x] = EntryOf(p, r.config, r.vhost, r.route, r.client, r.status, x)
      /\ [[[[[r EXCEPT !.pc = p] EXCEPT !.status = x] EXCEPT !.vhost = v] EXCEPT !.route = i] EXCEPT !.client = q] =
           EntryOf(p, r.config, v, i, q, x, r.sent)
  <2>20. PICK rp, rc : rp = r.pc /\ rc = r.config
    OBVIOUS
  <2>21. PICK rv, ri : rv = r.vhost /\ ri = r.route
    OBVIOUS
  <2>22. PICK rq, rs, rt : rq = r.client /\ rs = r.status /\ rt = r.sent
    OBVIOUS
  <2>1. /\ r = EntryOf(rp, rc, rv, ri, rq, rs, rt)
        /\ rc = r.config /\ rv = r.vhost /\ ri = r.route /\ rq = r.client
        /\ rs = r.status /\ rt = r.sent
    BY <1>1, <2>20, <2>21, <2>22, Zenon
  <2> DEFINE a == EntryOf(p, rc, rv, ri, rq, rs, rt)
             b == EntryOf(p, rc, rv, ri, rq, x, rt)
             d == EntryOf(p, rc, v, ri, rq, x, rt)
             e == EntryOf(p, rc, v, i, rq, x, rt)
  <2>2. [EntryOf(rp, rc, rv, ri, rq, rs, rt) EXCEPT !.pc = p] = a
    BY DEF EntryOf
  <2>3. [a EXCEPT !.config = x] = EntryOf(p, x, rv, ri, rq, rs, rt)
    BY DEF EntryOf
  <2>4. [a EXCEPT !.status = x] = b
    BY DEF EntryOf
  <2>5. [a EXCEPT !.sent = x] = EntryOf(p, rc, rv, ri, rq, rs, x)
    BY DEF EntryOf
  <2>6. [b EXCEPT !.vhost = v] = d
    BY DEF EntryOf
  <2>7. [d EXCEPT !.route = i] = e
    BY DEF EntryOf
  <2>8. [e EXCEPT !.client = q] = EntryOf(p, rc, v, i, q, x, rt)
    BY DEF EntryOf
  <2>9. [r EXCEPT !.pc = p] = a
    BY <2>1, <2>2, Zenon
  <2> HIDE DEF a, b, d, e
  <2>10. [[[[[r EXCEPT !.pc = p] EXCEPT !.status = x] EXCEPT !.vhost = v] EXCEPT !.route = i] EXCEPT !.client = q] =
           EntryOf(p, rc, v, i, q, x, rt)
    BY <2>4, <2>6, <2>7, <2>8, <2>9, Zenon
  <2>11. /\ [r EXCEPT !.pc = p] = EntryOf(p, rc, rv, ri, rq, rs, rt)
         /\ [[r EXCEPT !.pc = p] EXCEPT !.config = x] = EntryOf(p, x, rv, ri, rq, rs, rt)
         /\ [[r EXCEPT !.pc = p] EXCEPT !.status = x] = EntryOf(p, rc, rv, ri, rq, x, rt)
         /\ [[r EXCEPT !.pc = p] EXCEPT !.sent = x] = EntryOf(p, rc, rv, ri, rq, rs, x)
    BY <2>3, <2>4, <2>5, <2>9, Zenon DEF a, b
  <2> QED
    BY <2>1, <2>10, <2>11, Zenon
<1>4. ASSUME NEW e, NEW g PROVE [[f EXCEPT ![c] = e] EXCEPT ![c] = g] = [f EXCEPT ![c] = g] /\ [f EXCEPT ![c] = e][c] = e
  OBVIOUS
<1>5. [f EXCEPT ![c].pc = p] = [f EXCEPT ![c] = [r EXCEPT !.pc = p]]
  OBVIOUS
<1>6. [f EXCEPT ![c].pc = p, ![c].config = x] = [f EXCEPT ![c] = [[r EXCEPT !.pc = p] EXCEPT !.config = x]]
  BY <1>4, <1>5
<1>7. [f EXCEPT ![c].pc = p, ![c].status = x] = [f EXCEPT ![c] = [[r EXCEPT !.pc = p] EXCEPT !.status = x]]
  BY <1>4, <1>5
<1>8. [f EXCEPT ![c].pc = p, ![c].sent = x] = [f EXCEPT ![c] = [[r EXCEPT !.pc = p] EXCEPT !.sent = x]]
  BY <1>4, <1>5
<1>9. [f EXCEPT ![c].pc = p, ![c].status = x, ![c].vhost = v, ![c].route = i, ![c].client = q] =
        [f EXCEPT ![c] = [[[[[r EXCEPT !.pc = p] EXCEPT !.status = x] EXCEPT !.vhost = v] EXCEPT !.route = i] EXCEPT !.client = q]]
  BY <1>4, <1>7
<1> QED
  BY <1>2, <1>5, <1>6, <1>7, <1>8, <1>9, Zenon DEF SetPc, SetConfig, SetStatus, SetSent, SetChoice, Put

\* The request of c has become e, and nothing of the other requests changes.
Becomes(c, e) == request' = Put(request, c, e) /\ UNCHANGED <<scenario, active>>

LEMMA RequestsInvBecomes ==
    ASSUME RequestsInv, NEW c \in Clients, NEW e, Becomes(c, e), EntryFits(scenario, active, c, e)
    PROVE  RequestsInv' /\ request'[c] = e /\ \A d \in Clients \ {c} : request'[d] = request[d]
<1>1. request = [d \in Clients |-> request[d]] /\ request' = [request EXCEPT ![c] = e]
  BY DEF RequestsInv, Becomes, Put
<1>2. request'[c] = e /\ \A d \in Clients \ {c} : request'[d] = request[d]
  BY <1>1
<1>3. request' = [d \in Clients |-> request'[d]]
  BY <1>1
<1>4. scenario' = scenario /\ active' = active /\ Clients' = Clients
  BY DEF Becomes, Clients
<1>5. \A d \in Clients : EntryFits(scenario, active, d, request'[d])
  BY <1>2 DEF RequestsInv
<1> QED
  BY <1>2, <1>3, <1>4, <1>5 DEF RequestsInv

\* What the types say of one request.
LEMMA EntryHere ==
    ASSUME RequestsInv, NEW c \in DOMAIN request
    PROVE  /\ DOMAIN request = Clients /\ c \in Clients
           /\ EntryFits(scenario, active, c, request[c]) /\ IsEntry(request[c])
           /\ request = [d \in Clients |-> request[d]]
<1>1. DOMAIN request = Clients
  BY DEF RequestsInv
<1> QED
  BY <1>1 DEF RequestsInv, EntryFits

\* What the actions compute is what the record of the request says.
LEMMA DecisionsAt ==
    ASSUME NEW c
    PROVE  /\ Config(c) = ConfigAt(scenario, request[c]) /\ Kind(c) = scenario.requests[c]
           /\ AddressOf(c) = AddressAt(scenario, c, request[c]) /\ VhostOf(c) = VhostAt(scenario, c, request[c])
           /\ ContextOf(c) = ContextAt(scenario, c) /\ PathOfRequest(c) = PathAt(scenario, c)
           /\ RouteOfRequest(c) = RouteAt(scenario, c, request[c])
           /\ RouteTaken(c) = TakenAt(scenario, request[c]) /\ RouteId(c) = IdsAt(scenario, request[c])
           /\ SentRequest(c) = SentAt(scenario, c, request[c])
<1>1. Config(c) = ConfigAt(scenario, request[c]) /\ Kind(c) = scenario.requests[c]
  BY Zenon DEF Config, ConfigAt, Kind
<1>2. AddressOf(c) = AddressAt(scenario, c, request[c]) /\ VhostOf(c) = VhostAt(scenario, c, request[c])
  BY <1>1, Zenon DEF AddressOf, AddressAt, VhostOf, VhostAt
<1>3. PathOfRequest(c) = PathAt(scenario, c)
  BY <1>1, Zenon DEF PathOfRequest, PathAt
<1>4. ContextOf(c) = ContextAt(scenario, c)
  BY <1>1, <1>3, Zenon DEF ContextOf, ContextAt, GrpcOf
<1>5. RouteOfRequest(c) = RouteAt(scenario, c, request[c])
  BY <1>1, <1>2, <1>4, Zenon DEF RouteOfRequest, RouteAt
<1>6. RouteTaken(c) = TakenAt(scenario, request[c])
  BY <1>1, Zenon DEF RouteTaken, TakenAt
<1>7. RouteId(c) = IdsAt(scenario, request[c])
  BY <1>1, Zenon DEF RouteId, IdsAt
<1>8. SentRequest(c) = SentAt(scenario, c, request[c])
  BY <1>1, <1>6, Zenon DEF SentRequest, SentAt
<1> QED
  BY <1>1, <1>2, <1>3, <1>4, <1>5, <1>6, <1>7, <1>8, Zenon

-----------------------------------------------------------------------------
(* Dispatch: the steps of one request.                                     *)

\* The request of c moves to p, with what was decided.
Moves(c, p, status, sent) ==
    LET r == request[c]
    IN  Becomes(c, EntryOf(p, r.config, r.vhost, r.route, r.client, status, sent))

\* The request of c is given its address, virtual host and route.
Selects(c, p, status) ==
    LET r == request[c]
    IN  Becomes(c, EntryOf(p, r.config, VhostAt(scenario, c, r), RouteAt(scenario, c, r), {AddressAt(scenario, c, r)},
                           status, r.sent))

LEMMA MoveSteps ==
    ASSUME RequestsInv, NEW c \in DOMAIN request
    PROVE  LET r == request[c]
           IN  /\ TakeSnapshot(c) =>
                    Becomes(c, EntryOf("snapshot", active, r.vhost, r.route, r.client, r.status, r.sent))
               /\ AnswerChallenge(c) => Moves(c, "done", 200, r.sent)
               /\ Forward(c) => Moves(c, "forwarded", r.status, {SentAt(scenario, c, r)})
               /\ ActionAnswers(c) => Moves(c, "answered", 200, r.sent)
               /\ FinishResponse(c) =>
                    Moves(c, IF GrpcOf(c) # {} THEN "streaming" ELSE "done", r.status, r.sent)
               /\ \A found : DropBody(c, found) => Moves(c, "ended", r.status, r.sent)
               /\ ClientLeaves(c) => Moves(c, IF r.pc = "new" THEN "never" ELSE "gone", r.status, r.sent)
<1> DEFINE r == request[c]
<1>1. /\ c \in Clients /\ IsEntry(r) /\ request = [d \in Clients |-> request[d]]
  BY EntryHere
<1>2. ASSUME NEW p
      PROVE  SetPc(request, c, p) = Put(request, c, EntryOf(p, r.config, r.vhost, r.route, r.client, r.status, r.sent))
  BY <1>1, RecordUpdates
<1>3. ASSUME NEW p, NEW x
      PROVE  /\ SetConfig(request, c, p, x) = Put(request, c, EntryOf(p, x, r.vhost, r.route, r.client, r.status, r.sent))
             /\ SetStatus(request, c, p, x) = Put(request, c, EntryOf(p, r.config, r.vhost, r.route, r.client, x, r.sent))
             /\ SetSent(request, c, p, x) = Put(request, c, EntryOf(p, r.config, r.vhost, r.route, r.client, r.status, x))
  BY <1>1, RecordUpdates
<1>4. TakeSnapshot(c) => Becomes(c, EntryOf("snapshot", active, r.vhost, r.route, r.client, r.status, r.sent))
  <2>1. TakeSnapshot(c) => request' = SetConfig(request, c, "snapshot", active) /\ UNCHANGED <<scenario, active>>
    BY Zenon DEF TakeSnapshot, SetConfig
  <2> QED
    BY <1>3, <2>1, Zenon DEF Becomes
<1>5. AnswerChallenge(c) => Moves(c, "done", 200, r.sent)
  <2>1. AnswerChallenge(c) => request' = SetStatus(request, c, "done", 200) /\ UNCHANGED <<scenario, active>>
    BY Zenon DEF AnswerChallenge, SetStatus
  <2> QED
    BY <1>3, <2>1, Zenon DEF Becomes, Moves
<1>6. Forward(c) => Moves(c, "forwarded", r.status, {SentAt(scenario, c, r)})
  <2>1. SentRequest(c) = SentAt(scenario, c, r)
    BY DecisionsAt
  <2>2. PICK x : x = {SentAt(scenario, c, r)}
    BY Zenon
  <2>3. {SentRequest(c)} = x
    BY <2>1, <2>2, Zenon
  <2>4. Forward(c) => request' = SetSent(request, c, "forwarded", x) /\ UNCHANGED <<scenario, active>>
    BY <2>3, Zenon DEF Forward, SetSent
  <2>5. Forward(c) => request' = Put(request, c, EntryOf("forwarded", r.config, r.vhost, r.route, r.client, r.status, x))
    BY <1>3, <2>4, Zenon
  <2> QED
    BY <2>2, <2>4, <2>5, Zenon DEF Becomes, Moves
<1>7. ActionAnswers(c) => Moves(c, "answered", 200, r.sent)
  <2>1. ActionAnswers(c) => request' = SetStatus(request, c, "answered", 200) /\ UNCHANGED <<scenario, active>>
    BY Zenon DEF ActionAnswers, SetStatus
  <2> QED
    BY <1>3, <2>1, Zenon DEF Becomes, Moves
<1>8. FinishResponse(c) => Moves(c, IF GrpcOf(c) # {} THEN "streaming" ELSE "done", r.status, r.sent)
  <2> DEFINE p == IF GrpcOf(c) # {} THEN "streaming" ELSE "done"
  <2>1. FinishResponse(c) => request' = SetPc(request, c, p) /\ UNCHANGED <<scenario, active>>
    BY Zenon DEF FinishResponse, SetPc
  <2> HIDE DEF p
  <2>2. FinishResponse(c) => Moves(c, p, r.status, r.sent)
    BY <1>2, <2>1, Zenon DEF Becomes, Moves
  <2> QED
    BY <2>2, Zenon DEF p
<1>9. \A found : DropBody(c, found) => Moves(c, "ended", r.status, r.sent)
  <2>1. \A found : DropBody(c, found) => request' = SetPc(request, c, "ended") /\ UNCHANGED <<scenario, active>>
    BY Zenon DEF DropBody, SetPc
  <2> QED
    BY <1>2, <2>1, Zenon DEF Becomes, Moves
<1>10. ClientLeaves(c) => Moves(c, IF r.pc = "new" THEN "never" ELSE "gone", r.status, r.sent)
  <2> DEFINE p == IF r.pc = "new" THEN "never" ELSE "gone"
  <2>1. ClientLeaves(c) => request' = SetPc(request, c, p) /\ UNCHANGED <<scenario, active>>
    BY Zenon DEF ClientLeaves, SetPc
  <2> HIDE DEF p
  <2>2. ClientLeaves(c) => Moves(c, p, r.status, r.sent)
    BY <1>2, <2>1, Zenon DEF Becomes, Moves
  <2> QED
    BY <2>2, Zenon DEF p
<1> QED
  BY <1>4, <1>5, <1>6, <1>7, <1>8, <1>9, <1>10, Zenon

LEMMA SelectSteps ==
    ASSUME RequestsInv, NEW c \in DOMAIN request
    PROVE  /\ NoRoute(c) => Selects(c, "answered", 404)
           /\ RejectEarlyData(c) => Selects(c, "answered", 425)
           /\ Deny(c) => Selects(c, "answered", 403)
           /\ RejectRateLimited(c) => Selects(c, "answered", 429)
           /\ Execute(c) => Selects(c, "executing", 0)
<1> DEFINE r == request[c]
<1>1. /\ c \in Clients /\ IsEntry(r) /\ request = [d \in Clients |-> request[d]]
  BY EntryHere
<1>2. ASSUME NEW p, NEW x, NEW v, NEW i, NEW q
      PROVE  SetChoice(request, c, p, x, v, i, q) = Put(request, c, EntryOf(p, r.config, v, i, q, x, r.sent))
  BY <1>1, RecordUpdates
<1>3. AddressOf(c) = AddressAt(scenario, c, r) /\ VhostOf(c) = VhostAt(scenario, c, r)
      /\ RouteOfRequest(c) = RouteAt(scenario, c, r)
  BY DecisionsAt
<1>4. ASSUME NEW p, NEW x, Select(c, p, x), UNCHANGED <<scenario, active>> PROVE Selects(c, p, x)
  <2>1. PICK v, i, q : v = VhostAt(scenario, c, r) /\ i = RouteAt(scenario, c, r) /\ q = {AddressAt(scenario, c, r)}
    BY Zenon
  <2>2. VhostOf(c) = v /\ RouteOfRequest(c) = i /\ {AddressOf(c)} = q
    BY <1>3, <2>1, Zenon
  <2>3. request' = SetChoice(request, c, p, x, v, i, q)
    BY <1>4, <2>2, Zenon DEF Select, SetChoice
  <2>4. request' = Put(request, c, EntryOf(p, r.config, v, i, q, x, r.sent))
    BY <1>2, <2>3, Zenon
  <2> QED
    BY <1>4, <2>1, <2>4, Zenon DEF Selects, Becomes
<1> HIDE DEF r
<1>5. NoRoute(c) => Selects(c, "answered", 404)
  BY <1>4, Zenon DEF NoRoute
<1>6. RejectEarlyData(c) => Selects(c, "answered", 425)
  BY <1>4, Zenon DEF RejectEarlyData
<1>7. Deny(c) => Selects(c, "answered", 403)
  BY <1>4, Zenon DEF Deny
<1>8. RejectRateLimited(c) => Selects(c, "answered", 429)
  BY <1>4, Zenon DEF RejectRateLimited
<1>9. Execute(c) => Selects(c, "executing", 0)
  BY <1>4, Zenon DEF Execute
<1> QED
  BY <1>5, <1>6, <1>7, <1>8, <1>9, Zenon

\* The checks that Execute makes are the ones the record must show.
LEMMA ExecuteChecks ==
    ASSUME RequestsInv, NEW c \in DOMAIN request, Execute(c), NEW e, NEW st,
           e = EntryOf("executing", request[c].config, VhostAt(scenario, c, request[c]), RouteAt(scenario, c, request[c]),
                       {AddressAt(scenario, c, request[c])}, st, request[c].sent)
    PROVE  Checked(scenario, c, e)
<1> DEFINE r == request[c]
<1>1. AddressOf(c) = AddressAt(scenario, c, r) /\ VhostOf(c) = VhostAt(scenario, c, r)
      /\ RouteOfRequest(c) = RouteAt(scenario, c, r) /\ Config(c) = ConfigAt(scenario, r) /\ Kind(c) = scenario.requests[c]
  BY DecisionsAt
<1>0. Fields(e, "executing", r.config, VhostAt(scenario, c, r), RouteAt(scenario, c, r), {AddressAt(scenario, c, r)}, st, r.sent)
  BY EntryFields, Zenon
<1>2. e.config = r.config /\ e.vhost = VhostOf(c) /\ e.route = RouteOfRequest(c) /\ e.client = {AddressOf(c)}
  BY <1>0, <1>1, Zenon DEF Fields
<1> HIDE DEF r
<1>3. TakenAt(scenario, e) = SelectedRoute(c)
  <2>1. ConfigAt(scenario, e) = Config(c)
    BY <1>1, <1>2, Zenon DEF ConfigAt
  <2> QED
    BY <1>2, <2>1, Zenon DEF TakenAt, SelectedRoute
<1>4. AddressAt(scenario, c, e) = AddressOf(c)
  BY <1>1, <1>2, SameDecisions, Zenon
<1>5. RouteOfRequest(c) # {} /\ ~EarlyDataRejected(c) /\ Authorized(c)
  BY DEF Execute
<1>6. e.client # {} /\ e.route # {}
  BY <1>2, <1>5
<1>7. scenario.requests[c].early => SelectedRoute(c).early
  BY <1>1, <1>5 DEF EarlyDataRejected
<1>8. Allows(SelectedRoute(c), AddressOf(c).ip)
  BY <1>5, Zenon DEF Authorized
<1> QED
  BY <1>3, <1>4, <1>6, <1>7, <1>8, Zenon DEF Checked

\* A step of one request leaves every record as it should be.
Steps(c, e) ==
    /\ Becomes(c, e) /\ EntryFits(scenario, active, c, e)
    /\ RequestsInv' /\ request'[c] = e /\ \A d \in Clients \ {c} : request'[d] = request[d]

\* The places a request may move to without any other change than its status.
MayMove(c, p) ==
    \/ p \in {"answered", "streaming", "ended", "done", "gone"} /\ request[c].client # {}
    \/ p = "never" /\ request[c].pc = "new"
    \/ p = "done" /\ request[c].pc = "snapshot"

LEMMA MoveFits ==
    ASSUME RequestsInv, NEW c \in DOMAIN request, NEW p, NEW st, MayMove(c, p),
           Moves(c, p, st, request[c].sent)
    PROVE  LET r == request[c] IN Steps(c, EntryOf(p, r.config, r.vhost, r.route, r.client, st, r.sent))
<1> DEFINE r == request[c]
           e == EntryOf(p, r.config, r.vhost, r.route, r.client, st, r.sent)
<1>1. c \in Clients /\ EntryFits(scenario, active, c, r)
  BY EntryHere
<1>2. Becomes(c, e)
  BY Zenon DEF Moves
<1>3. e = EntryOf(p, r.config, r.vhost, r.route, r.client, st, r.sent)
  OBVIOUS
<1> HIDE DEF e
<1>4. EntryFits(scenario, active, c, e)
  BY <1>1, <1>3, EntryMoves DEF MayMove
<1>5. Steps(c, e)
  BY <1>1, <1>2, <1>4, RequestsInvBecomes DEF Steps
<1> QED
  BY <1>5 DEF e

LEMMA SelectFits ==
    ASSUME RequestsInv, NEW c \in DOMAIN request, request[c].pc = "snapshot", NEW p, NEW st, Selects(c, p, st),
           p = "answered" \/ (p = "executing" /\ Execute(c))
    PROVE  LET r == request[c]
           IN  Steps(c, EntryOf(p, r.config, VhostAt(scenario, c, r), RouteAt(scenario, c, r),
                                {AddressAt(scenario, c, r)}, st, r.sent))
<1> DEFINE r == request[c]
           e == EntryOf(p, r.config, VhostAt(scenario, c, r), RouteAt(scenario, c, r), {AddressAt(scenario, c, r)}, st, r.sent)
<1>1. c \in Clients /\ EntryFits(scenario, active, c, r)
  BY EntryHere
<1>2. Becomes(c, e)
  BY Zenon DEF Selects
<1>3. e = EntryOf(p, r.config, VhostAt(scenario, c, r), RouteAt(scenario, c, r), {AddressAt(scenario, c, r)}, st, r.sent)
  OBVIOUS
<1> HIDE DEF e
<1>4. p = "answered" \/ (p = "executing" /\ Checked(scenario, c, e))
  BY <1>3, ExecuteChecks, Zenon
<1>5. EntryFits(scenario, active, c, e)
  BY <1>1, <1>3, <1>4, EntrySelected
<1>6. Steps(c, e)
  BY <1>1, <1>2, <1>5, RequestsInvBecomes DEF Steps
<1> QED
  BY <1>6 DEF e

\* The scenario of a process: its configurations and requests.
LEMMA ActiveNatural ==
    ASSUME scenario \in DispatchScenarios, active \in 1 .. Len(scenario.configs)
    PROVE  /\ active \in Nat /\ active > 0 /\ Len(scenario.configs) \in Nat
           /\ \A k \in 1 .. Len(scenario.configs) : IsConfig(scenario.configs[k])
<1>1. IsScenario(scenario)
  BY DispatchAssumption
<1>2. scenario.configs \in Seq(Range(scenario.configs)) /\ \A config \in Range(scenario.configs) : IsConfig(config)
  BY <1>1, Zenon DEF IsScenario, IsSequence
<1>3. Len(scenario.configs) \in Nat /\ DOMAIN scenario.configs = 1 .. Len(scenario.configs)
  BY <1>2
<1>4. \A k \in 1 .. Len(scenario.configs) : scenario.configs[k] \in Range(scenario.configs)
  BY <1>3 DEF Range
<1> QED
  BY <1>2, <1>3, <1>4

\* A step that is not the selection keeps a request open or closed; the end of the
\* response closes it.
IsOpen(r) == r.client # {} /\ r.pc \in {"executing", "forwarded", "answered", "gone"}

\* What one request becomes, in a step that gives it no route.
KeepsOpen(c, e) ==
    LET r == request[c]
    IN  /\ Steps(c, e) /\ e.client = r.client /\ (e.pc = "ended" <=> r.pc = "ended")
        /\ IsOpen(e) <=> IsOpen(r)
        /\ IsOpen(r) => e.config = r.config /\ e.vhost = r.vhost /\ e.route = r.route
        /\ r.client # {} => e.status \in {r.status, 200}

\* What one request becomes, in a step that gives it a route.
Opens(c, e, status) ==
    LET r == request[c]
    IN  /\ r.pc = "snapshot" /\ Steps(c, e) /\ e.pc # "ended" /\ e.client # {} /\ e.status = status
        /\ IsOpen(e) /\ IdsAt(scenario, e) = SelectedIds(c)

LEMMA TakeSnapshotKeeps ==
    ASSUME RequestsInv, NEW c \in DOMAIN request, TakeSnapshot(c)
    PROVE  \E e : KeepsOpen(c, e)
<1> DEFINE r == request[c]
           e == EntryOf("snapshot", active, r.vhost, r.route, r.client, r.status, r.sent)
<1>1. c \in Clients /\ EntryFits(scenario, active, c, r)
  BY EntryHere
<1>2. Becomes(c, e)
  BY MoveSteps
<1>3. r.pc = "new" /\ active \in Nat /\ active > 0
  <2>1. active \in 1 .. Len(scenario.configs)
    BY DEF RequestsInv
  <2>2. r.pc = "new"
    BY DEF TakeSnapshot
  <2> QED
    BY <2>1, <2>2, ActiveNatural
<1>4. EntryFits(scenario, active, c, e)
  <2>1. e = EntryOf("snapshot", active, r.vhost, r.route, r.client, r.status, r.sent)
    OBVIOUS
  <2> HIDE DEF e
  <2> QED
    BY <1>1, <1>3, <2>1, EntrySnapshot
<1>5. Fields(e, "snapshot", active, r.vhost, r.route, r.client, r.status, r.sent)
  BY EntryFields, Zenon
<1> HIDE DEF e
<1>6. Steps(c, e)
  BY <1>1, <1>2, <1>4, RequestsInvBecomes DEF Steps
<1>7. r.client = {}
  BY <1>1, <1>3 DEF EntryFits
<1>8. e.client = r.client /\ e.pc = "snapshot"
  BY <1>5, Zenon DEF Fields
<1>9. KeepsOpen(c, e)
  BY <1>3, <1>6, <1>7, <1>8 DEF KeepsOpen, IsOpen
<1> QED
  BY <1>9

\* The request moves on with what was decided.
LEMMA MoveKeeps ==
    ASSUME RequestsInv, NEW c \in DOMAIN request, NEW p, NEW st,
           \/ p \in {"answered", "gone"} /\ request[c].pc \in {"executing", "forwarded", "answered"}
           \/ p = "never" /\ request[c].pc = "new"
           \/ p = "done" /\ request[c].pc = "snapshot",
           st \in {request[c].status, 200}, Moves(c, p, st, request[c].sent)
    PROVE  \E e : KeepsOpen(c, e)
<1> DEFINE r == request[c]
           e == EntryOf(p, r.config, r.vhost, r.route, r.client, st, r.sent)
<1>1. c \in Clients /\ EntryFits(scenario, active, c, r)
  BY EntryHere
<1>2. /\ r.pc \in {"executing", "forwarded", "answered"} => r.client # {}
      /\ r.pc \in {"new", "snapshot"} => r.client = {}
  BY <1>1 DEF EntryFits
<1>3. Steps(c, e)
  <2>1. MayMove(c, p)
    BY <1>2 DEF MayMove
  <2> HIDE DEF r
  <2> QED
    BY <2>1, MoveFits, SMT DEF r
<1>5. Fields(e, p, r.config, r.vhost, r.route, r.client, st, r.sent)
  BY EntryFields
<1> HIDE DEF e
<1>6. e.pc = p /\ e.config = r.config /\ e.vhost = r.vhost /\ e.route = r.route /\ e.client = r.client /\ e.status = st
  BY <1>5, Zenon DEF Fields
<1>7. KeepsOpen(c, e)
  BY <1>2, <1>3, <1>6 DEF KeepsOpen, IsOpen
<1> QED
  BY <1>7

LEMMA ForwardKeeps ==
    ASSUME RequestsInv, NEW c \in DOMAIN request, Forward(c)
    PROVE  \E e : KeepsOpen(c, e)
<1> DEFINE r == request[c]
           e == EntryOf("forwarded", r.config, r.vhost, r.route, r.client, r.status, {SentAt(scenario, c, r)})
<1>1. c \in Clients /\ EntryFits(scenario, active, c, r)
  BY EntryHere
<1>2. Becomes(c, e)
  BY MoveSteps DEF Moves
<1>3. r.pc = "executing"
  BY DEF Forward
<1>4. EntryFits(scenario, active, c, e)
  <2>1. e = EntryOf("forwarded", r.config, r.vhost, r.route, r.client, r.status, {SentAt(scenario, c, r)})
    OBVIOUS
  <2> HIDE DEF e
  <2> QED
    BY <1>1, <1>3, <2>1, EntryForwarded
<1>5. Fields(e, "forwarded", r.config, r.vhost, r.route, r.client, r.status, {SentAt(scenario, c, r)})
  BY EntryFields, Zenon
<1> HIDE DEF e
<1>6. Steps(c, e)
  BY <1>1, <1>2, <1>4, RequestsInvBecomes DEF Steps
<1>7. e.pc = "forwarded" /\ e.config = r.config /\ e.vhost = r.vhost /\ e.route = r.route /\ e.client = r.client
      /\ e.status = r.status
  BY <1>5, Zenon DEF Fields
<1>8. KeepsOpen(c, e)
  BY <1>3, <1>6, <1>7 DEF KeepsOpen, IsOpen
<1> QED
  BY <1>8

\* The response ends, and after it the body of a gRPC response.
LEMMA FinishCloses ==
    ASSUME RequestsInv, NEW c \in DOMAIN request, FinishResponse(c)
    PROVE  \E e : /\ Steps(c, e) /\ IsOpen(request[c]) /\ ~IsOpen(e) /\ e.pc # "ended" /\ request[c].pc # "ended"
                  /\ e.client = request[c].client /\ e.status = request[c].status
<1> DEFINE r == request[c]
           p == IF GrpcOf(c) # {} THEN "streaming" ELSE "done"
           e == EntryOf(p, r.config, r.vhost, r.route, r.client, r.status, r.sent)
<1>1. c \in Clients /\ EntryFits(scenario, active, c, r)
  BY EntryHere
<1>2. r.pc = "answered"
  BY DEF FinishResponse
<1>3. r.client # {}
  BY <1>1, <1>2 DEF EntryFits
<1>4. p \in {"streaming", "done"}
  OBVIOUS
<1>5. Moves(c, p, r.status, r.sent)
  BY MoveSteps
<1> HIDE DEF p
<1>6. Steps(c, e)
  <2>1. MayMove(c, p)
    BY <1>3, <1>4 DEF MayMove
  <2> QED
    BY <1>5, <2>1, MoveFits, Zenon
<1>7. Fields(e, p, r.config, r.vhost, r.route, r.client, r.status, r.sent)
  BY EntryFields, Zenon
<1> HIDE DEF e
<1>8. e.pc = p /\ e.client = r.client /\ e.status = r.status
  BY <1>7, Zenon DEF Fields
<1> QED
  BY <1>2, <1>3, <1>4, <1>6, <1>8 DEF IsOpen

LEMMA EndCloses ==
    ASSUME RequestsInv, NEW c \in DOMAIN request, NEW found, DropBody(c, found)
    PROVE  \E e : /\ Steps(c, e) /\ ~IsOpen(request[c]) /\ ~IsOpen(e) /\ e.pc = "ended" /\ request[c].pc # "ended"
                  /\ e.client = request[c].client /\ e.status = request[c].status
<1> DEFINE r == request[c]
           e == EntryOf("ended", r.config, r.vhost, r.route, r.client, r.status, r.sent)
<1>1. c \in Clients /\ EntryFits(scenario, active, c, r)
  BY EntryHere
<1>2. r.pc = "streaming"
  BY DEF DropBody
<1>3. r.client # {}
  BY <1>1, <1>2 DEF EntryFits
<1>5. Moves(c, "ended", r.status, r.sent)
  BY MoveSteps
<1>6. Steps(c, e)
  <2>1. MayMove(c, "ended")
    BY <1>3 DEF MayMove
  <2> QED
    BY <1>5, <2>1, MoveFits, Zenon
<1>7. Fields(e, "ended", r.config, r.vhost, r.route, r.client, r.status, r.sent)
  BY EntryFields, Zenon
<1> HIDE DEF e
<1>8. e.pc = "ended" /\ e.client = r.client /\ e.status = r.status
  BY <1>7, Zenon DEF Fields
<1> QED
  BY <1>2, <1>6, <1>8 DEF IsOpen

LEMMA SelectOpens ==
    ASSUME RequestsInv, NEW c \in DOMAIN request, request[c].pc = "snapshot", NEW p, NEW st, Selects(c, p, st),
           p = "answered" \/ (p = "executing" /\ Execute(c))
    PROVE  \E e : Opens(c, e, st)
<1> DEFINE r == request[c]
           v == VhostAt(scenario, c, r)
           i == RouteAt(scenario, c, r)
           q == {AddressAt(scenario, c, r)}
           e == EntryOf(p, r.config, v, i, q, st, r.sent)
<1>1. Steps(c, e)
  BY SelectFits, Zenon
<1>2. Fields(e, p, r.config, v, i, q, st, r.sent)
  BY EntryFields, Zenon
<1> HIDE DEF e
<1>3. e.pc = p /\ e.config = r.config /\ e.vhost = v /\ e.route = i /\ e.client = q /\ e.status = st
  BY <1>2, Zenon DEF Fields
<1>4. IdsAt(scenario, e) = SelectedIds(c)
  <2>1. Config(c) = ConfigAt(scenario, r) /\ VhostOf(c) = v /\ RouteOfRequest(c) = i
    BY DecisionsAt
  <2>2. ConfigAt(scenario, e) = Config(c)
    BY <1>3, <2>1, Zenon DEF ConfigAt
  <2> HIDE DEF v, i
  <2> QED
    BY <1>3, <2>1, <2>2, Zenon DEF IdsAt, SelectedIds
<1>5. e.client # {}
  BY <1>3
<1>6. IsOpen(e) /\ e.pc # "ended"
  BY <1>3, <1>5 DEF IsOpen
<1>7. Opens(c, e, st)
  BY <1>1, <1>3, <1>4, <1>5, <1>6, Zenon DEF Opens
<1> QED
  BY <1>7

-----------------------------------------------------------------------------
(* Dispatch: what the records say of the requests.                         *)

\* The routes of the virtual host of a request.
LEMMA RoutesOfVhost ==
    ASSUME NEW config, IsConfig(config), NEW v \in 0 .. Len(config.vhosts)
    PROVE  IsRoutes(VhostRoutes(config, v)) /\ IsVhosts(config.vhosts)
<1>1. IsSequence(config.vhosts) /\ \A w \in Range(config.vhosts) : IsNames(w.names) /\ IsRoutes(w.routes)
  BY DEF IsConfig
<1>2. IsVhosts(config.vhosts)
  BY <1>1 DEF IsVhosts
<1>3. CASE v = 0
  BY <1>2, <1>3 DEF VhostRoutes, IsConfig
<1>4. CASE v # 0
  <2>1. v \in 1 .. Len(config.vhosts)
    BY <1>2, <1>4, VhostFacts
  <2>2. config.vhosts[v] \in Range(config.vhosts)
    BY <1>2, <2>1, VhostFacts
  <2>3. VhostRoutes(config, v) = config.vhosts[v].routes
    BY <1>4 DEF VhostRoutes
  <2> QED
    BY <1>1, <1>2, <2>2, <2>3
<1> QED
  BY <1>3, <1>4

\* What the record of a request that was given a route says of its selection.
LEMMA SelectionAt ==
    ASSUME NEW s \in DispatchScenarios, NEW a \in 1 .. Len(s.configs), NEW c \in DOMAIN s.requests, NEW r,
           EntryFits(s, a, c, r), r.client # {}
    PROVE  /\ IsConfig(ConfigAt(s, r)) /\ IsRequest(s.requests[c])
           /\ FirstBestVhost(ConfigAt(s, r).vhosts, s.requests[c].host, r.vhost)
           /\ IsRoutes(VhostRoutes(ConfigAt(s, r), r.vhost))
           /\ r.route = MostSpecific(VhostRoutes(ConfigAt(s, r), r.vhost), ContextAt(s, c))
           /\ r.client = {AddressAt(s, c, r)} /\ Vouched(AddressAt(s, c, r), ConfigAt(s, r), s.requests[c])
           /\ r.route # {} => IsRoute(TakenAt(s, r))
<1>1. IsScenario(s)
  BY DispatchAssumption
<1>2. IsRequest(s.requests[c])
  BY <1>1, Zenon DEF IsScenario
<1>3. r.pc \notin {"new", "never"} /\ Chosen(s, c, r)
  BY DEF EntryFits
<1>4. r.config \in 1 .. a
  BY <1>3 DEF EntryFits
<1>5. IsConfig(ConfigAt(s, r))
  <2>1. s.configs \in Seq(Range(s.configs)) /\ \A config \in Range(s.configs) : IsConfig(config)
    BY <1>1, Zenon DEF IsScenario, IsSequence
  <2>2. Len(s.configs) \in Nat /\ DOMAIN s.configs = 1 .. Len(s.configs)
    BY <2>1
  <2>3. r.config \in DOMAIN s.configs
    BY <1>4, <2>2
  <2>4. s.configs[r.config] \in Range(s.configs)
    BY <2>3 DEF Range
  <2> QED
    BY <2>1, <2>4 DEF ConfigAt
<1> DEFINE config == ConfigAt(s, r)
           routes == VhostRoutes(config, r.vhost)
<1>6. IsVhosts(config.vhosts)
  BY <1>5 DEF IsConfig, IsVhosts
<1>7. r.vhost = SelectVhost(config.vhosts, s.requests[c].host)
  BY <1>3 DEF Chosen, VhostAt
<1>8. FirstBestVhost(config.vhosts, s.requests[c].host, r.vhost) /\ r.vhost \in 0 .. Len(config.vhosts)
  <2> HIDE DEF config
  <2> QED
    BY <1>6, <1>7, VhostSelection
<1>9. IsRoutes(routes)
  <2> HIDE DEF config
  <2> QED
    BY <1>5, <1>8, RoutesOfVhost DEF config
<1>10. r.route = SelectRoute(routes, ContextAt(s, c))
  BY <1>3, <1>7, Zenon DEF Chosen, RouteAt, VhostAt
<1>11. r.route = MostSpecific(routes, ContextAt(s, c))
  <2> HIDE DEF routes
  <2> QED
    BY <1>9, <1>10, RouteSelection
<1>12. r.client = {AddressAt(s, c, r)} /\ Vouched(AddressAt(s, c, r), config, s.requests[c])
  <2>1. Vouched(ClientAddress(config, s.requests[c], s.requests[c]), config, s.requests[c])
    <3> HIDE DEF config
    <3> QED
      BY <1>2, AddressIsVouched
  <2> QED
    BY <1>3, <2>1 DEF Chosen, AddressAt
<1>13. ASSUME r.route # {} PROVE IsRoute(TakenAt(s, r))
  <2> DEFINE i == CHOOSE i \in r.route : TRUE
  <2>1. i \in r.route
    BY <1>13
  <2> HIDE DEF i
  <2>2. r.route \subseteq DOMAIN routes
    <3> HIDE DEF routes
    <3> QED
      BY <1>11 DEF MostSpecific
  <2>3. IsRoute(routes[i])
    <3> HIDE DEF routes
    <3> QED
      BY <1>9, <2>1, <2>2, RouteFacts
  <2> QED
    BY <2>3 DEF TakenAt, i
<1> QED
  BY <1>2, <1>5, <1>8, <1>9, <1>11, <1>12, <1>13

\* What was sent upstream: its path.
LEMMA SentPath ==
    ASSUME NEW q, IsRequest(q), NEW strip, IsOption(strip), strip \subseteq PathType
    PROVE  LET sent == ProxyPath(q.raw, strip)
               path == NormalizePath(q.raw)
           IN  /\ Range(sent.segs) \cap {".", "..", ""} = {}
               /\ NormalizePath(sent.segs \o (IF sent.slash THEN <<"">> ELSE <<>>)) = sent
               /\ sent = path \/ \E p \in strip : PrefixMatches(p, path) /\ p.segs \o sent.segs = path.segs
<1> DEFINE sent == ProxyPath(q.raw, strip)
           path == NormalizePath(q.raw)
<1>1. q.raw \in Seq(Segment) /\ q.raw # <<>>
  BY TextIsSegments DEF IsRequest
<1>2. IsNormal(sent) /\ (sent = path \/ \E p \in strip : PrefixMatches(p, path) /\ p.segs \o sent.segs = path.segs)
  BY <1>1, ProxyPathIs
<1> HIDE DEF sent, path
<1>3. NormalizePath(TextOf(sent)) = sent
  BY <1>2, NormalAgain
<1>4. sent.segs \in Seq(Clean)
  BY <1>2 DEF IsNormal
<1>5. Range(sent.segs) \cap {".", "..", ""} = {}
  <2>1. DOMAIN sent.segs = 1 .. Len(sent.segs) /\ \A i \in DOMAIN sent.segs : sent.segs[i] \in Clean
    BY <1>4
  <2>2. Clean \cap {".", "..", ""} = {}
    BY DEF Clean
  <2>3. \A x \in Range(sent.segs) : x \in Clean
    BY <2>1 DEF Range
  <2> QED
    BY <2>2, <2>3
<1> QED
  BY <1>2, <1>3, <1>5, Zenon DEF sent, path, TextOf

\* What was sent upstream: its headers.
HeadersFit(sent, headers, listed, client, grpcWeb, overrides) ==
    LET overridden == {o.name : o \in Range(overrides)}
        ours(h, v) == h \in overridden \/ (h \in DOMAIN sent /\ sent[h] = v)
    IN  /\ ours("x-forwarded-for", client.forwardedFor)
        /\ ours("x-forwarded-proto", "proxy")
        /\ \A h \in (HopByHop \cup listed) \ overridden : h \in DOMAIN sent =>
             \/ h \in {"connection", "upgrade"} /\ Upgrades(headers, listed)
             \/ h = "te" /\ sent[h] = "trailers"
             \/ h = "content-type" /\ grpcWeb
             \/ h \in {"host", "x-forwarded-for", "x-forwarded-proto", "x-forwarded-host"}

LEMMA SentHeaders ==
    ASSUME NEW headers, NEW listed, NEW client, NEW preserveHost, NEW grpcWeb, NEW overrides, IsSequence(overrides)
    PROVE  HeadersFit(SanitizeRequestHeaders(headers, listed, client, preserveHost, grpcWeb, overrides),
                      headers, listed, client, grpcWeb, overrides)
<1> DEFINE base == ProxyHeaders(headers, listed, client, preserveHost, grpcWeb)
           sent == WithOverrides(base, headers, client, overrides)
           overridden == {o.name : o \in Range(overrides)}
           Same(h) == (h \in DOMAIN sent <=> h \in DOMAIN base) /\ (h \in DOMAIN base => sent[h] = base[h])
<1>1. SanitizeRequestHeaders(headers, listed, client, preserveHost, grpcWeb, overrides) = sent
  BY Zenon DEF SanitizeRequestHeaders
<1>2. OurHeaders(base, headers, listed, client, grpcWeb) /\ \E D, V : base \in [D -> V]
  BY ProxyHeadersOurs, Zenon
<1> HIDE DEF base
<1>3. ASSUME NEW h, h \notin overridden PROVE Same(h)
  <2>1. \A o \in Range(overrides) : h # o.name
    BY <1>3
  <2> QED
    BY <1>2, <2>1, OverridesKeep
<1> HIDE DEF sent, overridden, Same
<1>4. ASSUME "x-forwarded-for" \notin overridden
      PROVE  "x-forwarded-for" \in DOMAIN sent /\ sent["x-forwarded-for"] = client.forwardedFor
  <2>1. Same("x-forwarded-for")
    BY <1>3, <1>4, Zenon
  <2>2. "x-forwarded-for" \in DOMAIN base /\ base["x-forwarded-for"] = client.forwardedFor
    BY <1>2, Zenon DEF OurHeaders
  <2> QED
    BY <2>1, <2>2, Zenon DEF Same
<1>5. ASSUME "x-forwarded-proto" \notin overridden
      PROVE  "x-forwarded-proto" \in DOMAIN sent /\ sent["x-forwarded-proto"] = "proxy"
  <2>1. Same("x-forwarded-proto")
    BY <1>3, <1>5, Zenon
  <2>2. "x-forwarded-proto" \in DOMAIN base /\ base["x-forwarded-proto"] = "proxy"
    BY <1>2, Zenon DEF OurHeaders
  <2> QED
    BY <2>1, <2>2, Zenon DEF Same
<1>6. ASSUME NEW h \in (HopByHop \cup listed) \ overridden, h \in DOMAIN sent
      PROVE  \/ h \in {"connection", "upgrade"} /\ Upgrades(headers, listed)
             \/ h = "te" /\ sent[h] = "trailers"
             \/ h = "content-type" /\ grpcWeb
             \/ h \in {"host", "x-forwarded-for", "x-forwarded-proto", "x-forwarded-host"}
  <2>1. Same(h) /\ h \in HopByHop \cup listed
    BY <1>3
  <2>2. h \in DOMAIN base /\ sent[h] = base[h]
    BY <1>6, <2>1, Zenon DEF Same
  <2>3. h \in (HopByHop \cup listed) \cap DOMAIN base
    BY <2>1, <2>2
  <2>4. \/ h \in {"connection", "upgrade"} /\ Upgrades(headers, listed)
        \/ h = "te" /\ base[h] = "trailers"
        \/ h = "content-type" /\ grpcWeb
        \/ h \in {"host", "x-forwarded-for", "x-forwarded-proto", "x-forwarded-host"}
    BY <1>2, <2>3, Zenon DEF OurHeaders
  <2> QED
    BY <2>2, <2>4, Zenon
<1>7. HeadersFit(sent, headers, listed, client, grpcWeb, overrides)
  BY <1>4, <1>5, <1>6, Zenon DEF overridden, HeadersFit
<1> QED
  BY <1>1, <1>7, Zenon

\* The virtual host and the route are the ones the request should be served by.
LEMMA RoutesRight ==
    ASSUME RequestsInv
    PROVE  RouteIsMostSpecific
<1> SUFFICES ASSUME NEW c \in DOMAIN request, Past(c)
             PROVE  /\ FirstBestVhost(Config(c).vhosts, Kind(c).host, request[c].vhost)
                    /\ request[c].route = MostSpecific(VhostRoutes(Config(c), request[c].vhost), ContextOf(c))
  BY DEF RouteIsMostSpecific
<1> DEFINE r == request[c]
<1>1. c \in DOMAIN scenario.requests /\ EntryFits(scenario, active, c, r)
  BY EntryHere DEF Clients
<1>2. r.client # {}
  BY DEF Past
<1>3. scenario \in DispatchScenarios /\ active \in 1 .. Len(scenario.configs)
  BY DEF RequestsInv
<1>4. Config(c) = ConfigAt(scenario, r) /\ Kind(c) = scenario.requests[c] /\ ContextOf(c) = ContextAt(scenario, c)
  BY DecisionsAt
<1> HIDE DEF r
<1>5. /\ FirstBestVhost(ConfigAt(scenario, r).vhosts, scenario.requests[c].host, r.vhost)
      /\ r.route = MostSpecific(VhostRoutes(ConfigAt(scenario, r), r.vhost), ContextAt(scenario, c))
  BY <1>1, <1>2, <1>3, SelectionAt
<1> QED
  BY <1>4, <1>5, Zenon DEF r

\* The address is vouched for.
LEMMA AddressesVouched ==
    ASSUME RequestsInv
    PROVE  ClientAddressVouched
<1> SUFFICES ASSUME NEW c \in DOMAIN request, Past(c), NEW a \in request[c].client
             PROVE  Vouched(a, Config(c), Kind(c))
  BY Zenon DEF ClientAddressVouched, Vouched
<1> DEFINE r == request[c]
<1>1. c \in DOMAIN scenario.requests /\ EntryFits(scenario, active, c, r)
  BY EntryHere DEF Clients
<1>2. r.client # {}
  BY DEF Past
<1>3. scenario \in DispatchScenarios /\ active \in 1 .. Len(scenario.configs)
  BY DEF RequestsInv
<1>4. Config(c) = ConfigAt(scenario, r) /\ Kind(c) = scenario.requests[c]
  BY DecisionsAt
<1> HIDE DEF r
<1>5. r.client = {AddressAt(scenario, c, r)} /\ Vouched(AddressAt(scenario, c, r), ConfigAt(scenario, r), scenario.requests[c])
  BY <1>1, <1>2, <1>3, SelectionAt
<1>6. a = AddressAt(scenario, c, r)
  BY <1>5 DEF r
<1> QED
  BY <1>4, <1>5, <1>6, Zenon

\* What was sent is what follows from the selection.
LEMMA SentFacts ==
    ASSUME RequestsInv, NEW c \in DOMAIN request, NEW sent \in request[c].sent
    PROVE  /\ sent.path = ProxyPath(Kind(c).raw, RouteTaken(c).strip)
           /\ \E a : /\ request[c].client = {a}
                     /\ sent.headers = SanitizeRequestHeaders(Kind(c).headers, Kind(c).listed, a, RouteTaken(c).preserveHost,
                                                              Kind(c).grpc = "grpc-web", RouteTaken(c).overrides)
           /\ IsRequest(Kind(c)) /\ IsRoute(RouteTaken(c))
<1> DEFINE r == request[c]
<1>1. c \in DOMAIN scenario.requests /\ EntryFits(scenario, active, c, r)
  BY EntryHere DEF Clients
<1>2. r.client # {} /\ r.route # {} /\ sent = SentAt(scenario, c, r)
  BY <1>1 DEF EntryFits
<1>3. scenario \in DispatchScenarios /\ active \in 1 .. Len(scenario.configs)
  BY DEF RequestsInv
<1>4. Kind(c) = scenario.requests[c] /\ RouteTaken(c) = TakenAt(scenario, r)
  BY DecisionsAt
<1> HIDE DEF r
<1>5. r.client = {AddressAt(scenario, c, r)} /\ IsRequest(scenario.requests[c]) /\ IsRoute(TakenAt(scenario, r))
  BY <1>1, <1>2, <1>3, SelectionAt
<1> DEFINE a == AddressAt(scenario, c, r)
<1>6. (CHOOSE x \in r.client : TRUE) = a
  <2> HIDE DEF a
  <2>1. r.client = {a}
    BY <1>5 DEF a
  <2> QED
    BY <2>1
<1>7. /\ sent.path = ProxyPath(Kind(c).raw, RouteTaken(c).strip)
      /\ sent.headers = SanitizeRequestHeaders(Kind(c).headers, Kind(c).listed, CHOOSE x \in r.client : TRUE,
                                               RouteTaken(c).preserveHost, Kind(c).grpc = "grpc-web", RouteTaken(c).overrides)
  BY <1>2, <1>4 DEF SentAt
<1>8. sent.headers = SanitizeRequestHeaders(Kind(c).headers, Kind(c).listed, a,
                                            RouteTaken(c).preserveHost, Kind(c).grpc = "grpc-web", RouteTaken(c).overrides)
  BY <1>6, <1>7, Zenon
<1> HIDE DEF a
<1>9. request[c].client = {a}
  BY <1>5 DEF a, r
<1> QED
  BY <1>4, <1>5, <1>7, <1>8, <1>9, Zenon

LEMMA PathsForwarded ==
    ASSUME RequestsInv
    PROVE  AuthorizedPathIsForwarded
<1> SUFFICES ASSUME NEW c \in DOMAIN request, NEW sent \in request[c].sent
             PROVE  LET path == PathOfRequest(c)
                    IN  /\ Range(sent.path.segs) \cap {".", "..", ""} = {}
                        /\ NormalizePath(sent.path.segs \o (IF sent.path.slash THEN <<"">> ELSE <<>>)) = sent.path
                        /\ \/ sent.path = path
                           \/ \E p \in RouteTaken(c).strip : PrefixMatches(p, path) /\ p.segs \o sent.path.segs = path.segs
  BY Zenon DEF AuthorizedPathIsForwarded
<1>1. sent.path = ProxyPath(Kind(c).raw, RouteTaken(c).strip) /\ IsRequest(Kind(c)) /\ IsRoute(RouteTaken(c))
  BY SentFacts
<1>2. IsOption(RouteTaken(c).strip) /\ RouteTaken(c).strip \subseteq PathType
  BY <1>1, Zenon DEF IsRoute
<1>3. PICK q, strip, path : q = Kind(c) /\ strip = RouteTaken(c).strip /\ path = sent.path
  BY Zenon
<1>4. /\ Range(path.segs) \cap {".", "..", ""} = {}
      /\ NormalizePath(path.segs \o (IF path.slash THEN <<"">> ELSE <<>>)) = path
      /\ \/ path = NormalizePath(q.raw)
         \/ \E p \in strip : PrefixMatches(p, NormalizePath(q.raw)) /\ p.segs \o path.segs = NormalizePath(q.raw).segs
  <2>1. path = ProxyPath(q.raw, strip) /\ IsRequest(q) /\ IsOption(strip) /\ strip \subseteq PathType
    BY <1>1, <1>2, <1>3, Zenon
  <2> QED
    BY <2>1, SentPath, Zenon
<1>5. PathOfRequest(c) = NormalizePath(q.raw)
  BY <1>3, Zenon DEF PathOfRequest
<1> QED
  BY <1>3, <1>4, <1>5, Zenon

LEMMA HeadersOurs ==
    ASSUME RequestsInv
    PROVE  ForwardedHeadersAreOurs
<1> SUFFICES ASSUME NEW c \in DOMAIN request, NEW sent \in request[c].sent
             PROVE  LET overridden == {o.name : o \in Range(RouteTaken(c).overrides)}
                        ours(h, v) == h \in overridden \/ (h \in DOMAIN sent.headers /\ sent.headers[h] = v)
                    IN  /\ \A a \in request[c].client : ours("x-forwarded-for", a.forwardedFor)
                        /\ ours("x-forwarded-proto", "proxy")
                        /\ \A h \in (HopByHop \cup Kind(c).listed) \ overridden : h \in DOMAIN sent.headers =>
                             \/ h \in {"connection", "upgrade"} /\ Upgrades(Kind(c).headers, Kind(c).listed)
                             \/ h = "te" /\ sent.headers[h] = "trailers"
                             \/ h = "content-type" /\ Kind(c).grpc = "grpc-web"
                             \/ h \in {"host", "x-forwarded-for", "x-forwarded-proto", "x-forwarded-host"}
  BY Zenon DEF ForwardedHeadersAreOurs
<1>1. PICK a : /\ request[c].client = {a}
               /\ sent.headers = SanitizeRequestHeaders(Kind(c).headers, Kind(c).listed, a, RouteTaken(c).preserveHost,
                                                        Kind(c).grpc = "grpc-web", RouteTaken(c).overrides)
  BY SentFacts, Zenon
<1>2. IsSequence(RouteTaken(c).overrides)
  BY SentFacts DEF IsRoute
<1>3. PICK H, headers, listed, keep, web, overrides :
        /\ H = sent.headers /\ headers = Kind(c).headers /\ listed = Kind(c).listed
        /\ keep = RouteTaken(c).preserveHost /\ web = (Kind(c).grpc = "grpc-web") /\ overrides = RouteTaken(c).overrides
  BY Zenon
<1>4. H = SanitizeRequestHeaders(headers, listed, a, keep, web, overrides) /\ IsSequence(overrides)
  BY <1>1, <1>2, <1>3, Zenon
<1>5. HeadersFit(H, headers, listed, a, web, overrides)
  BY <1>4, SentHeaders, Zenon
<1>6. HeadersFit(sent.headers, Kind(c).headers, Kind(c).listed, a, Kind(c).grpc = "grpc-web", RouteTaken(c).overrides)
  BY <1>3, <1>5, Zenon
<1>7. \A b \in request[c].client : b = a
  BY <1>1
<1> QED
  BY <1>6, <1>7, Zenon DEF HeadersFit

-----------------------------------------------------------------------------
(* Dispatch: counters.                                                     *)

TrafficType == [requests : Nat, responses : Nat, denied : Nat, limited : Nat]

TrafficOf(requests, responses, denied, limited) ==
    [requests |-> requests, responses |-> responses, denied |-> denied, limited |-> limited]

Bumped(t, field) == [t EXCEPT ![field] = @ + 1]

\* What an increment does to each field.
BumpsOne(a, b, c, d) ==
    /\ Bumped(TrafficOf(a, b, c, d), "requests") = TrafficOf(a + 1, b, c, d)
    /\ Bumped(TrafficOf(a, b, c, d), "responses") = TrafficOf(a, b + 1, c, d)
    /\ Bumped(TrafficOf(a, b, c, d), "denied") = TrafficOf(a, b, c + 1, d)
    /\ Bumped(TrafficOf(a, b, c, d), "limited") = TrafficOf(a, b, c, d + 1)

LEMMA TrafficFields ==
    ASSUME NEW a, NEW b, NEW c, NEW d
    PROVE  BumpsOne(a, b, c, d)
<1>1. Bumped(TrafficOf(a, b, c, d), "requests") = TrafficOf(a + 1, b, c, d)
  BY DEF TrafficOf, Bumped
<1>2. Bumped(TrafficOf(a, b, c, d), "responses") = TrafficOf(a, b + 1, c, d)
  BY DEF TrafficOf, Bumped
<1>3. Bumped(TrafficOf(a, b, c, d), "denied") = TrafficOf(a, b, c + 1, d)
  BY DEF TrafficOf, Bumped
<1>4. Bumped(TrafficOf(a, b, c, d), "limited") = TrafficOf(a, b, c, d + 1)
  BY DEF TrafficOf, Bumped
<1> QED
  BY <1>1, <1>2, <1>3, <1>4, Zenon DEF BumpsOne

LEMMA CountedIs ==
    ASSUME NEW D, NEW index \in [D -> TrafficType], NEW ids
    PROVE  /\ Counted(index, ids, "requests") \in [D -> TrafficType]
           /\ Counted(index, ids, "responses") \in [D -> TrafficType]
           /\ Counted(index, ids, "denied") \in [D -> TrafficType]
           /\ Counted(index, ids, "limited") \in [D -> TrafficType]
           /\ \A id \in D :
                LET t == index[id]
                    by(field) == Counted(index, ids, field)[id]
                IN  /\ id \notin ids => \A field : by(field) = t
                    /\ id \in ids =>
                         /\ by("requests") = TrafficOf(t.requests + 1, t.responses, t.denied, t.limited)
                         /\ by("responses") = TrafficOf(t.requests, t.responses + 1, t.denied, t.limited)
                         /\ by("denied") = TrafficOf(t.requests, t.responses, t.denied + 1, t.limited)
                         /\ by("limited") = TrafficOf(t.requests, t.responses, t.denied, t.limited + 1)
<1>1. ASSUME NEW t \in TrafficType
      PROVE  /\ Bumped(t, "requests") = TrafficOf(t.requests + 1, t.responses, t.denied, t.limited)
             /\ Bumped(t, "responses") = TrafficOf(t.requests, t.responses + 1, t.denied, t.limited)
             /\ Bumped(t, "denied") = TrafficOf(t.requests, t.responses, t.denied + 1, t.limited)
             /\ Bumped(t, "limited") = TrafficOf(t.requests, t.responses, t.denied, t.limited + 1)
  <2>1. t = TrafficOf(t.requests, t.responses, t.denied, t.limited)
    BY DEF TrafficType, TrafficOf
  <2>2. PICK a, b, c, d : /\ t = TrafficOf(a, b, c, d)
                          /\ a = t.requests /\ b = t.responses /\ c = t.denied /\ d = t.limited
    BY <2>1, Zenon
  <2>7. BumpsOne(a, b, c, d)
    BY TrafficFields, Zenon
  <2>3. Bumped(t, "requests") = TrafficOf(a + 1, b, c, d)
    BY <2>2, <2>7, Zenon DEF BumpsOne
  <2>4. Bumped(t, "responses") = TrafficOf(a, b + 1, c, d)
    BY <2>2, <2>7, Zenon DEF BumpsOne
  <2>5. Bumped(t, "denied") = TrafficOf(a, b, c + 1, d)
    BY <2>2, <2>7, Zenon DEF BumpsOne
  <2>6. Bumped(t, "limited") = TrafficOf(a, b, c, d + 1)
    BY <2>2, <2>7, Zenon DEF BumpsOne
  <2> QED
    BY <2>2, <2>3, <2>4, <2>5, <2>6, Zenon
<1>2. ASSUME NEW t \in TrafficType
      PROVE  /\ t.requests \in Nat /\ t.responses \in Nat /\ t.denied \in Nat /\ t.limited \in Nat
             /\ TrafficOf(t.requests + 1, t.responses, t.denied, t.limited) \in TrafficType
             /\ TrafficOf(t.requests, t.responses + 1, t.denied, t.limited) \in TrafficType
             /\ TrafficOf(t.requests, t.responses, t.denied + 1, t.limited) \in TrafficType
             /\ TrafficOf(t.requests, t.responses, t.denied, t.limited + 1) \in TrafficType
  BY DEF TrafficType, TrafficOf
<1>3. ASSUME NEW field
      PROVE  /\ DOMAIN Counted(index, ids, field) = D
             /\ Counted(index, ids, field) = [id \in D |-> Counted(index, ids, field)[id]]
             /\ \A id \in D : /\ id \notin ids => Counted(index, ids, field)[id] = index[id]
                              /\ id \in ids => Counted(index, ids, field)[id] = Bumped(index[id], field)
  BY DEF Counted, Bumped
<1>4. \A id \in D : index[id] \in TrafficType
  OBVIOUS
<1>5. ASSUME NEW id \in D, id \in ids
      PROVE  LET t == index[id]
                 by(field) == Counted(index, ids, field)[id]
             IN  /\ by("requests") = TrafficOf(t.requests + 1, t.responses, t.denied, t.limited)
                 /\ by("responses") = TrafficOf(t.requests, t.responses + 1, t.denied, t.limited)
                 /\ by("denied") = TrafficOf(t.requests, t.responses, t.denied + 1, t.limited)
                 /\ by("limited") = TrafficOf(t.requests, t.responses, t.denied, t.limited + 1)
  <2>1. PICK t : t = index[id] /\ t \in TrafficType
    BY <1>4
  <2>2. /\ Counted(index, ids, "requests")[id] = Bumped(t, "requests")
        /\ Counted(index, ids, "responses")[id] = Bumped(t, "responses")
        /\ Counted(index, ids, "denied")[id] = Bumped(t, "denied")
        /\ Counted(index, ids, "limited")[id] = Bumped(t, "limited")
    BY <1>3, <1>5, <2>1, Zenon
  <2> QED
    BY <1>1, <2>1, <2>2, Zenon
<1>6. ASSUME NEW id \in D
      PROVE  /\ Counted(index, ids, "requests")[id] \in TrafficType /\ Counted(index, ids, "responses")[id] \in TrafficType
             /\ Counted(index, ids, "denied")[id] \in TrafficType /\ Counted(index, ids, "limited")[id] \in TrafficType
  <2>1. CASE id \in ids
    BY <1>2, <1>4, <1>5, <2>1, Zenon
  <2>2. CASE id \notin ids
    BY <1>3, <1>4, <2>2, Zenon
  <2> QED
    BY <2>1, <2>2
<1>7. ASSUME NEW f, f = [id \in D |-> f[id]], \A id \in D : f[id] \in TrafficType PROVE f \in [D -> TrafficType]
  BY <1>7
<1>8. /\ Counted(index, ids, "requests") \in [D -> TrafficType]
      /\ Counted(index, ids, "responses") \in [D -> TrafficType]
      /\ Counted(index, ids, "denied") \in [D -> TrafficType]
      /\ Counted(index, ids, "limited") \in [D -> TrafficType]
  BY <1>3, <1>6, <1>7, Zenon
<1> QED
  BY <1>3, <1>5, <1>8, Zenon

\* The requests that were given a route and have no response yet; those of one route;
\* and those that may have taken from the rate limiter.
OpenRequests == {c \in Clients : IsOpen(request[c])}
OpenFor(id) == {c \in Clients : IsOpen(request[c]) /\ id \in IdsAt(scenario, request[c])}
Takes(r) == r.client # {} /\ r.status \notin {403, 425, 404}
Takers == {c \in Clients : Takes(request[c])}

NeverRemoved(id) == \A k \in 1 .. active : id \in RouteIds(scenario.configs[k])

TrafficFits(id) ==
    /\ traffic[id].requests = traffic[id].responses + Cardinality(OpenFor(id))
    /\ traffic[id].denied + traffic[id].limited <= traffic[id].requests

CountsInv ==
    /\ totals \in [requests : Nat, responses : Nat]
    /\ totals.requests = totals.responses + Cardinality(OpenRequests)
    /\ traffic \in [RouteIds(scenario.configs[active]) -> TrafficType]
    /\ \A id \in RouteIds(scenario.configs[active]) : NeverRemoved(id) => TrafficFits(id)

TokensInv == tokens \in Nat /\ scenario.tokens - tokens <= Cardinality(Takers)

\* The observed body of a gRPC response, before and after it is dropped.
BodyType == [status : {"none", "given", "cancelled"}, completed : BOOLEAN, finalized : BOOLEAN,
             recorded : {<<>>, <<"none">>, <<"given">>, <<"cancelled">>}]
BodyLives(b) ==
    /\ b \in BodyType /\ b.status # "cancelled" /\ (b.finalized <=> b.completed)
    /\ b.recorded \in IF b.finalized THEN {<<"none">>, <<"given">>} ELSE {<<>>}
BodyOver(b) ==
    /\ b \in BodyType /\ b.recorded # <<>>
    /\ b.recorded = <<"cancelled">> => ~b.completed
    /\ b.recorded = <<"none">> => b.completed

GrpcInv ==
    /\ grpcBody = [c \in Clients |-> grpcBody[c]]
    /\ \A c \in Clients : /\ request[c].pc # "ended" => BodyLives(grpcBody[c])
                          /\ request[c].pc = "ended" => BodyOver(grpcBody[c])

\* The clients are finitely many, and so are the sets of them that are counted.
LEMMA ClientsFinite ==
    ASSUME scenario \in DispatchScenarios
    PROVE  /\ IsFiniteSet(Clients) /\ scenario.tokens \in Nat
           /\ \A S \in SUBSET Clients : IsFiniteSet(S) /\ Cardinality(S) \in Nat
<1>1. IsScenario(scenario)
  BY DispatchAssumption
<1>2. IsFiniteSet(Clients) /\ scenario.tokens \in Nat
  BY <1>1, Zenon DEF IsScenario, Clients
<1>3. \A S \in SUBSET Clients : IsFiniteSet(S)
  BY <1>2, FS_Subset
<1> QED
  BY <1>2, <1>3, FS_CardinalityType

\* One more, or one less.
LEMMA OneOfClients ==
    ASSUME scenario \in DispatchScenarios, NEW S \in SUBSET Clients, NEW c \in Clients
    PROVE  /\ c \notin S => Cardinality(S \cup {c}) = Cardinality(S) + 1
           /\ c \in S => Cardinality(S \ {c}) = Cardinality(S) - 1
           /\ Cardinality(S) \in Nat /\ (c \in S => Cardinality(S) > 0)
<1>1. IsFiniteSet(S) /\ Cardinality(S) \in Nat
  BY ClientsFinite
<1>2. c \notin S => Cardinality(S \cup {c}) = Cardinality(S) + 1
  BY <1>1, FS_AddElement
<1>3. c \in S => Cardinality(S \ {c}) = Cardinality(S) - 1
  BY <1>1, FS_RemoveElement
<1>4. c \in S => Cardinality(S) > 0
  <2>1. c \in S => S # {}
    OBVIOUS
  <2> QED
    BY <1>1, <2>1, FS_EmptySet
<1> QED
  BY <1>1, <1>2, <1>3, <1>4

\* How a step of one request moves it in and out of these sets.
LEMMA SetsMove ==
    ASSUME RequestsInv, NEW c \in Clients, NEW e, Steps(c, e)
    PROVE  LET r == request[c]
           IN  /\ scenario' = scenario /\ active' = active /\ Clients' = Clients
               /\ IsOpen(e) /\ IsOpen(r) => OpenRequests' = OpenRequests
               /\ ~IsOpen(e) /\ ~IsOpen(r) => OpenRequests' = OpenRequests /\ \A id : OpenFor(id)' = OpenFor(id)
               /\ IsOpen(e) /\ IsOpen(r) /\ IdsAt(scenario, e) = IdsAt(scenario, r) => \A id : OpenFor(id)' = OpenFor(id)
               /\ IsOpen(e) /\ ~IsOpen(r) =>
                    /\ OpenRequests' = OpenRequests \cup {c} /\ c \notin OpenRequests
                    /\ \A id : /\ c \notin OpenFor(id)
                               /\ OpenFor(id)' = IF id \in IdsAt(scenario, e) THEN OpenFor(id) \cup {c} ELSE OpenFor(id)
               /\ ~IsOpen(e) /\ IsOpen(r) =>
                    /\ OpenRequests' = OpenRequests \ {c} /\ c \in OpenRequests
                    /\ \A id : /\ c \in OpenFor(id) <=> id \in IdsAt(scenario, r)
                               /\ OpenFor(id)' = OpenFor(id) \ {c}
               /\ (Takes(r) => Takes(e)) => Takers \subseteq Takers'
               /\ Takes(e) => c \in Takers'
<1>1. scenario' = scenario /\ active' = active /\ Clients' = Clients
  BY DEF Steps, Becomes, Clients
<1>2. request'[c] = e /\ \A d \in Clients \ {c} : request'[d] = request[d]
  BY DEF Steps
<1>3. OpenRequests' = {d \in Clients : IsOpen(request'[d])}
  BY <1>1, Zenon DEF OpenRequests
<1>4. \A id : OpenFor(id)' = {d \in Clients : IsOpen(request'[d]) /\ id \in IdsAt(scenario, request'[d])}
  BY <1>1, Zenon DEF OpenFor
<1>5. Takers' = {d \in Clients : Takes(request'[d])}
  BY <1>1, Zenon DEF Takers
<1>6. PICK f : f = request'
  OBVIOUS
<1>7. f[c] = e /\ \A d \in Clients \ {c} : f[d] = request[d]
  BY <1>2, <1>6
<1>8. OpenRequests' = {d \in Clients : IsOpen(f[d])}
  BY <1>3, <1>6
<1>9. \A id : OpenFor(id)' = {d \in Clients : IsOpen(f[d]) /\ id \in IdsAt(scenario, f[d])}
  BY <1>4, <1>6
<1>10. Takers' = {d \in Clients : Takes(f[d])}
  BY <1>5, <1>6
<1> DEFINE r == request[c]
           O == {d \in Clients : IsOpen(f[d])}
           F(id) == {d \in Clients : IsOpen(f[d]) /\ id \in IdsAt(scenario, f[d])}
<1>11. ASSUME IsOpen(e) <=> IsOpen(r) PROVE O = OpenRequests
  BY <1>7, <1>11 DEF OpenRequests
<1>12. ASSUME IsOpen(e) <=> IsOpen(r), IsOpen(r) => IdsAt(scenario, e) = IdsAt(scenario, r), NEW id PROVE F(id) = OpenFor(id)
  BY <1>7, <1>12 DEF OpenFor
<1>13. ASSUME IsOpen(e), ~IsOpen(r)
       PROVE  /\ O = OpenRequests \cup {c} /\ c \notin OpenRequests
              /\ \A id : /\ c \notin OpenFor(id)
                         /\ F(id) = IF id \in IdsAt(scenario, e) THEN OpenFor(id) \cup {c} ELSE OpenFor(id)
  BY <1>7, <1>13 DEF OpenRequests, OpenFor
<1>14. ASSUME ~IsOpen(e), IsOpen(r)
       PROVE  /\ O = OpenRequests \ {c} /\ c \in OpenRequests
              /\ \A id : (c \in OpenFor(id) <=> id \in IdsAt(scenario, r)) /\ F(id) = OpenFor(id) \ {c}
  BY <1>7, <1>14 DEF OpenRequests, OpenFor
<1>15. /\ (Takes(r) => Takes(e)) => Takers \subseteq {d \in Clients : Takes(f[d])}
       /\ Takes(e) => c \in {d \in Clients : Takes(f[d])}
  BY <1>7 DEF Takers
<1> HIDE DEF r
<1> QED
  BY <1>1, <1>8, <1>9, <1>10, <1>11, <1>12, <1>13, <1>14, <1>15 DEF r

DispatchInv == RequestsInv /\ CountsInv /\ TokensInv /\ GrpcInv

\* The counters of a route that is never removed, from one state to the next.
LEMMA CountsInvNext ==
    ASSUME scenario' = scenario, active' = active, totals' \in [requests : Nat, responses : Nat],
           totals'.requests = totals'.responses + Cardinality(OpenRequests'),
           traffic' \in [RouteIds(scenario.configs[active]) -> TrafficType],
           \A id \in RouteIds(scenario.configs[active]) : NeverRemoved(id) =>
             /\ traffic'[id].requests = traffic'[id].responses + Cardinality(OpenFor(id)')
             /\ traffic'[id].denied + traffic'[id].limited <= traffic'[id].requests
    PROVE  CountsInv'
<1>1. \A id : NeverRemoved(id)' <=> NeverRemoved(id)
  BY Zenon DEF NeverRemoved
<1> QED
  BY <1>1, Zenon DEF CountsInv, TrafficFits

LEMMA TrafficTypes ==
    ASSUME CountsInv, NEW id \in RouteIds(scenario.configs[active])
    PROVE  /\ traffic[id].requests \in Nat /\ traffic[id].responses \in Nat
           /\ traffic[id].denied \in Nat /\ traffic[id].limited \in Nat
<1>1. traffic[id] \in TrafficType
  BY DEF CountsInv
<1> QED
  BY <1>1 DEF TrafficType

LEMMA TotalsTypes ==
    ASSUME CountsInv
    PROVE  /\ totals.requests \in Nat /\ totals.responses \in Nat
           /\ [totals EXCEPT !.requests = @ + 1] = [requests |-> totals.requests + 1, responses |-> totals.responses]
           /\ [totals EXCEPT !.responses = @ + 1] = [requests |-> totals.requests, responses |-> totals.responses + 1]
           /\ [totals EXCEPT !.requests = @ + 1] \in [requests : Nat, responses : Nat]
           /\ [totals EXCEPT !.responses = @ + 1] \in [requests : Nat, responses : Nat]
BY DEF CountsInv

\* More requests that may have taken a token.
LEMMA TokensInvNext ==
    ASSUME RequestsInv, RequestsInv', TokensInv, scenario' = scenario, Clients' = Clients, Takers \subseteq Takers',
           tokens' \in Nat,
           tokens' = tokens \/ (tokens' = tokens - 1 /\ \E c \in Clients : c \in Takers' /\ c \notin Takers)
    PROVE  TokensInv'
<1>1. scenario \in DispatchScenarios
  BY DEF RequestsInv
<1>2. PICK T : T = Takers'
  OBVIOUS
<1>3. T \subseteq Clients /\ Takers \subseteq Clients
  BY <1>2 DEF Takers
<1>4. IsFiniteSet(T) /\ Cardinality(T) \in Nat /\ Cardinality(Takers) \in Nat /\ scenario.tokens \in Nat
  BY <1>1, <1>3, ClientsFinite
<1>5. tokens \in Nat /\ scenario.tokens - tokens <= Cardinality(Takers)
  BY DEF TokensInv
<1>6. scenario.tokens - tokens' <= Cardinality(T)
  <2>1. CASE tokens' = tokens
    <3>1. Cardinality(Takers) <= Cardinality(T)
      BY <1>2, <1>4, FS_Subset
    <3> QED
      BY <1>4, <1>5, <2>1, <3>1
  <2>2. CASE tokens' = tokens - 1 /\ \E c \in Clients : c \in T /\ c \notin Takers
    <3>1. PICK c \in Clients : c \in T /\ c \notin Takers
      BY <2>2
    <3>2. Cardinality(Takers \cup {c}) = Cardinality(Takers) + 1
      BY <1>1, <1>3, <3>1, OneOfClients
    <3>3. Takers \cup {c} \subseteq T
      BY <1>2, <3>1
    <3>4. Cardinality(Takers \cup {c}) <= Cardinality(T)
      BY <1>4, <3>3, FS_Subset
    <3> QED
      BY <1>4, <1>5, <2>2, <3>2, <3>4
  <2> QED
    BY <1>2, <2>1, <2>2
<1> QED
  BY <1>2, <1>6 DEF TokensInv

LEMMA GrpcInvNext ==
    ASSUME GrpcInv, NEW c \in Clients, NEW e, Steps(c, e), Clients' = Clients, grpcBody' = grpcBody,
           e.pc = "ended" <=> request[c].pc = "ended"
    PROVE  GrpcInv'
<1>1. request'[c] = e /\ \A d \in Clients \ {c} : request'[d] = request[d]
  BY DEF Steps
<1>2. \A d \in Clients : request'[d].pc = "ended" <=> request[d].pc = "ended"
  BY <1>1
<1> QED
  BY <1>2 DEF GrpcInv

\* A step that moves one request on and counts nothing.
LEMMA InvKeeps ==
    ASSUME DispatchInv, NEW c \in DOMAIN request, \E e : KeepsOpen(c, e), UNCHANGED <<totals, traffic, grpcBody, tokens>>
    PROVE  DispatchInv'
<1> USE DEF DispatchInv
<1>1. PICK e : KeepsOpen(c, e)
  OBVIOUS
<1> DEFINE r == request[c]
<1>2. /\ Steps(c, e) /\ e.client = r.client /\ (e.pc = "ended" <=> r.pc = "ended")
      /\ IsOpen(e) <=> IsOpen(r)
      /\ IsOpen(r) => e.config = r.config /\ e.vhost = r.vhost /\ e.route = r.route
      /\ r.client # {} => e.status \in {r.status, 200}
  BY <1>1, Zenon DEF KeepsOpen
<1>3. c \in Clients
  BY EntryHere
<1>4. RequestsInv'
  BY <1>2 DEF Steps
<1>5. scenario' = scenario /\ active' = active /\ Clients' = Clients
  BY <1>2, <1>3, SetsMove
<1>6. IsOpen(r) => IdsAt(scenario, e) = IdsAt(scenario, r)
  <2>1. IsOpen(r) => e.config = r.config /\ e.vhost = r.vhost /\ e.route = r.route
    BY <1>2
  <2> HIDE DEF r
  <2> QED
    BY <2>1, SameDecisions
<1>7. OpenRequests' = OpenRequests /\ \A id : OpenFor(id)' = OpenFor(id)
  <2>1. CASE IsOpen(r)
    <3>1. IsOpen(e) /\ IdsAt(scenario, e) = IdsAt(scenario, r)
      BY <1>2, <1>6, <2>1
    <3> QED
      BY <1>2, <1>3, <2>1, <3>1, SetsMove
  <2>2. CASE ~IsOpen(r)
    <3>1. ~IsOpen(e)
      BY <1>2, <2>2
    <3> QED
      BY <1>2, <1>3, <2>2, <3>1, SetsMove
  <2> QED
    BY <2>1, <2>2
<1>8. Takers \subseteq Takers'
  <2>1. Takes(r) => Takes(e)
    BY <1>2 DEF Takes
  <2> QED
    BY <1>2, <1>3, <2>1, SetsMove
<1>9. TokensInv'
  <2>1. tokens' \in Nat /\ tokens' = tokens
    BY DEF TokensInv
  <2> QED
    BY <1>4, <1>5, <1>8, <2>1, TokensInvNext
<1>10. GrpcInv'
  BY <1>2, <1>3, <1>5, GrpcInvNext
<1>11. CountsInv'
  <2>1. totals' = totals /\ traffic' = traffic
    OBVIOUS
  <2>2. totals' \in [requests : Nat, responses : Nat] /\ totals'.requests = totals'.responses + Cardinality(OpenRequests')
    BY <1>7, <2>1, Zenon DEF CountsInv
  <2>3. traffic' \in [RouteIds(scenario.configs[active]) -> TrafficType]
    BY <2>1, Zenon DEF CountsInv
  <2>4. \A id \in RouteIds(scenario.configs[active]) : NeverRemoved(id) =>
          /\ traffic'[id].requests = traffic'[id].responses + Cardinality(OpenFor(id)')
          /\ traffic'[id].denied + traffic'[id].limited <= traffic'[id].requests
    BY <1>7, <2>1, Zenon DEF CountsInv, TrafficFits
  <2> QED
    BY <1>5, <2>2, <2>3, <2>4, CountsInvNext
<1> QED
  BY <1>4, <1>9, <1>10, <1>11

\* One request is counted for each of ids.
CountsRequest(T, ids) ==
    /\ T \in [RouteIds(scenario.configs[active]) -> TrafficType]
    /\ \A id \in RouteIds(scenario.configs[active]) :
         /\ id \notin ids => T[id] = traffic[id]
         /\ id \in ids => /\ T[id].requests = traffic[id].requests + 1 /\ T[id].responses = traffic[id].responses
                          /\ T[id].denied + T[id].limited <= traffic[id].denied + traffic[id].limited + 1

LEMMA RequestCounted ==
    ASSUME CountsInv, NEW ids
    PROVE  /\ CountsRequest(Counted(traffic, ids, "requests"), ids)
           /\ CountsRequest(Counted(Counted(traffic, ids, "requests"), ids, "denied"), ids)
           /\ CountsRequest(Counted(Counted(traffic, ids, "requests"), ids, "limited"), ids)
<1> DEFINE D == RouteIds(scenario.configs[active])
           T == Counted(traffic, ids, "requests")
           U == Counted(T, ids, "denied")
           V == Counted(T, ids, "limited")
<1>1. traffic \in [D -> TrafficType]
  BY DEF CountsInv
<1>2. T \in [D -> TrafficType] /\ \A id \in D :
        /\ id \notin ids => T[id] = traffic[id]
        /\ id \in ids => T[id] = TrafficOf(traffic[id].requests + 1, traffic[id].responses, traffic[id].denied, traffic[id].limited)
  <2> HIDE DEF D
  <2> QED
    BY <1>1, CountedIs
<1>3. U \in [D -> TrafficType] /\ V \in [D -> TrafficType] /\ \A id \in D :
        /\ id \notin ids => U[id] = T[id] /\ V[id] = T[id]
        /\ id \in ids => /\ U[id] = TrafficOf(T[id].requests, T[id].responses, T[id].denied + 1, T[id].limited)
                         /\ V[id] = TrafficOf(T[id].requests, T[id].responses, T[id].denied, T[id].limited + 1)
  <2> HIDE DEF D, T
  <2> QED
    BY <1>2, CountedIs
<1> HIDE DEF D, T, U, V
<1>4. \A id \in D : /\ traffic[id].requests \in Nat /\ traffic[id].responses \in Nat
                    /\ traffic[id].denied \in Nat /\ traffic[id].limited \in Nat
  BY TrafficTypes DEF D
<1>5. ASSUME NEW id \in D, id \in ids
      PROVE  /\ T[id].requests = traffic[id].requests + 1 /\ T[id].responses = traffic[id].responses
             /\ T[id].denied = traffic[id].denied /\ T[id].limited = traffic[id].limited
  <2>1. T[id] = TrafficOf(traffic[id].requests + 1, traffic[id].responses, traffic[id].denied, traffic[id].limited)
    BY <1>2, <1>5
  <2> QED
    BY <2>1 DEF TrafficOf
<1>6. ASSUME NEW id \in D, id \in ids
      PROVE  /\ U[id].requests = T[id].requests /\ U[id].responses = T[id].responses
             /\ U[id].denied = T[id].denied + 1 /\ U[id].limited = T[id].limited
             /\ V[id].requests = T[id].requests /\ V[id].responses = T[id].responses
             /\ V[id].denied = T[id].denied /\ V[id].limited = T[id].limited + 1
  <2>1. /\ U[id] = TrafficOf(T[id].requests, T[id].responses, T[id].denied + 1, T[id].limited)
        /\ V[id] = TrafficOf(T[id].requests, T[id].responses, T[id].denied, T[id].limited + 1)
    BY <1>3, <1>6
  <2> QED
    BY <2>1 DEF TrafficOf
<1>7. CountsRequest(T, ids)
  BY <1>2, <1>4, <1>5 DEF CountsRequest, D
<1>8. CountsRequest(U, ids)
  BY <1>2, <1>3, <1>4, <1>5, <1>6 DEF CountsRequest, D
<1>9. CountsRequest(V, ids)
  BY <1>2, <1>3, <1>4, <1>5, <1>6 DEF CountsRequest, D
<1> QED
  BY <1>7, <1>8, <1>9 DEF T, U, V

\* A step that gives a request its route, and counts it.
LEMMA InvOpens ==
    ASSUME DispatchInv, NEW c \in DOMAIN request, NEW st, \E e : Opens(c, e, st),
           totals' = [totals EXCEPT !.requests = @ + 1], CountsRequest(traffic', SelectedIds(c)), grpcBody' = grpcBody,
           tokens' \in Nat, tokens' = tokens \/ (tokens' = tokens - 1 /\ st \notin {403, 425, 404})
    PROVE  DispatchInv'
<1> USE DEF DispatchInv
<1>1. PICK e : Opens(c, e, st)
  OBVIOUS
<1> DEFINE r == request[c]
           ids == SelectedIds(c)
<1>2. /\ r.pc = "snapshot" /\ Steps(c, e) /\ e.pc # "ended" /\ e.client # {} /\ e.status = st
      /\ IsOpen(e) /\ IdsAt(scenario, e) = ids
  BY <1>1, Zenon DEF Opens
<1>3. c \in Clients /\ EntryFits(scenario, active, c, r)
  BY EntryHere
<1>4. r.client = {}
  BY <1>2, <1>3 DEF EntryFits
<1>5. ~IsOpen(r) /\ ~Takes(r)
  BY <1>4 DEF IsOpen, Takes
<1>6. RequestsInv'
  BY <1>2 DEF Steps
<1>7. scenario' = scenario /\ active' = active /\ Clients' = Clients
  BY <1>2, <1>3, SetsMove
<1>8. /\ OpenRequests' = OpenRequests \cup {c} /\ c \notin OpenRequests
      /\ \A id : /\ c \notin OpenFor(id)
                 /\ OpenFor(id)' = IF id \in ids THEN OpenFor(id) \cup {c} ELSE OpenFor(id)
  <2> HIDE DEF ids
  <2> QED
    BY <1>2, <1>3, <1>5, SetsMove
<1>9. Takers \subseteq Takers' /\ (Takes(e) => c \in Takers')
  BY <1>2, <1>3, <1>5, SetsMove
<1> HIDE DEF ids
<1>10. TokensInv'
  <2>1. st \notin {403, 425, 404} => Takes(e)
    BY <1>2 DEF Takes
  <2>2. c \notin Takers
    BY <1>5 DEF Takers
  <2>3. tokens' = tokens \/ (tokens' = tokens - 1 /\ \E d \in Clients : d \in Takers' /\ d \notin Takers)
    BY <1>3, <1>9, <2>1, <2>2
  <2> QED
    BY <1>6, <1>7, <1>9, <2>3, TokensInvNext
<1>11. GrpcInv'
  <2>1. e.pc = "ended" <=> r.pc = "ended"
    BY <1>2
  <2> QED
    BY <1>2, <1>3, <1>7, <2>1, GrpcInvNext
<1>12. scenario \in DispatchScenarios
  BY DEF RequestsInv
<1>13. /\ totals' \in [requests : Nat, responses : Nat]
       /\ totals'.requests = totals'.responses + Cardinality(OpenRequests')
  <2>1. OpenRequests \subseteq Clients
    BY DEF OpenRequests
  <2>2. Cardinality(OpenRequests \cup {c}) = Cardinality(OpenRequests) + 1 /\ Cardinality(OpenRequests) \in Nat
    BY <1>3, <1>8, <1>12, <2>1, OneOfClients
  <2>3. totals.requests \in Nat /\ totals.responses \in Nat /\ totals' \in [requests : Nat, responses : Nat]
        /\ totals' = [requests |-> totals.requests + 1, responses |-> totals.responses]
    BY TotalsTypes
  <2>4. totals.requests = totals.responses + Cardinality(OpenRequests)
    BY DEF CountsInv
  <2> QED
    BY <1>8, <2>2, <2>3, <2>4
<1>14. ASSUME NEW id \in RouteIds(scenario.configs[active]), NeverRemoved(id)
       PROVE  /\ traffic'[id].requests = traffic'[id].responses + Cardinality(OpenFor(id)')
              /\ traffic'[id].denied + traffic'[id].limited <= traffic'[id].requests
  <2>1. TrafficFits(id)
    BY <1>14 DEF CountsInv
  <2>2. /\ traffic[id].requests \in Nat /\ traffic[id].responses \in Nat
        /\ traffic[id].denied \in Nat /\ traffic[id].limited \in Nat
    BY TrafficTypes
  <2>3. CASE id \in ids
    <3>1. OpenFor(id) \subseteq Clients
      BY DEF OpenFor
    <3>2. Cardinality(OpenFor(id) \cup {c}) = Cardinality(OpenFor(id)) + 1 /\ Cardinality(OpenFor(id)) \in Nat
      BY <1>3, <1>8, <1>12, <3>1, OneOfClients
    <3>3. /\ traffic'[id].requests = traffic[id].requests + 1 /\ traffic'[id].responses = traffic[id].responses
          /\ traffic'[id].denied + traffic'[id].limited <= traffic[id].denied + traffic[id].limited + 1
      BY <2>3 DEF CountsRequest, ids
    <3>4. traffic'[id].denied \in Nat /\ traffic'[id].limited \in Nat
      <4>1. traffic'[id] \in TrafficType
        BY DEF CountsRequest
      <4> QED
        BY <4>1 DEF TrafficType
    <3>5. OpenFor(id)' = OpenFor(id) \cup {c}
      BY <1>8, <2>3
    <3> QED
      BY <2>1, <2>2, <3>2, <3>3, <3>4, <3>5 DEF TrafficFits
  <2>4. CASE id \notin ids
    <3>1. traffic'[id] = traffic[id] /\ OpenFor(id)' = OpenFor(id)
      BY <1>8, <2>4 DEF CountsRequest, ids
    <3> QED
      BY <2>1, <3>1 DEF TrafficFits
  <2> QED
    BY <2>3, <2>4
<1>15. CountsInv'
  <2>1. traffic' \in [RouteIds(scenario.configs[active]) -> TrafficType]
    BY DEF CountsRequest
  <2> QED
    BY <1>7, <1>13, <1>14, <2>1, CountsInvNext
<1> QED
  BY <1>6, <1>10, <1>11, <1>15

\* The response of one request ends, and is counted.
LEMMA InvFinish ==
    ASSUME DispatchInv, NEW c \in DOMAIN request, FinishResponse(c)
    PROVE  DispatchInv'
<1> USE DEF DispatchInv
<1> DEFINE r == request[c]
           ids == RouteId(c)
           D == RouteIds(scenario.configs[active])
<1>1. PICK e : /\ Steps(c, e) /\ IsOpen(r) /\ ~IsOpen(e) /\ e.pc # "ended" /\ r.pc # "ended"
               /\ e.client = r.client /\ e.status = r.status
  BY FinishCloses
<1>2. c \in Clients /\ scenario \in DispatchScenarios
  BY EntryHere DEF RequestsInv
<1>3. RequestsInv'
  BY <1>1 DEF Steps
<1>4. scenario' = scenario /\ active' = active /\ Clients' = Clients
  BY <1>1, <1>2, SetsMove
<1>5. ids = IdsAt(scenario, r)
  BY DecisionsAt
<1>6. /\ OpenRequests' = OpenRequests \ {c} /\ c \in OpenRequests
      /\ \A id : (c \in OpenFor(id) <=> id \in ids) /\ OpenFor(id)' = OpenFor(id) \ {c}
  <2> HIDE DEF ids
  <2> QED
    BY <1>1, <1>2, <1>5, SetsMove
<1>7. Takers \subseteq Takers'
  <2>1. Takes(r) => Takes(e)
    BY <1>1 DEF Takes
  <2> QED
    BY <1>1, <1>2, <2>1, SetsMove
<1>8. /\ totals' = [totals EXCEPT !.responses = @ + 1] /\ traffic' = Counted(traffic, ids, "responses")
      /\ grpcBody' = grpcBody /\ tokens' = tokens
  BY DEF FinishResponse, RecordResponse
<1> HIDE DEF ids
<1>9. TokensInv'
  <2>1. tokens' \in Nat
    BY <1>8 DEF TokensInv
  <2> QED
    BY <1>3, <1>4, <1>7, <1>8, <2>1, TokensInvNext
<1>10. GrpcInv'
  <2>1. e.pc = "ended" <=> r.pc = "ended"
    BY <1>1
  <2> QED
    BY <1>1, <1>2, <1>4, <1>8, <2>1, GrpcInvNext
<1>11. /\ totals' \in [requests : Nat, responses : Nat]
       /\ totals'.requests = totals'.responses + Cardinality(OpenRequests')
  <2>1. OpenRequests \subseteq Clients
    BY DEF OpenRequests
  <2>2. Cardinality(OpenRequests \ {c}) = Cardinality(OpenRequests) - 1 /\ Cardinality(OpenRequests) \in Nat
    BY <1>2, <1>6, <2>1, OneOfClients
  <2>3. totals.requests \in Nat /\ totals.responses \in Nat /\ totals' \in [requests : Nat, responses : Nat]
        /\ totals' = [requests |-> totals.requests, responses |-> totals.responses + 1]
    BY <1>8, TotalsTypes
  <2>4. totals.requests = totals.responses + Cardinality(OpenRequests)
    BY DEF CountsInv
  <2> QED
    BY <1>6, <2>2, <2>3, <2>4
<1>12. traffic \in [D -> TrafficType]
  BY DEF CountsInv
<1>13. traffic' \in [D -> TrafficType] /\ \A id \in D :
         /\ id \notin ids => traffic'[id] = traffic[id]
         /\ id \in ids => traffic'[id] = TrafficOf(traffic[id].requests, traffic[id].responses + 1, traffic[id].denied,
                                                   traffic[id].limited)
  <2>1. PICK T : T = Counted(traffic, ids, "responses")
    OBVIOUS
  <2> HIDE DEF D
  <2>2. T \in [D -> TrafficType] /\ \A id \in D :
          /\ id \notin ids => T[id] = traffic[id]
          /\ id \in ids => T[id] = TrafficOf(traffic[id].requests, traffic[id].responses + 1, traffic[id].denied,
                                             traffic[id].limited)
    BY <1>12, <2>1, CountedIs
  <2> QED
    BY <1>8, <2>1, <2>2
<1>14. ASSUME NEW id \in D, NeverRemoved(id)
       PROVE  /\ traffic'[id].requests = traffic'[id].responses + Cardinality(OpenFor(id)')
              /\ traffic'[id].denied + traffic'[id].limited <= traffic'[id].requests
  <2>1. TrafficFits(id)
    BY <1>14 DEF CountsInv
  <2>2. /\ traffic[id].requests \in Nat /\ traffic[id].responses \in Nat
        /\ traffic[id].denied \in Nat /\ traffic[id].limited \in Nat
    BY TrafficTypes
  <2> HIDE DEF D
  <2>3. CASE id \in ids
    <3>1. OpenFor(id) \subseteq Clients
      BY DEF OpenFor
    <3>2. Cardinality(OpenFor(id) \ {c}) = Cardinality(OpenFor(id)) - 1 /\ Cardinality(OpenFor(id)) \in Nat
      BY <1>2, <1>6, <2>3, <3>1, OneOfClients
    <3>3. traffic'[id] = TrafficOf(traffic[id].requests, traffic[id].responses + 1, traffic[id].denied, traffic[id].limited)
      BY <1>13, <2>3
    <3>4. /\ traffic'[id].requests = traffic[id].requests /\ traffic'[id].responses = traffic[id].responses + 1
          /\ traffic'[id].denied = traffic[id].denied /\ traffic'[id].limited = traffic[id].limited
      BY <3>3 DEF TrafficOf
    <3>5. OpenFor(id)' = OpenFor(id) \ {c}
      BY <1>6
    <3> QED
      BY <2>1, <2>2, <3>2, <3>4, <3>5 DEF TrafficFits
  <2>4. CASE id \notin ids
    <3>1. OpenFor(id) \ {c} = OpenFor(id)
      BY <1>6, <2>4
    <3>2. traffic'[id] = traffic[id] /\ OpenFor(id)' = OpenFor(id)
      BY <1>6, <1>13, <2>4, <3>1
    <3> QED
      BY <2>1, <3>2, Zenon DEF TrafficFits
  <2> QED
    BY <2>3, <2>4
<1>15. CountsInv'
  BY <1>4, <1>11, <1>13, <1>14, CountsInvNext
<1> QED
  BY <1>3, <1>9, <1>10, <1>15

\* What the steps of a body do to it.
LEMMA BodySees ==
    ASSUME NEW b, BodyLives(b), ~b.completed
    PROVE  BodyLives([b EXCEPT !.status = "given"])
BY DEF BodyLives, BodyType

LEMMA BodyCompletes ==
    ASSUME NEW b, BodyLives(b), NEW found \in BOOLEAN
    PROVE  BodyLives(FinishBody([b EXCEPT !.completed = TRUE], found))
<1>1. CASE b.finalized
  <2>1. b.completed
    BY <1>1 DEF BodyLives
  <2> QED
    BY <1>1, <2>1 DEF BodyLives, BodyType, FinishBody
<1>2. CASE ~b.finalized
  <2>1. PICK x : x = IF found THEN "given" ELSE b.status
    OBVIOUS
  <2>2. x \in {"none", "given"} /\ b.recorded = <<>> /\ b \in BodyType
    BY <1>2, <2>1 DEF BodyLives, BodyType
  <2>3. Append(b.recorded, x) = <<x>>
    BY <2>2
  <2>4. FinishBody([b EXCEPT !.completed = TRUE], found) =
          [status |-> x, completed |-> TRUE, finalized |-> TRUE, recorded |-> <<x>>]
    BY <1>2, <2>1, <2>2, <2>3 DEF FinishBody, BodyType
  <2>5. PICK d : d = [status |-> x, completed |-> TRUE, finalized |-> TRUE, recorded |-> <<x>>]
    OBVIOUS
  <2>6. /\ d.status = x /\ d.completed /\ d.finalized /\ d.recorded = <<x>>
        /\ <<x>> \in {<<"none">>, <<"given">>}
    BY <2>2, <2>5
  <2>7. d \in BodyType
    BY <2>2, <2>5, <2>6 DEF BodyType
  <2>8. BodyLives(d)
    BY <2>2, <2>6, <2>7, Zenon DEF BodyLives
  <2> QED
    BY <2>4, <2>5, <2>8
<1> QED
  BY <1>1, <1>2 DEF BodyLives, BodyType

LEMMA BodyDrops ==
    ASSUME NEW b, BodyLives(b), NEW found \in BOOLEAN
    PROVE  BodyOver(FinishBody(MarkCancelled(b), found))
<1>1. CASE b.finalized
  <2>1. b.completed /\ b.recorded # <<"cancelled">> /\ b.recorded # <<>> /\ b \in BodyType
    BY <1>1 DEF BodyLives
  <2>2. FinishBody(MarkCancelled(b), found) = b
    BY <1>1, <2>1 DEF FinishBody, MarkCancelled
  <2> QED
    BY <2>1, <2>2 DEF BodyOver
<1>2. CASE ~b.finalized
  <2>1. PICK x : x = IF found \/ b.status # "none" THEN "given" ELSE "cancelled"
    OBVIOUS
  <2>2. ~b.completed /\ b.recorded = <<>> /\ b \in BodyType /\ b.status \in {"none", "given"}
    BY <1>2 DEF BodyLives, BodyType
  <2>3. Append(b.recorded, x) = <<x>> /\ x \in {"given", "cancelled"}
    BY <2>1, <2>2
  <2>4. FinishBody(MarkCancelled(b), found) =
          [status |-> x, completed |-> FALSE, finalized |-> TRUE, recorded |-> <<x>>]
    <3>1. CASE b.status = "none"
      BY <1>2, <2>1, <2>2, <2>3, <3>1 DEF FinishBody, MarkCancelled, BodyType
    <3>2. CASE b.status = "given"
      BY <1>2, <2>1, <2>2, <2>3, <3>2 DEF FinishBody, MarkCancelled, BodyType
    <3> QED
      BY <2>2, <3>1, <3>2
  <2> QED
    BY <2>3, <2>4 DEF BodyOver, BodyType
<1> QED
  BY <1>1, <1>2 DEF BodyLives, BodyType

\* The body of one response changes, and its request does not end.
LEMMA InvBody ==
    ASSUME DispatchInv, NEW c \in DOMAIN request, request[c].pc # "ended", NEW b, BodyLives(b),
           grpcBody' = [grpcBody EXCEPT ![c] = b],
           UNCHANGED <<scenario, active, request, totals, traffic, tokens>>
    PROVE  DispatchInv'
<1>0. c \in Clients
  BY EntryHere DEF DispatchInv
<1>1. /\ Clients' = Clients /\ OpenRequests' = OpenRequests /\ \A id : OpenFor(id)' = OpenFor(id)
      /\ Takers' = Takers
  BY Zenon DEF Clients, OpenRequests, OpenFor, Takers
<1>2. RequestsInv'
  BY <1>1, Zenon DEF DispatchInv, RequestsInv
<1>3. TokensInv'
  BY <1>1, Zenon DEF DispatchInv, TokensInv
<1>4. GrpcInv'
  BY <1>0, <1>1 DEF DispatchInv, GrpcInv
<1>5. CountsInv'
  BY <1>1, Zenon DEF DispatchInv, CountsInv, NeverRemoved, TrafficFits
<1> QED
  BY <1>2, <1>3, <1>4, <1>5 DEF DispatchInv

\* The body of a gRPC response is dropped, and accounted for.
LEMMA InvEnd ==
    ASSUME DispatchInv, NEW c \in DOMAIN request, NEW found \in BOOLEAN, DropBody(c, found)
    PROVE  DispatchInv'
<1> USE DEF DispatchInv
<1> DEFINE r == request[c]
<1>1. PICK e : /\ Steps(c, e) /\ ~IsOpen(r) /\ ~IsOpen(e) /\ e.pc = "ended" /\ r.pc # "ended"
               /\ e.client = r.client /\ e.status = r.status
  BY EndCloses
<1>2. c \in Clients
  BY EntryHere
<1>3. RequestsInv'
  BY <1>1 DEF Steps
<1>4. scenario' = scenario /\ active' = active /\ Clients' = Clients
  BY <1>1, <1>2, SetsMove
<1>5. OpenRequests' = OpenRequests /\ \A id : OpenFor(id)' = OpenFor(id)
  BY <1>1, <1>2, SetsMove
<1>6. Takers \subseteq Takers'
  <2>1. Takes(r) => Takes(e)
    BY <1>1 DEF Takes
  <2> QED
    BY <1>1, <1>2, <2>1, SetsMove
<1>7. /\ totals' = totals /\ traffic' = traffic /\ tokens' = tokens
      /\ grpcBody' = [grpcBody EXCEPT ![c] = FinishBody(MarkCancelled(grpcBody[c]), found)]
  BY DEF DropBody
<1>8. TokensInv'
  <2>1. tokens' \in Nat
    BY <1>7 DEF TokensInv
  <2> QED
    BY <1>3, <1>4, <1>6, <1>7, <2>1, TokensInvNext
<1>9. GrpcInv'
  <2>1. grpcBody = [d \in Clients |-> grpcBody[d]] /\ BodyLives(grpcBody[c])
    BY <1>1, <1>2 DEF GrpcInv
  <2>2. PICK x : x = FinishBody(MarkCancelled(grpcBody[c]), found)
    OBVIOUS
  <2>3. grpcBody' = [grpcBody EXCEPT ![c] = x] /\ BodyOver(x)
    BY <1>7, <2>1, <2>2, BodyDrops
  <2>4. grpcBody' = [d \in Clients |-> grpcBody'[d]] /\ grpcBody'[c] = x
        /\ \A d \in Clients \ {c} : grpcBody'[d] = grpcBody[d]
    BY <1>2, <2>1, <2>3
  <2>5. request'[c].pc = "ended" /\ \A d \in Clients \ {c} : request'[d] = request[d]
    BY <1>1 DEF Steps
  <2>6. ASSUME NEW d \in Clients
        PROVE  /\ request'[d].pc # "ended" => BodyLives(grpcBody'[d])
               /\ request'[d].pc = "ended" => BodyOver(grpcBody'[d])
    <3>1. CASE d = c
      BY <2>3, <2>4, <2>5, <3>1
    <3>2. CASE d # c
      <4>1. request'[d] = request[d] /\ grpcBody'[d] = grpcBody[d]
        BY <2>4, <2>5, <3>2
      <4> QED
        BY <4>1 DEF GrpcInv
    <3> QED
      BY <3>1, <3>2
  <2> QED
    BY <1>4, <2>4, <2>6 DEF GrpcInv
<1>10. CountsInv'
  <2>1. totals' \in [requests : Nat, responses : Nat] /\ totals'.requests = totals'.responses + Cardinality(OpenRequests')
    BY <1>5, <1>7, Zenon DEF CountsInv
  <2>2. traffic' \in [RouteIds(scenario.configs[active]) -> TrafficType]
    BY <1>7, Zenon DEF CountsInv
  <2>3. \A id \in RouteIds(scenario.configs[active]) : NeverRemoved(id) =>
          /\ traffic'[id].requests = traffic'[id].responses + Cardinality(OpenFor(id)')
          /\ traffic'[id].denied + traffic'[id].limited <= traffic'[id].requests
    BY <1>5, <1>7, Zenon DEF CountsInv, TrafficFits
  <2> QED
    BY <1>4, <2>1, <2>2, <2>3, CountsInvNext
<1> QED
  BY <1>3, <1>8, <1>9, <1>10

\* Nothing of the requests changes.
LEMMA SetsRest ==
    ASSUME scenario' = scenario, request' = request
    PROVE  /\ Clients' = Clients /\ OpenRequests' = OpenRequests /\ \A id : OpenFor(id)' = OpenFor(id)
           /\ Takers' = Takers
BY Zenon DEF Clients, OpenRequests, OpenFor, Takers

\* A reload: the counters of the routes that stay are kept.
LEMMA InvReload ==
    ASSUME DispatchInv, DispatchReload
    PROVE  DispatchInv'
<1> USE DEF DispatchInv
<1>1. /\ scenario' = scenario /\ request' = request /\ totals' = totals /\ grpcBody' = grpcBody /\ tokens' = tokens
      /\ active < Len(scenario.configs) /\ active' = active + 1
      /\ traffic' = SyncTraffic(traffic, scenario.configs[active + 1])
  BY DEF DispatchReload
<1>2. scenario \in DispatchScenarios /\ active \in 1 .. Len(scenario.configs)
  BY DEF RequestsInv
<1>3. active \in Nat /\ active > 0 /\ Len(scenario.configs) \in Nat
  BY <1>2, ActiveNatural
<1>4. /\ Clients' = Clients /\ OpenRequests' = OpenRequests /\ \A id : OpenFor(id)' = OpenFor(id)
      /\ Takers' = Takers
  BY <1>1, SetsRest
<1>5. RequestsInv'
  <2>1. \A c \in Clients : EntryFits(scenario, active + 1, c, request[c])
    BY <1>3, EntryReload DEF RequestsInv
  <2>2. active + 1 \in 1 .. Len(scenario.configs)
    BY <1>1, <1>3
  <2>3. request = [c \in Clients |-> request[c]]
    BY DEF RequestsInv
  <2> QED
    BY <1>1, <1>2, <1>4, <2>1, <2>2, <2>3, Zenon DEF RequestsInv
<1>6. TokensInv'
  BY <1>1, <1>4, Zenon DEF TokensInv
<1>7. GrpcInv'
  BY <1>1, <1>4, Zenon DEF GrpcInv
<1> DEFINE D == RouteIds(scenario.configs[active])
           E == RouteIds(scenario.configs[active + 1])
<1>8. traffic \in [D -> TrafficType]
  BY DEF CountsInv
<1>9. traffic' = [id \in E |-> IF id \in DOMAIN traffic THEN traffic[id] ELSE NoTraffic]
  BY <1>1, Zenon DEF SyncTraffic
<1>10. NoTraffic \in TrafficType
  BY DEF NoTraffic, TrafficType
<1> HIDE DEF D, E
<1>11. traffic' \in [E -> TrafficType] /\ \A id \in E : id \in D => traffic'[id] = traffic[id]
  BY <1>8, <1>9, <1>10
<1>12. ASSUME NEW id \in E, NeverRemoved(id)' PROVE TrafficFits(id)'
  <2>1. \A k \in 1 .. (active + 1) : id \in RouteIds(scenario.configs[k])
    BY <1>1, <1>12, Zenon DEF NeverRemoved
  <2>2. NeverRemoved(id) /\ id \in D
    <3>1. active \in 1 .. (active + 1) /\ \A k \in 1 .. active : k \in 1 .. (active + 1)
      BY <1>3
    <3> QED
      BY <2>1, <3>1 DEF NeverRemoved, D
  <2>3. TrafficFits(id)
    BY <2>2 DEF CountsInv, D
  <2>4. traffic'[id] = traffic[id] /\ OpenFor(id)' = OpenFor(id)
    BY <1>4, <1>11, <2>2
  <2> QED
    BY <2>3, <2>4, Zenon DEF TrafficFits
<1>13. RouteIds(scenario.configs[active])' = E
  BY <1>1, Zenon DEF E
<1>14. CountsInv'
  <2>1. totals' \in [requests : Nat, responses : Nat] /\ totals'.requests = totals'.responses + Cardinality(OpenRequests')
    BY <1>1, <1>4, Zenon DEF CountsInv
  <2> QED
    BY <1>11, <1>12, <1>13, <2>1, Zenon DEF CountsInv
<1> QED
  BY <1>5, <1>6, <1>7, <1>14

\* Everything but the challenges stays.
LEMMA InvRest ==
    ASSUME DispatchInv, UNCHANGED <<scenario, active, request, totals, traffic, grpcBody, tokens>>
    PROVE  DispatchInv'
<1>1. /\ Clients' = Clients /\ OpenRequests' = OpenRequests /\ \A id : OpenFor(id)' = OpenFor(id)
      /\ Takers' = Takers
  BY SetsRest, Zenon
<1>2. RequestsInv'
  BY <1>1, Zenon DEF DispatchInv, RequestsInv
<1>3. TokensInv'
  BY <1>1, Zenon DEF DispatchInv, TokensInv
<1>4. GrpcInv'
  BY <1>1, Zenon DEF DispatchInv, GrpcInv
<1>5. CountsInv'
  BY <1>1, Zenon DEF DispatchInv, CountsInv, NeverRemoved, TrafficFits
<1> QED
  BY <1>2, <1>3, <1>4, <1>5 DEF DispatchInv

LEMMA DispatchInvInit ==
    ASSUME DispatchInit
    PROVE  DispatchInv
<1>1. scenario \in DispatchScenarios /\ active = 1 /\ request = [c \in Clients |-> Fresh]
  BY DEF DispatchInit, Clients
<1>2. IsScenario(scenario)
  BY <1>1, DispatchAssumption
<1>3. active \in 1 .. Len(scenario.configs)
  <2>1. scenario.configs \in Seq(Range(scenario.configs)) /\ scenario.configs # <<>>
    BY <1>2, Zenon DEF IsScenario, IsSequence
  <2>2. Len(scenario.configs) \in Nat /\ Len(scenario.configs) > 0
    BY <2>1
  <2> QED
    BY <1>1, <2>2
<1>4. Fresh = EntryOf("new", 0, 0, {}, {}, 0, {})
  BY DEF Fresh, EntryOf
<1>5. Fields(Fresh, "new", 0, 0, {}, {}, 0, {})
  BY <1>4, EntryFields, Zenon
<1>6. Fresh.pc = "new" /\ Fresh.client = {} /\ Fresh.sent = {} /\ IsEntry(Fresh)
  BY <1>5, Zenon DEF Fields
<1>7. \A c \in Clients : EntryFits(scenario, active, c, Fresh)
  BY <1>6 DEF EntryFits, RequestPcs
<1>8. \A c \in Clients : request[c] = Fresh
  BY <1>1
<1>9. RequestsInv
  <2>1. request = [c \in Clients |-> request[c]]
    BY <1>1
  <2> QED
    BY <1>1, <1>3, <1>7, <1>8, <2>1 DEF RequestsInv
<1>10. OpenRequests = {} /\ Takers = {} /\ \A id : OpenFor(id) = {}
  <2>1. ~IsOpen(Fresh) /\ ~Takes(Fresh)
    BY <1>6 DEF IsOpen, Takes
  <2> QED
    BY <1>8, <2>1 DEF OpenRequests, Takers, OpenFor
<1>11. Cardinality({}) = 0
  BY FS_EmptySet
<1>12. TokensInv
  <2>1. scenario.tokens \in Nat /\ tokens = scenario.tokens
    BY <1>2 DEF IsScenario, DispatchInit
  <2> QED
    BY <1>10, <1>11, <2>1 DEF TokensInv
<1>13. GrpcInv
  <2>1. grpcBody = [c \in Clients |-> FreshBody]
    BY DEF DispatchInit, Clients
  <2>2. BodyLives(FreshBody)
    BY DEF BodyLives, BodyType, FreshBody
  <2> QED
    BY <1>6, <1>8, <2>1, <2>2 DEF GrpcInv
<1>14. CountsInv
  <2>1. totals = [requests |-> 0, responses |-> 0]
    BY DEF DispatchInit
  <2>2. totals \in [requests : Nat, responses : Nat] /\ totals.requests = totals.responses + Cardinality(OpenRequests)
    BY <1>10, <1>11, <2>1
  <2>3. traffic = [id \in RouteIds(scenario.configs[active]) |-> NoTraffic]
    BY <1>1, Zenon DEF DispatchInit
  <2>4. NoTraffic \in TrafficType /\ NoTraffic.requests = 0 /\ NoTraffic.responses = 0 /\ NoTraffic.denied = 0 /\ NoTraffic.limited = 0
    BY DEF NoTraffic, TrafficType
  <2>5. \A id \in RouteIds(scenario.configs[active]) : traffic[id] = NoTraffic
    BY <2>3
  <2>6. traffic \in [RouteIds(scenario.configs[active]) -> TrafficType]
    BY <2>3, <2>4
  <2>7. \A id \in RouteIds(scenario.configs[active]) : TrafficFits(id)
    BY <1>10, <1>11, <2>4, <2>5 DEF TrafficFits
  <2> QED
    BY <2>2, <2>6, <2>7 DEF CountsInv
<1> QED
  BY <1>9, <1>12, <1>13, <1>14 DEF DispatchInv

\* The steps of one request.
LEMMA DispatchInvRequest ==
    ASSUME DispatchInv, NEW c \in DOMAIN request,
           \/ TakeSnapshot(c) \/ AnswerChallenge(c) \/ NoRoute(c) \/ RejectEarlyData(c) \/ Deny(c)
           \/ RejectRateLimited(c) \/ Execute(c) \/ Forward(c) \/ ActionAnswers(c) \/ FinishResponse(c)
           \/ ObserveStatus(c) \/ (\E found \in BOOLEAN : EndStream(c, found) \/ DropBody(c, found))
           \/ ClientLeaves(c)
    PROVE  DispatchInv'
<1> DEFINE r == request[c]
<1>0. RequestsInv /\ CountsInv /\ tokens \in Nat
  BY DEF DispatchInv, TokensInv
<1>1. CASE TakeSnapshot(c)
  <2>1. \E e : KeepsOpen(c, e)
    BY <1>0, <1>1, TakeSnapshotKeeps
  <2>2. UNCHANGED <<totals, traffic, grpcBody, tokens>>
    BY <1>1 DEF TakeSnapshot
  <2> QED
    BY <2>1, <2>2, InvKeeps
<1>2. CASE AnswerChallenge(c)
  <2>1. r.pc = "snapshot" /\ Moves(c, "done", 200, r.sent)
    BY <1>0, <1>2, MoveSteps DEF AnswerChallenge
  <2>2. \E e : KeepsOpen(c, e)
    BY <1>0, <2>1, MoveKeeps
  <2>3. UNCHANGED <<totals, traffic, grpcBody, tokens>>
    BY <1>2 DEF AnswerChallenge
  <2> QED
    BY <2>2, <2>3, InvKeeps
<1>3. CASE Forward(c)
  <2>1. \E e : KeepsOpen(c, e)
    BY <1>0, <1>3, ForwardKeeps
  <2>2. UNCHANGED <<totals, traffic, grpcBody, tokens>>
    BY <1>3 DEF Forward
  <2> QED
    BY <2>1, <2>2, InvKeeps
<1>4. CASE ActionAnswers(c)
  <2>1. r.pc \in {"executing", "forwarded"} /\ Moves(c, "answered", 200, r.sent)
    BY <1>0, <1>4, MoveSteps DEF ActionAnswers
  <2>2. \E e : KeepsOpen(c, e)
    BY <1>0, <2>1, MoveKeeps
  <2>3. UNCHANGED <<totals, traffic, grpcBody, tokens>>
    BY <1>4 DEF ActionAnswers
  <2> QED
    BY <2>2, <2>3, InvKeeps
<1>5. CASE ClientLeaves(c)
  <2> DEFINE p == IF r.pc = "new" THEN "never" ELSE "gone"
  <2>1. r.pc \in {"new", "executing", "forwarded", "answered"} /\ Moves(c, p, r.status, r.sent)
    BY <1>0, <1>5, MoveSteps DEF ClientLeaves
  <2>2. (p = "never" /\ r.pc = "new") \/ (p = "gone" /\ r.pc \in {"executing", "forwarded", "answered"})
    BY <2>1
  <2> HIDE DEF p
  <2>3. \E e : KeepsOpen(c, e)
    BY <1>0, <2>1, <2>2, MoveKeeps
  <2>4. UNCHANGED <<totals, traffic, grpcBody, tokens>>
    BY <1>5 DEF ClientLeaves
  <2> QED
    BY <2>3, <2>4, InvKeeps
<1>6. CASE FinishResponse(c)
  BY <1>6, InvFinish
<1>7. CASE \E found \in BOOLEAN : DropBody(c, found)
  BY <1>7, InvEnd
<1>7a. CASE ObserveStatus(c) \/ \E found \in BOOLEAN : EndStream(c, found)
  <2>1. r.pc # "ended"
    BY <1>7a DEF ObserveStatus, EndStream
  <2>2. BodyLives(grpcBody[c])
    BY <1>0, <2>1, EntryHere DEF DispatchInv, GrpcInv
  <2>3. \E b : BodyLives(b) /\ grpcBody' = [grpcBody EXCEPT ![c] = b]
    <3>1. CASE ObserveStatus(c)
      BY <2>2, <3>1, BodySees DEF ObserveStatus
    <3>2. CASE \E found \in BOOLEAN : EndStream(c, found)
      <4>1. PICK found \in BOOLEAN : EndStream(c, found)
        BY <3>2
      <4>2. BodyLives(FinishBody([grpcBody[c] EXCEPT !.completed = TRUE], found))
        BY <2>2, BodyCompletes
      <4> QED
        BY <4>1, <4>2 DEF EndStream
    <3> QED
      BY <1>7a, <3>1, <3>2
  <2>4. UNCHANGED <<scenario, active, request, totals, traffic, tokens>>
    BY <1>7a DEF ObserveStatus, EndStream
  <2> QED
    BY <2>1, <2>3, <2>4, InvBody
<1>8. CASE NoRoute(c)
  <2>1. r.pc = "snapshot" /\ Selects(c, "answered", 404)
    BY <1>0, <1>8, SelectSteps DEF NoRoute, Routed
  <2>2. \E e : Opens(c, e, 404)
    BY <1>0, <2>1, SelectOpens
  <2>3. SelectedIds(c) = {}
    BY <1>8 DEF NoRoute, SelectedIds
  <2>4. totals' = [totals EXCEPT !.requests = @ + 1] /\ traffic' = Counted(traffic, {}, "requests")
        /\ grpcBody' = grpcBody /\ tokens' = tokens
    BY <1>8 DEF NoRoute, RecordRequest
  <2>5. CountsRequest(traffic', SelectedIds(c))
    BY <1>0, <2>3, <2>4, RequestCounted
  <2> QED
    BY <1>0, <2>2, <2>4, <2>5, InvOpens
<1>9. CASE RejectEarlyData(c)
  <2>1. r.pc = "snapshot" /\ Selects(c, "answered", 425)
    BY <1>0, <1>9, SelectSteps DEF RejectEarlyData, Routed
  <2>2. \E e : Opens(c, e, 425)
    BY <1>0, <2>1, SelectOpens
  <2>4. totals' = [totals EXCEPT !.requests = @ + 1] /\ traffic' = Counted(traffic, SelectedIds(c), "requests")
        /\ grpcBody' = grpcBody /\ tokens' = tokens
    BY <1>9 DEF RejectEarlyData, RecordRequest
  <2>5. CountsRequest(traffic', SelectedIds(c))
    BY <1>0, <2>4, RequestCounted
  <2> QED
    BY <1>0, <2>2, <2>4, <2>5, InvOpens
<1>10. CASE Deny(c)
  <2>1. r.pc = "snapshot" /\ Selects(c, "answered", 403)
    BY <1>0, <1>10, SelectSteps DEF Deny, Routed
  <2>2. \E e : Opens(c, e, 403)
    BY <1>0, <2>1, SelectOpens
  <2>4. totals' = [totals EXCEPT !.requests = @ + 1]
        /\ traffic' = Counted(Counted(traffic, SelectedIds(c), "requests"), SelectedIds(c), "denied")
        /\ grpcBody' = grpcBody /\ tokens' = tokens
    BY <1>10 DEF Deny, RecordRejected
  <2>5. CountsRequest(traffic', SelectedIds(c))
    BY <1>0, <2>4, RequestCounted
  <2> QED
    BY <1>0, <2>2, <2>4, <2>5, InvOpens
<1>11. CASE RejectRateLimited(c)
  <2>1. r.pc = "snapshot" /\ Selects(c, "answered", 429)
    BY <1>0, <1>11, SelectSteps DEF RejectRateLimited, Routed
  <2>2. \E e : Opens(c, e, 429)
    BY <1>0, <2>1, SelectOpens
  <2>4. totals' = [totals EXCEPT !.requests = @ + 1]
        /\ traffic' = Counted(Counted(traffic, SelectedIds(c), "requests"), SelectedIds(c), "limited")
        /\ grpcBody' = grpcBody /\ tokens' = tokens
    BY <1>11 DEF RejectRateLimited, RecordRejected
  <2>5. CountsRequest(traffic', SelectedIds(c))
    BY <1>0, <2>4, RequestCounted
  <2> QED
    BY <1>0, <2>2, <2>4, <2>5, InvOpens
<1>12. CASE Execute(c)
  <2>1. r.pc = "snapshot" /\ Selects(c, "executing", 0)
    BY <1>0, <1>12, SelectSteps DEF Execute, Routed
  <2>2. \E e : Opens(c, e, 0)
    BY <1>0, <1>12, <2>1, SelectOpens
  <2>3. tokens' \in Nat /\ (tokens' = tokens \/ (tokens' = tokens - 1 /\ 0 \notin {403, 425, 404}))
    <3>1. CASE SelectedRoute(c).limited
      <4>1. tokens > 0 /\ tokens' = tokens - 1
        BY <1>12, <3>1 DEF Execute
      <4> QED
        BY <1>0, <4>1
    <3>2. CASE ~SelectedRoute(c).limited
      <4>1. tokens' = tokens
        BY <1>12, <3>2 DEF Execute
      <4> QED
        BY <1>0, <4>1
    <3> QED
      BY <3>1, <3>2
  <2>4. totals' = [totals EXCEPT !.requests = @ + 1] /\ traffic' = Counted(traffic, SelectedIds(c), "requests")
        /\ grpcBody' = grpcBody
    BY <1>12 DEF Execute, RecordRequest
  <2>5. CountsRequest(traffic', SelectedIds(c))
    BY <1>0, <2>4, RequestCounted
  <2> QED
    BY <2>2, <2>3, <2>4, <2>5, InvOpens
<1> QED
  BY <1>1, <1>2, <1>3, <1>4, <1>5, <1>6, <1>7, <1>7a, <1>8, <1>9, <1>10, <1>11, <1>12, Zenon

LEMMA DispatchInvStep ==
    ASSUME DispatchInv, [DispatchNext]_dispatchVars
    PROVE  DispatchInv'
<1>1. CASE UNCHANGED dispatchVars
  BY <1>1, InvRest DEF dispatchVars
<1>2. CASE DispatchReload
  BY <1>2, InvReload
<1>3. CASE \E t \in challenges : Unregister(t)
  BY <1>3, InvRest DEF Unregister
<1>4. CASE \E c \in DOMAIN request :
             \/ TakeSnapshot(c) \/ AnswerChallenge(c) \/ NoRoute(c) \/ RejectEarlyData(c) \/ Deny(c)
             \/ RejectRateLimited(c) \/ Execute(c) \/ Forward(c) \/ ActionAnswers(c) \/ FinishResponse(c)
             \/ ObserveStatus(c) \/ (\E found \in BOOLEAN : EndStream(c, found) \/ DropBody(c, found))
             \/ ClientLeaves(c)
  BY <1>4, DispatchInvRequest
<1> QED
  BY <1>1, <1>2, <1>3, <1>4, Zenon DEF DispatchNext

LEMMA DispatchInvAlways == DispatchSpec => []DispatchInv
<1>1. DispatchInit => DispatchInv
  BY DispatchInvInit
<1>2. DispatchInv /\ [DispatchNext]_dispatchVars => DispatchInv'
  BY DispatchInvStep
<1> QED
  BY <1>1, <1>2, PTL DEF DispatchSpec

\* The checks come first, and tokens are taken by requests that passed them.
LEMMA ChecksFirst ==
    ASSUME DispatchInv
    PROVE  ChecksBeforeExecution
<1>0. RequestsInv /\ TokensInv
  BY DEF DispatchInv
<1>1. ASSUME NEW c \in DOMAIN request, request[c].pc \in {"executing", "forwarded"}
      PROVE  /\ Kind(c).early => RouteTaken(c).early
             /\ \A a \in request[c].client : Allows(RouteTaken(c), a.ip)
  <2> DEFINE r == request[c]
  <2>1. EntryFits(scenario, active, c, r)
    BY <1>0, EntryHere
  <2>2. Checked(scenario, c, r)
    BY <1>1, <2>1 DEF EntryFits
  <2>3. r.client = {AddressAt(scenario, c, r)}
    BY <2>1, <2>2 DEF EntryFits, Checked, Chosen
  <2>4. Kind(c) = scenario.requests[c] /\ RouteTaken(c) = TakenAt(scenario, r)
    BY DecisionsAt
  <2>5. (Kind(c).early => RouteTaken(c).early) /\ Allows(RouteTaken(c), AddressAt(scenario, c, r).ip)
    BY <2>2, <2>4, Zenon DEF Checked
  <2>6. \A a \in r.client : a = AddressAt(scenario, c, r)
    BY <2>3
  <2> QED
    BY <2>5, <2>6, Zenon
<1>2. scenario.tokens - tokens <= Cardinality({c \in DOMAIN request : Past(c) /\ request[c].status \notin {403, 425, 404}})
  <2>1. DOMAIN request = Clients
    BY <1>0 DEF RequestsInv
  <2>2. ASSUME NEW c \in Clients PROVE Past(c) <=> request[c].client # {}
    <3>1. EntryFits(scenario, active, c, request[c]) /\ DOMAIN request # {}
      BY <1>0, <2>1, <2>2 DEF RequestsInv
    <3> QED
      BY <3>1 DEF EntryFits, Past
  <2>3. {c \in DOMAIN request : Past(c) /\ request[c].status \notin {403, 425, 404}} = Takers
    BY <2>1, <2>2 DEF Takers, Takes
  <2> QED
    BY <1>0, <2>3 DEF TokensInv
<1> QED
  BY <1>1, <1>2 DEF ChecksBeforeExecution

\* The counters agree with the requests.
LEMMA CountersRight ==
    ASSUME DispatchInv
    PROVE  CountersAddUp
<1>0. RequestsInv /\ CountsInv /\ scenario \in DispatchScenarios
  BY DEF DispatchInv, RequestsInv
<1>1. DOMAIN request = Clients
  BY <1>0 DEF RequestsInv
<1>2. ASSUME NEW c \in Clients PROVE Past(c) <=> request[c].client # {}
  <2>1. EntryFits(scenario, active, c, request[c]) /\ DOMAIN request # {}
    BY <1>0, <1>1, <1>2 DEF RequestsInv
  <2> QED
    BY <2>1 DEF EntryFits, Past
<1>3. OpenRequests = InFlight \cup Abandoned /\ InFlight \cap Abandoned = {} /\ InFlight \subseteq Clients
      /\ Abandoned \subseteq Clients
  BY <1>1, <1>2 DEF OpenRequests, IsOpen, InFlight, Abandoned
<1>4. /\ Cardinality(OpenRequests) = Cardinality(InFlight) + Cardinality(Abandoned)
      /\ Cardinality(InFlight) \in Nat /\ Cardinality(Abandoned) \in Nat
  <2>1. IsFiniteSet(InFlight) /\ IsFiniteSet(Abandoned) /\ Cardinality(InFlight) \in Nat /\ Cardinality(Abandoned) \in Nat
    BY <1>0, <1>3, ClientsFinite
  <2>2. Cardinality(InFlight \cup Abandoned) =
          Cardinality(InFlight) + Cardinality(Abandoned) - Cardinality(InFlight \cap Abandoned)
    BY <2>1, FS_Union
  <2>3. Cardinality(InFlight \cap Abandoned) = 0
    BY <1>3, FS_EmptySet
  <2> QED
    BY <1>3, <2>1, <2>2, <2>3
<1>5. totals.requests = totals.responses + Cardinality(InFlight) + Cardinality(Abandoned)
  <2>1. totals.responses \in Nat /\ totals.requests = totals.responses + Cardinality(OpenRequests)
    BY <1>0 DEF CountsInv
  <2> QED
    BY <1>4, <2>1
<1>6. ASSUME NEW id \in DOMAIN traffic, \A k \in 1 .. active : id \in RouteIds(scenario.configs[k])
      PROVE  /\ traffic[id].requests =
                  traffic[id].responses + Cardinality({c \in InFlight \cup Abandoned : id \in RouteId(c)})
             /\ traffic[id].denied + traffic[id].limited <= traffic[id].requests
  <2>1. id \in RouteIds(scenario.configs[active]) /\ NeverRemoved(id)
    BY <1>0, <1>6 DEF CountsInv, NeverRemoved
  <2>2. TrafficFits(id)
    BY <1>0, <2>1 DEF CountsInv
  <2>3. \A c : RouteId(c) = IdsAt(scenario, request[c])
    BY DecisionsAt
  <2>4. {c \in InFlight \cup Abandoned : id \in RouteId(c)} = {c \in OpenRequests : id \in IdsAt(scenario, request[c])}
    BY <1>3, <2>3
  <2>5. {c \in OpenRequests : id \in IdsAt(scenario, request[c])} = OpenFor(id)
    BY DEF OpenRequests, OpenFor
  <2> QED
    BY <2>2, <2>4, <2>5 DEF TrafficFits
<1> QED
  BY <1>5, <1>6, Zenon DEF CountersAddUp

LEMMA GrpcOnce ==
    ASSUME DispatchInv
    PROVE  GrpcEndsOnce
<1>1. GrpcInv /\ DOMAIN request = Clients
  BY DEF DispatchInv, RequestsInv
<1>2. ASSUME NEW c \in Clients
      PROVE  /\ Len(grpcBody[c].recorded) <= 1
             /\ request[c].pc = "ended" => grpcBody[c].recorded # <<>>
             /\ grpcBody[c].recorded = <<"cancelled">> => ~grpcBody[c].completed
             /\ grpcBody[c].recorded = <<"none">> => grpcBody[c].completed
  <2>1. PICK b : b = grpcBody[c]
    OBVIOUS
  <2>2. /\ request[c].pc # "ended" => BodyLives(b)
        /\ request[c].pc = "ended" => BodyOver(b)
    BY <1>1, <2>1 DEF GrpcInv
  <2>3. b \in BodyType
    BY <2>2 DEF BodyLives, BodyOver
  <2>4. Len(b.recorded) <= 1
    <3>1. PICK s \in {<<>>, <<"none">>, <<"given">>, <<"cancelled">>} : s = b.recorded
      BY <2>3 DEF BodyType
    <3>2. Len(s) <= 1
      OBVIOUS
    <3> QED
      BY <3>1, <3>2, Zenon
  <2>5. CASE request[c].pc = "ended"
    BY <2>1, <2>2, <2>4, <2>5 DEF BodyOver
  <2>6. CASE request[c].pc # "ended"
    BY <2>1, <2>2, <2>4, <2>6 DEF BodyLives
  <2> QED
    BY <2>5, <2>6
<1> QED
  BY <1>1, <1>2 DEF GrpcEndsOnce

\* Whatever the configurations, hosts, routes and requests, and however reloads and
\* requests interleave, a request is served by the first virtual host that matches its
\* host best and by the route no matching route outranks (select_vhost,
\* select_route_with_context).
THEOREM RoutesAreMostSpecific == DispatchSpec => []RouteIsMostSpecific
<1>1. DispatchInv => RouteIsMostSpecific
  BY RoutesRight DEF DispatchInv
<1> QED
  BY <1>1, DispatchInvAlways, PTL

\* The address a request is checked by is the socket's unless that peer is trusted, and is
\* reported through trusted hops only, the immediate peer included; except that behind a
\* PROXY source that is not trusted the header's chain is believed without it.  The upstream
\* is told that address and no connection-level header of the client's, whatever headers
\* arrive and whatever their Connection header lists (resolve_client_address,
\* sanitize_request_headers).
THEOREM ClientsAreVouchedFor == DispatchSpec => []ClientVouched
<1>1. DispatchInv => ClientVouched
  BY AddressesVouched, HeadersOurs DEF DispatchInv, ClientVouched
<1> QED
  BY <1>1, DispatchInvAlways, PTL

\* Only checked requests are executed and take from the rate limiter, and the upstream is
\* asked for the normalised path the checks were made for, for every target, dot segments
\* and stripped prefixes included (handle, build_proxy_uri).
THEOREM OnlyCheckedRequestsExecute == DispatchSpec => []OnlyCheckedExecuted
<1>1. DispatchInv => OnlyCheckedExecuted
  BY ChecksFirst, PathsForwarded DEF DispatchInv, OnlyCheckedExecuted
<1> QED
  BY <1>1, DispatchInvAlways, PTL

-----------------------------------------------------------------------------
(* The rolling counter.                                                    *)

\* Bucket p holds the increments start[p] .. start[p + 1] - 1: the first of them has its
\* second, none is later, and the increments before all buckets are older than every window.
Started(start, buckets, given, now) ==
    /\ start \in [1 .. Len(buckets) + 1 -> 1 .. Len(given) + 1]
    /\ start[Len(buckets) + 1] = Len(given) + 1
    /\ \A p \in 1 .. Len(buckets) :
         /\ start[p] < start[p + 1]
         /\ buckets[p] = <<given[start[p]], start[p + 1] - start[p]>>
         /\ \A i \in start[p] .. start[p + 1] - 1 : given[i] <= buckets[p][1]
    /\ \A p, q \in 1 .. Len(buckets) : p < q => buckets[p][1] < buckets[q][1]
    /\ \A i \in 1 .. start[1] - 1 : given[i] < Cutoff(now, MaxWindow)

Rolls(r) ==
    /\ r \in [on : BOOLEAN, buckets : Seq(Nat \X Nat), now : Nat, given : Seq(Nat)]
    /\ \E start : Started(start, r.buckets, r.given, r.now)

RollingInv == Rolls(rolling)

\* A later second, or a shorter window, begins later.
LEMMA CutoffGrows ==
    ASSUME NEW a \in Nat, NEW b \in Nat, a <= b, NEW v \in Nat, NEW w \in Nat, 1 <= v, v <= w
    PROVE  Cutoff(a, w) \in Nat /\ Cutoff(a, w) <= Cutoff(b, v)
BY DEF Cutoff

LEMMA WindowTypes ==
    ASSUME NEW now \in Nat
    PROVE  Cutoff(now, MaxWindow) \in Nat
BY BusAssumption DEF Cutoff

LEMMA BelowBelow ==
    ASSUME NEW a \in Nat, NEW b \in Nat, NEW c \in Nat
    PROVE  (a <= b /\ b < c => a < c) /\ (a >= b /\ a < c => c >= b)
OBVIOUS

\* Where trim_old_buckets stops.
LEMMA FirstFromIs ==
    ASSUME NEW buckets \in Seq(Nat \X Nat), NEW c \in Nat
    PROVE  /\ FirstFrom(buckets, c) \in 1 .. Len(buckets) + 1
           /\ \A j \in 1 .. FirstFrom(buckets, c) - 1 : buckets[j][1] < c
           /\ FirstFrom(buckets, c) <= Len(buckets) => buckets[FirstFrom(buckets, c)][1] >= c
<1> DEFINE n == Len(buckets)
           I == {i \in 1 .. n + 1 : i <= n => buckets[i][1] >= c}
<1>1. n \in Nat /\ \A i \in 1 .. n : buckets[i] \in Nat \X Nat /\ buckets[i][1] \in Nat
  OBVIOUS
<1>2. I \in SUBSET Nat /\ n + 1 \in I
  BY <1>1
<1>3. PICK i \in I : \A j \in I : i <= j
  <2> HIDE DEF I
  <2> QED
    BY <1>2, LeastNatural, Zenon
<1>4. ASSUME NEW j \in 1 .. i - 1 PROVE buckets[j][1] < c
  <2>1. j \in 1 .. n /\ ~(i <= j)
    BY <1>1, <1>3
  <2>2. j \notin I
    BY <1>3, <2>1
  <2>3. ~(buckets[j][1] >= c)
    BY <1>1, <2>1, <2>2
  <2> QED
    BY <1>1, <2>1, <2>3
<1>5. /\ i \in 1 .. Len(buckets) + 1
      /\ \A j \in 1 .. i - 1 : buckets[j][1] < c
      /\ i <= Len(buckets) => buckets[i][1] >= c
  BY <1>3, <1>4
<1> QED
  BY <1>5, Zenon DEF FirstFrom

\* Whatever lies before a piece lies before all pieces or in an earlier piece.
LEMMA InEarlierPiece ==
    ASSUME NEW n \in Nat, NEW m \in Nat, NEW start \in [1 .. n + 1 -> 1 .. m + 1],
           NEW f \in 1 .. n + 1, NEW i \in 1 .. m, i < start[f], start[1] <= i
    PROVE  \E p \in 1 .. f - 1 : i \in start[p] .. start[p + 1] - 1
<1> DEFINE P == {p \in 1 .. f - 1 : start[p] <= i}
<1>0. \A p \in 1 .. n + 1 : start[p] \in Nat
  OBVIOUS
<1>1. f - 1 \in Nat /\ P \in SUBSET (1 .. f - 1)
  OBVIOUS
<1>2. P # {}
  <2>1. f # 1
    BY <1>0
  <2>2. 1 \in P
    BY <2>1
  <2> QED
    BY <2>2
<1>3. PICK p \in P : \A q \in P : q <= p
  <2> HIDE DEF P
  <2> QED
    BY <1>1, <1>2, LastPosition
<1>4. p \in 1 .. n /\ p + 1 \in 1 .. n + 1 /\ p + 1 <= f /\ p \in 1 .. f - 1 /\ start[p] <= i
  BY <1>3
<1>5. i < start[p + 1]
  <2>1. CASE p + 1 = f
    BY <2>1
  <2>2. CASE p + 1 # f
    <3>1. p + 1 \in 1 .. f - 1 /\ p + 1 \notin P
      BY <1>3, <1>4, <2>2
    <3>2. ~(start[p + 1] <= i)
      BY <3>1
    <3> QED
      BY <1>0, <1>4, <3>2
  <2> QED
    BY <2>1, <2>2
<1>6. start[p] \in Nat /\ start[p + 1] \in Nat
  BY <1>0, <1>4
<1>7. i \in start[p] .. start[p + 1] - 1
  BY <1>4, <1>5, <1>6
<1> QED
  BY <1>4, <1>7

\* Increments before a bucket are older than whatever the buckets before it are older than.
LEMMA OlderBefore ==
    ASSUME NEW buckets \in Seq(Nat \X Nat), NEW given \in Seq(Nat), NEW start, NEW now \in Nat,
           Started(start, buckets, given, now), NEW f \in 1 .. Len(buckets) + 1, NEW c \in Nat,
           Cutoff(now, MaxWindow) <= c, \A p \in 1 .. f - 1 : buckets[p][1] < c
    PROVE  \A i \in 1 .. start[f] - 1 : given[i] < c
<1>0. Len(buckets) \in Nat /\ Len(given) \in Nat /\ Cutoff(now, MaxWindow) \in Nat
  <2>1. Cutoff(now, MaxWindow) \in Nat
    BY WindowTypes
  <2> QED
    BY <2>1
<1>1. start \in [1 .. Len(buckets) + 1 -> 1 .. Len(given) + 1] /\ start[f] \in 1 .. Len(given) + 1
      /\ start[1] \in 1 .. Len(given) + 1
  <2>1. start \in [1 .. Len(buckets) + 1 -> 1 .. Len(given) + 1]
    BY Zenon DEF Started
  <2>2. 1 \in 1 .. Len(buckets) + 1
    BY <1>0
  <2> QED
    BY <2>1, <2>2, Zenon
<1>2. SUFFICES ASSUME NEW i \in 1 .. start[f] - 1 PROVE given[i] < c
  OBVIOUS
<1>3. i \in 1 .. Len(given) /\ i < start[f]
  BY <1>0, <1>1
<1>9. given[i] \in Nat
  BY <1>3
<1>4. CASE i < start[1]
  <2>0. i \in 1 .. start[1] - 1
    BY <1>0, <1>1, <1>3, <1>4
  <2>1. given[i] < Cutoff(now, MaxWindow)
    BY <2>0 DEF Started
  <2> QED
    BY <1>0, <1>9, <2>1
<1>5. CASE start[1] <= i
  <2>1. PICK p \in 1 .. f - 1 : i \in start[p] .. start[p + 1] - 1
    BY <1>0, <1>1, <1>3, <1>5, InEarlierPiece
  <2>2. p \in 1 .. Len(buckets)
    BY <1>0
  <2>3. given[i] <= buckets[p][1]
    BY <2>1, <2>2, Zenon DEF Started
  <2>4. buckets[p] \in Nat \X Nat
    BY <2>2
  <2>5. buckets[p][1] \in Nat
    BY <2>4
  <2>6. buckets[p][1] < c
    BY <2>1, Zenon
  <2> QED
    BY <1>9, <2>3, <2>5, <2>6, BelowBelow, Zenon
<1> QED
  BY <1>1, <1>3, <1>4, <1>5

\* What trim_old_buckets leaves.
LEMMA TrimIs ==
    ASSUME NEW buckets \in Seq(Nat \X Nat), NEW now \in Nat
    PROVE  LET f == FirstFrom(buckets, Cutoff(now, MaxWindow))
               kept == Trim(buckets, now)
           IN  /\ f \in 1 .. Len(buckets) + 1
               /\ \A j \in 1 .. f - 1 : buckets[j][1] < Cutoff(now, MaxWindow)
               /\ kept \in Seq(Nat \X Nat) /\ Len(kept) = Len(buckets) - f + 1
               /\ \A p \in 1 .. Len(kept) : kept[p] = buckets[f + p - 1]
<1> DEFINE f == FirstFrom(buckets, Cutoff(now, MaxWindow))
           kept == Trim(buckets, now)
<1>1. Cutoff(now, MaxWindow) \in Nat
  BY WindowTypes
<1>2. f \in 1 .. Len(buckets) + 1 /\ \A j \in 1 .. f - 1 : buckets[j][1] < Cutoff(now, MaxWindow)
  BY <1>1, FirstFromIs, Zenon
<1>3. kept = SubSeq(buckets, f, Len(buckets))
  BY Zenon DEF Trim
<1> HIDE DEF f, kept
<1>4. Len(buckets) \in Nat /\ DOMAIN buckets = 1 .. Len(buckets)
  OBVIOUS
<1>5. Len(kept) = Len(buckets) - f + 1
  BY <1>2, <1>3, <1>4
<1>6. \A p \in 1 .. Len(kept) : kept[p] = buckets[f + p - 1]
  BY <1>2, <1>3, <1>4, <1>5
<1>7. kept \in Seq(Nat \X Nat)
  BY <1>2, <1>3, <1>4
<1> QED
  BY <1>2, <1>5, <1>6, <1>7 DEF f, kept

\* Trimming keeps the pieces of the buckets it keeps.
LEMMA TrimKeeps ==
    ASSUME NEW buckets \in Seq(Nat \X Nat), NEW given \in Seq(Nat), NEW start, NEW now \in Nat, NEW second \in Nat,
           Started(start, buckets, given, now), second <= now
    PROVE  \E new : Started(new, Trim(buckets, second), given, now)
<1> DEFINE f == FirstFrom(buckets, Cutoff(second, MaxWindow))
           kept == Trim(buckets, second)
           n == Len(buckets)
           k == Len(kept)
           m == Len(given)
           new == [p \in 1 .. k + 1 |-> start[f + p - 1]]
<1>1. /\ f \in 1 .. n + 1
      /\ \A j \in 1 .. f - 1 : buckets[j][1] < Cutoff(second, MaxWindow)
      /\ kept \in Seq(Nat \X Nat) /\ k = n - f + 1
      /\ \A p \in 1 .. k : kept[p] = buckets[f + p - 1]
  BY TrimIs
<1>2. n \in Nat /\ k \in Nat /\ m \in Nat
  BY <1>1
<1>3. start \in [1 .. n + 1 -> 1 .. m + 1] /\ start[n + 1] = m + 1
  BY Zenon DEF Started
<1>4. \A p \in 1 .. n :
         /\ start[p] < start[p + 1]
         /\ buckets[p] = <<given[start[p]], start[p + 1] - start[p]>>
         /\ \A i \in start[p] .. start[p + 1] - 1 : given[i] <= buckets[p][1]
  BY Zenon DEF Started
<1>5. \A p, q \in 1 .. n : p < q => buckets[p][1] < buckets[q][1]
  BY Zenon DEF Started
<1>6. \A i \in 1 .. start[f] - 1 : given[i] < Cutoff(now, MaxWindow)
  <2>1. Cutoff(now, MaxWindow) \in Nat /\ Cutoff(second, MaxWindow) \in Nat
    BY WindowTypes
  <2>2. Cutoff(second, MaxWindow) <= Cutoff(now, MaxWindow)
    BY CutoffGrows, BusAssumption
  <2>3. \A p \in 1 .. f - 1 : buckets[p][1] < Cutoff(now, MaxWindow)
    <3> TAKE p \in 1 .. f - 1
    <3>1. p \in 1 .. n
      BY <1>1, <1>2
    <3>2. buckets[p][1] \in Nat
      BY <3>1
    <3>3. buckets[p][1] < Cutoff(second, MaxWindow)
      BY <1>1
    <3> HIDE DEF f
    <3> QED
      BY <2>1, <2>2, <3>2, <3>3
  <2>4. Cutoff(now, MaxWindow) <= Cutoff(now, MaxWindow)
    BY <2>1
  <2> HIDE DEF f
  <2> QED
    BY <1>1, <2>1, <2>3, <2>4, OlderBefore, Zenon
<1> HIDE DEF f, kept, n, k, m
<1>7. new \in [1 .. k + 1 -> 1 .. m + 1]
  BY <1>1, <1>2, <1>3
<1>8. new[k + 1] = m + 1 /\ new[1] = start[f]
  <2>1. k + 1 \in 1 .. k + 1 /\ 1 \in 1 .. k + 1 /\ f + (k + 1) - 1 = n + 1 /\ f + 1 - 1 = f
    BY <1>1, <1>2
  <2>2. new[k + 1] = start[f + (k + 1) - 1] /\ new[1] = start[f + 1 - 1]
    BY <2>1, Zenon
  <2> HIDE DEF new
  <2> QED
    BY <1>3, <2>1, <2>2, Zenon
<1>9. ASSUME NEW p \in 1 .. k
      PROVE  /\ new[p] = start[f + p - 1] /\ new[p + 1] = start[(f + p - 1) + 1]
             /\ f + p - 1 \in 1 .. n /\ kept[p] = buckets[f + p - 1]
  <2>1. /\ p \in 1 .. k + 1 /\ p + 1 \in 1 .. k + 1 /\ f + (p + 1) - 1 = (f + p - 1) + 1
        /\ f + p - 1 \in 1 .. n
    BY <1>1, <1>2
  <2>2. new[p] = start[f + p - 1] /\ new[p + 1] = start[f + (p + 1) - 1]
    BY <2>1, Zenon
  <2> HIDE DEF new
  <2> QED
    BY <1>1, <2>1, <2>2, Zenon
<1> HIDE DEF new
<1>10. ASSUME NEW p \in 1 .. k
       PROVE  /\ new[p] < new[p + 1]
              /\ kept[p] = <<given[new[p]], new[p + 1] - new[p]>>
              /\ \A i \in new[p] .. new[p + 1] - 1 : given[i] <= kept[p][1]
  BY <1>4, <1>9, Zenon
<1>11. ASSUME NEW p \in 1 .. k, NEW q \in 1 .. k, p < q PROVE kept[p][1] < kept[q][1]
  <2>1. f + p - 1 < f + q - 1
    BY <1>1, <1>2, <1>11
  <2> QED
    BY <1>5, <1>9, <2>1, Zenon
<1>12. Started(new, kept, given, now)
  BY <1>6, <1>7, <1>8, <1>10, <1>11, Zenon DEF Started, k, m
<1> QED
  BY <1>12, Zenon DEF kept

\* increment_at keeps the buckets in order and loses no increment of a window.
LEMMA IncrementKeeps ==
    ASSUME NEW buckets \in Seq(Nat \X Nat), NEW given \in Seq(Nat), NEW start, NEW now \in Nat, NEW second \in Nat,
           Started(start, buckets, given, now), second <= now
    PROVE  /\ IncrementAt(buckets, second) \in Seq(Nat \X Nat)
           /\ \E new : Started(new, IncrementAt(buckets, second), Append(given, second), now)
<1> DEFINE kept == Trim(buckets, second)
           after == Append(given, second)
           m == Len(given)
           k == Len(kept)
<1>1. kept \in Seq(Nat \X Nat)
  BY TrimIs
<1>2. PICK old : Started(old, kept, given, now)
  BY TrimKeeps, Zenon
<1> HIDE DEF kept
<1>3. k \in Nat /\ m \in Nat /\ DOMAIN kept = 1 .. k
  BY <1>1
<1>4. old \in [1 .. k + 1 -> 1 .. m + 1] /\ old[k + 1] = m + 1
  BY <1>2, Zenon DEF Started
<1>5. \A p \in 1 .. k :
         /\ old[p] < old[p + 1]
         /\ kept[p] = <<given[old[p]], old[p + 1] - old[p]>>
         /\ \A i \in old[p] .. old[p + 1] - 1 : given[i] <= kept[p][1]
  BY <1>2, Zenon DEF Started
<1>6. \A p, q \in 1 .. k : p < q => kept[p][1] < kept[q][1]
  BY <1>2, Zenon DEF Started
<1>7. \A i \in 1 .. old[1] - 1 : given[i] < Cutoff(now, MaxWindow)
  BY <1>2, Zenon DEF Started
<1>8. after \in Seq(Nat) /\ Len(after) = m + 1 /\ after[m + 1] = second /\ \A i \in 1 .. m : after[i] = given[i]
  BY <1>3
<1>15. \A p \in 1 .. k : kept[p][1] \in Nat /\ kept[p][2] \in Nat
  BY <1>1, <1>3
<1>16. \A p \in 1 .. k + 1 : old[p] \in 1 .. m + 1
  BY <1>4
<1> HIDE DEF after, m, k
<1>9. CASE kept # <<>> /\ Last(kept)[1] >= second
  <2> DEFINE b == Append(Front(kept), <<Last(kept)[1], Last(kept)[2] + 1>>)
             new == [old EXCEPT ![k + 1] = m + 2]
  <2>1. IncrementAt(buckets, second) = b
    BY <1>9 DEF IncrementAt, kept
  <2>2. k # 0 /\ Last(kept) = kept[k]
    BY <1>1, <1>9 DEF Last, k
  <2>3. Front(kept) \in Seq(Nat \X Nat) /\ Len(Front(kept)) = k - 1
        /\ \A p \in 1 .. k - 1 : Front(kept)[p] = kept[p]
    BY <1>1, <1>3, <2>2 DEF Front, k
  <2>4. <<kept[k][1], kept[k][2] + 1>> \in Nat \X Nat
    BY <1>3, <1>15, <2>2
  <2>5. /\ b \in Seq(Nat \X Nat) /\ Len(b) = k
        /\ \A p \in 1 .. k - 1 : b[p] = kept[p]
        /\ b[k] = <<kept[k][1], kept[k][2] + 1>>
    BY <1>3, <2>2, <2>3, <2>4
  <2> HIDE DEF b
  <2>6. new \in [1 .. k + 1 -> 1 .. (m + 1) + 1]
    BY <1>3, <1>4
  <2>7. /\ new[k + 1] = (m + 1) + 1
        /\ \A p \in 1 .. k : new[p] = old[p]
    BY <1>3, <1>4
  <2> HIDE DEF new
  <2>8. ASSUME NEW p \in 1 .. k
        PROVE  /\ new[p] < new[p + 1]
               /\ b[p] = <<after[new[p]], new[p + 1] - new[p]>>
               /\ \A i \in new[p] .. new[p + 1] - 1 : after[i] <= b[p][1]
    <3>1. p + 1 \in 1 .. k + 1 /\ p \in 1 .. k + 1
      BY <1>3
    <3>2. new[p] = old[p] /\ old[p] \in 1 .. m + 1 /\ old[p + 1] \in 1 .. m + 1 /\ old[p] < old[p + 1]
      BY <1>5, <1>16, <2>7, <3>1
    <3>3. old[p] \in 1 .. m /\ after[new[p]] = given[old[p]]
      <4>1. old[p] \in 1 .. m
        BY <1>3, <3>2
      <4>2. \A i \in 1 .. m : after[i] = given[i]
        BY <1>8, Zenon
      <4>3. new[p] = old[p]
        BY <3>2, Zenon
      <4>4. after[old[p]] = given[old[p]]
        BY <4>1, <4>2, Zenon
      <4> QED
        BY <4>1, <4>3, <4>4
    <3>4. CASE p # k
      <4>1. p \in 1 .. k - 1 /\ p + 1 \in 1 .. k
        BY <1>3, <3>4
      <4>2. new[p + 1] = old[p + 1] /\ b[p] = kept[p]
        BY <2>5, <2>7, <4>1
      <4>3. \A i \in new[p] .. new[p + 1] - 1 : i \in 1 .. m /\ i \in old[p] .. old[p + 1] - 1
        BY <1>3, <3>2, <4>2
      <4>4. \A i \in new[p] .. new[p + 1] - 1 : after[i] <= b[p][1]
        BY <1>5, <1>8, <4>2, <4>3, Zenon
      <4> QED
        BY <1>5, <3>2, <3>3, <4>2, <4>4, Zenon
    <3>5. CASE p = k
      <4>1. new[p + 1] = m + 2 /\ old[p + 1] = m + 1
        BY <1>3, <1>4, <2>7, <3>5
      <4>2. kept[k] = <<given[old[k]], (m + 1) - old[k]>>
        BY <1>5, <3>5, <4>1
      <4>3. b[p] = <<given[old[k]], ((m + 1) - old[k]) + 1>>
        BY <2>5, <3>5, <4>2
      <4>4. b[p] = <<after[new[p]], new[p + 1] - new[p]>>
        <5>1. ((m + 1) - old[k]) + 1 = new[p + 1] - new[p]
          BY <1>3, <3>2, <3>5, <4>1
        <5> QED
          BY <3>3, <3>5, <4>3, <5>1, Zenon
      <4>5. b[p][1] = kept[k][1] /\ second <= kept[k][1] /\ kept[k][1] \in Nat
        BY <1>9, <1>15, <2>2, <2>5, <3>5
      <4>6. ASSUME NEW i \in new[p] .. new[p + 1] - 1 PROVE after[i] <= b[p][1]
        <5>1. CASE i = m + 1
          BY <1>8, <4>5, <5>1
        <5>2. CASE i # m + 1
          <6>1. i \in 1 .. m /\ i \in old[k] .. old[k + 1] - 1
            BY <1>3, <3>2, <3>5, <4>1, <5>2
          <6>2. given[i] <= kept[k][1] /\ after[i] = given[i]
            BY <1>5, <1>8, <3>5, <6>1
          <6> QED
            BY <4>5, <6>2, Zenon
        <5> QED
          BY <5>1, <5>2
      <4>7. new[p] < new[p + 1]
        BY <1>3, <3>2, <4>1
      <4> QED
        BY <4>4, <4>6, <4>7
    <3> QED
      BY <3>4, <3>5
  <2>9. ASSUME NEW p \in 1 .. k, NEW q \in 1 .. k, p < q PROVE b[p][1] < b[q][1]
    <3>1. \A x \in 1 .. k : b[x][1] = kept[x][1]
      <4> TAKE x \in 1 .. k
      <4>1. x \in 1 .. k - 1 \/ x = k
        BY <1>3
      <4>2. b[k][1] = kept[k][1]
        BY <2>5
      <4> QED
        BY <2>5, <4>1, <4>2, Zenon
    <3> QED
      BY <1>6, <2>9, <3>1, Zenon
  <2>10. \A i \in 1 .. new[1] - 1 : after[i] < Cutoff(now, MaxWindow)
    <3>1. 1 \in 1 .. k
      BY <1>3, <2>2
    <3>2. new[1] = old[1] /\ old[1] \in 1 .. m + 1
      BY <1>3, <1>16, <2>7, <3>1
    <3>3. \A i \in 1 .. new[1] - 1 : i \in 1 .. m /\ i \in 1 .. old[1] - 1
      BY <1>3, <3>2
    <3> QED
      BY <1>7, <1>8, <3>3, Zenon
  <2>11. Started(new, b, after, now)
    BY <1>8, <2>5, <2>6, <2>7, <2>8, <2>9, <2>10, Zenon DEF Started
  <2> QED
    BY <2>1, <2>5, <2>11, Zenon DEF after
<1>10. CASE ~(kept # <<>> /\ Last(kept)[1] >= second)
  <2> DEFINE b == Append(kept, <<second, 1>>)
             new == [p \in 1 .. k + 2 |-> IF p = k + 2 THEN m + 2 ELSE old[p]]
  <2>1. IncrementAt(buckets, second) = b
    BY <1>10 DEF IncrementAt, kept
  <2>2. /\ b \in Seq(Nat \X Nat) /\ Len(b) = k + 1
        /\ \A p \in 1 .. k : b[p] = kept[p]
        /\ b[k + 1] = <<second, 1>>
    BY <1>1, <1>3 DEF k
  <2> HIDE DEF b
  <2>3. k # 0 => kept[k][1] < second
    <3>1. k # 0 => kept # <<>> /\ Last(kept) = kept[k]
      BY <1>1 DEF k, Last
    <3>2. k # 0 => ~(kept[k][1] >= second) /\ kept[k][1] \in Nat
      BY <1>3, <1>10, <1>15, <3>1
    <3> QED
      BY <3>2
  <2>4. new \in [1 .. (k + 1) + 1 -> 1 .. (m + 1) + 1]
    <3>1. \A p \in 1 .. k + 2 : p # k + 2 => p \in 1 .. k + 1
      BY <1>3
    <3> QED
      BY <1>3, <1>16, <3>1
  <2>5. /\ new[(k + 1) + 1] = (m + 1) + 1
        /\ \A p \in 1 .. k + 1 : new[p] = old[p]
    BY <1>3
  <2> HIDE DEF new
  <2>8. ASSUME NEW p \in 1 .. k + 1
        PROVE  /\ new[p] < new[p + 1]
               /\ b[p] = <<after[new[p]], new[p + 1] - new[p]>>
               /\ \A i \in new[p] .. new[p + 1] - 1 : after[i] <= b[p][1]
    <3>4. CASE p # k + 1
      <4>1. p \in 1 .. k /\ p + 1 \in 1 .. k + 1
        BY <1>3, <3>4
      <4>2. new[p] = old[p] /\ new[p + 1] = old[p + 1] /\ b[p] = kept[p]
        BY <2>2, <2>5, <4>1
      <4>5. old[p] \in 1 .. m + 1 /\ old[p + 1] \in 1 .. m + 1 /\ old[p] < old[p + 1]
        BY <1>5, <1>16, <4>1
      <4>6. after[new[p]] = given[old[p]]
        <5>1. old[p] \in 1 .. m
          BY <1>3, <4>5
        <5>2. after[old[p]] = given[old[p]]
          BY <1>8, <5>1, Zenon
        <5> QED
          BY <4>2, <5>2, Zenon
      <4>3. \A i \in new[p] .. new[p + 1] - 1 : i \in 1 .. m /\ i \in old[p] .. old[p + 1] - 1
        BY <1>3, <4>2, <4>5
      <4>4. \A i \in new[p] .. new[p + 1] - 1 : after[i] <= b[p][1]
        BY <1>5, <1>8, <4>1, <4>2, <4>3, Zenon
      <4> QED
        BY <1>5, <4>1, <4>2, <4>4, <4>6, Zenon
    <3>5. CASE p = k + 1
      <4>1. new[p] = m + 1 /\ new[p + 1] = m + 2
        BY <1>3, <1>4, <2>5, <3>5
      <4>2. b[p] = <<second, 1>> /\ after[new[p]] = second
        BY <1>8, <2>2, <3>5, <4>1
      <4>3. \A i \in new[p] .. new[p + 1] - 1 : i = m + 1
        BY <1>3, <4>1
      <4>4. new[p + 1] - new[p] = 1 /\ new[p] < new[p + 1]
        BY <1>3, <4>1
      <4>5. b[p][1] = second
        BY <4>2
      <4> QED
        BY <1>8, <4>2, <4>3, <4>4, <4>5
    <3> QED
      BY <3>4, <3>5
  <2>9. ASSUME NEW p \in 1 .. k + 1, NEW q \in 1 .. k + 1, p < q PROVE b[p][1] < b[q][1]
    <3>0. p \in 1 .. k
      BY <1>3, <2>9
    <3>1. p \in 1 .. k /\ b[p] = kept[p] /\ kept[p][1] \in Nat
      BY <1>15, <2>2, <3>0, Zenon
    <3>2. CASE q # k + 1
      <4>0. q \in 1 .. k
        BY <1>3, <3>2
      <4>1. q \in 1 .. k /\ b[q] = kept[q]
        BY <2>2, <4>0, Zenon
      <4> QED
        BY <1>6, <2>9, <3>1, <4>1, Zenon
    <3>3. CASE q = k + 1
      <4>1. b[q][1] = second
        BY <2>2, <3>3
      <4>2. k # 0 /\ k \in 1 .. k /\ kept[k][1] < second /\ kept[k][1] \in Nat
        BY <1>3, <1>15, <2>3, <3>1
      <4>3. kept[p][1] <= kept[k][1]
        <5>1. p = k \/ p < k
          BY <1>3, <3>1
        <5> QED
          BY <1>6, <3>1, <4>2, <5>1
      <4> QED
        BY <3>1, <4>1, <4>2, <4>3
    <3> QED
      BY <3>2, <3>3
  <2>10. \A i \in 1 .. new[1] - 1 : after[i] < Cutoff(now, MaxWindow)
    <3>1. 1 \in 1 .. k + 1
      BY <1>3
    <3>2. new[1] = old[1] /\ old[1] \in 1 .. m + 1
      BY <1>16, <2>5, <3>1
    <3>3. \A i \in 1 .. new[1] - 1 : i \in 1 .. m /\ i \in 1 .. old[1] - 1
      BY <1>3, <3>2
    <3> QED
      BY <1>7, <1>8, <3>3, Zenon
  <2>11. Started(new, b, after, now)
    BY <1>8, <2>2, <2>4, <2>5, <2>8, <2>9, <2>10, Zenon DEF Started
  <2> QED
    BY <2>1, <2>2, <2>11, Zenon DEF after
<1> QED
  BY <1>9, <1>10

\* What the buckets from g on hold, up to bucket e.
Held(start, g, e) == IF g <= e THEN start[e + 1] - start[g] ELSE 0

\* sum_recent adds up the buckets from the first of the window on.
LEMMA SumIs ==
    ASSUME NEW buckets \in Seq(Nat \X Nat), NEW given \in Seq(Nat), NEW start, NEW now \in Nat,
           Started(start, buckets, given, now), NEW window \in 1 .. MaxWindow
    PROVE  \E g \in 1 .. Len(buckets) + 1 :
             /\ \A j \in 1 .. g - 1 : buckets[j][1] < Cutoff(now, window)
             /\ g <= Len(buckets) => buckets[g][1] >= Cutoff(now, window)
             /\ SumRecent(buckets, now, window) = Held(start, g, Len(buckets))
<1> DEFINE n == Len(buckets)
           f == FirstFrom(buckets, Cutoff(now, MaxWindow))
           kept == Trim(buckets, now)
           k == Len(kept)
           c == Cutoff(now, window)
           g == FirstFrom(buckets, c)
           part(i) == IF kept[i][1] >= c THEN kept[i][2] ELSE 0
           step == [x \in Nat \X (1 .. k) |-> x[1] + part(x[2])]
           Equation(sum) == sum = [i \in 0 .. Len(kept) |->
                                     IF i = 0 THEN 0
                                     ELSE sum[i - 1] + (IF kept[i][1] >= Cutoff(now, window) THEN kept[i][2] ELSE 0)]
<1>1. /\ f \in 1 .. n + 1
      /\ \A j \in 1 .. f - 1 : buckets[j][1] < Cutoff(now, MaxWindow)
      /\ kept \in Seq(Nat \X Nat) /\ k = n - f + 1
      /\ \A p \in 1 .. k : kept[p] = buckets[f + p - 1]
  BY TrimIs
<1>2. Cutoff(now, MaxWindow) \in Nat /\ c \in Nat /\ Cutoff(now, MaxWindow) <= c
  BY BusAssumption DEF Cutoff
<1>3. /\ g \in 1 .. n + 1
      /\ \A j \in 1 .. g - 1 : buckets[j][1] < c
      /\ g <= n => buckets[g][1] >= c
  <2> HIDE DEF c
  <2> QED
    BY <1>2, FirstFromIs, Zenon
<1> DEFINE sum == CHOOSE sum : Equation(sum)
<1>4. SumRecent(buckets, now, window) = sum[k]
  BY Zenon DEF SumRecent
<1> HIDE DEF kept, f, g, c
<1>5. k \in Nat /\ n \in Nat /\ \A p \in 1 .. k : kept[p][1] \in Nat /\ kept[p][2] \in Nat
  <2>1. \A p \in 1 .. k : kept[p] \in Nat \X Nat
    BY <1>1
  <2>2. k \in Nat /\ n \in Nat
    BY <1>1
  <2>3. \A x \in Nat \X Nat : x[1] \in Nat /\ x[2] \in Nat
    OBVIOUS
  <2> QED
    BY <2>1, <2>2, <2>3, Zenon
<1> HIDE DEF n, k
<1>6. \A i \in 1 .. k : part(i) \in Nat
  BY <1>5
<1> HIDE DEF part
<1>7. step \in [Nat \X (1 .. k) -> Nat] /\ \A b \in Nat, i \in 1 .. k : step[<<b, i>>] = b + part(i)
  <2>1. \A x \in Nat \X (1 .. k) : x[1] \in Nat /\ x[2] \in 1 .. k
    OBVIOUS
  <2>2. \A a, b \in Nat : a + b \in Nat
    OBVIOUS
  <2>3. \A x \in Nat \X (1 .. k) : x[1] + part(x[2]) \in Nat
    BY <1>6, <2>1, <2>2, Zenon
  <2>4. step \in [Nat \X (1 .. k) -> Nat]
    BY <2>3, Zenon
  <2>5. \A b \in Nat, i \in 1 .. k : step[<<b, i>>] = b + part(i)
    OBVIOUS
  <2> QED
    BY <2>4, <2>5, Zenon
<1> HIDE DEF step
<1>8. PICK h : Iterates(h, Nat, 0, k, step)
  <2>1. 0 \in Nat
    OBVIOUS
  <2> QED
    BY <1>5, <1>7, <2>1, IterationExists, Zenon
<1>9. h \in [0 .. k -> Nat] /\ h[0] = 0
  BY <1>8, Zenon DEF Iterates
<1>10. ASSUME NEW i \in 1 .. k PROVE h[i] = h[i - 1] + part(i)
  <2>1. h[i] = step[<<h[i - 1], i>>]
    BY <1>8, Zenon DEF Iterates
  <2>3. i - 1 \in 0 .. k
    BY <1>5
  <2>2. h[i - 1] \in Nat
    BY <1>9, <2>3, Zenon
  <2> QED
    BY <1>7, <2>1, <2>2, Zenon
<1>11. Equation(h)
  <2>1. \A i \in 0 .. k : h[i] = IF i = 0 THEN 0 ELSE h[i - 1] + part(i)
    <3> TAKE i \in 0 .. k
    <3>1. i = 0 \/ i \in 1 .. k
      BY <1>5
    <3>2. i \in 1 .. k => i # 0
      OBVIOUS
    <3> QED
      BY <1>9, <1>10, <3>1, <3>2, Zenon
  <2>2. h = [i \in 0 .. k |-> h[i]]
    BY <1>9
  <2>3. h = [i \in 0 .. k |-> IF i = 0 THEN 0 ELSE h[i - 1] + part(i)]
    BY <2>1, <2>2, Zenon
  <2> QED
    BY <2>3, Zenon DEF part, c, k
<1>12. Equation(sum)
  <2> HIDE DEF Equation
  <2> QED
    BY <1>11, Zenon
<1> HIDE DEF sum
<1>13. sum[0] = 0 /\ \A i \in 1 .. k : sum[i] = sum[i - 1] + part(i)
  <2>1. sum = [i \in 0 .. k |-> IF i = 0 THEN 0 ELSE sum[i - 1] + part(i)]
    BY <1>12, Zenon DEF part, c, k
  <2> HIDE DEF Equation
  <2>2. \A i \in 0 .. k : sum[i] = IF i = 0 THEN 0 ELSE sum[i - 1] + part(i)
    BY <2>1, Zenon
  <2>3. 0 \in 0 .. k /\ \A i \in 1 .. k : i \in 0 .. k /\ i # 0
    BY <1>5
  <2> QED
    BY <2>2, <2>3, Zenon
<1> HIDE DEF Equation
<1>14. start \in [1 .. n + 1 -> 1 .. Len(given) + 1]
  BY Zenon DEF Started, n
<1>15. \A p \in 1 .. n : buckets[p] = <<given[start[p]], start[p + 1] - start[p]>>
  BY Zenon DEF Started, n
<1>16. \A p, q \in 1 .. n : p < q => buckets[p][1] < buckets[q][1]
  BY Zenon DEF Started, n
<1>17. \A p \in 1 .. n : buckets[p][1] \in Nat
  BY DEF n
<1>18. f <= g
  <2>1. SUFFICES ASSUME g < f PROVE FALSE
    BY <1>1, <1>3, <1>5
  <2>2. g \in 1 .. f - 1 /\ g \in 1 .. n
    BY <1>1, <1>3, <1>5, <2>1
  <2>3. buckets[g][1] < Cutoff(now, MaxWindow) /\ buckets[g][1] >= c /\ buckets[g][1] \in Nat
    BY <1>1, <1>3, <1>17, <2>2
  <2> QED
    BY <1>2, <2>3
<1>19. \A p \in 1 .. n + 1 : start[p] \in Nat
  <2>1. Len(given) \in Nat
    OBVIOUS
  <2>2. \A x \in 1 .. Len(given) + 1 : x \in Nat
    BY <2>1
  <2> QED
    BY <1>14, <2>2, Zenon
<1> DEFINE S == {i \in Nat : sum[i] = Held(start, g, f + i - 1)}
<1>20. 0 \in S
  <2>1. ~(g <= f + 0 - 1)
    BY <1>1, <1>3, <1>5, <1>18
  <2> QED
    BY <1>13, <2>1 DEF Held
<1>21. ASSUME NEW i \in Nat, i < k, i \in S PROVE i + 1 \in S
  <2> DEFINE e == f + i
  <2>1. /\ e \in 1 .. n /\ e + 1 \in 1 .. n + 1 /\ i + 1 \in 1 .. k /\ (i + 1) - 1 = i
        /\ f + (i + 1) - 1 = e /\ f + i - 1 = e - 1
    BY <1>1, <1>5, <1>21
  <2>2. sum[i + 1] = sum[i] + part(i + 1) /\ kept[i + 1] = buckets[e]
    BY <1>1, <1>13, <2>1
  <2>3. sum[i] = Held(start, g, e - 1)
    BY <1>21, <2>1
  <2> HIDE DEF e
  <2>4. CASE e < g
    <3>1. e \in 1 .. g - 1
      BY <1>3, <1>5, <2>1, <2>4
    <3>0. buckets[e][1] < c /\ buckets[e][1] \in Nat
      BY <1>3, <1>17, <2>1, <3>1, Zenon
    <3>2. ~(buckets[e][1] >= c)
      BY <1>2, <3>0
    <3>3. part(i + 1) = 0
      BY <2>2, <3>2 DEF part
    <3>4. ~(g <= e) /\ ~(g <= e - 1)
      BY <1>3, <1>5, <2>1, <2>4
    <3>5. sum[i + 1] = 0
      BY <2>2, <2>3, <3>3, <3>4 DEF Held
    <3>6. sum[i + 1] = Held(start, g, e)
      BY <3>4, <3>5 DEF Held
    <3> QED
      BY <2>1, <3>6
  <2>5. CASE g <= e
    <3>1. g \in 1 .. n /\ buckets[g][1] >= c
      BY <1>3, <1>5, <2>1, <2>5
    <3>2. buckets[e][1] >= c
      <4>1. CASE g = e
        BY <3>1, <4>1
      <4>2. CASE g # e
        <5>1. g < e
          BY <1>3, <2>1, <2>5, <4>2
        <5>2. buckets[g][1] < buckets[e][1]
          BY <1>16, <2>1, <3>1, <5>1
        <5>3. buckets[g][1] \in Nat /\ buckets[e][1] \in Nat
          BY <1>17, <2>1, <3>1, Zenon
        <5> QED
          BY <1>2, <3>1, <5>2, <5>3, BelowBelow, Zenon
      <4> QED
        BY <4>1, <4>2
    <3>3. part(i + 1) = start[e + 1] - start[e]
      <4>1. buckets[e][2] = start[e + 1] - start[e]
        BY <1>15, <2>1
      <4> QED
        BY <2>2, <3>2, <4>1, Zenon DEF part
    <3>4. start[e] \in Nat /\ start[e + 1] \in Nat /\ start[g] \in Nat
      BY <1>3, <1>5, <1>19, <2>1
    <3>5. Held(start, g, e - 1) = start[e] - start[g]
      <4>1. CASE g <= e - 1
        <5>1. (e - 1) + 1 = e
          BY <2>1
        <5> QED
          BY <4>1, <5>1 DEF Held
      <4>2. CASE ~(g <= e - 1)
        <5>1. g = e
          BY <1>3, <2>1, <2>5, <4>2
        <5> QED
          BY <3>4, <4>2, <5>1 DEF Held
      <4> QED
        BY <4>1, <4>2
    <3>6. sum[i + 1] = (start[e] - start[g]) + (start[e + 1] - start[e])
      BY <2>2, <2>3, <3>3, <3>5, Zenon
    <3>7. sum[i + 1] = Held(start, g, e)
      BY <2>5, <3>4, <3>6 DEF Held
    <3> QED
      BY <2>1, <3>7
  <2> QED
    BY <1>3, <2>1, <2>4, <2>5
<1>22. \A i \in 0 .. k : i \in S
  <2> HIDE DEF S
  <2> QED
    BY <1>5, <1>20, <1>21, BoundedInduction
<1>23. sum[k] = Held(start, g, n)
  <2>1. k \in 0 .. k /\ f + k - 1 = n
    BY <1>1, <1>5
  <2> QED
    BY <1>22, <2>1
<1> QED
  BY <1>3, <1>4, <1>23, Zenon DEF c, n

\* A window holds the increments of a piece at the end.
LEMMA RecentCounts ==
    ASSUME NEW r, Rolls(r), NEW window \in 1 .. MaxWindow
    PROVE  SumRecent(r.buckets, r.now, window) =
             Cardinality({i \in DOMAIN r.given : \E j \in 1 .. i : r.given[j] >= Cutoff(r.now, window)})
<1>0. PICK buckets, given, now : buckets = r.buckets /\ given = r.given /\ now = r.now
  OBVIOUS
<1>1. now \in Nat /\ given \in Seq(Nat) /\ buckets \in Seq(Nat \X Nat)
  BY <1>0 DEF Rolls
<1>2. PICK start : Started(start, buckets, given, now)
  BY <1>0, Zenon DEF Rolls
<1> DEFINE n == Len(buckets)
           m == Len(given)
           hits == {i \in DOMAIN given : \E j \in 1 .. i : given[j] >= Cutoff(now, window)}
<1>3. PICK g \in 1 .. n + 1 :
             /\ \A j \in 1 .. g - 1 : buckets[j][1] < Cutoff(now, window)
             /\ g <= n => buckets[g][1] >= Cutoff(now, window)
             /\ SumRecent(buckets, now, window) = Held(start, g, n)
  BY <1>1, <1>2, SumIs
<1>4. Cutoff(now, MaxWindow) <= Cutoff(now, window) /\ Cutoff(now, window) \in Nat
  BY <1>1, BusAssumption DEF Cutoff
<1>5. \A i \in 1 .. start[g] - 1 : given[i] < Cutoff(now, window)
  BY <1>1, <1>2, <1>3, <1>4, OlderBefore, Zenon
<1>6. n \in Nat /\ m \in Nat /\ DOMAIN given = 1 .. m /\ \A i \in 1 .. m : given[i] \in Nat
  BY <1>1
<1>7. start \in [1 .. n + 1 -> 1 .. m + 1] /\ start[n + 1] = m + 1
  BY <1>2, Zenon DEF Started
<1>8. start[g] \in 1 .. m + 1
  BY <1>7
<1>9. g <= n => given[start[g]] = buckets[g][1] /\ start[g] < start[g + 1] /\ start[g + 1] \in 1 .. m + 1
  <2> SUFFICES ASSUME g <= n PROVE given[start[g]] = buckets[g][1] /\ start[g] < start[g + 1] /\ start[g + 1] \in 1 .. m + 1
    OBVIOUS
  <2>1. g \in 1 .. n /\ g + 1 \in 1 .. n + 1
    BY <1>6
  <2>2. start[g] < start[g + 1] /\ buckets[g] = <<given[start[g]], start[g + 1] - start[g]>>
    BY <1>2, <2>1, Zenon DEF Started
  <2> QED
    BY <1>7, <2>1, <2>2
<1> HIDE DEF n, m
<1>10. SumRecent(buckets, now, window) = (m + 1) - start[g]
  <2>1. CASE g <= n
    BY <1>3, <1>7, <2>1 DEF Held
  <2>2. CASE ~(g <= n)
    <3>1. g = n + 1
      BY <1>6, <2>2
    <3> QED
      BY <1>3, <1>6, <1>7, <2>2, <3>1 DEF Held
  <2> QED
    BY <2>1, <2>2
<1>11. hits = start[g] .. m
  <2>1. ASSUME NEW i \in hits PROVE i \in start[g] .. m
    <3>1. i \in 1 .. m
      BY <1>6
    <3>2. PICK j \in 1 .. i : given[j] >= Cutoff(now, window)
      OBVIOUS
    <3>3. given[j] \in Nat /\ j \in Nat
      BY <1>6, <3>1
    <3>4. ~(j \in 1 .. start[g] - 1)
      BY <1>4, <1>5, <3>2, <3>3
    <3> QED
      BY <1>6, <1>8, <3>1, <3>3, <3>4
  <2>2. ASSUME NEW i \in start[g] .. m PROVE i \in hits
    <3>1. i \in 1 .. m /\ start[g] <= m
      BY <1>6, <1>8
    <3>2. g <= n
      BY <1>6, <1>7, <3>1
    <3>3. given[start[g]] >= Cutoff(now, window)
      BY <1>3, <1>9, <3>2
    <3>4. start[g] \in 1 .. i
      BY <1>6, <1>8
    <3> QED
      BY <1>6, <3>1, <3>3, <3>4
  <2> QED
    BY <2>1, <2>2
<1> HIDE DEF hits
<1>12. Cardinality(start[g] .. m) = (m + 1) - start[g]
  <2>1. start[g] \in Int /\ m \in Int
    BY <1>6, <1>8
  <2>2. Cardinality(start[g] .. m) = IF start[g] > m THEN 0 ELSE m - start[g] + 1
    BY <2>1, FS_Interval
  <2>3. ASSUME NEW x \in 1 .. m + 1 PROVE (IF x > m THEN 0 ELSE m - x + 1) = (m + 1) - x
    BY <1>6
  <2> QED
    BY <1>8, <2>2, <2>3, Zenon
<1>13. SumRecent(buckets, now, window) = Cardinality(hits)
  BY <1>10, <1>11, <1>12, Zenon
<1> QED
  BY <1>0, <1>13, Zenon DEF hits

\* As time passes windows only begin later.
LEMMA StartedLater ==
    ASSUME NEW buckets \in Seq(Nat \X Nat), NEW given \in Seq(Nat), NEW start, NEW now \in Nat,
           Started(start, buckets, given, now)
    PROVE  Started(start, buckets, given, now + 1)
<1>1. Cutoff(now, MaxWindow) \in Nat /\ Cutoff(now + 1, MaxWindow) \in Nat
      /\ Cutoff(now, MaxWindow) <= Cutoff(now + 1, MaxWindow)
  BY BusAssumption DEF Cutoff
<1>2. Len(given) \in Nat /\ start[1] \in 1 .. Len(given) + 1
  <2>1. start \in [1 .. Len(buckets) + 1 -> 1 .. Len(given) + 1]
    BY Zenon DEF Started
  <2>2. 1 \in 1 .. Len(buckets) + 1
    OBVIOUS
  <2> QED
    BY <2>1, <2>2
<1>5. \A i \in 1 .. start[1] - 1 : given[i] < Cutoff(now, MaxWindow)
  BY Zenon DEF Started
<1>3. \A i \in 1 .. start[1] - 1 : given[i] \in Nat /\ given[i] < Cutoff(now, MaxWindow)
  BY <1>2, <1>5
<1>4. \A i \in 1 .. start[1] - 1 : given[i] < Cutoff(now + 1, MaxWindow)
  BY <1>1, <1>3
<1> QED
  BY <1>4, Zenon DEF Started

\* The invariant of the rolling counter.
LEMMA RollingInvAlways == RollingSpec => []RollingInv
<1>1. RollingInit => RollingInv
  <2> SUFFICES ASSUME RollingInit PROVE RollingInv
    OBVIOUS
  <2>1. rolling = [on |-> TRUE, buckets |-> <<>>, now |-> 0, given |-> <<>>]
    BY DEF RollingInit, NoRolling
  <2>2. rolling.on = TRUE /\ rolling.buckets = <<>> /\ rolling.now = 0 /\ rolling.given = <<>>
    BY <2>1
  <2> DEFINE start == [p \in 1 .. 1 |-> 1]
  <2>3. start \in [1 .. 0 + 1 -> 1 .. 0 + 1] /\ start[0 + 1] = 0 + 1 /\ start[1] = 1
    OBVIOUS
  <2>4. Len(<<>>) = 0 /\ <<>> \in Seq(Nat) /\ <<>> \in Seq(Nat \X Nat) /\ 1 .. 0 = {} /\ 1 .. 1 - 1 = {}
    OBVIOUS
  <2> HIDE DEF start
  <2>5. Started(start, <<>>, <<>>, 0)
    BY <2>3, <2>4 DEF Started
  <2> QED
    BY <2>1, <2>2, <2>4, <2>5 DEF RollingInv, Rolls
<1>2. RollingInv /\ [RollingNext]_rolling => RollingInv'
  <2> SUFFICES ASSUME RollingInv, [RollingNext]_rolling PROVE RollingInv'
    OBVIOUS
  <2>0. /\ rolling.on \in BOOLEAN /\ rolling.now \in Nat /\ rolling.given \in Seq(Nat)
        /\ rolling.buckets \in Seq(Nat \X Nat)
        /\ rolling = [on |-> rolling.on, buckets |-> rolling.buckets, now |-> rolling.now, given |-> rolling.given]
    BY DEF RollingInv, Rolls
  <2>1. PICK start : Started(start, rolling.buckets, rolling.given, rolling.now)
    BY Zenon DEF RollingInv, Rolls
  <2>2. CASE IncrementNow
    <3>1. PICK late \in {0, 1} :
            /\ late <= rolling.now
            /\ rolling' = [rolling EXCEPT !.buckets = IncrementAt(@, rolling.now - late),
                                          !.given = Append(@, rolling.now - late)]
      BY <2>2 DEF IncrementNow
    <3> DEFINE second == rolling.now - late
    <3>2. second \in Nat /\ second <= rolling.now
      BY <2>0, <3>1
    <3> HIDE DEF second
    <3>3. PICK b, a : b = IncrementAt(rolling.buckets, second) /\ a = Append(rolling.given, second)
      OBVIOUS
    <3>4. rolling' = [on |-> rolling.on, buckets |-> b, now |-> rolling.now, given |-> a]
      BY <2>0, <3>1, <3>3 DEF second
    <3>5. b \in Seq(Nat \X Nat) /\ \E new : Started(new, b, a, rolling.now)
      BY <2>0, <2>1, <3>2, <3>3, IncrementKeeps, Zenon
    <3>6. a \in Seq(Nat)
      BY <2>0, <3>2, <3>3
    <3> HIDE <3>3
    <3>7. /\ rolling'.buckets = b /\ rolling'.given = a /\ rolling'.now = rolling.now
          /\ rolling' \in [on : BOOLEAN, buckets : Seq(Nat \X Nat), now : Nat, given : Seq(Nat)]
      BY <2>0, <3>4, <3>5, <3>6
    <3> QED
      BY <3>5, <3>7, Zenon DEF RollingInv, Rolls
  <2>3. CASE SecondPasses
    <3>1. rolling' = [on |-> rolling.on, buckets |-> rolling.buckets, now |-> rolling.now + 1, given |-> rolling.given]
      BY <2>0, <2>3 DEF SecondPasses
    <3>2. /\ rolling'.buckets = rolling.buckets /\ rolling'.given = rolling.given /\ rolling'.now = rolling.now + 1
          /\ rolling' \in [on : BOOLEAN, buckets : Seq(Nat \X Nat), now : Nat, given : Seq(Nat)]
      BY <2>0, <3>1
    <3>3. Started(start, rolling.buckets, rolling.given, rolling.now + 1)
      BY <2>0, <2>1, StartedLater, Zenon
    <3> QED
      BY <3>2, <3>3, Zenon DEF RollingInv, Rolls
  <2>4. CASE UNCHANGED rolling
    BY <2>4 DEF RollingInv
  <2> QED
    BY <2>2, <2>3, <2>4 DEF RollingNext
<1> QED
  BY <1>1, <1>2, PTL DEF RollingSpec

\* Every number a request leaves behind is right, for any configurations, requests, seconds
\* and windows: CountersAddUp and GrpcEndsOnce of the requests (sync_traffic, record_grpc_status),
\* RecentCountsExact of the rolling counters (increment_at, sum_recent).
THEOREM CountersAreExact == DispatchSpec /\ RollingSpec => []CountersExact
<1>1. DispatchInv => CountersAddUp /\ GrpcEndsOnce
  BY CountersRight, GrpcOnce, Zenon
<1>2. RollingInv => RecentCountsExact
  BY RecentCounts, Zenon DEF RollingInv, RecentCountsExact
<1> QED
  BY <1>1, <1>2, DispatchInvAlways, RollingInvAlways, PTL DEF CountersExact
=============================================================================
