--------------------------- MODULE OfflineOpsProofs ---------------------------
(***************************************************************************)
(* Proofs about OfflineOps, for any messages, any number of replays side   *)
(* by side, any renumberings and any bounds: changes reach the server, and *)
(* the server only moves to the user's wishes, outside the named cases.    *)
(***************************************************************************)
EXTENDS OfflineOps, FiniteSetTheorems, TLAPS

Removal == {k \in Key : k[2] \in Removing}

\* As far as its number tells, a change concerns a message in the cache.
InView(number) == number \in {0, view}

\* A row belongs to one key, and an op of a snapshot to the key of its row.
IdsAreOwn ==
  /\ \A k \in Key : ops[k].id <= intents
  /\ \A j, k \in Key : Queued(k) /\ ops[j].id = ops[k].id => j = k
  /\ \A r \in Replay : \A o \in replay[r].todo :
       o.id <= intents /\ \A k \in Key : ops[k].id = o.id => k = o.key

\* What is queued or under way is the last wish, if nothing excuses it.
RowsAreWishes ==
  \A k \in Key : Queued(k) /\ k \notin excused /\ InView(ops[k].validity)
                   => ops[k].set = want[k]

OpsAreWishes ==
  \A r \in Replay : \A o \in replay[r].todo :
    o.key \notin excused /\ InView(o.validity) => o.set = want[o.key]

\* A wish that left the table was told, whoever still has it in a snapshot.
NoneIsLost == \A k \in Key : ~Queued(k) /\ k \notin excused => server[k] = want[k]

\* The first command of a batch, before its second.
HalfIsTold ==
  \A r \in Replay : \A o \in BatchOf(r) :
    replay[r].half /\ o.set /\ o.key \notin excused => server[o.key] = want[o.key]

\* Nobody queues the undoing of a removal.
RemovalsRemove ==
  /\ \A k \in Removal : Queued(k) => ops[k].set
  /\ \A r \in Replay : \A o \in replay[r].todo : o.key \in Removal => o.set

\* What was queued for a message when something else removed it is on the list.
GoneWithOthers ==
  \A k \in Key : Queued(k) /\ (\E j \in Removals(k[1]) \ {k} : server[j]) => k \in excused

\* No change carries a number that is yet to come.
NumbersAreOld ==
  /\ validity # 0 /\ known <= validity
  /\ \A k \in Key : /\ ops[k].validity <= validity
                    /\ known # 0 => ops[k].validity <= known
  /\ \A r \in Replay : \A o \in replay[r].todo :
       /\ o.validity <= validity
       /\ known # 0 => o.validity <= known

\* No op the UIDVALIDITY check could know to be stale is on its way.
Checked ==
  \A r \in Replay : \A o \in replay[r].todo :
    replay[r].seen # 0 => o.validity \in {0, replay[r].seen}

Inv ==
  /\ TypeOK /\ IdsAreOwn /\ RowsAreWishes /\ OpsAreWishes /\ NoneIsLost /\ HalfIsTold
  /\ RemovalsRemove /\ GoneWithOthers /\ NumbersAreOld /\ Checked

LEMMA InitInv == Init => Inv
<1> SUFFICES ASSUME Init PROVE Inv
  OBVIOUS
<1> USE DEF Init, Idle, NoRow, Queued, Told
<1>1. TypeOK
  BY DEF TypeOK, ReplayState, Op
<1>2. IdsAreOwn /\ RowsAreWishes /\ OpsAreWishes
  <2>1. /\ \A k \in Key : ops[k].id = 0
        /\ \A r \in Replay : replay[r].todo = {}
        /\ intents = 0
    OBVIOUS
  <2> HIDE DEF Init
  <2> QED BY <2>1 DEF IdsAreOwn, RowsAreWishes, OpsAreWishes
<1>3. NoneIsLost /\ HalfIsTold
  BY DEF NoneIsLost, HalfIsTold
<1>4. RemovalsRemove /\ GoneWithOthers
  BY DEF RemovalsRemove, GoneWithOthers, Removal
<1>5. NumbersAreOld /\ Checked
  BY DEF NumbersAreOld, Checked
<1> QED BY <1>1, <1>2, <1>3, <1>4, <1>5 DEF Inv

-----------------------------------------------------------------------------
(* The user                                                                *)

\* What a handler may make of a row.
LEMMA UpsertedRow ==
  ASSUME TypeOK, NEW k \in Key, NEW set \in BOOLEAN, NEW number \in Nat,
         ops' = Upsert(k, set, number)
  PROVE  /\ ops' \in [Key -> Row \cup {NoRow}]
         /\ \A j \in Key : j # k => ops'[j] = ops[j]
         /\ ops'[k].set = set /\ ops'[k].id # 0
         /\ ops'[k].validity \in {number, ops[k].validity}
         /\ number # 0 => ops'[k].validity = number
         /\ IF Queued(k) THEN ops'[k].id = ops[k].id /\ ops'[k].retries = ops[k].retries
            ELSE ops'[k].id = intents + 1 /\ ops'[k].retries = 0
<1>1. CASE Queued(k)
  <2>1. ops[k] \in Row
    BY <1>1 DEF TypeOK, Queued, NoRow
  <2>2. ops' = [ops EXCEPT ![k] =
          [id |-> ops[k].id, set |-> set, retries |-> ops[k].retries,
           validity |-> IF number # 0 THEN number ELSE ops[k].validity]]
    BY <1>1 DEF Upsert, TypeOK
  <2> QED BY <1>1, <2>1, <2>2 DEF TypeOK, Row, Queued
<1>2. CASE ~Queued(k)
  <2>1. ops' = [ops EXCEPT ![k] =
          [id |-> intents + 1, set |-> set, retries |-> 0, validity |-> number]]
    BY <1>2 DEF Upsert, TypeOK
  <2> QED BY <1>2, <2>1 DEF TypeOK, Row, Queued
<1> QED BY <1>1, <1>2

\* A change keeps the id of its row, or takes the next one.
LEMMA ChangeKeepsIds ==
  ASSUME TypeOK, IdsAreOwn, NEW k \in Key,
         replay' = replay, intents' = intents + 1,
         \A j \in Key : j # k => ops'[j] = ops[j],
         ops'[k].id \in {ops[k].id, intents + 1},
         Queued(k) => ops'[k].id = ops[k].id
  PROVE  IdsAreOwn'
<1>1. /\ intents \in Nat /\ \A j \in Key : ops[j].id \in Nat /\ ops[j].id <= intents
  BY DEF TypeOK, Row, NoRow, IdsAreOwn
<1>2. \A j \in Key : ops'[j].id = ops[j].id \/ (j = k /\ ~Queued(k) /\ ops'[k].id = intents + 1)
  OBVIOUS
<1>3. \A j \in Key : ops'[j].id <= intents'
  BY <1>1, <1>2
<1>4. \A i, j \in Key : Queued(j)' /\ ops'[i].id = ops'[j].id => i = j
  <2> SUFFICES ASSUME NEW i \in Key, NEW j \in Key, ops'[j].id # 0, ops'[i].id = ops'[j].id
               PROVE  i = j
    BY DEF Queued
  <2>1. ops[i].id # intents + 1 /\ ops[j].id # intents + 1
    BY <1>1
  <2> QED BY <1>2, <2>1 DEF IdsAreOwn, Queued
<1>5. ASSUME NEW r \in Replay, NEW o \in replay[r].todo
      PROVE  o.id <= intents' /\ \A j \in Key : ops'[j].id = o.id => j = o.key
  <2>1. o.id \in Nat /\ o.id <= intents
    BY DEF TypeOK, ReplayState, Op, IdsAreOwn
  <2>2. o.id # intents + 1 /\ o.id <= intents'
    BY <1>1, <2>1
  <2> QED BY <1>2, <2>2 DEF IdsAreOwn
<1> QED BY <1>3, <1>4, <1>5 DEF IdsAreOwn

LEMMA IntentKeepsInv ==
  ASSUME Inv, NEW k \in Key, NEW set \in BOOLEAN, NEW flag \in BOOLEAN,
         QueueIntent(k, set, flag) \/ DirectIntent(k, set, flag)
  PROVE  Inv'
<1> USE DEF Inv
<1>1. /\ k[2] \in Removing => set
      /\ intents' = intents + 1
      /\ want' = [want EXCEPT ![k] = set]
      /\ replay' = replay /\ UNCHANGED numbers
  BY DEF QueueIntent, DirectIntent, Intent
<1>2. UNCHANGED <<validity, reports, known, view>>
  BY <1>1 DEF numbers
<1>3. \/ server' = server
      \/ server' = [server EXCEPT ![k] = set] /\ Hits(k) /\ LeftBehind({k}) \subseteq excused'
  BY DEF QueueIntent, DirectIntent, Reaches
<1>4. \/ ops' = ops /\ (k \notin excused' => ~Queued(k) /\ server'[k] = set)
      \/ ops' = Upsert(k, set, known)
  BY DEF QueueIntent, DirectIntent, Reaches, Excuse, Hits, TypeOK
<1>5. /\ excused \ {k} \subseteq excused' /\ excused' \subseteq Key
      /\ UnderWay(k) \/ Gone(k[1]) => k \in excused'
  BY DEF QueueIntent, DirectIntent, Excuse, LeftBehind, TypeOK
<1>6. /\ ops' \in [Key -> Row \cup {NoRow}]
      /\ \A j \in Key : j # k => ops'[j] = ops[j]
      /\ \/ ops'[k] = ops[k] /\ (k \notin excused' => ~Queued(k) /\ server'[k] = set)
         \/ /\ ops'[k].set = set /\ ops'[k].id # 0
            /\ ops'[k].id \in {ops[k].id, intents + 1}
            /\ ops'[k].validity \in {known, ops[k].validity}
            /\ known # 0 => ops'[k].validity = known
      /\ Queued(k) => ops'[k].id = ops[k].id
  <2>1. known \in Nat
    BY DEF TypeOK
  <2>2. CASE ops' = Upsert(k, set, known)
    BY <2>1, <2>2, UpsertedRow
  <2>3. CASE ops' = ops /\ (k \notin excused' => ~Queued(k) /\ server'[k] = set)
    BY <2>3 DEF TypeOK
  <2> QED BY <1>4, <2>2, <2>3
<1>7. TypeOK'
  <2>1. server' \in [Key -> BOOLEAN]
    BY <1>3 DEF TypeOK
  <2>2. want' \in [Key -> BOOLEAN] /\ intents' \in Nat
    BY <1>1 DEF TypeOK
  <2> QED BY <1>1, <1>2, <1>5, <1>6, <2>1, <2>2 DEF TypeOK
<1>8. IdsAreOwn'
  <2>1. ops'[k].id \in {ops[k].id, intents + 1}
    BY <1>6
  <2> QED BY <1>1, <1>6, <2>1, ChangeKeepsIds
<1>9. RowsAreWishes' /\ NoneIsLost'
  BY <1>1, <1>2, <1>3, <1>5, <1>6 DEF RowsAreWishes, NoneIsLost, InView, TypeOK, Queued
<1>10. OpsAreWishes' /\ HalfIsTold'
  BY <1>1, <1>2, <1>3, <1>5
     DEF OpsAreWishes, HalfIsTold, InView, TypeOK, ReplayState, Op, BatchOf, UnderWay
<1>11. RemovalsRemove'
  BY <1>1, <1>6 DEF RemovalsRemove, Removal, TypeOK, ReplayState, Op, Queued
<1>12. GoneWithOthers'
  <2> SUFFICES ASSUME NEW j \in Key, Queued(j)', NEW i \in Removals(j[1]) \ {j}, server'[i]
               PROVE  j \in excused'
    BY DEF GoneWithOthers, Removals
  <2>1. CASE server[i] /\ j = k
    BY <1>5, <2>1 DEF Gone
  <2>2. CASE server[i] /\ j # k
    BY <1>5, <1>6, <2>2 DEF GoneWithOthers, Queued
  <2>3. CASE ~server[i]
    <3>1. i = k /\ Hits(k) /\ LeftBehind({k}) \subseteq excused'
      BY <1>3, <2>3 DEF Removals, TypeOK
    <3>2. j \in LeftBehind({k})
      BY <1>6, <3>1 DEF LeftBehind, Removals, Queued
    <3> QED BY <3>1, <3>2
  <2> QED BY <2>1, <2>2, <2>3
<1>13. NumbersAreOld'
  BY <1>1, <1>2, <1>6 DEF NumbersAreOld, TypeOK, Row, NoRow
<1>14. Checked'
  BY <1>1 DEF Checked
<1> QED
  BY <1>7, <1>8, <1>9, <1>10, <1>11, <1>12, <1>13, <1>14

-----------------------------------------------------------------------------
(* Renumbering, and the syncs that learn of it                             *)

\* The numbers of all changes are old for the messages that are shown now.
LEMMA EmptiedKeepsInv ==
  ASSUME Inv, EmptiesCache, UNCHANGED <<replay, validity, reports>>,
         TypeOK', IdsAreOwn', RemovalsRemove', NumbersAreOld',
         Unlabelled \subseteq excused',
         \A k \in Key \ excused' : Queued(k)' => ops'[k] = ops[k]
  PROVE  Inv'
<1> USE DEF Inv
<1>1. /\ view' = validity /\ known # 0 /\ validity # known
      /\ \A k \in Key : server'[k] = FALSE /\ want'[k] = FALSE
  BY DEF EmptiesCache, Told
<1>2. known < validity
  BY <1>1 DEF NumbersAreOld, TypeOK
<1>3. RowsAreWishes'
  <2> SUFFICES ASSUME NEW k \in Key, Queued(k)', k \notin excused', InView(ops[k].validity)'
               PROVE  FALSE
    BY DEF RowsAreWishes
  <2>1. ops'[k] = ops[k] /\ Queued(k)
    BY DEF Queued
  <2>2. ops[k].validity \in Nat /\ ops[k].validity <= known
    BY <1>1 DEF TypeOK, Row, NoRow, NumbersAreOld
  <2>3. ops[k].validity = 0
    BY <1>1, <1>2, <2>1, <2>2 DEF InView, TypeOK
  <2> QED BY <2>1, <2>3 DEF Unlabelled
<1>4. OpsAreWishes'
  <2> SUFFICES ASSUME NEW r \in Replay, NEW o \in replay[r].todo,
                      o.key \notin excused', InView(o.validity)'
               PROVE  FALSE
    BY DEF OpsAreWishes
  <2>1. o.key \in Key /\ o.validity \in Nat /\ o.validity <= known
    BY <1>1 DEF TypeOK, ReplayState, Op, NumbersAreOld
  <2>2. o.validity = 0
    BY <1>1, <1>2, <2>1 DEF InView, TypeOK
  <2> QED BY <2>1, <2>2 DEF Unlabelled
<1>5. NoneIsLost' /\ HalfIsTold' /\ GoneWithOthers'
  BY <1>1 DEF NoneIsLost, HalfIsTold, GoneWithOthers, Removals, BatchOf, TypeOK, ReplayState, Op
<1>6. Checked'
  BY DEF Checked
<1> QED BY <1>3, <1>4, <1>5, <1>6

LEMMA SyncKeepsInv ==
  ASSUME Inv, SyncStarts \/ SyncEnds \/ Renumber
  PROVE  Inv'
<1> USE DEF Inv
<1>1. CASE SyncStarts
  <2>1. /\ EmptiesCache /\ excused' = Unlabelled
        /\ UNCHANGED <<ops, replay, validity, reports, known, intents>>
    BY <1>1 DEF SyncStarts
  <2>2. TypeOK'
    BY <2>1 DEF TypeOK, EmptiesCache, Unlabelled
  <2>3. IdsAreOwn' /\ RemovalsRemove' /\ NumbersAreOld'
    BY <2>1 DEF IdsAreOwn, RemovalsRemove, NumbersAreOld, Queued
  <2> QED BY <2>1, <2>2, <2>3, EmptiedKeepsInv
<1>2. CASE SyncEnds \/ Renumber
  <2>1. /\ UNCHANGED <<ops, replay, server, view, want, excused, intents>>
        /\ \/ validity' = validity /\ known' \in {0, validity}
           \/ validity' = validity + 1 /\ known' = known
        /\ TypeOK'
    BY <1>2 DEF SyncEnds, Renumber, Told, TypeOK
  <2>2. NumbersAreOld'
    <3>1. \A k \in Key : ops[k].validity \in Nat
      BY DEF TypeOK, Row, NoRow
    <3>2. \A r \in Replay : \A o \in replay[r].todo : o.validity \in Nat
      BY DEF TypeOK, ReplayState, Op
    <3> QED BY <2>1, <3>1, <3>2 DEF NumbersAreOld, TypeOK
  <2> QED
    BY <2>1, <2>2 DEF IdsAreOwn, RowsAreWishes, OpsAreWishes, NoneIsLost, HalfIsTold, InView,
       BatchOf, RemovalsRemove, GoneWithOthers, Removals, Queued, Checked
<1> QED BY <1>1, <1>2

LEMMA TooLateKeepsInv ==
  ASSUME Inv, NEW k \in Key, NEW set \in BOOLEAN, QueueTooLate(k, set)
  PROVE  Inv'
<1> USE DEF Inv
<1>1. /\ EmptiesCache /\ ops' = Upsert(k, set, validity)
      /\ k[2] \in Removing => set
      /\ known' = validity /\ excused' = Unlabelled \cup {k} /\ intents' = intents + 1
      /\ UNCHANGED <<replay, validity, reports>>
  BY DEF QueueTooLate
<1>2. /\ ops' \in [Key -> Row \cup {NoRow}]
      /\ \A j \in Key : j # k => ops'[j] = ops[j]
      /\ ops'[k].set = set /\ ops'[k].id # 0 /\ ops'[k].validity = validity
      /\ ops'[k].id \in {ops[k].id, intents + 1}
      /\ Queued(k) => ops'[k].id = ops[k].id
  <2>1. validity \in Nat /\ validity # 0
    BY DEF TypeOK, NumbersAreOld
  <2> QED BY <1>1, <2>1, UpsertedRow
<1>3. TypeOK'
  BY <1>1, <1>2 DEF TypeOK, EmptiesCache, Unlabelled
<1>4. IdsAreOwn'
  BY <1>1, <1>2, ChangeKeepsIds
<1>5. RemovalsRemove'
  BY <1>1, <1>2 DEF RemovalsRemove, Removal, TypeOK, ReplayState, Op, Queued
<1>6. NumbersAreOld'
  BY <1>1, <1>2 DEF NumbersAreOld, TypeOK
<1> QED BY <1>1, <1>2, <1>3, <1>4, <1>5, <1>6, EmptiedKeepsInv

-----------------------------------------------------------------------------
(* A replay, up to its first command                                       *)

LEMMA BeginKeepsInv ==
  ASSUME Inv, NEW r \in Replay, Begin(r)
  PROVE  Inv'
<1> USE DEF Inv
<1> DEFINE snapshot == {[key |-> k, id |-> ops[k].id, set |-> ops[k].set,
                         validity |-> ops[k].validity] :
                          k \in {k \in Key : Queued(k)} \ Poison}
<1>1. /\ replay' = [replay EXCEPT ![r] =
           IF snapshot = {} THEN Idle
           ELSE [at |-> "check", todo |-> snapshot, half |-> FALSE, seen |-> 0]]
      /\ ops' = Without(Poison) /\ excused' = excused \cup Poison
      /\ UNCHANGED <<server, validity, reports, known, view, want, intents>>
  BY DEF Begin, numbers
<1>2. \A o \in snapshot : /\ o.key \in Key /\ Queued(o.key)
                          /\ o.id = ops[o.key].id /\ o.set = ops[o.key].set
                          /\ o.validity = ops[o.key].validity
                          /\ o \in Op
  BY DEF TypeOK, Queued, Op, Row, NoRow
<1>3. /\ replay'[r].at \in {"idle", "check"} /\ replay'[r].todo \subseteq snapshot
      /\ replay'[r].half = FALSE /\ replay'[r].seen = 0
      /\ \A q \in Replay : q # r => replay'[q] = replay[q]
  BY <1>1 DEF TypeOK, Idle
<1>4. \A k \in Key : /\ k \in Poison => ops'[k] = NoRow /\ Queued(k)
                     /\ k \notin Poison => ops'[k] = ops[k]
  BY <1>1 DEF Without, Poison
<1>5. TypeOK'
  <2>1. ops' \in [Key -> Row \cup {NoRow}] /\ excused' \subseteq Key
    BY <1>1 DEF TypeOK, Without, Poison
  <2>2. replay' \in [Replay -> ReplayState]
    BY <1>1, <1>2 DEF TypeOK, ReplayState, Idle
  <2> QED BY <1>1, <2>1, <2>2 DEF TypeOK
<1>6. IdsAreOwn'
  BY <1>1, <1>2, <1>3, <1>4 DEF IdsAreOwn, TypeOK, ReplayState, Op, Row, NoRow, Queued
<1>7. RowsAreWishes' /\ NoneIsLost'
  BY <1>1, <1>4 DEF RowsAreWishes, NoneIsLost, InView, Queued, NoRow
<1>8. OpsAreWishes'
  BY <1>1, <1>2, <1>3 DEF OpsAreWishes, RowsAreWishes, InView
<1>9. HalfIsTold'
  BY <1>1, <1>3 DEF HalfIsTold, BatchOf
<1>10. RemovalsRemove'
  BY <1>1, <1>2, <1>3, <1>4 DEF RemovalsRemove, Removal, Queued, NoRow
<1>11. GoneWithOthers'
  BY <1>1, <1>4 DEF GoneWithOthers, Queued, NoRow
<1>12. NumbersAreOld'
  BY <1>1, <1>2, <1>3, <1>4 DEF NumbersAreOld, NoRow, TypeOK
<1>13. Checked'
  BY <1>1, <1>3 DEF Checked
<1> QED
  BY <1>5, <1>6, <1>7, <1>8, <1>9, <1>10, <1>11, <1>12, <1>13

\* The folder is opened, or not, or its rows are condemned.
LEMMA CheckKeepsInv ==
  ASSUME Inv, NEW r \in Replay, Check(r)
  PROVE  Inv'
<1> USE DEF Inv
<1>1. CASE CheckFails(r)
  <2>1. /\ replay' = [replay EXCEPT ![r] = Idle]
        /\ UNCHANGED <<ops, server, validity, reports, known, view, want, excused, intents>>
    BY <1>1 DEF CheckFails, numbers
  <2>2. TypeOK'
    BY <2>1 DEF TypeOK, ReplayState, Idle
  <2>3. /\ replay'[r].todo = {} /\ replay'[r].seen = 0
        /\ \A q \in Replay : q # r => replay'[q] = replay[q]
    BY <2>1 DEF TypeOK, Idle
  <2> QED
    BY <2>1, <2>2, <2>3 DEF IdsAreOwn, RowsAreWishes, OpsAreWishes, NoneIsLost, InView,
       HalfIsTold, BatchOf, RemovalsRemove, GoneWithOthers, Queued, NumbersAreOld, Checked
<1>2. CASE DiscardFolder(r)
  <2>1. /\ replay' = [replay EXCEPT ![r] = Idle]
        /\ ops' = [k \in Key |-> NoRow]
        /\ excused' = excused \cup {k \in Key : Queued(k)}
        /\ UNCHANGED <<server, validity, reports, known, view, want, intents>>
    BY <1>2 DEF DiscardFolder, numbers
  <2>2. TypeOK'
    BY <2>1 DEF TypeOK, ReplayState, Idle
  <2>3. /\ replay'[r].todo = {} /\ replay'[r].seen = 0
        /\ \A q \in Replay : q # r => replay'[q] = replay[q]
    BY <2>1 DEF TypeOK, Idle
  <2>4. \A k \in Key : ops'[k].id = 0 /\ ops'[k].validity = 0
    BY <2>1 DEF NoRow
  <2>5. IdsAreOwn' /\ RowsAreWishes' /\ NoneIsLost'
    BY <2>1, <2>2, <2>3, <2>4
       DEF IdsAreOwn, RowsAreWishes, NoneIsLost, Queued, TypeOK, ReplayState, Op
  <2>6. OpsAreWishes' /\ HalfIsTold'
    BY <2>1, <2>3 DEF OpsAreWishes, HalfIsTold, BatchOf, InView
  <2>7. RemovalsRemove' /\ GoneWithOthers'
    BY <2>1, <2>3, <2>4 DEF RemovalsRemove, Removal, GoneWithOthers, Queued
  <2>8. NumbersAreOld' /\ Checked'
    BY <2>1, <2>3, <2>4 DEF NumbersAreOld, Checked, TypeOK
  <2> QED
    BY <2>2, <2>5, <2>6, <2>7, <2>8
<1>3. CASE CheckPasses(r)
  <2>1. /\ replay' = [replay EXCEPT ![r].at = "send", ![r].seen = Told]
        /\ ~Outdated(r)
        /\ UNCHANGED <<ops, server, validity, reports, known, view, want, excused, intents>>
    BY <1>3 DEF CheckPasses, numbers
  <2>2. replay[r] \in ReplayState /\ r \in DOMAIN replay /\ Told \in Nat
    BY DEF TypeOK, Told
  <2>3. TypeOK'
    <3>1. [replay[r] EXCEPT !.at = "send", !.seen = Told] \in ReplayState
      BY <2>2 DEF ReplayState
    <3>2. replay' \in [Replay -> ReplayState]
      BY <2>1, <2>2, <3>1 DEF TypeOK
    <3> QED BY <2>1, <3>2 DEF TypeOK
  <2>4. replay'[r] = [replay[r] EXCEPT !.at = "send", !.seen = Told]
    BY <2>1, <2>2
  <2>5. replay'[r].seen = Told
    BY <2>2, <2>4 DEF ReplayState
  <2>6. \A q \in Replay : q # r => replay'[q] = replay[q]
    BY <2>1 DEF TypeOK
  <2>7. \A q \in Replay : replay'[q].todo = replay[q].todo
                          /\ replay'[q].half = replay[q].half
    <3>1. replay'[r].todo = replay[r].todo
      BY <2>2, <2>4 DEF ReplayState
    <3>2. replay'[r].half = replay[r].half
      BY <2>2, <2>4 DEF ReplayState
    <3> QED BY <2>6, <3>1, <3>2
  <2>8. IdsAreOwn' /\ RowsAreWishes' /\ NoneIsLost' /\ OpsAreWishes'
    BY <2>1, <2>7 DEF IdsAreOwn, RowsAreWishes, NoneIsLost, OpsAreWishes, Queued, InView
  <2>9. HalfIsTold'
    <3>1. \A q \in Replay : BatchOf(q)' = BatchOf(q)
      BY <2>7 DEF BatchOf
    <3> QED BY <2>1, <2>7, <3>1 DEF HalfIsTold
  <2>10. RemovalsRemove' /\ GoneWithOthers' /\ NumbersAreOld'
    BY <2>1, <2>7 DEF RemovalsRemove, GoneWithOthers, Queued, NumbersAreOld
  <2>11. Checked'
    BY <2>1, <2>5, <2>6, <2>7 DEF Checked, Outdated, Told
  <2> QED BY <2>3, <2>8, <2>9, <2>10, <2>11
<1> QED BY <1>1, <1>2, <1>3 DEF Check

-----------------------------------------------------------------------------
(* A replay's commands                                                     *)

\* After a command, what was as the user wants it still is, and so is all that
\* the command was about, if nothing excuses it.
LEMMA CommandTells ==
  ASSUME Inv, NEW r \in Replay, CarryOut(r)
  PROVE  /\ server' \in [Key -> BOOLEAN]
         /\ excused \subseteq excused' /\ excused' \subseteq Key
         /\ \A k \in Key \ excused' : server[k] = want[k] => server'[k] = want[k]
         /\ \A o \in CommandOf(r) : o.key \notin excused' => server'[o.key] = want[o.key]
         /\ \A k \in Removal : server[k] => server'[k]
         /\ \A k \in Key :
              Queued(k) /\ (\E j \in Removals(k[1]) \ {k} : server'[j]) => k \in excused'
<1> USE DEF Inv
<1> DEFINE hit == {o \in CommandOf(r) : Hits(o.key)}
           cleared == LeftBehind({o.key : o \in CommandOf(r)})
           astray == {o.key : o \in {o \in CommandOf(r) : ~OnTarget(o) /\ ~CheckTells(r, o)}}
<1>1. /\ server' = [k \in Key |-> IF \E o \in hit : o.key = k
                                THEN (CHOOSE o \in hit : o.key = k).set ELSE server[k]]
      /\ excused' = excused \cup astray \cup cleared
  BY DEF CarryOut
<1>2. \A o \in CommandOf(r) : o \in replay[r].todo /\ o \in Op
  BY DEF CommandOf, BatchOf, TypeOK, ReplayState
<1>3. \A o \in CommandOf(r) : o.key \notin excused' => OnTarget(o)
  <2> SUFFICES ASSUME NEW o \in CommandOf(r), ~OnTarget(o)
               PROVE  o.key \in excused'
    OBVIOUS
  <2>1. ~CheckTells(r, o)
    BY <1>2 DEF CheckTells, Checked, NumbersAreOld
  <2> QED BY <1>1, <2>1
<1>4. \A o \in hit : \E p \in hit : p.key = o.key /\ server'[o.key] = p.set
  <2> SUFFICES ASSUME NEW o \in hit
               PROVE  \E p \in hit : p.key = o.key /\ server'[o.key] = p.set
    OBVIOUS
  <2> DEFINE p == CHOOSE p \in hit : p.key = o.key
  <2>1. p \in hit /\ p.key = o.key
    OBVIOUS
  <2>2. server'[o.key] = p.set
    BY <1>1, <1>2 DEF Op
  <2> QED BY <2>1, <2>2
<1>5. \A k \in Key : server'[k] = server[k] \/ \E o \in hit : o.key = k
  BY <1>1
<1>6. hit \subseteq CommandOf(r) /\ \A o \in CommandOf(r) : Hits(o.key) => o \in hit
  OBVIOUS
<1>7. astray \subseteq Key /\ cleared \subseteq Key
  BY <1>2 DEF Op, LeftBehind
<1> HIDE DEF hit, cleared, astray
<1>8. excused \subseteq excused' /\ excused' \subseteq Key
  BY <1>1, <1>7 DEF TypeOK
<1>9. \A k \in Key \ excused' : server[k] = want[k] => server'[k] = want[k]
  BY <1>2, <1>3, <1>4, <1>5, <1>6, <1>8 DEF OpsAreWishes, OnTarget, InView
<1>10. ASSUME NEW o \in CommandOf(r), o.key \notin excused'
       PROVE  server'[o.key] = want[o.key]
  <2>1. /\ o.key \in Key /\ o.key \notin excused /\ o \in replay[r].todo
        /\ o.set = want[o.key]
    BY <1>2, <1>3, <1>8, <1>10 DEF Op, OpsAreWishes, OnTarget, InView
  <2>2. CASE o \in hit
    BY <1>2, <1>3, <1>4, <1>6, <1>8, <1>10, <2>1, <2>2 DEF OpsAreWishes, OnTarget, InView
  <2>3. CASE o \notin hit
    <3>1. PICK j \in Removals(o.key[1]) : server[j]
      BY <1>3, <1>6, <1>10, <2>3 DEF Hits, OnTarget, Gone
    <3>2. CASE j = o.key
      <4>1. o.set
        BY <2>1, <3>2 DEF RemovalsRemove, Removal, Removals
      <4>2. server[o.key] = want[o.key]
        BY <2>1, <3>1, <3>2, <4>1 DEF TypeOK
      <4> QED BY <1>9, <1>10, <2>1, <4>2
    <3>3. CASE j # o.key
      <4>1. ~Queued(o.key)
        BY <2>1, <3>1, <3>3 DEF GoneWithOthers
      <4> QED BY <1>9, <1>10, <2>1, <4>1 DEF NoneIsLost
    <3> QED BY <3>2, <3>3
  <2> QED BY <2>2, <2>3
<1>11. \A k \in Removal : server[k] => server'[k]
  <2> SUFFICES ASSUME NEW k \in Removal, server[k], server'[k] # server[k]
               PROVE  server'[k]
    OBVIOUS
  <2>1. PICK o \in hit : o.key = k
    BY <1>5 DEF Removal
  <2>2. PICK p \in hit : p.key = k /\ server'[k] = p.set
    BY <1>4, <2>1
  <2> QED BY <1>2, <1>6, <2>2 DEF RemovalsRemove
<1>12. ASSUME NEW k \in Key, Queued(k), NEW j \in Removals(k[1]) \ {k}, server'[j]
       PROVE  k \in excused'
  <2>1. CASE server[j]
    BY <1>8, <1>12, <2>1 DEF GoneWithOthers
  <2>2. CASE ~server[j]
    <3>1. PICK o \in hit : o.key = j
      BY <1>5, <1>12, <2>2 DEF Removals
    <3>2. Hits(j) /\ o \in CommandOf(r)
      BY <3>1 DEF hit
    <3>3. k \in cleared
      BY <1>12, <3>1, <3>2 DEF cleared, LeftBehind, Removals
    <3> QED BY <1>1, <3>3
  <2> QED BY <2>1, <2>2
<1>13. server' \in [Key -> BOOLEAN]
  <2>1. \A k \in Key : server'[k] \in BOOLEAN
    BY <1>2, <1>4, <1>5, <1>6 DEF TypeOK, Op
  <2> QED BY <1>1, <2>1
<1> QED BY <1>8, <1>9, <1>10, <1>11, <1>12, <1>13

LEMMA NextBatchShrinks ==
  ASSUME TypeOK, NEW r \in Replay, NextBatch(r)
  PROVE  /\ replay' \in [Replay -> ReplayState]
         /\ \A q \in Replay : q # r => replay'[q] = replay[q]
         /\ replay'[r].todo \subseteq replay[r].todo
         /\ replay'[r].half = FALSE /\ replay'[r].seen \in {0, replay[r].seen}
<1> USE DEF TypeOK
<1>1. replay[r] \in ReplayState /\ BatchOf(r) \subseteq replay[r].todo
  BY DEF BatchOf
<1> DEFINE next == IF replay[r].todo = BatchOf(r) THEN Idle
                   ELSE [at |-> "send", todo |-> replay[r].todo \ BatchOf(r),
                         half |-> FALSE, seen |-> replay[r].seen]
<1>2. replay' = [replay EXCEPT ![r] = next]
  BY DEF NextBatch
<1>3. /\ next \in ReplayState /\ next.todo \subseteq replay[r].todo
      /\ next.half = FALSE /\ next.seen \in {0, replay[r].seen}
  BY <1>1 DEF ReplayState, Idle
<1> QED BY <1>2, <1>3

\* What any step of a replay in its commands does to the server and the list
\* of excuses: the part of CommandTells that also holds when nothing is told.
HarmlessToServer ==
  /\ server' \in [Key -> BOOLEAN]
  /\ excused \subseteq excused' /\ excused' \subseteq Key
  /\ \A k \in Key \ excused' : server[k] = want[k] => server'[k] = want[k]
  /\ \A k \in Removal : server[k] => server'[k]
  /\ \A k \in Key :
       Queued(k) /\ (\E j \in Removals(k[1]) \ {k} : server'[j]) => k \in excused'

LEMMA CommandIsHarmless ==
  ASSUME Inv, NEW r \in Replay, CarryOut(r) \/ Refused(r) \/ UNCHANGED <<server, excused>>
  PROVE  HarmlessToServer
<1>1. CASE CarryOut(r)
  BY <1>1, CommandTells DEF HarmlessToServer
<1>2. CASE Refused(r) \/ UNCHANGED <<server, excused>>
  <2>1. server' = server /\ excused \subseteq excused'
    BY <1>2 DEF Refused
  <2>2. excused' \subseteq Key
    <3>1. \A o \in CommandOf(r) : o.key \in Key
      BY DEF CommandOf, BatchOf, Inv, TypeOK, ReplayState, Op
    <3> QED BY <1>2, <3>1 DEF Refused, Inv, TypeOK
  <2> QED BY <2>1, <2>2 DEF HarmlessToServer, Inv, TypeOK, GoneWithOthers
<1> QED BY <1>1, <1>2

\* A row stays what it is, but for its retries, or it goes as told.
RowsStayOrAreTold ==
  /\ ops' \in [Key -> Row \cup {NoRow}]
  /\ \A k \in Key :
       \/ /\ ops'[k].id = ops[k].id /\ ops'[k].set = ops[k].set
          /\ ops'[k].validity = ops[k].validity
       \/ /\ ops'[k].id = 0 /\ ops'[k].validity = 0
          /\ k \notin excused' => server'[k] = want[k]

LEMMA SendStepKeepsInv ==
  ASSUME Inv, NEW r \in Replay, replay[r].at = "send",
         replay' \in [Replay -> ReplayState],
         \A q \in Replay : q # r => replay'[q] = replay[q],
         replay'[r].todo \subseteq replay[r].todo, replay'[r].seen \in {0, replay[r].seen},
         \A o \in BatchOf(r)' :
           replay'[r].half /\ o.set /\ o.key \notin excused' => server'[o.key] = want[o.key],
         HarmlessToServer, RowsStayOrAreTold,
         UNCHANGED <<validity, reports, known, view, want, intents>>
  PROVE  Inv'
<1> USE DEF Inv
<1>1. TypeOK'
  BY DEF TypeOK, HarmlessToServer, RowsStayOrAreTold
<1>2. \A q \in Replay : /\ replay'[q].todo \subseteq replay[q].todo
                        /\ replay[q].todo \subseteq Op
  BY DEF TypeOK, ReplayState
<1>3. \A k \in Key : \/ /\ ops'[k].id = ops[k].id /\ ops'[k].set = ops[k].set
                        /\ ops'[k].validity = ops[k].validity
                     \/ /\ ops'[k].id = 0 /\ ops'[k].validity = 0
                        /\ k \notin excused' => server'[k] = want[k]
  BY DEF RowsStayOrAreTold
<1>4. IdsAreOwn'
  <2>1. \A o \in Op : o.id # 0
    BY DEF Op
  <2>2. \A k \in Key : ops'[k].id \in {0, ops[k].id}
    BY <1>3
  <2>3. \A k \in Key : ops'[k].id <= intents'
    BY <2>2 DEF IdsAreOwn, TypeOK
  <2>4. \A j, k \in Key : Queued(k)' /\ ops'[j].id = ops'[k].id => j = k
    BY <2>2 DEF IdsAreOwn, Queued
  <2>5. \A q \in Replay : \A o \in replay'[q].todo :
          o.id <= intents' /\ \A k \in Key : ops'[k].id = o.id => k = o.key
    BY <1>2, <2>1, <2>2 DEF IdsAreOwn
  <2> QED BY <2>3, <2>4, <2>5 DEF IdsAreOwn
<1>5. RowsAreWishes'
  BY <1>3 DEF RowsAreWishes, Queued, InView, HarmlessToServer
<1>6. NoneIsLost'
  BY <1>3 DEF NoneIsLost, Queued, HarmlessToServer
<1>7. OpsAreWishes'
  BY <1>2 DEF OpsAreWishes, InView, HarmlessToServer
<1>8. HalfIsTold'
  <2>1. ASSUME NEW q \in Replay, NEW o \in BatchOf(q)',
               replay'[q].half, o.set, o.key \notin excused'
        PROVE  server'[o.key] = want[o.key]
    <3>1. CASE q = r
      BY <2>1, <3>1
    <3>2. CASE q # r
      <4>1. o \in BatchOf(q) /\ replay[q].half /\ o.key \in Key
        BY <1>2, <2>1, <3>2 DEF BatchOf, Op
      <4>2. server[o.key] = want[o.key]
        BY <2>1, <4>1 DEF HalfIsTold, HarmlessToServer
      <4> QED BY <2>1, <4>1, <4>2 DEF HarmlessToServer
    <3> QED BY <3>1, <3>2
  <2> QED BY <2>1 DEF HalfIsTold
<1>9. RemovalsRemove'
  BY <1>2, <1>3 DEF RemovalsRemove, Removal, Queued
<1>10. GoneWithOthers'
  BY <1>3 DEF GoneWithOthers, Queued, HarmlessToServer
<1>11. NumbersAreOld'
  BY <1>2, <1>3 DEF NumbersAreOld, TypeOK
<1>12. Checked'
  BY <1>2 DEF Checked
<1> QED
  BY <1>1, <1>4, <1>5, <1>6, <1>7, <1>8, <1>9, <1>10, <1>11, <1>12

LEMMA FailKeepsInv ==
  ASSUME Inv, NEW r \in Replay, NEW carriedOut \in BOOLEAN, Fail(r, carriedOut)
  PROVE  Inv'
<1>1. /\ replay[r].at = "send" /\ NextBatch(r) /\ ops' = CountRetry(BatchOf(r))
      /\ CarryOut(r) \/ UNCHANGED <<server, excused>>
      /\ UNCHANGED <<validity, reports, known, view, want, intents>>
  BY DEF Fail, numbers
<1>2. TypeOK
  BY DEF Inv
<1>3. RowsStayOrAreTold
  <2>1. \A k \in RowsOf(BatchOf(r)) : ops[k] \in Row
    <3>1. \A o \in BatchOf(r) : o.id # 0
      BY <1>2 DEF BatchOf, TypeOK, ReplayState, Op
    <3> QED BY <1>2, <3>1 DEF RowsOf, TypeOK, NoRow
  <2>2. \A k \in Key : /\ ops'[k] \in Row \cup {NoRow}
                       /\ ops'[k].id = ops[k].id /\ ops'[k].set = ops[k].set
                       /\ ops'[k].validity = ops[k].validity
    BY <1>1, <1>2, <2>1 DEF CountRetry, TypeOK, Row, RowsOf
  <2>3. ops' = [k \in Key |-> ops'[k]]
    BY <1>1 DEF CountRetry
  <2> QED BY <2>2, <2>3 DEF RowsStayOrAreTold
<1>4. HarmlessToServer
  BY <1>1, CommandIsHarmless
<1> QED
  BY <1>1, <1>2, <1>3, <1>4, NextBatchShrinks, SendStepKeepsInv

LEMMA AckKeepsInv ==
  ASSUME Inv, NEW r \in Replay, NEW refused \in BOOLEAN, Ack(r, refused)
  PROVE  Inv'
<1>1. /\ replay[r].at = "send"
      /\ CarryOut(r) \/ Refused(r)
      /\ UNCHANGED <<validity, reports, known, view, want, intents>>
  BY DEF Ack, numbers
<1>2. HarmlessToServer
  BY <1>1, CommandIsHarmless
<1>3. TypeOK /\ replay[r] \in ReplayState /\ BatchOf(r) \subseteq Op
  BY DEF Inv, TypeOK, BatchOf, ReplayState
<1>4. \A o \in CommandOf(r) : o.key \notin excused' => server'[o.key] = want[o.key]
  <2>1. CASE Refused(r)
    BY <2>1 DEF Refused
  <2> QED BY <1>1, <2>1, CommandTells
<1>5. CASE LastCommand(r)
  <2>1. NextBatch(r) /\ ops' = Done(BatchOf(r))
    BY <1>5 DEF Ack
  <2>2. ASSUME NEW k \in RowsOf(BatchOf(r)), k \notin excused'
        PROVE  server'[k] = want[k]
    <3>1. PICK o \in BatchOf(r) : o.id = ops[k].id
      BY DEF RowsOf
    <3>2. k = o.key /\ k \in Key /\ o \in replay[r].todo
      BY <3>1 DEF Inv, IdsAreOwn, RowsOf, BatchOf
    <3>3. CASE o \in CommandOf(r)
      BY <1>4, <2>2, <3>2, <3>3
    <3>4. CASE o \notin CommandOf(r)
      <4>1. replay[r].half /\ o.set
        BY <1>3, <1>5, <3>1, <3>4 DEF LastCommand, CommandOf, Op
      <4>2. server[k] = want[k]
        BY <1>2, <2>2, <3>1, <3>2, <4>1 DEF Inv, HalfIsTold, HarmlessToServer
      <4> QED BY <1>2, <2>2, <3>2, <4>2 DEF HarmlessToServer
    <3> QED BY <3>3, <3>4
  <2>3. RowsStayOrAreTold
    BY <1>3, <2>1, <2>2 DEF RowsStayOrAreTold, Done, Without, TypeOK, NoRow
  <2>4. /\ replay' \in [Replay -> ReplayState]
        /\ \A q \in Replay : q # r => replay'[q] = replay[q]
        /\ replay'[r].todo \subseteq replay[r].todo
        /\ replay'[r].half = FALSE /\ replay'[r].seen \in {0, replay[r].seen}
    BY ONLY <1>3, <2>1, NextBatchShrinks
  <2>5. \A o \in BatchOf(r)' :
          replay'[r].half /\ o.set /\ o.key \notin excused' => server'[o.key] = want[o.key]
    BY ONLY <2>4
  <2> QED
    BY ONLY Inv, <1>1, <1>2, <2>3, <2>4, <2>5, SendStepKeepsInv
<1>6. CASE ~LastCommand(r)
  <2>1. replay' = [replay EXCEPT ![r].half = TRUE] /\ ops' = ops
    BY <1>6 DEF Ack
  <2>2. replay'[r] = [replay[r] EXCEPT !.half = TRUE]
    BY <1>3, <2>1 DEF TypeOK
  <2>3. replay'[r] \in ReplayState /\ replay'[r].todo = replay[r].todo
    BY <1>3, <2>2 DEF ReplayState
  <2>4. replay'[r].seen = replay[r].seen
    BY <1>3, <2>2 DEF ReplayState
  <2>5. /\ \A q \in Replay : q # r => replay'[q] = replay[q]
        /\ replay' \in [Replay -> ReplayState]
    BY <1>3, <2>1, <2>3 DEF TypeOK
  <2>6. \A o \in BatchOf(r)' : o.set => o \in CommandOf(r)
    BY <1>6, <2>3 DEF LastCommand, CommandOf, BatchOf
  <2>7. RowsStayOrAreTold
    BY <1>3, <2>1 DEF RowsStayOrAreTold, TypeOK
  <2>8. \A o \in BatchOf(r)' :
          replay'[r].half /\ o.set /\ o.key \notin excused' => server'[o.key] = want[o.key]
    BY ONLY <1>4, <2>6
  <2>9. replay'[r].todo \subseteq replay[r].todo /\ replay'[r].seen \in {0, replay[r].seen}
    BY ONLY <2>3, <2>4
  <2> QED
    BY ONLY Inv, <1>1, <1>2, <2>5, <2>7, <2>8, <2>9, SendStepKeepsInv
<1> QED BY <1>5, <1>6

-----------------------------------------------------------------------------
(* Every step                                                              *)

LEMMA CrashKeepsInv ==
  ASSUME Inv, Crash
  PROVE  Inv'
<1>1. /\ replay' = [r \in Replay |-> Idle]
      /\ UNCHANGED <<ops, server, validity, reports, known, view, want, excused, intents>>
  BY DEF Crash, numbers
<1>2. \A r \in Replay : replay'[r].todo = {} /\ replay'[r].seen = 0
  BY <1>1 DEF Idle
<1>3. TypeOK'
  BY <1>1 DEF Inv, TypeOK, ReplayState, Idle
<1> QED
  BY <1>1, <1>2, <1>3 DEF Inv, IdsAreOwn, RowsAreWishes, OpsAreWishes, NoneIsLost, HalfIsTold, InView,
     BatchOf, RemovalsRemove, GoneWithOthers, Removals, Queued, NumbersAreOld, Checked

LEMMA NextKeepsInv == Inv /\ [Next]_vars => Inv'
<1> SUFFICES ASSUME Inv, [Next]_vars PROVE Inv'
  OBVIOUS
<1>1. ASSUME NEW k \in Key, NEW set \in BOOLEAN, User(k, set)
      PROVE  Inv'
  BY <1>1, IntentKeepsInv, TooLateKeepsInv DEF User
<1>2. ASSUME NEW r \in Replay, Begin(r) \/ Check(r) PROVE Inv'
  BY <1>2, BeginKeepsInv, CheckKeepsInv
<1>3. ASSUME NEW r \in Replay, Send(r) PROVE Inv'
  BY <1>3, AckKeepsInv, FailKeepsInv DEF Send
<1>4. CASE Renumber \/ SyncStarts \/ SyncEnds \/ Crash
  BY <1>4, SyncKeepsInv, CrashKeepsInv
<1>5. CASE UNCHANGED vars
  BY <1>5 DEF vars, numbers, Inv, TypeOK, IdsAreOwn, RowsAreWishes, OpsAreWishes, NoneIsLost,
     HalfIsTold, InView, BatchOf, RemovalsRemove, GoneWithOthers, Removals, Queued,
     NumbersAreOld, Checked
<1> QED BY <1>1, <1>2, <1>3, <1>4, <1>5 DEF Next

LEMMA InvHolds == Spec => []Inv
<1> QED BY InitInv, NextKeepsInv, PTL DEF Spec

-----------------------------------------------------------------------------
\* The table, the replays and what they are compared with keep their types,
\* retries never below 0, through every handler, replay step and restart of
\* main.ts, offlineReplay.ts and db/index.ts.
THEOREM TypeCorrect == Spec => []TypeOK
<1>1. Inv => TypeOK
  BY DEF Inv
<1> QED BY <1>1, InvHolds, PTL

\* For any messages and any number of replays side by side: a change reaches
\* the server by the time nothing is left to replay for it, outside the cases
\* `excused` names, whatever answers are lost, commands refused and folders
\* renumbered, and wherever the program stops.
THEOREM ChangesArrive == Spec => []ChangesReachTheServer
<1>1. Inv => ChangesReachTheServer
  BY DEF Inv, NoneIsLost, ChangesReachTheServer
<1> QED BY <1>1, InvHolds, PTL

-----------------------------------------------------------------------------
(* What the server goes through on the way                                 *)

\* A message that was moved or deleted is never brought back, excused or not, as
\* long as the cache shows the messages of the same numbering.
RemovalsStay ==
  [][\A k \in Key : k[2] \in Removing /\ server[k] /\ view' = view => server'[k]]_vars

\* Each step moves the server towards the wishes, if it moves it at all.
LEMMA StepsFollowWishes ==
  ASSUME Inv, [Next]_vars, NEW k \in Key
  PROVE  /\ server'[k] # server[k] => server'[k] = want'[k] \/ k \in excused'
         /\ k[2] \in Removing /\ server[k] /\ view' = view => server'[k]
<1> USE DEF Inv
<1>1. ASSUME NEW j \in Key, NEW set \in BOOLEAN, NEW flag \in BOOLEAN,
             QueueIntent(j, set, flag) \/ DirectIntent(j, set, flag)
      PROVE  /\ server'[k] # server[k] => server'[k] = want'[k]
             /\ k[2] \in Removing /\ server[k] => server'[k]
  <2>1. Intent(j, set) /\ server' \in {server, [server EXCEPT ![j] = set]}
    BY <1>1 DEF QueueIntent, DirectIntent, Reaches
  <2> QED BY <2>1 DEF Intent, TypeOK
<1>2. ASSUME EmptiesCache
      PROVE  server'[k] = want'[k] /\ view' # view
  BY <1>2 DEF EmptiesCache, Told
<1>3. ASSUME NEW r \in Replay, Send(r)
      PROVE  /\ server'[k] # server[k] => server'[k] = want'[k] \/ k \in excused'
             /\ k[2] \in Removing /\ server[k] => server'[k]
  <2>1. /\ CarryOut(r) \/ Refused(r) \/ UNCHANGED <<server, excused>>
        /\ want' = want
    BY <1>3 DEF Send, Ack, Fail
  <2>2. HarmlessToServer
    BY <2>1, CommandIsHarmless
  <2> QED BY <2>1, <2>2 DEF HarmlessToServer, TypeOK, Removal
<1>4. ASSUME NEW r \in Replay, Begin(r) \/ Check(r) PROVE server' = server
  BY <1>4 DEF Begin, Check, CheckFails, DiscardFolder, CheckPasses
<1>5. CASE Renumber \/ SyncEnds \/ Crash \/ UNCHANGED vars
  BY <1>5 DEF Renumber, SyncEnds, Crash, vars
<1>6. ASSUME NEW j \in Key, NEW set \in BOOLEAN, User(j, set)
      PROVE  /\ server'[k] # server[k] => server'[k] = want'[k]
             /\ k[2] \in Removing /\ server[k] /\ view' = view => server'[k]
  BY <1>1, <1>2, <1>6 DEF User, QueueTooLate
<1>7. CASE SyncStarts
  BY <1>2, <1>7 DEF SyncStarts
<1> QED BY <1>3, <1>4, <1>5, <1>6, <1>7 DEF Next

\* For any messages, any number of replays side by side and any renumberings:
\* the server only moves to the user's last wish about the message concerned,
\* outside the cases `excused` names.
THEOREM ServerIsLed == Spec => ServerFollowsWishes
<1>1. Inv /\ [Next]_vars =>
        [\A k \in Key : server'[k] # server[k] => server'[k] = want'[k] \/ k \in excused']_vars
  BY StepsFollowWishes
<1> QED BY <1>1, InvHolds, PTL DEF Spec, ServerFollowsWishes

\* In the same generality: a removal is never undone, until the cache is filled
\* anew with the messages of another numbering.
THEOREM RemovalsAreFinal == Spec => RemovalsStay
<1>1. Inv /\ [Next]_vars =>
        [\A k \in Key : k[2] \in Removing /\ server[k] /\ view' = view => server'[k]]_vars
  BY StepsFollowWishes
<1> QED BY <1>1, InvHolds, PTL DEF Spec, RemovalsStay

-----------------------------------------------------------------------------
(* How often an op is tried                                                *)

\* A row fails at most once per replay that has it: MAX_REPLAY_RETRIES is
\* looked at when a replay begins, so replays side by side go beyond it, but
\* by no more than there are of them.
RetriesAreBounded ==
  IsFiniteSet(Replay) =>
    \A k \in Key : ops[k].retries <= MaxRetries - 1 + Cardinality(Replay)

\* The replays that may still count a retry for the row of k.
Holders(k) == {r \in Replay : \E o \in replay[r].todo : o.id = ops[k].id}

TriesLeft ==
  \A k \in Key : Queued(k) =>
    ops[k].retries + Cardinality(Holders(k)) <= MaxRetries - 1 + Cardinality(Replay)

\* What a step may do to the row of k: leave it a full budget, leave it alone,
\* or charge it the try of a replay that gives it up.
Charged(k) ==
  \/ ops'[k].retries <= MaxRetries - 1
  \/ ops'[k].retries = ops[k].retries /\ Queued(k) /\ Holders(k)' \subseteq Holders(k)
  \/ /\ ops'[k].retries = ops[k].retries + 1 /\ Queued(k)
     /\ \E r \in Holders(k) : Holders(k)' \subseteq Holders(k) \ {r}

\* Counting: what such a step may do keeps the row within its tries.
LEMMA ChargedKeepsTries ==
  ASSUME IsFiniteSet(Replay), TypeOK, TypeOK', TriesLeft,
         \A k \in Key : Queued(k)' => Charged(k)
  PROVE  TriesLeft'
<1> SUFFICES ASSUME NEW k \in Key, Queued(k)'
             PROVE  ops'[k].retries + Cardinality(Holders(k)')
                      <= MaxRetries - 1 + Cardinality(Replay)
  BY DEF TriesLeft
<1>1. Holders(k) \subseteq Replay /\ Holders(k)' \subseteq Replay
  BY DEF Holders
<1>2. /\ IsFiniteSet(Holders(k)) /\ IsFiniteSet(Holders(k)')
      /\ Cardinality(Holders(k)) \in Nat /\ Cardinality(Holders(k)') \in Nat
      /\ Cardinality(Replay) \in Nat /\ Cardinality(Holders(k)') <= Cardinality(Replay)
  BY <1>1, FS_Subset, FS_CardinalityType
<1>3. ops[k].retries \in Nat /\ ops'[k].retries \in Nat /\ MaxRetries \in Nat
  BY BoundsAssumption DEF TypeOK, Row, NoRow
<1>4. CASE ops'[k].retries <= MaxRetries - 1
  BY <1>2, <1>3, <1>4
<1>5. CASE ops'[k].retries = ops[k].retries /\ Queued(k) /\ Holders(k)' \subseteq Holders(k)
  <2>1. Cardinality(Holders(k)') <= Cardinality(Holders(k))
    BY <1>2, <1>5, FS_Subset
  <2>2. ops[k].retries + Cardinality(Holders(k)) <= MaxRetries - 1 + Cardinality(Replay)
    BY <1>5 DEF TriesLeft
  <2> QED BY <1>2, <1>3, <1>5, <2>1, <2>2
<1>6. ASSUME ops'[k].retries = ops[k].retries + 1, Queued(k),
             NEW r \in Holders(k), Holders(k)' \subseteq Holders(k) \ {r}
      PROVE  ops'[k].retries + Cardinality(Holders(k)') <= MaxRetries - 1 + Cardinality(Replay)
  <2>1. /\ IsFiniteSet(Holders(k) \ {r})
        /\ Cardinality(Holders(k) \ {r}) = Cardinality(Holders(k)) - 1
    BY <1>2, FS_RemoveElement
  <2>2. Cardinality(Holders(k)') <= Cardinality(Holders(k)) - 1
    BY <1>6, <2>1, FS_Subset
  <2>3. ops[k].retries + Cardinality(Holders(k)) <= MaxRetries - 1 + Cardinality(Replay)
    BY <1>6 DEF TriesLeft
  <2> QED BY <1>2, <1>3, <1>6, <2>2, <2>3
<1> QED BY <1>4, <1>5, <1>6 DEF Charged

\* A failed batch is behind its replay: nothing of it is in what is left.
LEMMA FailedRowsAreGivenUp ==
  ASSUME Inv, NEW r \in Replay, NextBatch(r), NEW k \in Key, Queued(k),
         ops'[k].id = ops[k].id
  PROVE  /\ Holders(k)' \subseteq Holders(k)
         /\ k \in RowsOf(BatchOf(r)) => r \in Holders(k) /\ r \notin Holders(k)'
<1> USE DEF Inv
<1>1. /\ \A q \in Replay : q # r => replay'[q] = replay[q]
      /\ replay'[r].todo \subseteq replay[r].todo
  BY NextBatchShrinks
<1>2. Holders(k)' \subseteq Holders(k)
  BY <1>1 DEF Holders
<1>3. ASSUME k \in RowsOf(BatchOf(r))
      PROVE  r \in Holders(k) /\ r \notin Holders(k)'
  <2>1. PICK o \in BatchOf(r) : o.id = ops[k].id
    BY <1>3 DEF RowsOf
  <2>2. o \in replay[r].todo
    BY DEF BatchOf
  <2>3. \A p \in replay[r].todo : p.id = ops[k].id => p.key = k
    BY DEF IdsAreOwn
  <2>4. \A p \in replay[r].todo : p.id = ops[k].id => p \in BatchOf(r)
    BY <2>1, <2>2, <2>3 DEF BatchOf, OpPriority
  <2>5. replay'[r].todo \cap BatchOf(r) = {}
    BY DEF NextBatch, TypeOK, Idle
  <2> QED BY <1>1, <2>1, <2>2, <2>4, <2>5 DEF Holders
<1> QED BY <1>2, <1>3

\* No step does anything else to a row.
LEMMA StepsCharge ==
  ASSUME Inv, Inv', [Next]_vars, NEW k \in Key, Queued(k)'
  PROVE  Charged(k)
<1> USE DEF Inv
<1>0. MaxRetries \in Nat \ {0} /\ ops[k].retries \in Nat
  BY BoundsAssumption DEF TypeOK, Row, NoRow
<1>1. ASSUME ops'[k] = ops[k],
             \A q \in Replay : replay'[q].todo \subseteq replay[q].todo
      PROVE  Charged(k)
  BY <1>1 DEF Charged, Queued, Holders
<1>2. ASSUME NEW j \in Key, NEW set \in BOOLEAN, User(j, set)
      PROVE  Charged(k)
  <2>1. replay' = replay
    BY <1>2 DEF User, QueueIntent, DirectIntent, QueueTooLate, Intent
  <2>2. \/ ops' = ops
        \/ \E number \in Nat : ops' = Upsert(j, set, number)
    BY <1>2 DEF User, QueueIntent, DirectIntent, QueueTooLate, TypeOK
  <2>3. CASE ops'[k] = ops[k]
    BY <1>1, <2>1, <2>3
  <2>4. CASE ops'[k] # ops[k]
    <3>1. /\ j = k
          /\ IF Queued(k) THEN ops'[k].id = ops[k].id /\ ops'[k].retries = ops[k].retries
             ELSE ops'[k].id = intents + 1 /\ ops'[k].retries = 0
      BY <2>2, <2>4, UpsertedRow
    <3>2. CASE Queued(k)
      BY <2>1, <3>1, <3>2 DEF Charged, Holders
    <3>3. CASE ~Queued(k)
      BY <1>0, <3>1, <3>3 DEF Charged
    <3> QED BY <3>2, <3>3
  <2> QED BY <2>3, <2>4
<1>3. ASSUME NEW r \in Replay, Begin(r) PROVE Charged(k)
  <2>1. k \notin Poison /\ ops'[k] = ops[k]
    BY <1>3 DEF Begin, Without, NoRow, Queued
  <2>2. ~(ops[k].retries >= MaxRetries)
    BY <2>1 DEF Poison, Queued
  <2> QED BY <1>0, <2>1, <2>2 DEF Charged
<1>4. ASSUME NEW r \in Replay, Check(r) PROVE Charged(k)
  <2>1. CASE CheckFails(r)
    <3>1. ops' = ops /\ replay' = [replay EXCEPT ![r] = Idle]
      BY <2>1 DEF CheckFails
    <3> QED BY <1>1, <3>1 DEF TypeOK, Idle
  <2>2. CASE DiscardFolder(r)
    BY <2>2 DEF DiscardFolder, Queued, NoRow
  <2>3. CASE CheckPasses(r)
    <3>1. /\ ops' = ops
          /\ replay' = [replay EXCEPT ![r].at = "send", ![r].seen = Told]
      BY <2>3 DEF CheckPasses
    <3>2. replay'[r] = [replay[r] EXCEPT !.at = "send", !.seen = Told]
          /\ replay[r] \in ReplayState
      BY <3>1 DEF TypeOK
    <3>3. replay'[r].todo = replay[r].todo
      BY <3>2 DEF ReplayState
    <3> QED BY <1>1, <3>1, <3>3 DEF TypeOK
  <2> QED BY <1>4, <2>1, <2>2, <2>3 DEF Check
<1>5. ASSUME NEW r \in Replay, NEW refused \in BOOLEAN, Ack(r, refused) PROVE Charged(k)
  <2>1. ops'[k] = ops[k]
    BY <1>5 DEF Ack, Done, Without, TypeOK, Queued, NoRow
  <2>2. \A q \in Replay : replay'[q].todo \subseteq replay[q].todo
    <3>1. CASE NextBatch(r)
      BY <3>1, NextBatchShrinks
    <3>2. CASE replay' = [replay EXCEPT ![r].half = TRUE]
      <4>1. replay'[r] = [replay[r] EXCEPT !.half = TRUE] /\ replay[r] \in ReplayState
        BY <3>2 DEF TypeOK
      <4>2. replay'[r].todo = replay[r].todo
        BY <4>1 DEF ReplayState
      <4> QED BY <3>2, <4>2 DEF TypeOK
    <3> QED BY <1>5, <3>1, <3>2 DEF Ack
  <2> QED BY <1>1, <2>1, <2>2
<1>6. ASSUME NEW r \in Replay, NEW carriedOut \in BOOLEAN, Fail(r, carriedOut)
      PROVE  Charged(k)
  <2>1. NextBatch(r) /\ ops' = CountRetry(BatchOf(r))
    BY <1>6 DEF Fail
  <2>2. CASE k \in RowsOf(BatchOf(r))
    <3>1. ops[k] \in Row
      <4>1. \A o \in BatchOf(r) : o.id # 0
        BY DEF BatchOf, TypeOK, ReplayState, Op
      <4> QED BY <2>2, <4>1 DEF RowsOf, TypeOK, NoRow
    <3>2. ops'[k] = [ops[k] EXCEPT !.retries = @ + 1]
      BY <2>1, <2>2 DEF CountRetry
    <3>3. ops'[k].retries = ops[k].retries + 1
      BY <3>1, <3>2 DEF Row
    <3>4. ops'[k].id = ops[k].id
      BY <3>1, <3>2 DEF Row
    <3>5. Queued(k)
      BY <3>4 DEF Queued
    <3> QED BY <2>1, <2>2, <3>3, <3>4, <3>5, FailedRowsAreGivenUp DEF Charged
  <2>3. CASE k \notin RowsOf(BatchOf(r))
    <3>1. ops'[k] = ops[k]
      BY <2>1, <2>3 DEF CountRetry
    <3> QED BY <1>1, <2>1, <3>1, NextBatchShrinks
  <2> QED BY <2>2, <2>3
<1>7. CASE Renumber \/ SyncStarts \/ SyncEnds \/ UNCHANGED vars
  BY <1>1, <1>7 DEF Renumber, SyncStarts, SyncEnds, vars
<1>8. CASE Crash
  BY <1>1, <1>8 DEF Crash, Idle
<1> QED BY <1>2, <1>3, <1>4, <1>5, <1>6, <1>7, <1>8 DEF Next, Send

\* For any messages, any retry limit and any number of replays side by side.
THEOREM RetriesEnd == Spec => []RetriesAreBounded
<1> DEFINE Kept == IsFiniteSet(Replay) => TriesLeft
<1>1. Init => Kept
  BY DEF Init, TriesLeft, Queued, NoRow
<1>2. Inv /\ Inv' /\ Kept /\ [Next]_vars => Kept'
  BY StepsCharge, ChargedKeepsTries DEF Inv
<1>3. Inv /\ Kept => RetriesAreBounded
  <2> SUFFICES ASSUME Inv, IsFiniteSet(Replay), TriesLeft, NEW k \in Key
               PROVE  ops[k].retries <= MaxRetries - 1 + Cardinality(Replay)
    BY DEF RetriesAreBounded
  <2>1. /\ Cardinality(Holders(k)) \in Nat /\ Cardinality(Replay) \in Nat
    <3>1. Holders(k) \subseteq Replay
      BY DEF Holders
    <3> QED BY <3>1, FS_Subset, FS_CardinalityType
  <2>2. MaxRetries \in Nat \ {0} /\ ops[k].retries \in Nat
    BY BoundsAssumption DEF Inv, TypeOK, Row, NoRow
  <2>3. CASE Queued(k)
    BY <2>1, <2>2, <2>3 DEF TriesLeft
  <2>4. CASE ~Queued(k)
    BY <2>1, <2>2, <2>4 DEF Queued, Inv, TypeOK, Row, NoRow
  <2> QED BY <2>3, <2>4
<1> HIDE DEF Kept
<1> QED BY <1>1, <1>2, <1>3, InvHolds, PTL DEF Spec
=============================================================================
