--------------------------- MODULE SendQueueProofs ---------------------------
(***************************************************************************)
(* Proofs about SendQueue: type correctness, no duplicate delivery, and    *)
(* that `sent` is true and final, for every set of items and every bound.  *)
(***************************************************************************)
EXTENDS SendQueue, TLAPS

USE ItemAssumption, BoundsAssumption

\* The statements on the table keep every row a row.
LEMMA StatementTypes ==
  ASSUME TypeOK, NEW i \in Item
  PROVE  /\ row[i] \in Row
         /\ Recovered(i) \in Row
         /\ \A s \in Status : Set(i, s) \in [Item -> Row]
         /\ MarkSent(i) \in [Item -> Row]
         /\ MarkFailed(i) \in [Item -> Row]
         /\ \A now \in BOOLEAN : Rescheduled(i, now) \in [Item -> Row]
<1>1. row \in [Item -> Row]
  BY DEF TypeOK
<1>2. Recovered(i) \in Row
  BY <1>1 DEF Recovered, Row, Status
<1>3. \A s \in Status : Set(i, s) \in [Item -> Row]
  BY <1>1 DEF Set, Row
<1>4. MarkSent(i) \in [Item -> Row] /\ MarkFailed(i) \in [Item -> Row]
  BY <1>1, <1>3 DEF MarkSent, MarkFailed, Status
<1>5. \A now \in BOOLEAN : Rescheduled(i, now) \in [Item -> Row]
  BY <1>1 DEF Rescheduled, Row, Status
<1> QED BY <1>1, <1>2, <1>3, <1>4, <1>5

\* While the worker dispatches, it knows what it dispatches and what became of
\* it; at all other times a row tells the truth about its message.
DeliveryInv ==
  /\ phase \in {"off", "loop"} <=> item = NoItem
  /\ phase = "smtp" => copies[item] = 0
  /\ phase = "accepted" => copies[item] = 1
  /\ phase = "archive" => copies[item] = 1 /\ Is(item, {"sent", "removed"})
  /\ phase \in {"smtp", "accepted"} =>
       ~Is(item, {"none", "sent", "failed"}) /\ item \notin archived
  /\ \A i \in Item :
       /\ copies[i] \in {0, 1}
       /\ Is(i, {"none", "queued", "sending", "failed"})
            /\ ~(item = i /\ phase = "accepted") => copies[i] = 0
       /\ Is(i, {"sent"}) => copies[i] = 1
       /\ i \in archived => copies[i] = 1 /\ Is(i, {"sent", "removed"})
       /\ ~Is(i, Status) => FALSE

Inv == TypeOK /\ DeliveryInv

\* The rows of Init carry no message anywhere.
LEMMA InitInv == Init => Inv
BY DEF Init, Inv, TypeOK, DeliveryInv, Row, Status, Is

\* The user's commands preserve the invariant.
LEMMA UserKeepsInv ==
  ASSUME Inv, User
  PROVE  Inv'
<1> USE DEF Inv
<1>0. row \in [Item -> Row]
  BY DEF TypeOK
<1>1. ASSUME NEW i \in Item, NEW now \in BOOLEAN, Enqueue(i, now)
      PROVE  Inv'
  <2>1. row' \in [Item -> Row]
    BY <1>0, <1>1 DEF Enqueue, Row, Status
  <2>2. TypeOK'
    BY <1>1, <2>1 DEF Enqueue, TypeOK, worker, bounds
  <2>3. DeliveryInv'
    BY <1>1 DEF Enqueue, TypeOK, DeliveryInv, Row, Status, Is, worker, bounds
  <2> QED BY <2>2, <2>3
<1>2. ASSUME NEW i \in Item, NEW now \in BOOLEAN, Reschedule(i, now)
      PROVE  Inv'
  <2>1. row' \in [Item -> Row]
    BY <1>2, StatementTypes DEF Reschedule
  <2>2. touches' \in [Item -> Nat]
    BY <1>2 DEF Reschedule, TypeOK
  <2>3. TypeOK'
    BY <1>2, <2>1, <2>2 DEF Reschedule, TypeOK, worker
  <2>4. /\ \A j \in Item : j # i => row'[j] = row[j]
        /\ row[i].status \in {"queued", "sending", "failed"}
        /\ row'[i].status = "queued"
    BY <1>0, <1>2 DEF Reschedule, Rescheduled, Reschedulable, Is
  <2>5. DeliveryInv'
    BY <1>2, <2>4 DEF Reschedule, TypeOK, DeliveryInv, Status, Is, worker
  <2> QED BY <2>3, <2>5
<1>3. ASSUME NEW i \in Item, Cancel(i) PROVE Inv'
  <2>1. row' \in [Item -> Row]
    BY <1>3, StatementTypes DEF Cancel, Status
  <2>2. TypeOK'
    BY <1>3, <2>1 DEF Cancel, TypeOK, worker, bounds
  <2>3. DeliveryInv'
    BY <1>0, <1>3 DEF Cancel, Set, TypeOK, DeliveryInv, Row, Status, Is, worker, bounds
  <2> QED BY <2>2, <2>3
<1>4. CASE RemoveAccount
  <2>1. row' \in [Item -> Row]
    BY <1>0, <1>4 DEF RemoveAccount, Row, Status
  <2>2. TypeOK'
    BY <1>4, <2>1 DEF RemoveAccount, TypeOK, worker, bounds
  <2>3. DeliveryInv'
    BY <1>0, <1>4 DEF RemoveAccount, TypeOK, DeliveryInv, Row, Status, Is, worker, bounds
  <2> QED BY <2>2, <2>3
<1> QED BY <1>1, <1>2, <1>3, <1>4 DEF User

\* Starting a pass recovers stuck rows and dispatches nothing yet.
LEMMA StartPassKeepsInv ==
  ASSUME Inv, StartPass
  PROVE  Inv'
<1> USE DEF Inv
<1>0. row \in [Item -> Row] /\ row' = [i \in Item |-> Recovered(i)]
  BY DEF TypeOK, StartPass
<1>1. row' \in [Item -> Row]
  BY <1>0, StatementTypes
<1>2. due' \subseteq Item
  BY DEF StartPass
<1>3. snap' \in [Item -> Nat]
  BY <1>0 DEF StartPass, Row
<1>4. TypeOK'
  BY <1>1, <1>2, <1>3 DEF StartPass, TypeOK, bounds
<1>5. \A i \in Item :
        \/ row'[i].status = row[i].status
        \/ row[i].status = "sending" /\ row'[i].status = "queued"
  <2> TAKE i \in Item
  <2>2. row'[i] = Recovered(i)
    BY <1>0
  <2>3. CASE Is(i, {"sending"}) /\ row[i].stale
    BY <2>2, <2>3 DEF Recovered, Is
  <2>4. CASE ~(Is(i, {"sending"}) /\ row[i].stale)
    BY <2>2, <2>4 DEF Recovered
  <2> QED BY <2>3, <2>4
<1>6. DeliveryInv'
  BY <1>5 DEF StartPass, TypeOK, DeliveryInv, Status, Is, bounds
<1> QED BY <1>4, <1>6

\* Every step of the worker preserves the invariant.
LEMMA WorkKeepsInv ==
  ASSUME Inv, Work
  PROVE  Inv'
<1> USE DEF Inv
<1>0. row \in [Item -> Row]
  BY DEF TypeOK
<1>1. ASSUME NEW i \in Item, Skip(i) PROVE Inv'
  <2>1. TypeOK'
    BY <1>1 DEF Skip, TypeOK, bounds
  <2>2. DeliveryInv'
    BY <1>1 DEF Skip, TypeOK, DeliveryInv, Is, bounds
  <2> QED BY <2>1, <2>2
<1>2. ASSUME NEW i \in Item, Claim(i) PROVE Inv'
  <2>1. row' \in [Item -> Row]
    BY <1>0, <1>2 DEF Claim, Row, Status
  <2>2. TypeOK'
    BY <1>2, <2>1 DEF Claim, TypeOK, bounds
  <2>3. /\ \A j \in Item : j # i => row'[j] = row[j]
        /\ row[i].status = "queued" /\ row'[i].status = "sending"
    BY <1>0, <1>2 DEF Claim, Is
  <2>4. DeliveryInv'
    BY <1>2, <2>3 DEF Claim, TypeOK, DeliveryInv, Status, Is, bounds
  <2> QED BY <2>2, <2>4
<1>3. CASE SendOk
  <2>0. item \in Item
    BY <1>3 DEF SendOk, TypeOK, DeliveryInv
  <2>1. row' \in [Item -> Row]
    BY <1>3, <2>0, StatementTypes DEF SendOk
  <2>2. snap' \in [Item -> Nat]
    BY <1>3 DEF SendOk, NextRow, TypeOK
  <2>3. TypeOK'
    BY <1>3, <2>1, <2>2 DEF SendOk, NextRow, TypeOK, bounds
  <2>4. /\ \A j \in Item : j # item => row'[j] = row[j]
        /\ row'[item].status \in {"sent", "removed"}
    BY <1>0, <1>3, <2>0 DEF SendOk, MarkSent, Set, Row, Is, DeliveryInv
  <2>5. DeliveryInv'
    BY <1>3, <2>0, <2>4 DEF SendOk, NextRow, TypeOK, DeliveryInv, Status, Is, bounds
  <2> QED BY <2>3, <2>5
<1>4. CASE SendTransient
  <2>0. item \in Item
    BY <1>4 DEF SendTransient, TypeOK, DeliveryInv
  <2>1. row' \in [Item -> Row]
    BY <1>4, <2>0, StatementTypes DEF SendTransient
  <2>2. snap' \in [Item -> Nat] /\ copies' \in [Item -> Nat]
    BY <1>4, <2>0 DEF SendTransient, NextRow, Unlearned, TypeOK, DeliveryInv
  <2>3. TypeOK'
    BY <1>4, <2>1, <2>2 DEF SendTransient, NextRow, TypeOK, bounds
  <2>4. /\ \A j \in Item : j # item => row'[j] = row[j]
        /\ row'[item].status \in Status \ {"none", "sent"}
    <3>1. Rescheduled(item, FALSE) = row' \/ MarkFailed(item) = row'
      BY <1>4 DEF SendTransient
    <3> QED
      BY <1>0, <1>4, <2>0, <3>1
      DEF SendTransient, Rescheduled, Reschedulable, MarkFailed, Set, Row, Is,
          DeliveryInv, Status
  <2>5. copies'[item] = 0 /\ \A j \in Item : j # item => copies'[j] = copies[j]
    BY <1>4, <2>0 DEF SendTransient, Unlearned, TypeOK, DeliveryInv
  <2>6. item \notin archived
    BY <1>4, <2>0 DEF SendTransient, DeliveryInv, Is
  <2>7. phase' = "loop" /\ item' = NoItem /\ archived' = archived
    BY <1>4 DEF SendTransient, NextRow
  <2>8. DeliveryInv'
    BY <2>0, <2>4, <2>5, <2>6, <2>7 DEF TypeOK, DeliveryInv, Status, Is
  <2> QED BY <2>3, <2>8
<1>5. CASE SendPermanent
  <2>0. item \in Item
    BY <1>5 DEF SendPermanent, TypeOK, DeliveryInv
  <2>1. row' \in [Item -> Row]
    BY <1>5, <2>0, StatementTypes DEF SendPermanent
  <2>2. snap' \in [Item -> Nat] /\ copies' \in [Item -> Nat]
    BY <1>5, <2>0 DEF SendPermanent, NextRow, Unlearned, TypeOK, DeliveryInv
  <2>3. TypeOK'
    BY <1>5, <2>1, <2>2 DEF SendPermanent, NextRow, TypeOK, bounds
  <2>4. /\ \A j \in Item : j # item => row'[j] = row[j]
        /\ row'[item].status \in {"failed", "removed"}
    BY <1>0, <1>5, <2>0 DEF SendPermanent, MarkFailed, Set, Row, Is, DeliveryInv
  <2>5. copies'[item] = 0 /\ \A j \in Item : j # item => copies'[j] = copies[j]
    BY <1>5, <2>0 DEF SendPermanent, Unlearned, TypeOK, DeliveryInv
  <2>6. item \notin archived
    BY <1>5, <2>0 DEF SendPermanent, DeliveryInv, Is
  <2>7. phase' = "loop" /\ item' = NoItem /\ archived' = archived
    BY <1>5 DEF SendPermanent, NextRow
  <2>8. DeliveryInv'
    BY <2>0, <2>4, <2>5, <2>6, <2>7 DEF TypeOK, DeliveryInv, Status, Is
  <2> QED BY <2>3, <2>8
<1>6. ASSUME NEW moved \in BOOLEAN, Archive(moved) PROVE Inv'
  <2>0. item \in Item
    BY <1>6 DEF Archive, TypeOK, DeliveryInv
  <2>1. TypeOK'
    BY <1>6, <2>0 DEF Archive, NextRow, TypeOK, bounds
  <2>2. DeliveryInv'
    BY <1>6, <2>0 DEF Archive, NextRow, TypeOK, DeliveryInv, Status, Is, bounds
  <2> QED BY <2>1, <2>2
<1>7. CASE EndPass
  BY <1>7 DEF EndPass, TypeOK, DeliveryInv, Is, bounds
<1> QED BY <1>1, <1>2, <1>3, <1>4, <1>5, <1>6, <1>7 DEF Work

\* The server's steps and the end of the process preserve the invariant.
LEMMA OutsideKeepsInv ==
  ASSUME Inv,
         \/ Accept \/ Redial \/ Quit \/ Exit \/ Start
         \/ \E i \in Item : TimeComes(i) \/ TwoMinutesPass(i)
  PROVE  Inv'
<1> USE DEF Inv
<1>1. CASE Accept
  <2>0. item \in Item
    BY <1>1 DEF Accept, TypeOK, DeliveryInv
  <2>1. copies'[item] = 1 /\ \A j \in Item : j # item => copies'[j] = copies[j]
    BY <1>1, <2>0 DEF Accept, TypeOK, DeliveryInv
  <2>2. TypeOK'
    BY <1>1, <2>0 DEF Accept, TypeOK, bounds
  <2>3. DeliveryInv'
    BY <1>1, <2>0, <2>1 DEF Accept, DeliveryInv, Is, Status
  <2> QED BY <2>2, <2>3
<1>2. CASE Redial
  <2>0. item \in Item
    BY <1>2 DEF Redial, TypeOK, DeliveryInv
  <2>1. copies'[item] = 0 /\ \A j \in Item : j # item => copies'[j] = copies[j]
    BY <1>2, <2>0 DEF Redial, Unlearned, TypeOK, DeliveryInv
  <2>2. TypeOK'
    <3>1. copies' \in [Item -> Nat]
      BY <1>2, <2>0 DEF Redial, Unlearned, TypeOK, DeliveryInv
    <3> QED BY <1>2, <3>1 DEF Redial, TypeOK, bounds
  <2>3. DeliveryInv'
    BY <1>2, <2>0, <2>1 DEF Redial, DeliveryInv, Is, Status
  <2> QED BY <2>2, <2>3
<1>3. CASE Exit
  BY <1>3 DEF Exit, Unlearned, TypeOK, DeliveryInv, Is, Status, bounds
<1>4. CASE Quit \/ Start
  BY <1>4 DEF Quit, Start, TypeOK, DeliveryInv, Is, worker, bounds
<1>5. ASSUME NEW i \in Item, TimeComes(i) \/ TwoMinutesPass(i)
      PROVE  Inv'
  <2>1. row \in [Item -> Row]
    BY DEF TypeOK
  <2>2. row' \in [Item -> Row] /\ \A j \in Item : row'[j].status = row[j].status
    <3>1. CASE TimeComes(i)
      <4>1. row' = [row EXCEPT ![i].due = TRUE]
        BY <3>1 DEF TimeComes
      <4>2. row' \in [Item -> Row]
        BY <2>1, <4>1 DEF Row
      <4> QED BY <2>1, <4>1, <4>2
    <3>2. CASE TwoMinutesPass(i)
      <4>1. row' = [row EXCEPT ![i].stale = TRUE]
        BY <3>2 DEF TwoMinutesPass
      <4>2. row' \in [Item -> Row]
        BY <2>1, <4>1 DEF Row
      <4> QED BY <2>1, <4>1, <4>2
    <3> QED BY <1>5, <3>1, <3>2
  <2>3. UNCHANGED <<app, worker, copies, archived, bounds>>
    BY <1>5 DEF TimeComes, TwoMinutesPass
  <2>4. TypeOK'
    BY <2>2, <2>3 DEF TypeOK, worker, bounds
  <2>5. DeliveryInv'
    BY <2>2, <2>3 DEF TypeOK, DeliveryInv, Is, worker, bounds
  <2> QED BY <2>4, <2>5
<1> QED BY <1>1, <1>2, <1>3, <1>4, <1>5

\* The invariant is inductive.
LEMMA NextKeepsInv ==
  ASSUME Inv, [Next]_vars
  PROVE  Inv'
<1>1. CASE UNCHANGED vars
  BY <1>1 DEF vars, worker, bounds, Inv, TypeOK, DeliveryInv, Is
<1> QED BY <1>1, UserKeepsInv, StartPassKeepsInv, WorkKeepsInv, OutsideKeepsInv DEF Next

\* The table and the worker agree on what was delivered, at all times.
THEOREM DeliveryIsKnown == Spec => []Inv
BY InitInv, NextKeepsInv, PTL DEF Spec

\* Every variable keeps its type.
THEOREM TypeCorrect == Spec => []TypeOK
BY DeliveryIsKnown, PTL DEF Inv

\* No message is delivered twice unless the worker could not know of the first
\* delivery, and `sent` and the archiving of an original are always true.
THEOREM DeliveryIsSafe == Spec => [](NoDuplicateDelivery /\ SentWasDelivered)
<1>1. Inv => NoDuplicateDelivery /\ SentWasDelivered
  BY DEF Inv, DeliveryInv, NoDuplicateDelivery, SentWasDelivered
<1> QED BY <1>1, DeliveryIsKnown, PTL

\* `sent` is true, and an original is archived for a delivered reply only.
THEOREM SentIsTrue == Spec => []SentWasDelivered
BY DeliveryIsSafe, PTL

-----------------------------------------------------------------------------
\* The statements with which the worker ends a dispatch touch its row only.
LEMMA WorkerStatementsAreLocal ==
  ASSUME TypeOK, item \in Item, NEW i \in Item, i # item
  PROVE  /\ MarkSent(item)[i] = row[i]
         /\ MarkFailed(item)[i] = row[i]
         /\ Rescheduled(item, FALSE)[i] = row[i]
BY DEF TypeOK, MarkSent, MarkFailed, Rescheduled, Set

\* No step revives a row that is sent, or one that is cancelled while idle.
LEMMA SettledStaysSettled ==
  ASSUME Inv, Next, NEW i \in Item,
         Is(i, {"sent", "canceled", "removed"}), ~InFlight(i)
  PROVE  /\ copies'[i] = copies[i]
         /\ \/ row'[i].status = row[i].status
            \/ row'[i].status = "removed"
<1>0. row \in [Item -> Row] /\ copies \in [Item -> Nat]
  BY DEF Inv, TypeOK
<1>1. CASE User
  <2>1. UNCHANGED copies
    BY <1>1 DEF User, Enqueue, Reschedule, Cancel, RemoveAccount
  <2>2. ASSUME NEW j \in Item, NEW now \in BOOLEAN, Enqueue(j, now) \/ Reschedule(j, now)
        PROVE  row'[i] = row[i]
    BY <1>0, <2>2 DEF Enqueue, Reschedule, Rescheduled, Reschedulable, Is
  <2>3. ASSUME NEW j \in Item, Cancel(j)
        PROVE  row'[i] = row[i]
    BY <1>0, <2>3 DEF Cancel, Set, Is
  <2>4. CASE RemoveAccount
    BY <1>0, <2>1, <2>4 DEF RemoveAccount, Is, Row
  <2> QED BY <1>1, <2>1, <2>2, <2>3, <2>4 DEF User
<1>2. CASE StartPass
  <2>1. row'[i] = Recovered(i) /\ UNCHANGED copies
    BY <1>2 DEF StartPass
  <2> QED BY <2>1 DEF Recovered, Is
<1>3. ASSUME NEW j \in Item, Skip(j) \/ Claim(j)
      PROVE  row'[i] = row[i] /\ UNCHANGED copies
  BY <1>0, <1>3 DEF Skip, Claim, Is
<1>4. CASE SendOk \/ SendTransient \/ SendPermanent
  <2>1. item \in Item /\ item # i
    BY <1>4 DEF SendOk, SendTransient, SendPermanent, Inv, TypeOK, DeliveryInv, InFlight
  <2>2. row'[i] = row[i]
    BY <1>4, <2>1, WorkerStatementsAreLocal DEF SendOk, SendTransient, SendPermanent, Inv
  <2>3. copies'[i] = copies[i]
    BY <1>0, <1>4, <2>1 DEF SendOk, SendTransient, SendPermanent, Unlearned
  <2> QED BY <2>2, <2>3
<1>5. CASE EndPass \/ \E moved \in BOOLEAN : Archive(moved)
  BY <1>5 DEF EndPass, Archive
<1>6. CASE Accept \/ Redial \/ Exit
  <2>1. UNCHANGED row
    BY <1>6 DEF Accept, Redial, Exit
  <2>2. copies'[i] = copies[i]
    BY <1>0, <1>6 DEF Accept, Redial, Exit, Unlearned, InFlight
  <2> QED BY <2>1, <2>2
<1>7. CASE Quit \/ Start
  BY <1>7 DEF Quit, Start
<1>8. ASSUME NEW j \in Item, TimeComes(j) \/ TwoMinutesPass(j)
      PROVE  row'[i] = row[i] /\ UNCHANGED copies
  BY <1>0, <1>8 DEF TimeComes, TwoMinutesPass, Is
<1> QED
  BY <1>1, <1>2, <1>3, <1>4, <1>5, <1>6, <1>7, <1>8 DEF Next, Work

\* A message cancelled while it is not being dispatched stays unsent, and a
\* row marked sent is final, for every number of messages, stops and retries.
THEOREM SettlingIsFinal == Spec => CancelledWhileIdleStaysUnsent /\ SentIsFinal
<1>1. Inv /\ [Next]_vars =>
        [\A i \in Item :
           Is(i, {"canceled", "removed"}) /\ ~InFlight(i)
             => copies'[i] = copies[i] /\ row'[i].status \in {"canceled", "removed"}]_vars
  BY SettledStaysSettled DEF Is
<1>2. Inv /\ [Next]_vars =>
        [\A i \in Item : Is(i, {"sent"}) => row'[i].status \in {"sent", "removed"}]_vars
  <2>1. Inv => \A i \in Item : Is(i, {"sent"}) => ~InFlight(i)
    BY DEF Inv, DeliveryInv, Is, InFlight
  <2> QED BY <2>1, SettledStaysSettled DEF Is
<1> QED
  BY <1>1, <1>2, DeliveryIsKnown, PTL DEF Spec, CancelledWhileIdleStaysUnsent, SentIsFinal

(***************************************************************************)
(* How often a message is tried.                                           *)
(***************************************************************************)

\* The worker takes a message up once, again for each retry of its budget, and
\* again for each command of the user and each stop of the program, which are
\* the only things that put a row back without looking at the budget.
TriesAreBounded ==
  \A i \in Item : row[i].attempts <= MaxRetries + 1 + touches[i] + stops

\* The stops a dispatch under way does not survive are counted once it is gone.
Over == IF app = "quitting" THEN stops - 1 ELSE stops

Allowed(i) == MaxRetries + touches[i] + Over

\* A snapshot row has not been tried since the snapshot, the row in hand was
\* tried once since; a row that will be tried again has a try left.
TryInv ==
  /\ app = "quitting" => stops > 0
  /\ item \notin due
  /\ \A i \in Item :
       /\ i \in due => snap[i] = row[i].attempts
       /\ InFlight(i) => row[i].attempts = snap[i] + 1
       /\ Is(i, {"none"}) => row[i].attempts = 0
       /\ row[i].attempts <= Allowed(i) + 1
       /\ Is(i, {"queued"}) => row[i].attempts <= Allowed(i)
       /\ Is(i, {"sending"}) /\ ~InFlight(i) => row[i].attempts <= Allowed(i)

\* What a step leaves alone, it keeps.
LEMMA SameTries ==
  ASSUME Inv, TryInv, row' \in [Item -> Row],
         \A i \in Item : /\ row'[i].attempts = row[i].attempts
                         /\ row'[i].status \in {row[i].status, "canceled", "failed",
                                                "sent", "removed"}
                         /\ touches'[i] = touches[i],
         UNCHANGED <<app, phase, due, snap, item, stops>>
  PROVE  TryInv'
BY DEF TryInv, Allowed, Over, InFlight, Is, Inv, TypeOK, Row

\* The user's commands put rows back, and are counted when they do.
LEMMA UserKeepsTries ==
  ASSUME Inv, TryInv, User, Inv'
  PROVE  TryInv'
<1>0. row \in [Item -> Row] /\ row' \in [Item -> Row]
  BY DEF Inv, TypeOK
<1>1. ASSUME NEW i \in Item, NEW now \in BOOLEAN, Enqueue(i, now)
      PROVE  TryInv'
  <2>1. /\ \A j \in Item : j # i => row'[j] = row[j]
        /\ row[i].status = "none" /\ row'[i].status = "queued" /\ row'[i].attempts = 0
        /\ UNCHANGED <<app, phase, due, snap, item, stops, touches>>
    BY <1>0, <1>1 DEF Enqueue, Is, worker, bounds
  <2>2. row[i].attempts = 0 /\ ~InFlight(i)
    BY <2>1 DEF TryInv, Inv, DeliveryInv, InFlight, Is
  <2> QED BY <1>0, <2>1, <2>2 DEF TryInv, Allowed, Over, InFlight, Is, Inv, TypeOK, Row
<1>2. ASSUME NEW i \in Item, NEW now \in BOOLEAN, Reschedule(i, now)
      PROVE  TryInv'
  <2>1. /\ \A j \in Item : j # i => row'[j] = row[j] /\ touches'[j] = touches[j]
        /\ row'[i].status = "queued" /\ row'[i].attempts = row[i].attempts
        /\ touches'[i] = touches[i] + 1 /\ touches[i] \in Nat
        /\ UNCHANGED <<app, phase, due, snap, item, stops>>
    BY <1>0, <1>2 DEF Reschedule, Rescheduled, Reschedulable, Inv, TypeOK, worker
  <2> QED BY <1>0, <2>1 DEF TryInv, Allowed, Over, InFlight, Is, Inv, TypeOK, Row
<1>3. ASSUME NEW i \in Item, Cancel(i) PROVE TryInv'
  <2>1. /\ \A j \in Item : j # i => row'[j] = row[j]
        /\ row'[i].status = "canceled" /\ row'[i].attempts = row[i].attempts
    BY <1>0, <1>3 DEF Cancel, Set, Row
  <2> QED BY <1>0, <1>3, <2>1, SameTries DEF Cancel, worker, bounds
<1>4. CASE RemoveAccount
  <2>1. \A j \in Item : /\ row'[j].attempts = row[j].attempts
                        /\ row'[j].status \in {row[j].status, "removed"}
    BY <1>0, <1>4 DEF RemoveAccount, Row
  <2> QED BY <1>0, <1>4, <2>1, SameTries DEF RemoveAccount, worker, bounds
<1> QED BY <1>1, <1>2, <1>3, <1>4 DEF User

\* A row that was left behind has the stop that left it behind for a try.
LEMMA StartPassKeepsTries ==
  ASSUME Inv, TryInv, StartPass, Inv'
  PROVE  TryInv'
<1>0. row \in [Item -> Row] /\ row' \in [Item -> Row]
  BY DEF Inv, TypeOK
<1>1. /\ \A i \in Item : row'[i] = Recovered(i)
      /\ phase = "off" /\ phase' = "loop" /\ item = NoItem
      /\ snap' = [i \in Item |-> IF i \in due' THEN row[i].attempts ELSE 0]
      /\ due' \subseteq Item
      /\ UNCHANGED <<app, item, stops, touches>>
  BY DEF StartPass, Inv, TypeOK, DeliveryInv, bounds
<1>2. \A i \in Item :
        /\ row'[i].attempts = row[i].attempts
        /\ \/ row'[i].status = row[i].status
           \/ row[i].status = "sending" /\ row'[i].status = "queued"
  <2> TAKE i \in Item
  <2>1. row'[i] = Recovered(i)
    BY <1>1
  <2>2. CASE Is(i, {"sending"}) /\ row[i].stale
    BY <2>1, <2>2 DEF Recovered, Is
  <2>3. CASE ~(Is(i, {"sending"}) /\ row[i].stale)
    BY <2>1, <2>3 DEF Recovered
  <2> QED BY <2>2, <2>3
<1> QED BY <1>0, <1>1, <1>2 DEF TryInv, Allowed, Over, InFlight, Is, Inv, TypeOK, Row

\* A dispatch ends, and leaves its row settled or with a try left.
LEMMA DispatchEndKeepsTries ==
  ASSUME Inv, TryInv, Inv', item \in Item, phase' = "loop", item' = NoItem,
         snap' = [snap EXCEPT ![item] = 0],
         app' = app, due' = due, stops' = stops, touches' = touches,
         \A j \in Item : j # item => row'[j] = row[j],
         row'[item].attempts = row[item].attempts,
         \/ row'[item].status \in {"sent", "failed", "canceled", "removed"}
         \/ row'[item].status = "queued" /\ row[item].attempts <= Allowed(item)
  PROVE  TryInv'
<1>1. snap \in [Item -> Nat] /\ \A j \in Item : j # item => snap'[j] = snap[j]
  BY DEF Inv, TypeOK
<1>2. item \notin due
  BY DEF TryInv
<1>3. ASSUME NEW j \in Item, j # item
      PROVE  /\ row'[j] = row[j] /\ ~InFlight(j) /\ ~InFlight(j)'
             /\ j \in due' => snap'[j] = row'[j].attempts
  BY <1>1, <1>2, <1>3 DEF InFlight, TryInv
<1>4. \A j \in Item : Allowed(j)' = Allowed(j)
  BY DEF Allowed, Over
<1>5. item' \notin due'
  BY DEF Inv, TypeOK
<1>6. \A j \in Item : j = item => ~InFlight(j)' /\ j \notin due'
  BY <1>2 DEF InFlight
<1>7. row'[item].attempts <= Allowed(item) + 1
  BY DEF TryInv
<1> DEFINE Fine(j) ==
       /\ j \in due' => snap'[j] = row'[j].attempts
       /\ InFlight(j)' => row'[j].attempts = snap'[j] + 1
       /\ Is(j, {"none"})' => row'[j].attempts = 0
       /\ row'[j].attempts <= Allowed(j) + 1
       /\ Is(j, {"queued"})' => row'[j].attempts <= Allowed(j)
       /\ Is(j, {"sending"})' /\ ~InFlight(j)' => row'[j].attempts <= Allowed(j)
<1>8. ASSUME NEW j \in Item, j # item PROVE Fine(j)
  BY <1>3, <1>8 DEF TryInv, Is
<1>9. ASSUME NEW j \in Item, j = item PROVE Fine(j)
  BY <1>6, <1>7, <1>9 DEF Is
<1>10. \A j \in Item : Fine(j)
  <2> HIDE DEF Fine
  <2> QED BY <1>8, <1>9
<1>11. app' = "quitting" => stops' > 0
  BY DEF TryInv
<1> QED BY <1>4, <1>5, <1>10, <1>11 DEF TryInv

\* The worker retries within the budget it looked up in its snapshot.
LEMMA WorkKeepsTries ==
  ASSUME Inv, TryInv, Work, Inv'
  PROVE  TryInv'
<1>0. row \in [Item -> Row] /\ row' \in [Item -> Row]
  BY DEF Inv, TypeOK
<1>1. ASSUME NEW i \in Item, Skip(i) PROVE TryInv'
  <2>1. snap \in [Item -> Nat] /\ \A j \in Item : j # i => snap'[j] = snap[j]
    BY <1>1 DEF Skip, Inv, TypeOK
  <2>2. item = NoItem
    BY <1>1 DEF Skip, Inv, DeliveryInv
  <2> QED BY <1>1, <2>1, <2>2 DEF Skip, TryInv, Allowed, Over, InFlight, Is, bounds
<1>2. ASSUME NEW i \in Item, Claim(i) PROVE TryInv'
  <2>1. /\ \A j \in Item : j # i => row'[j] = row[j]
        /\ row[i].status = "queued" /\ row'[i].status = "sending"
        /\ row'[i].attempts = row[i].attempts + 1 /\ row[i].attempts \in Nat
        /\ i \in due /\ due' = due \ {i} /\ item = NoItem /\ item' = i
        /\ phase = "loop" /\ phase' = "smtp"
        /\ UNCHANGED <<app, snap, stops, touches>>
    BY <1>0, <1>2 DEF Claim, Is, Row, bounds, Inv, DeliveryInv
  <2> QED BY <1>0, <2>1 DEF TryInv, Allowed, Over, InFlight, Is, Inv, TypeOK, Row
<1>4. CASE SendOk
  <2>0. item \in Item
    BY <1>4 DEF SendOk, Inv, TypeOK, DeliveryInv
  <2>1. /\ \A j \in Item : j # item => row'[j] = row[j]
        /\ row'[item].status \in {"sent", "removed"}
        /\ row'[item].attempts = row[item].attempts
    BY <1>0, <1>4, <2>0 DEF SendOk, MarkSent, Set, Row, Is, Inv, DeliveryInv
  <2>2. CASE NextRow
    BY <1>4, <2>0, <2>1, <2>2, DispatchEndKeepsTries DEF SendOk, NextRow, bounds
  <2>3. CASE phase' = "archive" /\ UNCHANGED <<item, dials, snap>>
    <3>1. \A j \in Item : ~InFlight(j)'
      BY <2>3 DEF InFlight
    <3> QED BY <1>0, <1>4, <2>0, <2>1, <2>3, <3>1
            DEF SendOk, bounds, TryInv, Allowed, Over, InFlight, Is
  <2> QED BY <1>4, <2>2, <2>3 DEF SendOk
<1>5. CASE SendTransient
  <2>0. item \in Item /\ InFlight(item)
    BY <1>5 DEF SendTransient, Inv, TypeOK, DeliveryInv, InFlight
  <2>1. CASE snap[item] < MaxRetries
    <3>1. row' = Rescheduled(item, FALSE)
      BY <1>5, <2>1 DEF SendTransient
    <3>2. /\ \A j \in Item : j # item => row'[j] = row[j]
          /\ row'[item].status \in {"queued", "canceled", "removed"}
          /\ row'[item].attempts = row[item].attempts
      BY <1>0, <1>5, <2>0, <3>1
         DEF Rescheduled, Reschedulable, Row, Is, Inv, DeliveryInv, Status, InFlight
    <3>3. row[item].attempts = snap[item] + 1 /\ snap[item] \in Nat
      BY <2>0 DEF TryInv, Inv, TypeOK
    <3>4. Over \in Nat /\ touches[item] \in Nat
      BY <2>0 DEF Over, TryInv, Inv, TypeOK
    <3>5. row[item].attempts <= Allowed(item)
      BY <2>1, <3>3, <3>4 DEF Allowed
    <3> QED BY <1>5, <2>0, <3>2, <3>5, DispatchEndKeepsTries
           DEF SendTransient, NextRow, bounds
  <2>2. CASE ~(snap[item] < MaxRetries)
    <3>1. row' = MarkFailed(item)
      BY <1>5, <2>2 DEF SendTransient
    <3>2. /\ \A j \in Item : j # item => row'[j] = row[j]
          /\ row'[item].status \in {"failed", "removed"}
          /\ row'[item].attempts = row[item].attempts
      BY <1>0, <1>5, <2>0, <3>1 DEF MarkFailed, Set, Row, Is, Inv, DeliveryInv, InFlight
    <3> QED BY <1>5, <2>0, <3>2, DispatchEndKeepsTries DEF SendTransient, NextRow, bounds
  <2> QED BY <2>1, <2>2
<1>6. CASE SendPermanent
  <2>0. item \in Item /\ InFlight(item)
    BY <1>6 DEF SendPermanent, Inv, TypeOK, DeliveryInv, InFlight
  <2>1. /\ \A j \in Item : j # item => row'[j] = row[j]
        /\ row'[item].status \in {"failed", "removed"}
        /\ row'[item].attempts = row[item].attempts
    BY <1>0, <1>6, <2>0 DEF SendPermanent, MarkFailed, Set, Row, Is, Inv, DeliveryInv, InFlight
  <2> QED BY <1>6, <2>0, <2>1, DispatchEndKeepsTries DEF SendPermanent, NextRow, bounds
<1>7. ASSUME NEW moved \in BOOLEAN, Archive(moved) PROVE TryInv'
  <2>0. item \in Item /\ row[item].status \in {"sent", "removed"}
    BY <1>7 DEF Archive, Inv, TypeOK, DeliveryInv, Is
  <2> QED BY <1>7, <2>0, DispatchEndKeepsTries DEF Archive, NextRow, bounds
<1>3. CASE EndPass
  BY <1>3 DEF EndPass, TryInv, Allowed, Over, InFlight, Is, bounds
<1> QED BY <1>1, <1>2, <1>3, <1>4, <1>5, <1>6, <1>7 DEF Work

\* The end of the process leaves the row in hand to the next recovery.
LEMMA OutsideKeepsTries ==
  ASSUME Inv, TryInv, Inv',
         \/ Accept \/ Redial \/ Quit \/ Exit \/ Start
         \/ \E i \in Item : TimeComes(i) \/ TwoMinutesPass(i)
  PROVE  TryInv'
<1>1. CASE Accept \/ Redial
  BY <1>1 DEF Accept, Redial, TryInv, Allowed, Over, InFlight, Is, bounds
<1>2. CASE Quit
  BY <1>2 DEF Quit, TryInv, Allowed, Over, InFlight, Is, worker, Inv, TypeOK
<1>3. CASE Start
  BY <1>3 DEF Start, TryInv, Allowed, Over, InFlight, Is, worker, bounds
<1>4. CASE Exit
  <2>1. /\ row' = row /\ touches' = touches /\ due' = {} /\ phase' = "off"
        /\ Over' = Over + 1 /\ Over \in Nat /\ app' = "down"
    BY <1>4 DEF Exit, Over, TryInv, Inv, TypeOK
  <2>2. \A i \in Item : /\ Allowed(i)' = Allowed(i) + 1 /\ Allowed(i) \in Nat
                        /\ row[i].attempts \in Nat
    BY <2>1 DEF Allowed, Inv, TypeOK, Row
  <2> QED BY <2>1, <2>2 DEF TryInv, InFlight, Is
<1>5. ASSUME NEW i \in Item, TimeComes(i) \/ TwoMinutesPass(i)
      PROVE  TryInv'
  <2>0. row \in [Item -> Row] /\ row' \in [Item -> Row]
    BY DEF Inv, TypeOK
  <2>1. \A j \in Item : row'[j].status = row[j].status /\ row'[j].attempts = row[j].attempts
    BY <1>5, <2>0 DEF TimeComes, TwoMinutesPass, Row
  <2> QED BY <1>5, <2>0, <2>1, SameTries DEF TimeComes, TwoMinutesPass, worker, bounds
<1> QED BY <1>1, <1>2, <1>3, <1>4, <1>5

\* For any messages, retry budget, commands and stops: the number of times a
\* message is taken up is bounded, so no failure keeps the worker dialing.
THEOREM TriesEnd == Spec => []TriesAreBounded
<1>1. Init => TryInv
  BY DEF Init, TryInv, Allowed, Over, InFlight, Is
<1>2. Inv /\ Inv' /\ TryInv /\ [Next]_vars => TryInv'
  <2>1. ASSUME TryInv, UNCHANGED vars PROVE TryInv'
    BY <2>1 DEF vars, worker, bounds, TryInv, Allowed, Over, InFlight, Is
  <2> QED
    BY <2>1, UserKeepsTries, StartPassKeepsTries, WorkKeepsTries, OutsideKeepsTries DEF Next
<1>3. Inv /\ TryInv => TriesAreBounded
  <2> SUFFICES ASSUME Inv, TryInv, NEW i \in Item
               PROVE  row[i].attempts <= MaxRetries + 1 + touches[i] + stops
    BY DEF TriesAreBounded
  <2>1. /\ touches[i] \in Nat /\ stops \in Nat /\ Over \in Int /\ Over <= stops
        /\ row[i].attempts \in Nat
    BY DEF Inv, TypeOK, Over, Row
  <2> QED BY <2>1 DEF TryInv, Allowed
<1> QED BY <1>1, <1>2, <1>3, DeliveryIsKnown, PTL DEF Spec

(***************************************************************************)
(* The outbox does what Outbox promises                                    *)
(***************************************************************************)

\* The hand is empty except during a dispatch.
LEMMA HandIsItem ==
  ASSUME Inv
  PROVE  /\ Hand # NoItem <=> phase \in {"smtp", "accepted"}
         /\ phase \in {"smtp", "accepted"} =>
              /\ Hand = item /\ item \in Item /\ Stage[item] # "failed"
              /\ Stage[item] = row[item].status \/ Stage[item] = "waiting"
              /\ Stage[item] = "removed" <=> Is(item, {"removed"})
<1>1. phase \in {"smtp", "accepted"} => item \in Item
  BY DEF Inv, TypeOK, DeliveryInv
<1> QED BY <1>1 DEF Inv, DeliveryInv, Hand, Stage, Is

\* A step that changes the status of one row changes one stage, and one that
\* changes none changes none.
LEMMA OneStage ==
  ASSUME NEW i \in Item, \A j \in Item : j # i => row'[j].status = row[j].status
  PROVE  Stage' = [Stage EXCEPT ![i] = Stage'[i]]
<1>1. \A j \in Item : j # i => Stage'[j] = Stage[j]
  BY DEF Stage, Is
<1>2. DOMAIN Stage = Item /\ DOMAIN Stage' = Item
  BY DEF Stage
<1>3. Stage' = [j \in Item |-> Stage'[j]] /\ Stage = [j \in Item |-> Stage[j]]
  BY DEF Stage
<1> HIDE DEF Stage
<1> QED BY <1>1, <1>2, <1>3

LEMMA SameStage ==
  ASSUME \A j \in Item :
           \/ row'[j].status = row[j].status
           \/ Is(j, {"queued", "sending"}) /\ Is(j, {"queued", "sending"})'
  PROVE  Stage' = Stage
BY DEF Stage, Is

\* A lost connection takes the copy it may have delivered with it.
LEMMA UnlearnedIsNone ==
  ASSUME Inv, phase \in {"smtp", "accepted"}
  PROVE  Unlearned = [copies EXCEPT ![item] = 0]
<1>1. copies \in [Item -> Nat] /\ item \in Item
  BY DEF Inv, TypeOK, DeliveryInv
<1>2. CASE phase = "smtp"
  <2>1. copies[item] = 0 /\ Unlearned = copies
    BY <1>2 DEF Unlearned, Inv, DeliveryInv
  <2> QED BY <1>1, <2>1
<1>3. CASE phase = "accepted"
  <2>1. copies[item] - 1 = 0 /\ Unlearned = [copies EXCEPT ![item] = @ - 1]
    BY <1>3 DEF Unlearned, Inv, DeliveryInv
  <2> QED BY <1>1, <2>1
<1> QED BY <1>2, <1>3

\* The rows of Init are all in the first stage.
LEMMA InitImplements == Init => Promised!Init
BY DEF Init, Promised!Init, Stage, Hand, Is

\* The user's commands are moves of one message, or clear the outbox.
LEMMA UserImplements ==
  ASSUME Inv, User
  PROVE  Promised!Next \/ UNCHANGED Promised!vars
<1>0. row \in [Item -> Row]
  BY DEF Inv, TypeOK
<1>1. Hand' = Hand /\ copies' = copies
  BY DEF User, Enqueue, Reschedule, Cancel, RemoveAccount, Hand, worker
<1>2. ASSUME NEW i \in Item, NEW now \in BOOLEAN, Enqueue(i, now)
      PROVE  Promised!Put(i)
  <2>1. /\ \A j \in Item : j # i => row'[j] = row[j]
        /\ row[i].status = "none" /\ row'[i].status = "queued"
    BY <1>0, <1>2 DEF Enqueue, Is
  <2>2. Stage[i] = "none" /\ Stage'[i] = "waiting"
    BY <2>1 DEF Stage, Is
  <2>3. Stage' = [Stage EXCEPT ![i] = "waiting"]
    BY <2>1, <2>2, OneStage
  <2> QED BY <1>1, <2>2, <2>3 DEF Promised!Put, Promised!Moves
<1>3. ASSUME NEW i \in Item, NEW now \in BOOLEAN, Reschedule(i, now)
      PROVE  Promised!Again(i) \/ UNCHANGED Promised!vars
  <2>1. /\ \A j \in Item : j # i => row'[j] = row[j]
        /\ row[i].status \in {"queued", "sending", "failed"}
        /\ row'[i].status = "queued"
    BY <1>0, <1>3 DEF Reschedule, Rescheduled, Reschedulable, Is
  <2>2. CASE row[i].status = "failed"
    <3>1. Stage[i] = "failed" /\ Stage'[i] = "waiting"
      BY <2>1, <2>2 DEF Stage, Is
    <3>2. Stage' = [Stage EXCEPT ![i] = "waiting"]
      BY <2>1, <3>1, OneStage
    <3> QED BY <1>1, <3>1, <3>2 DEF Promised!Again, Promised!Moves
  <2>3. CASE row[i].status # "failed"
    <3>1. Stage' = Stage
      BY <2>1, <2>3, SameStage DEF Is
    <3> QED BY <1>1, <3>1 DEF Promised!vars
  <2> QED BY <2>2, <2>3
<1>4. ASSUME NEW i \in Item, Cancel(i)
      PROVE  Promised!TakeBack(i)
  <2>1. /\ \A j \in Item : j # i => row'[j] = row[j]
        /\ row[i].status \in {"queued", "failed"}
        /\ row'[i].status = "canceled"
    BY <1>0, <1>4 DEF Cancel, Set, Is, Row
  <2>2. Stage[i] \in {"waiting", "failed"} /\ Stage'[i] = "canceled"
    BY <2>1 DEF Stage, Is
  <2>3. Stage' = [Stage EXCEPT ![i] = "canceled"]
    BY <2>1, <2>2, OneStage
  <2> QED BY <1>1, <2>2, <2>3 DEF Promised!TakeBack, Promised!Moves
<1>5. ASSUME RemoveAccount
      PROVE  Promised!Clear
  <2>1. \A i \in Item :
          row'[i].status = IF row[i].status = "none" THEN "none" ELSE "removed"
    BY <1>0, <1>5 DEF RemoveAccount, Is, Row
  <2>2. Stage' = [i \in Item |-> IF Stage[i] = "none" THEN "none" ELSE "removed"]
    BY <2>1 DEF Stage, Is
  <2> QED BY <1>1, <2>2 DEF Promised!Clear
<1> QED BY <1>2, <1>3, <1>4, <1>5 DEF User, Promised!Next

\* A claim takes up a waiting message; the end of a dispatch confirms it or
\* lays it down; the rest of the worker's steps do not show.
LEMMA WorkImplements ==
  ASSUME Inv, Work, Inv'
  PROVE  Promised!Next \/ UNCHANGED Promised!vars
<1>0. row \in [Item -> Row] /\ copies \in [Item -> Nat]
  BY DEF Inv, TypeOK
<1>1. ASSUME NEW i \in Item, Claim(i)
      PROVE  Promised!TakeUp(i)
  <2>1. /\ \A j \in Item : j # i => row'[j] = row[j]
        /\ row[i].status = "queued" /\ row'[i].status = "sending"
    BY <1>0, <1>1 DEF Claim, Is
  <2>2. Stage' = Stage
    BY <2>1, SameStage DEF Is
  <2>3. Stage[i] = "waiting"
    BY <2>1 DEF Stage, Is
  <2>4. Hand = NoItem /\ Hand' = i /\ copies' = copies
    BY <1>1 DEF Claim, Hand
  <2> QED BY <2>2, <2>3, <2>4 DEF Promised!TakeUp
<1>2. CASE SendOk
  <2>1. /\ Hand = item /\ Hand # NoItem /\ item \in Item /\ copies[item] = 1
        /\ Stage[item] = "removed" <=> Is(item, {"removed"})
    BY <1>2, HandIsItem DEF SendOk, Inv, DeliveryInv
  <2>2. Hand' = NoItem /\ copies' = copies
    BY <1>2 DEF SendOk, NextRow, Hand
  <2>3. /\ \A j \in Item : j # item => row'[j] = row[j]
        /\ IF Is(item, {"removed"}) THEN row' = row
                                    ELSE row'[item].status = "sent"
    BY <1>0, <1>2, <2>1 DEF SendOk, MarkSent, Set, Row, Is, Inv, DeliveryInv
  <2>4. CASE Is(item, {"removed"})
    <3>1. Stage' = Stage
      BY <2>3, <2>4, SameStage
    <3> QED BY <2>1, <2>2, <2>4, <3>1
            DEF Promised!Next, Promised!Confirm, Promised!LayDown
  <2>5. CASE ~Is(item, {"removed"})
    <3>1. Stage'[item] = "sent"
      BY <2>1, <2>3, <2>5 DEF Stage, Is
    <3>2. Stage' = [Stage EXCEPT ![item] = "sent"]
      BY <2>1, <2>3, <3>1, OneStage
    <3> QED BY <2>1, <2>2, <2>5, <3>2
            DEF Promised!Next, Promised!Confirm, Promised!LayDown
  <2> QED BY <2>4, <2>5
<1>3. CASE SendTransient \/ SendPermanent
  <2>1. /\ Hand = item /\ Hand # NoItem /\ item \in Item
        /\ Stage[item] = "removed" <=> Is(item, {"removed"})
        /\ Stage[item] # "failed"
    BY <1>3, HandIsItem DEF SendTransient, SendPermanent
  <2>2. Hand' = NoItem
    BY <1>3 DEF SendTransient, SendPermanent, NextRow, Hand
  <2>3. copies' = [copies EXCEPT ![item] = 0]
    BY <1>3, UnlearnedIsNone DEF SendTransient, SendPermanent
  <2>4. row' = Rescheduled(item, FALSE) \/ row' = MarkFailed(item)
    BY <1>3 DEF SendTransient, SendPermanent
  <2>5. CASE row' = Rescheduled(item, FALSE)
    <3>1. Stage' = Stage
      <4>1. CASE Is(item, {"queued", "sending"})
        <5>1. /\ \A j \in Item : j # item => row'[j] = row[j]
              /\ row'[item].status = "queued"
          BY <1>0, <2>1, <2>5, <4>1 DEF Rescheduled, Reschedulable, Is
        <5> QED BY <4>1, <5>1, SameStage DEF Is
      <4>2. CASE ~Is(item, {"queued", "sending"})
        <5>1. ~Is(item, {"failed"})
          BY <2>1, <4>2 DEF Stage, Is
        <5>2. row' = row
          BY <2>5, <4>2, <5>1 DEF Rescheduled, Reschedulable, Is
        <5> QED BY <5>2, SameStage
      <4> QED BY <4>1, <4>2
    <3>2. Stage = [Stage EXCEPT ![item] = Stage[item]]
      BY DEF Stage
    <3> QED BY <2>1, <2>2, <2>3, <3>1, <3>2
            DEF Promised!Next, Promised!Fail, Promised!LayDown
  <2>6. CASE row' = MarkFailed(item)
    <3>1. CASE Is(item, {"removed"})
      <4>1. row' = row
        BY <2>6, <3>1 DEF MarkFailed, Is
      <4>2. Stage' = Stage
        BY <4>1, SameStage
      <4> QED BY <2>1, <2>2, <2>3, <3>1, <4>2
              DEF Promised!Next, Promised!Fail, Promised!LayDown
    <3>2. CASE ~Is(item, {"removed"})
      <4>1. /\ \A j \in Item : j # item => row'[j] = row[j]
            /\ row'[item].status = "failed"
        <5>1. ~Is(item, {"none", "removed"})
          BY <1>3, <3>2 DEF SendTransient, SendPermanent, Is, Inv, DeliveryInv
        <5>2. row' = Set(item, "failed")
          BY <2>6, <5>1 DEF MarkFailed
        <5> QED BY <1>0, <2>1, <5>2 DEF Set, Row
      <4>2. Stage'[item] = "failed"
        BY <2>1, <4>1 DEF Stage, Is
      <4>3. Stage' = [Stage EXCEPT ![item] = "failed"]
        BY <2>1, <4>1, <4>2, OneStage
      <4> QED BY <2>1, <2>2, <2>3, <3>2, <4>3
              DEF Promised!Next, Promised!Fail, Promised!LayDown
    <3> QED BY <3>1, <3>2
  <2> QED BY <2>4, <2>5, <2>6
<1>4. CASE \/ \E i \in Item : Skip(i)
           \/ \E moved \in BOOLEAN : Archive(moved)
           \/ EndPass
  <2>1. row' = row /\ copies' = copies /\ Hand' = Hand
    BY <1>4 DEF Skip, Archive, EndPass, NextRow, Hand
  <2> QED BY <2>1, SameStage DEF Promised!vars
<1> QED BY <1>1, <1>2, <1>3, <1>4 DEF Work, Promised!Next

\* The server's steps, the clocks, and the end of the process.
LEMMA OutsideImplements ==
  ASSUME Inv,
         \/ StartPass \/ Accept \/ Redial \/ Quit \/ Exit \/ Start
         \/ \E i \in Item : TimeComes(i) \/ TwoMinutesPass(i)
  PROVE  Promised!Next \/ UNCHANGED Promised!vars
<1>0. row \in [Item -> Row] /\ copies \in [Item -> Nat]
  BY DEF Inv, TypeOK
<1>1. CASE StartPass
  <2>1. \A j \in Item : row'[j] = Recovered(j)
    BY <1>1 DEF StartPass
  <2>2. Stage' = Stage
    <3>1. \A j \in Item :
            \/ row'[j].status = row[j].status
            \/ row[j].status = "sending" /\ row'[j].status = "queued"
      <4> TAKE j \in Item
      <4>0. row'[j] = Recovered(j)
        BY <2>1
      <4>1. CASE Is(j, {"sending"}) /\ row[j].stale
        BY <4>0, <4>1 DEF Recovered, Is
      <4>2. CASE ~(Is(j, {"sending"}) /\ row[j].stale)
        BY <4>0, <4>2 DEF Recovered
      <4> QED BY <4>1, <4>2
    <3> QED BY <3>1, SameStage DEF Is
  <2>3. Hand' = Hand /\ copies' = copies
    BY <1>1 DEF StartPass, Hand
  <2> QED BY <2>2, <2>3 DEF Promised!vars
<1>2. CASE Accept
  <2>1. /\ Hand = item /\ Hand # NoItem /\ item \in Item /\ copies[item] = 0
    BY <1>2, HandIsItem DEF Accept, Inv, DeliveryInv
  <2>2. Hand' = Hand /\ row' = row /\ copies' = [copies EXCEPT ![item] = 1]
    BY <1>0, <1>2, <2>1 DEF Accept, Hand
  <2> QED BY <2>1, <2>2, SameStage DEF Promised!Next, Promised!Deliver
<1>3. CASE Redial
  <2>1. /\ Hand = item /\ Hand # NoItem /\ item \in Item
    BY <1>3, HandIsItem DEF Redial
  <2>2. Hand' = Hand /\ row' = row
    BY <1>3 DEF Redial, Hand
  <2>3. copies' = [copies EXCEPT ![item] = 0]
    BY <1>3, UnlearnedIsNone DEF Redial
  <2> QED BY <2>1, <2>2, <2>3, SameStage DEF Promised!Next, Promised!Redial
<1>4. CASE Exit
  <2>1. Hand' = NoItem /\ row' = row
    BY <1>4 DEF Exit, Hand
  <2>2. CASE phase \in {"smtp", "accepted"}
    <3>1. /\ Hand = item /\ Hand # NoItem /\ item \in Item
      BY <2>2, HandIsItem
    <3>2. copies' = [copies EXCEPT ![item] = 0]
      BY <1>4, <2>2, UnlearnedIsNone DEF Exit
    <3>3. Stage' = Stage /\ Stage = [Stage EXCEPT ![item] = Stage[item]]
      BY <2>1, SameStage DEF Stage
    <3> QED BY <2>1, <3>1, <3>2, <3>3
            DEF Promised!Next, Promised!Fail, Promised!LayDown
  <2>3. CASE phase \notin {"smtp", "accepted"}
    <3>1. copies' = copies /\ Hand = NoItem
      BY <1>4, <2>3 DEF Exit, Unlearned, Hand
    <3> QED BY <2>1, <3>1, SameStage DEF Promised!vars
  <2> QED BY <2>2, <2>3
<1>5. CASE Quit \/ Start
  <2>1. row' = row /\ copies' = copies /\ Hand' = Hand
    BY <1>5 DEF Quit, Start, worker, Hand
  <2> QED BY <2>1, SameStage DEF Promised!vars
<1>6. ASSUME NEW i \in Item, TimeComes(i) \/ TwoMinutesPass(i)
      PROVE  UNCHANGED Promised!vars
  <2>1. \A j \in Item : row'[j].status = row[j].status
    BY <1>0, <1>6 DEF TimeComes, TwoMinutesPass, Row
  <2>2. copies' = copies /\ Hand' = Hand
    BY <1>6 DEF TimeComes, TwoMinutesPass, worker, Hand
  <2> QED BY <2>1, <2>2, SameStage DEF Promised!vars
<1> QED BY <1>1, <1>2, <1>3, <1>4, <1>5, <1>6

\* For any messages, retry budget, batch size, commands and stops: every step
\* of the table, the worker and the user is a step of the promised outbox or
\* does not show in it.
THEOREM OutboxIsImplemented == Spec => ImplementsOutbox
<1>1. Inv /\ Inv' /\ [Next]_vars => [Promised!Next]_(Promised!vars)
  <2> SUFFICES ASSUME Inv, Inv', [Next]_vars
               PROVE  Promised!Next \/ UNCHANGED Promised!vars
    OBVIOUS
  <2>1. CASE UNCHANGED vars
    BY <2>1, SameStage DEF vars, worker, Hand, Promised!vars
  <2> QED BY <2>1, UserImplements, WorkImplements, OutsideImplements DEF Next
<1> QED
  BY <1>1, InitImplements, DeliveryIsKnown, PTL
  DEF Spec, ImplementsOutbox, Promised!Spec
=============================================================================
