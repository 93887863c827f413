----------------------------- MODULE SendQueue -----------------------------
(***************************************************************************)
(* The outbox: the send_queue table (packages/db/index.ts), the worker     *)
(* that drains it (processSendQueue in electron/main.ts) and the user's    *)
(* commands on it (the mail:scheduleSend, mail:cancelSend,                 *)
(* mail:queueSendNow and mail:queueReschedule handlers).                   *)
(*                                                                         *)
(* The database survives a crash, the worker does not.  Every SQL          *)
(* statement is one step; the worker's SMTP dialogue is split at the       *)
(* moment the server accepts the message, because everything the code can  *)
(* get wrong about delivery lies around that moment.                       *)
(*                                                                         *)
(* Clock values are abstracted to the two questions the code asks of them: *)
(* has send_at passed (`due`), and was the row touched more than two       *)
(* minutes ago (`stale`).                                                  *)
(***************************************************************************)
EXTENDS Integers, FiniteSets

CONSTANTS
  Item,          \* queue ids (random UUIDs, never reused)
  Archiving,     \* the items queued by Send & Archive
  NoItem,
  MaxRetries,    \* transient failures that are retried (5 in the code)
  Batch,         \* rows one pass takes from the table (20 in the code)
  MaxDials,      \* SMTP connections one dispatch may make (timeout fallbacks)
  MaxStops,      \* bound: crashes and quits
  MaxTouches     \* bound: send-now and reschedule commands per item

ASSUME BoundsAssumption ==
  /\ MaxRetries \in Nat /\ Batch \in Nat \ {0} /\ MaxDials \in Nat \ {0}
  /\ MaxStops \in Nat /\ MaxTouches \in Nat
ASSUME ItemAssumption == Archiving \subseteq Item /\ NoItem \notin Item

VARIABLES
  row,        \* the send_queue table
  app,        \* "up", "quitting" (shuttingDown), "down"
  phase,      \* the worker: "off", "loop", "smtp", "accepted", "archive"
  due,        \* the rest of the worker's snapshot of due rows
  snap,       \* attemptCount of each row when the snapshot was taken
  item,       \* the row the worker dispatches
  dials,      \* SMTP connections made for it so far
  copies,     \* copies the server accepted, less those whose acceptance the
              \* worker had no way to learn
  archived,   \* originals moved to the archive after their reply was sent
  stops, touches \* bounded counters of stops and of user commands

worker == <<phase, due, snap, item, dials>>
bounds == <<stops, touches>>
vars == <<row, app, worker, copies, archived, bounds>>

Status == {"none", "queued", "sending", "sent", "failed", "canceled", "removed"}

Row == [status : Status, due : BOOLEAN, stale : BOOLEAN, attempts : Nat]

TypeOK ==
  /\ row \in [Item -> Row]
  /\ app \in {"up", "quitting", "down"}
  /\ phase \in {"off", "loop", "smtp", "accepted", "archive"}
  /\ due \subseteq Item
  /\ snap \in [Item -> Nat]
  /\ item \in Item \cup {NoItem}
  /\ dials \in Nat
  /\ copies \in [Item -> Nat]
  /\ archived \subseteq Item
  /\ stops \in Nat /\ touches \in [Item -> Nat]

Init ==
  /\ row = [i \in Item |->
       [status |-> "none", due |-> FALSE, stale |-> FALSE, attempts |-> 0]]
  /\ app = "up" /\ phase = "off" /\ due = {} /\ item = NoItem /\ dials = 0
  /\ snap = [i \in Item |-> 0]
  /\ copies = [i \in Item |-> 0]
  /\ archived = {} /\ stops = 0 /\ touches = [i \in Item |-> 0]

Is(i, statuses) == row[i].status \in statuses

-----------------------------------------------------------------------------
\* The statements on the table.  Each sets updated_at, so the row is fresh.

Set(i, status) == [row EXCEPT ![i].status = status, ![i].stale = FALSE]

\* Faulty variant: marks only a row that is still `sending`.
MarkSentIfSending(i) == IF Is(i, {"sending"}) THEN Set(i, "sent") ELSE row

\* markSendQueueSent and markSendQueueFailed look at the id and nothing else.
MarkSent(i) == IF Is(i, {"none", "removed"}) THEN row ELSE Set(i, "sent")
MarkFailed(i) == IF Is(i, {"none", "removed"}) THEN row ELSE Set(i, "failed")

Reschedulable(i) == Is(i, {"queued", "sending", "failed"})

\* Faulty variant: puts back a row in any status.
RescheduledAlways(i, now) ==
  [row EXCEPT ![i] = [status |-> "queued", due |-> now, stale |-> FALSE,
                      attempts |-> @.attempts]]

\* rescheduleSendQueue; `now` is whether the new send_at has passed already.
Rescheduled(i, now) ==
  IF Reschedulable(i)
  THEN [row EXCEPT ![i] = [status |-> "queued", due |-> now, stale |-> FALSE,
                           attempts |-> @.attempts]]
  ELSE row

\* Faulty variant: stuck rows are not recovered.
LeftBehind(i) == row[i]

\* The statement at the head of listDueSendQueue: a row that has been
\* `sending` for more than two minutes was left behind by a crash.
Recovered(i) ==
  IF Is(i, {"sending"}) /\ row[i].stale
  THEN [status |-> "queued", due |-> row[i].due, stale |-> FALSE,
        attempts |-> row[i].attempts]
  ELSE row[i]

-----------------------------------------------------------------------------
\* The user.  The outbox view disables its buttons for rows it shows as
\* `sending`, but it is not told about a claim (notifyQueueChanged comes when
\* the dispatch is over), so the handlers meet rows in any status.

\* Handlers run while the worker awaits something.  From one dispatch to the
\* next claim ("loop") it holds the only thread.
HandlersRun == app # "down" /\ phase # "loop"

Enqueue(i, now) ==
  /\ HandlersRun /\ Is(i, {"none"})
  /\ row' = [row EXCEPT ![i] =
       [status |-> "queued", due |-> now, stale |-> FALSE, attempts |-> 0]]
  /\ UNCHANGED <<app, worker, copies, archived, bounds>>

\* mail:queueSendNow (now) and mail:queueReschedule (a later time).
Reschedule(i, now) ==
  /\ HandlersRun /\ Reschedulable(i)
  /\ touches[i] < MaxTouches
  /\ touches' = [touches EXCEPT ![i] = @ + 1]
  /\ row' = Rescheduled(i, now)
  /\ UNCHANGED <<app, worker, copies, archived, stops>>

\* mail:cancelSend, also behind the undo-send bar.
Cancel(i) ==
  /\ HandlersRun /\ Is(i, {"queued", "failed"})
  /\ row' = Set(i, "canceled")
  /\ UNCHANGED <<app, worker, copies, archived, bounds>>

\* deleteAccount removes the account's rows, also under a running dispatch.
RemoveAccount ==
  /\ HandlersRun
  /\ \E i \in Item : ~Is(i, {"none", "removed"})
  /\ row' = [i \in Item |-> IF Is(i, {"none"}) THEN row[i]
                            ELSE [row[i] EXCEPT !.status = "removed"]]
  /\ UNCHANGED <<app, worker, copies, archived, bounds>>

-----------------------------------------------------------------------------
\* The worker.

\* processSendQueue starts a pass, from the poll timer or from a handler:
\* recover stuck rows, then snapshot at most Batch due ones.
StartPass ==
  LET table == [i \in Item |-> Recovered(i)]
      ready == {i \in Item : table[i].status = "queued" /\ table[i].due}
  IN
  /\ app = "up" /\ phase = "off"
  /\ phase' = "loop"
  /\ row' = table
  /\ \E some \in SUBSET ready :
       /\ IF Cardinality(ready) <= Batch THEN some = ready
                                         ELSE Cardinality(some) = Batch
       /\ due' = some
  /\ snap' = [i \in Item |-> IF i \in due' THEN row[i].attempts ELSE 0]
  /\ UNCHANGED <<app, item, dials, copies, archived, bounds>>

\* The claim fails: the row is no longer queued.
Skip(i) ==
  /\ phase = "loop" /\ i \in due /\ ~Is(i, {"queued"})
  /\ due' = due \ {i}
  /\ snap' = [snap EXCEPT ![i] = 0]
  /\ UNCHANGED <<row, app, phase, item, dials, copies, archived, bounds>>

\* Faulty variant: claims every row of the snapshot.
ClaimAny(i) ==
  /\ phase = "loop" /\ i \in due
  /\ due' = due \ {i}
  /\ row' = [row EXCEPT ![i] = [status |-> "sending", due |-> @.due, stale |-> FALSE,
                                attempts |-> @.attempts + 1]]
  /\ phase' = "smtp" /\ item' = i /\ dials' = 1
  /\ UNCHANGED <<app, snap, copies, archived, bounds>>

\* markSendQueueSending claims the row and the dispatch begins.
Claim(i) ==
  /\ phase = "loop" /\ i \in due /\ Is(i, {"queued"})
  /\ due' = due \ {i}
  /\ row' = [row EXCEPT ![i] = [status |-> "sending", due |-> @.due, stale |-> FALSE,
                                attempts |-> @.attempts + 1]]
  /\ phase' = "smtp" /\ item' = i /\ dials' = 1
  /\ UNCHANGED <<app, snap, copies, archived, bounds>>

\* The server takes the message.
Accept ==
  /\ phase = "smtp"
  /\ phase' = "accepted"
  /\ copies' = [copies EXCEPT ![item] = @ + 1]
  /\ UNCHANGED <<row, app, due, snap, item, dials, archived, bounds>>

\* The worker cannot learn that the server took the message.
Unlearned == IF phase = "accepted" THEN [copies EXCEPT ![item] = @ - 1] ELSE copies

\* A timeout: sendMail tries another address, the caller another port.
Redial ==
  /\ phase \in {"smtp", "accepted"} /\ dials < MaxDials
  /\ dials' = dials + 1
  /\ phase' = "smtp"
  /\ copies' = Unlearned
  /\ UNCHANGED <<row, app, due, snap, item, archived, bounds>>

NextRow ==
  /\ phase' = "loop" /\ item' = NoItem /\ dials' = 0
  /\ snap' = [snap EXCEPT ![item] = 0]

\* Faulty variant: does not wait for the server's answer.
SendOkUnconfirmed ==
  /\ phase \in {"smtp", "accepted"}
  /\ row' = MarkSent(item)
  /\ NextRow
  /\ UNCHANGED <<app, due, copies, archived, bounds>>

\* The dispatch returned: mark the row sent, then archive if asked to.
SendOk ==
  /\ phase = "accepted"
  /\ row' = MarkSent(item)
  /\ IF item \in Archiving
     THEN phase' = "archive" /\ UNCHANGED <<item, dials, snap>>
     ELSE NextRow
  /\ UNCHANGED <<app, due, copies, archived, bounds>>

\* Send & Archive: the move of the original succeeds, or is given up.
Archive(moved) ==
  /\ phase = "archive"
  /\ archived' = IF moved THEN archived \cup {item} ELSE archived
  /\ NextRow
  /\ UNCHANGED <<row, app, due, copies, bounds>>

\* A 4xx answer or a network error; the connection may also break after the
\* server took the message.  The retry limit is checked on the snapshot.
SendTransient ==
  /\ phase \in {"smtp", "accepted"}
  /\ row' = IF snap[item] < MaxRetries THEN Rescheduled(item, FALSE)
                                       ELSE MarkFailed(item)
  /\ copies' = Unlearned
  /\ NextRow
  /\ UNCHANGED <<app, due, archived, bounds>>

\* A 5xx answer, an unreadable row, missing credentials; or the connection
\* breaks with an error that is not recognised as a network error.
SendPermanent ==
  /\ phase \in {"smtp", "accepted"}
  /\ row' = MarkFailed(item)
  /\ copies' = Unlearned
  /\ NextRow
  /\ UNCHANGED <<app, due, archived, bounds>>

EndPass ==
  /\ phase = "loop" /\ due = {}
  /\ phase' = "off"
  /\ UNCHANGED <<row, app, due, snap, item, dials, copies, archived, bounds>>

-----------------------------------------------------------------------------
\* Time and the process.

TimeComes(i) ==
  /\ Is(i, {"queued", "sending"}) /\ ~row[i].due
  /\ row' = [row EXCEPT ![i].due = TRUE]
  /\ UNCHANGED <<app, worker, copies, archived, bounds>>

TwoMinutesPass(i) ==
  /\ Is(i, {"sending"}) /\ ~row[i].stale
  /\ row' = [row EXCEPT ![i].stale = TRUE]
  /\ UNCHANGED <<app, worker, copies, archived, bounds>>

\* before-quit: no new pass starts, the running one is not waited for.
Quit ==
  /\ app = "up" /\ stops < MaxStops
  /\ app' = "quitting" /\ stops' = stops + 1
  /\ UNCHANGED <<row, worker, copies, archived, touches>>

\* The process ends, at the end of a quit or by a crash.
Exit ==
  /\ \/ app = "quitting" /\ UNCHANGED stops
     \/ app = "up" /\ stops < MaxStops /\ stops' = stops + 1
  /\ app' = "down" /\ phase' = "off" /\ due' = {} /\ item' = NoItem /\ dials' = 0
  /\ snap' = [i \in Item |-> 0]
  /\ copies' = Unlearned
  /\ UNCHANGED <<row, archived, touches>>

Start ==
  /\ app = "down" /\ app' = "up"
  /\ UNCHANGED <<row, worker, copies, archived, bounds>>

-----------------------------------------------------------------------------
Work ==
  \/ \E i \in Item : Claim(i) \/ Skip(i)
  \/ SendOk \/ SendTransient \/ SendPermanent
  \/ \E moved \in BOOLEAN : Archive(moved)
  \/ EndPass

User ==
  \/ \E i \in Item, now \in BOOLEAN : Enqueue(i, now) \/ Reschedule(i, now)
  \/ \E i \in Item : Cancel(i)
  \/ RemoveAccount

Next ==
  \/ User \/ StartPass \/ Work \/ Accept \/ Redial
  \/ \E i \in Item : TimeComes(i) \/ TwoMinutesPass(i)
  \/ Quit \/ Exit \/ Start

\* The poll timer keeps firing, every SMTP dialogue ends (connection,
\* greeting and socket timeouts), clocks run, a quit ends and the user
\* starts the program again.
Fairness ==
  /\ WF_vars(StartPass) /\ WF_vars(Work) /\ WF_vars(Start)
  /\ WF_vars(app = "quitting" /\ Exit)
  /\ \A i \in Item : WF_vars(TimeComes(i)) /\ WF_vars(TwoMinutesPass(i))

Spec == Init /\ [][Next]_vars /\ Fairness
-----------------------------------------------------------------------------
InFlight(i) == item = i /\ phase \in {"smtp", "accepted"}

\* Nobody gets a message twice except when the worker could not know that
\* the first copy arrived: the process died, or the connection broke, between
\* the server's acceptance and the row's `sent`.
NoDuplicateDelivery == \A i \in Item : copies[i] <= 1

\* The outbox never claims a delivery that did not happen, and no original
\* is archived for a reply that was not delivered.
SentWasDelivered ==
  \A i \in Item : Is(i, {"sent"}) \/ i \in archived => copies[i] = 1

\* A message that is cancelled while it is not being dispatched stays unsent,
\* even when the running pass has it in its snapshot.
CancelledWhileIdleStaysUnsent ==
  [][\A i \in Item :
       Is(i, {"canceled", "removed"}) /\ ~InFlight(i)
         => copies'[i] = copies[i] /\ row'[i].status \in {"canceled", "removed"}]_vars

\* A row marked sent is final: no recovery, retry or late command revives it.
SentIsFinal ==
  [][\A i \in Item : Is(i, {"sent"}) => row'[i].status \in {"sent", "removed"}]_vars

\* Nothing stays in the outbox forever, whatever crashes and failures come.
EveryMessageSettles ==
  \A i \in Item : Is(i, {"queued", "sending"})
    ~> Is(i, {"sent", "failed", "canceled", "removed"})

\* A cancellation that the handler confirmed means the message is not sent.
ConfirmedCancelHolds ==
  [][\A i \in Item : Is(i, {"canceled"}) => copies'[i] <= copies[i]]_vars

\* The refinement: a row that waits for its time, for a retry or for the end
\* of its dispatch is waiting, and the message is in hand until the server's
\* answer is written to the table.
Stage == [i \in Item |-> IF Is(i, {"queued", "sending"}) THEN "waiting"
                         ELSE row[i].status]

Hand == IF phase \in {"smtp", "accepted"} THEN item ELSE NoItem

Promised == INSTANCE Outbox WITH stage <- Stage, hand <- Hand

\* The table, the worker's snapshot and the late commands of the user add up
\* to an outbox that delivers once: every claim is of a waiting message, no
\* retry puts back what was cancelled or removed under it, and nothing is
\* reported sent on the strength of a copy the worker did not see accepted.
ImplementsOutbox == Promised!Spec
=============================================================================
