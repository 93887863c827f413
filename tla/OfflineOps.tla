----------------------------- MODULE OfflineOps -----------------------------
(***************************************************************************)
(* The queue of offline operations on one folder of one account: the       *)
(* offline_ops table (packages/db/index.ts), the net:setSeen, net:move and *)
(* sibling handlers that fill it (electron/main.ts) and the replays that   *)
(* drain it (electron/services/offlineReplay.ts).                          *)
(*                                                                         *)
(* Nothing keeps two replays of one account apart: going back online, the  *)
(* pre-IDLE hook, a header sync and the periodic sync each start one, so a *)
(* replay's snapshot of the table may be old in every way.                 *)
(*                                                                         *)
(* The server may renumber the folder (UIDVALIDITY) at any time; a uid then *)
(* names another message until a sync has emptied the cache.               *)
(*                                                                         *)
(* `server` is what the server holds of the messages in the cache, `want`  *)
(* the user's last wish about them and `excused` the wishes the code is    *)
(* known to drop or overwrite; the last two only serve the properties.     *)
(***************************************************************************)
EXTENDS Integers, FiniteSets

CONSTANTS
  Key,         \* the pairs <<uid, op type>> the user may make a change about
  Replay,      \* replays that can be under way at the same time
  MaxRetries,  \* MAX_REPLAY_RETRIES, 5 in the code
  MaxIntents,  \* bound: changes the user makes
  MaxValidity  \* bound: numberings the folder goes through

\* OP_ORDER, flags first, then moves, then deletes.
OpOrder == [flag_seen |-> 0, flag_flagged |-> 1, move |-> 2, delete |-> 3]
Removing == {"move", "delete"}

ASSUME KeyAssumption ==
  /\ IsFiniteSet(Key)
  /\ \A k \in Key : k = <<k[1], k[2]>> /\ k[2] \in DOMAIN OpOrder
ASSUME BoundsAssumption ==
  /\ MaxRetries \in Nat \ {0}
  /\ MaxIntents \in Nat /\ MaxValidity \in Nat \ {0}

VARIABLES
  ops,        \* the table: a row, or NoRow, per (uid, op_type)
  replay,     \* the replays
  server,     \* the server's flag, or whether the message was moved or deleted
  validity,   \* the server's UIDVALIDITY
  reports,    \* whether it reports that number
  known,      \* the UIDVALIDITY in sync_state; 0 when there is none
  view,       \* the UIDVALIDITY of the messages in the cache
  want, excused,
  intents     \* number of changes made, also the source of row ids

numbers == <<validity, reports, known, view>>
vars == <<ops, replay, server, numbers, want, excused, intents>>

\* An AUTOINCREMENT id; `set` is the payload of a flag op, TRUE for the others.
Row == [id : Nat \ {0}, set : BOOLEAN, validity : Nat, retries : Nat]
NoRow == [id |-> 0, set |-> FALSE, validity |-> 0, retries |-> 0]

\* An element of the array that getOfflineOps returned.
Op == [key : Key, id : Nat \ {0}, set : BOOLEAN, validity : Nat]

\* `todo` is what remains of the snapshot, `half` whether the current batch has
\* its first command behind it, `seen` the UIDVALIDITY the check was told.
ReplayState ==
  [at : {"idle", "check", "send"}, todo : SUBSET Op, half : BOOLEAN,
   seen : Nat]
Idle == [at |-> "idle", todo |-> {}, half |-> FALSE, seen |-> 0]

TypeOK ==
  /\ ops \in [Key -> Row \cup {NoRow}]
  /\ replay \in [Replay -> ReplayState]
  /\ server \in [Key -> BOOLEAN] /\ want \in [Key -> BOOLEAN]
  /\ validity \in Nat /\ known \in Nat /\ view \in Nat /\ reports \in BOOLEAN
  /\ excused \subseteq Key
  /\ intents \in Nat

Queued(k) == ops[k].id # 0

\* What getMailboxStatus and a sync are told.
Told == IF reports THEN validity ELSE 0

\* The folder has been synced, by a server that reports its number or does not.
Init ==
  /\ ops = [k \in Key |-> NoRow]
  /\ replay = [r \in Replay |-> Idle]
  /\ server = [k \in Key |-> FALSE] /\ want = server
  /\ validity = 1 /\ view = 1 /\ reports \in BOOLEAN
  /\ known = Told
  /\ excused = {}
  /\ intents = 0

-----------------------------------------------------------------------------
\* Statements on the table.

\* upsertOfflineOp: a second wish about the same message and kind replaces the
\* payload of the row and keeps its id, its retry_count and, when no `number`
\* is known, its UIDVALIDITY.
Upsert(k, set, number) ==
  [ops EXCEPT ![k] =
     IF Queued(k)
     THEN [id |-> @.id, set |-> set, retries |-> @.retries,
           validity |-> IF number # 0 THEN number ELSE @.validity]
     ELSE [id |-> intents + 1, set |-> set, retries |-> 0, validity |-> number]]

Without(keys) == [k \in Key |-> IF k \in keys THEN NoRow ELSE ops[k]]

RowsOf(batch) == {k \in Key : \E o \in batch : o.id = ops[k].id}

\* deleteOfflineOp for every op of a batch.
Done(batch) == Without(RowsOf(batch))

\* Faulty variants: the count goes down; no count; failure counts as success.
CountDown(batch) ==
  [k \in Key |-> IF k \in RowsOf(batch) THEN [ops[k] EXCEPT !.retries = @ - 1] ELSE ops[k]]
NotCounted(batch) == ops
ForgetFailed(batch) == Done(batch)

\* incrementOfflineOpRetry.
CountRetry(batch) ==
  [k \in Key |-> IF k \in RowsOf(batch) THEN [ops[k] EXCEPT !.retries = @ + 1] ELSE ops[k]]

\* What deletePoisonOfflineOps removes.
Poison == {k \in Key : Queued(k) /\ ops[k].retries >= MaxRetries}

-----------------------------------------------------------------------------
\* The user.

Removals(uid) == {k \in Key : k[1] = uid /\ k[2] \in Removing}

Gone(uid) == \E k \in Removals(uid) : server[k]

\* The message is still in the local cache of this folder.
Shown(uid) == \A k \in Removals(uid) : ~want[k]

UnderWay(k) == \E r \in Replay : \E o \in replay[r].todo : o.key = k

\* What every handler starts from.
Intent(k, set) ==
  /\ intents < MaxIntents /\ Shown(k[1])
  /\ k[2] \in Removing => set
  /\ intents' = intents + 1
  /\ want' = [want EXCEPT ![k] = set]
  /\ UNCHANGED <<replay, numbers>>

\* A command names messages by uid: it meets the one in the cache if that is
\* still there and the folder has not been renumbered since.
Hits(k) == validity = view /\ ~Gone(k[1])
Reaches(k, set) == server' = IF Hits(k) THEN [server EXCEPT ![k] = set] ELSE server

\* Other changes that are still queued when a command removes their message.
LeftBehind(told) ==
  {k \in Key : /\ Queued(k)
               /\ \E j \in told : Hits(j) /\ j # k /\ j[1] = k[1] /\ j[2] \in Removing}

\* The change meets an older one about the same message, or the message is gone.
Excuse(k, tooLate) ==
  IF tooLate \/ UnderWay(k) \/ Gone(k[1]) THEN excused \cup {k} ELSE excused \ {k}

\* A handler queues when it works offline, or when its command failed for a
\* transient reason, before or after the server carried it out (`reached`).
QueueIntent(k, set, reached) ==
  /\ Intent(k, set)
  /\ ops' = Upsert(k, set, known)
  /\ IF reached THEN Reaches(k, set) ELSE UNCHANGED server
  /\ excused' = Excuse(k, FALSE) \cup (IF reached THEN LeftBehind({k}) ELSE {})

\* setSeen, setFlagged and, without UIDPLUS, safeMessageDelete do not look at
\* the answer of their STORE; a move that is refused throws.
Refusable(k) == k[2] # "move"

\* A handler whose command returns leaves an older queued row where it is.
\* The command may have been refused, or have named a renumbered message.
DirectIntent(k, set, refused) ==
  /\ Intent(k, set)
  /\ refused => Refusable(k)
  /\ IF refused THEN UNCHANGED server ELSE Reaches(k, set)
  /\ excused' = Excuse(k, refused \/ validity # view \/ Queued(k))
                  \cup (IF refused THEN {} ELSE LeftBehind({k}))
  /\ UNCHANGED ops

-----------------------------------------------------------------------------
\* Renumbering, and the syncs that learn of it.

\* The folder is reorganised, or moved to a server that reports otherwise.
Renumber ==
  /\ validity < MaxValidity
  /\ validity' = validity + 1 /\ reports' \in BOOLEAN
  /\ UNCHANGED <<ops, replay, server, known, view, want, excused, intents>>

\* A sync that is told another number than the recorded one empties the cache;
\* what it shows from then on are other messages, as the server has them.
\* Emptying it again, when the number was not recorded yet, only refills it.
EmptiesCache ==
  /\ known # 0 /\ Told \notin {0, known, view}
  /\ view' = validity
  /\ server' = [k \in Key |-> FALSE] /\ want' = [k \in Key |-> FALSE]

\* Changes that carry no number meet whatever is shown under their uid.
Unlabelled ==
  {k \in Key : \/ Queued(k) /\ ops[k].validity = 0
               \/ \E r \in Replay : \E o \in replay[r].todo : o.key = k /\ o.validity = 0}

SyncStarts ==
  /\ EmptiesCache
  /\ excused' = Unlabelled
  /\ UNCHANGED <<ops, replay, validity, reports, known, intents>>

\* At its end a sync records what it was told, 0 when it was told no number.
\* Without a recorded number it has emptied nothing.
SyncEnds ==
  /\ known # Told
  /\ known = 0 \/ Told \in {0, view}
  /\ known' = Told
  /\ UNCHANGED <<ops, replay, server, validity, reports, view, want, excused, intents>>

\* A whole sync passes while a handler waits for its command: the change is
\* queued under a uid of the old cache with the number recorded by then.
QueueTooLate(k, set) ==
  /\ intents < MaxIntents /\ Shown(k[1])
  /\ k[2] \in Removing => set
  /\ EmptiesCache
  /\ known' = validity
  /\ ops' = Upsert(k, set, validity)
  /\ excused' = Unlabelled \cup {k}
  /\ intents' = intents + 1
  /\ UNCHANGED <<replay, validity, reports>>

-----------------------------------------------------------------------------
\* One replay.

\* Purge, then take the snapshot; the rest waits for the IMAP configuration.
Begin(r) ==
  /\ replay[r].at = "idle"
  /\ \E k \in Key : Queued(k)
  /\ LET snapshot == {[key |-> k, id |-> ops[k].id, set |-> ops[k].set,
                       validity |-> ops[k].validity] :
                        k \in {k \in Key : Queued(k)} \ Poison}
     IN replay' = [replay EXCEPT ![r] =
          IF snapshot = {} THEN Idle
          ELSE [at |-> "check", todo |-> snapshot, half |-> FALSE, seen |-> 0]]
  /\ ops' = Without(Poison)
  /\ excused' = excused \cup Poison
  /\ UNCHANGED <<server, numbers, want, intents>>

\* No configuration, or the folder cannot be opened: nothing was tried.
CheckFails(r) ==
  /\ replay[r].at = "check"
  /\ replay' = [replay EXCEPT ![r] = Idle]
  /\ UNCHANGED <<ops, server, numbers, want, excused, intents>>

\* Faulty variant: gives up only when all the ops are stale.
AllOutdated(r) ==
  reports /\ \A o \in replay[r].todo : o.validity \notin {0, validity}

\* The UIDVALIDITY guard: one stale op condemns the folder's ops.
Outdated(r) ==
  reports /\ \E o \in replay[r].todo : o.validity \notin {0, validity}

\* deleteOfflineOpsForFolder removes every row, the later ones too.
DiscardFolder(r) ==
  /\ replay[r].at = "check"
  /\ Outdated(r)
  /\ replay' = [replay EXCEPT ![r] = Idle]
  /\ ops' = [k \in Key |-> NoRow]
  /\ excused' = excused \cup {k \in Key : Queued(k)}
  /\ UNCHANGED <<server, numbers, want, intents>>

\* Where the server reports no UIDVALIDITY there is no guard.
CheckPasses(r) ==
  /\ replay[r].at = "check"
  /\ ~Outdated(r)
  /\ replay' = [replay EXCEPT ![r].at = "send", ![r].seen = Told]
  /\ UNCHANGED <<ops, server, numbers, want, excused, intents>>

\* The ops of the first kind that is left are a batch.  A batch takes one
\* command for TRUE and one for FALSE, in this order, when it has both.
OpPriority(o) == OpOrder[o.key[2]]
BatchOf(r) ==
  {o \in replay[r].todo : \A p \in replay[r].todo : OpPriority(o) <= OpPriority(p)}
CommandOf(r) ==
  LET trues == {o \in BatchOf(r) : o.set}
  IN IF replay[r].half \/ trues = {} THEN BatchOf(r) \ trues ELSE trues
LastCommand(r) == replay[r].half \/ CommandOf(r) = BatchOf(r)

NextBatch(r) ==
  replay' = [replay EXCEPT ![r] =
    IF @.todo = BatchOf(r) THEN Idle
    ELSE [at |-> "send", todo |-> @.todo \ BatchOf(r), half |-> FALSE, seen |-> @.seen]]

\* What the UIDVALIDITY check can know of an op, if it was told the number and
\* the folder was not renumbered since.
CheckTells(r, o) == replay[r].seen = validity /\ o.validity \notin {0, validity}

\* The op's uid is the one its message has in the cache and on the server.
OnTarget(o) == validity = view /\ o.validity \in {0, view}

\* The server carries a command out, on the messages that have the uids now.
CarryOut(r) ==
  LET hit == {o \in CommandOf(r) : Hits(o.key)}
      astray == {o \in CommandOf(r) : ~OnTarget(o) /\ ~CheckTells(r, o)}
  IN
  /\ server' = [k \in Key |-> IF \E o \in hit : o.key = k
                              THEN (CHOOSE o \in hit : o.key = k).set ELSE server[k]]
  /\ excused' = excused \cup {o.key : o \in astray} \cup LeftBehind({o.key : o \in CommandOf(r)})

\* The command was refused, and nobody looked at the answer.
Refused(r) ==
  /\ \A o \in CommandOf(r) : Refusable(o.key)
  /\ excused' = excused \cup {o.key : o \in CommandOf(r)}
  /\ UNCHANGED server

\* The command returns.  After the batch's last command its rows are deleted by
\* id, whatever they say by now.
Ack(r, refused) ==
  /\ replay[r].at = "send"
  /\ IF LastCommand(r)
     THEN NextBatch(r) /\ ops' = Done(BatchOf(r))
     ELSE replay' = [replay EXCEPT ![r].half = TRUE] /\ UNCHANGED ops
  /\ IF refused THEN Refused(r) ELSE CarryOut(r)
  /\ UNCHANGED <<numbers, want, intents>>

\* A command fails, before or after the server carried it out: the batch is
\* left for a later replay, and this replay goes on with the next kind.
Fail(r, carriedOut) ==
  /\ replay[r].at = "send"
  /\ NextBatch(r)
  /\ ops' = CountRetry(BatchOf(r))
  /\ IF carriedOut THEN CarryOut(r) ELSE UNCHANGED <<server, excused>>
  /\ UNCHANGED <<numbers, want, intents>>

-----------------------------------------------------------------------------
\* The table survives, the replays do not.
Crash ==
  /\ \E r \in Replay : replay[r] # Idle
  /\ replay' = [r \in Replay |-> Idle]
  /\ UNCHANGED <<ops, server, numbers, want, excused, intents>>

Check(r) == CheckFails(r) \/ DiscardFolder(r) \/ CheckPasses(r)

Send(r) == \/ \E refused \in BOOLEAN : Ack(r, refused)
           \/ \E carriedOut \in BOOLEAN : Fail(r, carriedOut)

User(k, set) ==
  \/ \E refused \in BOOLEAN : DirectIntent(k, set, refused)
  \/ \E reached \in BOOLEAN : QueueIntent(k, set, reached)
  \/ QueueTooLate(k, set)

Next ==
  \/ \E k \in Key, set \in BOOLEAN : User(k, set)
  \/ \E r \in Replay : Begin(r) \/ Check(r) \/ Send(r)
  \/ Renumber \/ SyncStarts \/ SyncEnds
  \/ Crash

\* Periodic syncs keep starting replays, and every command is answered or
\* times out.  A folder that can be opened again and again is opened some day.
Fairness ==
  /\ WF_vars(\E r \in Replay : Begin(r) \/ Check(r) \/ Send(r))
  /\ SF_vars(\E r \in Replay : DiscardFolder(r) \/ CheckPasses(r))

Spec == Init /\ [][Next]_vars /\ Fairness
-----------------------------------------------------------------------------
\* A change the user makes reaches the server by the time nothing is left to
\* replay for it, in spite of lost answers, half-done batches, replays that
\* run side by side, renumberings and restarts.  `excused` names the only ways
\* out: the row was poison or condemned with its folder; the message was
\* removed before; the change met an older one on its way; the command was
\* refused and nobody looked; or it went out under another numbering where the
\* UIDVALIDITY check had no chance (no number on the row or in the answer, a
\* number recorded for another cache, a renumbering after the check).
ChangesReachTheServer ==
  \A k \in Key : ~Queued(k) /\ ~UnderWay(k) /\ k \notin excused
                   => server[k] = want[k]

\* The server only ever moves to what the user wants last of the message it
\* concerns: no replay that is behind, or beside another one, takes a newer
\* wish back, and no uid of an old numbering changes a message of the new one,
\* outside the cases `excused` names.
ServerFollowsWishes ==
  [][\A k \in Key : server'[k] # server[k] => server'[k] = want'[k] \/ k \in excused']_vars

\* Every queued change leaves the queue in the end, whatever fails on the way,
\* unless the program keeps crashing.
QueueDrains ==
  <>[][~Crash]_vars => []<>(\A k \in Key : ~Queued(k))

\* A change leaves the queue as done only when the server was told of it,
\* whatever the server makes of it.
DoneMeansTold ==
  [][\A r \in Replay : (\E refused \in BOOLEAN : Ack(r, refused)) =>
       \A k \in Key : Queued(k) /\ ops'[k].id = 0 /\ ~Gone(k[1])
                        => \E o \in BatchOf(r) : o.key = k /\ o.set = ops[k].set]_vars
=============================================================================
