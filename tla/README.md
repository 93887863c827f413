# Mailcopilot: specifications, checks and proofs

This directory is a TLA+ development of Mailcopilot, a desktop mail client
(Electron, TypeScript).  It models the parts of the program that are hardest to
test: queues drained by workers while the user changes them, connections shared
by operations and timers, locks with priorities, and what all of them do when
answers are lost, connections die and the program is killed.

Paths below are relative to the repository (`src/` in `PROJECT.json`).  Every
definition that stands for code names its lines in `PROJECT.json` under `map`.

- [How to run it](#how-to-run-it)
- [The system](#the-system)
- [What is hard about it](#what-is-hard-about-it)
- [The modules](#the-modules)
- [The runs](#the-runs)
- [Fairness](#fairness)
- [The proofs](#the-proofs)
- [Where the code and what is said of it disagree](#where-the-code-and-what-is-said-of-it-disagree)
- [What is not modelled](#what-is-not-modelled)
- [Plan](#plan)

## How to run it

    tlc -workers 2 -config SendQueue.cfg SendQueue.tla          # a run
    tlc -workers 2 -config ImapScheduler.cfg MCImapScheduler.tla
    tlapm SendQueueProofs.tla                                   # a proof module

`PROJECT.json` lists the runs with their modules, configurations and
properties.  A run named after its module passes; the runs with a suffix
(`SendQueue_cancel`, ...) are expected to end in a counterexample.  Definitions
under a comment "Faulty variant" are not part of any specification: each is a
plausible bug that one property is there to catch, and is put in the place of
the definition after it to see the property fail.

## The system

The main process is one JavaScript thread.  Everything that runs "at the same
time" is a set of asynchronous functions that interleave at their `await`s, and
between two awaits a function runs alone.  State lives in module-level
variables and maps, which a crash loses, and in one SQLite database, which it
does not.  Database calls are synchronous: a statement, or a transaction, is
atomic.

| Component | State | Operations | Interacts through |
|---|---|---|---|
| IMAP operation scheduler (`packages/net/imapScheduler.ts`) | per lock: `locked`, the waiters with tier, sequence number and overtakes; a map of locks by account | acquire, release, wake, run, forgetIfIdle, forgetAllIdle; `selectNextWaiter` | called by both connection layers; hands the lock over by resolving a promise, so the woken call runs a turn later |
| Outbox (`processSendQueue` in `electron/main.ts`, `send_queue` in `packages/db/index.ts`, `packages/net/smtp.ts`) | the table: status, send_at, updated_at, attempt_count; `sendQueueRunning` | schedule, claim, mark sent / failed, reschedule, cancel, send now, recover, remove | IPC handlers and a poll timer share the rows; the worker holds a snapshot of them across awaits |
| Offline operations (`electron/services/offlineReplay.ts`, `offline_ops`) | the table: payload, UIDVALIDITY, retry_count; `sync_state` | queue, replay, discard a folder, count a retry, purge poison | handlers fill the table, up to four sources start replays of it, a header sync writes the UIDVALIDITY |
| Per-account pool (`packages/net/imap.ts`, second half) | client, connection count and slot waiters per account | connect, acquire and release a slot, retry, refresh the token, disconnect all | operations of one account take turns at its op lock; shutdown and the end of an offline sync clear everything under them |
| Singleton connection (`packages/net/imap.ts`, first half) | `client`, `currentUserKey`, `connecting`, `noopTimer` | connect, retry, heartbeat, force disconnect | one op lock for all accounts; the heartbeat and the forced disconnect do not take it |
| IDLE push loop (`packages/net/imap.ts`) | `idleClient`, `idleUserKey`, `idleMailbox`, `idleLoop`, `idleStop`; in each loop its own connection and reconnect attempts | start, stop, idle, refresh the token, reconnect with backoff | the window starts and stops it when the user changes accounts, account removal and quit stop it; it triggers replays and syncs |
| Auth refresh (`packages/net/authRefreshCooldown.ts`, `imap.ts`, token services) | handlers per account, refreshes in flight, failures and the time of the last one | register, refresh or share a refresh, record success or failure | called from every retry loop; handlers are registered by whoever loads an account's configuration |
| Account auth state (`electron/services/accountAuthState.ts`) | generation, failure streak and flag per account id | report a failure, missing credentials, a refused start of push, a success, a sign-in; forget an account | reports arrive from operations and loads that may outlive the account; ids are used again |
| Folder sync and pending moves (`imap.ts`, `main.ts`) | `sync_state`, crawl state, in-flight sets, registry of moves under way | header sync, flag sync, periodic pass, register and expire a move | all of the above |
| Mail rules runner (`electron/services/mailRulesRunner.ts`) | `mail_rules_state` (watermark, UIDVALIDITY); in memory `inFlight`, `pendingRerun`, `actionAttempts` | trigger, pass, baseline, act, give up, run again | runs after syncs and other writers of the message cache; acts through the same handlers as the user |
| AI pending actions (`electron/services/aiPendingActions.ts`) | registry of previews with tokens and two expiries | register, confirm, claim, cancel, clean up | the model proposes, the window confirms, the model applies |
| AI spend ledger (`packages/db/index.ts`, `aiRequestBudget.ts`) | ledger rows, live reservations | admit, reconcile, sum | every AI feature |
| IPC single flight (`src/utils/ipcSingleFlight.ts`) | in-flight promises, cache, generation | invoke, invalidate | window code and the settings broadcast |
| The rest | | | listed in `PROJECT.json`, each with the reason it is left out |

What makes each component correct:

- **Scheduler**: one operation at a time per account; a waiter always has an
  owner that will wake it; the order is by tier with promotion, first come first
  served within a tier; nobody is overtaken more than a fixed number of times.
- **Outbox**: a message is delivered once unless nobody could know of the first
  copy; "sent" means delivered; a cancelled message is not sent; a row does not
  stay in the queue for ever and is not tried for ever.
- **Offline operations**: every change reaches the server or leaves in one of
  the ways the code names; the server moves to the user's last wish about a
  message and to nothing else, in particular not because a uid of an old
  numbering names another message by now; failures are counted and bounded; the
  queue drains.
- **Pool**: the counter counts connections; an operation always gives the op
  lock back.
- **Singleton**: an operation works on a connection of its own account; no
  connection is left open with nobody to close it; the client has a heartbeat.
- **IDLE**: two loops never idle on one connection; a loop that was replaced or
  stopped leaves; after a stop no connection stays open; `idleLoop` never names
  a loop that is gone.
- **Mail rules**: an action is launched only while the recorded numbering of the
  folder is the one its UID was read under; a rule never acts again on a message
  the rules are through with; the watermark steps over nothing; a message whose
  action keeps failing does not hold up the rest for ever.
- **Auth refresh**: one call of the refresh handler serves everybody who waits,
  and after one that failed operations do not call it again until its window is
  over.
- **Auth state**: a verdict moves the warning of the mailbox whose configuration
  the operation ran with and of no later one with the same id; a mailbox whose
  credentials stay unusable gets its warning.
- Not modelled yet.  **Sync**: one pass per account; a
  moved message does not come back.  **Pending actions**: one confirmation, one
  execution, of what was previewed.  **Ledger**: admissions do not exceed the
  limit and a reservation is settled once.  **Single flight**: nobody who asks
  after a change gets an answer from before it.

## What is hard about it

`PROJECT.json` lists every hazard at its line.  They fall into few kinds:

- *A snapshot used across awaits.*  The outbox worker and the replay both read
  rows, await the network, and write back by id.
- *Global variables written after an await*, by functions that take no lock
  (heartbeat, forced disconnect, disconnect of everything).
- *The gap between waking somebody and that call running.*
- *Acceptance without an answer.*  SMTP and IMAP commands whose connection
  breaks after the server acted.
- *Crashes between two statements*, and rows a dead process left `sending`.
- *Counters that several paths release.*
- *Bounds*: retries, promotions, slots, poison thresholds.

## The modules

### The op locks: `SelectNextWaiter`, `ImapScheduler`, `BoundedWaitLock`

`SelectNextWaiter` is the selection algorithm, shared by the locks and the pool:
the effective rank of a waiter, who outranks whom, the one-pass scan `BestIdx`
and the queue after a selection (`Without`, which charges an overtake to every
waiter that is passed over).  A queue is a sequence in arrival order.  The code
stamps a growing `seq` and only ever removes single elements, so the position in
the sequence is the sequence number.

`ImapScheduler` is `PriorityMutex` and `KeyedPriorityMutex` for calls on several
accounts.

| In the module | In the code |
|---|---|
| `byKey`, `locked`, `waiters` | the map of mutexes and their fields |
| `pc[c]`: idle, waiting, woken, running | `run`: before, awaiting `acquire`, resolved but not resumed, inside `fn` |
| `RunNow`, `Enqueue` | `run` on a free and on a held lock; a new mutex is made when the key has none |
| `ReleaseFree`, `HandOver` | `release` with nobody waiting, and with somebody |
| `Resume` | the woken call's continuation runs |
| `ForgetIfIdle`, `ForgetAllIdle` | the methods of these names, which `disconnectPerAccount` (exported, not called today) and `disconnectAllPerAccount` use |

Mutex objects have identities of their own, because the hazard is that a key's
object is dropped and a second one made while the first is still held.

`BoundedWaitLock` is what the locks promise without mentioning priorities,
queues or objects: a lock per account whose waiters know, when they join, how
many others can be served before them.  `ImapScheduler` implements it under a
refinement mapping (`Patience`: the waiters in front plus the overtakes that can
still come).

### The outbox: `SendQueue`, `Outbox`

| In the module | In the code |
|---|---|
| `row` | `send_queue`; `due` is whether `send_at` has passed, `stale` whether `updated_at` is more than two minutes old |
| `phase`, `due`, `snap`, `item` | where `processSendQueue` stands, the rest of its snapshot, the attempt counts the snapshot holds, the row under dispatch |
| `Enqueue`, `Reschedule`, `Cancel`, `RemoveAccount` | the handlers `mail:scheduleSend`, `mail:queueSendNow` and `mail:queueReschedule`, `mail:cancelSend`, and account removal |
| `StartPass` | `listDueSendQueue`: recover rows left `sending`, take at most `Batch` due rows |
| `Claim`, `Skip` | `markSendQueueSending` succeeds, fails |
| `Accept`, `Redial`, `SendOk`, `SendTransient`, `SendPermanent` | the SMTP dialogue: the server takes the message; a timeout leads to another address or port; the dispatch returns; the two ways it fails |
| `Archive` | Send & Archive: the move of the original after the reply was sent |
| `Quit`, `Exit`, `Start` | `before-quit`, the end of the process by a quit or a crash, the next start |

The SMTP dialogue is split at the server's acceptance, because everything the
code can get wrong about delivery lies around that moment.  `copies` counts the
copies the server accepted *and the worker could learn of*: when the connection
or the process dies between the acceptance and its answer, no client can know,
and a second copy is not the program's fault.  Handlers run only while the
worker awaits something (`HandlersRun`): from one dispatch to the next claim it
holds the thread.

`Outbox` is what the outbox promises without columns, clocks, snapshots and
redials: a message is waiting, failed, sent, cancelled or removed; the worker has
one in hand at a time, takes up only what waits, and puts it with the server at
most once.  `SendQueue` implements it (`ImplementsOutbox`).  `Stage` makes one
stage of `queued` and `sending`, because a row that a crash left `sending` still
waits, and `Hand` is the row under dispatch up to the moment the result is
written.  Two things the code does are in the abstract outbox because its users
can see them: a cancellation or a removal that comes during the dispatch is
accepted, and what became of the message then overrules the cancellation.

### The offline queue: `OfflineOps`

One folder of one account, whose server may renumber it at any time.  `Key` is a
set of pairs (message, kind of change).

| In the module | In the code |
|---|---|
| `ops` | the table `offline_ops` |
| `validity`, `reports` | the server's UIDVALIDITY, and whether `getMailboxStatus` and the syncs are told it (they take a number only; `Told` is what they get) |
| `known`, `view` | the UIDVALIDITY in `sync_state`; the one under which the messages in the cache have their uids |
| `replay[r]` | a running `replayOfflineOps`: the rest of its snapshot, the UIDVALIDITY it was told, whether the mixed batch has its first command behind it |
| `QueueIntent`, `DirectIntent` | `net:setSeen`, `net:move` and their siblings: the change is queued because the program is offline or because the command failed for a transient reason, before or after the server acted; or the command returns |
| `QueueTooLate` | the same, when a whole sync passes while the handler waits for its command: the uid is of the old cache, the number on the row the new one |
| `Begin`, `CheckFails`, `DiscardFolder`, `CheckPasses` | purge, snapshot, the configuration and the UIDVALIDITY guard |
| `Ack`, `Fail` | a batch's command returns, or fails before or after the server carried it out |
| `CarryOut`, `Refused` | what the server makes of a command: it meets the messages that have the uids *now* (`Hits`), because every command opens the mailbox anew; or it answers NO, which `setSeen`, `setFlagged` and, without UIDPLUS, `safeMessageDelete` do not look at (`Refusable`) |
| `SyncStarts`, `SyncEnds`, `Renumber`, `Crash` | a sync that is told another number empties the cache; at its end it records what it was told; the server gives the folder another number; the process ends |

`server` is what the server holds of the messages in the cache and `want` the
user's last wish about them; when a sync empties the cache both start afresh for
the messages shown from then on, and whatever is still queued must stay off them.
`excused` collects the wishes the code drops, overwrites or sends astray; it
appears in the properties, and each place that adds to it says which case it is:

- the row was poison, or condemned with its folder;
- the message was removed before, or by the command that went ahead;
- the change met an older one that is queued or under way;
- the command was refused and nobody looked at the answer;
- it went out under another numbering than its own, and the UIDVALIDITY check
  had no chance: the row or the answer carried no number (`Unlabelled`,
  `reports`), the number was recorded for another cache (`QueueTooLate`), or the
  folder was renumbered between the check and the command (`CheckTells`).

What the check *can* see is not on the list: `ServerFollowsWishes` says that
then no message of the new numbering is touched.

### The connections: `ImapPool`, `ImapSingleton`

`ImapPool` is one account's part of the pool.  Its op lock serialises the
account's operations (proved in `ImapSchedulerProofs`), so there is one
operation, with the control flow of `withImapRetryPerAccount`: connect, use,
catch, refresh the token once, retry after a lost connection.  `Die` and
`DisconnectAll` happen at any moment.  Because operations take turns, a slot
never has two waiters and no release can wake one: that is a consequence of the
lock, and `perAccountConnecting` never has an entry another call could find.

`ImapSingleton` is the shared connection with operations of several accounts,
one at a time, and two actors that take no lock: the heartbeat (`Beat`,
`NoopOk`, `NoopFails`, `LogoutDone`) and `forceDisconnectImap`.  Every await is
a state of its own, so the heartbeat's last three assignments can meet the
operation anywhere.  Connections have identities (`Conn`); one that is over and
held by no variable can be used for the next.  `OperationsAreShort` counts the
awaits an operation has left (`AwaitsLeft`): both actors take the client from
under it, so each await has to bring it nearer to its end whatever they did.

### The push connection: `ImapIdle`

One connection for all accounts, described by five variables that nothing
locks.  A call of `startIdle` and the loop it leaves behind are one identity in
`Call`; `startIdle` itself may be under way several times, because the window
does not wait for it.

| In the module | In the code |
|---|---|
| `StartReusing`, `Start`, `CloseDone`, `DialOk`, `SelectOk`, `StartFails` | `startIdle` with `connectIdle`: the client is there and is used at once; another account's client is logged out first; the connection is made and becomes the client; the mailbox is selected; it throws |
| `LoopBegins`, `StartEnds` | the end of `startIdle`: a loop is left unless `idleLoop` is set; a loop whose condition is false at once ends before `idleLoop` is assigned |
| `ParkOk`, `ParkFails`, `ParkBackoff`, `BackoffDone` | the IDLE command returns, fails for good, fails for the network |
| `ParkAuth`, `RefreshOk`, `RefreshFails`, `TeardownDone`, `DropDone`, `ReselectOk`, `ReconnectFails`, `PauseDone` | the token was refused: the handler is asked, the old client is logged out, a bounded inner loop dials with the fresh token and looks for a stop at each await |
| `StopBegins`, `StopLogoutDone`, `Returns` | `stopIdle`: clear the globals, log out, await the loop |
| `Die` | the server or the network ends a connection |

`lost` are the open connections that a variable forgot, `revived` the loops that
came back after they were replaced.  Both are the ways in which the unlocked
variables go wrong, and the properties name them as their only exceptions:

- Two starts that overlap both dial; the second to come up overwrites the first
  one's client, which stays open until the server ends it (`Forgets`).
- A loop that reconnects after a refresh clears the globals at the end of its
  logout and sets `idleClient` when it is back, without asking whether another
  start has replaced it: it pushes for an account that is not the one on screen,
  and a loop that idled on the same client goes on as well.
- A stop during the connect of a `startIdle` is taken back: `idleStop` is set to
  false after the await.  `QuietAfterStop` says nothing then, because it asks for
  `idleStop`.
- `idleUserKey` is set before the connection is there.  A start that fails
  leaves it; with no client it is read by nobody.
- A network drop during an IDLE sleeps and then ends the loop, since its
  condition asks for a usable client.  Nothing in this module starts the next
  one; push is back when the window calls `startIdle` again.
- `stopIdle` awaits the loop it found, which may be asleep after a failure: an
  account removal can wait for the whole of a sleep.  It does not wait for ever:
  `LoopsComeToAnEnd` counts the awaits of a reconnect, and those a loop has left
  once push is stopped.

### The mail rules: `MailRules`

The static rules of one folder, with the writers of the cache that trigger them.
A pass awaits nothing but the actions, so everything between two actions is one
step: `Evaluate` picks the next message that matches some rule and is done with
all below it.

| In the module | In the code |
|---|---|
| `mark`, `validity` | the folder's row of `mail_rules_state` |
| `pc`, `pending`, `attempts` | `inFlight`, `pendingRerun`, `actionAttempts` |
| `Trigger`, `RunOnePass`, `RoundEnds`, `Release` | `runMailRules`: a second call only leaves a mark; rounds; what is done with the mark at the end |
| `Baseline` | a folder without a position, or renumbered since, is anchored and not evaluated |
| `ActionDone`, `ActionFails`, `LastAttempt`, `SpaceChanged` | the action loop of `runOnePass`, with the check of the UIDVALIDITY before every action and every advance after one |
| `FlagsScan`, `FallsBack`, `FullScan`, `BatchStored`, `SyncEnds`, `SyncFails` | a header sync: purge or reconcile, store, record the UIDVALIDITY, trigger |
| `RowStored`, `MovedIn` | the newest page, older pages and search hits store rows and trigger; a move into the folder stores a row and does not |
| `Arrives`, `Renumbers` | the server |
| `Restarts` | the program ends; `seedMailRulesStateFromCache` at the next start |

`sampled` and `handled` record which rows were waiting when a batch was read and
which the rules are through with.  `excuse` names why rows may wait for the next
trigger though nobody has them in mind:

- *cap*: the last of the 25 rounds takes a request with it, and a full batch.
- *crash*: `pendingRerun` is in memory.
- *moved*: `MovedIn` triggers nothing.

Two more things the model shows.  A call that stops early re-arms `pendingRerun`,
but the next call's first statement deletes the mark, so it is never read: the
work is picked up because every call starts from the watermark.  And when a
flags scan sees a renumbering, the new UIDVALIDITY is recorded before the cache
is refilled (`FallsBack`); a trigger in between anchors the folder in an empty
cache at 0, and the refill hands the rules the whole folder as new mail.  Nothing
in the code promises otherwise for that interval, and `ActsOnce` still holds of
rows, since the old rows are gone.

### Signing in: `AccountAuth`

One account id.  Ids are "the largest plus one", so the id of a removed account
goes to the next: mailboxes 1, 2, ... hold it in turn, each with OAuth or with a
password.

| In the module | In the code |
|---|---|
| `generation`, `authFailureStreak`, `flagged` | the maps of `accountAuthState.ts` at this id |
| `noteFailure`, `noteMissingCredentials`, `noteLoginRejected`, `noteSuccess`, `forget`, `raiseFlag`, `clearFlag` | the functions of these names |
| `handler`, `refresher`, `consecutiveFailures`, `cooldown` | `authErrorHandlers`, `authRefreshInflight`, the entry of `authRefreshCooldown.ts` |
| `LoadBegins`, `LoadEnds`, `LoadFindsNothing`, `LoadFails` | `requireAccountConfig` with `assertImapAuth` and the token services: it reads record and generation, awaits the password or the token, registers the handler |
| `OperationBegins`, `Succeeds`, `FailsOtherwise`, `Denied` | `withOutcomeReporting` around `withImapRetry` and its siblings |
| `RefreshJoined`, `RefreshBegins`, `RefreshSucceeds`, `RefreshFails`, `Tick` | `invokeAuthHandlerWithCooldown` and the handler; the window runs down |
| `PushDenied` | `net:idleStart`, whose refused login is reported twice, by the boundary and by the handler |
| `AddAccount`, `RemoveBegins`, `RemoveCompletes`, `RemoveRejects`, `SignIn` | `saveAccount`, the removal of the record, `completeAccountRemoval` after it, the two OAuth connects |
| `TokenExpires`, `CredentialsBreak` | the cached token runs out; the credentials stop working or are lost |

`access` says whether what is stored under the id lets its holder in; about a
mailbox that is gone anything may come back, because what is stored may be its
own, nothing, or the next one's (`Credentials`).  `about`, `hasty` and `calls`
are there for the properties: the holder when an operation took its stamp, an id
that was given out while its removal was still deleting secrets, and the calls of
the handler since a refresh succeeded or its window ended.  `mailbox[o]` is whose
configuration an operation runs with, which `about[o]` need not be
(`BeganStale`).  The token requests of the loads are not in `calls`: they pass no
gate, and `LoadEnds` and `LoadFails` may happen as often as operations are
started while the cache is empty.  An operation loads its
configuration and runs once; one removal is on at a time; the requests that
several token fetches share in the token services are separate here.

What the model shows besides its properties:

- A load that is under way when the account is removed registers its handler
  after `completeAccountRemoval` took the old one away.  The comment there says
  the closures must not outlive the deletion; this one does, and answers for the
  next holder of the id until a load of that one replaces it.  A password account
  loads no handler, so one refusal by its server makes the old handler look for a
  token, find none, and flag the new mailbox at once.  It is the handler that
  reports it (`RefreshFails`), with a stamp of its own, and not the end of an
  operation, of which `VerdictsStayHome` speaks.
- A configuration loaded before a removal and used after the id went to a new
  account is stamped with the new generation when the operation begins, since
  `withOutcomeReporting` reads its own: the stamp that `requireAccountConfig`
  returns is used by `assertImapAuth` alone.  The verdict about the old mailbox
  then moves the new one's warning.  `VerdictsStayHome` excepts it by name
  (`BeganStale`); without the exception TLC finds it in eight steps.
- `hasty`: the record goes before the secrets, so the id is free before the
  teardown.  An account that gets it in between loses its handler, its warning
  and its cached token to the teardown of the old one, or, if a secret could not
  be deleted, inherits all of them.
- The cooldown and a refresh in flight are keyed by id and no removal clears
  them: the next holder starts inside the old one's window.

## The runs

| Run | States | What it shows |
|---|---|---|
| `ImapScheduler` | 53 149 | exclusion, hand-over, order, bounded overtaking, no starvation, the scan's result, and the refinement of `BoundedWaitLock` |
| `SendQueue` | 142 507 | at most one knowable copy, sent means delivered, a cancelled idle message stays unsent, every message settles, and the refinement of `Outbox` |
| `SendQueue_cancel` | counterexample | a confirmed cancellation does not hold |
| `OfflineOps` | 354 873 | changes reach the server, and the server moves to nothing but the user's wishes, outside the named cases; the queue drains |
| `OfflineOps_lost` | counterexample | a queued change is deleted unsent |
| `ImapPool` | 910 | the slot counter is exact unless a slot was lost; every operation ends |
| `ImapSingleton` | 46 777 | no operation uses another account's connection; connections are left open only by the heartbeat; the client has its heartbeat; operations are short |
| `ImapIdle` | 346 421 | replaced loops leave, one loop per connection, open connections are known, quiet after a stop, loops come to an end |
| `ImapIdle_pinned` | counterexample | a loop that ended keeps `idleLoop` |
| `MailRules` | 493 234 | actions are launched in their numbering, nothing is acted on twice or stepped over, waiting work is remembered, every row gets its turn |
| `AccountAuth` | 447 162 | verdicts reach their mailbox outside two named cases, a freed id is clean, calls of the refresh handler are shared and spaced, a mailbox that stays unusable is flagged |
| `AccountAuth_silent` | counterexample | a mailbox whose consent was withdrawn stays silent |

### Bounds, and why they are enough

- `ImapScheduler`: four calls, two accounts, three mutex objects, two tiers,
  promotion after two overtakes (eight in the code).  Four calls are one owner
  and three waiters: a waiter can be overtaken twice and then promoted over a
  third that outranks it.  Calls can call again, so an endless stream of the
  better tier is a behaviour of the instance.  Two of the three objects can
  serve one account in turn while the third serves the other.  More tiers add
  nothing the comparison of two tells apart.
- `SendQueue`: two messages, one with archiving, so a snapshot has a rest that
  can go stale while the other is dispatched; one retry (five), two dials, one
  stop, one command that postpones or forces per message, and cancellation and
  account removal without bound.  The batch of two covers the snapshot of
  everything; twenty in the code.
- `OfflineOps`: two messages with flag changes and one move, so there are mixed
  batches and an order between kinds; two replays side by side; two changes; two
  failures until poison (five); one renumbering at any moment, by a server that
  may report its number before, after, both or never.  A row without a number
  that is still queued when the cache is emptied (`Unlabelled`) needs two
  renumberings, and is beyond this instance; with three numberings and one
  replay the two safety properties were checked too, and they are proved for any
  number of both.
- `ImapPool`: the code's own numbers, three slots and two retries.
- `ImapSingleton`: two accounts; five connection identities, which is more than
  the variables can hold at once plus the one connection the heartbeat may have
  lost (`MaxForgotten`); one retry (two).  With the heartbeat at rest after it
  lost one, nothing the properties speak about is cut off: the step that loses
  it is in.

- `ImapIdle`: two accounts, two starts or loops, one stop, four connections (one
  per call, one of the stop, one lost), two reconnects (five).  Accounts, calls
  and connections are symmetric.
- `MailRules`: two UIDs, one renumbering, one message per pass (200), two rounds
  (25), two attempts (3), messages with one or two actions, one crash or failing
  pass; the folder known at startup or not.  One message per pass makes every
  second message a new round and lets the cap be reached.  A larger instance (three UIDs, two per
  pass, no faults and no moves into the folder; 5 million states) was checked
  too; it is not among the runs because of its time.

- `AccountAuth`: two operations, so that one can share the other's refresh or
  outlive the account; an OAuth mailbox and then one with a password, so that the
  id changes hands once and what is left of OAuth meets an account without it;
  the code's threshold of two; windows of one tick and two (1, 5, 30 minutes), so
  that a second failure waits longer and a third is at the cap.  Generations and
  calls need no bound: the id is freed at most twice.

Type invariants use `Nat` for counters; the counters are finite in every run
because the guards bound what increases them.  Those of `SendQueue`,
`ImapSingleton` and `ImapIdle` are no property of a run: they are proved
(`TypeCorrect`), and the runs ask what says more.

`CHECK_DEADLOCK FALSE` stands in the configurations of `OfflineOps` and
`AccountAuth`: when the user has used up the changes and the queue is empty, or
the last account is removed, nothing is left to do.

## Fairness

- `ImapScheduler`: resolved promises resume, and every IMAP operation settles,
  because each connection has a socket timeout of thirty seconds.  Nobody has to
  call, and nobody has to drop locks.
- `SendQueue`: the poll timer keeps firing, the worker's next step happens (an
  SMTP dialogue ends by an answer or a timeout), clocks run, a quit ends and the
  program is started again.  The server's acceptance and the user are not fair.
- `OfflineOps`: syncs keep starting replays and each command is answered or
  times out (weak fairness of a replay's next step); a folder that can be opened
  again and again is opened some day (strong fairness of the check's outcomes).
  The queue drains only if crashes end, which the property says.
- `MailRules`: the periodic sync keeps triggering (weak fairness of `Trigger`,
  which is always enabled), a round goes on after its await, and an action is
  answered or times out.  Syncs, arrivals and the server are not fair.
- `ImapIdle`: none; its properties are safety.  There is no liveness to state:
  the code leaves it to the window to start push again.
- `ImapPool`: weak fairness of the operation's next step: each await in it has a
  timeout.  The disconnects and the network are not fair.
- `ImapSingleton`: none; its properties are safety.
- `AccountAuth`: the periodic sync keeps starting operations (a pass every few
  minutes, in memory and without end), what an operation does by itself happens,
  refreshes end, tokens expire.  The network is assumed to recover from time to
  time: if operations ask again and again, some token fetch, some login is
  answered (strong fairness), and with credentials that work some login succeeds.
  Users, providers and removals are not fair.  `WithdrawnConsentIsShown` fails
  under the same fairness, so its counterexample is no program that merely
  stopped.

## The proofs

The instances above are small; the following hold for every value of the
constants under the assumptions named in the modules.

**`ImapSchedulerProofs`.**  `TypeCorrect`.  `BoundedOvertaking`: nobody is
overtaken more than `MaxOvertakes` times.  By itself that is not inductive,
since serving somebody charges everybody in front; the invariant that carries it
is that whoever waits longer was overtaken at least as often (`Fair`), so a
promoted waiter that is not chosen is passed over for an older promoted one, and
is not charged for it.
`LocksAreSafe`: mutual exclusion per account, owners for waiters, and every
waiter queued exactly once, from `LockInv` (`LocksAgree`): a call under way
uses the object that is registered for its account, no object serves two
accounts, a lock is held
exactly when one call owns it, and queues hold exactly the waiting calls, once
each.
`FifoTheorem`: promotion never turns two waiters of one tier around, from the
same `Fair`.
`ScanIsRight`: the one-pass scan, which compares each waiter with the best so
far, ends at the one that outranks all the others, for a queue of any length.
`BestIdx` is a recursive function over the positions, and the library's
induction theorems cannot be instantiated by the provers; the proof takes the
least position at which the claim fails instead, which the well-foundedness of the
naturals provides (`FirstOne`), once for the scan to be well defined
(`ScanIsDefined`) and once for its result (`ScanFindsNext`).  `OutranksOrders`
says that the comparison is a strict total order.
`ReleaseIsNeverStuck`: so whoever releases a lock with waiters finds one.
`WaitIsBounded` and `EveryReleaseShortensTheWait`: a waiter's patience is at most
`MaxOvertakes` plus the number of calls less two, nothing raises it, and every
operation that ends on its account lowers it.  That is no starvation up to the
fairness: operations have to end.
`LockIsBounded`: every step of the op locks is a step of `BoundedWaitLock` or
changes nothing there.  The mapping needs three facts beyond the invariants above:
a caller stands at one place in one queue, so its patience is well defined
(`PatienceAt`); the waiters of an account are the queue of the object registered
for it, so a newcomer's budget is the length of that queue (`QueueOfAccount`,
`QueueLength`); and a hand-over moves everybody behind the chosen one up by one
place and charges everybody before it one overtake, so each budget falls by one
and was above zero (`PatienceFalls`).

**`SendQueueProofs`.**  `TypeCorrect`; `DeliveryIsSafe` (no knowable second
copy, sent and archived only after delivery); `SettlingIsFinal` (both action
properties).  The invariant `Inv` adds `DeliveryInv` to the types: in each phase
the worker knows how many copies of the message under dispatch are out and what
its row can say by then, and at all other times a row that is still to be sent
has no copy out and a row that is sent has one.
`TriesEnd`: a row is tried at most `MaxRetries + 1` times, once more for each
command of the user that puts it back and for each stop.  The invariant `TryInv`
says that the attempts in the snapshot, which the retry limit is compared with,
are those of the row until the worker takes it up.
`OutboxIsImplemented`: every step is one of `Outbox` or does not show there.  It
has a lemma for the user, the worker and the outside each; `OneStage` and
`SameStage` say what a change of one row does to the mapping, and `DeliveryInv`
is what makes the guards of the abstract steps true: the row in hand has no
knowable copy before the acceptance and one after it, and is not `failed`.

**`OfflineOpsProofs`.**  `TypeCorrect`, `ChangesArrive` and `ServerIsLed`, for
any messages, any number of replays side by side and any renumberings.
`ChangesReachTheServer` speaks of a change nobody has left to replay; the
invariant `Inv` speaks of all that lead there: what is queued or under way is,
as far as its number tells (`InView`), the user's last wish (`RowsAreWishes`,
`OpsAreWishes`), a wish whose row is gone was told, even while some old snapshot
still names it (`NoneIsLost`), and so was the first half of a mixed batch
(`HalfIsTold`).  A row is deleted by id for an op of a snapshot, so ids must tell
which wish they mean (`IdsAreOwn`).  A command does nothing to a message that is
gone; that this is no loss rests on removals being wanted (`RemovalsRemove`) and
on the list of changes that were queued when their message went
(`GoneWithOthers`).  Renumberings need two facts more: no change carries a number
that is yet to come (`NumbersAreOld`), so an emptied cache meets none but
unlabelled ones, and nothing that the UIDVALIDITY check could know to be stale is
on its way (`Checked`).
`ServerIsLed`: every step moves the server to the user's last wish about the
message concerned or leaves it alone, outside `excused`; no replay takes a newer
wish back and no old uid changes a message of the new numbering.
`RemovalsAreFinal`: a removal is never undone, excused or not, as long as the
cache shows that numbering.
`RetriesEnd`: a change fails at most `MaxRetries - 1` times plus once per replay.
The limit is looked at when a replay begins and never after, so each replay that
has the change in its snapshot by then adds one failure; `TriesLeft` counts those
that still hold it.

**`ImapPoolProofs`.**  `SlotAccounting`: the counter is in range and exact as
long as no slot was lost.  The invariant adds that the map has no entry while a
connect is under way, which is why the slot of a failing connect is its own.
`OperationsAreShort`: an operation has at most `8 * MaxRetries + 12` awaits, each
step uses one up, and neither a dying connection nor a disconnect of everything
gives one back.

**`ImapSingletonProofs`.**  `AccountsAreKeptApart` and `NoConnectionIsLost`.
The invariant `Inv` adds `KeyIsOwner` (`currentUserKey` names the client's
account or nobody's) and `Awaited`, what the operation may rely on after each
await: the heartbeat and the forced disconnects can clear the client under it
and never install one.  `ClientsAreWatched` is its second half by itself.
`OperationsEnd`: the variant `AwaitsLeft` falls with every step of the operation
and is left alone by everybody else.

**`ImapIdleProofs`.**  `LoopsReplaceEachOther` (types, replaced loops leave, one
loop per connection, `idleLoop` names a running loop) and `StopLeavesNothingOpen`
(open connections are known, quiet after a stop), for any number of accounts,
starts and stops.  The properties speak of the moments at which something could
go wrong; the invariant speaks of all that lead there: `Placed` says what each
call holds at each await, above all that a connection being dialed is nobody
else's; `Replaced` and `Apart` extend the two loop properties to every await of a
loop; `Stopped` says who is about to close a client that is still open while push
is stopped.  `ReplacedOnesLeave` and `OpenOnesAreKnown` state two parts by
themselves.  `LoopsEnd`: a reconnect has at most four awaits for each try it has
left, and a loop that is asked to stop at most four before the one that ends it.
`Placed` gives what the count needs, that a call outside a reconnect has no
tries.

**`MailRulesProofs`.**  `RulesActSafely` (types, actions are launched in their numbering,
nothing is acted on twice), `BatchesLoseNothing` (nothing is stepped over) and
`WorkStaysOnTheList` (waiting work is remembered), from one invariant `Inv`.
`Acting` puts the message in hand above the watermark and the rest of the batch
above the message; `HandledBelow` puts what the rules are through with at or
below the watermark; together they are why nothing is acted on twice.  `InOrder`
says where every row that was waiting when the batch was read is now, and
`Covered` that what waits is in the batch, or the batch was full, or somebody
noted it.  `EvaluateOutcome` states what `Evaluate` leaves behind, once, for the
three places that use it.  A batch holds the lowest waiting UIDs, hence the
lemmas about least and greatest elements (`SmallestIsLeast`,
`LargestIsGreatest`): the first is the well-foundedness of the naturals, the
second the same turned around under the bound `MaxUid`.
`RulesKeepTheirSpace` is one half of `RulesActSafely`.  `TheMarkGoesUp`: the
watermark goes back only when the folder was renumbered, and then to the largest
cached UID.  `CallsAreBounded`: every await takes a call to its end, its next
round, a later message or a later action, and nothing else takes it back; with
the bounds of `TypeOK` a call has finitely many.

**`AccountAuthProofs`.**  `TypesHold`, `NextHolderStartsClean`,
`HandlerCallsAreSpaced` and `VerdictsReachTheirMailbox`, for any number of
operations, holders and windows.  The service compares one number, so the proof
is about what that number can tell: `Issued` (nobody holds a generation from the
future), `Attributed` (a stamp that still matches was taken under an account, and
under the one that has the id now) and `Severed` (while nobody has the id, no stamp matches).
`ReportNeedsItsGeneration` says of all reports at once that they move something
only with the current generation; `Counted` ties each call of the handler to a
refresh under way or to its window.

`TypeCorrect` stands in every proof module under this name, but for
`AccountAuthProofs` (`TypesHold`).  Statements that only a proof module makes
(`TriesAreBounded`, `WaitIsShort`, `WaitsGetShorter`, `ReleaseFindsSomebody`,
`AwaitsAreBounded`, `MarkGoesUp`, `CallsMoveOn`, `RemovalsStay`,
`RetriesAreBounded`) were model-checked on the instances of the
runs before they were proved; every one of them is a consequence of the
specification alone.

Every safety invariant and action property of the passing runs is proved, and
both refinements.  Model-checked only is liveness, which the prover does not do
under fairness.  What it rests on besides fairness is proved for four of the six:

| Liveness | Proved, for every value of the constants |
|---|---|
| `NoStarvation` | `WaitIsBounded`, `EveryReleaseShortensTheWait`, `ReleaseIsNeverStuck` |
| `EveryMessageSettles` | `TriesEnd` |
| `QueueDrains` | `RetriesEnd` |
| `OperationEnds` | `OperationsAreShort` |
| `EveryRowGetsItsTurn` | for one call, `CallsAreBounded`; that the next message gets its turn is left to TLC |
| `TroubleIsShown` | nothing: which report comes next is the environment's choice |

## Where the code and what is said of it disagree

Four runs end in counterexamples.  `PROJECT.json` quotes the sentences under
`findings`.

1. *A confirmed cancellation* (`SendQueue_cancel`).  `rescheduleSendQueue`
   accepts a row in `sending`.  Postponing a message that is under dispatch makes
   it `queued`, then `cancelSendQueue` succeeds, and the dialogue delivers it.
2. *A change queued during a replay* (`OfflineOps_lost`).  The upsert keeps the
   row's id, the replay deletes by id what it has sent in an older version.
3. *The ended loop* (`ImapIdle_pinned`).  When the loop's condition is false at
   once its `finally` runs before `idleLoop` is assigned, and the promise of a
   loop that is over keeps every later `startIdle` of that connection from
   leaving one.
4. *A withdrawn consent* (`AccountAuth_silent`).  The warning exists for a
   password changed elsewhere and a revoked refresh token.  With the latter the
   configuration cannot be loaded as soon as no fresh access token is cached, and
   what fails there is reported by nobody: only a *missing* token is.

Six more are visible in the models and have no run of their own.

- *Slots and connections.*  The pool counts slots where its comments speak of
  connections: a connection that died unnoticed is replaced without giving its
  slot back (`imap.ts` 3495-3498), and after three of them every operation of the
  account waits thirty seconds and fails, until `disconnectAllPerAccount` clears
  the counters; in `ImapPool` that is `slots` leaving `"exact"`.
- *Rules and older mail.*  Rules are said to apply to mail that arrives from now
  on, but the watermark follows the largest UID evaluated: the newest page, older
  pages and search hits store single rows, trigger a pass, and move it over mail
  below that is not cached yet; in `MailRules` that is `RowStored` before the
  sync that stores the rest.
- *A refused STORE.*  "ImapFlow returns false on server NO/BAD" says
  `moveMessages` (`imap.ts` 2853), and throws; `setSeen` and `setFlagged` (2805,
  2816) and one path of `safeMessageDelete` (2912) drop the same boolean.  The
  replay then deletes the rows as done (`offlineReplay.ts` 215-218), and the
  handlers report success and update the cache.  "Changes you make offline will
  be synced" does not hold of these; in `OfflineOps` it is `Refused`.
- *The UIDVALIDITY check.*  "UIDs are stale" is found out once per replay and
  folder (`offlineReplay.ts` 184-199), and each command opens the mailbox again
  without looking (`imap.ts` 2804, 2851).  A renumbering in between sends the
  batch to whatever has the uids by then.  So does a row that carries no number,
  or the new number for an old uid: the handler reads it from `sync_state` after
  its await (`main.ts` 6706), when a whole sync may have passed.
- *Loads past the cooldown.*  `authRefreshCooldown.ts` (4-14) and `imap.ts`
  (685-691) promise that a provider which revoked the token is asked about once
  per window.  That holds of the calls of the handler (`OneCallPerWindow`).  But
  `requireAccountConfig` asks it too (`main.ts` 4738-4741, 3289-3329), on every
  load while no fresh token is cached, without the gate; and the handler empties
  the cache (4766).  With a revoked token, every sync pass therefore asks, window
  or not: in `AccountAuth`, `LoadFails`.
- *A verdict with a stale configuration.*  "A verdict derived from the stale
  config must not land on that new mailbox", says `main.ts` 4698-4704, and
  `accountAuthState.ts` (156-158) that every report takes a generation read
  before the first await of the operation that produced it.  The stamp of the
  configuration guards the missing credentials alone; a refused or accepted login
  reports with the stamp that `withOutcomeReporting` takes when the operation
  begins (`imap.ts` 598), by which time the id may have changed hands.  In
  `AccountAuth` that is `BeganStale`.

Two more behaviours meet no sentence that denies them, and are exceptions the
properties name.  The claim of the outbox looks at the status and not at
`send_at`, so a message postponed while the pass has it in its snapshot goes out
at once.  The heartbeat of the singleton clears the variables after an await in
which a live client may have been installed (`forgotten` in `OpenIsKnown`).

## What is not modelled

`PROJECT.json` lists every component with its status.  The reasons are of three
kinds.  *On the plan*: see below.  *Data rather than control*: parsing, the
full-text index, threading, search syntax and the AI guards decide on values and
have no interleavings; tests reach them.  *Outside*: files, the keychain, the
desktop, telemetry and the window's React state observe the rest and hardly feed
back.

Inside the modelled parts these are left out.  Outbox: the copy in the Sent
folder, notifications, contacts and database errors.  Offline queue: moves with
several destinations in one batch, the local mirror of a move, other folders.
Pool and singleton: certificate errors are among the errors that are thrown on;
what `ImapFlow` does is external and modelled as it is used: a connection is
usable or not, a command may fail for any reason, `logout` takes time and ends
the connection.  Push: the `exists` listener, verdicts for the auth state, and
the brake on refreshes in a row.  Mail rules: what happens between the launch of
an action and its command, where the server's number is not compared; what a rule matches and does, the
AI rules that get a copy of what was evaluated, and the cursors (`sinceUid`,
CONDSTORE) that decide which headers a sync fetches.

## Plan

What is left, in this order; each gets a run and, where a safety invariant
carries the component, a proof.

1. `PendingActions`: preview, confirmation, claim (`aiPendingActions.ts`, `ai.ts`
   497-700): one confirmation, one execution, within both expiries.
2. `PeriodicSync` with the pending-move registry, composed with the op locks: one
   pass per account; a moved message does not come back.
3. `AiBudget`: admissions under both windows, settled once, through crashes.
4. `SingleFlight`: answers are no older than the last invalidation before the
   question.
5. `OfflineOps` with several destinations in one batch and the local mirror of a
   move.
6. Proofs for the modules there are: the missed slots of `ImapPool` (how many
   operations it takes until the pool is closed), an abstract runner that
   `MailRules` implements (every stored row is evaluated once, in order, outside
   the exceptions), and one for the offline queue.
