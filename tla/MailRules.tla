------------------------------ MODULE MailRules ------------------------------
(***************************************************************************)
(* The static mail rules of one folder: runMailRules and runOnePass        *)
(* (electron/services/mailRulesRunner.ts), with the writers of the message *)
(* cache that trigger them (electron/main.ts, packages/net/imap.ts).       *)
(*                                                                         *)
(* Between two awaits JavaScript is not interrupted.  A pass awaits only   *)
(* executeRuleAction, so the messages it evaluates without a match are one *)
(* step: Evaluate picks the next message that matches, and everything      *)
(* below it is handed to the AI rules and left behind.                     *)
(*                                                                         *)
(* Messages are their UIDs.  The server may renumber the folder (a new     *)
(* UIDVALIDITY, `space`); `recorded` is what sync_state says of it.        *)
(***************************************************************************)
EXTENDS Integers, FiniteSets

CONSTANTS
  MaxUid,        \* bound: the largest UID
  MaxSpace,      \* bound: renumberings of the folder, plus one
  MaxPerPass,    \* MAIL_RULES_MAX_PER_PASS, 200 in the code
  MaxRounds,     \* MAIL_RULES_MAX_ROUNDS, 25 in the code
  MaxAttempts,   \* MAIL_RULES_MAX_ACTION_ATTEMPTS, 3 in the code
  MaxActions,    \* bound: actions of all rules that match one message
  MaxFaults,     \* bound: crashes and passes that throw
  KnownAtStart   \* is the folder known at startup: a subset of BOOLEAN

NoRow == -1      \* mail_rules_state has no row for the folder

ASSUME BoundsAssumption ==
  /\ MaxUid \in Nat /\ MaxSpace \in Nat \ {0} /\ MaxFaults \in Nat
  /\ MaxPerPass \in Nat \ {0} /\ MaxRounds \in Nat \ {0}
  /\ MaxAttempts \in Nat \ {0} /\ MaxActions \in Nat \ {0}
  /\ KnownAtStart \subseteq BOOLEAN

VARIABLES
  space, mail, top,      \* the server: numbering, UIDs, largest UID given out
  cache,                 \* UIDs with a row in `messages`
  recorded,              \* sync_state.uid_validity, 0 for null
  sync,                  \* the phase of a header sync
  owed,                  \* "yes": a writer is about to call processMailRules
  mark, validity,        \* mail_rules_state: watermark_uid, uid_validity
  attempts, pending,     \* actionAttempts, pendingRerun
  pc,                    \* "free": the key is not in inFlight
  round, valid,          \* runMailRules' round, runOnePass' uidValidity
  rest, full,            \* UIDs of the pass after `uid`; was the batch full
  uid, left,             \* the message acted on, actions left for it
  outcome,               \* how the pass ended
  faults,
  under,                 \* history: recorded when the action went out
  sampled, handled,      \* history: rows due at the sample, rows dealt with
  excuse                 \* history: why due rows may wait for a trigger

server == <<space, mail, top>>
table == <<mark, validity>>
pass == <<round, valid, rest, full, uid, left, outcome>>
vars == <<server, cache, recorded, sync, owed, table, attempts, pending, pc,
          pass, faults, under, sampled, handled, excuse>>

Uid == 1..MaxUid
Space == 0..MaxSpace

TypeOK ==
  /\ space \in Space \ {0} /\ mail \subseteq Uid /\ top \in 0..MaxUid
  /\ cache \subseteq Uid /\ recorded \in Space
  /\ sync \in {"idle", "changed", "refill", "fetching"}
  /\ owed \in {"yes", "no"}
  /\ mark \in {NoRow} \cup 0..MaxUid /\ validity \in Space
  /\ attempts \in [Uid -> 0..MaxAttempts - 1] /\ pending \in {"yes", "no"}
  /\ pc \in {"free", "acting", "ended"} /\ round \in 1..MaxRounds
  /\ valid \in Space /\ rest \subseteq Uid /\ full \in {"yes", "no"}
  /\ uid \in Uid \cup {0} /\ left \in 0..MaxActions
  /\ outcome \in {"done", "aborted", "threw"}
  /\ faults \in 0..MaxFaults
  /\ under \in Space
  /\ sampled \subseteq Uid /\ handled \subseteq cache
  /\ excuse \in {"none", "cap", "crash", "moved"}

Init ==
  /\ space = 1 /\ mail = {} /\ top = 0 /\ cache = {} /\ recorded = 0
  /\ sync = "idle" /\ owed = "no"
  /\ mark \in {IF k THEN 0 ELSE NoRow : k \in KnownAtStart}
  /\ validity = 0
  /\ attempts = [u \in Uid |-> 0] /\ pending = "no"
  /\ pc = "free" /\ round = 1 /\ valid = 0 /\ rest = {} /\ full = "no"
  /\ uid = 0 /\ left = 0 /\ outcome = "done" /\ faults = 0
  /\ under = 0 /\ sampled = {} /\ handled = {}
  /\ excuse = "none"

Largest(S) == CHOOSE m \in S : \A u \in S : u <= m
Smallest(S) == CHOOSE m \in S : \A u \in S : m <= u

GetMaxUidForFolder == IF cache = {} THEN 0 ELSE Largest(cache)

\* What a pass has to look at: cached above the watermark.
Due == IF mark = NoRow THEN {} ELSE {u \in cache : u > mark}

\* Faulty variant: ORDER BY uid DESC.
NewestUidsForRules ==
  {u \in Due : Cardinality({v \in Due : v >= u}) <= MaxPerPass}

\* The MaxPerPass lowest of them.
GetUidsForRulesSince ==
  {u \in Due : Cardinality({v \in Due : v <= u}) <= MaxPerPass}

Bumped ==
  /\ mark # NoRow /\ validity # 0 /\ recorded # 0
  /\ validity # recorded

\* Asked before each action and before each advance that follows an await.
SpaceChanged == valid # 0 /\ recorded # valid

-----------------------------------------------------------------------------
(* The runner *)

Ends(how) ==
  /\ pc' = "ended" /\ outcome' = how
  /\ rest' = {} /\ uid' = 0 /\ left' = 0 /\ under' = 0

\* What a call leaves of its locals.
NoCall ==
  /\ pc' = "free" /\ round' = 1 /\ valid' = 0 /\ rest' = {} /\ full' = "no"
  /\ uid' = 0 /\ left' = 0 /\ outcome' = "done" /\ under' = 0
  /\ sampled' = {}

\* The rest of the batch, from watermark m, up to the next match.  `touched`
\* are the messages this very step is done with.
Evaluate(m, batch, touched, rows) ==
  \/ /\ mark' = (IF batch = {} THEN m ELSE Largest(batch))
     /\ handled' = (handled \cup touched \cup batch) \cap rows
     /\ attempts' = [u \in Uid |-> IF u \in touched \cup batch THEN 0
                                   ELSE attempts[u]]
     /\ Ends("done")
  \/ \E u \in batch \cap rows, n \in 1..MaxActions :
       LET below == {v \in batch : v < u} IN
       /\ mark' = (IF below = {} THEN m ELSE Largest(below))
       /\ handled' = (handled \cup touched \cup below) \cap rows
       /\ attempts' = [v \in Uid |-> IF v \in touched \cup below THEN 0
                                     ELSE attempts[v]]
       /\ pc' = "acting" /\ uid' = u /\ left' = n
       /\ rest' = {v \in batch : v > u}
       /\ under' = recorded
       /\ UNCHANGED outcome

\* Faulty variant: starts over from 0, as Thunderbird does on a bump.
BaselineAtZero ==
  /\ mark' = 0 /\ validity' = recorded
  /\ Ends("done") /\ full' = "no" /\ sampled' = {}
  /\ UNCHANGED <<attempts, handled>>

\* A folder without a position, or with one of another numbering, is anchored
\* at the largest cached UID and nothing is evaluated.
Baseline ==
  /\ mark' = GetMaxUidForFolder /\ validity' = recorded
  /\ Ends("done") /\ full' = "no" /\ sampled' = {}
  /\ UNCHANGED <<attempts, handled>>

RunOnePass ==
  /\ valid' = recorded
  /\ IF mark = NoRow \/ Bumped
     THEN Baseline
     ELSE /\ validity' = (IF validity = 0 THEN recorded ELSE validity)
          /\ sampled' = Due
          /\ full' = (IF Cardinality(GetUidsForRulesSince) = MaxPerPass
                      THEN "yes" ELSE "no")
          /\ Evaluate(mark, GetUidsForRulesSince, {}, cache)
  /\ UNCHANGED faults

\* The database throws before the pass has touched anything.
PassThrows ==
  /\ faults < MaxFaults /\ faults' = faults + 1
  /\ Ends("threw")
  /\ UNCHANGED <<table, attempts, valid, full, sampled, handled>>

\* processMailRules, and runMailRules up to its first await.
Trigger ==
  /\ owed' = "no"
  /\ \/ /\ pc # "free"
        /\ pending' = "yes"
        /\ UNCHANGED <<table, attempts, pc, pass, faults, under, sampled,
                       handled, excuse>>
     \/ /\ pc = "free"
        /\ pending' = "no" /\ round' = 1 /\ excuse' = "none"
        /\ RunOnePass \/ PassThrows
  /\ UNCHANGED <<server, cache, recorded, sync>>

\* Faulty variant: a call that stopped early has used up its request.
ReleaseForgetful(served) ==
  /\ pending' = "no"
  /\ NoCall
  /\ UNCHANGED <<table, attempts, faults, handled>>

\* The key is given back; a call that did not do its work re-arms the marker.
Release(served) ==
  /\ pending' = (IF served THEN "no" ELSE "yes")
  /\ NoCall
  /\ UNCHANGED <<table, attempts, faults, handled>>

NextRound == pending = "yes" \/ full = "yes"

\* runMailRules after `await runOnePass`.  The last round gives up a request
\* it has taken, and a batch that was full.
RoundEnds ==
  /\ pc = "ended"
  /\ \/ /\ outcome # "done"
        /\ Release(FALSE) /\ UNCHANGED excuse
     \/ /\ outcome = "done" /\ ~NextRound
        /\ Release(TRUE) /\ UNCHANGED excuse
     \/ /\ outcome = "done" /\ NextRound /\ round = MaxRounds
        /\ Release(TRUE) /\ excuse' = "cap"
     \/ /\ outcome = "done" /\ NextRound /\ round < MaxRounds
        /\ pending' = "no" /\ round' = round + 1
        /\ RunOnePass \/ PassThrows
        /\ UNCHANGED excuse
  /\ UNCHANGED <<server, cache, recorded, sync, owed>>

Abort ==
  /\ Ends("aborted") /\ UNCHANGED mark

\* Faulty variant: the numbering is checked once per message.
NextActionUnchecked ==
  /\ left > 1
  /\ left' = left - 1 /\ under' = recorded
  /\ handled' = handled \cap cache'
  /\ UNCHANGED <<attempts, mark, pc, rest, uid, outcome>>

\* executeRuleAction resolves and another action of the message is left.
NextAction ==
  /\ left > 1
  /\ \/ SpaceChanged /\ Abort
     \/ /\ ~SpaceChanged
        /\ left' = left - 1 /\ under' = recorded
        /\ UNCHANGED <<mark, pc, rest, uid, outcome>>
  /\ handled' = handled \cap cache'
  /\ UNCHANGED attempts

\* It resolves and was the last one.
LastAction ==
  /\ left = 1
  /\ \/ /\ SpaceChanged /\ Abort
        /\ attempts' = [attempts EXCEPT ![uid] = 0]
        /\ handled' = handled \cap cache'
     \/ ~SpaceChanged /\ Evaluate(uid, rest, {uid}, cache')

\* A move takes the message off the folder and out of the cache; a flag, or a
\* target the account does not have, leaves both alone.
ActionDone ==
  /\ pc = "acting"
  /\ \/ UNCHANGED <<mail, cache>>
     \/ mail' = mail \ {uid} /\ cache' = cache \ {uid}
  /\ NextAction \/ LastAction
  /\ UNCHANGED <<space, top, recorded, sync, owed, validity, pending, round,
                 valid, full, faults, sampled, excuse>>

\* Faulty variant: one attempt too many.
LastAttemptLate == attempts[uid] >= MaxAttempts

LastAttempt == attempts[uid] + 1 >= MaxAttempts

\* Faulty variant: a failure is retried by the next pass without being counted.
ActionFailsUncounted ==
  /\ pc = "acting"
  /\ mail' \in {mail, mail \ {uid}}
  /\ Abort
  /\ UNCHANGED <<space, top, cache, recorded, sync, owed, validity, pending,
                 round, valid, full, faults, sampled, excuse, attempts,
                 handled>>

\* executeRuleAction rejects, perhaps after the server has moved the message.
\* The watermark stays and the pass stops, until the attempts are used up.
ActionFails ==
  /\ pc = "acting"
  /\ mail' \in {mail, mail \ {uid}}
  /\ \/ /\ ~LastAttempt
        /\ attempts' = [attempts EXCEPT ![uid] = @ + 1]
        /\ Abort /\ UNCHANGED handled
     \/ /\ LastAttempt
        /\ \/ /\ SpaceChanged /\ Abort
              /\ attempts' = [attempts EXCEPT ![uid] = 0]
              /\ UNCHANGED handled
           \/ ~SpaceChanged /\ Evaluate(uid, rest, {uid}, cache)
  /\ UNCHANGED <<space, top, cache, recorded, sync, owed, validity, pending,
                 round, valid, full, faults, sampled, excuse>>

-----------------------------------------------------------------------------
(* The server and the writers of the cache *)

runner == <<table, attempts, pending, pc, pass, under>>

Arrives ==
  /\ top < MaxUid
  /\ top' = top + 1 /\ mail' = mail \cup {top + 1}
  /\ UNCHANGED <<space, cache, recorded, sync, owed, runner, excuse, faults,
                 sampled, handled>>

\* Another folder's message is moved here and its row is stored under the UID
\* the server reports (COPYUID).  No rules are triggered.
MovedIn ==
  /\ top < MaxUid
  /\ top' = top + 1 /\ mail' = mail \cup {top + 1}
  /\ cache' = cache \cup {top + 1}
  /\ sampled' = sampled \ {top + 1} /\ handled' = handled \ {top + 1}
  /\ excuse' = "moved"
  /\ UNCHANGED <<space, recorded, sync, owed, runner, faults>>

\* The server renumbers what it has, in order.  A session in progress would
\* keep the old numbering, so no header sync is in one.
Renumbers ==
  /\ space < MaxSpace /\ sync \notin {"changed", "fetching"}
  /\ \E shift \in 0..MaxUid - Cardinality(mail) :
       LET n == shift + Cardinality(mail) IN
       mail' = shift + 1..n /\ top' = n
  /\ space' = space + 1
  /\ UNCHANGED <<cache, recorded, sync, owed, runner, excuse, faults,
                 sampled, handled>>

\* The newest page, an older page or the hits of a remote search.  None of
\* them looks at UIDVALIDITY, and each triggers the rules when it is stored.
RowStored ==
  /\ \E u \in mail \ cache :
       cache' = cache \cup {u} /\ sampled' = sampled \ {u}
  /\ owed' = "yes"
  /\ UNCHANGED <<server, recorded, sync, runner, excuse, faults, handled>>

Renumbered == recorded # 0 /\ recorded # space

Purge == cache' = {} /\ handled' = {}

\* Rows the server no longer has go; what it has and the cache has not is new.
Reconcile == cache' = cache \cap mail /\ handled' = handled \cap mail

\* fetchAllFolderHeaders up to the FETCH of the headers.  When it follows a
\* flags scan that saw a renumbering, priorSync is still the old one.
FullScan ==
  /\ \/ sync = "refill" /\ Purge
     \/ sync = "idle" /\ Renumbered /\ Purge
     \/ sync = "idle" /\ ~Renumbered /\ Reconcile
  /\ sync' = "fetching"
  /\ UNCHANGED <<server, recorded, owed, runner, excuse, faults, sampled>>

\* syncFolderFlagsOnly, for a server without CONDSTORE.
FlagsScan ==
  /\ sync = "idle"
  /\ \/ /\ Renumbered /\ Purge
        /\ sync' = "changed"
     \/ /\ ~Renumbered /\ Reconcile
        /\ sync' = "fetching"
  /\ UNCHANGED <<server, recorded, owed, runner, excuse, faults, sampled>>

\* The new UIDVALIDITY is recorded while the cache is still to be refilled.
FallsBack ==
  /\ sync = "changed"
  /\ recorded' = space /\ sync' = "refill"
  /\ UNCHANGED <<server, cache, owed, runner, excuse, faults, sampled,
                 handled>>

\* Windows of headers the cache has not are stored in ascending order.  One
\* that arrives meanwhile is taken along: the next sync would fetch it.
BatchStored ==
  /\ sync = "fetching" /\ mail \ cache # {}
  /\ LET u == Smallest(mail \ cache) IN
       cache' = cache \cup {u} /\ sampled' = sampled \ {u}
  /\ UNCHANGED <<server, recorded, sync, owed, runner, excuse, faults,
                 handled>>

\* upsertSyncState, then the trigger in the handler's `finally`.
SyncEnds ==
  /\ sync = "fetching" /\ mail \subseteq cache
  /\ recorded' = space
  /\ sync' = "idle" /\ owed' = "yes"
  /\ UNCHANGED <<server, cache, runner, excuse, faults, sampled, handled>>

SyncFails ==
  /\ sync # "idle"
  /\ sync' = "idle" /\ owed' = "yes"
  /\ UNCHANGED <<server, cache, recorded, runner, excuse, faults, sampled,
                 handled>>

\* The program ends and starts again: what is in memory is gone, and
\* seedMailRulesStateFromCache gives a folder it knows a position.
Restarts ==
  /\ faults < MaxFaults /\ faults' = faults + 1
  /\ IF mark = NoRow /\ (cache # {} \/ recorded # 0)
     THEN mark' = GetMaxUidForFolder /\ validity' = recorded
     ELSE UNCHANGED table
  /\ attempts' = [u \in Uid |-> 0] /\ pending' = "no" /\ NoCall
  /\ sync' = "idle" /\ owed' = "no"
  /\ excuse' = "crash"
  /\ UNCHANGED <<server, cache, recorded, handled>>

-----------------------------------------------------------------------------
Next ==
  \/ Trigger \/ RoundEnds \/ ActionDone \/ ActionFails
  \/ Arrives \/ MovedIn \/ Renumbers \/ RowStored
  \/ FlagsScan \/ FallsBack \/ FullScan \/ BatchStored
  \/ SyncEnds \/ SyncFails \/ Restarts

\* Actions are answered or time out, and the periodic sync keeps triggering.
Fairness ==
  /\ WF_vars(Trigger) /\ WF_vars(RoundEnds)
  /\ WF_vars(ActionDone \/ ActionFails)

Spec == Init /\ [][Next]_vars /\ Fairness

-----------------------------------------------------------------------------
\* An action is launched only while the recorded UIDVALIDITY is the one its pass
\* began with: a sync that records a renumbering during an action stops the next
\* one.  Not when nothing was recorded at the time, as the comment of
\* spaceChanged says; and between the launch and its command the server may
\* renumber the folder all the same, which nothing compares.
ActsInItsSpace == pc = "acting" /\ valid # 0 => under = valid

\* No action is applied to a message the rules are through with: whatever a
\* failure, a restart, a renumbering or an overlapping trigger makes the next
\* pass do, it starts above every cached message that was dealt with.
ActsOnce == pc = "acting" => uid \notin handled

\* The watermark passes a row that was waiting when the pass took its batch
\* only when the rules are through with it: evaluated without a match, acted
\* on to the end or given up after MaxAttempts.
NothingIsSteppedOver == \A u \in sampled \cap cache : u <= mark => u \in handled

\* When nobody is working on the folder and nobody is about to, mail that
\* waits for the rules, and a watermark of another numbering, are marked in
\* pendingRerun.  Excepted are the requests the last round of a call takes
\* with it, those a restart forgets, and rows a move has put here.
WorkIsRemembered ==
  (Due # {} \/ Bumped) =>
    \/ pc # "free" \/ pending = "yes"
    \/ owed = "yes" \/ sync # "idle"
    \/ excuse # "none"

\* Mail above the watermark gets its turn: a message whose action never
\* succeeds does not hold up those behind it for ever.
EveryRowGetsItsTurn == \A u \in Uid : u \in Due ~> u \notin Due
=============================================================================
