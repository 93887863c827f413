------------------------------ MODULE ImapPool ------------------------------
(***************************************************************************)
(* The per-account connection pool of packages/net/imap.ts, for one        *)
(* account: connectImapPerAccount, the slot counter behind it, the retry   *)
(* loop of withImapRetryPerAccount and disconnectAllPerAccount, which cuts *)
(* in at any moment.                                                       *)
(*                                                                         *)
(* Operations of one account run one at a time: withPerAccountOpLock is    *)
(* the KeyedPriorityMutex whose mutual exclusion is proved in              *)
(* ImapSchedulerProofs.  So there is one operation here, no two connects   *)
(* are ever under way together (perAccountConnecting has nothing to do),   *)
(* and a slot has at most one waiter, whom no release can wake.            *)
(***************************************************************************)
EXTENDS Integers

CONSTANTS
  MaxConnections,  \* MAX_CONNECTIONS_PER_ACCOUNT, 3 in the code
  MaxRetries       \* the parameter `retries`, 2 in the code

ASSUME BoundsAssumption == MaxConnections \in Nat \ {0} /\ MaxRetries \in Nat

VARIABLES
  client,     \* the account's entry in perAccountClients
  count,      \* its perAccountConnectionCount
  pc,         \* where the operation stands; "idle" when none runs
  caller,     \* who called connectImapPerAccount: fn or the retry loop
  err,        \* the error the retry loop looks at
  remaining, refreshes,  \* retries and token refreshes the loop has left
  slots       \* "lost" once a slot was, until the counts are cleared: only
              \* serves the properties

locals == <<remaining, refreshes>>
vars == <<client, count, pc, caller, err, locals, slots>>

\* Errors by what the retry loop does about them: "lost" matches its regular
\* expression, "auth" is classified so, "other" is thrown on.
Error == {"lost", "auth", "other"}

TypeOK ==
  /\ client \in {"none", "usable", "dead"}
  /\ count \in 0..MaxConnections
  /\ pc \in {"idle", "fn", "reconnect", "wait", "connect", "use", "catch",
             "refresh", "sleep"}
  /\ caller \in {"fn", "loop"}
  /\ err \in Error \cup {"none"}
  /\ remaining \in 0..MaxRetries
  /\ refreshes \in 0..1
  /\ slots \in {"exact", "lost"}

Init ==
  /\ client = "none" /\ count = 0 /\ slots = "exact"
  /\ pc = "idle" /\ caller = "fn" /\ err = "none"
  /\ remaining = 0 /\ refreshes = 0

-----------------------------------------------------------------------------
\* Faulty variant: releases what is not held.
ReleasedUnguarded == count - 1

\* releasePerAccountSlot.
Released == IF count > 0 THEN count - 1 ELSE count

Ends ==
  /\ pc' = "idle" /\ caller' = "fn" /\ err' = "none"
  /\ remaining' = 0 /\ refreshes' = 0

Throws(e) == pc' = "catch" /\ err' = e

\* withImapRetryPerAccount got the lock and calls fn.
Call ==
  /\ pc = "idle"
  /\ pc' = "fn" /\ remaining' = MaxRetries /\ refreshes' = 1
  /\ UNCHANGED <<client, count, caller, err, slots>>

\* connectImapPerAccount finds a usable connection.
Reuse ==
  /\ pc \in {"fn", "reconnect"} /\ client = "usable"
  /\ pc' = IF pc = "fn" THEN "use" ELSE "fn"
  /\ UNCHANGED <<client, count, caller, err, locals, slots>>

\* acquirePerAccountSlot has a slot.  A dead connection still in the map is
\* closed and forgotten; its slot is not released.
Acquire ==
  /\ pc \in {"fn", "reconnect"} /\ client # "usable"
  /\ count < MaxConnections
  /\ count' = count + 1 /\ client' = "none"
  /\ slots' = IF client = "none" THEN slots ELSE "lost"
  /\ pc' = "connect" /\ caller' = IF pc = "fn" THEN "fn" ELSE "loop"
  /\ UNCHANGED <<err, locals>>

\* acquirePerAccountSlot has none and waits.
Queue ==
  /\ pc \in {"fn", "reconnect"} /\ client # "usable"
  /\ count = MaxConnections
  /\ pc' = "wait"
  /\ UNCHANGED <<client, count, caller, err, locals, slots>>

\* The acquire timeout; its message is not one that is retried.
WaitTimesOut ==
  /\ pc = "wait"
  /\ Ends
  /\ UNCHANGED <<client, count, slots>>

ConnectOk ==
  /\ pc = "connect"
  /\ client' = "usable"
  /\ pc' = IF caller = "fn" THEN "use" ELSE "fn"
  /\ UNCHANGED <<count, caller, err, locals, slots>>

\* Faulty variant: a failed connect keeps its slot.
ConnectFailsKeeping(e) ==
  /\ pc = "connect"
  /\ IF caller = "fn" THEN Throws(e) /\ UNCHANGED <<caller, locals>> ELSE Ends
  /\ UNCHANGED <<client, count, slots>>

\* The slot is released here, and once more by the retry loop if fn connected;
\* a failure of the retry loop's own connect ends the operation.
ConnectFails(e) ==
  /\ pc = "connect"
  /\ count' = Released
  /\ IF caller = "fn" THEN Throws(e) /\ UNCHANGED <<caller, locals>> ELSE Ends
  /\ UNCHANGED <<client, slots>>

UseOk ==
  /\ pc = "use" /\ client = "usable"
  /\ Ends
  /\ UNCHANGED <<client, count, slots>>

UseFails(e) ==
  /\ pc = "use"
  /\ Throws(e)
  /\ UNCHANGED <<client, count, caller, locals, slots>>

\* The retry loop: the token is refreshed once,
CatchAuth ==
  /\ pc = "catch" /\ err = "auth" /\ refreshes = 1
  /\ refreshes' = 0
  /\ pc' = "refresh"
  /\ UNCHANGED <<client, count, caller, err, remaining, slots>>

\* Faulty variant: the retries are not counted.
CatchLostForever ==
  /\ pc = "catch" /\ err = "lost" /\ remaining > 0
  /\ client' = "none" /\ count' = Released
  /\ pc' = "sleep"
  /\ UNCHANGED <<caller, err, locals, slots>>

\* a lost connection is replaced after a second,
CatchLost ==
  /\ pc = "catch" /\ err = "lost" /\ remaining > 0
  /\ remaining' = remaining - 1
  /\ client' = "none" /\ count' = Released
  /\ pc' = "sleep"
  /\ UNCHANGED <<caller, err, refreshes, slots>>

\* everything else is thrown on.
CatchThrow ==
  /\ pc = "catch"
  /\ \/ err = "other"
     \/ err = "auth" /\ refreshes = 0
     \/ err = "lost" /\ remaining = 0
  /\ Ends
  /\ UNCHANGED <<client, count, slots>>

RefreshOk ==
  /\ pc = "refresh"
  /\ client' = "none" /\ count' = Released
  /\ pc' = "reconnect"
  /\ UNCHANGED <<caller, err, locals, slots>>

RefreshFails ==
  /\ pc = "refresh"
  /\ Ends
  /\ UNCHANGED <<client, count, slots>>

WakeUp ==
  /\ pc = "sleep"
  /\ pc' = "reconnect"
  /\ UNCHANGED <<client, count, caller, err, locals, slots>>

-----------------------------------------------------------------------------
\* The server or the network ends the connection: nothing in the pool notices.
Die ==
  /\ client = "usable" /\ client' = "dead"
  /\ UNCHANGED <<count, pc, caller, err, locals, slots>>

\* At the end of an offline sync and at shutdown, whatever is going on.
DisconnectAll ==
  /\ client # "none" \/ count # 0
  /\ client' = "none" /\ count' = 0
  /\ IF pc = "wait" THEN Ends ELSE UNCHANGED <<pc, caller, err, locals>>
  /\ slots' = IF pc = "connect" THEN "lost" ELSE "exact"

Step ==
  \/ Reuse \/ Acquire \/ Queue \/ WaitTimesOut \/ ConnectOk
  \/ \E e \in Error : ConnectFails(e) \/ UseFails(e)
  \/ UseOk \/ CatchAuth \/ CatchLost \/ CatchThrow
  \/ RefreshOk \/ RefreshFails \/ WakeUp

Next == Call \/ Step \/ Die \/ DisconnectAll

\* Every await of the operation ends: sockets and the acquire time out, the
\* token request has a deadline, the sleep is a second.
Fairness == WF_vars(Step)

Spec == Init /\ [][Next]_vars /\ Fairness
-----------------------------------------------------------------------------
\* Slots the operation and the map really account for.
Held == IF client # "none" \/ pc = "connect" THEN 1 ELSE 0

\* The counter is exact, through failing connects, token refreshes, retries
\* and releases of what was already released, as long as no connection died
\* unnoticed and no connect was under way when the pool was cleared.
SlotsExact == slots = "exact" => count = Held

\* Every operation gives the account's lock back.
OperationEnds == pc # "idle" ~> pc = "idle"
=============================================================================
