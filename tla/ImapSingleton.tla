---------------------------- MODULE ImapSingleton ----------------------------
(***************************************************************************)
(* The connection all accounts share for what the user does in the window  *)
(* (packages/net/imap.ts): connectImap, the retry loop of withImapRetry,   *)
(* the NOOP heartbeat and forceDisconnectImap, which a failed sync calls.  *)
(*                                                                         *)
(* Operations run one at a time under one op lock (ImapScheduler with a    *)
(* single key), so `connecting`, which lets parallel connects share one    *)
(* attempt, is always null when connectImap looks at it and is left out.   *)
(* The heartbeat and forceDisconnectImap ask no lock: they meet the        *)
(* operation in each of its awaits, over three module variables.           *)
(***************************************************************************)
EXTENDS Integers, FiniteSets

CONSTANTS
  Key,          \* the accounts' userKeys
  NoKey,
  Conn,         \* identities for the ImapFlow objects that matter at a time
  NoConn,
  MaxRetries,   \* the parameter `retries`, 2 in the code
  MaxForgotten  \* bound: forgotten connections before the heartbeat rests

ASSUME NoneAssumption == NoKey \notin Key /\ NoConn \notin Conn
ASSUME BoundsAssumption == MaxRetries \in Nat /\ MaxForgotten \in Nat

VARIABLES
  client, currentUserKey, noopTimer,  \* the module's variables
  conn,       \* what became of each connection
  owner,      \* the account it was opened for
  pc,         \* where the operation stands; "idle" when none runs
  account,    \* its account
  caller,     \* who called connectImap: fn or the retry loop
  held,       \* the connection the operation dials, uses or logs out
  err, remaining, refreshes,  \* the retry loop
  beat,       \* the heartbeat: "off", "noop", "logout"
  target,     \* the connection its NOOP or LOGOUT is for
  forgotten   \* connections the heartbeat lost; only serves the properties

globals == <<client, currentUserKey, noopTimer>>
world == <<conn, owner>>
loop == <<err, remaining, refreshes>>
op == <<pc, account, caller, held, loop>>
heart == <<beat, target>>
vars == <<globals, world, op, heart, forgotten>>

Error == {"lost", "auth", "other"}

TypeOK ==
  /\ client \in Conn \cup {NoConn} /\ currentUserKey \in Key \cup {NoKey}
  /\ noopTimer \in {"on", "off"}
  /\ conn \in [Conn -> {"none", "dialing", "open", "dead"}]
  /\ owner \in [Conn -> Key \cup {NoKey}]
  /\ pc \in {"idle", "fn", "reconnect", "evict", "dial", "use", "catch",
             "refresh", "reset", "sleep"}
  /\ account \in Key \cup {NoKey}
  /\ caller \in {"fn", "loop"}
  /\ held \in Conn \cup {NoConn}
  /\ err \in Error \cup {"none"}
  /\ remaining \in 0..MaxRetries /\ refreshes \in 0..1
  /\ beat \in {"off", "noop", "logout"} /\ target \in Conn \cup {NoConn}
  /\ forgotten \subseteq Conn

Init ==
  /\ client = NoConn /\ currentUserKey = NoKey /\ noopTimer = "off"
  /\ conn = [c \in Conn |-> "none"] /\ owner = [c \in Conn |-> NoKey]
  /\ pc = "idle" /\ account = NoKey /\ caller = "fn" /\ held = NoConn
  /\ err = "none" /\ remaining = 0 /\ refreshes = 0
  /\ beat = "off" /\ target = NoConn
  /\ forgotten = {}

Usable(c) == c # NoConn /\ conn[c] = "open"

\* A connection that is over and that no variable holds.
Unused(c) == conn[c] \in {"none", "dead"} /\ c \notin {client, held, target}

\* What logout() and close() leave behind.
Closed(c) == [conn EXCEPT ![c] = "dead"]

-----------------------------------------------------------------------------
Ends ==
  /\ pc' = "idle" /\ account' = NoKey /\ caller' = "fn" /\ held' = NoConn
  /\ err' = "none" /\ remaining' = 0 /\ refreshes' = 0

\* withImapRetry got the lock and calls fn.
Call(k) ==
  /\ pc = "idle"
  /\ pc' = "fn" /\ account' = k /\ remaining' = MaxRetries /\ refreshes' = 1
  /\ UNCHANGED <<globals, world, caller, held, err, heart, forgotten>>

Connects == pc \in {"fn", "reconnect"}

\* Faulty variant: any usable client will do.
MineAny == Usable(client)

\* connectImap's first question.
Mine == Usable(client) /\ currentUserKey = account

\* connectImap has a usable client of the account.
Reuse ==
  /\ Connects /\ Mine
  /\ IF pc = "fn" THEN pc' = "use" /\ held' = client
                  ELSE pc' = "fn" /\ UNCHANGED held
  /\ UNCHANGED <<globals, world, account, caller, loop, heart, forgotten>>

\* It has another account's, or a dead one, and awaits its logout.
Evict ==
  /\ Connects /\ ~Mine /\ client # NoConn
  /\ pc' = "evict" /\ held' = client
  /\ caller' = IF pc = "fn" THEN "fn" ELSE "loop"
  /\ UNCHANGED <<globals, world, account, loop, heart, forgotten>>

\* A new client: it becomes `client` only when it is connected.
Dials(c, from) ==
  /\ conn' = [from EXCEPT ![c] = "dialing"]
  /\ owner' = [owner EXCEPT ![c] = account]
  /\ currentUserKey' = account
  /\ pc' = "dial" /\ held' = c
  /\ forgotten' = forgotten \ {c}

Fresh == CHOOSE c \in Conn : Unused(c)

Dial ==
  /\ Connects /\ client = NoConn
  /\ \E c \in Conn : Unused(c)
  /\ Dials(Fresh, conn)
  /\ caller' = IF pc = "fn" THEN "fn" ELSE "loop"
  /\ UNCHANGED <<client, noopTimer, account, loop, heart>>

DialAfterEvict ==
  /\ pc = "evict"
  /\ \E c \in Conn : Unused(c)
  /\ client' = NoConn
  /\ Dials(Fresh, Closed(held))
  /\ UNCHANGED <<noopTimer, account, caller, loop, heart>>

DialOk ==
  /\ pc = "dial"
  /\ conn' = [conn EXCEPT ![held] = "open"]
  /\ client' = held /\ noopTimer' = "on"
  /\ IF caller = "fn" THEN pc' = "use" /\ UNCHANGED held
                      ELSE pc' = "fn" /\ held' = NoConn
  /\ UNCHANGED <<currentUserKey, owner, account, caller, loop, heart, forgotten>>

\* A failure of the retry loop's own connect ends the operation.
DialFails(e) ==
  /\ pc = "dial"
  /\ conn' = Closed(held)
  /\ IF currentUserKey = account
     THEN client' = NoConn /\ currentUserKey' = NoKey
     ELSE UNCHANGED <<client, currentUserKey>>
  /\ IF caller = "fn"
     THEN pc' = "catch" /\ err' = e /\ held' = NoConn
          /\ UNCHANGED <<account, caller, remaining, refreshes>>
     ELSE Ends
  /\ UNCHANGED <<noopTimer, owner, heart, forgotten>>

UseOk ==
  /\ pc = "use" /\ Usable(held)
  /\ Ends
  /\ UNCHANGED <<globals, world, heart, forgotten>>

UseFails(e) ==
  /\ pc = "use"
  /\ pc' = "catch" /\ err' = e /\ held' = NoConn
  /\ UNCHANGED <<globals, world, account, caller, remaining, refreshes, heart, forgotten>>

-----------------------------------------------------------------------------
\* The retry loop's catch.

AfterReset == IF err = "auth" THEN "reconnect" ELSE "sleep"

\* Reset the singleton: stop the heartbeat, await the client's logout, clear.
Resets ==
  /\ noopTimer' = "off"
  /\ IF client = NoConn
     THEN pc' = AfterReset /\ currentUserKey' = NoKey /\ UNCHANGED held
     ELSE pc' = "reset" /\ held' = client /\ UNCHANGED currentUserKey
  /\ UNCHANGED <<client, world, account, caller, err, heart, forgotten>>

CatchAuth ==
  /\ pc = "catch" /\ err = "auth" /\ refreshes = 1
  /\ pc' = "refresh" /\ refreshes' = 0
  /\ UNCHANGED <<globals, world, account, caller, held, err, remaining, heart, forgotten>>

RefreshOk ==
  /\ pc = "refresh"
  /\ Resets
  /\ UNCHANGED <<remaining, refreshes>>

RefreshFails ==
  /\ pc = "refresh"
  /\ Ends
  /\ UNCHANGED <<globals, world, heart, forgotten>>

\* Faulty variant: the retries are counted and have no end.
CatchLostAlways ==
  /\ pc = "catch" /\ err = "lost"
  /\ remaining' = remaining - 1
  /\ Resets
  /\ UNCHANGED refreshes

CatchLost ==
  /\ pc = "catch" /\ err = "lost" /\ remaining > 0
  /\ remaining' = remaining - 1
  /\ Resets
  /\ UNCHANGED refreshes

CatchThrow ==
  /\ pc = "catch"
  /\ \/ err = "other"
     \/ err = "auth" /\ refreshes = 0
     \/ err = "lost" /\ remaining = 0
  /\ Ends
  /\ UNCHANGED <<globals, world, heart, forgotten>>

\* Faulty variant: the client is forgotten before its logout, and not closed.
ResetDoneLeavingOpen ==
  /\ pc = "reset"
  /\ client' = NoConn /\ currentUserKey' = NoKey
  /\ pc' = AfterReset /\ held' = NoConn
  /\ UNCHANGED <<noopTimer, world, account, caller, loop, heart, forgotten>>

ResetDone ==
  /\ pc = "reset"
  /\ conn' = Closed(held)
  /\ client' = NoConn /\ currentUserKey' = NoKey
  /\ pc' = AfterReset /\ held' = NoConn
  /\ UNCHANGED <<noopTimer, owner, account, caller, loop, heart, forgotten>>

WakeUp ==
  /\ pc = "sleep"
  /\ pc' = "reconnect"
  /\ UNCHANGED <<globals, world, account, caller, held, loop, heart, forgotten>>

-----------------------------------------------------------------------------
\* The heartbeat.  Its NOOP and LOGOUT are over long before the next beat.

Beat ==
  /\ beat = "off" /\ noopTimer = "on" /\ Usable(client)
  /\ Cardinality(forgotten) < MaxForgotten
  /\ beat' = "noop" /\ target' = client
  /\ UNCHANGED <<globals, world, op, forgotten>>

NoopOk ==
  /\ beat = "noop" /\ Usable(target)
  /\ beat' = "off" /\ target' = NoConn
  /\ UNCHANGED <<globals, world, op, forgotten>>

\* The last three assignments, whatever the client is by now.
Clears ==
  /\ client' = NoConn /\ currentUserKey' = NoKey /\ noopTimer' = "off"
  /\ beat' = "off" /\ target' = NoConn

\* The NOOP's connection died or was closed.  The catch looks at the client
\* anew, and logs out the one that is there.
NoopFails ==
  /\ beat = "noop" /\ ~Usable(target)
  /\ IF client = NoConn
     THEN Clears
     ELSE beat' = "logout" /\ target' = client /\ UNCHANGED globals
  /\ UNCHANGED <<world, op, forgotten>>

\* Faulty variant: spares a client that is not the one it logged out, and
\* stops its timer all the same.
LogoutDoneSparing ==
  /\ beat = "logout"
  /\ conn' = Closed(target)
  /\ IF client = target THEN client' = NoConn /\ currentUserKey' = NoKey
                        ELSE UNCHANGED <<client, currentUserKey>>
  /\ noopTimer' = "off" /\ beat' = "off" /\ target' = NoConn
  /\ UNCHANGED <<owner, op, forgotten>>

\* A client that was installed during the LOGOUT is cleared, not closed.
LogoutDone ==
  /\ beat = "logout"
  /\ conn' = Closed(target)
  /\ Clears
  /\ forgotten' = IF client \notin {NoConn, target} /\ Usable(client)
                  THEN forgotten \cup {client} ELSE forgotten
  /\ UNCHANGED <<owner, op>>

-----------------------------------------------------------------------------
\* A sync that ended with a timeout, of any account and at any moment.
forceDisconnectImap ==
  /\ client # NoConn \/ noopTimer = "on"
  /\ noopTimer' = "off"
  /\ IF client # NoConn
     THEN conn' = Closed(client) /\ client' = NoConn /\ currentUserKey' = NoKey
     ELSE UNCHANGED <<conn, client, currentUserKey>>
  /\ UNCHANGED <<owner, op, heart, forgotten>>

\* The server or the network ends a connection.
Die(c) ==
  /\ conn[c] = "open"
  /\ conn' = Closed(c)
  /\ UNCHANGED <<globals, owner, op, heart, forgotten>>

Step ==
  \/ Reuse \/ Evict \/ Dial \/ DialAfterEvict \/ DialOk \/ UseOk
  \/ \E e \in Error : DialFails(e) \/ UseFails(e)
  \/ CatchAuth \/ RefreshOk \/ RefreshFails \/ CatchLost \/ CatchThrow
  \/ ResetDone \/ WakeUp

Next ==
  \/ \E k \in Key : Call(k)
  \/ Step
  \/ Beat \/ NoopOk \/ NoopFails \/ LogoutDone
  \/ forceDisconnectImap
  \/ \E c \in Conn : Die(c)

Spec == Init /\ [][Next]_vars
-----------------------------------------------------------------------------
\* An operation never works on another account's mailbox: the connection it
\* uses was opened for its account, whatever the heartbeat and the forced
\* disconnects did to the variables between its awaits.
UsesItsOwnAccount == pc = "use" => owner[held] = account

\* Nobody leaves a live connection behind: one that is open is the client, or
\* the heartbeat cleared it when it was installed during its own LOGOUT.
OpenIsKnown ==
  \A c \in Conn : conn[c] = "open" => c = client \/ c \in forgotten

\* A client that is there to stay is kept alive: the timer runs for it.
ClientHasHeartbeat ==
  Usable(client) /\ noopTimer = "off" => pc = "reset" /\ held = client

\* The awaits an operation can still meet: positions are counted back from its
\* end, and each retry and the one refresh buy another way through them.
AwaitsLeft ==
  11 * (remaining + refreshes) +
  CASE pc = "idle" -> 0
    [] pc = "catch" -> 1
    [] pc = "use" -> 2
    [] pc = "dial" -> IF caller = "fn" THEN 3 ELSE 6
    [] pc = "evict" -> IF caller = "fn" THEN 4 ELSE 7
    [] pc = "fn" -> 5
    [] pc = "reconnect" -> 8
    [] pc = "sleep" -> 9
    [] pc = "reset" -> 10
    [] OTHER -> 11

\* Every step of an operation brings it nearer to giving the op lock back, and
\* nothing that meets it in an await sets it back: neither the heartbeat nor a
\* forced disconnect, which both take the client from under it, keeps it
\* connecting, evicting and resetting for ever.
OperationsAreShort ==
  [][/\ Step => AwaitsLeft' \in 0..AwaitsLeft - 1
     /\ pc # "idle" => AwaitsLeft' <= AwaitsLeft]_vars
=============================================================================
