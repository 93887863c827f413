------------------------------- MODULE ImapIdle -------------------------------
(***************************************************************************)
(* The push connection (packages/net/imap.ts): connectIdle, startIdle with *)
(* the loop it leaves behind, and stopIdle.  There is one connection for   *)
(* all accounts, described by five module variables that nothing locks.    *)
(* The window starts push when the user opens an account and stops it when *)
(* he leaves, without waiting for either (src/App.tsx), account removal    *)
(* and quit stop it too: starts, stops and loops meet in all their awaits. *)
(*                                                                         *)
(* A call of startIdle and the loop it leaves are one identity.  The       *)
(* mailbox is always INBOX.  Left out: the `exists` listener, which goes   *)
(* with its connection, the verdicts reported to the main process, and the *)
(* brake on refreshes in a row, which turns a refresh into a sleep.        *)
(***************************************************************************)
EXTENDS Integers, FiniteSets

CONSTANTS
  Key,           \* the accounts' userKeys
  NoKey,
  Call,          \* calls of startIdle under way, and their loops
  NoCall,
  Over,          \* as idleLoop: the promise of a loop that has ended
  Stop,          \* calls of stopIdle under way
  Conn,          \* identities for the ImapFlow objects that matter at a time
  NoConn,
  MaxReconnect   \* AUTH_REFRESH_MAX_RECONNECT_ATTEMPTS, 5 in the code

ASSUME NoneAssumption ==
  NoKey \notin Key /\ NoConn \notin Conn /\ NoCall \notin Call
  /\ Over \notin Call /\ Over # NoCall
ASSUME BoundsAssumption == MaxReconnect \in Nat \ {0}

VARIABLES
  idleClient, idleUserKey, idleMailbox, idleLoop, idleStop,  \* the module's
  open,          \* the connections that are up
  pc,            \* where each start, and then its loop, stands
  account,       \* its account
  mine,          \* its `c`: the connection it closes, dials or idles on
  attempt,       \* its attempt to reconnect; 0 in startIdle's own connect
  stopPc, stopConn, awaited,  \* each stop: its connection and loop
  lost,          \* open connections that a variable forgot; for the properties
  revived        \* loops that reconnected after they were replaced; likewise

globals == <<idleClient, idleUserKey, idleMailbox, idleLoop, idleStop>>
calls == <<pc, account, mine, attempt>>
stops == <<stopPc, stopConn, awaited>>
history == <<lost, revived>>
vars == <<globals, open, calls, stops, history>>

Starting == {"closing", "dialing", "selecting"}
Looping == {"parked", "refreshing", "teardown", "dropfresh", "backoff", "pause"}

\* The loop of x has not ended.
Live(x) == pc[x] \in Looping \/ (pc[x] \in Starting /\ attempt[x] > 0)

TypeOK ==
  /\ idleClient \in Conn \cup {NoConn} /\ idleUserKey \in Key \cup {NoKey}
  /\ idleMailbox \in {"none", "inbox"} /\ idleLoop \in Call \cup {NoCall, Over}
  /\ idleStop \in {"yes", "no"}
  /\ open \subseteq Conn
  /\ pc \in [Call -> {"off"} \cup Starting \cup Looping]
  /\ account \in [Call -> Key \cup {NoKey}]
  /\ mine \in [Call -> Conn \cup {NoConn}]
  /\ attempt \in [Call -> 0..MaxReconnect]
  /\ stopPc \in [Stop -> {"off", "logout", "wait"}]
  /\ stopConn \in [Stop -> Conn \cup {NoConn}]
  /\ awaited \in [Stop -> Call \cup {NoCall}]
  /\ lost \subseteq Conn /\ revived \subseteq Call

Init ==
  /\ idleClient = NoConn /\ idleUserKey = NoKey /\ idleMailbox = "none"
  /\ idleLoop = NoCall /\ idleStop = "no"
  /\ open = {}
  /\ pc = [x \in Call |-> "off"] /\ account = [x \in Call |-> NoKey]
  /\ mine = [x \in Call |-> NoConn] /\ attempt = [x \in Call |-> 0]
  /\ stopPc = [s \in Stop |-> "off"] /\ stopConn = [s \in Stop |-> NoConn]
  /\ awaited = [s \in Stop |-> NoCall]
  /\ lost = {} /\ revived = {}

Usable(c) == c \in open

\* No variable holds c.  Its identity is taken for another once it is closed.
Unheld(c) ==
  /\ c # idleClient
  /\ \A x \in Call : mine[x] # c
  /\ \A s \in Stop : stopConn[s] # c

\* Setting idleClient to d when closed is closed: another open client that was
\* there is forgotten.
Forgets(d, closed) ==
  lost' = IF Usable(idleClient) /\ idleClient # d
          THEN (lost \cup {idleClient}) \ {closed} ELSE lost \ {closed}

At(x, p) == pc' = [pc EXCEPT ![x] = p]

-----------------------------------------------------------------------------
\* Where a call or loop ends.

Leaves(x) ==
  /\ At(x, "off")
  /\ account' = [account EXCEPT ![x] = NoKey]
  /\ mine' = [mine EXCEPT ![x] = NoConn]
  /\ attempt' = [attempt EXCEPT ![x] = 0]

\* A stop that waited for the loop returns.
Returns(x) ==
  /\ awaited' = [s \in Stop |-> IF awaited[s] = x THEN NoCall ELSE awaited[s]]
  /\ stopPc' = [s \in Stop |-> IF awaited[s] = x /\ stopPc[s] = "wait"
                              THEN "off" ELSE stopPc[s]]

\* The loop ends; its finally clears idleLoop if that is still its promise.
EndsAmong(x, back) ==
  /\ Leaves(x) /\ Returns(x)
  /\ revived' = back \ {x}
  /\ idleLoop' = IF idleLoop = x THEN NoCall ELSE idleLoop

Ends(x) == EndsAmong(x, revived)

\* The condition of the loop that idles on c.
Continues(c) == idleStop = "no" /\ idleClient = c /\ Usable(c)

\* Back at the top of the loop.
Loops(x) ==
  IF Continues(mine[x])
  THEN At(x, "parked") /\ UNCHANGED <<idleLoop, account, mine, attempt, stopPc, awaited, revived>>
  ELSE Ends(x)

\* The new loop of x idles on c, if its condition holds at once.  If not, its
\* finally runs before `idleLoop = ownLoopPromise`, which keeps an ended loop.
LoopBegins(x, k, c) ==
  IF idleStop' = "no" /\ idleClient' = c
  THEN /\ At(x, "parked") /\ mine' = [mine EXCEPT ![x] = c]
       /\ account' = [account EXCEPT ![x] = k]
       /\ idleLoop' = x /\ UNCHANGED attempt
  ELSE Leaves(x) /\ idleLoop' = Over

\* Faulty variant: startIdle does not ask whether there is a loop.
StartEndsLooping(x, k, c) == LoopBegins(x, k, c)

\* startIdle's end: it leaves a loop unless idleLoop says there is one.
StartEnds(x, k, c) ==
  IF idleLoop # NoCall THEN Leaves(x) /\ UNCHANGED idleLoop
                       ELSE LoopBegins(x, k, c)

-----------------------------------------------------------------------------
\* connectIdle, called by startIdle (attempt 0) and by the loop.

\* A usable connection of the account is there.
Mine(k) == Usable(idleClient) /\ idleUserKey = k

\* startIdle, from the account's own client: no await before it is used.
StartReusing(x, k) ==
  /\ pc[x] = "off" /\ Mine(k)
  /\ idleStop' = "no" /\ UNCHANGED <<idleClient, idleUserKey, idleMailbox>>
  /\ IF idleMailbox = "inbox"
     THEN StartEnds(x, k, idleClient)
     ELSE /\ At(x, "selecting") /\ mine' = [mine EXCEPT ![x] = idleClient]
          /\ account' = [account EXCEPT ![x] = k]
          /\ UNCHANGED <<idleLoop, attempt>>
  /\ UNCHANGED <<open, stops, history>>

\* No client: dial.  Another account's, or a dead one, is closed first.
Dials(x, k) ==
  /\ idleUserKey' = k
  /\ At(x, "dialing")
  /\ \E c \in Conn \ open : Unheld(c) /\ mine' = [mine EXCEPT ![x] = c]

Connects(x, k) ==
  /\ IF idleClient = NoConn
     THEN Dials(x, k)
     ELSE /\ At(x, "closing") /\ mine' = [mine EXCEPT ![x] = idleClient]
          /\ UNCHANGED idleUserKey
  /\ UNCHANGED <<idleClient, idleMailbox, idleLoop, idleStop, open>>

Start(x, k) ==
  /\ pc[x] = "off" /\ ~Mine(k)
  /\ account' = [account EXCEPT ![x] = k]
  /\ Connects(x, k)
  /\ UNCHANGED <<attempt, stops, history>>

\* The globals are cleared when the logout is over, whoever set them since.
CloseDone(x) ==
  /\ pc[x] = "closing"
  /\ Dials(x, account[x])
  /\ open' = open \ {mine[x]}
  /\ idleClient' = NoConn /\ idleMailbox' = "none" /\ idleLoop' = NoCall
  /\ Forgets(NoConn, mine[x])
  /\ UNCHANGED <<idleStop, account, attempt, stops, revived>>

\* Faulty variant: a loop that reconnects does not look.
AfterRedialHeedless == "selecting"

\* A stop since the old client's logout: the fresh one is closed at once.
AfterRedial == IF idleStop = "yes" THEN "dropfresh" ELSE "selecting"

\* The connection is up and becomes the client.  A loop that reconnects sees a
\* stop here; startIdle takes back a stop that was called since it began.
DialOk(x) ==
  /\ pc[x] = "dialing"
  /\ open' = open \cup {mine[x]}
  /\ idleClient' = mine[x]
  /\ Forgets(mine[x], NoConn)
  /\ IF attempt[x] > 0
     THEN /\ At(x, AfterRedial)
          /\ UNCHANGED <<idleStop, idleLoop, account, mine, attempt>>
     ELSE /\ idleStop' = "no"
          /\ IF idleMailbox = "inbox"
             THEN StartEnds(x, account[x], mine[x])
             ELSE At(x, "selecting") /\ UNCHANGED <<idleLoop, account, mine, attempt>>
  /\ UNCHANGED <<idleUserKey, idleMailbox, stops, revived>>

SelectOk(x) ==
  /\ pc[x] = "selecting" /\ attempt[x] = 0 /\ Usable(mine[x])
  /\ idleMailbox' = "inbox"
  /\ UNCHANGED <<idleClient, idleUserKey, idleStop>>
  /\ StartEnds(x, account[x], mine[x])
  /\ UNCHANGED <<open, stops, history>>

\* startIdle throws.
StartFails(x) ==
  /\ pc[x] \in {"dialing", "selecting"} /\ attempt[x] = 0
  /\ Leaves(x)
  /\ UNCHANGED <<globals, open, stops, history>>

-----------------------------------------------------------------------------
\* The loop.

\* An IDLE of 24 minutes, or one that the server or a logout ended.
ParkOk(x) ==
  /\ pc[x] = "parked"
  /\ Loops(x)
  /\ UNCHANGED <<idleClient, idleUserKey, idleMailbox, idleStop, open, stopConn, lost>>

\* It throws: a stop or an error no retry can mend ends the loop.
ParkFails(x) ==
  /\ pc[x] = "parked"
  /\ Ends(x)
  /\ UNCHANGED <<idleClient, idleUserKey, idleMailbox, idleStop, open, stopConn, lost>>

\* The network fails, or the token is refused once too often: sleep.
ParkBackoff(x) ==
  /\ pc[x] = "parked" /\ idleStop = "no"
  /\ At(x, "backoff")
  /\ UNCHANGED <<globals, open, account, mine, attempt, stops, history>>

ParkAuth(x) ==
  /\ pc[x] = "parked" /\ idleStop = "no"
  /\ At(x, "refreshing")
  /\ UNCHANGED <<globals, open, account, mine, attempt, stops, history>>

\* No token, from a handler that failed or rests after a failure.
RefreshFails(x) ==
  /\ pc[x] = "refreshing"
  /\ At(x, "backoff")
  /\ UNCHANGED <<globals, open, account, mine, attempt, stops, history>>

RefreshOk(x) ==
  /\ pc[x] = "refreshing"
  /\ IF idleStop = "yes"
     THEN Ends(x)
     ELSE /\ At(x, "teardown")
          /\ UNCHANGED <<idleLoop, account, mine, attempt, stopPc, awaited, revived>>
  /\ UNCHANGED <<idleClient, idleUserKey, idleMailbox, idleStop, open, stopConn, lost>>

BackoffDone(x) ==
  /\ pc[x] = "backoff"
  /\ Loops(x)
  /\ UNCHANGED <<idleClient, idleUserKey, idleMailbox, idleStop, open, stopConn, lost>>

-----------------------------------------------------------------------------
\* The bounded loop that reconnects with the fresh token.

\* The old client is logged out and the globals are cleared, whoever's they
\* are by now.
TeardownDone(x) ==
  /\ pc[x] = "teardown"
  /\ idleClient' = NoConn /\ idleMailbox' = "none"
  /\ open' = open \ {mine[x]}
  /\ Forgets(NoConn, mine[x])
  /\ IF idleStop = "yes"
     THEN Ends(x) /\ idleUserKey' = NoKey
     ELSE /\ Dials(x, account[x])
          /\ attempt' = [attempt EXCEPT ![x] = 1]
          /\ UNCHANGED <<idleLoop, account, stopPc, awaited, revived>>
  /\ UNCHANGED <<idleStop, stopConn>>

DropDone(x) ==
  /\ pc[x] = "dropfresh"
  /\ open' = open \ {mine[x]} /\ lost' = lost \ {mine[x]}
  /\ Ends(x)
  /\ UNCHANGED <<idleClient, idleUserKey, idleMailbox, idleStop, stopConn>>

\* The loops that idle on c and were replaced: c is the client again.
BroughtBack(c) == revived \cup {y \in Call : Live(y) /\ mine[y] = c /\ y # idleLoop}

ReselectOk(x) ==
  /\ pc[x] = "selecting" /\ attempt[x] > 0 /\ Usable(mine[x])
  /\ idleMailbox' = "inbox" /\ idleClient' = mine[x]
  /\ Forgets(mine[x], NoConn)
  /\ IF idleStop = "no"
     THEN /\ At(x, "parked") /\ attempt' = [attempt EXCEPT ![x] = 0]
          /\ revived' = BroughtBack(mine[x])
          /\ UNCHANGED <<idleLoop, account, mine, stopPc, awaited>>
     ELSE EndsAmong(x, BroughtBack(mine[x]))
  /\ UNCHANGED <<idleUserKey, idleStop, open, stopConn>>

\* Faulty variant: the attempts are counted and have no end.
ReconnectFailsOn(x) ==
  /\ pc[x] \in {"dialing", "selecting"} /\ attempt[x] > 0
  /\ \/ Ends(x)
     \/ /\ At(x, "pause") /\ mine' = [mine EXCEPT ![x] = NoConn]
        /\ UNCHANGED <<idleLoop, account, attempt, stopPc, awaited, revived>>
  /\ UNCHANGED <<idleClient, idleUserKey, idleMailbox, idleStop, open, stopConn, lost>>

\* A reconnect that fails for good, or for the last time, ends the loop.
ReconnectFails(x) ==
  /\ pc[x] \in {"dialing", "selecting"} /\ attempt[x] > 0
  /\ \/ Ends(x)
     \/ /\ attempt[x] < MaxReconnect
        /\ At(x, "pause") /\ mine' = [mine EXCEPT ![x] = NoConn]
        /\ UNCHANGED <<idleLoop, account, attempt, stopPc, awaited, revived>>
  /\ UNCHANGED <<idleClient, idleUserKey, idleMailbox, idleStop, open, stopConn, lost>>

\* The next attempt, from whatever client is there.
PauseDone(x) ==
  /\ pc[x] = "pause"
  /\ IF idleStop = "yes"
     THEN Ends(x) /\ UNCHANGED <<idleClient, idleUserKey, idleMailbox, idleStop, open>>
     ELSE /\ attempt' = [attempt EXCEPT ![x] = @ + 1]
          /\ IF Mine(account[x])
             THEN /\ At(x, "selecting") /\ mine' = [mine EXCEPT ![x] = idleClient]
                  /\ UNCHANGED <<globals, open>>
             ELSE Connects(x, account[x])
          /\ UNCHANGED <<account, stopPc, awaited, revived>>
  /\ UNCHANGED <<stopConn, lost>>

-----------------------------------------------------------------------------
\* stopIdle: clear the globals, then close the client, then await the loop.

\* A stop with nothing to wait for only changes the globals.
After(loop) == IF loop \in Call THEN "wait" ELSE "off"

\* Faulty variant: the client and its account are not cleared at once.
StopBeginsLate(s) ==
  /\ stopPc[s] = "off"
  /\ idleStop' = "yes" /\ idleLoop' = NoCall
  /\ stopPc' = [stopPc EXCEPT ![s] =
                  IF idleClient # NoConn THEN "logout" ELSE After(idleLoop)]
  /\ stopConn' = [stopConn EXCEPT ![s] = idleClient]
  /\ awaited' = [awaited EXCEPT ![s] = IF idleLoop \in Call THEN idleLoop ELSE NoCall]
  /\ UNCHANGED <<idleClient, idleUserKey, idleMailbox, open, calls, history>>

\* Faulty variant: the client is cleared and never logged out.
StopBeginsForgetting(s) ==
  /\ stopPc[s] = "off"
  /\ idleStop' = "yes"
  /\ idleClient' = NoConn /\ idleUserKey' = NoKey /\ idleMailbox' = "none"
  /\ idleLoop' = NoCall
  /\ stopPc' = [stopPc EXCEPT ![s] = After(idleLoop)]
  /\ awaited' = [awaited EXCEPT ![s] = IF idleLoop \in Call THEN idleLoop ELSE NoCall]
  /\ UNCHANGED <<open, calls, stopConn, history>>

StopBegins(s) ==
  /\ stopPc[s] = "off"
  /\ idleStop' = "yes"
  /\ idleClient' = NoConn /\ idleUserKey' = NoKey /\ idleMailbox' = "none"
  /\ idleLoop' = NoCall
  /\ stopPc' = [stopPc EXCEPT ![s] =
                  IF idleClient # NoConn THEN "logout" ELSE After(idleLoop)]
  /\ stopConn' = [stopConn EXCEPT ![s] = idleClient]
  /\ awaited' = [awaited EXCEPT ![s] = IF idleLoop \in Call THEN idleLoop ELSE NoCall]
  /\ UNCHANGED <<open, calls, history>>

StopLogoutDone(s) ==
  /\ stopPc[s] = "logout"
  /\ open' = open \ {stopConn[s]} /\ lost' = lost \ {stopConn[s]}
  /\ stopPc' = [stopPc EXCEPT ![s] = After(awaited[s])]
  /\ stopConn' = [stopConn EXCEPT ![s] = NoConn]
  /\ UNCHANGED <<globals, calls, awaited, revived>>

\* The server or the network ends a connection.
Die(c) ==
  /\ c = idleClient \/ Unheld(c)
     \/ \E x \in Call : mine[x] = c /\ pc[x] \in {"parked", "backoff", "selecting"}
  /\ open' = open \ {c} /\ lost' = lost \ {c}
  /\ UNCHANGED <<globals, calls, stops, revived>>

LoopStep(x) ==
  \/ CloseDone(x) \/ DialOk(x) \/ SelectOk(x) \/ StartFails(x)
  \/ ParkOk(x) \/ ParkFails(x) \/ ParkBackoff(x) \/ ParkAuth(x)
  \/ RefreshFails(x) \/ RefreshOk(x) \/ BackoffDone(x)
  \/ TeardownDone(x) \/ DropDone(x) \/ ReselectOk(x) \/ ReconnectFails(x)
  \/ PauseDone(x)

Next ==
  \/ \E x \in Call, k \in Key : StartReusing(x, k) \/ Start(x, k)
  \/ \E x \in Call : LoopStep(x)
  \/ \E s \in Stop : StopBegins(s) \/ StopLogoutDone(s)
  \/ \E c \in open : Die(c)

Spec == Init /\ [][Next]_vars
-----------------------------------------------------------------------------
\* A loop that a stop or another start has replaced does not idle on: when its
\* IDLE or its sleep is over its condition fails, though the next startIdle set
\* idleStop back for all loops.  Only a reconnect after a token refresh, which
\* does not ask whose the globals are, brings a replaced loop back.
ReplacedLoopsLeave ==
  \A x \in Call \ revived :
    pc[x] \in {"parked", "backoff"} /\ idleLoop # x => ~Continues(mine[x])

\* Two loops never idle on one connection, unless such a reconnect put one of
\* them there.
OneLoopPerClient ==
  \A x, y \in Call \ revived :
    x # y /\ pc[x] = "parked" /\ pc[y] = "parked" => mine[x] # mine[y]

\* idleLoop, when it holds the promise of a loop that ran, holds that of one
\* that still runs: the next startIdle is not put off by a loop that is gone.
LoopIsRunning == idleLoop \in Call => Live(idleLoop)

\* Nobody leaves a connection open behind the module's back: one that is up is
\* the client or is being logged out by a stop, or another call that came to
\* the end of its await set idleClient over it.
OpenIsKnown ==
  \A c \in open :
    \/ c = idleClient \/ c \in lost
    \/ \E s \in Stop : stopConn[s] = c

\* After the stops have returned, push is off: no connection stays open, not
\* even the one a loop was dialing with its fresh token when the stop came.
QuietAfterStop ==
  /\ idleStop = "yes" /\ \A s \in Stop : stopPc[s] = "off"
  /\ \A x \in Call : pc[x] # "dropfresh"
  => open \subseteq lost

\* The awaits left in a reconnect, and those left of a loop once push is
\* stopped.  A sleep counts as one, however long it is.
TriesLeft(x) ==
  4 * (MaxReconnect - attempt[x]) +
  CASE pc[x] = "closing" -> 3
    [] pc[x] = "dialing" -> 2
    [] pc[x] = "selecting" -> 1
    [] OTHER -> 0

WayOut(x) ==
  CASE pc[x] = "closing" -> 4
    [] pc[x] = "dialing" -> 3
    [] pc[x] = "selecting" -> 2
    [] pc[x] \in {"pause", "refreshing"} -> 1
    [] OTHER -> 0

\* No loop goes round for ever: a reconnect with a fresh token succeeds or is
\* given up, whatever other starts and loops do to the client it dials for,
\* and while push is stopped every await brings a loop nearer to its end, for
\* which the stop is waiting.
LoopsComeToAnEnd ==
  [][\A x \in Call : Live(x) /\ LoopStep(x) =>
       /\ attempt[x] > 0 =>
            attempt'[x] = 0 \/ TriesLeft(x)' \in 0..TriesLeft(x) - 1
       /\ idleStop = "yes" =>
            pc'[x] = "off" \/ WayOut(x)' \in 0..WayOut(x) - 1]_vars

\* "Any path that exits this while-loop MUST allow the outer idleLoop global to
\* reset to null so a subsequent startIdle() call can re-enter" (imap.ts:1310).
EndedLoopIsCleared == idleLoop # Over
=============================================================================
