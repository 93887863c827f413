---------------------------- MODULE ImapIdleProofs ----------------------------
(***************************************************************************)
(* Proofs about ImapIdle, for any number of accounts, starts, stops and    *)
(* connections: what ImapIdle's invariants say of loops that were replaced *)
(* and of connections left open holds however the calls overlap.           *)
(***************************************************************************)
EXTENDS ImapIdle, TLAPS

USE NoneAssumption, BoundsAssumption

Idling == {"parked", "refreshing", "backoff"}

\* What each call may rely on where it stands.
Placed ==
  /\ \A x \in Call :
       /\ pc[x] = "off" => mine[x] = NoConn
       /\ pc[x] # "off" => account[x] \in Key
       /\ pc[x] \notin {"off", "pause"} => mine[x] \in Conn
       /\ pc[x] \in {"off", "teardown"} \cup Idling => attempt[x] = 0
       /\ pc[x] = "pause" => attempt[x] \in 1..(MaxReconnect - 1)
       /\ pc[x] = "dialing" =>
            /\ mine[x] \notin open \cup {idleClient}
            /\ \A y \in Call : y # x => mine[y] # mine[x]
            /\ \A s \in Stop : stopConn[s] # mine[x]
  /\ \A s \in Stop : stopPc[s] # "logout" => stopConn[s] = NoConn

\* The client is not the connection of a loop that was replaced.
Replaced ==
  \A x \in Call \ revived :
    pc[x] \in Idling /\ idleLoop # x => idleClient # mine[x]

Apart ==
  \A x, y \in Call \ revived :
    x # y /\ pc[x] \in Idling /\ pc[y] \in Idling => mine[x] # mine[y]

\* While push is stopped, an open client is about to be closed, or was
\* forgotten before.
Stopped ==
  idleStop = "yes" /\ idleClient \in open =>
    \/ idleClient \in lost
    \/ \E s \in Stop : stopConn[s] = idleClient
    \/ \E x \in Call : pc[x] = "dropfresh" /\ mine[x] = idleClient

Inv ==
  /\ TypeOK /\ Placed
  /\ Replaced /\ Apart /\ LoopIsRunning /\ OpenIsKnown /\ Stopped

\* Nothing runs at the start.
LEMMA InitInv == Init => Inv
BY DEF Init, Inv, TypeOK, Placed, Replaced, Apart, LoopIsRunning, OpenIsKnown,
       Stopped, Starting, Looping, Idling, Live

\* startIdle up to its first await.
LEMMA StartKeepsInv ==
  ASSUME Inv, NEW x \in Call, NEW k \in Key, StartReusing(x, k) \/ Start(x, k)
  PROVE  Inv'
<1> USE DEF Inv, Placed, Starting, Looping, Idling, Live, globals, stops, history, At
<1>1. CASE StartReusing(x, k)
  <2> USE <1>1 DEF StartReusing, StartEnds, LoopBegins, Leaves, Mine, Usable
  <2>1. TypeOK'
    BY DEF TypeOK
  <2>2. Placed'
    BY DEF TypeOK
  <2>3. Replaced' /\ Apart'
    BY DEF TypeOK, Replaced, Apart
  <2>4. LoopIsRunning' /\ OpenIsKnown' /\ Stopped'
    BY DEF TypeOK, LoopIsRunning, OpenIsKnown, Stopped
  <2> QED BY <2>1, <2>2, <2>3, <2>4
<1>2. CASE Start(x, k)
  <2> USE <1>2 DEF Start, Connects, Dials, Unheld
  <2>1. TypeOK'
    BY DEF TypeOK
  <2>2. Placed'
    BY DEF TypeOK
  <2>3. Replaced' /\ Apart'
    BY DEF TypeOK, Replaced, Apart
  <2>4. LoopIsRunning' /\ OpenIsKnown' /\ Stopped'
    BY DEF TypeOK, LoopIsRunning, OpenIsKnown, Stopped
  <2> QED BY <2>1, <2>2, <2>3, <2>4
<1> QED BY <1>1, <1>2

\* The awaits of a start, and of a loop that reconnects.
LEMMA ConnectingKeepsInv ==
  ASSUME Inv, NEW x \in Call,
         CloseDone(x) \/ DialOk(x) \/ SelectOk(x) \/ StartFails(x)
  PROVE  Inv'
<1> USE DEF Inv, Placed, Starting, Looping, Idling, Live, globals, stops, history, At
<1>1. CASE CloseDone(x)
  <2> USE <1>1 DEF CloseDone, Dials, Unheld, Forgets, Usable
  <2>1. TypeOK'
    BY DEF TypeOK
  <2>2. Placed'
    BY DEF TypeOK
  <2>3. Replaced' /\ Apart'
    BY DEF TypeOK, Replaced, Apart
  <2>4. LoopIsRunning' /\ OpenIsKnown' /\ Stopped'
    BY DEF TypeOK, LoopIsRunning, OpenIsKnown, Stopped
  <2> QED BY <2>1, <2>2, <2>3, <2>4
<1>2. CASE DialOk(x)
  <2> USE <1>2 DEF DialOk, AfterRedial, StartEnds, LoopBegins, Leaves, Forgets, Usable
  <2>1. TypeOK'
    BY DEF TypeOK
  <2>2. Placed'
    BY DEF TypeOK
  <2>3. Replaced'
    BY DEF TypeOK, Replaced
  <2>4. Apart'
    BY DEF TypeOK, Replaced, Apart
  <2>5. LoopIsRunning' /\ OpenIsKnown'
    BY DEF TypeOK, LoopIsRunning, OpenIsKnown
  <2>6. Stopped'
    BY DEF TypeOK, Stopped
  <2> QED BY <2>1, <2>2, <2>3, <2>4, <2>5, <2>6
<1>3. CASE SelectOk(x)
  <2> USE <1>3 DEF SelectOk, StartEnds, LoopBegins, Leaves, Usable
  <2>1. TypeOK'
    BY DEF TypeOK
  <2>2. Placed'
    BY DEF TypeOK
  <2>3. Replaced' /\ Apart'
    BY DEF TypeOK, Replaced, Apart
  <2>4. LoopIsRunning' /\ OpenIsKnown' /\ Stopped'
    BY DEF TypeOK, LoopIsRunning, OpenIsKnown, Stopped
  <2> QED BY <2>1, <2>2, <2>3, <2>4
<1>4. CASE StartFails(x)
  BY <1>4 DEF StartFails, Leaves, TypeOK, Replaced, Apart, LoopIsRunning,
              OpenIsKnown, Stopped
<1> QED BY <1>1, <1>2, <1>3, <1>4

\* The loop outside its reconnects.
LEMMA LoopKeepsInv ==
  ASSUME Inv, NEW x \in Call,
         \/ ParkOk(x) \/ ParkFails(x) \/ ParkBackoff(x) \/ ParkAuth(x)
         \/ RefreshFails(x) \/ RefreshOk(x) \/ BackoffDone(x)
  PROVE  Inv'
<1> USE DEF Inv, Placed, Starting, Looping, Idling, Live, globals, stops, history, At,
            Leaves, Returns, Ends, EndsAmong, TypeOK, Replaced, Apart, LoopIsRunning,
            OpenIsKnown, Stopped
<1>1. CASE ParkOk(x)
  BY <1>1 DEF ParkOk, Loops
<1>2. CASE ParkFails(x)
  BY <1>2 DEF ParkFails
<1>3. CASE ParkBackoff(x) \/ ParkAuth(x) \/ RefreshFails(x)
  BY <1>3 DEF ParkBackoff, ParkAuth, RefreshFails
<1>4. CASE RefreshOk(x)
  BY <1>4 DEF RefreshOk
<1>5. CASE BackoffDone(x)
  BY <1>5 DEF BackoffDone, Loops
<1> QED BY <1>1, <1>2, <1>3, <1>4, <1>5

\* The loop that reconnects.
LEMMA ReconnectKeepsInv ==
  ASSUME Inv, NEW x \in Call,
         \/ TeardownDone(x) \/ DropDone(x) \/ ReselectOk(x)
         \/ ReconnectFails(x) \/ PauseDone(x)
  PROVE  Inv'
<1> USE DEF Inv, Placed, Starting, Looping, Idling, Live, globals, stops, history, At,
            Leaves, Returns, Ends, EndsAmong
<1>1. CASE TeardownDone(x)
  <2> USE <1>1 DEF TeardownDone, Dials, Unheld, Forgets, Usable
  <2>1. TypeOK'
    BY DEF TypeOK
  <2>2. Placed'
    BY DEF TypeOK
  <2>3. Replaced' /\ Apart'
    BY DEF TypeOK, Replaced, Apart
  <2>4. LoopIsRunning' /\ OpenIsKnown' /\ Stopped'
    BY DEF TypeOK, LoopIsRunning, OpenIsKnown, Stopped
  <2> QED BY <2>1, <2>2, <2>3, <2>4
<1>2. CASE DropDone(x)
  BY <1>2 DEF DropDone, TypeOK, Replaced, Apart, LoopIsRunning, OpenIsKnown, Stopped
<1>3. CASE ReselectOk(x)
  <2> USE <1>3 DEF ReselectOk, BroughtBack, Forgets, Usable
  <2>1. TypeOK'
    BY DEF TypeOK
  <2>2. Placed'
    BY DEF TypeOK
  <2>3. Replaced'
    BY DEF TypeOK, Replaced
  <2>4. Apart'
    BY DEF TypeOK, Replaced, Apart
  <2>5. LoopIsRunning' /\ OpenIsKnown'
    BY DEF TypeOK, LoopIsRunning, OpenIsKnown
  <2>6. Stopped'
    BY DEF TypeOK, OpenIsKnown, Stopped
  <2> QED BY <2>1, <2>2, <2>3, <2>4, <2>5, <2>6
<1>4. CASE ReconnectFails(x)
  <2> USE <1>4 DEF ReconnectFails
  <2>1. TypeOK'
    BY DEF TypeOK
  <2>2. Placed'
    BY DEF TypeOK
  <2>3. Replaced' /\ Apart'
    BY DEF TypeOK, Replaced, Apart
  <2>4. LoopIsRunning' /\ OpenIsKnown' /\ Stopped'
    BY DEF TypeOK, LoopIsRunning, OpenIsKnown, Stopped
  <2> QED BY <2>1, <2>2, <2>3, <2>4
<1>5. CASE PauseDone(x)
  <2> USE <1>5 DEF PauseDone, Mine, Connects, Dials, Unheld, Usable
  <2>1. TypeOK'
    BY DEF TypeOK
  <2>2. Placed'
    BY DEF TypeOK
  <2>3. Replaced' /\ Apart'
    BY DEF TypeOK, Replaced, Apart
  <2>4. LoopIsRunning' /\ OpenIsKnown' /\ Stopped'
    BY DEF TypeOK, LoopIsRunning, OpenIsKnown, Stopped
  <2> QED BY <2>1, <2>2, <2>3, <2>4
<1> QED BY <1>1, <1>2, <1>3, <1>4, <1>5

\* stopIdle and the return of its logout.
LEMMA StopKeepsInv ==
  ASSUME Inv, NEW s \in Stop, StopBegins(s) \/ StopLogoutDone(s)
  PROVE  Inv'
<1> USE DEF Inv, TypeOK, Placed, Starting, Looping, Idling, Live, After, calls,
            globals, history, Replaced, Apart, LoopIsRunning, OpenIsKnown, Stopped
<1>1. CASE StopBegins(s)
  BY <1>1 DEF StopBegins
<1>2. CASE StopLogoutDone(s)
  BY <1>2 DEF StopLogoutDone
<1> QED BY <1>1, <1>2

\* Every step keeps the invariant.
LEMMA NextKeepsInv ==
  ASSUME Inv, [Next]_vars
  PROVE  Inv'
<1>1. ASSUME NEW x \in Call, NEW k \in Key, StartReusing(x, k) \/ Start(x, k)
      PROVE  Inv'
  BY <1>1, StartKeepsInv
<1>2. ASSUME NEW x \in Call, LoopStep(x)
      PROVE  Inv'
  BY <1>2, ConnectingKeepsInv, LoopKeepsInv, ReconnectKeepsInv DEF LoopStep
<1>3. ASSUME NEW s \in Stop, StopBegins(s) \/ StopLogoutDone(s)
      PROVE  Inv'
  BY <1>3, StopKeepsInv
<1>4. ASSUME NEW c \in open, Die(c)
      PROVE  Inv'
  BY <1>4 DEF Die, Inv, TypeOK, Placed, Starting, Looping, Idling, Live, calls, stops,
              globals, Replaced, Apart, LoopIsRunning, OpenIsKnown, Stopped
<1>5. CASE UNCHANGED vars
  BY <1>5 DEF vars, Inv, TypeOK, Placed, Starting, Looping, Idling, Live, calls, stops,
              globals, history, Replaced, Apart, LoopIsRunning, OpenIsKnown, Stopped
<1> QED BY <1>1, <1>2, <1>3, <1>4, <1>5 DEF Next

\* A loop that was replaced leaves, two loops never idle on one connection,
\* and idleLoop names no loop that is gone, unless it was pinned at its birth.
THEOREM LoopsReplaceEachOther ==
  Spec => [](TypeOK /\ ReplacedLoopsLeave /\ OneLoopPerClient /\ LoopIsRunning)
<1>1. Inv => TypeOK /\ ReplacedLoopsLeave /\ OneLoopPerClient /\ LoopIsRunning
  BY DEF Inv, Replaced, Apart, Idling, ReplacedLoopsLeave, OneLoopPerClient, Continues
<1> QED BY InitInv, NextKeepsInv, <1>1, PTL DEF Spec

\* A connection is left open only where idleClient is set over it, and none is
\* when push was stopped.
THEOREM StopLeavesNothingOpen == Spec => [](OpenIsKnown /\ QuietAfterStop)
<1>1. Inv => OpenIsKnown /\ QuietAfterStop
  BY DEF Inv, TypeOK, Placed, OpenIsKnown, Stopped, QuietAfterStop
<1> QED BY InitInv, NextKeepsInv, <1>1, PTL DEF Spec

\* Every variable keeps its type.
THEOREM TypeCorrect == Spec => []TypeOK
BY LoopsReplaceEachOther, PTL

\* A loop that was replaced leaves at its next step.
THEOREM ReplacedOnesLeave == Spec => []ReplacedLoopsLeave
BY LoopsReplaceEachOther, PTL

\* A connection is open only where idleClient is set over it.
THEOREM OpenOnesAreKnown == Spec => []OpenIsKnown
BY StopLeavesNothingOpen, PTL

(***************************************************************************)
(* How long a loop can take                                                *)
(***************************************************************************)

\* One await of a loop that reconnects or is asked to stop.
LEMMA AwaitsBringTheEnd ==
  ASSUME Inv, NEW x \in Call, Live(x), LoopStep(x)
  PROVE  /\ attempt[x] > 0 =>
              attempt'[x] = 0 \/ TriesLeft(x)' \in 0..TriesLeft(x) - 1
         /\ idleStop = "yes" =>
              pc'[x] = "off" \/ WayOut(x)' \in 0..WayOut(x) - 1
<1> USE DEF Inv, TypeOK, Placed, Starting, Looping, Live, At, TriesLeft, WayOut,
            Idling, Leaves, Ends, EndsAmong
<1>1. CASE CloseDone(x)
  BY <1>1 DEF CloseDone, Dials
<1>2. CASE DialOk(x)
  BY <1>2 DEF DialOk, AfterRedial
<1>3. CASE SelectOk(x) \/ StartFails(x)
  BY <1>3 DEF SelectOk, StartFails
<1>4. CASE ParkOk(x) \/ BackoffDone(x)
  BY <1>4 DEF ParkOk, BackoffDone, Loops, Continues
<1>5. CASE ParkFails(x) \/ ParkBackoff(x) \/ ParkAuth(x)
  BY <1>5 DEF ParkFails, ParkBackoff, ParkAuth
<1>6. CASE RefreshFails(x) \/ RefreshOk(x)
  BY <1>6 DEF RefreshFails, RefreshOk
<1>7. CASE TeardownDone(x)
  BY <1>7 DEF TeardownDone, Dials
<1>8. CASE DropDone(x) \/ ReselectOk(x)
  BY <1>8 DEF DropDone, ReselectOk
<1>9. CASE ReconnectFails(x)
  BY <1>9 DEF ReconnectFails
<1>10. CASE PauseDone(x)
  BY <1>10 DEF PauseDone, Connects, Dials
<1> QED
  BY <1>1, <1>2, <1>3, <1>4, <1>5, <1>6, <1>7, <1>8, <1>9, <1>10 DEF LoopStep

\* For any accounts, starts, stops and connections: a reconnect has a bounded
\* number of awaits, and a loop that is asked to stop at most four before it
\* ends.
THEOREM LoopsEnd == Spec => LoopsComeToAnEnd
<1>1. Inv /\ [Next]_vars =>
        [\A x \in Call : Live(x) /\ LoopStep(x) =>
           /\ attempt[x] > 0 =>
                attempt'[x] = 0 \/ TriesLeft(x)' \in 0..TriesLeft(x) - 1
           /\ idleStop = "yes" =>
                pc'[x] = "off" \/ WayOut(x)' \in 0..WayOut(x) - 1]_vars
  BY AwaitsBringTheEnd
<1> QED BY InitInv, NextKeepsInv, <1>1, PTL DEF Spec, LoopsComeToAnEnd
=============================================================================
