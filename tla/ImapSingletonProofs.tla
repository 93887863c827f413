------------------------- MODULE ImapSingletonProofs -------------------------
(***************************************************************************)
(* Proofs about ImapSingleton, for any number of accounts and connections: *)
(* an operation uses a connection of its own account, a connection is left *)
(* open only by the heartbeat, and the client's heartbeat runs.            *)
(***************************************************************************)
EXTENDS ImapSingleton, TLAPS

USE NoneAssumption, BoundsAssumption

\* What the operation may rely on after each await: the heartbeat and the
\* forced disconnects can clear the client under it and never install one.
Awaited ==
  /\ pc # "idle" => account \in Key
  /\ pc \in {"evict", "reset"} => held \in Conn /\ client \in {held, NoConn}
  /\ pc = "dial" =>
       /\ held \in Conn /\ conn[held] = "dialing" /\ owner[held] = account
       /\ target # held
       /\ client = NoConn /\ currentUserKey \in {account, NoKey}
  /\ pc = "use" => held \in Conn

\* currentUserKey names the client's account or nobody's.
KeyIsOwner ==
  client # NoConn /\ currentUserKey # NoKey => owner[client] = currentUserKey

Safe == UsesItsOwnAccount /\ OpenIsKnown /\ ClientHasHeartbeat

Inv == TypeOK /\ Awaited /\ KeyIsOwner /\ Safe

LEMMA InitInv == Init => Inv
<1>1. Init => TypeOK
  BY DEF Init, TypeOK, Error
<1>2. Init => Awaited /\ KeyIsOwner /\ Safe
  BY DEF Init, Awaited, KeyIsOwner, Safe, UsesItsOwnAccount, OpenIsKnown,
         ClientHasHeartbeat, Usable
<1> QED BY <1>1, <1>2 DEF Inv

\* The new connection is one that no variable holds.
LEMMA FreshIsUnused ==
  ASSUME \E c \in Conn : Unused(c)
  PROVE  Fresh \in Conn /\ Unused(Fresh)
BY DEF Fresh

\* The steps that make a new connection.
LEMMA DialingKeepsInv ==
  ASSUME Inv, Dial \/ DialAfterEvict
  PROVE  Inv'
<1> USE DEF Inv, Safe, Usable, Unused, Closed, Dials, Connects, loop, heart
<1>1. Fresh \in Conn /\ Unused(Fresh)
  BY FreshIsUnused DEF Dial, DialAfterEvict
<1>2. account \in Key
  BY DEF Dial, DialAfterEvict, Awaited
<1>3. TypeOK'
  BY <1>1, <1>2 DEF Dial, DialAfterEvict, TypeOK
<1>4. Awaited'
  BY <1>1, <1>2 DEF Dial, DialAfterEvict, TypeOK, Awaited
<1>5. KeyIsOwner' /\ UsesItsOwnAccount' /\ ClientHasHeartbeat'
  BY <1>1, <1>2 DEF Dial, DialAfterEvict, TypeOK, KeyIsOwner, UsesItsOwnAccount,
                    ClientHasHeartbeat
<1>6. OpenIsKnown'
  BY <1>1 DEF Dial, DialAfterEvict, TypeOK, OpenIsKnown, Awaited
<1> QED BY <1>3, <1>4, <1>5, <1>6

\* The other steps of the operation.
LEMMA StepKeepsInv ==
  ASSUME Inv, Step
  PROVE  Inv'
<1> USE DEF Inv, TypeOK, Awaited, KeyIsOwner, Safe, UsesItsOwnAccount, OpenIsKnown,
            ClientHasHeartbeat, Usable, Error, globals, world, heart, loop
<1>1. CASE Reuse
  BY <1>1 DEF Reuse, Mine, Connects
<1>2. CASE Evict
  BY <1>2 DEF Evict, Mine, Connects
<1>3. CASE Dial \/ DialAfterEvict
  BY <1>3, DialingKeepsInv
<1>4. CASE DialOk
  BY <1>4 DEF DialOk
<1>5. ASSUME NEW e \in Error, DialFails(e)
      PROVE  Inv'
  BY <1>5 DEF DialFails, Closed, Ends
<1>6. CASE UseOk \/ CatchThrow \/ RefreshFails
  BY <1>6 DEF UseOk, CatchThrow, RefreshFails, Ends
<1>7. ASSUME NEW e \in Error, UseFails(e)
      PROVE  Inv'
  BY <1>7 DEF UseFails
<1>8. CASE CatchAuth \/ WakeUp
  BY <1>8 DEF CatchAuth, WakeUp
<1>9. CASE RefreshOk \/ CatchLost
  BY <1>9 DEF RefreshOk, CatchLost, Resets, AfterReset
<1>10. CASE ResetDone
  BY <1>10 DEF ResetDone, Closed, AfterReset
<1> QED
  BY <1>1, <1>2, <1>3, <1>4, <1>5, <1>6, <1>7, <1>8, <1>9, <1>10 DEF Step

\* Everything that happens beside the operation, and its start.
LEMMA NextKeepsInv ==
  ASSUME Inv, [Next]_vars
  PROVE  Inv'
<1> USE DEF Inv, TypeOK, Awaited, KeyIsOwner, Safe, UsesItsOwnAccount, OpenIsKnown,
            ClientHasHeartbeat, Usable, Error, globals, world, heart, loop, op
<1>1. ASSUME NEW k \in Key, Call(k)
      PROVE  Inv'
  BY <1>1 DEF Call
<1>2. CASE Step
  BY <1>2, StepKeepsInv
<1>3. CASE Beat \/ NoopOk
  BY <1>3 DEF Beat, NoopOk
<1>4. CASE NoopFails
  BY <1>4 DEF NoopFails, Clears
<1>5. CASE LogoutDone
  <2>1. TypeOK'
    BY <1>5 DEF LogoutDone, Clears, Closed
  <2>2. OpenIsKnown'
    BY <1>5 DEF LogoutDone, Clears, Closed
  <2>3. Awaited'
    BY <1>5 DEF LogoutDone, Clears, Closed
  <2>4. KeyIsOwner' /\ UsesItsOwnAccount' /\ ClientHasHeartbeat'
    BY <1>5 DEF LogoutDone, Clears, Closed
  <2> QED BY <2>1, <2>2, <2>3, <2>4
<1>6. CASE forceDisconnectImap
  BY <1>6 DEF forceDisconnectImap, Closed
<1>7. ASSUME NEW c \in Conn, Die(c)
      PROVE  Inv'
  BY <1>7 DEF Die, Closed
<1>8. CASE UNCHANGED vars
  BY <1>8 DEF vars
<1> QED
  BY <1>1, <1>2, <1>3, <1>4, <1>5, <1>6, <1>7, <1>8 DEF Next

\* An operation never works on another account's connection.
THEOREM AccountsAreKeptApart == Spec => [](TypeOK /\ UsesItsOwnAccount)
<1>1. Inv => TypeOK /\ UsesItsOwnAccount
  BY DEF Inv, Safe
<1> QED BY InitInv, NextKeepsInv, <1>1, PTL DEF Spec

\* Only the heartbeat leaves a connection open, and a client that is there to
\* stay has its heartbeat.
THEOREM NoConnectionIsLost == Spec => [](OpenIsKnown /\ ClientHasHeartbeat)
<1>1. Inv => OpenIsKnown /\ ClientHasHeartbeat
  BY DEF Inv, Safe
<1> QED BY InitInv, NextKeepsInv, <1>1, PTL DEF Spec

\* Every variable keeps its type.
THEOREM TypeCorrect == Spec => []TypeOK
BY AccountsAreKeptApart, PTL

\* A client that is there to stay has its heartbeat.
THEOREM ClientsAreWatched == Spec => []ClientHasHeartbeat
BY NoConnectionIsLost, PTL

(***************************************************************************)
(* How long an operation can take                                          *)
(***************************************************************************)

\* Every await of the operation uses one up.
LEMMA StepsUseUpAwaits ==
  ASSUME Inv, Step
  PROVE  AwaitsLeft' \in 0..AwaitsLeft - 1
<1> USE DEF Inv, TypeOK, Error, AwaitsLeft, loop
<1>1. CASE Reuse \/ Evict
  BY <1>1 DEF Reuse, Evict, Connects
<1>2. CASE Dial \/ DialAfterEvict
  BY <1>2 DEF Dial, DialAfterEvict, Dials, Connects
<1>3. CASE DialOk \/ UseOk
  BY <1>3 DEF DialOk, UseOk, Ends
<1>4. ASSUME NEW e \in Error, DialFails(e) \/ UseFails(e)
      PROVE  AwaitsLeft' \in 0..AwaitsLeft - 1
  BY <1>4 DEF DialFails, UseFails, Ends
<1>5. CASE CatchAuth \/ CatchThrow \/ RefreshFails
  BY <1>5 DEF CatchAuth, CatchThrow, RefreshFails, Ends
<1>6. CASE CatchLost
  BY <1>6 DEF CatchLost, Resets, AfterReset
<1>7. CASE RefreshOk
  BY <1>7 DEF RefreshOk, Resets, AfterReset
<1>8. CASE ResetDone \/ WakeUp
  BY <1>8 DEF ResetDone, WakeUp, AfterReset
<1> QED BY <1>1, <1>2, <1>3, <1>4, <1>5, <1>6, <1>7, <1>8 DEF Step

\* What happens beside it leaves its awaits.
LEMMA OthersGiveNoAwaits ==
  ASSUME Inv,
         \/ Beat \/ NoopOk \/ NoopFails \/ LogoutDone \/ forceDisconnectImap
         \/ \E c \in Conn : Die(c)
         \/ UNCHANGED vars
  PROVE  AwaitsLeft' <= AwaitsLeft
<1>1. UNCHANGED op
  BY DEF Beat, NoopOk, NoopFails, LogoutDone, forceDisconnectImap, Die, vars
<1> QED BY <1>1 DEF Inv, TypeOK, AwaitsLeft, op, loop

\* For any accounts, connections and retry budget: every step of an operation
\* brings it nearer to its end and nothing beside it sets it back.
THEOREM OperationsEnd == Spec => OperationsAreShort
<1>1. ASSUME Inv, [Next]_vars
      PROVE  /\ Step => AwaitsLeft' \in 0..AwaitsLeft - 1
             /\ pc # "idle" => AwaitsLeft' <= AwaitsLeft
  <2>1. AwaitsLeft \in Int
    BY <1>1 DEF Inv, TypeOK, AwaitsLeft
  <2>2. CASE Step
    <3>1. AwaitsLeft' \in 0..AwaitsLeft - 1
      BY <1>1, <2>2, StepsUseUpAwaits
    <3> QED BY <2>1, <3>1
  <2>3. CASE ~Step
    <3>1. ASSUME NEW k \in Key, Call(k) PROVE pc = "idle"
      BY <3>1 DEF Call
    <3> QED BY <1>1, <2>3, <3>1, OthersGiveNoAwaits DEF Next
  <2> QED BY <2>2, <2>3
<1>2. Inv /\ [Next]_vars =>
        [/\ Step => AwaitsLeft' \in 0..AwaitsLeft - 1
         /\ pc # "idle" => AwaitsLeft' <= AwaitsLeft]_vars
  BY <1>1
<1> QED BY InitInv, NextKeepsInv, <1>2, PTL DEF Spec, OperationsAreShort
=============================================================================
