--------------------------- MODULE ImapPoolProofs ---------------------------
(***************************************************************************)
(* Proofs about ImapPool: type correctness (the counter stays within the   *)
(* limit) and exact slot accounting, for every limit and retry budget.     *)
(***************************************************************************)
EXTENDS ImapPool, TLAPS

USE BoundsAssumption

\* The map has no entry while a connect is under way: connectImapPerAccount
\* forgets the old connection before it makes a new one.
Inv == TypeOK /\ SlotsExact /\ (pc = "connect" => client = "none")

LEMMA InitInv == Init => Inv
<1>1. Init => TypeOK
  BY DEF Init, TypeOK, Error
<1>2. Init => SlotsExact
  BY DEF Init, SlotsExact, Held
<1>3. Init => (pc = "connect" => client = "none")
  BY DEF Init
<1> QED BY <1>1, <1>2, <1>3 DEF Inv

\* Every step preserves the invariant.
LEMMA NextKeepsInv ==
  ASSUME Inv, [Next]_vars
  PROVE  Inv'
<1> USE DEF Inv, TypeOK, SlotsExact, Held, Error
<1>1. CASE Call
  BY <1>1 DEF Call, locals
<1>2. CASE Reuse \/ Queue
  BY <1>2 DEF Reuse, Queue, locals
<1>3. CASE Acquire
  BY <1>3 DEF Acquire, locals
<1>4. CASE WaitTimesOut \/ UseOk
  BY <1>4 DEF WaitTimesOut, UseOk, Ends
<1>5. CASE ConnectOk
  BY <1>5 DEF ConnectOk, locals
<1>6. ASSUME NEW e \in Error, ConnectFails(e)
      PROVE  Inv'
  BY <1>6 DEF ConnectFails, Released, Throws, Ends, locals
<1>7. ASSUME NEW e \in Error, UseFails(e)
      PROVE  Inv'
  BY <1>7 DEF UseFails, Throws, locals
<1>8. CASE CatchAuth \/ CatchThrow
  BY <1>8 DEF CatchAuth, CatchThrow, Ends, locals
<1>9. CASE CatchLost
  BY <1>9 DEF CatchLost, Released
<1>10. CASE RefreshOk \/ RefreshFails
  BY <1>10 DEF RefreshOk, RefreshFails, Released, Ends, locals
<1>11. CASE WakeUp \/ Die
  BY <1>11 DEF WakeUp, Die, locals
<1>12. CASE DisconnectAll
  BY <1>12 DEF DisconnectAll, Ends, locals
<1>13. CASE UNCHANGED vars
  BY <1>13 DEF vars, locals
<1> QED
  BY <1>1, <1>2, <1>3, <1>4, <1>5, <1>6, <1>7, <1>8, <1>9, <1>10, <1>11, <1>12, <1>13
  DEF Next, Step

\* The counter never leaves 0..MaxConnections, and it is exact as long as no
\* slot was lost.
THEOREM SlotAccounting == Spec => [](TypeOK /\ SlotsExact)
<1>1. Inv => TypeOK /\ SlotsExact
  BY DEF Inv
<1> QED BY InitInv, NextKeepsInv, <1>1, PTL DEF Spec

\* Every variable keeps its type; the counter never leaves its range.
THEOREM TypeCorrect == Spec => []TypeOK
BY SlotAccounting, PTL

(***************************************************************************)
(* How long an operation can take: the bounded half of OperationEnds.      *)
(***************************************************************************)

\* Awaits an operation may still go through: eight for each retry and each
\* token refresh it has left, and those before it ends or uses one up.
AwaitsLeft ==
  8 * (remaining + refreshes) +
  CASE pc = "idle" -> 0
    [] pc = "wait" -> 1
    [] pc = "catch" -> 1
    [] pc = "use" -> 2
    [] pc = "connect" -> IF caller = "fn" THEN 3 ELSE 5
    [] pc = "fn" -> 4
    [] pc = "reconnect" -> 6
    [] OTHER -> 7

\* An operation starts with a number of awaits that its retry budget fixes.
AwaitsAreBounded == AwaitsLeft \in 0 .. (8 * MaxRetries + 12)

\* Each step of the operation uses one up; a connection that dies and a pool
\* that is cleared under the operation give none back.
AwaitsAreUsedUp ==
  [][/\ Step => AwaitsLeft' < AwaitsLeft
     /\ pc # "idle" => AwaitsLeft' <= AwaitsLeft]_vars

LEMMA StepsUseUpAwaits ==
  ASSUME Inv, Step
  PROVE  AwaitsLeft' < AwaitsLeft
<1> USE DEF Inv, TypeOK, Error, AwaitsLeft
<1>1. CASE Reuse \/ Queue
  BY <1>1 DEF Reuse, Queue, locals
<1>2. CASE Acquire
  BY <1>2 DEF Acquire, locals
<1>3. CASE WaitTimesOut \/ UseOk
  BY <1>3 DEF WaitTimesOut, UseOk, Ends
<1>4. CASE ConnectOk
  BY <1>4 DEF ConnectOk, locals
<1>5. ASSUME NEW e \in Error, ConnectFails(e)
      PROVE  AwaitsLeft' < AwaitsLeft
  BY <1>5 DEF ConnectFails, Throws, Ends, locals
<1>6. ASSUME NEW e \in Error, UseFails(e)
      PROVE  AwaitsLeft' < AwaitsLeft
  BY <1>6 DEF UseFails, Throws, locals
<1>7. CASE CatchAuth
  BY <1>7 DEF CatchAuth
<1>8. CASE CatchThrow
  BY <1>8 DEF CatchThrow, Ends
<1>9. CASE CatchLost
  BY <1>9 DEF CatchLost
<1>10. CASE RefreshOk \/ RefreshFails
  BY <1>10 DEF RefreshOk, RefreshFails, Ends, locals
<1>11. CASE WakeUp
  BY <1>11 DEF WakeUp, locals
<1> QED
  BY <1>1, <1>2, <1>3, <1>4, <1>5, <1>6, <1>7, <1>8, <1>9, <1>10, <1>11 DEF Step

\* What goes on around the operation leaves its awaits, or ends it.
LEMMA OthersGiveNoAwaits ==
  ASSUME Inv, Die \/ DisconnectAll \/ UNCHANGED vars
  PROVE  AwaitsLeft' <= AwaitsLeft
<1> USE DEF Inv, TypeOK, AwaitsLeft
<1>1. CASE Die \/ UNCHANGED vars
  BY <1>1 DEF Die, vars, locals
<1>2. CASE DisconnectAll
  BY <1>2 DEF DisconnectAll, Ends, locals
<1> QED BY <1>1, <1>2

\* For every limit and retry budget: an operation that got the account's lock
\* is at its end after a bounded number of awaits, whatever dies or is cleared
\* under it.
THEOREM OperationsAreShort == Spec => []AwaitsAreBounded /\ AwaitsAreUsedUp
<1>1. Inv => AwaitsLeft \in Nat
  BY DEF Inv, TypeOK, AwaitsLeft
<1>2. Inv /\ Call => AwaitsLeft' <= 8 * MaxRetries + 12
  BY DEF Inv, TypeOK, Call, AwaitsLeft
<1>3. Inv /\ Inv' /\ AwaitsAreBounded /\ [Next]_vars => AwaitsAreBounded'
  <2> SUFFICES ASSUME Inv, Inv', AwaitsAreBounded, [Next]_vars PROVE AwaitsAreBounded'
    OBVIOUS
  <2>1. AwaitsLeft \in Nat /\ AwaitsLeft' \in Nat
    <3>1. (Inv => AwaitsLeft \in Nat)'
      BY <1>1, PTL
    <3> QED BY <1>1, <3>1
  <2>2. AwaitsLeft' <= 8 * MaxRetries + 12
    <3>1. Call \/ AwaitsLeft' <= AwaitsLeft
      BY <2>1, StepsUseUpAwaits, OthersGiveNoAwaits DEF Next
    <3> QED BY <1>2, <2>1, <3>1 DEF AwaitsAreBounded
  <2> QED BY <2>1, <2>2 DEF AwaitsAreBounded
<1>4. Init => AwaitsAreBounded
  BY DEF Init, AwaitsAreBounded, AwaitsLeft
<1>5. Inv /\ Inv' /\ [Next]_vars =>
        [/\ Step => AwaitsLeft' < AwaitsLeft
         /\ pc # "idle" => AwaitsLeft' <= AwaitsLeft]_vars
  <2> SUFFICES ASSUME Inv, Inv', [Next]_vars
               PROVE  /\ Step => AwaitsLeft' < AwaitsLeft
                      /\ pc # "idle" => AwaitsLeft' <= AwaitsLeft
    OBVIOUS
  <2>1. AwaitsLeft \in Nat /\ AwaitsLeft' \in Nat
    <3>1. (Inv => AwaitsLeft \in Nat)'
      BY <1>1, PTL
    <3> QED BY <1>1, <3>1
  <2>2. pc # "idle" => Step \/ Die \/ DisconnectAll \/ UNCHANGED vars
    BY DEF Next, Call
  <2> QED BY <2>1, <2>2, StepsUseUpAwaits, OthersGiveNoAwaits
<1>6. Spec => []Inv
  BY InitInv, NextKeepsInv, PTL DEF Spec
<1> QED BY <1>3, <1>4, <1>5, <1>6, PTL DEF Spec, AwaitsAreUsedUp
=============================================================================
