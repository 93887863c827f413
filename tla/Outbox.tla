------------------------------- MODULE Outbox -------------------------------
(***************************************************************************)
(* What the outbox promises its user, without the table's columns, clocks, *)
(* snapshots, redials and the archiving after it.  The worker has one      *)
(* message in hand at a time and puts it with the mail server at most      *)
(* once; a message that was sent, cancelled or removed is not taken up     *)
(* again, except that a cancellation that comes too late is overruled by   *)
(* what became of the message.                                             *)
(*                                                                         *)
(* `copies` are those the server has and the worker could know of: it      *)
(* gives up a copy together with the connection, or the process, that      *)
(* delivered it.                                                           *)
(***************************************************************************)
EXTENDS Naturals

CONSTANTS Item, NoItem

VARIABLES
  stage,    \* of every message
  hand,     \* the message being delivered
  copies

vars == <<stage, hand, copies>>

Init ==
  /\ stage = [i \in Item |-> "none"]
  /\ hand = NoItem
  /\ copies = [i \in Item |-> 0]

Moves(i, from, to) ==
  /\ stage[i] \in from
  /\ stage' = [stage EXCEPT ![i] = to]
  /\ UNCHANGED <<hand, copies>>

\* The user puts a message in, asks for another try, or takes it back.
Put(i) == Moves(i, {"none"}, "waiting")
Again(i) == Moves(i, {"failed"}, "waiting")
TakeBack(i) == Moves(i, {"waiting", "failed"}, "canceled")

\* The account goes, with everything it has in the outbox.
Clear ==
  /\ stage' = [i \in Item |-> IF stage[i] = "none" THEN "none" ELSE "removed"]
  /\ UNCHANGED <<hand, copies>>

TakeUp(i) ==
  /\ hand = NoItem /\ stage[i] = "waiting"
  /\ hand' = i
  /\ UNCHANGED <<stage, copies>>

Deliver ==
  /\ hand # NoItem /\ copies[hand] = 0
  /\ copies' = [copies EXCEPT ![hand] = 1]
  /\ UNCHANGED <<stage, hand>>

\* The connection is lost and the worker dials again.
Redial ==
  /\ hand # NoItem
  /\ copies' = [copies EXCEPT ![hand] = 0]
  /\ UNCHANGED <<stage, hand>>

LayDown(to) ==
  /\ stage' = IF stage[hand] = "removed" THEN stage
              ELSE [stage EXCEPT ![hand] = to]
  /\ hand' = NoItem

Confirm ==
  /\ hand # NoItem /\ copies[hand] = 1
  /\ LayDown("sent")
  /\ UNCHANGED copies

\* The attempt fails, or the process ends: a message that still waits may
\* wait for the next attempt.
Fail ==
  /\ hand # NoItem
  /\ LayDown("failed") \/ LayDown(stage[hand])
  /\ copies' = [copies EXCEPT ![hand] = 0]

Next ==
  \/ \E i \in Item : Put(i) \/ Again(i) \/ TakeBack(i) \/ TakeUp(i)
  \/ Clear \/ Deliver \/ Redial \/ Confirm \/ Fail

Spec == Init /\ [][Next]_vars
=============================================================================
