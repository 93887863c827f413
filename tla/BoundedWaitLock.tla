--------------------------- MODULE BoundedWaitLock ---------------------------
(***************************************************************************)
(* What an op lock promises its callers, without priorities, queues or     *)
(* mutex objects: at most one owner per account, and a waiter knows when   *)
(* it joins how many others can be served before it.  `budget[c]` is that  *)
(* number; it falls with every grant to somebody else and a grant that     *)
(* would take it below zero is not allowed.                                *)
(***************************************************************************)
EXTENDS Integers, FiniteSets

CONSTANTS
  Call, Key, NoKey,
  NotWaiting,   \* budget of a call that is not queued
  MaxOvertakes  \* how many later arrivals may go first

VARIABLES
  owner,    \* the calls inside, at most one per account
  budget,   \* how many others may still be served before this waiter
  account   \* the account a call is made for

vars == <<owner, budget, account>>

Init ==
  /\ owner = {}
  /\ budget = [c \in Call |-> NotWaiting]
  /\ account = [c \in Call |-> NoKey]

Waiting(k) == {c \in Call : account[c] = k /\ budget[c] # NotWaiting}

Owned(k) == \E c \in owner : account[c] = k

\* Take the free lock of account k.
Take(c, k) ==
  /\ account[c] = NoKey /\ ~Owned(k)
  /\ owner' = owner \cup {c}
  /\ account' = [account EXCEPT ![c] = k]
  /\ UNCHANGED budget

\* Join the waiters of account k: everybody who waits may be served first,
\* and MaxOvertakes of those who come later.
Join(c, k) ==
  /\ account[c] = NoKey /\ Owned(k)
  /\ budget' = [budget EXCEPT ![c] = MaxOvertakes + Cardinality(Waiting(k))]
  /\ account' = [account EXCEPT ![c] = k]
  /\ UNCHANGED owner

\* Leave with nobody waiting.
Leave(c) ==
  /\ c \in owner /\ Waiting(account[c]) = {}
  /\ owner' = owner \ {c}
  /\ account' = [account EXCEPT ![c] = NoKey]
  /\ UNCHANGED budget

\* Leave and let d in; no other waiter may have run out of patience.
Pass(c, d) ==
  LET others == Waiting(account[c]) \ {d} IN
  /\ c \in owner /\ d \in Waiting(account[c])
  /\ \A e \in others : budget[e] > 0
  /\ owner' = (owner \ {c}) \cup {d}
  /\ budget' = [e \in Call |-> IF e = d THEN NotWaiting
                               ELSE IF e \in others THEN budget[e] - 1
                               ELSE budget[e]]
  /\ account' = [account EXCEPT ![c] = NoKey]

Next ==
  \/ \E c \in Call, k \in Key : Take(c, k) \/ Join(c, k)
  \/ \E c \in Call : Leave(c)
  \/ \E c, d \in Call : Pass(c, d)

Spec == Init /\ [][Next]_vars
=============================================================================
