-------------------------- MODULE SelectNextWaiter --------------------------
(***************************************************************************)
(* The selection algorithm shared by the IMAP op locks and by the          *)
(* connection pool (packages/net/imapScheduler.ts, selectNextWaiter).      *)
(*                                                                         *)
(* A queue is a sequence of waiters in arrival order.  The code pushes at  *)
(* the end, stamps a growing `seq` and only ever splices single elements   *)
(* out, so `a.seq < b.seq` is exactly "a stands before b": the position is *)
(* the sequence number, and no counter has to be modelled.                 *)
(***************************************************************************)
EXTENDS Integers, Sequences

CONSTANT MaxOvertakes \* MAX_OVERTAKES_BEFORE_PROMOTION (8 in the code)

ASSUME MaxOvertakesAssumption == MaxOvertakes \in Nat \ {0}

Requesters == {"interactive", "other", "sync", "background", "indexer"}

IMAP_PRIORITY_RANK ==
  [interactive |-> 0, other |-> 1, sync |-> 2, background |-> 3, indexer |-> 4]

Waiter(Who) == [who : Who, rank : 0..4, overtaken : Nat]

\* Faulty variant: a newcomer starts below zero.
NewWaiterInCredit(who, priority) ==
  [who |-> who, rank |-> IMAP_PRIORITY_RANK[priority], overtaken |-> -1]

NewWaiter(who, priority) ==
  [who |-> who, rank |-> IMAP_PRIORITY_RANK[priority], overtaken |-> 0]

\* Faulty variant: overtakes are counted and nobody is ever promoted.
EffectiveRankOfTier(w) == w.rank

\* A promoted waiter outranks every unpromoted tier.
EffectiveRank(w) == IF w.overtaken >= MaxOvertakes THEN -1 ELSE w.rank

\* Faulty variant: the newest of equals wins.
OutranksNewest(ws, i, j) ==
  \/ EffectiveRank(ws[i]) < EffectiveRank(ws[j])
  \/ EffectiveRank(ws[i]) = EffectiveRank(ws[j]) /\ i > j

\* The waiter at position i runs before the one at position j.
Outranks(ws, i, j) ==
  \/ EffectiveRank(ws[i]) < EffectiveRank(ws[j])
  \/ EffectiveRank(ws[i]) = EffectiveRank(ws[j]) /\ i < j

\* What the selection promises: i is the unique best of the queue.
IsNext(ws, i) == \A j \in DOMAIN ws \ {i} : Outranks(ws, i, j)

\* Faulty variant: the scan compares the tiers and forgets promotion.
BestIdxOfTier(ws) ==
  LET best[i \in DOMAIN ws] ==
        IF i = 1 THEN 1
        ELSE IF ws[i].rank < ws[best[i - 1]].rank THEN i ELSE best[i - 1]
  IN  best[Len(ws)]

\* How the code finds it: one scan that keeps the best index so far.
BestIdx(ws) ==
  LET best[i \in DOMAIN ws] ==
        IF i = 1 THEN 1
        ELSE IF Outranks(ws, i, best[i - 1]) THEN i ELSE best[i - 1]
  IN  best[Len(ws)]

\* Faulty variant: nobody is charged.
WithoutCharge(ws, i) ==
  [j \in 1 .. (Len(ws) - 1) |-> IF j < i THEN ws[j] ELSE ws[j + 1]]

\* Faulty variant: everybody who is left is charged, younger ones included.
WithoutChargingAll(ws, i) ==
  [j \in 1 .. (Len(ws) - 1) |->
     [ws[IF j < i THEN j ELSE j + 1] EXCEPT !.overtaken = @ + 1]]

\* The queue once position i is taken out: every waiter that stood before
\* the chosen one is charged an overtake.
Without(ws, i) ==
  [j \in 1 .. (Len(ws) - 1) |->
     IF j < i THEN [ws[j] EXCEPT !.overtaken = @ + 1] ELSE ws[j + 1]]
=============================================================================
