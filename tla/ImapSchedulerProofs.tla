------------------------ MODULE ImapSchedulerProofs ------------------------
(***************************************************************************)
(* Proofs about ImapScheduler, for every set of calls, keys and mutex      *)
(* objects and every promotion bound.                                      *)
(***************************************************************************)
EXTENDS ImapScheduler, FiniteSets, SequenceTheorems, FiniteSetTheorems,
        WellFoundedInduction, TLAPS

USE MaxOvertakesAssumption, PriorityAssumption, NoMutexAssumption, NoKeyAssumption

(***************************************************************************)
(* Lemmas about queues.                                                    *)
(***************************************************************************)

\* A new waiter is a waiter: its rank is one of the five.
LEMMA NewWaiterType ==
  ASSUME NEW c \in Call, NEW p \in Priority
  PROVE  /\ NewWaiter(c, p) \in Waiter(Call)
         /\ NewWaiter(c, p).who = c
         /\ NewWaiter(c, p).overtaken = 0
BY DEF NewWaiter, Waiter, Requesters, IMAP_PRIORITY_RANK

\* Taking position i out of a queue leaves a queue that is one shorter, in
\* which every other waiter keeps its place in the order, and the ones that
\* stood before i are charged one overtake.
LEMMA WithoutProperties ==
  ASSUME NEW ws \in Seq(Waiter(Call)), NEW i \in DOMAIN ws
  PROVE  /\ Without(ws, i) \in Seq(Waiter(Call))
         /\ DOMAIN Without(ws, i) = 1 .. (Len(ws) - 1)
         /\ \A j \in 1 .. (Len(ws) - 1) :
              /\ j \in DOMAIN ws /\ j + 1 \in DOMAIN ws
              /\ j < i =>
                   /\ Without(ws, i)[j].who = ws[j].who
                   /\ Without(ws, i)[j].rank = ws[j].rank
                   /\ Without(ws, i)[j].overtaken = ws[j].overtaken + 1
              /\ ~(j < i) => Without(ws, i)[j] = ws[j + 1]
<1>1. /\ Len(ws) \in Nat
      /\ DOMAIN ws = 1 .. Len(ws)
      /\ \A j \in 1 .. Len(ws) : ws[j] \in Waiter(Call)
  BY LenProperties, ElementOfSeq
<1>2. Len(ws) - 1 \in Nat
  BY <1>1
<1>3. ASSUME NEW w \in Waiter(Call)
      PROVE  /\ [w EXCEPT !.overtaken = @ + 1] \in Waiter(Call)
             /\ [w EXCEPT !.overtaken = @ + 1].who = w.who
             /\ [w EXCEPT !.overtaken = @ + 1].rank = w.rank
             /\ [w EXCEPT !.overtaken = @ + 1].overtaken = w.overtaken + 1
  <2>1. w.overtaken + 1 \in Nat
    BY DEF Waiter
  <2>2. DOMAIN w = {"who", "rank", "overtaken"}
    BY DEF Waiter
  <2> QED BY <2>1, <2>2 DEF Waiter
<1>4. DOMAIN Without(ws, i) = 1 .. (Len(ws) - 1)
  BY DEF Without
<1>5. ASSUME NEW j \in 1 .. (Len(ws) - 1)
      PROVE  /\ j \in DOMAIN ws /\ j + 1 \in DOMAIN ws
             /\ j < i => Without(ws, i)[j] = [ws[j] EXCEPT !.overtaken = @ + 1]
             /\ ~(j < i) => Without(ws, i)[j] = ws[j + 1]
  BY <1>1 DEF Without
<1>6. ASSUME NEW j \in 1 .. (Len(ws) - 1)
      PROVE  Without(ws, i)[j] \in Waiter(Call)
  <2>1. ws[j] \in Waiter(Call) /\ ws[j + 1] \in Waiter(Call)
    BY <1>1, <1>5
  <2>2. [ws[j] EXCEPT !.overtaken = @ + 1] \in Waiter(Call)
    BY <1>3, <2>1
  <2> QED BY <1>5, <2>1, <2>2
<1>7. Without(ws, i) = [j \in 1 .. (Len(ws) - 1) |-> Without(ws, i)[j]]
  BY DEF Without
<1>8. Without(ws, i) \in [1 .. (Len(ws) - 1) -> Waiter(Call)]
  BY <1>6, <1>7
<1>9. Without(ws, i) \in Seq(Waiter(Call))
  BY <1>2, <1>8, SeqDef
<1> QED BY <1>1, <1>3, <1>4, <1>5, <1>9

\* Appending a waiter keeps the others where they are.
LEMMA AppendWaiter ==
  ASSUME NEW ws \in Seq(Waiter(Call)), NEW w \in Waiter(Call)
  PROVE  /\ Append(ws, w) \in Seq(Waiter(Call))
         /\ DOMAIN ws = 1 .. Len(ws) /\ Len(ws) \in Nat
         /\ DOMAIN Append(ws, w) = 1 .. (Len(ws) + 1)
         /\ \A j \in 1 .. Len(ws) : Append(ws, w)[j] = ws[j]
         /\ Append(ws, w)[Len(ws) + 1] = w
BY LenProperties

(***************************************************************************)
(* Type correctness.                                                       *)
(***************************************************************************)

\* The state keeps its shape: queues hold waiters, calls refer to objects.
THEOREM TypeCorrect == Spec => []TypeOK
<1>1. Init => TypeOK
  <2> << >> \in Seq(Waiter(Call))
    BY EmptySeq
  <2> QED BY DEF Init, TypeOK
<1>2. TypeOK /\ [Next]_vars => TypeOK'
  <2> SUFFICES ASSUME TypeOK, [Next]_vars PROVE TypeOK'
    OBVIOUS
  <2>1. CASE UNCHANGED vars
    BY <2>1 DEF vars, TypeOK
  <2>2. ASSUME NEW c \in Call, NEW k \in Key, NEW m \in Mutex, RunNow(c, k, m)
        PROVE  TypeOK'
    BY <2>2 DEF RunNow, Enter, TypeOK
  <2>3. ASSUME NEW c \in Call, NEW k \in Key, NEW p \in Priority, NEW m \in Mutex,
               Enqueue(c, k, p, m)
        PROVE  TypeOK'
    <3>1. NewWaiter(c, p) \in Waiter(Call)
      BY NewWaiterType
    <3>2. waiters' \in [Mutex -> Seq(Waiter(Call))]
      <4>1. Append(waiters[m], NewWaiter(c, p)) \in Seq(Waiter(Call))
        BY <3>1, AppendWaiter DEF TypeOK
      <4> QED BY <4>1, <2>3 DEF Enqueue, TypeOK
    <3> QED BY <2>3, <3>2 DEF Enqueue, Enter, TypeOK
  <2>4. ASSUME NEW c \in Call, Resume(c) PROVE TypeOK'
    BY <2>4 DEF Resume, TypeOK
  <2>5. ASSUME NEW c \in Call, pc[c] = "running", ReleaseFree(c) PROVE TypeOK'
    BY <2>5 DEF ReleaseFree, TypeOK
  <2>6. ASSUME NEW c \in Call, pc[c] = "running",
               NEW i \in DOMAIN waiters[at[c]], HandOver(c, i)
        PROVE  TypeOK'
    <3>1. waiters' \in [Mutex -> Seq(Waiter(Call))]
      <4>1. CASE at[c] \in Mutex
        <5>1. Without(waiters[at[c]], i) \in Seq(Waiter(Call))
          BY <4>1, <2>6, WithoutProperties DEF TypeOK
        <5> QED BY <5>1, <2>6 DEF HandOver, TypeOK
      <4>2. CASE at[c] \notin Mutex
        BY <4>2, <2>6 DEF HandOver, TypeOK
      <4> QED BY <4>1, <4>2
    <3> QED BY <2>6, <3>1 DEF HandOver, TypeOK
  <2>7. ASSUME NEW k \in Key, ForgetIfIdle(k) PROVE TypeOK'
    BY <2>7 DEF ForgetIfIdle, TypeOK
  <2>8. CASE ForgetAllIdle
    BY <2>8 DEF ForgetAllIdle, TypeOK
  <2> QED BY <2>1, <2>2, <2>3, <2>4, <2>5, <2>6, <2>7, <2>8 DEF Next, Release
<1> QED BY <1>1, <1>2, PTL DEF Spec

(***************************************************************************)
(* Overtaking is bounded, and follows age.                                 *)
(***************************************************************************)

\* One queue: nobody is beyond the bound, and older waiters were overtaken at
\* least as often as younger ones.
Fair(ws) ==
  /\ \A i \in DOMAIN ws : ws[i].overtaken <= MaxOvertakes
  /\ \A i, j \in DOMAIN ws : i < j => ws[i].overtaken >= ws[j].overtaken

\* A newcomer, never overtaken, keeps a queue fair.
LEMMA AppendKeepsFair ==
  ASSUME NEW ws \in Seq(Waiter(Call)), Fair(ws),
         NEW c \in Call, NEW p \in Priority
  PROVE  Fair(Append(ws, NewWaiter(c, p)))
<1> DEFINE w == NewWaiter(c, p)
           new == Append(ws, w)
<1>1. w \in Waiter(Call) /\ w.overtaken = 0
  BY NewWaiterType
<1>2. /\ DOMAIN ws = 1 .. Len(ws) /\ Len(ws) \in Nat
      /\ DOMAIN new = 1 .. (Len(ws) + 1)
      /\ \A j \in 1 .. Len(ws) : new[j] = ws[j]
      /\ new[Len(ws) + 1] = w
  BY <1>1, AppendWaiter
<1>3. \A j \in 1 .. Len(ws) : ws[j].overtaken \in Nat
  <2> TAKE j \in 1 .. Len(ws)
  <2>1. ws[j] \in Waiter(Call)
    BY ElementOfSeq
  <2> QED BY <2>1 DEF Waiter
<1> HIDE DEF new, w
<1>4. \A i \in DOMAIN new : new[i].overtaken <= MaxOvertakes
  BY <1>1, <1>2, <1>3 DEF Fair
<1>5. \A i, j \in DOMAIN new : i < j => new[i].overtaken >= new[j].overtaken
  BY <1>1, <1>2, <1>3 DEF Fair
<1> QED BY <1>4, <1>5 DEF Fair, new, w

\* Whoever is overtaken has not reached the bound: otherwise it, or somebody
\* older, would have been next.
LEMMA PassedOverHasRoom ==
  ASSUME NEW ws \in Seq(Waiter(Call)),
         NEW i \in DOMAIN ws, IsNext(ws, i), NEW j \in DOMAIN ws, j < i
  PROVE  ws[j].overtaken < MaxOvertakes
<1>1. Len(ws) \in Nat /\ DOMAIN ws = 1 .. Len(ws)
  BY LenProperties
<1>2. \A l \in DOMAIN ws : ws[l].overtaken \in Nat /\ ws[l].rank \in 0 .. 4
  <2> TAKE l \in DOMAIN ws
  <2>1. ws[l] \in Waiter(Call)
    BY <1>1, ElementOfSeq
  <2> QED BY <2>1 DEF Waiter
<1>3. Outranks(ws, i, j)
  BY <1>1 DEF IsNext
<1>4. EffectiveRank(ws[i]) < EffectiveRank(ws[j])
  BY <1>1, <1>2, <1>3 DEF Outranks, EffectiveRank
<1>5. EffectiveRank(ws[i]) >= -1
  BY <1>2 DEF EffectiveRank
<1> QED BY <1>2, <1>4, <1>5 DEF EffectiveRank

\* Serving the next waiter keeps a queue fair.
LEMMA ServingKeepsFair ==
  ASSUME NEW ws \in Seq(Waiter(Call)), Fair(ws),
         NEW i \in DOMAIN ws, IsNext(ws, i)
  PROVE  Fair(Without(ws, i))
<1> DEFINE new == Without(ws, i)
           n == Len(ws)
<1>1. n \in Nat /\ DOMAIN ws = 1 .. n
  BY LenProperties
<1>2. \A j \in 1 .. n : ws[j].overtaken \in Nat /\ ws[j].rank \in 0 .. 4
  <2> TAKE j \in 1 .. n
  <2>1. ws[j] \in Waiter(Call)
    BY ElementOfSeq
  <2> QED BY <2>1 DEF Waiter
<1>3. /\ DOMAIN new = 1 .. (n - 1)
      /\ \A j \in 1 .. (n - 1) :
           /\ j < i => new[j].overtaken = ws[j].overtaken + 1
           /\ ~(j < i) => new[j].overtaken = ws[j + 1].overtaken
  BY WithoutProperties
<1>4. \A j \in 1 .. n : j < i => ws[j].overtaken < MaxOvertakes
  BY <1>1, PassedOverHasRoom
<1> HIDE DEF new, n
<1>5. \A j \in DOMAIN new : new[j].overtaken <= MaxOvertakes
  <2> TAKE j \in DOMAIN new
  <2>1. j \in 1 .. (n - 1) /\ j \in 1 .. n /\ j + 1 \in 1 .. n
    BY <1>1, <1>3
  <2>2. CASE j < i
    BY <1>2, <1>3, <1>4, <2>1, <2>2
  <2>3. CASE ~(j < i)
    BY <1>1, <1>3, <2>1, <2>3 DEF Fair
  <2> QED BY <2>2, <2>3
<1>6. ASSUME NEW j \in DOMAIN new, NEW k \in DOMAIN new, j < k
      PROVE  new[j].overtaken >= new[k].overtaken
  <2>1. /\ j \in 1 .. (n - 1) /\ j \in 1 .. n /\ j + 1 \in 1 .. n
        /\ k \in 1 .. (n - 1) /\ k \in 1 .. n /\ k + 1 \in 1 .. n
        /\ j + 1 < k + 1 /\ j < k + 1 /\ i \in 1 .. n
    BY <1>1, <1>3, <1>6
  <2>2. /\ ws[j].overtaken >= ws[k].overtaken
        /\ ws[j].overtaken >= ws[k + 1].overtaken
        /\ ws[j + 1].overtaken >= ws[k + 1].overtaken
    BY <1>1, <1>6, <2>1 DEF Fair
  <2>3. /\ ws[j].overtaken \in Nat /\ ws[k].overtaken \in Nat
        /\ ws[k + 1].overtaken \in Nat
    BY <1>2, <2>1
  <2>4. CASE k < i
    <3>1. j < i
      BY <1>6, <2>1, <2>4
    <3>2. new[j].overtaken = ws[j].overtaken + 1
      BY <1>3, <2>1, <3>1
    <3>3. new[k].overtaken = ws[k].overtaken + 1
      BY <1>3, <2>1, <2>4
    <3> QED BY <2>2, <2>3, <3>2, <3>3
  <2>5. CASE j < i /\ ~(k < i)
    <3>1. new[j].overtaken = ws[j].overtaken + 1
      BY <1>3, <2>1, <2>5
    <3>2. new[k].overtaken = ws[k + 1].overtaken
      BY <1>3, <2>1, <2>5
    <3> QED BY <2>2, <2>3, <3>1, <3>2
  <2>6. CASE ~(j < i)
    <3>1. ~(k < i)
      BY <1>6, <2>1, <2>6
    <3>2. new[j].overtaken = ws[j + 1].overtaken
      BY <1>3, <2>1, <2>6
    <3>3. new[k].overtaken = ws[k + 1].overtaken
      BY <1>3, <2>1, <3>1
    <3> QED BY <2>2, <3>2, <3>3
  <2> QED BY <2>4, <2>5, <2>6
<1> QED BY <1>5, <1>6 DEF Fair, new

AllFair == \A m \in Mutex : Fair(waiters[m])

\* Every queue is fair at all times.
LEMMA AlwaysFair == Spec => []AllFair
<1>1. Init => AllFair
  BY DEF Init, AllFair, Fair
<1>2. TypeOK /\ AllFair /\ [Next]_vars => AllFair'
  <2> SUFFICES ASSUME TypeOK, AllFair, [Next]_vars, NEW m \in Mutex
               PROVE  Fair(waiters'[m])
    BY DEF AllFair
  <2>0. waiters[m] \in Seq(Waiter(Call)) /\ Fair(waiters[m])
    BY DEF TypeOK, AllFair
  <2>1. CASE waiters'[m] = waiters[m]
    BY <2>0, <2>1
  <2>2. ASSUME NEW c \in Call, NEW k \in Key, NEW p \in Priority, NEW n \in Mutex,
               Enqueue(c, k, p, n)
        PROVE  Fair(waiters'[m])
    <3>1. waiters' = [waiters EXCEPT ![n] = Append(@, NewWaiter(c, p))]
      BY <2>2 DEF Enqueue
    <3>2. CASE m = n
      <4>1. waiters'[m] = Append(waiters[m], NewWaiter(c, p))
        BY <3>1, <3>2 DEF TypeOK
      <4> QED BY <2>0, <4>1, AppendKeepsFair
    <3>3. CASE m # n
      BY <2>0, <3>1, <3>3 DEF TypeOK
    <3> QED BY <3>2, <3>3
  <2>3. ASSUME NEW c \in Call, NEW i \in DOMAIN waiters[at[c]], HandOver(c, i)
        PROVE  Fair(waiters'[m])
    <3>1. waiters' = [waiters EXCEPT ![at[c]] = Without(@, i)]
      BY <2>3 DEF HandOver
    <3>2. CASE m = at[c]
      <4>1. waiters'[m] = Without(waiters[m], i)
        BY <3>1, <3>2 DEF TypeOK
      <4> QED BY <2>0, <2>3, <3>2, <4>1, ServingKeepsFair DEF HandOver
    <3>3. CASE m # at[c]
      BY <2>0, <3>1, <3>3 DEF TypeOK
    <3> QED BY <3>2, <3>3
  <2> QED
    BY <2>1, <2>2, <2>3
    DEF Next, vars, RunNow, Resume, Release, ReleaseFree, ForgetIfIdle, ForgetAllIdle
<1> QED BY <1>1, <1>2, TypeCorrect, PTL DEF Spec

\* Overtaking is bounded for every instance and follows age in every queue.
THEOREM BoundedOvertaking == Spec => [](OvertakenBounded /\ OvertakesFollowAge)
<1>1. AllFair => OvertakenBounded /\ OvertakesFollowAge
  BY DEF AllFair, Fair, OvertakenBounded, OvertakesFollowAge
<1> QED BY <1>1, AlwaysFair, PTL

(***************************************************************************)
(* Mutual exclusion.  It is not inductive on its own: a hand-over or a     *)
(* forgotten mutex could break it unless the registry, the lock flags, the *)
(* queues and the calls agree with each other.                             *)
(***************************************************************************)

Whos(ws) == {ws[j].who : j \in DOMAIN ws}

Distinct(ws) == \A i, j \in DOMAIN ws : ws[i].who = ws[j].who => i = j

\* Serving position i takes exactly its caller out of the queue.
LEMMA WithoutWhos ==
  ASSUME NEW ws \in Seq(Waiter(Call)), NEW i \in DOMAIN ws, Distinct(ws)
  PROVE  /\ Whos(Without(ws, i)) = Whos(ws) \ {ws[i].who}
         /\ Distinct(Without(ws, i))
<1> DEFINE new == Without(ws, i)
           n == Len(ws)
           old(j) == IF j < i THEN j ELSE j + 1
<1>1. n \in Nat /\ DOMAIN ws = 1 .. n /\ DOMAIN new = 1 .. (n - 1)
  BY LenProperties, WithoutProperties
<1>2. ASSUME NEW j \in DOMAIN new
      PROVE  new[j].who = ws[old(j)].who /\ old(j) \in DOMAIN ws /\ old(j) # i
  <2>1. j \in 1 .. (n - 1)
    BY <1>1
  <2>2. CASE j < i
    BY <1>1, <2>1, <2>2, WithoutProperties
  <2>3. CASE ~(j < i)
    <3>1. new[j] = ws[j + 1] /\ j + 1 \in DOMAIN ws
      BY <2>1, <2>3, WithoutProperties
    <3> QED BY <1>1, <2>1, <2>3, <3>1
  <2> QED BY <2>2, <2>3
<1>3. ASSUME NEW l \in DOMAIN ws, l # i
      PROVE  \E j \in DOMAIN new : old(j) = l
  <2>1. CASE l < i
    BY <1>1, <2>1
  <2>2. CASE l > i
    <3>1. l - 1 \in DOMAIN new /\ old(l - 1) = l
      BY <1>1, <2>2
    <3> QED BY <3>1
  <2> QED BY <1>1, <1>3, <2>1, <2>2
<1>4. ASSUME NEW j \in DOMAIN new, NEW k \in DOMAIN new, old(j) = old(k)
      PROVE  j = k
  <2>1. j \in Int /\ k \in Int /\ i \in Int
    BY <1>1
  <2> QED BY <1>4, <2>1
<1> HIDE DEF new, old, n
<1>5. Whos(new) \subseteq Whos(ws) \ {ws[i].who}
  BY <1>2 DEF Whos, Distinct
<1>6. Whos(ws) \ {ws[i].who} \subseteq Whos(new)
  <2> SUFFICES ASSUME NEW l \in DOMAIN ws, l # i PROVE ws[l].who \in Whos(new)
    BY DEF Whos
  <2> PICK j \in DOMAIN new : old(j) = l
    BY <1>3
  <2> QED BY <1>2 DEF Whos
<1>7. Distinct(new)
  BY <1>2, <1>4 DEF Distinct
<1> QED BY <1>5, <1>6, <1>7 DEF new

\* A newcomer joins the callers of the queue.
LEMMA AppendWhos ==
  ASSUME NEW ws \in Seq(Waiter(Call)), NEW w \in Waiter(Call), Distinct(ws),
         w.who \notin Whos(ws)
  PROVE  /\ Whos(Append(ws, w)) = Whos(ws) \cup {w.who}
         /\ Distinct(Append(ws, w))
<1> DEFINE new == Append(ws, w)
           n == Len(ws)
<1>1. /\ n \in Nat /\ DOMAIN ws = 1 .. n /\ DOMAIN new = 1 .. (n + 1)
      /\ \A j \in 1 .. n : new[j] = ws[j]
      /\ new[n + 1] = w
  BY AppendWaiter
<1> HIDE DEF new, n
<1>2. Whos(new) = Whos(ws) \cup {w.who}
  <2>1. \A j \in 1 .. (n + 1) : j \in 1 .. n \/ j = n + 1
    BY <1>1
  <2>2. \A j \in 1 .. n : j \in 1 .. (n + 1)
    BY <1>1
  <2>3. n + 1 \in 1 .. (n + 1)
    BY <1>1
  <2> QED BY <1>1, <2>1, <2>2, <2>3 DEF Whos
<1>3. Distinct(new)
  BY <1>1 DEF Distinct, Whos
<1> QED BY <1>2, <1>3 DEF new

Registered ==
  \A c \in Call : pc[c] # "idle" =>
    key[c] \in Key /\ at[c] \in Mutex /\ byKey[key[c]] = at[c]

IdleUnbound == \A c \in Call : pc[c] = "idle" => at[c] = NoMutex

OneMutexPerKey ==
  \A k, l \in Key : byKey[k] = byKey[l] /\ byKey[k] # NoMutex => k = l

LockedByOwner ==
  \A m \in Mutex :
    /\ locked[m] <=> Owners(m) # {}
    /\ \A c, d \in Owners(m) : c = d

QueueHoldsWaiting ==
  \A m \in Mutex :
    /\ Whos(waiters[m]) = {c \in Call : pc[c] = "waiting" /\ at[c] = m}
    /\ Distinct(waiters[m])
    /\ ~locked[m] => waiters[m] = << >>

LockInv ==
  /\ Registered /\ IdleUnbound /\ OneMutexPerKey
  /\ LockedByOwner /\ QueueHoldsWaiting

\* The inductive invariant implies what the calls rely on.
LEMMA LockInvImplies ==
  ASSUME TypeOK, LockInv
  PROVE  MutualExclusion /\ WaitersHaveAnOwner /\ QueuedOnce
<1>1. MutualExclusion
  <2> SUFFICES ASSUME NEW c \in Call, NEW d \in Call, pc[c] = "running",
                      pc[d] = "running", key[c] = key[d]
               PROVE  c = d
    BY DEF MutualExclusion
  <2>1. at[c] \in Mutex /\ at[d] = at[c]
    BY DEF LockInv, Registered
  <2> QED BY <2>1 DEF LockInv, LockedByOwner, Owners
<1>2. WaitersHaveAnOwner
  BY DEF LockInv, LockedByOwner, QueueHoldsWaiting, WaitersHaveAnOwner, Owners
<1>3. QueuedOnce
  BY DEF LockInv, Registered, QueueHoldsWaiting, QueuedOnce, Whos, Distinct
<1> QED BY <1>1, <1>2, <1>3

\* An active call keeps the object of its key alive: a fresh object belongs
\* to a key without any active call.
LEMMA LookupIsRight ==
  ASSUME TypeOK, LockInv, NEW k \in Key, NEW m \in Mutex, Lookup(k, m)
  PROVE  /\ \A l \in Key : l # k => byKey[l] # m
         /\ \A c \in Call : pc[c] # "idle" /\ key[c] = k => at[c] = m
         /\ \A c \in Call : pc[c] # "idle" /\ key[c] # k => at[c] # m
<1>1. CASE byKey[k] = NoMutex
  BY <1>1 DEF Lookup, Fresh, LockInv, Registered, TypeOK
<1>2. CASE byKey[k] # NoMutex
  BY <1>2 DEF Lookup, LockInv, Registered, OneMutexPerKey, TypeOK
<1> QED BY <1>1, <1>2

\* Taking a free lock preserves the invariant.
LEMMA RunNowKeepsLockInv ==
  ASSUME TypeOK, LockInv, NEW c \in Call, NEW k \in Key, NEW m \in Mutex,
         RunNow(c, k, m)
  PROVE  LockInv'
<1> USE DEF RunNow, Enter, TypeOK
<1>1. /\ \A l \in Key : l # k => byKey[l] # m
      /\ \A d \in Call : pc[d] # "idle" /\ key[d] = k => at[d] = m
      /\ \A d \in Call : pc[d] # "idle" /\ key[d] # k => at[d] # m
  BY LookupIsRight
<1>2. Registered'
  BY <1>1 DEF LockInv, Registered
<1>3. IdleUnbound'
  BY DEF LockInv, IdleUnbound
<1>4. OneMutexPerKey'
  BY <1>1 DEF LockInv, OneMutexPerKey
<1>5. LockedByOwner'
  <2>1. Owners(m)' = {c}
    BY DEF LockInv, LockedByOwner, Owners
  <2>2. \A n \in Mutex : n # m => Owners(n)' = Owners(n)
    BY DEF LockInv, IdleUnbound, Owners
  <2>3. \A n \in Mutex : n # m => locked'[n] = locked[n]
    OBVIOUS
  <2>4. locked'[m]
    OBVIOUS
  <2> QED BY <2>1, <2>2, <2>3, <2>4 DEF LockInv, LockedByOwner, Owners
<1>6. QueueHoldsWaiting'
  BY DEF LockInv, QueueHoldsWaiting, IdleUnbound
<1> QED BY <1>2, <1>3, <1>4, <1>5, <1>6 DEF LockInv

\* Queueing behind the holder preserves the invariant.
LEMMA EnqueueKeepsLockInv ==
  ASSUME TypeOK, LockInv, NEW c \in Call, NEW k \in Key, NEW p \in Priority,
         NEW m \in Mutex, Enqueue(c, k, p, m)
  PROVE  LockInv'
<1> USE DEF Enqueue, Enter, TypeOK
<1>1. /\ \A l \in Key : l # k => byKey[l] # m
      /\ \A d \in Call : pc[d] # "idle" /\ key[d] = k => at[d] = m
      /\ \A d \in Call : pc[d] # "idle" /\ key[d] # k => at[d] # m
  BY LookupIsRight
<1>2. Registered'
  BY <1>1 DEF LockInv, Registered
<1>3. IdleUnbound'
  BY DEF LockInv, IdleUnbound
<1>4. OneMutexPerKey'
  BY <1>1 DEF LockInv, OneMutexPerKey
<1>5. LockedByOwner'
  <2>1. \A n \in Mutex : Owners(n)' = Owners(n)
    BY DEF LockInv, IdleUnbound, Owners
  <2> QED BY <2>1 DEF LockInv, LockedByOwner
<1>6. QueueHoldsWaiting'
  <2>1. c \notin Whos(waiters[m])
    BY DEF LockInv, QueueHoldsWaiting
  <2>2. /\ NewWaiter(c, p) \in Waiter(Call)
        /\ NewWaiter(c, p).who = c
    BY NewWaiterType
  <2>3. /\ Whos(waiters'[m]) = Whos(waiters[m]) \cup {c}
        /\ Distinct(waiters'[m])
    BY <2>1, <2>2, AppendWhos DEF LockInv, QueueHoldsWaiting
  <2>4. \A n \in Mutex : n # m => waiters'[n] = waiters[n]
    OBVIOUS
  <2>5. \A n \in Mutex :
          {d \in Call : pc'[d] = "waiting" /\ at'[d] = n} =
          {d \in Call : pc[d] = "waiting" /\ at[d] = n}
            \cup (IF n = m THEN {c} ELSE {})
    BY DEF LockInv, IdleUnbound
  <2> QED BY <2>3, <2>4, <2>5 DEF LockInv, QueueHoldsWaiting
<1> QED BY <1>2, <1>3, <1>4, <1>5, <1>6 DEF LockInv

\* Releasing a lock nobody waits for preserves the invariant.
LEMMA ReleaseFreeKeepsLockInv ==
  ASSUME TypeOK, LockInv, NEW c \in Call, ReleaseFree(c)
  PROVE  LockInv'
<1> DEFINE m == at[c]
<1> USE DEF ReleaseFree, TypeOK
<1>0. m \in Mutex
  BY DEF LockInv, Registered
<1>1. Registered' /\ IdleUnbound' /\ OneMutexPerKey'
  BY DEF LockInv, Registered, IdleUnbound, OneMutexPerKey
<1>2. LockedByOwner'
  <2>1. Owners(m) = {c}
    BY <1>0 DEF LockInv, LockedByOwner, Owners
  <2>2. \A n \in Mutex : Owners(n)' = Owners(n) \ {c}
    BY DEF Owners
  <2> QED BY <1>0, <2>1, <2>2 DEF LockInv, LockedByOwner, Owners
<1>3. QueueHoldsWaiting'
  BY <1>0 DEF LockInv, QueueHoldsWaiting
<1> QED BY <1>1, <1>2, <1>3 DEF LockInv

\* Handing the lock to the next waiter preserves the invariant.
LEMMA HandOverKeepsLockInv ==
  ASSUME TypeOK, LockInv, NEW c \in Call, NEW i \in DOMAIN waiters[at[c]],
         HandOver(c, i)
  PROVE  LockInv'
<1>0. PICK m \in Mutex : m = at[c] /\ pc[c] = "running"
  BY DEF HandOver, LockInv, Registered
<1> DEFINE ws == waiters[m]
           d == ws[i].who
<1>1. ws \in Seq(Waiter(Call))
  BY <1>0 DEF TypeOK
<1>2. d \in Call /\ pc[d] = "waiting" /\ at[d] = m /\ d # c
  <2>1. d \in Whos(ws)
    BY <1>0 DEF Whos
  <2> QED BY <1>0, <2>1 DEF LockInv, QueueHoldsWaiting
<1> USE DEF TypeOK
<1>3. /\ pc' = [pc EXCEPT ![c] = "idle", ![d] = "woken"]
      /\ at' = [at EXCEPT ![c] = NoMutex]
      /\ key' = [key EXCEPT ![c] = NoKey]
      /\ waiters' = [waiters EXCEPT ![m] = Without(@, i)]
      /\ byKey' = byKey /\ locked' = locked
  BY <1>0 DEF HandOver
<1> HIDE DEF d
<1>4. Registered' /\ IdleUnbound' /\ OneMutexPerKey'
  BY <1>2, <1>3 DEF LockInv, Registered, IdleUnbound, OneMutexPerKey
<1>5. LockedByOwner'
  <2>1. Owners(m) = {c}
    <3>1. c \in Owners(m)
      BY <1>0 DEF Owners
    <3> QED BY <1>0, <3>1 DEF LockInv, LockedByOwner
  <2>2. Owners(m)' = {d}
    <3>1. \A e \in Call : e # d => ~(pc'[e] \in {"woken", "running"} /\ at'[e] = m)
      BY <1>0, <1>2, <1>3, <2>1 DEF Owners
    <3>2. pc'[d] = "woken" /\ at'[d] = m
      BY <1>0, <1>2, <1>3
    <3> QED BY <1>2, <3>1, <3>2 DEF Owners
  <2>3. \A n \in Mutex : n # m => Owners(n)' = Owners(n)
    BY <1>0, <1>2, <1>3 DEF Owners
  <2>4. locked[m] /\ locked' = locked
    BY <1>3, <2>1 DEF LockInv, LockedByOwner
  <2>5. ASSUME NEW n \in Mutex
        PROVE  /\ locked'[n] <=> Owners(n)' # {}
               /\ \A e, f \in Owners(n)' : e = f
    <3>1. CASE n = m
      <4>1. Owners(n)' = {d}
        BY <2>2, <3>1
      <4> QED BY <2>4, <3>1, <4>1
    <3>2. CASE n # m
      <4>1. Owners(n)' = Owners(n)
        BY <2>3, <3>2
      <4> QED BY <2>4, <4>1 DEF LockInv, LockedByOwner
    <3> QED BY <3>1, <3>2
  <2> QED BY <2>5 DEF LockedByOwner
<1>6. QueueHoldsWaiting'
  <2>1. /\ Whos(Without(ws, i)) = Whos(ws) \ {d}
        /\ Distinct(Without(ws, i))
    BY <1>0, <1>1, WithoutWhos DEF LockInv, QueueHoldsWaiting, d
  <2>2. /\ waiters'[m] = Without(ws, i)
        /\ \A n \in Mutex : n # m => waiters'[n] = waiters[n]
    BY <1>0, <1>3
  <2>3. \A n \in Mutex :
          {e \in Call : pc'[e] = "waiting" /\ at'[e] = n} =
          {e \in Call : pc[e] = "waiting" /\ at[e] = n} \ {d}
    BY <1>0, <1>2, <1>3
  <2>4. locked'[m]
    BY <1>0, <1>3 DEF LockInv, LockedByOwner, Owners
  <2>5. \A n \in Mutex : n # m => d \notin Whos(waiters[n])
    BY <1>2 DEF LockInv, QueueHoldsWaiting
  <2>6. ASSUME NEW n \in Mutex
        PROVE  /\ Whos(waiters'[n]) = {e \in Call : pc'[e] = "waiting" /\ at'[e] = n}
               /\ Distinct(waiters'[n])
               /\ ~locked'[n] => waiters'[n] = << >>
    <3>1. CASE n = m
      <4>1. Whos(ws) = {e \in Call : pc[e] = "waiting" /\ at[e] = n}
        BY <3>1 DEF LockInv, QueueHoldsWaiting
      <4> QED BY <2>1, <2>2, <2>3, <2>4, <3>1, <4>1
    <3>2. CASE n # m
      <4>1. Whos(waiters[n]) = {e \in Call : pc[e] = "waiting" /\ at[e] = n}
        BY DEF LockInv, QueueHoldsWaiting
      <4>2. Whos(waiters[n]) = Whos(waiters[n]) \ {d}
        BY <2>5, <3>2
      <4> QED BY <1>3, <2>2, <2>3, <3>2, <4>1, <4>2 DEF LockInv, QueueHoldsWaiting
    <3> QED BY <3>1, <3>2
  <2> QED BY <2>6 DEF QueueHoldsWaiting
<1> QED BY <1>4, <1>5, <1>6 DEF LockInv

\* Forgetting an idle mutex preserves the invariant: no call refers to it.
LEMMA ForgettingKeepsLockInv ==
  ASSUME TypeOK, LockInv, ForgetAllIdle \/ \E k \in Key : ForgetIfIdle(k)
  PROVE  LockInv'
<1>1. UNCHANGED <<locked, waiters, pc, at, key>>
  BY DEF ForgetIfIdle, ForgetAllIdle
<1>2. ASSUME NEW k \in Key, byKey'[k] # byKey[k]
      PROVE  byKey'[k] = NoMutex /\ byKey[k] \in Mutex /\ Idle(byKey[k])
  BY <1>2 DEF ForgetIfIdle, ForgetAllIdle, TypeOK
<1>3. byKey' \in [Key -> Mutex \cup {NoMutex}]
  BY DEF ForgetIfIdle, ForgetAllIdle, TypeOK
<1>4. ASSUME NEW m \in Mutex, Idle(m), NEW c \in Call, pc[c] # "idle"
      PROVE  at[c] # m
  <2>1. CASE pc[c] = "waiting"
    <3>1. Whos(waiters[m]) = {}
      BY <1>4 DEF LockInv, QueueHoldsWaiting, Idle, Whos
    <3> QED BY <2>1, <3>1 DEF LockInv, QueueHoldsWaiting
  <2>2. CASE pc[c] # "waiting"
    <3>1. pc[c] \in {"woken", "running"}
      BY <1>4, <2>2 DEF TypeOK
    <3> QED BY <1>4, <3>1 DEF LockInv, LockedByOwner, Owners, Idle
  <2> QED BY <2>1, <2>2
<1>5. Registered'
  BY <1>1, <1>2, <1>4 DEF LockInv, Registered
<1>6. IdleUnbound' /\ LockedByOwner' /\ QueueHoldsWaiting'
  BY <1>1 DEF LockInv, IdleUnbound, LockedByOwner, QueueHoldsWaiting, Owners
<1>7. OneMutexPerKey'
  BY <1>2, <1>3 DEF LockInv, OneMutexPerKey
<1> QED BY <1>5, <1>6, <1>7 DEF LockInv

\* The registry, the locks, the queues and the calls always agree.
THEOREM LocksAgree == Spec => []LockInv
<1>1. Init => LockInv
  BY DEF Init, LockInv, Registered, IdleUnbound, OneMutexPerKey, LockedByOwner,
         QueueHoldsWaiting, Owners, Whos, Distinct
<1>2. TypeOK /\ LockInv /\ [Next]_vars => LockInv'
  <2> SUFFICES ASSUME TypeOK, LockInv, [Next]_vars PROVE LockInv'
    OBVIOUS
  <2>1. CASE UNCHANGED vars
    BY <2>1 DEF vars, LockInv, Registered, IdleUnbound, OneMutexPerKey,
                LockedByOwner, QueueHoldsWaiting, Owners
  <2>2. ASSUME NEW c \in Call, Resume(c) PROVE LockInv'
    <3>1. \A m \in Mutex : Owners(m)' = Owners(m)
      BY <2>2 DEF Resume, Owners, TypeOK
    <3>2. Registered' /\ IdleUnbound' /\ OneMutexPerKey' /\ QueueHoldsWaiting'
      BY <2>2 DEF Resume, TypeOK, LockInv, Registered, IdleUnbound,
                  OneMutexPerKey, QueueHoldsWaiting
    <3>3. LockedByOwner'
      BY <2>2, <3>1 DEF Resume, LockInv, LockedByOwner
    <3> QED BY <3>2, <3>3 DEF LockInv
  <2>3. ASSUME NEW c \in Call, NEW k \in Key, NEW m \in Mutex, RunNow(c, k, m)
        PROVE  LockInv'
    BY <2>3, RunNowKeepsLockInv
  <2>4. ASSUME NEW c \in Call, NEW k \in Key, NEW p \in Priority, NEW m \in Mutex,
               Enqueue(c, k, p, m)
        PROVE  LockInv'
    BY <2>4, EnqueueKeepsLockInv
  <2>5. ASSUME NEW c \in Call, Release(c) PROVE LockInv'
    BY <2>5, ReleaseFreeKeepsLockInv, HandOverKeepsLockInv DEF Release
  <2>6. ASSUME NEW k \in Key, ForgetIfIdle(k) PROVE LockInv'
    BY <2>6, ForgettingKeepsLockInv
  <2>7. CASE ForgetAllIdle
    BY <2>7, ForgettingKeepsLockInv
  <2> QED BY <2>1, <2>2, <2>3, <2>4, <2>5, <2>6, <2>7 DEF Next
<1> QED BY <1>1, <1>2, TypeCorrect, PTL DEF Spec

\* At most one IMAP operation per account, each waiter queued exactly once,
\* and a lock with waiters always has the one owner that will wake them.
THEOREM LocksAreSafe ==
  Spec => [](MutualExclusion /\ WaitersHaveAnOwner /\ QueuedOnce)
BY LocksAgree, TypeCorrect, LockInvImplies, PTL

\* A lock with waiters is held, and by exactly one call.
THEOREM WaitersAreOwned == Spec => []WaitersHaveAnOwner
BY LocksAreSafe, PTL

(***************************************************************************)
(* The scan of selectNextWaiter.                                           *)
(***************************************************************************)

\* A counterexample among the naturals has a first one.
LEMMA FirstOne ==
  ASSUME NEW S \in SUBSET Nat, S # {}
  PROVE  \E x \in S : \A y \in S : x <= y
<1> DEFINE R == OpToRel(<, Nat)
<1>1. IsWellFoundedOn(R, Nat)
  BY NatLessThanWellFounded
<1>2. PICK x \in S : \A y \in S : ~ (<<y, x>> \in R)
  <2> HIDE DEF R
  <2> QED BY <1>1, WFMin
<1>3. \A y \in S : x <= y
  <2> TAKE y \in S
  <2>1. ~(y < x)
    BY <1>2 DEF OpToRel
  <2> QED BY <2>1
<1> QED BY <1>3

\* Outranking orders a queue: of two waiters one is first, and it is
\* transitive.
LEMMA OutranksOrders ==
  ASSUME NEW ws \in Seq(Waiter(Call))
  PROVE  /\ \A i, j \in DOMAIN ws : i # j => Outranks(ws, i, j) \/ Outranks(ws, j, i)
         /\ \A i, j, k \in DOMAIN ws :
              Outranks(ws, i, j) /\ Outranks(ws, j, k) => Outranks(ws, i, k)
<1>1. \A i \in DOMAIN ws : EffectiveRank(ws[i]) \in Int
  <2> TAKE i \in DOMAIN ws
  <2>1. ws[i] \in Waiter(Call)
    BY LenProperties, ElementOfSeq
  <2> QED BY <2>1 DEF EffectiveRank, Waiter
<1>2. \A i \in DOMAIN ws : i \in Int
  BY LenProperties
<1> QED BY <1>1, <1>2 DEF Outranks

\* The function the code computes exists and satisfies its equation: up to
\* the first position that had none, the next one is made from it.
LEMMA ScanIsDefined ==
  ASSUME NEW ws \in Seq(Waiter(Call)), ws # << >>
  PROVE  \E best : /\ BestIdx(ws) = best[Len(ws)]
                   /\ best = [i \in DOMAIN ws |->
                        IF i = 1 THEN 1
                        ELSE IF Outranks(ws, i, best[i - 1]) THEN i ELSE best[i - 1]]
<1> DEFINE n == Len(ws)
           Scans(f, m) == f = [i \in 1 .. m |->
                        IF i = 1 THEN 1
                        ELSE IF Outranks(ws, i, f[i - 1]) THEN i ELSE f[i - 1]]
           Bad == {m \in 1 .. n : ~ \E f : Scans(f, m)}
<1>1. n \in Nat \ {0} /\ DOMAIN ws = 1 .. n
  BY LenProperties, EmptySeq
<1>2. Bad = {}
  <2> SUFFICES ASSUME Bad # {} PROVE FALSE
    OBVIOUS
  <2>1. PICK m \in Bad : \A l \in Bad : m <= l
    <3> Bad \in SUBSET Nat
      BY <1>1
    <3> HIDE DEF Bad
    <3> QED BY FirstOne
  <2>2. m # 1
    <3> DEFINE one == [i \in 1 .. 1 |-> 1]
    <3>1. \A i \in 1 .. 1 : i = 1
      OBVIOUS
    <3>2. one = [i \in 1 .. 1 |->
                   IF i = 1 THEN 1
                   ELSE IF Outranks(ws, i, one[i - 1]) THEN i ELSE one[i - 1]]
      BY <3>1
    <3>3. Scans(one, 1)
      <4> HIDE DEF one
      <4> QED BY <3>2
    <3> HIDE DEF Scans, one
    <3> QED BY <2>1, <3>3
  <2>3. m \in 1 .. n /\ m - 1 \in 1 .. n /\ m - 1 \notin Bad
    <3>1. m \in 1 .. n
      BY <2>1
    <3>2. m - 1 \in 1 .. n /\ ~(m <= m - 1)
      <4> HIDE DEF n
      <4> QED BY <1>1, <2>2, <3>1
    <3> HIDE DEF Bad
    <3> QED BY <2>1, <3>1, <3>2
  <2>4. PICK f : Scans(f, m - 1)
    BY <2>3
  <2> DEFINE g == [i \in 1 .. m |->
                     IF i < m THEN f[i]
                     ELSE IF Outranks(ws, m, f[m - 1]) THEN m ELSE f[m - 1]]
  <2>5. \A i \in 1 .. m : i # 1 => i - 1 \in 1 .. (m - 1) /\ g[i - 1] = f[i - 1]
    BY <2>3
  <2>6. ASSUME NEW i \in 1 .. m
        PROVE  g[i] = IF i = 1 THEN 1
                      ELSE IF Outranks(ws, i, g[i - 1]) THEN i ELSE g[i - 1]
    <3>1. CASE i < m
      <4>1. i \in 1 .. (m - 1) /\ g[i] = f[i]
        BY <2>3, <3>1
      <4>2. f[i] = IF i = 1 THEN 1
                   ELSE IF Outranks(ws, i, f[i - 1]) THEN i ELSE f[i - 1]
        BY <2>4, <4>1
      <4> HIDE DEF g
      <4> QED BY <2>5, <4>1, <4>2
    <3>2. CASE i = m
      <4>1. g[i] = IF Outranks(ws, m, f[m - 1]) THEN m ELSE f[m - 1]
        BY <2>3, <3>2
      <4> HIDE DEF g
      <4> QED BY <2>2, <2>5, <3>2, <4>1
    <3> QED BY <2>3, <3>1, <3>2
  <2>7. Scans(g, m)
    BY <2>6
  <2> QED BY <2>1, <2>7
<1>3. PICK f : Scans(f, n)
  BY <1>1, <1>2
<1> DEFINE best == CHOOSE best : best = [i \in DOMAIN ws |->
                        IF i = 1 THEN 1
                        ELSE IF Outranks(ws, i, best[i - 1]) THEN i ELSE best[i - 1]]
<1>4. BestIdx(ws) = best[Len(ws)]
  BY DEF BestIdx
<1>5. \E h : h = [i \in DOMAIN ws |->
                        IF i = 1 THEN 1
                        ELSE IF Outranks(ws, i, h[i - 1]) THEN i ELSE h[i - 1]]
  BY <1>1, <1>3
<1>6. best = [i \in DOMAIN ws |->
                        IF i = 1 THEN 1
                        ELSE IF Outranks(ws, i, best[i - 1]) THEN i ELSE best[i - 1]]
  BY <1>5
<1> QED BY <1>4, <1>6

\* The scan keeps the best waiter so far: up to the first position at which
\* it would not, and there the comparison says it does.
LEMMA ScanFindsNext ==
  ASSUME NEW ws \in Seq(Waiter(Call)), ws # << >>
  PROVE  BestIdx(ws) \in DOMAIN ws /\ IsNext(ws, BestIdx(ws))
<1>1. PICK best : /\ BestIdx(ws) = best[Len(ws)]
                  /\ best = [i \in DOMAIN ws |->
                        IF i = 1 THEN 1
                        ELSE IF Outranks(ws, i, best[i - 1]) THEN i ELSE best[i - 1]]
  BY ScanIsDefined
<1> DEFINE n == Len(ws)
           Leads(m) == /\ best[m] \in 1 .. m
                       /\ \A j \in 1 .. m : j # best[m] => Outranks(ws, best[m], j)
           Bad == {m \in 1 .. n : ~Leads(m)}
<1>2. n \in Nat \ {0} /\ DOMAIN ws = 1 .. n
  BY LenProperties, EmptySeq
<1>3. /\ best[1] = 1
      /\ \A i \in 1 .. n : i # 1 =>
           best[i] = IF Outranks(ws, i, best[i - 1]) THEN i ELSE best[i - 1]
  <2>1. \A i \in 1 .. n : best[i] = IF i = 1 THEN 1
             ELSE IF Outranks(ws, i, best[i - 1]) THEN i ELSE best[i - 1]
    BY <1>1, <1>2, Zenon
  <2>2. 1 \in 1 .. n
    BY <1>2
  <2> HIDE DEF n
  <2> QED BY <2>1, <2>2, Zenon
<1>4. Bad = {}
  <2> SUFFICES ASSUME Bad # {} PROVE FALSE
    OBVIOUS
  <2>1. PICK m \in Bad : \A l \in Bad : m <= l
    <3> Bad \in SUBSET Nat
      BY <1>2
    <3> HIDE DEF Bad
    <3> QED BY FirstOne
  <2>2. m # 1
    <3>1. Leads(1)
      BY <1>3
    <3> QED BY <2>1, <3>1
  <2>3. m \in 1 .. n /\ m - 1 \in 1 .. n /\ m - 1 \notin Bad
    <3>1. m \in 1 .. n
      BY <2>1
    <3>2. m - 1 \in 1 .. n /\ ~(m <= m - 1)
      <4> HIDE DEF n
      <4> QED BY <1>2, <2>2, <3>1
    <3> HIDE DEF Bad
    <3> QED BY <2>1, <3>1, <3>2
  <2>4. Leads(m - 1)
    BY <2>3
  <2>5. /\ best[m - 1] \in 1 .. (m - 1) /\ best[m - 1] \in DOMAIN ws /\ best[m - 1] # m
        /\ best[m - 1] \in 1 .. m
    BY <1>2, <2>3, <2>4
  <2>6. \A j \in 1 .. m : j \in DOMAIN ws /\ (j = m \/ j \in 1 .. (m - 1))
    BY <1>2, <2>3
  <2>7. CASE Outranks(ws, m, best[m - 1])
    <3>1. best[m] = m
      BY <1>3, <2>2, <2>3, <2>7
    <3>2. \A j \in 1 .. m : j # m => Outranks(ws, m, j)
      BY <2>3, <2>4, <2>5, <2>6, <2>7, OutranksOrders
    <3>3. Leads(m)
      BY <2>3, <3>1, <3>2
    <3> QED BY <2>1, <3>3
  <2>8. CASE ~Outranks(ws, m, best[m - 1])
    <3>1. best[m] = best[m - 1]
      BY <1>3, <2>2, <2>3, <2>8
    <3>2. Outranks(ws, best[m - 1], m)
      BY <2>3, <2>5, <2>6, <2>8, OutranksOrders
    <3>3. \A j \in 1 .. m : j # best[m - 1] => Outranks(ws, best[m - 1], j)
      BY <2>4, <2>6, <3>2
    <3>4. Leads(m)
      BY <2>5, <3>1, <3>3
    <3> QED BY <2>1, <3>4
  <2> QED BY <2>7, <2>8
<1>5. Leads(n)
  BY <1>2, <1>4
<1>6. best[n] \in 1 .. n /\ \A j \in 1 .. n : j # best[n] => Outranks(ws, best[n], j)
  BY <1>5
<1>7. BestIdx(ws) = best[n]
  BY <1>1
<1> HIDE DEF n, Leads, Bad
<1> QED BY <1>2, <1>6, <1>7 DEF IsNext

\* The scan of the code and its comparison agree, for any queue that can arise:
\* it ends at the one waiter that outranks all the others.
THEOREM ScanIsRight == Spec => []ScanFindsTheNext
<1>1. TypeOK => ScanFindsTheNext
  <2> SUFFICES ASSUME TypeOK, NEW m \in Mutex, waiters[m] # << >>
               PROVE  IsNext(waiters[m], BestIdx(waiters[m]))
    BY DEF ScanFindsTheNext
  <2>1. waiters[m] \in Seq(Waiter(Call))
    BY DEF TypeOK
  <2> QED BY <2>1, ScanFindsNext
<1> QED BY <1>1, TypeCorrect, PTL

\* Whoever releases a lock with waiters finds one of them to hand it to: a
\* release is never stuck, and never leaves a queue without an owner.
ReleaseFindsSomebody ==
  \A c \in Call : pc[c] = "running" =>
    \/ waiters[at[c]] = << >>
    \/ \E i \in DOMAIN waiters[at[c]] : IsNext(waiters[at[c]], i)

THEOREM ReleaseIsNeverStuck == Spec => []ReleaseFindsSomebody
<1>1. TypeOK /\ LockInv => ReleaseFindsSomebody
  <2> SUFFICES ASSUME TypeOK, LockInv, NEW c \in Call, pc[c] = "running",
                      waiters[at[c]] # << >>
               PROVE  \E i \in DOMAIN waiters[at[c]] : IsNext(waiters[at[c]], i)
    BY DEF ReleaseFindsSomebody
  <2>1. at[c] \in Mutex
    BY DEF TypeOK, LockInv, Registered
  <2>2. waiters[at[c]] \in Seq(Waiter(Call))
    BY <2>1 DEF TypeOK
  <2> QED BY <2>2, ScanFindsNext
<1> QED BY <1>1, TypeCorrect, LocksAgree, PTL

(***************************************************************************)
(* FIFO within a tier.                                                     *)
(***************************************************************************)

\* In a fair queue the next waiter is never younger than one of its own tier.
LEMMA NextIsOldestOfTier ==
  ASSUME NEW ws \in Seq(Waiter(Call)), Fair(ws),
         NEW i \in DOMAIN ws, NEW j \in DOMAIN ws, i < j,
         ws[i].rank = ws[j].rank
  PROVE  ~IsNext(ws, j)
<1>1. DOMAIN ws = 1 .. Len(ws) /\ Len(ws) \in Nat
  BY LenProperties
<1>2. ws[i] \in Waiter(Call) /\ ws[j] \in Waiter(Call)
  BY <1>1, ElementOfSeq
<1>3. /\ ws[i].overtaken \in Nat /\ ws[j].overtaken \in Nat
      /\ ws[i].rank \in 0 .. 4
      /\ ws[i].overtaken >= ws[j].overtaken
  BY <1>1, <1>2 DEF Waiter, Fair
<1>4. EffectiveRank(ws[i]) <= EffectiveRank(ws[j])
  BY <1>3 DEF EffectiveRank
<1>5. EffectiveRank(ws[i]) \in Int /\ EffectiveRank(ws[j]) \in Int
  BY <1>3 DEF EffectiveRank
<1> QED BY <1>1, <1>4, <1>5 DEF IsNext, Outranks

\* Two operations of one tier on one account start in the order they asked.
THEOREM FifoTheorem == Spec => FifoWithinTier
<1> DEFINE Fifo == \A m \in Mutex : \A i, j \in DOMAIN waiters[m] :
                     /\ i < j
                     /\ waiters[m][i].rank = waiters[m][j].rank
                     /\ pc'[waiters[m][j].who] = "woken"
                     => pc'[waiters[m][i].who] # "waiting"
<1>1. TypeOK /\ AllFair /\ LockInv /\ [Next]_vars => [Fifo]_vars
  <2> SUFFICES ASSUME TypeOK, AllFair, LockInv, Next,
                      NEW m \in Mutex,
                      NEW i \in DOMAIN waiters[m], NEW j \in DOMAIN waiters[m],
                      i < j, waiters[m][i].rank = waiters[m][j].rank,
                      pc'[waiters[m][j].who] = "woken"
               PROVE  FALSE
    OBVIOUS
  <2> DEFINE d == waiters[m][j].who
  <2>1. d \in Call /\ pc[d] = "waiting" /\ at[d] = m
    <3>1. d \in Whos(waiters[m])
      BY DEF Whos
    <3> QED BY <3>1 DEF LockInv, QueueHoldsWaiting
  <2>0. PICK c \in Call : \E l \in DOMAIN waiters[at[c]] : HandOver(c, l)
    BY <2>1 DEF Next, RunNow, Enqueue, Enter, Release, ReleaseFree, Resume,
                ForgetIfIdle, ForgetAllIdle, TypeOK
  <2>2. PICK l \in DOMAIN waiters[at[c]] : HandOver(c, l)
    BY <2>0
  <2>3. at[c] \in Mutex /\ waiters[at[c]][l].who = d
    BY <2>1, <2>2 DEF HandOver, TypeOK, LockInv, Registered
  <2>4. at[c] = m
    <3>1. d \in Whos(waiters[at[c]])
      BY <2>3 DEF Whos
    <3> QED BY <2>1, <2>3, <3>1 DEF LockInv, QueueHoldsWaiting
  <2>5. l = j
    BY <2>3, <2>4 DEF LockInv, QueueHoldsWaiting, Distinct
  <2> QED
    BY <2>2, <2>4, <2>5, NextIsOldestOfTier DEF HandOver, TypeOK, AllFair
<1>2. Spec => []AllFair
  BY AlwaysFair
<1> QED BY <1>1, <1>2, TypeCorrect, LocksAgree, PTL DEF Spec, FifoWithinTier

(***************************************************************************)
(* The lock with bounded waiting that all this implements.                 *)
(***************************************************************************)

\* Counting is the same on both sides of the mapping.
LEMMA SameCardinality == ASSUME NEW S PROVE Lock!Cardinality(S) = Cardinality(S)
BY DEF Lock!Cardinality, Cardinality

\* A queue is as long as it has callers.
LEMMA QueueLength ==
  ASSUME NEW ws \in Seq(Waiter(Call)), Distinct(ws)
  PROVE  Cardinality(Whos(ws)) = Len(ws)
<1> DEFINE who == [j \in 1 .. Len(ws) |-> ws[j].who]
<1>1. Len(ws) \in Nat /\ DOMAIN ws = 1 .. Len(ws)
  BY LenProperties
<1>2. who \in Bijection(1 .. Len(ws), Whos(ws))
  BY <1>1 DEF Bijection, Injection, IsInjective, Surjection, Whos, Distinct
<1>3. ExistsBijection(1 .. Len(ws), Whos(ws))
  BY <1>2 DEF ExistsBijection
<1> QED BY <1>1, <1>3, FS_CountingElements

\* The mapping finds a caller at its one place in the queue.
LEMMA PatienceAt ==
  ASSUME LockInv, TypeOK, NEW m \in Mutex, NEW j \in DOMAIN waiters[m]
  PROVE  /\ waiters[m][j].who \in Call /\ waiters[m][j].overtaken \in Nat
         /\ pc[waiters[m][j].who] = "waiting" /\ at[waiters[m][j].who] = m
         /\ Patience(waiters[m][j].who) = (j - 1) + (MaxOvertakes - waiters[m][j].overtaken)
<1> DEFINE c == waiters[m][j].who
<1>1. c \in Whos(waiters[m])
  BY DEF Whos
<1>2. c \in Call /\ pc[c] = "waiting" /\ at[c] = m
  BY <1>1 DEF LockInv, QueueHoldsWaiting
<1>3. Position(c) = j
  BY <1>2 DEF LockInv, QueueHoldsWaiting, Distinct, Position
<1>4. waiters[m][j].overtaken \in Nat
  <2>1. waiters[m][j] \in Waiter(Call)
    BY LenProperties, ElementOfSeq DEF TypeOK
  <2> QED BY <2>1 DEF Waiter
<1> QED BY <1>2, <1>3, <1>4 DEF Patience

PatienceCounts ==
  \A c \in Call, m \in Mutex : \A j \in DOMAIN waiters[m] :
    waiters[m][j].who = c =>
      Patience(c) = (j - 1) + (MaxOvertakes - waiters[m][j].overtaken)

LEMMA PatienceInQueues == LockInv /\ TypeOK => PatienceCounts
BY PatienceAt DEF PatienceCounts

Keyless == \A c \in Call : pc[c] = "idle" => key[c] = NoKey

Mapped == TypeOK /\ LockInv /\ AllFair /\ Keyless

LEMMA AlwaysMapped == Spec => []Mapped
<1>1. Init => Keyless
  BY DEF Init, Keyless
<1>2. TypeOK /\ LockInv /\ Keyless /\ [Next]_vars => Keyless'
  <2> SUFFICES ASSUME TypeOK, LockInv, Keyless, [Next]_vars PROVE Keyless'
    OBVIOUS
  <2>1. ASSUME NEW c \in Call, NEW i \in DOMAIN waiters[at[c]], HandOver(c, i)
        PROVE  Keyless'
    BY <2>1 DEF HandOver, Keyless, TypeOK
  <2>2. ASSUME NEW c \in Call, ReleaseFree(c) PROVE Keyless'
    BY <2>2 DEF ReleaseFree, Keyless, TypeOK
  <2> QED
    BY <2>1, <2>2 DEF Next, vars, RunNow, Enqueue, Enter, Resume, Release, ForgetIfIdle,
       ForgetAllIdle, Keyless, TypeOK
<1> QED BY <1>1, <1>2, TypeCorrect, LocksAgree, AlwaysFair, PTL DEF Spec, Mapped

\* Everybody who waits is in a queue and has patience left.
LEMMA WaitingIsQueued ==
  ASSUME Mapped, NEW c \in Call, pc[c] = "waiting"
  PROVE  /\ at[c] \in Mutex
         /\ \E j \in DOMAIN waiters[at[c]] : waiters[at[c]][j].who = c
         /\ Patience(c) \in Nat
<1> USE DEF Mapped
<1>1. at[c] \in Mutex /\ c \in Whos(waiters[at[c]])
  BY DEF LockInv, Registered, QueueHoldsWaiting
<1>2. PICK j \in DOMAIN waiters[at[c]] : waiters[at[c]][j].who = c
  BY <1>1 DEF Whos
<1>3. j \in Nat /\ j >= 1
  BY <1>1, LenProperties DEF TypeOK
<1>4. waiters[at[c]][j].overtaken <= MaxOvertakes
  BY <1>1 DEF AllFair, Fair
<1> QED BY <1>1, <1>2, <1>3, <1>4, PatienceAt

\* The waiters of an account are the queue of the object registered for it.
LEMMA QueueOfAccount ==
  ASSUME Mapped, NEW k \in Key, byKey[k] \in Mutex
  PROVE  /\ {c \in Call : key[c] = k /\ pc[c] = "waiting"} = Whos(waiters[byKey[k]])
         /\ \A c \in Call : pc[c] # "idle" => (key[c] = k <=> at[c] = byKey[k])
<1> USE DEF Mapped
<1>1. \A c \in Call : pc[c] # "idle" => (key[c] = k <=> at[c] = byKey[k])
  BY DEF LockInv, Registered, OneMutexPerKey, TypeOK
<1> QED BY <1>1 DEF LockInv, QueueHoldsWaiting

\* What stays in its queue keeps its patience.
LEMMA SameQueueSamePatience ==
  ASSUME NEW c \in Call, at'[c] = at[c], waiters'[at[c]] = waiters[at[c]]
  PROVE  Patience(c)' = Patience(c)
BY DEF Patience, Position

LEMMA RunNowTakes ==
  ASSUME Mapped, NEW c \in Call, NEW k \in Key, NEW m \in Mutex, RunNow(c, k, m)
  PROVE  Lock!Take(c, k)
<1> USE DEF Mapped
<1>1. /\ pc[c] = "idle" /\ ~locked[m] /\ Lookup(k, m) /\ pc' = [pc EXCEPT ![c] = "running"]
      /\ at' = [at EXCEPT ![c] = m] /\ key' = [key EXCEPT ![c] = k] /\ waiters' = waiters
  BY DEF RunNow, Enter
<1>2. key[c] = NoKey
  BY <1>1 DEF Keyless
<1>3. \A d \in Call : pc[d] \in {"woken", "running"} => key[d] # k
  <2>1. Owners(m) = {}
    BY <1>1 DEF LockInv, LockedByOwner
  <2> QED BY <1>1, <2>1, LookupIsRight DEF Owners
<1>4. \A d \in Call : pc[d] = "waiting" => pc'[d] = "waiting" /\ Patience(d)' = Patience(d)
  BY <1>1, SameQueueSamePatience DEF TypeOK
<1>5. \A d \in Call : pc'[d] = "waiting" => pc[d] = "waiting"
  BY <1>1 DEF TypeOK
<1>6. {d \in Call : pc'[d] \in {"woken", "running"}} =
      {d \in Call : pc[d] \in {"woken", "running"}} \cup {c}
  BY <1>1 DEF TypeOK
<1> QED BY <1>1, <1>2, <1>3, <1>4, <1>5, <1>6 DEF Lock!Take, Lock!Owned

LEMMA EnqueueJoins ==
  ASSUME Mapped, NEW c \in Call, NEW k \in Key, NEW p \in Priority, NEW m \in Mutex,
         Enqueue(c, k, p, m), Mapped'
  PROVE  Lock!Join(c, k)
<1> USE DEF Mapped
<1>1. /\ pc[c] = "idle" /\ locked[m] /\ Lookup(k, m) /\ pc' = [pc EXCEPT ![c] = "waiting"]
      /\ at' = [at EXCEPT ![c] = m] /\ key' = [key EXCEPT ![c] = k]
      /\ waiters' = [waiters EXCEPT ![m] = Append(@, NewWaiter(c, p))]
  BY DEF Enqueue, Enter
<1>2. key[c] = NoKey
  BY <1>1 DEF Keyless
<1>3. byKey[k] = m
  BY <1>1 DEF Lookup, Fresh, Idle
<1>4. \E d \in Call : pc[d] \in {"woken", "running"} /\ key[d] = k
  <2>1. PICK d \in Call : d \in Owners(m)
    BY <1>1 DEF LockInv, LockedByOwner, Owners
  <2> QED BY <1>3, <2>1, QueueOfAccount DEF Owners
<1> DEFINE n == Len(waiters[m])
<1>5. Cardinality({d \in Call : key[d] = k /\ pc[d] = "waiting"}) = n
  BY <1>3, QueueOfAccount, QueueLength DEF LockInv, QueueHoldsWaiting, TypeOK
<1>6. /\ waiters'[m] = Append(waiters[m], NewWaiter(c, p))
      /\ \A l \in Mutex : l # m => waiters'[l] = waiters[l]
  BY <1>1 DEF TypeOK
<1>7. /\ n \in Nat /\ DOMAIN waiters[m] = 1 .. n /\ DOMAIN waiters'[m] = 1 .. (n + 1)
      /\ \A j \in 1 .. n : waiters'[m][j] = waiters[m][j]
      /\ waiters'[m][n + 1] = NewWaiter(c, p)
  BY <1>6, NewWaiterType, AppendWaiter DEF TypeOK
<1> HIDE DEF n
<1>8. PatienceCounts'
  <2>1. (LockInv /\ TypeOK => PatienceCounts)'
    BY PatienceInQueues, PTL
  <2> QED BY <2>1
<1>9. Patience(c)' = MaxOvertakes + n
  <2>1. n + 1 \in DOMAIN waiters'[m]
    BY <1>7
  <2>2. waiters'[m][n + 1].who = c /\ waiters'[m][n + 1].overtaken = 0
    BY <1>7, NewWaiterType
  <2>3. Patience(c)' = ((n + 1) - 1) + (MaxOvertakes - waiters'[m][n + 1].overtaken)
    BY <1>8, <2>1, <2>2 DEF PatienceCounts
  <2>4. Patience(c)' = ((n + 1) - 1) + (MaxOvertakes - 0)
    BY <2>2, <2>3
  <2> QED BY <1>7, <2>4
<1>10. ASSUME NEW d \in Call, pc[d] = "waiting"
       PROVE  pc'[d] = "waiting" /\ Patience(d)' = Patience(d)
  <2>1. d # c /\ at'[d] = at[d] /\ pc'[d] = "waiting"
    BY <1>1, <1>10 DEF TypeOK
  <2>2. CASE at[d] # m
    BY <1>6, <1>10, <2>1, <2>2, WaitingIsQueued, SameQueueSamePatience
  <2>3. CASE at[d] = m
    <3>1. PICK j \in DOMAIN waiters[m] : waiters[m][j].who = d
      BY <1>10, <2>3, WaitingIsQueued
    <3>2. j \in DOMAIN waiters'[m] /\ waiters'[m][j] = waiters[m][j]
      BY <1>7, <3>1
    <3>3. Patience(d)' = (j - 1) + (MaxOvertakes - waiters'[m][j].overtaken)
      BY <1>8, <3>1, <3>2 DEF PatienceCounts
    <3>4. Patience(d) = (j - 1) + (MaxOvertakes - waiters[m][j].overtaken)
      BY <3>1, PatienceAt
    <3> QED BY <2>1, <3>1, <3>2, <3>3, <3>4
  <2> QED BY <2>1, <2>2, <2>3
<1>11. \A d \in Call : d # c /\ pc[d] # "waiting" => pc'[d] # "waiting"
  BY <1>1 DEF TypeOK
<1>12. {d \in Call : pc'[d] \in {"woken", "running"}} =
       {d \in Call : pc[d] \in {"woken", "running"}}
  BY <1>1 DEF TypeOK
<1>13. \A d \in Call : pc[d] = "waiting" => Patience(d) # NotWaiting
  BY WaitingIsQueued, NotWaitingAssumption
<1>14. Lock!Waiting(k) = {d \in Call : key[d] = k /\ pc[d] = "waiting"}
  BY <1>13 DEF Lock!Waiting
<1>15. [d \in Call |-> IF pc'[d] = "waiting" THEN Patience(d)' ELSE NotWaiting] =
       [[d \in Call |-> IF pc[d] = "waiting" THEN Patience(d) ELSE NotWaiting]
          EXCEPT ![c] = MaxOvertakes + n]
  BY <1>1, <1>9, <1>10, <1>11 DEF TypeOK
<1> QED BY <1>1, <1>2, <1>4, <1>5, <1>12, <1>14, <1>15, SameCardinality
     DEF Lock!Join, Lock!Owned

LEMMA ReleaseFreeLeaves ==
  ASSUME Mapped, NEW c \in Call, ReleaseFree(c)
  PROVE  Lock!Leave(c)
<1> USE DEF Mapped
<1>1. /\ pc[c] = "running" /\ waiters[at[c]] = << >> /\ pc' = [pc EXCEPT ![c] = "idle"]
      /\ at' = [at EXCEPT ![c] = NoMutex] /\ key' = [key EXCEPT ![c] = NoKey]
      /\ waiters' = waiters
  BY DEF ReleaseFree
<1>2. key[c] \in Key /\ at[c] \in Mutex /\ byKey[key[c]] = at[c]
  BY <1>1 DEF LockInv, Registered
<1>3. {d \in Call : key[d] = key[c] /\ pc[d] = "waiting"} = {}
  <2>1. Whos(waiters[at[c]]) = {}
    BY <1>1 DEF Whos
  <2> QED BY <1>2, <2>1, QueueOfAccount
<1>4. \A d \in Call : /\ pc[d] = "waiting" => Patience(d)' = Patience(d)
                      /\ pc'[d] = "waiting" <=> pc[d] = "waiting"
  BY <1>1, SameQueueSamePatience DEF TypeOK
<1>5. {d \in Call : pc'[d] \in {"woken", "running"}} =
      {d \in Call : pc[d] \in {"woken", "running"}} \ {c}
  BY <1>1 DEF TypeOK
<1>6. c \in {d \in Call : pc[d] \in {"woken", "running"}}
  BY <1>1
<1> QED BY <1>1, <1>3, <1>4, <1>5, <1>6 DEF Lock!Leave, Lock!Waiting

\* Who is not served now gives up one of its patience, and had one to give.
LEMMA PatienceFalls ==
  ASSUME Mapped, Mapped', NEW c \in Call, NEW m \in Mutex, m = at[c],
         NEW i \in DOMAIN waiters[m], HandOver(c, i),
         NEW j \in DOMAIN waiters[m], j # i, NEW e, e = waiters[m][j].who
  PROVE  Patience(e) > 0 /\ Patience(e)' = Patience(e) - 1
<1> DEFINE n == Len(waiters[m])
<1>1. /\ IsNext(waiters[m], i)
      /\ waiters'[m] = Without(waiters[m], i)
      /\ waiters[m] \in Seq(Waiter(Call)) /\ Fair(waiters[m])
  BY DEF HandOver, Mapped, TypeOK, AllFair
<1>2. /\ n \in Nat /\ DOMAIN waiters[m] = 1 .. n
      /\ i \in 1 .. n /\ j \in 1 .. n
  BY <1>1, LenProperties
<1>3. /\ DOMAIN waiters'[m] = 1 .. (n - 1)
      /\ \A l \in 1 .. (n - 1) :
           /\ l < i => waiters'[m][l].who = waiters[m][l].who
                       /\ waiters'[m][l].overtaken = waiters[m][l].overtaken + 1
           /\ ~(l < i) => waiters'[m][l] = waiters[m][l + 1]
  <2>1. PICK ws \in Seq(Waiter(Call)) : ws = waiters[m] /\ i \in DOMAIN ws
    BY <1>1
  <2>2. /\ DOMAIN Without(ws, i) = 1 .. (Len(ws) - 1)
        /\ \A l \in 1 .. (Len(ws) - 1) :
             /\ l \in DOMAIN ws /\ l + 1 \in DOMAIN ws
             /\ l < i =>
                  /\ Without(ws, i)[l].who = ws[l].who
                  /\ Without(ws, i)[l].rank = ws[l].rank
                  /\ Without(ws, i)[l].overtaken = ws[l].overtaken + 1
             /\ ~(l < i) => Without(ws, i)[l] = ws[l + 1]
    BY <2>1, WithoutProperties, Zenon
  <2>3. waiters'[m] = Without(ws, i)
    BY <1>1, <2>1
  <2> QED BY <2>1, <2>2, <2>3
<1>4. PICK o \in Nat : o = waiters[m][j].overtaken
  BY PatienceAt DEF Mapped
<1>5. e \in Call /\ Patience(e) = (j - 1) + (MaxOvertakes - o)
  BY <1>4, PatienceAt DEF Mapped
<1>6. PatienceCounts'
  <2>1. (LockInv /\ TypeOK => PatienceCounts)'
    BY PatienceInQueues, PTL
  <2> QED BY <2>1 DEF Mapped
<1>7. o <= MaxOvertakes
  BY <1>1, <1>4 DEF Fair
<1> HIDE DEF n
<1>8. CASE j < i
  <2>1. o < MaxOvertakes
    BY <1>1, <1>4, <1>8, PassedOverHasRoom
  <2>2. j \in 1 .. (n - 1)
    BY <1>2, <1>8
  <2>3. /\ j \in DOMAIN waiters'[m]
        /\ waiters'[m][j].who = e
        /\ waiters'[m][j].overtaken = o + 1
    BY <1>3, <1>4, <1>8, <2>2
  <2>4. Patience(e)' = (j - 1) + (MaxOvertakes - (o + 1))
    BY <1>5, <1>6, <2>3 DEF PatienceCounts
  <2>5. j \in Int /\ o \in Int /\ MaxOvertakes \in Int /\ j >= 1
    BY <1>2
  <2>6. Patience(e) > 0
    BY <1>5, <2>1, <2>5
  <2>7. Patience(e)' = Patience(e) - 1
    BY <1>5, <2>4, <2>5
  <2> QED BY <2>6, <2>7
<1>9. CASE ~(j < i)
  <2>1. j - 1 \in 1 .. (n - 1) /\ ~(j - 1 < i) /\ (j - 1) + 1 = j
    BY <1>2, <1>9
  <2>2. j - 1 \in DOMAIN waiters'[m] /\ waiters'[m][j - 1] = waiters[m][j]
    BY <1>3, <2>1
  <2>3. Patience(e)' = ((j - 1) - 1) + (MaxOvertakes - o)
    BY <1>4, <1>5, <1>6, <2>2 DEF PatienceCounts
  <2>4. j \in Int /\ o \in Int /\ MaxOvertakes \in Int /\ j - 1 >= 1
    BY <1>2, <2>1
  <2>5. Patience(e) > 0
    BY <1>5, <1>7, <2>4
  <2>6. Patience(e)' = Patience(e) - 1
    BY <1>5, <2>3, <2>4
  <2> QED BY <2>5, <2>6
<1> QED BY <1>8, <1>9

LEMMA HandOverPasses ==
  ASSUME Mapped, Mapped', NEW c \in Call, NEW i \in DOMAIN waiters[at[c]], HandOver(c, i)
  PROVE  \E d \in Call : Lock!Pass(c, d)
<1>1. PICK m \in Mutex : m = at[c] /\ pc[c] = "running" /\ i \in DOMAIN waiters[m]
  BY DEF HandOver, Mapped, LockInv, Registered
<1>2. PICK k \in Key : k = key[c] /\ byKey[k] = m
  BY <1>1 DEF Mapped, LockInv, Registered
<1>3. PICK d \in Call : /\ d = waiters[m][i].who /\ pc[d] = "waiting" /\ at[d] = m
                        /\ d \in Whos(waiters[m])
  BY <1>1, PatienceAt DEF Mapped, Whos
<1>4. /\ pc' = [pc EXCEPT ![c] = "idle", ![d] = "woken"]
      /\ at' = [at EXCEPT ![c] = NoMutex]
      /\ key' = [key EXCEPT ![c] = NoKey]
      /\ waiters' = [waiters EXCEPT ![m] = Without(@, i)]
  BY <1>1, <1>3 DEF HandOver
<1>5. c # d /\ c \in Call
  BY <1>1, <1>3
<1> DEFINE queue == {e \in Call : key[e] = k /\ pc[e] = "waiting"}
<1>6. queue = Whos(waiters[m])
  BY <1>2, QueueOfAccount
<1>7. Lock!Waiting(k) = queue
  <2>1. \A e \in Call : pc[e] = "waiting" => Patience(e) # NotWaiting
    BY WaitingIsQueued, NotWaitingAssumption
  <2> QED BY <2>1 DEF Lock!Waiting
<1>8. ASSUME NEW e \in queue, e # d
      PROVE  /\ pc[e] = "waiting" /\ pc'[e] = "waiting"
             /\ Patience(e) > 0 /\ Patience(e)' = Patience(e) - 1
  <2>1. PICK j \in DOMAIN waiters[m] : e = waiters[m][j].who
    BY <1>6 DEF Whos
  <2>2. j # i
    BY <1>3, <1>8, <2>1
  <2>3. Patience(e) > 0 /\ Patience(e)' = Patience(e) - 1
    BY <1>1, <2>1, <2>2, PatienceFalls
  <2>4. pc'[e] = "waiting"
    BY <1>1, <1>4, <1>8 DEF Mapped, TypeOK
  <2> QED BY <2>3, <2>4
<1>9. ASSUME NEW e \in Call \ queue, pc[e] = "waiting"
      PROVE  pc'[e] = "waiting" /\ Patience(e)' = Patience(e)
  <2>1. at[e] # m /\ at[e] \in Mutex
    BY <1>2, <1>9, QueueOfAccount, WaitingIsQueued
  <2>2. at'[e] = at[e] /\ waiters'[at[e]] = waiters[at[e]] /\ pc'[e] = "waiting"
    BY <1>1, <1>3, <1>4, <1>9, <2>1 DEF Mapped, TypeOK
  <2> QED BY <2>2, SameQueueSamePatience
<1>10. \A e \in Call : pc[e] # "waiting" => pc'[e] # "waiting"
  BY <1>4 DEF Mapped, TypeOK
<1>11. {e \in Call : pc'[e] \in {"woken", "running"}} =
       ({e \in Call : pc[e] \in {"woken", "running"}} \ {c}) \cup {d}
  BY <1>1, <1>4, <1>5 DEF Mapped, TypeOK
<1>12. d \in queue /\ pc'[d] # "waiting" /\ \A e \in queue : pc[e] = "waiting" /\ e \in Call
  BY <1>3, <1>4, <1>5, <1>6 DEF Mapped, TypeOK
<1> DEFINE old == [e \in Call |-> IF pc[e] = "waiting" THEN Patience(e) ELSE NotWaiting]
<1> HIDE DEF queue
<1>13. [e \in Call |-> IF pc'[e] = "waiting" THEN Patience(e)' ELSE NotWaiting] =
       [e \in Call |-> IF e = d THEN NotWaiting
                       ELSE IF e \in queue \ {d} THEN old[e] - 1 ELSE old[e]]
  BY <1>8, <1>9, <1>10, <1>12
<1>14. \A e \in queue \ {d} : old[e] > 0
  BY <1>8, <1>12
<1>15. c \in {e \in Call : pc[e] \in {"woken", "running"}}
  BY <1>1
<1>16. Lock!Pass(c, d)
  BY <1>2, <1>4, <1>7, <1>11, <1>12, <1>13, <1>14, <1>15 DEF Lock!Pass
<1> QED BY <1>16

\* Every step is a step of the lock or leaves it alone.
LEMMA StepsAreLockSteps == Mapped /\ Mapped' /\ [Next]_vars => [Lock!Next]_(Lock!vars)
<1> SUFFICES ASSUME Mapped, Mapped', [Next]_vars PROVE [Lock!Next]_(Lock!vars)
  OBVIOUS
<1>1. ASSUME pc' = pc, at' = at, key' = key, waiters' = waiters
      PROVE  UNCHANGED Lock!vars
  BY <1>1 DEF Lock!vars, Patience, Position
<1>2. ASSUME NEW c \in Call, Resume(c) PROVE UNCHANGED Lock!vars
  <2>1. /\ pc[c] = "woken" /\ pc' = [pc EXCEPT ![c] = "running"]
        /\ UNCHANGED <<byKey, locked, waiters, at, key>>
    BY <1>2 DEF Resume
  <2>2. \A d \in Call : /\ pc'[d] = "waiting" <=> pc[d] = "waiting"
                        /\ pc'[d] \in {"woken", "running"} <=> pc[d] \in {"woken", "running"}
    BY <2>1 DEF Mapped, TypeOK
  <2>3. \A d \in Call : Patience(d)' = Patience(d)
    BY <2>1 DEF Patience, Position
  <2> QED BY <2>1, <2>2, <2>3 DEF Lock!vars
<1>3. ASSUME NEW c \in Call, NEW k \in Key, NEW m \in Mutex, RunNow(c, k, m)
      PROVE  Lock!Next
  BY <1>3, RunNowTakes DEF Lock!Next
<1>4. ASSUME NEW c \in Call, NEW k \in Key, NEW p \in Priority, NEW m \in Mutex,
             Enqueue(c, k, p, m)
      PROVE  Lock!Next
  BY <1>4, EnqueueJoins DEF Lock!Next
<1>5. ASSUME NEW c \in Call, Release(c) PROVE Lock!Next
  BY <1>5, ReleaseFreeLeaves, HandOverPasses DEF Release, Lock!Next
<1>6. ASSUME NEW k \in Key, ForgetIfIdle(k) PROVE UNCHANGED Lock!vars
  BY <1>1, <1>6 DEF ForgetIfIdle
<1>7. CASE ForgetAllIdle
  BY <1>1, <1>7 DEF ForgetAllIdle
<1>8. CASE UNCHANGED vars
  BY <1>1, <1>8 DEF vars
<1> QED BY <1>2, <1>3, <1>4, <1>5, <1>6, <1>7, <1>8 DEF Next

\* For any calls, accounts, mutex objects and any promotion bound, the op locks
\* are a lock with bounded waiting: a call that queues knows how many others
\* can be served before it, and each hand-over to another uses one of them up.
THEOREM LockIsBounded == Spec => ImplementsBoundedWaitLock
<1>1. Init => Lock!Init
  BY DEF Init, Lock!Init
<1>2. Spec => []Mapped
  BY AlwaysMapped
<1> QED BY <1>1, <1>2, StepsAreLockSteps, PTL DEF Spec, ImplementsBoundedWaitLock, Lock!Spec

(***************************************************************************)
(* How long a wait is: the bounded half of NoStarvation.                   *)
(***************************************************************************)

\* A call that waits is let in after at most this many others: all who could
\* stand before it, and the overtakes it can still suffer.
WaitIsShort ==
  IsFiniteSet(Call) =>
    \A c \in Call : pc[c] = "waiting" =>
      Patience(c) \in 0 .. (MaxOvertakes + Cardinality(Call) - 2)

\* For any calls and any promotion bound a waiter's patience is bounded from
\* the moment it queues: at least one call owns the lock and waits for nobody,
\* so a queue holds all the calls but one at most.
THEOREM WaitIsBounded == Spec => []WaitIsShort
<1>1. Mapped => WaitIsShort
  <2> SUFFICES ASSUME Mapped, IsFiniteSet(Call), NEW c \in Call, pc[c] = "waiting"
               PROVE  Patience(c) \in 0 .. (MaxOvertakes + Cardinality(Call) - 2)
    BY DEF WaitIsShort
  <2>1. PICK m \in Mutex : m = at[c] /\ \E j \in DOMAIN waiters[m] : waiters[m][j].who = c
    BY WaitingIsQueued
  <2>2. PICK j \in DOMAIN waiters[m] : waiters[m][j].who = c
    BY <2>1
  <2>3. waiters[m] \in Seq(Waiter(Call)) /\ Distinct(waiters[m])
    BY DEF Mapped, TypeOK, LockInv, QueueHoldsWaiting
  <2>4. Len(waiters[m]) \in Nat /\ j \in 1 .. Len(waiters[m])
    BY <2>3, LenProperties
  <2>5. PICK o \in Owners(m) : TRUE
    <3>1. waiters[m] # << >>
      BY <2>2, EmptySeq
    <3> QED BY <3>1 DEF Mapped, LockInv, QueueHoldsWaiting, LockedByOwner
  <2>6. o \in Call /\ Whos(waiters[m]) \subseteq Call \ {o}
    BY <2>5 DEF Owners, Mapped, LockInv, QueueHoldsWaiting
  <2>7. /\ IsFiniteSet(Call \ {o})
        /\ Cardinality(Call \ {o}) = Cardinality(Call) - 1
        /\ Cardinality(Call) \in Nat
    BY <2>6, FS_RemoveElement, FS_CardinalityType
  <2>8. Cardinality(Whos(waiters[m])) <= Cardinality(Call \ {o})
    BY <2>6, <2>7, FS_Subset
  <2>9. Len(waiters[m]) <= Cardinality(Call) - 1
    BY <2>3, <2>7, <2>8, QueueLength
  <2>10. PICK t \in Nat : t = waiters[m][j].overtaken
    BY PatienceAt DEF Mapped
  <2>11. Patience(c) = (j - 1) + (MaxOvertakes - t)
    BY <2>2, <2>10, PatienceAt DEF Mapped
  <2>12. Patience(c) \in Nat
    BY WaitingIsQueued
  <2> DEFINE n == Cardinality(Call)
  <2>13. j \in Int /\ n \in Int /\ MaxOvertakes \in Int /\ t >= 0 /\ j <= n - 1
    BY <2>4, <2>7, <2>9
  <2>14. (j - 1) + (MaxOvertakes - t) <= MaxOvertakes + n - 2
    <3> HIDE DEF n
    <3> QED BY <2>10, <2>13
  <2>15. Patience(c) <= MaxOvertakes + n - 2 /\ MaxOvertakes + n - 2 \in Int
    <3> HIDE DEF n
    <3> QED BY <2>11, <2>13, <2>14
  <2> QED BY <2>12, <2>15
<1> QED BY <1>1, AlwaysMapped, PTL

\* Whenever an operation of the account ends, everybody who still waits there
\* has one less to wait for; nothing makes a wait longer.
Advances(d) ==
  pc[d] = "waiting" /\ pc'[d] = "waiting" =>
    /\ Patience(d)' <= Patience(d)
    /\ (\E c \in Call : key[c] = key[d] /\ pc[c] = "running" /\ pc'[c] = "idle")
         => Patience(d)' = Patience(d) - 1

WaitsGetShorter == [][\A d \in Call : Advances(d)]_vars

LEMMA StepsAdvance ==
  ASSUME Mapped, Mapped', [Next]_vars, NEW d \in Call
  PROVE  Advances(d)
<1> SUFFICES ASSUME pc[d] = "waiting", pc'[d] = "waiting"
             PROVE  /\ Patience(d)' <= Patience(d)
                    /\ \A c \in Call : key[c] = key[d] /\ pc[c] = "running" /\ pc'[c] = "idle"
                         => Patience(d)' = Patience(d) - 1
  BY DEF Advances
<1>1. Patience(d) \in Nat
  BY WaitingIsQueued
<1>2. key[d] \in Key /\ key[d] # NoKey
  BY NoKeyAssumption DEF Mapped, LockInv, Registered
<1> DEFINE old == [e \in Call |-> IF pc[e] = "waiting" THEN Patience(e) ELSE NotWaiting]
           new == [e \in Call |-> IF pc'[e] = "waiting" THEN Patience(e)' ELSE NotWaiting]
           in == {e \in Call : pc[e] \in {"woken", "running"}}
           inside == {e \in Call : pc'[e] \in {"woken", "running"}}
<1>3. old[d] = Patience(d) /\ new[d] = Patience(d)' /\ old[d] # NotWaiting
  BY <1>1, NotWaitingAssumption
<1>4. \A c \in Call : pc[c] = "running" /\ pc'[c] = "idle" => c \in in /\ c \notin inside
  OBVIOUS
<1>5. [Lock!Next]_(Lock!vars)
  BY StepsAreLockSteps
<1>6. CASE UNCHANGED Lock!vars
  <2>1. new = old /\ inside = in
    BY <1>6 DEF Lock!vars
  <2> QED BY <1>1, <1>3, <1>4, <2>1
<1>7. ASSUME NEW c \in Call, NEW k \in Key, Lock!Take(c, k)
      PROVE  Patience(d)' = Patience(d) /\ in \subseteq inside
  <2>1. new = old /\ inside = in \cup {c}
    BY <1>7 DEF Lock!Take
  <2> QED BY <1>3, <2>1
<1>8. ASSUME NEW c \in Call, NEW k \in Key, Lock!Join(c, k)
      PROVE  Patience(d)' = Patience(d) /\ in \subseteq inside
  <2>1. /\ new = [old EXCEPT ![c] = MaxOvertakes + Lock!Cardinality(Lock!Waiting(k))]
        /\ inside = in /\ c # d
    BY <1>2, <1>8 DEF Lock!Join
  <2> QED BY <1>3, <2>1
<1>9. ASSUME NEW c \in Call, Lock!Leave(c)
      PROVE  /\ Patience(d)' = Patience(d) /\ in \ {c} \subseteq inside
             /\ key[c] # key[d]
  <2>1. new = old /\ inside = in \ {c} /\ Lock!Waiting(key[c]) = {}
    BY <1>9 DEF Lock!Leave
  <2>2. d \in Lock!Waiting(key[d])
    BY <1>3 DEF Lock!Waiting
  <2> QED BY <1>3, <2>1, <2>2
<1>10. ASSUME NEW c \in Call, NEW e \in Call, Lock!Pass(c, e)
       PROVE  /\ in \ {c} \subseteq inside
              /\ IF key[c] = key[d] THEN Patience(d)' = Patience(d) - 1
                                    ELSE Patience(d)' = Patience(d)
  <2>1. /\ inside = (in \ {c}) \cup {e}
        /\ new = [x \in Call |-> IF x = e THEN NotWaiting
                                 ELSE IF x \in Lock!Waiting(key[c]) \ {e} THEN old[x] - 1
                                 ELSE old[x]]
    BY <1>10 DEF Lock!Pass
  <2>2. d \in Lock!Waiting(key[c]) <=> key[c] = key[d]
    BY <1>3 DEF Lock!Waiting
  <2>3. d # e
    BY <2>1
  <2> QED BY <1>3, <2>1, <2>2, <2>3
<1> QED
  BY <1>1, <1>4, <1>5, <1>6, <1>7, <1>8, <1>9, <1>10 DEF Lock!Next

\* For any calls, accounts, mutex objects and any promotion bound: an operation
\* that ends brings every waiter of its account one place nearer.
THEOREM EveryReleaseShortensTheWait == Spec => WaitsGetShorter
<1>1. Mapped /\ Mapped' /\ [Next]_vars => [\A d \in Call : Advances(d)]_vars
  BY StepsAdvance
<1> QED BY <1>1, AlwaysMapped, PTL DEF Spec, WaitsGetShorter
=============================================================================
