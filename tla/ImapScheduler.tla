---------------------------- MODULE ImapScheduler ----------------------------
(***************************************************************************)
(* The op locks that serialise IMAP commands per account: PriorityMutex    *)
(* and KeyedPriorityMutex of packages/net/imapScheduler.ts, as imap.ts     *)
(* uses them (imapOpLock, perAccountOpLocks).                              *)
(*                                                                         *)
(* Calls are the asynchronous `run` invocations.  A call captures the      *)
(* mutex object registered for its key when it arrives; the object may be  *)
(* dropped from the registry later (forgetIfIdle), after which the next    *)
(* call creates a new one.  Objects are members of Mutex, so that "two     *)
(* mutexes for one account" is a state the model can express.              *)
(***************************************************************************)
EXTENDS SelectNextWaiter

CONSTANTS
  Call,     \* asynchronous run() invocations; an id is reused when it ends
  Key,      \* account keys
  Mutex,    \* PriorityMutex objects; an id is reused when nothing refers to it
  Priority, \* the tiers the callers use
  NoMutex,  \* no object (byKey has no entry, the call holds no reference)
  NoKey,    \* the call is not active
  NotWaiting \* abstract budget of a call that is not queued

ASSUME PriorityAssumption == Priority \subseteq Requesters
ASSUME NoMutexAssumption == NoMutex \notin Mutex
ASSUME NoKeyAssumption == NoKey \notin Key
ASSUME NotWaitingAssumption == NotWaiting \notin Nat

VARIABLES
  byKey,    \* KeyedPriorityMutex.byKey
  locked,   \* PriorityMutex.locked, per object
  waiters,  \* PriorityMutex.waiters, per object
  pc,       \* "idle", "waiting", "woken" (promise resolved), "running" (in fn)
  at,       \* the object the call captured
  key       \* the key the call was made with

vars == <<byKey, locked, waiters, pc, at, key>>

TypeOK ==
  /\ byKey \in [Key -> Mutex \cup {NoMutex}]
  /\ locked \in [Mutex -> BOOLEAN]
  /\ waiters \in [Mutex -> Seq(Waiter(Call))]
  /\ pc \in [Call -> {"idle", "waiting", "woken", "running"}]
  /\ at \in [Call -> Mutex \cup {NoMutex}]
  /\ key \in [Call -> Key \cup {NoKey}]

Init ==
  /\ byKey = [k \in Key |-> NoMutex]
  /\ locked = [m \in Mutex |-> FALSE]
  /\ waiters = [m \in Mutex |-> << >>]
  /\ pc = [c \in Call |-> "idle"]
  /\ at = [c \in Call |-> NoMutex]
  /\ key = [c \in Call |-> NoKey]

-----------------------------------------------------------------------------
Idle(m) == ~locked[m] /\ Len(waiters[m]) = 0

\* new PriorityMutex(): an object nobody refers to, in its initial state.
Fresh(m) ==
  /\ \A k \in Key : byKey[k] # m
  /\ \A c \in Call : at[c] # m
  /\ Idle(m)

\* KeyedPriorityMutex.run: the object registered for the key, or a new one.
Lookup(k, m) == IF byKey[k] = NoMutex THEN Fresh(m) ELSE m = byKey[k]

\* The synchronous part of a call: look the mutex up and capture it.
Enter(c, k, m) ==
  /\ pc[c] = "idle"
  /\ Lookup(k, m)
  /\ byKey' = [byKey EXCEPT ![k] = m]
  /\ at' = [at EXCEPT ![c] = m]
  /\ key' = [key EXCEPT ![c] = k]

\* acquire finds the lock free: the caller goes straight into fn.
RunNow(c, k, m) ==
  /\ Enter(c, k, m)
  /\ ~locked[m]
  /\ locked' = [locked EXCEPT ![m] = TRUE]
  /\ pc' = [pc EXCEPT ![c] = "running"]
  /\ UNCHANGED waiters

\* acquire finds the lock held: the caller queues behind the others.
Enqueue(c, k, p, m) ==
  /\ Enter(c, k, m)
  /\ locked[m]
  /\ waiters' = [waiters EXCEPT ![m] = Append(@, NewWaiter(c, p))]
  /\ pc' = [pc EXCEPT ![c] = "waiting"]
  /\ UNCHANGED locked

\* The continuation after `await wait`: the woken call enters fn.
Resume(c) ==
  /\ pc[c] = "woken"
  /\ pc' = [pc EXCEPT ![c] = "running"]
  /\ UNCHANGED <<byKey, locked, waiters, at, key>>

\* fn settled (resolved or rejected) and nobody waits: the lock is free.
ReleaseFree(c) ==
  /\ pc[c] = "running"
  /\ waiters[at[c]] = << >>
  /\ locked' = [locked EXCEPT ![at[c]] = FALSE]
  /\ pc' = [pc EXCEPT ![c] = "idle"]
  /\ at' = [at EXCEPT ![c] = NoMutex]
  /\ key' = [key EXCEPT ![c] = NoKey]
  /\ UNCHANGED <<byKey, waiters>>

\* Faulty variant: the lock is let go while the next waiter is being woken.
HandOverUnlocked(c, i) ==
  LET m == at[c] IN
  /\ pc[c] = "running"
  /\ IsNext(waiters[m], i)
  /\ waiters' = [waiters EXCEPT ![m] = Without(@, i)]
  /\ pc' = [pc EXCEPT ![c] = "idle", ![waiters[m][i].who] = "woken"]
  /\ at' = [at EXCEPT ![c] = NoMutex]
  /\ key' = [key EXCEPT ![c] = NoKey]
  /\ locked' = [locked EXCEPT ![m] = FALSE]
  /\ UNCHANGED byKey

\* fn settled and the lock is handed to waiter i: `locked` stays TRUE.
HandOver(c, i) ==
  LET m == at[c] IN
  /\ pc[c] = "running"
  /\ IsNext(waiters[m], i)
  /\ waiters' = [waiters EXCEPT ![m] = Without(@, i)]
  /\ pc' = [pc EXCEPT ![c] = "idle", ![waiters[m][i].who] = "woken"]
  /\ at' = [at EXCEPT ![c] = NoMutex]
  /\ key' = [key EXCEPT ![c] = NoKey]
  /\ UNCHANGED <<byKey, locked>>

Release(c) ==
  \/ ReleaseFree(c)
  \/ \E i \in DOMAIN waiters[at[c]] : HandOver(c, i)

\* Faulty variant: a disconnect drops the mutex whoever holds it.
ForgetBusy(k) ==
  /\ byKey[k] # NoMutex
  /\ byKey' = [byKey EXCEPT ![k] = NoMutex]
  /\ UNCHANGED <<locked, waiters, pc, at, key>>

\* disconnectPerAccount drops the account's mutex, only if it is idle.
ForgetIfIdle(k) ==
  /\ byKey[k] # NoMutex /\ Idle(byKey[k])
  /\ byKey' = [byKey EXCEPT ![k] = NoMutex]
  /\ UNCHANGED <<locked, waiters, pc, at, key>>

\* disconnectAllPerAccount: one synchronous loop over every key.
ForgetAllIdle ==
  /\ byKey' = [k \in Key |->
       IF byKey[k] # NoMutex /\ Idle(byKey[k]) THEN NoMutex ELSE byKey[k]]
  /\ UNCHANGED <<locked, waiters, pc, at, key>>

Next ==
  \/ \E c \in Call, k \in Key, m \in Mutex : RunNow(c, k, m)
  \/ \E c \in Call, k \in Key, p \in Priority, m \in Mutex : Enqueue(c, k, p, m)
  \/ \E c \in Call : pc[c] = "running" /\ Release(c)
  \/ \E c \in Call : Resume(c)
  \/ \E k \in Key : ForgetIfIdle(k)
  \/ ForgetAllIdle

\* The runtime resumes resolved promises, and every IMAP operation settles
\* (each connection has a 30 s socket timeout).  Callers need not call.
Fairness == \A c \in Call :
  WF_vars(Resume(c)) /\ WF_vars(pc[c] = "running" /\ Release(c))

Spec == Init /\ [][Next]_vars /\ Fairness
-----------------------------------------------------------------------------
Owners(m) == {c \in Call : at[c] = m /\ pc[c] \in {"woken", "running"}}

\* No two IMAP operations are inside their critical section for one account,
\* whatever mutex objects came and went for its key.  Two at once would
\* switch the selected mailbox under each other's commands.
MutualExclusion ==
  \A c, d \in Call :
    pc[c] = "running" /\ pc[d] = "running" /\ key[c] = key[d] => c = d

\* A call that waits always has an owner to wake it: the lock of a non-empty
\* queue is held by exactly one call, also between wake() and its resumption.
WaitersHaveAnOwner ==
  \A m \in Mutex : waiters[m] # << >> =>
    locked[m] /\ \E c \in Call : Owners(m) = {c}

\* A waiter is queued exactly once and exactly while its promise is pending;
\* a duplicate or a dropped entry would wake a call twice or never.
QueuedOnce ==
  /\ \A c \in Call : pc[c] = "waiting" =>
       \E i \in DOMAIN waiters[at[c]] : waiters[at[c]][i].who = c
  /\ \A m \in Mutex : \A i, j \in DOMAIN waiters[m] :
       /\ pc[waiters[m][i].who] = "waiting" /\ at[waiters[m][i].who] = m
       /\ waiters[m][i].who = waiters[m][j].who => i = j

\* Promotion keeps its promise: nobody is overtaken more often than the bound,
\* so a background body fetch cannot be postponed forever by clicks.
OvertakenBounded ==
  \A m \in Mutex : \A i \in DOMAIN waiters[m] :
    waiters[m][i].overtaken <= MaxOvertakes

\* Whoever waits longer has been passed over at least as often: promotion
\* can therefore never turn two waiters of one tier around.
OvertakesFollowAge ==
  \A m \in Mutex : \A i, j \in DOMAIN waiters[m] :
    i < j => waiters[m][i].overtaken >= waiters[m][j].overtaken

\* The one-pass scan of selectNextWaiter ends at the unique best waiter.
ScanFindsTheNext ==
  \A m \in Mutex : waiters[m] # << >> => IsNext(waiters[m], BestIdx(waiters[m]))

\* Two operations of one tier on one account start in the order they asked,
\* whatever promotions happened in between.
FifoWithinTier ==
  [][\A m \in Mutex : \A i, j \in DOMAIN waiters[m] :
       /\ i < j
       /\ waiters[m][i].rank = waiters[m][j].rank
       /\ pc'[waiters[m][j].who] = "woken"
       => pc'[waiters[m][i].who] # "waiting"]_vars

\* Every queued operation runs, whatever the other tiers keep asking for.
NoStarvation ==
  \A c \in Call : pc[c] = "waiting" ~> pc[c] = "running"

\* The refinement: a waiter's remaining patience is the number of waiters
\* before it plus the overtakes it can still suffer.
Position(c) == CHOOSE i \in DOMAIN waiters[at[c]] : waiters[at[c]][i].who = c

Patience(c) ==
  (Position(c) - 1) + (MaxOvertakes - waiters[at[c]][Position(c)].overtaken)

Lock == INSTANCE BoundedWaitLock WITH
  owner <- {c \in Call : pc[c] \in {"woken", "running"}},
  budget <- [c \in Call |-> IF pc[c] = "waiting" THEN Patience(c) ELSE NotWaiting],
  account <- key

\* Priorities, promotion and the coming and going of mutex objects add up to
\* a lock with bounded waiting: once queued, a call knows how many others can
\* be served before it, and every hand-over uses one of them up.
ImplementsBoundedWaitLock == Lock!Spec
=============================================================================
