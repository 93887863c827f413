-------------------------- MODULE AccountAuthProofs --------------------------
(***************************************************************************)
(* Proofs about AccountAuth, for any number of operations, mailboxes and   *)
(* windows: verdicts reach the mailbox they are about, outside two named   *)
(* cases, the next holder of an id starts clean, and the calls of the      *)
(* refresh handler are spaced.                                             *)
(***************************************************************************)
EXTENDS AccountAuth, TLAPS

USE OpAssumption, MailboxAssumption, ThresholdAssumption, WindowAssumption DEF Mailbox

\* Nobody has a generation from the future: the next one is nobody's.
Issued ==
  /\ \A o \in Op : stamp[o] <= generation
  /\ refreshStamp <= generation

\* A stamp that still matches was taken under an account, and under the one that
\* has the id.
Attributed ==
  \A o \in Op : pc[o] # "off" /\ stamp[o] = generation =>
    /\ about[o] # 0
    /\ about[o] = holder \/ holder = 0 \/ hasty = "yes"

\* No stamp matches the generation of an id that nobody holds.
Severed ==
  holder = 0 /\ removal = "none" =>
    /\ refreshStamp # generation
    /\ \A o \in Op : stamp[o] # generation

\* A call that counts is under way, or its window is.
Counted == OneCallPerWindow /\ (calls = 0 \/ refresher # NoOp \/ cooldown > 0)

Inv == TypeOK /\ Issued /\ Attributed /\ Severed /\ FreedIdIsClean /\ Counted

LEMMA InitInv == Init => Inv
<1> USE DEF Init, NoStamp
<1>1. Init => TypeOK
  BY DEF TypeOK
<1>2. Init => Issued /\ Attributed /\ Severed
  BY DEF Issued, Attributed, Severed
<1>3. Init => FreedIdIsClean /\ Counted
  BY DEF FreedIdIsClean, Counted, OneCallPerWindow
<1> QED BY <1>1, <1>2, <1>3 DEF Inv

\* A report with stamp s, of any kind: it keeps the types, and moves something
\* only if s is the current generation.
Report(s) ==
  noteSuccess(s) \/ noteFailure(s) \/ noteMissingCredentials(s) \/ noteLoginRejected(s)

LEMMA ReportNeedsItsGeneration ==
  ASSUME TypeOK, NEW s, Report(s) \/ Unmoved
  PROVE  /\ authFailureStreak' \in 0..Threshold /\ flagged' \in {"yes", "no"}
         /\ s # generation => UNCHANGED <<authFailureStreak, flagged>>
BY DEF TypeOK, Report, Unmoved, noteSuccess, noteFailure, noteMissingCredentials,
       noteLoginRejected, raiseFlag, clearFlag, isCurrentIncarnation

\* An operation that ends with a report.
LEMMA ReportKeepsInv ==
  ASSUME Inv, NEW o \in Op, pc[o] # "off", Ends(o),
         Report(stamp[o]) \/ Unmoved,
         UNCHANGED <<record, gate, generation>>
  PROVE  Inv'
<1> USE DEF Inv, Ends, record, gate, NoStamp
<1>1. /\ authFailureStreak' \in 0..Threshold /\ flagged' \in {"yes", "no"}
      /\ stamp[o] # generation => UNCHANGED <<authFailureStreak, flagged>>
  BY ReportNeedsItsGeneration
<1>2. TypeOK'
  BY <1>1 DEF TypeOK
<1>3. Issued' /\ Attributed' /\ Severed'
  BY DEF TypeOK, Issued, Attributed, Severed
<1>4. FreedIdIsClean'
  BY <1>1 DEF TypeOK, Severed, FreedIdIsClean
<1>5. Counted'
  BY DEF Counted, OneCallPerWindow
<1> QED BY <1>2, <1>3, <1>4, <1>5

LEMMA OperationKeepsInv ==
  ASSUME Inv, NEW o \in Op, OperationStep(o)
  PROVE  Inv'
<1> USE DEF Inv
<1>1. CASE \/ LoadFindsNothing(o) \/ LoadFails(o) \/ Succeeds(o)
           \/ FailsOtherwise(o) \/ Denied(o) \/ PushDenied(o)
  <2>1. pc[o] # "off" /\ Ends(o) /\ UNCHANGED <<record, gate, generation>>
    BY <1>1 DEF LoadFindsNothing, LoadFails, Succeeds, FailsOtherwise, Denied,
                PushDenied, service
  <2>2. Report(stamp[o]) \/ Unmoved
    BY <1>1 DEF LoadFindsNothing, LoadFails, Succeeds, FailsOtherwise, Denied,
                PushDenied, service, Report, Unmoved
  <2> QED BY <2>1, <2>2, ReportKeepsInv
<1> USE DEF TypeOK, Issued, Attributed, Severed, FreedIdIsClean, Counted,
            OneCallPerWindow, record, service, NoStamp, currentGeneration
<1>2. CASE LoadBegins(o)
  <2>1. /\ pc' \in [Op -> {"off", "load", "loaded", "login", "refresh", "join",
                           "retry", "denied"}]
        /\ handler' \in 0..MaxMailbox
    BY <1>2 DEF LoadBegins
  <2>2. /\ mailbox' \in [Op -> 0..MaxMailbox] /\ about' \in [Op -> 0..MaxMailbox]
        /\ stamp' \in [Op -> Int]
    BY <1>2 DEF LoadBegins
  <2>3. TypeOK'
    BY <1>2, <2>1, <2>2 DEF LoadBegins
  <2>4. Issued' /\ Severed' /\ FreedIdIsClean' /\ Counted'
    BY <1>2 DEF LoadBegins
  <2>5. Attributed'
    BY <1>2 DEF LoadBegins
  <2> QED BY <2>3, <2>4, <2>5
<1>3. CASE LoadEnds(o)
  BY <1>3 DEF LoadEnds
<1>4. CASE OperationBegins(o)
  BY <1>4 DEF OperationBegins, gate
<1>5. CASE RefreshJoined(o)
  BY <1>5 DEF RefreshJoined, gate
<1>6. CASE RefreshBegins(o)
  BY <1>6 DEF RefreshBegins
<1> QED BY <1>1, <1>2, <1>3, <1>4, <1>5, <1>6 DEF OperationStep

LEMMA GateKeepsInv ==
  ASSUME Inv, RefreshSucceeds \/ RefreshFails \/ Tick
  PROVE  Inv'
<1> USE DEF Inv, TypeOK, record, service, ops, NoStamp
<1>1. CASE RefreshSucceeds
  BY <1>1 DEF RefreshSucceeds, Issued, Attributed, Severed, FreedIdIsClean,
              Counted, OneCallPerWindow, Waiting
<1>2. CASE RefreshFails
  <2>1. /\ authFailureStreak' \in 0..Threshold /\ flagged' \in {"yes", "no"}
        /\ refreshStamp # generation => UNCHANGED <<authFailureStreak, flagged>>
    <3>1. Report(refreshStamp) \/ Unmoved
      BY <1>2 DEF RefreshFails, Report
    <3> QED BY <3>1, ReportNeedsItsGeneration
  <2>2. consecutiveFailures' \in 1..Len(Window) /\ cooldown' \in Nat \ {0}
    <3>1. PICK n \in 1..Len(Window) : n = consecutiveFailures'
      BY <1>2 DEF RefreshFails
    <3>2. Window[n] \in Nat \ {0}
      OBVIOUS
    <3>3. cooldown' = Window[n]
      BY <1>2, <3>1 DEF RefreshFails
    <3> QED BY <3>1, <3>2, <3>3
  <2>3. TypeOK'
    BY <1>2, <2>1, <2>2 DEF RefreshFails
  <2>4. Counted'
    BY <1>2, <2>2 DEF RefreshFails, Counted, OneCallPerWindow
  <2>5. Issued' /\ Attributed' /\ Severed'
    BY <1>2 DEF RefreshFails, Issued, Attributed, Severed, Waiting
  <2>6. FreedIdIsClean'
    BY <1>2, <2>1 DEF RefreshFails, Severed, FreedIdIsClean
  <2> QED BY <2>3, <2>4, <2>5, <2>6
<1>3. CASE Tick
  BY <1>3 DEF Tick, Issued, Attributed, Severed, FreedIdIsClean, Counted,
              OneCallPerWindow
<1> QED BY <1>1, <1>2, <1>3

LEMMA AccountKeepsInv ==
  ASSUME Inv, \/ TokenExpires \/ CredentialsBreak \/ SignIn
              \/ AddAccount \/ RemoveBegins \/ RemoveCompletes \/ RemoveRejects
  PROVE  Inv'
<1> USE DEF Inv, TypeOK, Issued, Attributed, Severed, FreedIdIsClean, Counted,
            OneCallPerWindow, gate, service, ops, NoStamp
<1>1. CASE TokenExpires \/ CredentialsBreak
  <2>1. /\ cache' \in {cache, "none"} /\ access' \in {access, "refused", "missing"}
        /\ UNCHANGED <<holder, latest, removal, hasty, gate, service, ops>>
    BY <1>1 DEF TokenExpires, CredentialsBreak
  <2> QED BY <2>1
<1>2. CASE SignIn
  <2>1. authFailureStreak' \in {0, authFailureStreak} /\ flagged' \in {"no", flagged}
    BY <1>2 DEF SignIn, clearFlag, Unmoved, IsOAuth
  <2>2. holder # 0 /\ access' = "works" /\ cache' \in {cache, "fresh"}
        /\ UNCHANGED <<holder, latest, removal, hasty, gate, generation, ops>>
    BY <1>2 DEF SignIn
  <2> QED BY <2>1, <2>2
<1>3. CASE AddAccount
  BY <1>3 DEF AddAccount, IsOAuth
<1>4. CASE RemoveBegins
  BY <1>4 DEF RemoveBegins
<1>5. CASE RemoveCompletes
  BY <1>5 DEF RemoveCompletes, completeAccountRemoval, forget
<1>6. CASE RemoveRejects
  <2>1. CASE holder = 0
    BY <1>6, <2>1 DEF RemoveRejects, completeAccountRemoval, forget
  <2>2. CASE holder # 0
    BY <1>6, <2>2 DEF RemoveRejects
  <2> QED BY <2>1, <2>2
<1> QED BY <1>1, <1>2, <1>3, <1>4, <1>5, <1>6

LEMMA NextKeepsInv == Inv /\ [Next]_vars => Inv'
<1> SUFFICES ASSUME Inv, [Next]_vars PROVE Inv'
  OBVIOUS
<1>1. CASE Next
  BY <1>1, OperationKeepsInv, GateKeepsInv, AccountKeepsInv DEF Next
<1>2. CASE UNCHANGED vars
  BY <1>2 DEF Inv, TypeOK, Issued, Attributed, Severed, FreedIdIsClean, Counted,
              OneCallPerWindow, vars, record, gate, service, ops
<1> QED BY <1>1, <1>2

LEMMA InvHolds == Spec => []Inv
<1> QED BY InitInv, NextKeepsInv, PTL DEF Spec

\* Every variable has its type: no count of refusals passes the threshold, no
\* window is overrun, a record belongs to the last mailbox that got the id.
THEOREM TypesHold == Spec => []TypeOK
<1>1. Inv => TypeOK
  BY DEF Inv
<1> QED BY <1>1, InvHolds, PTL

\* Whatever the old account's operations report and however late, the next
\* account under the id starts without a warning and without a count.
THEOREM NextHolderStartsClean == Spec => []FreedIdIsClean
<1>1. Inv => FreedIdIsClean
  BY DEF Inv
<1> QED BY <1>1, InvHolds, PTL

\* However many operations meet an expired token at once, the refresh handler is
\* called once until a refresh succeeded or the window is over.
THEOREM HandlerCallsAreSpaced == Spec => []OneCallPerWindow
<1>1. Inv => OneCallPerWindow
  BY DEF Inv, Counted
<1> QED BY <1>1, InvHolds, PTL

\* The verdict that ends an operation moves nobody's warning but that of the
\* mailbox whose configuration it ran with, unless the id was given out before
\* its removal was through or before the operation took its stamp.
THEOREM VerdictsReachTheirMailbox == Spec => VerdictsStayHome
<1> DEFINE Home ==
      \A o \in Op :
        (pc[o] # "off" /\ pc'[o] = "off"
          /\ <<authFailureStreak, flagged>>' # <<authFailureStreak, flagged>>)
        => \/ mailbox[o] = holder \/ holder = 0
           \/ hasty = "yes" \/ BeganStale(o)
<1>1. Inv /\ [Next]_vars => [Home]_vars
  <2> SUFFICES ASSUME Inv, Next, NEW o \in Op, pc[o] # "off", pc'[o] = "off",
                      ~UNCHANGED <<authFailureStreak, flagged>>
               PROVE  \/ mailbox[o] = holder \/ holder = 0
                      \/ hasty = "yes" \/ BeganStale(o)
    OBVIOUS
  <2> USE DEF Inv, TypeOK
  <2>1. PICK p \in Op : OperationStep(p)
    BY DEF Next, RefreshSucceeds, RefreshFails, Tick, TokenExpires, CredentialsBreak,
           SignIn, AddAccount, RemoveBegins, RemoveCompletes, RemoveRejects, ops,
           Waiting
  <2>2. p = o
    BY <2>1 DEF OperationStep, LoadBegins, LoadEnds, LoadFindsNothing, LoadFails,
                OperationBegins, Succeeds, FailsOtherwise, Denied, PushDenied,
                RefreshJoined, RefreshBegins, Ends
  <2>3. Report(stamp[o]) \/ Unmoved
    BY <2>1, <2>2 DEF OperationStep, LoadBegins, LoadEnds, LoadFindsNothing,
                LoadFails, OperationBegins, Succeeds, FailsOtherwise, Denied,
                PushDenied, RefreshJoined, RefreshBegins, Report, service, Unmoved
  <2>4. stamp[o] = generation
    BY <2>3, ReportNeedsItsGeneration
  <2> QED BY <2>4 DEF Attributed, BeganStale
<1> QED BY <1>1, InvHolds, PTL DEF Spec, VerdictsStayHome
=============================================================================
