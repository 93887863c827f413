----------------------------- MODULE AccountAuth -----------------------------
(***************************************************************************)
(* "This mailbox needs signing in again": the verdicts of IMAP operations  *)
(* (withOutcomeReporting in packages/net/imap.ts), the refresh of an OAuth *)
(* token that stands between a refused login and its verdict               *)
(* (invokeAuthHandlerWithCooldown, authRefreshCooldown.ts), the flag they  *)
(* move (electron/services/accountAuthState.ts), and what feeds and cuts   *)
(* them off in electron/main.ts: loading an account's configuration,       *)
(* removing the account, and signing in.                                   *)
(*                                                                         *)
(* One account id.  Ids are given out as "max + 1", so the id of a removed *)
(* account goes to the next one: mailboxes 1, 2, ... hold it in turn.      *)
(*                                                                         *)
(* An operation loads the configuration and runs once.  A start of push is *)
(* one too.  Left out: errors of the store and of the classifier, token    *)
(* fetches that share one request to the provider, two removals at a time. *)
(***************************************************************************)
EXTENDS Integers, Sequences

CONSTANTS
  Op,            \* operations under way at a time
  NoOp,
  MaxMailbox,    \* bound: mailboxes that hold the id one after the other
  OAuth,         \* those that sign in with OAuth; the others have a password
  Threshold,     \* AUTH_FAILURE_THRESHOLD, 2 in the code
  Window         \* COOLDOWN_WINDOWS_MS in ticks of the clock; 1, 5, 30 minutes

ASSUME OpAssumption == NoOp \notin Op
ASSUME MailboxAssumption == MaxMailbox \in Nat \ {0} /\ OAuth \subseteq 1..MaxMailbox
ASSUME ThresholdAssumption == Threshold \in Nat \ {0}
ASSUME WindowAssumption == Window \in Seq(Nat \ {0}) /\ Len(Window) > 0

VARIABLES
  holder,        \* the mailbox with the record under the id; 0: no record
  latest,        \* the last mailbox that got the id
  access,        \* whether the holder's stored credentials work
  removal,       \* a removal has deleted the record and awaits the secrets
  cache,         \* a fresh access token is in the provider's cache
  handler,       \* authErrorHandlers: whose load registered it; 0: nobody's
  refresher,     \* authRefreshInflight: the operation whose refresh is on
  refreshStamp,  \* the generation that the handler's token fetch read
  consecutiveFailures, cooldown,      \* of refreshes; ticks left of the window
  generation, authFailureStreak, flagged,  \* of the auth state service
  pc,            \* where each operation stands
  mailbox,       \* whose configuration it has
  stamp,         \* the generation it reports with; NoStamp for null
  about,         \* the holder when it took the stamp; for the properties
  hasty,         \* the id was given out while its removal was on; likewise
  calls          \* calls of the handler since a refresh succeeded or its window
                 \* ended, not the loads' own token requests; likewise

record == <<holder, latest, access, removal, cache, hasty>>
gate == <<handler, refresher, refreshStamp, consecutiveFailures, cooldown, calls>>
service == <<generation, authFailureStreak, flagged>>
ops == <<pc, mailbox, stamp, about>>
vars == <<record, gate, service, ops>>

NoStamp == -1
Mailbox == 1..MaxMailbox

TypeOK ==
  /\ holder \in 0..MaxMailbox /\ latest \in Mailbox /\ holder \in {0, latest}
  /\ access \in {"works", "refused", "missing"}
  /\ removal \in {"none", "secrets"} /\ cache \in {"none", "fresh"}
  /\ hasty \in {"yes", "no"}
  /\ handler \in 0..MaxMailbox
  /\ refresher \in Op \cup {NoOp} /\ refreshStamp \in Int
  /\ consecutiveFailures \in 0..Len(Window) /\ cooldown \in Nat /\ calls \in Nat
  /\ generation \in Nat /\ authFailureStreak \in 0..Threshold
  /\ flagged \in {"yes", "no"}
  /\ pc \in [Op -> {"off", "load", "loaded", "login", "refresh", "join",
                    "retry", "denied"}]
  /\ mailbox \in [Op -> 0..MaxMailbox] /\ about \in [Op -> 0..MaxMailbox]
  /\ stamp \in [Op -> Int]

Init ==
  /\ holder = 1 /\ latest = 1 /\ access \in {"works", "refused"}
  /\ removal = "none" /\ cache = "none" /\ hasty = "no"
  /\ handler = 0 /\ refresher = NoOp /\ refreshStamp = NoStamp
  /\ consecutiveFailures = 0 /\ cooldown = 0 /\ calls = 0
  /\ generation = 0 /\ authFailureStreak = 0 /\ flagged = "no"
  /\ pc = [o \in Op |-> "off"] /\ mailbox = [o \in Op |-> 0]
  /\ stamp = [o \in Op |-> NoStamp] /\ about = [o \in Op |-> 0]

-----------------------------------------------------------------------------
(* The auth state service                                                  *)

currentGeneration == IF holder = 0 THEN NoStamp ELSE generation

isCurrentIncarnation(s) == s = generation

\* raiseFlag, on a streak just counted.
raiseFlag(streak) ==
  /\ flagged' = IF holder = 0 THEN flagged ELSE "yes"
  /\ authFailureStreak' = IF flagged = "no" /\ holder = 0 THEN 0 ELSE streak

\* clearFlag: any proof of a working login.
clearFlag == flagged' = "no" /\ authFailureStreak' = 0

Unmoved == UNCHANGED <<authFailureStreak, flagged>>

\* noteFailure for an auth error.  The streak goes on growing in the code;
\* past the threshold it makes no difference.
noteFailure(s) ==
  LET streak == IF authFailureStreak < Threshold THEN authFailureStreak + 1
                                                 ELSE Threshold
  IN IF ~isCurrentIncarnation(s) THEN Unmoved
     ELSE IF streak < Threshold
     THEN authFailureStreak' = streak /\ UNCHANGED flagged
     ELSE raiseFlag(streak)

\* noteMissingCredentials.
noteMissingCredentials(s) ==
  IF isCurrentIncarnation(s) THEN raiseFlag(authFailureStreak) ELSE Unmoved

\* noteFailure at the boundary, and noteLoginRejected by the handler that
\* started push: the same error, the same generation.
noteLoginRejected(s) ==
  LET streak == IF authFailureStreak < Threshold THEN authFailureStreak + 1
                                                 ELSE Threshold
  IN IF isCurrentIncarnation(s) THEN raiseFlag(streak) ELSE Unmoved

\* Faulty variant: success is taken for the holder's, whoever reports it.
SuccessUnstamped(s) == clearFlag

\* noteSuccess.
noteSuccess(s) == IF isCurrentIncarnation(s) THEN clearFlag ELSE Unmoved

\* Faulty variant: the generation stays with the id.
ForgetKeepsGeneration ==
  UNCHANGED generation /\ authFailureStreak' = 0 /\ flagged' = "no"

\* forget: the generation moves on, whatever holds the id by now.
forget ==
  /\ generation' = generation + 1
  /\ authFailureStreak' = 0 /\ flagged' = "no"

-----------------------------------------------------------------------------
(* Loading the configuration: requireAccountConfig                         *)

\* The operation is over; what it knew goes with it.
Ends(o) ==
  /\ pc' = [pc EXCEPT ![o] = "off"]
  /\ mailbox' = [mailbox EXCEPT ![o] = 0]
  /\ stamp' = [stamp EXCEPT ![o] = NoStamp] /\ about' = [about EXCEPT ![o] = 0]

\* The id addresses an account with this property, or the operation is about
\* a mailbox that is gone and what is stored under the id may be anybody's.
Credentials(m, condition) == m # holder \/ condition

IsOAuth(m) == m \in OAuth

\* The record and the generation are read in one turn.  An OAuth account needs
\* nothing else that takes time when a fresh token is in the cache: it is
\* loaded, and its handler registered, in that turn too.
LoadBegins(o) ==
  /\ pc[o] = "off" /\ holder # 0
  /\ mailbox' = [mailbox EXCEPT ![o] = holder]
  /\ stamp' = [stamp EXCEPT ![o] = currentGeneration]
  /\ about' = [about EXCEPT ![o] = holder]
  /\ IF IsOAuth(holder) /\ cache = "fresh"
     THEN pc' = [pc EXCEPT ![o] = "loaded"] /\ handler' = holder
     ELSE pc' = [pc EXCEPT ![o] = "load"] /\ UNCHANGED handler
  /\ UNCHANGED <<record, refresher, refreshStamp, consecutiveFailures, cooldown,
                 calls, service>>

\* The password was read, or the token fetched and the handler registered,
\* whatever became of the account since.  A load asks the provider whenever the
\* cache is empty: the window of the refreshes is none of its business.
LoadEnds(o) ==
  /\ pc[o] = "load"
  /\ pc' = [pc EXCEPT ![o] = "loaded"]
  /\ IF IsOAuth(mailbox[o])
     THEN /\ Credentials(mailbox[o], access = "works")
          /\ handler' = mailbox[o] /\ cache' = "fresh"
     ELSE /\ Credentials(mailbox[o], access # "missing")
          /\ UNCHANGED <<handler, cache>>
  /\ UNCHANGED <<holder, latest, access, removal, hasty, refresher, refreshStamp,
                 consecutiveFailures, cooldown, calls, service, mailbox, stamp, about>>

\* Nothing is stored: assertImapAuth and the token providers report it.
LoadFindsNothing(o) ==
  /\ pc[o] = "load" /\ Credentials(mailbox[o], access = "missing")
  /\ Ends(o)
  /\ noteMissingCredentials(stamp[o])
  /\ UNCHANGED <<record, gate, generation>>

\* The provider refuses the refresh token, or cannot be reached: the load is
\* rejected, and no operation begins.  The next load asks it again.
LoadFails(o) ==
  /\ pc[o] = "load" /\ IsOAuth(mailbox[o])
  /\ Credentials(mailbox[o], access # "missing")
  /\ Ends(o)
  /\ UNCHANGED <<record, gate, service>>

-----------------------------------------------------------------------------
(* The operation and the refresh of its token                              *)

\* withOutcomeReporting: the stamp is taken before anything else is awaited, and
\* anew: the one that came with the configuration is not used for it.
OperationBegins(o) ==
  /\ pc[o] = "loaded"
  /\ pc' = [pc EXCEPT ![o] = "login"]
  /\ stamp' = [stamp EXCEPT ![o] = currentGeneration]
  /\ about' = [about EXCEPT ![o] = holder]
  /\ UNCHANGED <<record, gate, service, mailbox>>

\* An access token works until it expires, whatever became of the consent.
Succeeds(o) ==
  /\ pc[o] \in {"login", "retry"}
  /\ Credentials(mailbox[o], access = "works" \/ IsOAuth(holder))
  /\ Ends(o)
  /\ noteSuccess(stamp[o])
  /\ UNCHANGED <<record, gate, generation>>

\* Faulty variant: a network failure ends the count of refusals.
OtherFailureResets(o) ==
  /\ pc[o] \in {"login", "retry"}
  /\ Ends(o)
  /\ authFailureStreak' = 0
  /\ UNCHANGED <<record, gate, generation, flagged>>

\* The network, a certificate, a missing folder: no evidence either way.
FailsOtherwise(o) ==
  /\ pc[o] \in {"login", "retry"}
  /\ Ends(o)
  /\ UNCHANGED <<record, gate, service>>

\* The server refuses the login, once or with the fresh token too.
Denied(o) ==
  /\ \/ pc[o] = "denied"
     \/ pc[o] = "retry"
     \/ (pc[o] = "login" /\ refresher = NoOp /\ (handler = 0 \/ cooldown > 0))
  /\ Ends(o)
  /\ noteFailure(stamp[o])
  /\ UNCHANGED <<record, gate, generation>>

\* A start of push is refused: nothing is refreshed, and the caller adds that
\* there will be no second attempt.
PushDenied(o) ==
  /\ pc[o] = "login"
  /\ Ends(o)
  /\ noteLoginRejected(stamp[o])
  /\ UNCHANGED <<record, gate, generation>>

\* Refused while another operation's refresh is on: share its outcome.
RefreshJoined(o) ==
  /\ pc[o] = "login" /\ refresher # NoOp
  /\ pc' = [pc EXCEPT ![o] = "join"]
  /\ UNCHANGED <<record, gate, service, mailbox, stamp, about>>

\* Faulty variant: nobody looks for a refresh that is on already.
RefreshUnshared(o) ==
  /\ pc[o] = "login" /\ handler # 0 /\ cooldown = 0
  /\ pc' = [pc EXCEPT ![o] = "refresh"]
  /\ refresher' = o /\ refreshStamp' = currentGeneration /\ cache' = "none"
  /\ calls' = calls + 1
  /\ UNCHANGED <<holder, latest, access, removal, hasty, handler,
                 consecutiveFailures, cooldown, service, mailbox, stamp, about>>

\* Refused, and the handler is called.  It empties the cache and reads the
\* generation before its own first await.
RefreshBegins(o) ==
  /\ pc[o] = "login" /\ refresher = NoOp /\ handler # 0 /\ cooldown = 0
  /\ pc' = [pc EXCEPT ![o] = "refresh"]
  /\ refresher' = o /\ refreshStamp' = currentGeneration /\ cache' = "none"
  /\ calls' = calls + 1
  /\ UNCHANGED <<holder, latest, access, removal, hasty, handler,
                 consecutiveFailures, cooldown, service, mailbox, stamp, about>>

Waiting == {o \in Op : pc[o] \in {"refresh", "join"}}

\* recordRefreshSuccess; everybody who waited connects again with the token.
RefreshSucceeds ==
  /\ refresher # NoOp
  /\ Credentials(mailbox[refresher], access = "works" /\ IsOAuth(holder))
  /\ pc' = [o \in Op |-> IF o \in Waiting THEN "retry" ELSE pc[o]]
  /\ refresher' = NoOp /\ refreshStamp' = NoStamp /\ cache' = "fresh"
  /\ consecutiveFailures' = 0 /\ cooldown' = 0 /\ calls' = 0
  /\ UNCHANGED <<holder, latest, access, removal, hasty, handler, service,
                 mailbox, stamp, about>>

\* recordRefreshFailure; everybody who waited throws the original error.  A
\* handler that finds no refresh token under the id says so first.
RefreshFails ==
  /\ refresher # NoOp
  /\ LET noToken == holder = 0 \/ access = "missing" \/ ~IsOAuth(holder)
     IN \/ Credentials(mailbox[refresher], noToken) /\ noteMissingCredentials(refreshStamp)
        \/ Credentials(mailbox[refresher], ~noToken) /\ Unmoved
  /\ pc' = [o \in Op |-> IF o \in Waiting THEN "denied" ELSE pc[o]]
  /\ refresher' = NoOp /\ refreshStamp' = NoStamp
  /\ consecutiveFailures' = IF consecutiveFailures < Len(Window)
                            THEN consecutiveFailures + 1 ELSE Len(Window)
  /\ cooldown' = Window[consecutiveFailures']
  /\ UNCHANGED <<record, handler, calls, generation, mailbox, stamp, about>>

\* Faulty variant: what is left of a window is not cut off at zero.
TickPastZero ==
  /\ cooldown' = cooldown - 1
  /\ calls' = IF cooldown = 1 THEN 0 ELSE calls
  /\ UNCHANGED <<record, handler, refresher, refreshStamp, consecutiveFailures,
                 service, ops>>

\* Time passes; past its window a failed refresh is forgotten by the gate.
Tick ==
  /\ cooldown > 0 /\ cooldown' = cooldown - 1
  /\ calls' = IF cooldown = 1 THEN 0 ELSE calls
  /\ UNCHANGED <<record, handler, refresher, refreshStamp, consecutiveFailures,
                 service, ops>>

-----------------------------------------------------------------------------
(* The account                                                             *)

\* The token expires; the password is changed elsewhere or the consent is
\* withdrawn; the secret store loses what it had.
TokenExpires ==
  /\ cache = "fresh" /\ cache' = "none"
  /\ UNCHANGED <<holder, latest, access, removal, hasty, gate, service, ops>>

CredentialsBreak ==
  /\ holder # 0 /\ access = "works" /\ access' \in {"refused", "missing"}
  /\ UNCHANGED <<holder, latest, removal, cache, hasty, gate, service, ops>>

\* oauth:google:connect and oauth:microsoft:connect store the token; it is
\* known to work unless the trial login stopped at the certificate.  Saving a
\* new password proves nothing.
SignIn ==
  /\ holder # 0 /\ access' = "works"
  /\ IF IsOAuth(holder) THEN (clearFlag \/ Unmoved) /\ cache' = "fresh"
                        ELSE Unmoved /\ UNCHANGED cache
  /\ UNCHANGED <<holder, latest, removal, hasty, gate, generation, ops>>

\* saveAccount for a new account.  Its OAuth token is stored by SignIn.
AddAccount ==
  /\ holder = 0 /\ latest < MaxMailbox
  /\ holder' = latest + 1 /\ latest' = latest + 1
  /\ access' \in IF IsOAuth(latest + 1) THEN {"missing"} ELSE {"works", "refused"}
  /\ hasty' = IF removal = "none" THEN "no" ELSE "yes"
  /\ UNCHANGED <<removal, cache, gate, service, ops>>

\* deleteAccount: the record goes first, the secrets follow.
RemoveBegins ==
  /\ holder # 0 /\ removal = "none"
  /\ holder' = 0 /\ removal' = "secrets"
  /\ UNCHANGED <<latest, access, cache, hasty, gate, service, ops>>

\* completeAccountRemoval, by id.
completeAccountRemoval ==
  /\ handler' = 0 /\ forget /\ cache' = "none" /\ hasty' = "no"

RemoveCompletes ==
  /\ removal = "secrets" /\ removal' = "none"
  /\ completeAccountRemoval
  /\ UNCHANGED <<holder, latest, access, refresher, refreshStamp, consecutiveFailures,
                 cooldown, calls, ops>>

\* Deleting a secret fails: the teardown is owed only if the record is gone.
RemoveRejects ==
  /\ removal = "secrets" /\ removal' = "none"
  /\ IF holder = 0 THEN completeAccountRemoval
                   ELSE UNCHANGED <<handler, service, cache, hasty>>
  /\ UNCHANGED <<holder, latest, access, refresher, refreshStamp, consecutiveFailures,
                 cooldown, calls, ops>>

-----------------------------------------------------------------------------
OperationStep(o) ==
  \/ LoadBegins(o) \/ LoadEnds(o) \/ LoadFindsNothing(o) \/ LoadFails(o)
  \/ OperationBegins(o) \/ Succeeds(o) \/ FailsOtherwise(o) \/ Denied(o)
  \/ PushDenied(o) \/ RefreshJoined(o) \/ RefreshBegins(o)

Next ==
  \/ \E o \in Op : OperationStep(o)
  \/ RefreshSucceeds \/ RefreshFails \/ Tick
  \/ TokenExpires \/ CredentialsBreak \/ SignIn
  \/ AddAccount \/ RemoveBegins \/ RemoveCompletes \/ RemoveRejects

\* What an operation does by itself: it loads what it can, begins, and passes
\* on what it was told.
Advances(o) ==
  \/ LoadBegins(o) \/ LoadEnds(o) \/ LoadFindsNothing(o) \/ LoadFails(o)
  \/ OperationBegins(o) \/ (pc[o] = "denied" /\ Denied(o))

\* A login is answered: the server says yes or no.
Answered(o) ==
  /\ pc[o] \in {"login", "retry"}
  /\ \/ Succeeds(o) \/ Denied(o) \/ PushDenied(o)
     \/ RefreshJoined(o) \/ RefreshBegins(o)

\* Accounts are synced every few minutes, so operations go on; refreshes come
\* to an end, and tokens expire.  The network permitting, if operations ask
\* again and again, at times a token is fetched, a login answered, and with
\* credentials that work a login succeeds.
Fairness ==
  /\ \A o \in Op : WF_vars(Advances(o))
  /\ WF_vars(RefreshSucceeds \/ RefreshFails) /\ WF_vars(TokenExpires)
  /\ SF_vars(\E o \in Op : LoadEnds(o))
  /\ SF_vars(\E o \in Op : Answered(o))
  /\ SF_vars(access = "works" /\ \E o \in Op : Succeeds(o))

Spec == Init /\ [][Next]_vars /\ Fairness

-----------------------------------------------------------------------------
(* Properties                                                              *)

\* The id had changed hands by the time the operation took its stamp, so its
\* verdict is taken for one on the new holder.
BeganStale(o) == about[o] \notin {0, mailbox[o]}

\* The verdict that ends an operation moves the warning of the mailbox whose
\* configuration the operation ran with, and of no later holder of the id, in
\* whatever order it, the removal and the next account come.  The exceptions:
\* the id was given out before its removal was through, or before the operation
\* began.  A load's verdict never falls under the second.
VerdictsStayHome ==
  [][\A o \in Op :
       (pc[o] # "off" /\ pc'[o] = "off"
         /\ <<authFailureStreak, flagged>>' # <<authFailureStreak, flagged>>)
       => \/ mailbox[o] = holder \/ holder = 0
          \/ hasty = "yes" \/ BeganStale(o)]_vars

\* An id that nobody holds carries no warning and no count for the account
\* that gets it next, however late the old one's operations report.
FreedIdIsClean ==
  holder = 0 /\ removal = "none" => flagged = "no" /\ authFailureStreak = 0

\* Operations whose logins are refused call the refresh handler once until a
\* refresh succeeded or the window is over, however many of them meet the
\* expired token at once.  Only the gate promises this: the token requests of
\* the loads pass it by.
OneCallPerWindow == calls <= 1

\* A mailbox that stays unusable gets its warning, and keeps it: one whose
\* password is refused, and one with nothing stored.
TroubleIsShown ==
  \A m \in Mailbox :
    <>[](/\ holder = m
         /\ access = "missing" \/ (access = "refused" /\ ~IsOAuth(m)))
      => <>[](flagged = "yes")

\* accountAuthState.ts:5-10 on what the flag is for: a password changed
\* elsewhere "or an OAuth refresh token is revoked".
WithdrawnConsentIsShown ==
  \A m \in OAuth : <>[](holder = m /\ access = "refused") => <>(flagged = "yes")
=============================================================================
