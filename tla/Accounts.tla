------------------------------ MODULE Accounts ------------------------------
(***************************************************************************)
(* What surrounds an account: its sessions (AuthSessions), the throttle on *)
(* its logins, its administration and its inbox.                           *)
(*                                                                         *)
(* The four share no variable, so a property of one of them holds in any   *)
(* interleaving with the others if it holds while they stand still.  A     *)
(* behaviour lets one move, chosen at the start.  In "one by one" it is    *)
(* the administration, and a request waits until the one before it ended.  *)
(***************************************************************************)
EXTENDS AuthSessions

CONSTANTS
  Logins, MaxAttempts, Window, MaxDeaths,   \* LoginThrottle
  Everyone, RoleCodes,                      \* AccountAdmin; Users exist at first
  Notices, MaxTime                          \* NotificationInbox

VARIABLES
  part,
  attempts, ttl, step, deaths,              \* LoginThrottle
  account, trail, order,                    \* AccountAdmin
  arrived, read_at, now, marking, updated   \* NotificationInbox

throttleVars == <<attempts, ttl, step, deaths>>
adminVars == <<account, trail, order>>
inboxVars == <<arrived, read_at, now, marking, updated>>
accountsVars == <<part, vars, throttleVars, adminVars, inboxVars>>

Throttle == INSTANCE LoginThrottle WITH Requests <- Logins

Admin == INSTANCE AccountAdmin WITH Users <- Everyone, Founders <- Users, request <- order

Inbox == INSTANCE NotificationInbox WITH request <- marking

ASSUME PartsAssumption ==
  Throttle!ThrottleAssumption /\ Admin!FoundersAssumption /\ Inbox!InboxAssumption

AccountsInit ==
  /\ part \in {"sessions", "throttle", "administration", "one by one", "inbox"}
  /\ Init /\ Throttle!Init /\ Admin!Init /\ Inbox!Init

SessionsMove ==
  /\ part = "sessions"
  /\ Next
  /\ UNCHANGED <<part, throttleVars, adminVars, inboxVars>>

ThrottleMoves ==
  /\ part = "throttle"
  /\ Throttle!Next
  /\ UNCHANGED <<part, vars, adminVars, inboxVars>>

AdminMoves ==
  /\ part \in {"administration", "one by one"}
  /\ Admin!Next
  /\ part = "one by one" =>
       \A r, q \in Requests : order'[r] # Admin!Idle /\ order'[q] # Admin!Idle => r = q
  /\ UNCHANGED <<part, vars, throttleVars, inboxVars>>

InboxMoves ==
  /\ part = "inbox"
  /\ Inbox!Next
  /\ UNCHANGED <<part, vars, throttleVars, adminVars>>

AccountsNext == SessionsMove \/ ThrottleMoves \/ AdminMoves \/ InboxMoves

AccountsSpec == AccountsInit /\ [][AccountsNext]_accountsVars /\ Throttle!Fairness

-----------------------------------------------------------------------------
(***************************************************************************)
(* What each part promises                                                 *)
(***************************************************************************)

\* The rows, keys and local states of all four parts are what their modules say.
AccountsTypeOK == TypeOK /\ Throttle!TypeOK /\ Admin!TypeOK /\ Inbox!TypeOK

\* Logins sent together exceed the limit by a bounded number, and a counter
\* without an expiry is about to get one (LoginThrottle).
ThrottleHolds == Throttle!OvershootIsBounded /\ Throttle!CounterWillExpire

\* Whoever has been locked out is let in again (LoginThrottle).
LockoutEnds == Throttle!LockoutEnds

\* One by one, no request takes away the last administrator, and the audit log
\* tells what became of every account (AccountAdmin).
AdministrationIsOrderly ==
  part = "one by one" => Admin!AdminRemains /\ Admin!AuditTellsTheAccount

\* What one request has written, no other undoes without having seen it: a
\* deactivation (AccountAdmin), or that a notification has been read, which is
\* counted in one answer only and keeps its time (NotificationInbox).
NoLostUpdate ==
  /\ Admin!StaleActivationIsIgnored
  /\ Inbox!FirstReadIsKept
  /\ []Inbox!EachIsCountedOnce
=============================================================================
