---------------------------- MODULE AuthSessions ----------------------------
(***************************************************************************)
(* Signing in, refreshing and signing out (auth_service.py) over the       *)
(* session store in Redis (auth_session_store.py).                         *)
(*                                                                         *)
(* A request runs to its answer in several steps, one per command sent to  *)
(* Redis or PostgreSQL, and other requests run in between.  A MULTI/EXEC   *)
(* pipeline is one step; an EXEC under WATCH fails when the watched key    *)
(* was written meanwhile.  A request may die at any step: a command that   *)
(* times out, a killed process, an answer that is lost.                    *)
(*                                                                         *)
(* Left out: token texts and signatures, the audit rows, the throttle on   *)
(* failed logins (LoginThrottle), and expiry, seven days away for a        *)
(* refresh token: a request with an expired token is refused by            *)
(* decode_token and changes nothing.                                       *)
(***************************************************************************)
EXTENDS Integers, FiniteSets

CONSTANTS
  Users,      \* accounts
  MaxLogins,  \* bound: families per account
  Pairs,      \* pairs of an access and a refresh token
  NoPair,     \* no pair
  Requests    \* requests served at the same time

ASSUME PairsAssumption == NoPair \notin Pairs
ASSUME LoginsAssumption == MaxLogins \in Nat

\* A family identifier is drawn by the login that opens the family.
Families == Users \X (1..MaxLogins)
Owner(f) == f[1]

VARIABLES
  active,   \* users.is_active
  session,  \* the hashes auth:refresh:<jti> and, through family, auth:family:<id>
  revoked,  \* the keys auth:access:revoked:<jti>
  request   \* the local state of each request

vars == <<active, session, revoked, request>>

Status == {"absent", "active", "used", "revoked"}
Absent == [status |-> "absent", family |-> <<>>]
Session == [status : Status \ {"absent"}, family : Families] \union {Absent}

Step == {"idle", "creating", "loading", "watching", "rotating", "listing",
         "revoking", "blocking"}

\* A request that works on family f from now on, with the tokens it was sent.
Begun(step, p, access, f) ==
  [step |-> step, pair |-> p, access |-> access, family |-> f,
   members |-> {}, conflicts |-> 0]

Idle == Begun("idle", NoPair, NoPair, <<>>)

TypeOK ==
  /\ active \in [Users -> BOOLEAN]
  /\ session \in [Pairs -> Session]
  /\ revoked \subseteq Pairs
  /\ request \in [Requests -> [step : Step, pair : Pairs \union {NoPair},
                               access : Pairs \union {NoPair},
                               family : Families \union {<<>>},
                               members : SUBSET Pairs, conflicts : 0..3]]

Init ==
  /\ active = [u \in Users |-> TRUE]
  /\ session = [p \in Pairs |-> Absent]
  /\ revoked = {}
  /\ request = [r \in Requests |-> Idle]

Issued(p) == session[p].status # "absent"
IsActive(p) == session[p].status = "active"
Members(f) == {p \in Pairs : session[p].family = f}

At(r, step) == request[r].step = step
Goto(r, step) == request' = [request EXCEPT ![r].step = step]
Finish(r) == request' = [request EXCEPT ![r] = Idle]

-----------------------------------------------------------------------------
\* The password is right and the account active: POST /auth/login goes on to
\* clear the failures and to issue a pair.
Login(r, f) ==
  /\ At(r, "idle")
  /\ active[Owner(f)]
  /\ Members(f) = {}
  /\ \A other \in Requests : request[other].family # f
  /\ request' = [request EXCEPT ![r] = Begun("creating", NoPair, NoPair, f)]
  /\ UNCHANGED <<active, session, revoked>>

\* create_refresh_session; then the audit row is committed and the answer sent.
CreateSession(r, p) ==
  /\ At(r, "creating")
  /\ ~Issued(p)
  /\ session' = [session EXCEPT ![p] = [status |-> "active", family |-> request[r].family]]
  /\ Finish(r)
  /\ UNCHANGED <<active, revoked>>

\* POST /auth/refresh with any refresh token ever issued: get_refresh_status.
Refresh(r, p) ==
  /\ At(r, "idle")
  /\ Issued(p)
  /\ request' = [request EXCEPT ![r] =
       Begun(IF IsActive(p) THEN "loading" ELSE "listing", p, NoPair, session[p].family)]
  /\ UNCHANGED <<active, session, revoked>>

\* The account is read from the database; an inactive one ends the family.
LoadUser(r) ==
  /\ At(r, "loading")
  /\ Goto(r, IF active[Owner(request[r].family)] THEN "watching" ELSE "listing")
  /\ UNCHANGED <<active, session, revoked>>

\* WATCH and HGET of the presented session.  Three conflicts, or a session no
\* longer active, end the family.
Watch(r) ==
  /\ At(r, "watching")
  /\ Goto(r, IF request[r].conflicts < 3 /\ IsActive(request[r].pair)
             THEN "rotating" ELSE "listing")
  /\ UNCHANGED <<active, session, revoked>>

\* Variant: no WATCH, so EXEC never fails.
RotateUnwatched(r, p) ==
  /\ At(r, "rotating")
  /\ ~Issued(p)
  /\ session' = [session EXCEPT ![request[r].pair].status = "used",
                                ![p] = [status |-> "active", family |-> request[r].family]]
  /\ Finish(r)
  /\ UNCHANGED <<active, revoked>>

\* Variant: the old session is left as it is.
RotateKeepingOld(r, p) ==
  /\ At(r, "rotating")
  /\ IsActive(request[r].pair)
  /\ ~Issued(p)
  /\ session' = [session EXCEPT ![p] = [status |-> "active", family |-> request[r].family]]
  /\ Finish(r)
  /\ UNCHANGED <<active, revoked>>

\* EXEC: the old session becomes used and the new one active, both or neither.
\* A watched session is only ever written away from "active".
Rotate(r, p) ==
  /\ At(r, "rotating")
  /\ IsActive(request[r].pair)
  /\ ~Issued(p)
  /\ session' = [session EXCEPT ![request[r].pair].status = "used",
                                ![p] = [status |-> "active", family |-> request[r].family]]
  /\ Finish(r)
  /\ UNCHANGED <<active, revoked>>

\* WatchError: the session was written since the WATCH; look again.
Conflict(r) ==
  /\ At(r, "rotating")
  /\ ~IsActive(request[r].pair)
  /\ request' = [request EXCEPT ![r].step = "watching", ![r].conflicts = @ + 1]
  /\ UNCHANGED <<active, session, revoked>>

\* POST /auth/logout with an access token that is not revoked, of an active
\* account, and a refresh token of the same account.
Logout(r, access, p) ==
  /\ At(r, "idle")
  /\ Issued(access) /\ access \notin revoked
  /\ Issued(p)
  /\ Owner(session[p].family) = Owner(session[access].family)
  /\ active[Owner(session[access].family)]
  /\ request' = [request EXCEPT ![r] =
       Begun("listing", p, access, session[p].family)]
  /\ UNCHANGED <<active, session, revoked>>

\* revoke_family, first command: SMEMBERS.
ListMembers(r) ==
  /\ At(r, "listing")
  /\ request' = [request EXCEPT ![r].step = "revoking",
                                ![r].members = Members(request[r].family)]
  /\ UNCHANGED <<active, session, revoked>>

\* Where a request that has revoked its family goes: a logout has the access
\* token to block, a refresh is answered 401 or 403.
AfterRevocation(r) ==
  IF request[r].access # NoPair THEN Goto(r, "blocking") ELSE Finish(r)

\* revoke_family, second command: MULTI with one HSET per member read; a session
\* added since SMEMBERS is missed.
RevokeMembers(r) ==
  /\ At(r, "revoking")
  /\ session' = [p \in Pairs |-> IF p \in request[r].members
                                 THEN [session[p] EXCEPT !.status = "revoked"]
                                 ELSE session[p]]
  /\ AfterRevocation(r)
  /\ UNCHANGED <<active, revoked>>

\* revoke_access; then the audit row is committed and 204 sent.
BlockAccess(r) ==
  /\ At(r, "blocking")
  /\ revoked' = revoked \union {request[r].access}
  /\ Finish(r)
  /\ UNCHANGED <<active, session>>

Die(r) ==
  /\ ~At(r, "idle")
  /\ Finish(r)
  /\ UNCHANGED <<active, session, revoked>>

\* An administrator switches the account off or on (update_admin_user).
Switch(u) ==
  /\ active' = [active EXCEPT ![u] = ~@]
  /\ UNCHANGED <<session, revoked, request>>

Next ==
  \/ \E r \in Requests :
       \/ \E f \in Families : Login(r, f)
       \/ \E p \in Pairs : CreateSession(r, p) \/ Refresh(r, p) \/ Rotate(r, p)
       \/ \E a, p \in Pairs : Logout(r, a, p)
       \/ LoadUser(r) \/ Watch(r) \/ Conflict(r)
       \/ ListMembers(r) \/ RevokeMembers(r) \/ BlockAccess(r)
       \/ Die(r)
  \/ \E u \in Users : Switch(u)

Spec == Init /\ [][Next]_vars

-----------------------------------------------------------------------------
\* Of all the pairs of a family at most one can be refreshed, whichever requests
\* present the same token at once (rotate_refresh_session).
OneActivePerFamily ==
  \A p, q \in Pairs :
    IsActive(p) /\ IsActive(q) /\ session[p].family = session[q].family => p = q

-----------------------------------------------------------------------------
\* The families seen from outside.
Opened == {f \in Families : Members(f) # {}}

\* The one pair of the family that can be refreshed.
IsCurrent(f, p) ==
  p \in Members(f) /\ IsActive(p) /\ \A q \in Members(f) : IsActive(q) => q = p

Current == [f \in Families |->
  IF \E p \in Pairs : IsCurrent(f, p) THEN CHOOSE p \in Pairs : IsCurrent(f, p) ELSE NoPair]

Spent == {p \in Pairs : session[p].status \in {"used", "revoked"}}

Sessions == INSTANCE SessionFamilies
  WITH opened <- Opened, current <- Current, spent <- Spent

\* Refreshing, replaying and signing out at the same time, a family is handed
\* from one pair to the next, never to two, and never to a pair it had before;
\* when it has no pair left it gets none again.
ImplementsFamilies == Sessions!Spec
=============================================================================
