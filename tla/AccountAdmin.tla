---------------------------- MODULE AccountAdmin ----------------------------
(***************************************************************************)
(* The administration of accounts and their roles (user_service.py,        *)
(* role_service.py).                                                       *)
(*                                                                         *)
(* A request reads the account, counts the active administrators when it   *)
(* would take one away, then writes and commits.  Nothing is locked before *)
(* the write, and each statement reads what is committed by then.          *)
(*                                                                         *)
(* Roles are never switched off by the code, so role.is_active is left     *)
(* out; so are names, telephones, departments and passwords.               *)
(***************************************************************************)
EXTENDS Integers, FiniteSets

CONSTANTS
  Users,         \* e-mail addresses, of accounts that exist or may be created
  Founders,      \* the accounts that exist at first, all administrators
  RoleCodes,     \* the roles; "ADMIN" is one
  Requests       \* requests served at the same time

FoundersAssumption == Founders \subseteq Users /\ Founders # {} /\ "ADMIN" \in RoleCodes

VARIABLES
  account,  \* users.is_active and user_roles
  trail,    \* what the audit rows, read in the order of their commits, tell of it
  request   \* the local state of each request

vars == <<account, trail, request>>

NoAccount == [exists |-> FALSE, active |-> FALSE, roles |-> {}]
Account == [exists : {TRUE}, active : BOOLEAN, roles : SUBSET RoleCodes] \union {NoAccount}
Administrator == [exists |-> TRUE, active |-> TRUE, roles |-> {"ADMIN"}]

\* What a request asks for.  "switch" sets is_active, "grant" and "revoke" one role.
Order ==
  [op : {"create"}, active : BOOLEAN, roles : SUBSET RoleCodes \ {{}}]
    \union [op : {"switch"}, active : BOOLEAN]
    \union [op : {"grant", "revoke"}, role : RoleCodes]

Idle == [step |-> "idle"]

TypeOK ==
  /\ account \in [Users -> Account]
  /\ trail \in [Users -> Account]
  /\ request \in [Requests -> {Idle} \union
       [step : {"counting", "writing"}, user : Users, order : Order, seen : Account]]

Init ==
  /\ account = [u \in Users |-> IF u \in Founders THEN Administrator ELSE NoAccount]
  /\ trail = account
  /\ request = [r \in Requests |-> Idle]

IsActiveAdmin(u) == account[u].active /\ "ADMIN" \in account[u].roles
ActiveAdmins == {u \in Users : IsActiveAdmin(u)}

\* The 404s and 409s that follow from the account as it is read.
Acceptable(seen, order) ==
  CASE order.op = "create" -> ~seen.exists
    [] order.op = "switch" -> seen.exists
    [] order.op = "grant"  -> seen.exists /\ order.role \notin seen.roles
    [] order.op = "revoke" -> seen.exists /\ order.role \in seen.roles

\* The order would take away an active administrator.
Deposes(seen, order) ==
  /\ seen.active /\ "ADMIN" \in seen.roles
  /\ \/ order.op = "switch" /\ ~order.active
     \/ order.op = "revoke" /\ order.role = "ADMIN"

-----------------------------------------------------------------------------
\* An active administrator's request reads the account it is about.
Load(r, u, order) ==
  /\ request[r] = Idle
  /\ ActiveAdmins # {}
  /\ Acceptable(account[u], order)
  /\ request' = [request EXCEPT ![r] =
       [step |-> IF Deposes(account[u], order) THEN "counting" ELSE "writing",
        user |-> u, order |-> order, seen |-> account[u]]]
  /\ UNCHANGED <<account, trail>>

\* Variant: an administrator who is the only one left may go.
CountToZero(r) ==
  /\ request[r].step = "counting"
  /\ request' = [request EXCEPT ![r] =
       IF Cardinality(ActiveAdmins) < 1 THEN Idle ELSE [@ EXCEPT !.step = "writing"]]
  /\ UNCHANGED <<account, trail>>

\* count_active_admin_users: the last one is refused with 409.
Count(r) ==
  /\ request[r].step = "counting"
  /\ request' = [request EXCEPT ![r] =
       IF Cardinality(ActiveAdmins) <= 1 THEN Idle ELSE [@ EXCEPT !.step = "writing"]]
  /\ UNCHANGED <<account, trail>>

Carried(row, order) ==
  CASE order.op = "create" -> [exists |-> TRUE, active |-> order.active, roles |-> order.roles]
    [] order.op = "switch" -> [row EXCEPT !.active = order.active]
    [] order.op = "grant"  -> [row EXCEPT !.roles = @ \union {order.role}]
    [] order.op = "revoke" -> [row EXCEPT !.roles = @ \ {order.role}]

\* A switch to the value the request has seen changes no column, so no UPDATE
\* is sent for it.
Noop(seen, order) == order.op = "switch" /\ order.active = seen.active

\* A unique index refuses the second account of an e-mail, a primary key the
\* second row of a role.
Collides(row, order) ==
  \/ order.op = "create" /\ row.exists
  \/ order.op = "grant" /\ order.role \in row.roles

\* Variant: every column is written.
WriteAllColumns(r) ==
  /\ request[r].step = "writing"
  /\ LET u == request[r].user  order == request[r].order  seen == request[r].seen IN
       /\ ~Collides(account[u], order)
       /\ account' = [account EXCEPT ![u] = Carried(@, order)]
       /\ trail' = [trail EXCEPT ![u] = Carried(@, order)]
  /\ request' = [request EXCEPT ![r] = Idle]

\* Variant: the audit row is written only when a column changes.
WriteUnaudited(r) ==
  /\ request[r].step = "writing"
  /\ LET u == request[r].user  order == request[r].order  seen == request[r].seen IN
       /\ ~Collides(account[u], order)
       /\ account' = [account EXCEPT ![u] = Carried(@, order)]
       /\ trail' = IF order.op = "switch" THEN trail
                   ELSE [trail EXCEPT ![u] = Carried(@, order)]
  /\ request' = [request EXCEPT ![r] = Idle]

\* The row, its audit row and the commit.
Write(r) ==
  /\ request[r].step = "writing"
  /\ LET u == request[r].user  order == request[r].order  seen == request[r].seen IN
       /\ ~Collides(account[u], order)
       /\ account' = [account EXCEPT ![u] = IF Noop(seen, order) THEN @ ELSE Carried(@, order)]
       /\ trail' = [trail EXCEPT ![u] = Carried(@, order)]
  /\ request' = [request EXCEPT ![r] = Idle]

\* IntegrityError: rolled back, answered 409 (create) or 500 (grant).
Collide(r) ==
  /\ request[r].step = "writing"
  /\ Collides(account[request[r].user], request[r].order)
  /\ request' = [request EXCEPT ![r] = Idle]
  /\ UNCHANGED <<account, trail>>

Next ==
  \E r \in Requests :
    \/ \E u \in Users, order \in Order : Load(r, u, order)
    \/ Count(r) \/ Write(r) \/ Collide(r)

Spec == Init /\ [][Next]_vars

-----------------------------------------------------------------------------
\* "Không được vô hiệu hóa quản trị viên hoạt động cuối cùng": whatever is
\* switched off or revoked, an active administrator remains.
AdminRemains == ActiveAdmins # {}

\* The audit log tells what became of every account.
AuditTellsTheAccount == trail = account

\* A deactivation is undone only by a request that has seen it: one decided on
\* an older reading of the account changes nothing (update_admin_user).
StaleActivationIsIgnored ==
  [][\A u \in Users :
       account[u].exists /\ ~account[u].active /\ account'[u].active
         => \E r \in Requests :
              request[r].step = "writing" /\ request[r].user = u /\ ~request[r].seen.active]_vars
=============================================================================
