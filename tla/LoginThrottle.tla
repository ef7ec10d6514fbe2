---------------------------- MODULE LoginThrottle ---------------------------
(***************************************************************************)
(* The throttle on failed logins for one e-mail and address: a counter in  *)
(* Redis, and its expiry, which is set by a command of its own.            *)
(*                                                                         *)
(* A login reads the counter, checks the password in PostgreSQL and only   *)
(* then counts a failure, so logins sent together all pass the check.  It  *)
(* may die between any two commands.                                       *)
(***************************************************************************)
EXTENDS Integers, FiniteSets

CONSTANTS
  Requests,     \* logins under way at the same time
  MaxAttempts,  \* LOGIN_MAX_ATTEMPTS
  Window,       \* LOGIN_RATE_LIMIT_SECONDS
  MaxDeaths     \* bound: logins that die half-way

ThrottleAssumption ==
  /\ MaxAttempts \in Nat \ {0} /\ Window \in Nat \ {0} /\ MaxDeaths \in Nat
  /\ IsFiniteSet(Requests)

NoExpiry == -1   \* what TTL answers for a key that never expires

VARIABLES
  attempts,  \* the counter, 0 when the key is absent
  ttl,       \* its time to live, or NoExpiry
  step,      \* where each login stands
  deaths

vars == <<attempts, ttl, step, deaths>>

TypeOK ==
  /\ attempts \in Nat
  /\ ttl \in 0..Window \union {NoExpiry}
  /\ step \in [Requests -> {"idle", "verifying", "counting", "expiring", "clearing"}]
  /\ deaths \in 0..MaxDeaths

Init ==
  /\ attempts = 0 /\ ttl = NoExpiry
  /\ step = [r \in Requests |-> "idle"]
  /\ deaths = 0

Locked == attempts >= MaxAttempts
Goto(r, s) == step' = [step EXCEPT ![r] = s]

\* Variant: the limit is looked at without being enforced.
AdmitAlways(r) ==
  /\ step[r] = "idle"
  /\ attempts < MaxAttempts + Cardinality(Requests)
  /\ Goto(r, "verifying")
  /\ UNCHANGED <<attempts, ttl, deaths>>

\* Variant: a refused login starts the window again.
AdmitRearming(r) ==
  /\ step[r] = "idle"
  /\ IF Locked THEN ttl' = Window /\ UNCHANGED step
               ELSE Goto(r, "verifying") /\ UNCHANGED ttl
  /\ UNCHANGED <<attempts, deaths>>

\* login_retry_after: a login that meets the limit is answered 429 at once.
Admit(r) ==
  /\ step[r] = "idle"
  /\ ~Locked
  /\ Goto(r, "verifying")
  /\ UNCHANGED <<attempts, ttl, deaths>>

\* The password is wrong or there is no such account; it is right; or it is
\* right and the account inactive, which neither counts nor clears.
Verify(r) ==
  /\ step[r] = "verifying"
  /\ \E outcome \in {"counting", "clearing", "idle"} : Goto(r, outcome)
  /\ UNCHANGED <<attempts, ttl, deaths>>

\* Variant: the expiry is set when the limit is reached.
CountLate(r) ==
  /\ step[r] = "counting"
  /\ attempts' = attempts + 1
  /\ Goto(r, IF attempts' = MaxAttempts THEN "expiring" ELSE "idle")
  /\ UNCHANGED <<ttl, deaths>>

\* record_login_failure: INCR, and for the first failure EXPIRE.
Count(r) ==
  /\ step[r] = "counting"
  /\ attempts' = attempts + 1
  /\ Goto(r, IF attempts' = 1 THEN "expiring" ELSE "idle")
  /\ UNCHANGED <<ttl, deaths>>

\* EXPIRE does nothing to a key that is gone.
Expire(r) ==
  /\ step[r] = "expiring"
  /\ ttl' = IF attempts > 0 THEN Window ELSE ttl
  /\ Goto(r, "idle")
  /\ UNCHANGED <<attempts, deaths>>

\* Variant: a failure is taken off the counter.
ClearOne(r) ==
  /\ step[r] = "clearing"
  /\ attempts' = attempts - 1
  /\ Goto(r, "idle")
  /\ UNCHANGED <<ttl, deaths>>

\* clear_login_failures: DEL.
Clear(r) ==
  /\ step[r] = "clearing"
  /\ attempts' = 0 /\ ttl' = NoExpiry
  /\ Goto(r, "idle")
  /\ UNCHANGED deaths

Die(r) ==
  /\ step[r] # "idle" /\ deaths < MaxDeaths
  /\ Goto(r, "idle")
  /\ deaths' = deaths + 1
  /\ UNCHANGED <<attempts, ttl>>

\* A second passes; Redis drops the key with its last one.
Second ==
  /\ ttl > 0
  /\ ttl' = IF ttl = 1 THEN NoExpiry ELSE ttl - 1
  /\ attempts' = IF ttl = 1 THEN 0 ELSE attempts
  /\ UNCHANGED <<step, deaths>>

Finish(r) == Verify(r) \/ Count(r) \/ Expire(r) \/ Clear(r)

Next ==
  \/ \E r \in Requests : Admit(r) \/ Finish(r) \/ Die(r)
  \/ Second

\* A login that has been admitted goes on unless it dies, and time passes.
Fairness == WF_vars(Second) /\ \A r \in Requests : WF_vars(Finish(r))

Spec == Init /\ [][Next]_vars /\ Fairness

-----------------------------------------------------------------------------
\* The check and the count are separate commands, so logins sent together
\* exceed the limit, but by no more than the number served at once
\* (login_retry_after, record_login_failure).
OvershootIsBounded ==
  attempts + Cardinality({r \in Requests : step[r] \in {"verifying", "counting"}})
    <= MaxAttempts - 1 + Cardinality(Requests)

\* As long as no login dies, a counter without an expiry has one about to set it
\* (record_login_failure).
CounterWillExpire == deaths = 0 /\ attempts > 0 /\ ttl = NoExpiry => \E r \in Requests : step[r] = "expiring"

\* "Đăng nhập bị tạm giới hạn": whoever has been locked out is let in again,
\* unless a login dies, between INCR and EXPIRE for example.
LockoutEnds == Locked ~> ~Locked \/ deaths > 0
=============================================================================
