-------------------------- MODULE NotificationInbox -------------------------
(***************************************************************************)
(* The notifications of one user and their read flags                      *)
(* (notification_service.py, notification_repository.py).                  *)
(*                                                                         *)
(* Marking one notification locks its row, looks at the flag and commits.  *)
(* Marking all is one UPDATE: it starts from the rows it can see unread,   *)
(* takes them one by one, waits for a row that another transaction holds   *)
(* and looks at its flag again.  Notifications arrive all the time.        *)
(*                                                                         *)
(* Left out: the types a user may restrict the UPDATE to, and the list,    *)
(* which changes nothing.                                                  *)
(***************************************************************************)
EXTENDS Integers, FiniteSetsExt

CONSTANTS
  Notices,    \* notification_id; bounds how many arrive
  Requests,   \* requests of this user under way at the same time
  MaxTime     \* bound on the clock

InboxAssumption == Notices \subseteq Nat /\ IsFiniteSet(Notices) /\ MaxTime \in Nat

VARIABLES
  arrived,   \* the notifications on record
  read_at,   \* of each, or Unread
  now,
  request,
  updated    \* the answers so far: how many notifications were marked

vars == <<arrived, read_at, now, request, updated>>

Unread == -1
Idle == [step |-> "idle", at |-> 0, todo |-> {}, mine |-> {}]

TypeOK ==
  /\ arrived \in SUBSET Notices
  /\ read_at \in [Notices -> 0..MaxTime \union {Unread}]
  /\ \A n \in Notices \ arrived : read_at[n] = Unread
  /\ now \in 0..MaxTime
  /\ request \in [Requests -> [step : {"idle", "one", "all"}, at : 0..MaxTime,
                               todo : SUBSET Notices, mine : SUBSET Notices]]
  /\ updated \in Nat

Init ==
  /\ arrived = {} /\ read_at = [n \in Notices |-> Unread]
  /\ now = 0 /\ updated = 0
  /\ request = [r \in Requests |-> Idle]

IsUnread(n) == read_at[n] = Unread
IsLocked(n) == \E r \in Requests : n \in request[r].mine

-----------------------------------------------------------------------------
\* create_notification_record, in the transaction of a handler.
Arrive(n) ==
  /\ n \notin arrived
  /\ arrived' = arrived \union {n}
  /\ UNCHANGED <<read_at, now, request, updated>>

\* mark_notification_read up to its decision, with the row locked; one that is
\* read already is answered as it is.
Look(r, n) ==
  /\ request[r] = Idle /\ n \in arrived
  /\ ~IsLocked(n)
  /\ IsUnread(n)
  /\ request' = [request EXCEPT ![r] = [step |-> "one", at |-> now, todo |-> {}, mine |-> {n}]]
  /\ UNCHANGED <<arrived, read_at, now, updated>>

\* mark_all_notifications_read: the time is taken, the statement starts.
StartAll(r) ==
  /\ request[r] = Idle
  /\ request' = [request EXCEPT ![r] =
       [step |-> "all", at |-> now, todo |-> {n \in arrived : IsUnread(n)}, mine |-> {}]]
  /\ UNCHANGED <<arrived, read_at, now, updated>>

\* Variant: the condition is not looked at again after the wait.
TakeUnchecked(r, n) ==
  /\ request[r].step = "all" /\ n \in request[r].todo
  /\ \A m \in request[r].todo : n <= m
  /\ ~IsLocked(n)
  /\ request' = [request EXCEPT ![r].todo = @ \ {n}, ![r].mine = @ \union {n}]
  /\ UNCHANGED <<arrived, read_at, now, updated>>

\* The next row; is_read is looked at again once the row is free.
Take(r, n) ==
  /\ request[r].step = "all" /\ n \in request[r].todo
  /\ \A m \in request[r].todo : n <= m
  /\ ~IsLocked(n)
  /\ request' = [request EXCEPT ![r].todo = @ \ {n},
                                ![r].mine = IF IsUnread(n) THEN @ \union {n} ELSE @]
  /\ UNCHANGED <<arrived, read_at, now, updated>>

\* Variant: what was read already is stamped again.
CommitRestamping(r) ==
  /\ request[r].step # "idle" /\ request[r].todo = {}
  /\ read_at' = [n \in Notices |->
       IF n \in request[r].mine \/ (request[r].step = "all" /\ ~IsUnread(n))
       THEN request[r].at ELSE read_at[n]]
  /\ updated' = updated + Cardinality(request[r].mine)
  /\ request' = [request EXCEPT ![r] = Idle]
  /\ UNCHANGED <<arrived, now>>

\* The flags, read_at and the commit.
Commit(r) ==
  /\ request[r].step # "idle" /\ request[r].todo = {}
  /\ read_at' = [n \in Notices |-> IF n \in request[r].mine THEN request[r].at ELSE read_at[n]]
  /\ updated' = updated + Cardinality(request[r].mine)
  /\ request' = [request EXCEPT ![r] = Idle]
  /\ UNCHANGED <<arrived, now>>

\* The connection is lost: rolled back.
Fail(r) ==
  /\ request[r] # Idle
  /\ request' = [request EXCEPT ![r] = Idle]
  /\ UNCHANGED <<arrived, read_at, now, updated>>

Tick ==
  /\ now < MaxTime
  /\ now' = now + 1
  /\ UNCHANGED <<arrived, read_at, request, updated>>

Next ==
  \/ Tick
  \/ \E n \in Notices : Arrive(n)
  \/ \E r \in Requests :
       \/ \E n \in Notices : Look(r, n) \/ Take(r, n)
       \/ StartAll(r) \/ Commit(r) \/ Fail(r)

Spec == Init /\ [][Next]_vars

-----------------------------------------------------------------------------
\* A notification is read once: the time it was first read is kept, whoever
\* marks it again (mark_notification_read, mark_all_read).
FirstReadIsKept ==
  [][\A n \in Notices : ~IsUnread(n) => read_at'[n] = read_at[n]]_vars

\* However requests overlap, each notification is counted in one answer
\* (updated_count): the answers add up to what is read.
EachIsCountedOnce == updated = Cardinality({n \in Notices : ~IsUnread(n)})
=============================================================================
