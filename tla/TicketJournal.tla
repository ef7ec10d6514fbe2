---------------------------- MODULE TicketJournal ---------------------------
(***************************************************************************)
(* What the handlers of one ticket leave for people to read: its status    *)
(* history, the notifications about it and its rating.                     *)
(*                                                                         *)
(* A request opens its transaction when it loads its user; only then does  *)
(* it wait for the lock on the ticket.  From the lock to the commit it is  *)
(* one step.  History rows carry the time the transaction was opened       *)
(* (changed_at defaults to now()), whatever the wait.                      *)
(*                                                                         *)
(* SLA rows, resolutions and the conditions on them are in TicketWorkflow; *)
(* a status change is possible here whenever its status and actor allow.   *)
(***************************************************************************)
EXTENDS Integers, Sequences

CONSTANTS
  Requester, Processors, Admin,   \* the people of the ticket
  System,                         \* the auto-close job
  Nobody,
  Requests,    \* requests under way at the same time
  MaxTime,     \* bound on the clock
  MaxChanges   \* bound on the status history

JournalAssumption ==
  /\ MaxTime \in Nat /\ MaxChanges \in Nat \ {0}
  /\ Nobody \notin Processors \union {Requester, Admin, System}
  /\ System \notin Processors \union {Requester, Admin}
  /\ Admin # Requester

VARIABLES
  status, processor,  \* of the ticket
  now,
  request,
  history,   \* ticket_status_history in the order of history_id
  inbox,     \* notifications, each about a row of history
  rating     \* the length of history when the ticket was rated, or 0

vars == <<status, processor, now, request, history, inbox, rating>>

People == Processors \union {Requester, Admin}
Statuses == {"NEW", "ASSIGNED", "IN_PROGRESS", "PENDING_INFO", "RESOLVED", "CLOSED",
             "REOPENED", "REJECTED"}
Ratable == {"RESOLVED", "CLOSED"}

\* WF-01 to WF-08 and the auto-close job, with the policy each is checked by.
Moves ==
  {[from |-> "ASSIGNED",     to |-> "IN_PROGRESS",  by |-> "processor or admin"],
   [from |-> "IN_PROGRESS",  to |-> "PENDING_INFO", by |-> "processor or admin"],
   [from |-> "PENDING_INFO", to |-> "IN_PROGRESS",  by |-> "owner"],
   [from |-> "IN_PROGRESS",  to |-> "RESOLVED",     by |-> "processor or admin"],
   [from |-> "RESOLVED",     to |-> "CLOSED",       by |-> "close"],
   [from |-> "RESOLVED",     to |-> "REOPENED",     by |-> "owner"],
   [from |-> "REOPENED",     to |-> "IN_PROGRESS",  by |-> "processor or admin"],
   [from |-> "NEW",          to |-> "REJECTED",     by |-> "admin"]}

Idle == [step |-> "idle"]
HistoryRow == [from : Statuses \union {"NONE"}, to : Statuses, by : People \union {System},
               at : 0..MaxTime]
Notice == [to : People, about : 1..MaxChanges, type : {"status", "assigned", "reassigned"}]

TypeOK ==
  /\ status \in Statuses
  /\ processor \in Processors \union {Nobody}
  /\ now \in 0..MaxTime
  /\ request \in [Requests -> {Idle}
       \union [step : {"waiting"}, actor : People \union {System}, begun : 0..MaxTime]
       \union [step : {"assigning"}, actor : {Admin}, begun : 0..MaxTime, assignee : Processors]]
  /\ history \in Seq(HistoryRow)
  /\ inbox \in SUBSET Notice
  /\ rating \in 0..MaxChanges

\* The ticket has just been created by its requester.
Init ==
  /\ status = "NEW" /\ processor = Nobody
  /\ now = 0
  /\ request = [r \in Requests |-> Idle]
  /\ history = <<[from |-> "NONE", to |-> "NEW", by |-> Requester, at |-> 0]>>
  /\ inbox = {} /\ rating = 0

Allowed(policy, actor) ==
  \/ policy = "processor or admin" /\ actor \in {processor, Admin}
  \/ policy = "owner" /\ actor = Requester
  \/ policy = "close" /\ actor \in {Requester, Admin, System}
  \/ policy = "admin" /\ actor = Admin

\* Variant: the job's rows carry the time the job took before it listed tickets.
RecordJobTime(from, to, r) ==
  history' = Append(history,
    [from |-> from, to |-> to, by |-> request[r].actor,
     at |-> IF request[r].actor = System THEN 0 ELSE request[r].begun])

\* create_status_history_record
Record(from, to, r) ==
  history' = Append(history,
    [from |-> from, to |-> to, by |-> request[r].actor, at |-> request[r].begun])

Notices(people, type, row) == {[to |-> u, about |-> row, type |-> type] : u \in people}

\* notify_status_change
StatusRecipients(actor, to) ==
  ({Requester} \union IF to # "ASSIGNED" THEN {processor} \ {Nobody} ELSE {}) \ {actor}

Done(r) == request' = [request EXCEPT ![r] = Idle]

-----------------------------------------------------------------------------
\* get_auth_context, or the job's first statement: the transaction begins.
Begin(r, actor) ==
  /\ request[r] = Idle
  /\ request' = [request EXCEPT ![r] = [step |-> "waiting", actor |-> actor, begun |-> now]]
  /\ UNCHANGED <<status, processor, now, history, inbox, rating>>

\* Any refusal: 403, 404, 409, 422.
Refuse(r) ==
  /\ request[r] # Idle
  /\ Done(r)
  /\ UNCHANGED <<status, processor, now, history, inbox, rating>>

\* Variant: the state of the ticket is not compared with the source.
MoveUnchecked(r, m) ==
  /\ request[r].step = "waiting" /\ Len(history) < MaxChanges
  /\ status \notin {"CLOSED", "REJECTED"} /\ Allowed(m.by, request[r].actor)
  /\ status' = m.to
  /\ Record(m.from, m.to, r)
  /\ inbox' = inbox \union
       Notices(StatusRecipients(request[r].actor, m.to), "status", Len(history) + 1)
  /\ Done(r)
  /\ UNCHANGED <<processor, now, rating>>

\* _transition, from the lock to the commit.
Move(r, m) ==
  /\ request[r].step = "waiting" /\ Len(history) < MaxChanges
  /\ status = m.from /\ Allowed(m.by, request[r].actor)
  /\ status' = m.to
  /\ Record(m.from, m.to, r)
  /\ inbox' = inbox \union
       Notices(StatusRecipients(request[r].actor, m.to), "status", Len(history) + 1)
  /\ Done(r)
  /\ UNCHANGED <<processor, now, rating>>

\* _assert_valid_assignee, before the ticket is locked; accounts stay as they are.
CheckAssignee(r, u) ==
  /\ request[r].step = "waiting" /\ request[r].actor = Admin
  /\ request' = [request EXCEPT ![r] =
       [step |-> "assigning", actor |-> Admin, begun |-> @.begun, assignee |-> u]]
  /\ UNCHANGED <<status, processor, now, history, inbox, rating>>

\* The first assignment, from the lock to the commit.
Assign(r) ==
  /\ request[r].step = "assigning" /\ Len(history) < MaxChanges
  /\ processor = Nobody /\ status = "NEW"
  /\ processor' = request[r].assignee
  /\ status' = "ASSIGNED"
  /\ Record("NEW", "ASSIGNED", r)
  /\ inbox' = inbox \union Notices({processor'}, "assigned", Len(history) + 1)
       \union Notices(StatusRecipients(Admin, "ASSIGNED"), "status", Len(history) + 1)
  /\ Done(r)
  /\ UNCHANGED <<now, rating>>

\* Variant: the processor who loses the ticket is told.
ReassignTellingTheFormer(r) ==
  /\ request[r].step = "assigning"
  /\ processor \notin {Nobody, request[r].assignee} /\ status \notin {"CLOSED", "REJECTED"}
  /\ processor' = request[r].assignee
  /\ inbox' = inbox \union Notices({processor}, "reassigned", Len(history))
  /\ Done(r)
  /\ UNCHANGED <<status, now, history, rating>>

\* A later one leaves the status and the history as they are.
Reassign(r) ==
  /\ request[r].step = "assigning"
  /\ processor \notin {Nobody, request[r].assignee} /\ status \notin {"CLOSED", "REJECTED"}
  /\ processor' = request[r].assignee
  /\ inbox' = inbox \union Notices({processor'}, "reassigned", Len(history))
  /\ Done(r)
  /\ UNCHANGED <<status, now, history, rating>>

\* Variant: a ticket may be rated once it has been resolved, whatever came after.
RateResolvedOnce(r) ==
  /\ request[r].step = "waiting" /\ request[r].actor = Requester
  /\ \E i \in DOMAIN history : history[i].to \in Ratable
  /\ rating = 0
  /\ rating' = Len(history)
  /\ Done(r)
  /\ UNCHANGED <<status, processor, now, history, inbox>>

\* create_rating, from the lock to the commit.
Rate(r) ==
  /\ request[r].step = "waiting" /\ request[r].actor = Requester
  /\ status \in Ratable
  /\ rating = 0
  /\ rating' = Len(history)
  /\ Done(r)
  /\ UNCHANGED <<status, processor, now, history, inbox>>

Tick ==
  /\ now < MaxTime
  /\ now' = now + 1
  /\ UNCHANGED <<status, processor, request, history, inbox, rating>>

Next ==
  \/ Tick
  \/ \E r \in Requests :
       \/ \E actor \in People \union {System} : Begin(r, actor)
       \/ \E m \in Moves : Move(r, m)
       \/ \E u \in Processors : CheckAssignee(r, u)
       \/ Assign(r) \/ Reassign(r) \/ Rate(r) \/ Refuse(r)

Spec == Init /\ [][Next]_vars

-----------------------------------------------------------------------------
\* However requests interleave, the history is one path from NEW to the status
\* the ticket has (create_status_history_record).
HistoryIsAPath ==
  /\ history[Len(history)].to = status
  /\ \A i \in 2..Len(history) : history[i].from = history[i - 1].to

\* The requester is told of every change somebody else made, and the processor
\* in charge that the ticket is theirs (notification_service.py).
PartiesAreTold ==
  /\ \A i \in 2..Len(history) :
       history[i].by # Requester => [to |-> Requester, about |-> i, type |-> "status"] \in inbox
  /\ processor # Nobody =>
       \E n \in inbox : n.to = processor /\ n.type \in {"assigned", "reassigned"}

\* A rating is about a result: it was given while the ticket was resolved or
\* closed, even if it was reopened later (create_rating).
RatingIsAboutAResult == rating # 0 => history[rating].to \in Ratable

\* One request after another, the timeline (test_status_history_is_chronological), ordered by changed_at,
\* shows the changes in the order in which they were made.
TimelineIsChronological == \A i \in 2..Len(history) : history[i - 1].at <= history[i].at
=============================================================================
