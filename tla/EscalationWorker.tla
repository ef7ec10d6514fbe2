-------------------------- MODULE EscalationWorker --------------------------
(***************************************************************************)
(* The SLA escalation worker (process_sla_escalations) beside the handlers *)
(* of TicketWorkflow.  Several runs of it may be under way at once.        *)
(*                                                                         *)
(* A handler locks the ticket FOR UPDATE, takes its instant (changed_at),  *)
(* writes and commits only after several more awaits.  The variables of    *)
(* TicketWorkflow are the tables as that handler leaves them; until it     *)
(* commits everybody else reads what the handler before it committed.      *)
(*                                                                         *)
(* A run takes the time, reads the RUNNING rows, then who is in charge and *)
(* who is administrator, all without a lock; it inserts the events it      *)
(* finds due one by one, with their notifications, rechecks nothing and    *)
(* commits once at the end.  PostgreSQL makes an insert of a key another   *)
(* open transaction has inserted wait for that transaction.  An event does *)
(* not wait for the handler of its ticket, its notifications do: they      *)
(* share-lock the ticket row, which also keeps handlers off until the run  *)
(* commits.                                                                *)
(*                                                                         *)
(* Left out: which accounts are active, the audit rows, the texts, and     *)
(* handlers that are rolled back, which leave nothing.                     *)
(***************************************************************************)
EXTENDS TicketWorkflowTiming

CONSTANTS
  Workers,     \* concurrent runs of the script
  Priority,    \* priorities.priority_level
  MaxKills     \* bound: crashes per worker

ASSUME WorkersAssumption == Priority \in 1..4 /\ MaxKills \in Nat

VARIABLES
  events,      \* sla_events with the recipients of their notifications
  worker,      \* the local state of each run, its uncommitted inserts included
  committed,   \* of each ticket, what the last handler that committed left
  began        \* changed_at of the handler at work on a ticket, Never without one

workerVars == <<events, worker>>
requestVars == <<committed, began>>
allVars == <<vars, workerVars, requestVars>>

\* What a worker reads of a ticket, as the handler at work on it leaves it.
Written(t) == [assignee |-> ticket[t].assignee, response |-> responseSla[t],
               resolution |-> resolutionSla[t]]

\* A row of ticket_slas: <<ticket, 0>> is RESPONSE, <<ticket, c>> RESOLUTION c.
Rows == Tickets \X (0..MaxCycle)
RowOf(row) == IF row[2] = 0 THEN responseSla[row[1]] ELSE resolutionSla[row[1]][row[2]]

\* The same row as a statement without a lock reads it.
SeenRow(row) ==
  IF row[2] = 0 THEN committed[row[1]].response ELSE committed[row[1]].resolution[row[2]]

EventType == {"WARNING", "OVERDUE", "ESCALATED"}
Keys == Rows \X EventType          \* uq_sla_events_runtime_type

\* "unsettled" is not stored, it only serves to state EventsStayTrue: when the
\* run read the row, a handler had taken an earlier time and not yet committed.
Event == [at : TimeOrNever, told : SUBSET Users, unsettled : BOOLEAN]
NoEvent == [at |-> Never, told |-> {}, unsettled |-> FALSE]
Recorded(k) == events[k] # NoEvent

Rank(type) == CASE type = "WARNING" -> 1 [] type = "OVERDUE" -> 2 [] type = "ESCALATED" -> 3

\* new: the events inserted; unsent: the one of them without its notifications.
WorkerState == [pc : {"idle", "reading", "addressing", "writing"}, at : Time,
                due : SUBSET Keys, unsettled : SUBSET Tickets,
                inCharge : [Tickets -> SUBSET Users],
                new : SUBSET Keys, unsent : SUBSET Keys, kills : 0..MaxKills]

IdleWorker(kills) == [pc |-> "idle", at |-> 0, due |-> {}, unsettled |-> {},
                      inCharge |-> [t \in Tickets |-> {}],
                      new |-> {}, unsent |-> {}, kills |-> kills]

Committed == [assignee : Users \union {NoUser}, response : Runtime,
              resolution : [Cycles -> Runtime]]

WorkerTypeOK ==
  /\ events \in [Keys -> Event]
  /\ worker \in [Workers -> WorkerState]
  /\ committed \in [Tickets -> Committed]
  /\ began \in [Tickets -> TimeOrNever]

WorkerInit ==
  /\ Init
  /\ events = [k \in Keys |-> NoEvent]
  /\ worker = [w \in Workers |-> IdleWorker(0)]
  /\ committed = [t \in Tickets |-> Written(t)]
  /\ began = [t \in Tickets |-> Never]

-----------------------------------------------------------------------------
\* Variant: the time is a default argument, evaluated once for all runs.
StartRunAtOldTime(w) ==
  /\ worker[w].pc = "idle"
  /\ worker' = [worker EXCEPT ![w].pc = "reading"]
  /\ UNCHANGED events

StartRun(w) ==
  /\ worker[w].pc = "idle"
  /\ worker' = [worker EXCEPT ![w].pc = "reading", ![w].at = now]
  /\ UNCHANGED events

Reached(r, at) == ReachedThresholds(r, at, WarningPercent, EscalationPercent, Priority)

\* Tickets whose handler took its time before the run, and is still at work.
Unsettled(at) == {t \in Tickets : began[t] # Never /\ began[t] < at}

\* Variant: paused rows are scanned as well, and measured as if they ran.
ReadPausedRuntimes(w) ==
  /\ worker[w].pc = "reading"
  /\ worker' = [worker EXCEPT ![w].pc = "addressing",
       ![w].unsettled = Unsettled(worker[w].at),
       ![w].due = {k \in Keys :
          /\ IsLive(SeenRow(k[1]))
          /\ k[2] \in Reached([SeenRow(k[1]) EXCEPT !.status = "RUNNING"], worker[w].at)}]
  /\ UNCHANGED events

\* list_worker_candidates.  The metrics are computed later, from what is read
\* here and the time taken before, so the events due are known from now on.
ReadRuntimes(w) ==
  /\ worker[w].pc = "reading"
  /\ worker' = [worker EXCEPT ![w].pc = "addressing",
       ![w].unsettled = Unsettled(worker[w].at),
       ![w].due = {k \in Keys : /\ SeenRow(k[1]).status = "RUNNING"
                                /\ k[2] \in Reached(SeenRow(k[1]), worker[w].at)}]
  /\ UNCHANGED events

\* Variant: a ticket without a current assignment is not told apart.
RecipientsOrNobody(t) ==
  {u \in Users : HasRole(u, "ADMIN")} \union {committed[t].assignee}

\* _recipients: the administrators and the processor in charge.
Recipients(t) == {u \in Users : HasRole(u, "ADMIN") \/ committed[t].assignee = u}

\* The assignments and list_active_admins; a row without recipients is skipped.
ReadRecipients(w) ==
  /\ worker[w].pc = "addressing"
  /\ worker' = [worker EXCEPT
       ![w].pc = "writing",
       ![w].inCharge = [t \in Tickets |-> Recipients(t)],
       ![w].due = {k \in @ : Recipients(k[1][1]) # {}}]
  /\ UNCHANGED events

\* ORDER BY due_at, ticket_sla_id, then the thresholds in their order; the ids
\* are taken to follow the tickets and their cycles.  No handler rewrites the
\* due_at of a row it has started, so it may be looked up instead of kept.
RowBefore(a, b) ==
  \/ RowOf(a).dueAt < RowOf(b).dueAt
  \/ /\ RowOf(a).dueAt = RowOf(b).dueAt
     /\ a[1] < b[1] \/ (a[1] = b[1] /\ a[2] <= b[2])

KeyBefore(k, l) == IF k[1] = l[1] THEN Rank(k[2]) <= Rank(l[2]) ELSE RowBefore(k[1], l[1])

\* Variant: without ORDER BY, every run takes the rows in any order.
IsAnyKey(w, k) == worker[w].pc = "writing" /\ worker[w].unsent = {} /\ k \in worker[w].due

IsNextKey(w, k) ==
  /\ worker[w].pc = "writing" /\ worker[w].unsent = {}
  /\ k \in worker[w].due
  /\ \A l \in worker[w].due : KeyBefore(k, l)

\* Another open transaction has inserted the key: the insert waits for it.
IsHeld(w, k) == \E v \in Workers \ {w} : k \in worker[v].new

\* Variant: without the unique key, a run does not wait for another one.
InsertWithoutWaiting(w, k) ==
  /\ IsNextKey(w, k)
  /\ ~Recorded(k)
  /\ worker' = [worker EXCEPT ![w].due = @ \ {k}, ![w].new = @ \union {k}, ![w].unsent = {k}]
  /\ UNCHANGED events

InsertEvent(w, k) ==
  /\ IsNextKey(w, k)
  /\ ~IsHeld(w, k)
  /\ ~Recorded(k)
  /\ worker' = [worker EXCEPT ![w].due = @ \ {k}, ![w].new = @ \union {k}, ![w].unsent = {k}]
  /\ UNCHANGED events

\* Variant: ON CONFLICT DO UPDATE.
OverwriteEvent(w, k) ==
  /\ IsNextKey(w, k)
  /\ ~IsHeld(w, k)
  /\ Recorded(k)
  /\ worker' = [worker EXCEPT ![w].due = @ \ {k}, ![w].new = @ \union {k}, ![w].unsent = {k}]
  /\ UNCHANGED events

\* ON CONFLICT DO NOTHING: no event, and no notification either.
SkipEvent(w, k) ==
  /\ IsNextKey(w, k)
  /\ ~IsHeld(w, k)
  /\ Recorded(k)
  /\ worker' = [worker EXCEPT ![w].due = @ \ {k}]
  /\ UNCHANGED events

\* The notifications share-lock the ticket: they wait for its handler to commit.
NotifyRecipients(w) ==
  /\ worker[w].unsent # {}
  /\ \A k \in worker[w].unsent : began[k[1][1]] = Never
  /\ worker' = [worker EXCEPT ![w].unsent = {}]
  /\ UNCHANGED events

\* The event a run has inserted, as it is stored.
NewEvent(w, k) == [at |-> worker[w].at, told |-> worker[w].inCharge[k[1][1]],
                   unsettled |-> k[1][1] \in worker[w].unsettled]

CommitRun(w) ==
  /\ worker[w].pc = "writing" /\ worker[w].due = {} /\ worker[w].unsent = {}
  /\ events' = [k \in Keys |-> IF k \in worker[w].new THEN NewEvent(w, k) ELSE events[k]]
  /\ worker' = [worker EXCEPT ![w] = IdleWorker(@.kills)]

\* The transaction is rolled back with the process.
KillRun(w) ==
  /\ worker[w].pc # "idle" /\ worker[w].kills < MaxKills
  /\ worker' = [worker EXCEPT ![w] = IdleWorker(@.kills + 1)]
  /\ UNCHANGED events

WorkerStep(w) ==
  \/ StartRun(w)
  \/ ReadRuntimes(w)
  \/ ReadRecipients(w)
  \/ \E k \in Keys : InsertEvent(w, k) \/ SkipEvent(w, k)
  \/ NotifyRecipients(w)
  \/ CommitRun(w)

\* The row of the ticket is share-locked by an uncommitted notification.
ShareLocked(t) ==
  \E w \in Workers : \E k \in worker[w].new \ worker[w].unsent : k[1][1] = t

\* A handler locks the ticket, takes its time and writes; nobody sees it yet.
Handle(t, u) ==
  /\ began[t] = Never /\ ~ShareLocked(t)
  /\ UserStep(t, u)
  /\ began' = [began EXCEPT ![t] = now]
  /\ UNCHANGED committed

CommitHandler(t) ==
  /\ began[t] # Never
  /\ committed' = [committed EXCEPT ![t] = Written(t)]
  /\ began' = [began EXCEPT ![t] = Never]
  /\ UNCHANGED vars

TicketStep ==
  \/ \E t \in Tickets : CommitHandler(t) \/ \E u \in Users : Handle(t, u)
  \/ Tick /\ UNCHANGED requestVars

WorkerNext ==
  \/ TicketStep /\ UNCHANGED workerVars
  \/ \E w \in Workers : (WorkerStep(w) \/ KillRun(w)) /\ UNCHANGED <<vars, requestVars>>

WorkerSpec == WorkerInit /\ [][WorkerNext]_allVars

\* The script is run again and again, time passes and a request ends.  Row locks
\* are granted in the order they are asked for: a run that waits to notify gets
\* its turn although other handlers of the ticket follow.
FairWorkerSpec ==
  /\ WorkerSpec
  /\ WF_allVars(Tick /\ UNCHANGED <<workerVars, requestVars>>)
  /\ \A t \in Tickets : WF_allVars(CommitHandler(t) /\ UNCHANGED workerVars)
  /\ \A w \in Workers :
       /\ WF_allVars(WorkerStep(w) /\ UNCHANGED <<vars, requestVars>>)
       /\ SF_allVars(NotifyRecipients(w) /\ UNCHANGED <<vars, requestVars>>)

-----------------------------------------------------------------------------
(***************************************************************************)
(* Safety                                                                  *)
(***************************************************************************)

\* The clock of the row had stopped when the run took its time: it was completed
\* before, or in a pause that began before and went on.
StoppedBefore(row, at) ==
  \/ RowOf(row).status = "COMPLETED" /\ RowOf(row).completedAt < at
  \/ /\ row[2] # 0
     /\ \E i \in DOMAIN pauses[row[1]][row[2]] :
          LET p == pauses[row[1]][row[2]][i]
          IN  p.pausedAt < at /\ (IsOpen(p) \/ at <= p.resumedAt)

\* What an event reports is true, and stays so: although the worker acts on
\* rows read earlier, with a time taken before that, the row has reached the
\* threshold for good, and an OVERDUE event is never followed by the verdict MET.
\* One case is excepted, and no other: when the rows were read, a handler that
\* had stopped the clock before the run's time was not yet committed.
EventsStayTrue ==
  \A k \in Keys : Recorded(k) =>
    \/ /\ \/ k[2] \in Reached(RowOf(k[1]), now)
          \/ RowOf(k[1]).status = "NOT_APPLICABLE"
       /\ k[2] = "OVERDUE" => RowOf(k[1]).result # "MET"
    \/ events[k].unsettled /\ StoppedBefore(k[1], events[k].at)

\* No cycle completed in time is on record as overdue.
NoOverdueOnMet ==
  \A row \in Rows : Recorded(<<row, "OVERDUE">>) => RowOf(row).result # "MET"

\* Whatever runs overlap or die, a row is never escalated without having been
\* reported overdue, nor overdue without a warning.
EventsNested ==
  \A row \in Rows :
    /\ Recorded(<<row, "ESCALATED">>) => Recorded(<<row, "OVERDUE">>)
    /\ Recorded(<<row, "OVERDUE">>) => Recorded(<<row, "WARNING">>)

\* A threshold is reported once: no later run changes the event, its time or
\* the users it was sent to.
EventsAreFinal ==
  [][\A k \in Keys : Recorded(k) => events'[k] = events[k]]_allVars

\* Two runs never insert the same event, and never one that is on record.
InsertsAreExclusive ==
  \A w \in Workers : \A k \in worker[w].new :
    /\ ~Recorded(k)
    /\ \A v \in Workers \ {w} : k \notin worker[v].new

\* Runs that want the same events never wait for one another in a circle: they
\* take them in one order, whatever rows each of them has read.
NoCircularWait ==
  \A v, w \in Workers : \A k \in worker[v].new, l \in worker[w].new :
    v # w => ~(IsNextKey(v, l) /\ IsNextKey(w, k))

\* The notifications of an event go to the processor in charge when it is
\* recorded ("target current assignee").
TellsProcessorInCharge ==
  [][\A k \in Keys : ~Recorded(k) /\ Recorded(k)' =>
       ticket[k[1][1]].assignee \in events'[k].told \union {NoUser}]_allVars

(***************************************************************************)
(* Liveness                                                                *)
(***************************************************************************)

\* A row that is overdue while RUNNING is reported, unless it is paused,
\* completed or voided first, whatever runs die (given an administrator).
OverdueIsReported ==
  \A row \in Rows :
    (RowOf(row).status = "RUNNING" /\ "OVERDUE" \in Reached(RowOf(row), now))
      ~> (Recorded(<<row, "OVERDUE">>) \/ RowOf(row).status # "RUNNING")
=============================================================================
