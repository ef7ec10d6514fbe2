# Formal model of the helpdesk / SLA service

TLA+ modules, TLC configurations and TLAPS proofs for the service under
`src/Code/` (FastAPI, async SQLAlchemy, PostgreSQL at READ COMMITTED, Redis).
Paths below are relative to `src/Code/app/` unless they start with `src/` or
`scripts/` (`src/Code/scripts/`).

## 1. The system and its parts

| Component | State it keeps | Operations | Hard behaviour | What makes it correct |
|---|---|---|---|---|
| Ticket workflow, `services/workflow_service.py`, `repositories/workflow_repository.py` | `tickets`, `ticket_resolutions`, `sla_pause_periods` | WF-01 start, WF-02 request info, WF-03 provide info, WF-04 resolve, WF-05 close, WF-06 reopen, WF-07 resume, WF-08 reject | long legal sequences over several cycles; SLA rows that must follow the status | one clock exactly while in work; cycles numbered without gaps; terminal is final |
| Auto-close job, `auto_close_expired_tickets`, `scripts/auto_close_resolved.py` | a time and a list, in the process | list expired tickets, close each in a transaction of its own | unlocked list, overlapping runs, a crash between closings | closes only expired tickets, each at most once, and all of them in the end |
| SLA rules and runtimes, `core/sla.py`, `services/sla_service.py` | `ticket_slas` | start, pause, resume, complete, void; metrics, thresholds, results | truncation to seconds, boundaries, policies that lapse | honest verdict; metrics agree with it; thresholds and verdicts are never taken back |
| Creation and assignment, `services/ticket_service.py`, `services/assignment_service.py` | `tickets`, `ticket_assignments` | create, assign, reassign | reassignment in any open state | a processor in charge exactly while past triage |
| Escalation worker, `services/escalation_service.py`, `scripts/process_sla_escalations.py` | `sla_events`, `notifications` | read running rows, insert events with notifications, one commit | unlocked snapshot, overlapping runs, death, no recipients | each threshold once and in order; no event the verdict contradicts; no circular wait |
| Comments, `services/comment_service.py` | `comments`, the first response of the ticket, audit rows | create, edit | the lock on the ticket; an edit beside another, or beside the end of the ticket | audit leads to the content; list by time is list by number; the other side is told |
| Status history and detail, `services/ticket_detail_service.py`, `repositories/ticket_repository.py` | `ticket_status_history` | append (by the handlers), timeline, scope and permissions | a handler that waited is dated before the one it waited for; scopes written four times | the history is one path to the status; scopes agree |
| Notifications, `services/notification_service.py` | `notifications` | notify, mark one or all as read | one UPDATE for all beside one for each | told in the same transaction; first reading kept, counted once |
| Ratings, `services/rating_service.py` | `ratings` | rate a finished ticket | rating beside a reopening | one rating, about a result |
| Sessions, `services/auth_service.py`, `services/auth_session_store.py` | Redis: sessions, families, revoked access tokens | login, refresh (rotation), replay, logout | commands interleave, requests die | a family is handed from pair to pair, never to two |
| Login throttle, the same files | Redis: a counter with an expiry | count, expire, clear | counter and expiry set by two commands | bounded overshoot; lockouts end |
| Users and roles, `services/user_service.py`, `services/role_service.py` | `users`, `user_roles`, audit rows | create, switch on and off, grant, revoke | check-then-act on the last administrator; partial UPDATEs | an administrator remains; audit tells what was written |
| Attachments, `services/attachment_service.py` | rows in PostgreSQL, files and a directory on disk | upload, delete (download reads) | two stores, failure or death between any two steps | no row without its file, no file left over |
| Catalogues, `services/catalog_service.py` | categories, priorities | create, update | look-up before insert beside another administrator | names stay unambiguous; the conflict told is there |
| Dashboard, `services/dashboard_service.py` | none | an overview of seven statements | tickets move between the statements | what the parts say of one another still holds |
| KPI evaluation, `scripts/evaluate_kpis.py` | none | counts, rates, targets | rounding before comparing | rounding never turns a verdict |
| Demo data, `scripts/seed_demo_data.py` | tickets written past the handlers | add scenarios, one commit | runs that die or overlap; legal calls afterwards | whole or not at all, in a state the handlers can go on from |
| Audit log | audit rows | written by the others | | agrees with what it tells of, where modelled |
| HTTP layer, schemas, configuration, errors, web client, migrations, reference data and test scripts | none of their own | routing, validation, formatting, DDL | | not modelled (section 6) |

Parts interact through the stores only.  A workflow handler locks the ticket row
(`SELECT ... FOR UPDATE` in `get_ticket_for_workflow`), reads SLA rows,
assignments and resolutions under that lock, and commits once; any exception
rolls back.  The scripts are separate processes on the same tables.  Sessions
and the throttle live in Redis, where a command or a MULTI is atomic and nothing
else is; attachments live partly on disk, where each system call is a step.

## 2. The modules

| Module | What it models |
|---|---|
| `SLARules` | `core/sla.py` and the row operations of `sla_service.py`, as operators without state |
| `TicketWorkflow` | the handlers that create, assign, move and answer tickets, the SLA rows they maintain, the auto-close job and the clock |
| `TicketWorkflowTiming` | the properties about durations: pause ledger, verdict, thresholds |
| `TicketLifecycle` | abstract: stages, numbered results, one clock per ticket |
| `TicketWorkflowRefinement` | the mapping from the rows of `TicketWorkflow` to the lifecycle |
| `EscalationWorker` | the escalation script, in any number of overlapping runs, beside handlers of `TicketWorkflow` that commit later than they take their time |
| `TicketJournal` | what the handlers of one ticket leave for people: history, notifications, ratings; a handler that waits for the row lock |
| `Discussion` | the comments of COM-02, WF-02 and WF-03, edits and their audit, beside the ticket's transitions and a change of processor |
| `TicketAccess` | scopes and permissions of list, detail, comments and attachments while roles come and go |
| `Catalogue` | categories and priorities under concurrent administrators |
| `AttachmentStore` | upload and deletion, one action per system call or statement |
| `SessionFamilies` | abstract: families of token pairs, handed on and closed |
| `AuthSessions` | login, refresh, replay and logout, one action per command, with the mapping to `SessionFamilies` |
| `LoginThrottle` | the counter of failed logins and its expiry |
| `AccountAdmin` | accounts and roles, in two steps (read and check, write) |
| `NotificationInbox` | the read flags of one user |
| `Dashboard` | the seven statements of the overview, beside the handlers of `TicketWorkflow` |
| `DemoSeed` | the seed script, beside the handlers of `TicketWorkflow` |
| `KpiEvaluation` | the rates of the KPI script over every list of simulated tickets |
| `Reports` | dashboard, demo data and KPI evaluation side by side |
| `MCTicketWorkflow`, `MCEscalationWorker` | small teams and policy tables for TLC |
| `Accounts` | sessions, throttle, administration and inbox side by side |
| `TicketSides` | attachments, journal, discussion, access and catalogue side by side |
| `MCTicketSides` | a small instance of `TicketSides` for TLC |
| `MCReports` | a small instance of `Reports` for TLC |
| `TicketWorkflow_proofs`, `TicketCycles_proofs`, `TicketWorkflowTiming_proofs`, `TicketWorkflowRefinement_proofs` | theorems about the tickets: types and ownership, cycles and their SLA rows, durations, the lifecycle |
| `EscalationWorker_proofs`, `TicketSides_proofs`, `Accounts_proofs`, `Reports_proofs` | theorems about the other components |

### Tickets, SLA and the scripts

`ticket` is the `tickets` table with the current assignment folded in;
`responseSla` and `resolutionSla` are the rows of `ticket_slas` (status `"NONE"`
means there is no row); `pauses` the rows of `sla_pause_periods`; `resolvedAt`
the rows of `ticket_resolutions`; `job` the local variables of each run of the
auto-close script; `now` the clock.  NULL timestamps are `Never`, NULL users
`NoUser`.  A tick is a fraction of a second (`TicksPerSecond`), because the code
subtracts microsecond datetimes and truncates the difference to seconds.

One action is one handler with everything it writes to these tables, from the
lock to the commit.  That is sound because the row lock is held that long and
everything the handler decides on belongs to the locked ticket (policies and
roles are constant in this module).  A handler that raises is a disabled action.
The auto-close job is not atomic: `StartJob` takes the time, `ListExpired` reads
the list, `CloseNext` and `SkipNext` are its per-ticket transactions, `CrashJob`
may happen between any two of them.

`EscalationWorker` extends `TicketWorkflowTiming` (for the thresholds and the
theorems about them) and adds `events`, the rows of `sla_events` with the recipients of
their notifications, and `worker`, the local variables of each run.  A handler is two
steps there: `Handle` locks the ticket, takes the time (`changed_at`) and writes,
`CommitHandler` makes it visible, several awaits later (`workflow_service.py:180`
and `:226`, `comment_service.py:132` and `:194`).  The tables of `TicketWorkflow` are
what the handler at work has written, `committed` is what everybody else reads,
and `began` is the time the handler has taken.  A run of the script is one
transaction in several steps: `StartRun` takes the time, `ReadRuntimes` reads the
running rows, `ReadRecipients` the assignments and administrators, `InsertEvent`
and `SkipEvent` are the inserts with ON CONFLICT DO NOTHING, `CommitRun` makes
them visible, `KillRun` undoes them.  PostgreSQL's locks are part of the model:
an insert of an event waits for another run that has inserted the same key
(`IsHeld`) but not for the handler of its ticket; its notifications do
(`NotifyRecipients`), because their foreign key share-locks the ticket row, and
from then on they keep handlers from locking it `FOR UPDATE` (`ShareLocked`).
Having waited, the run checks nothing again.  The auto-close job takes no part there.

"The largest cycle", "the current SLA" and "the effective policy" are stated as
relations rather than chosen, so that the proofs reason about them directly.

### Beside the ticket

In `TicketJournal` a handler takes the time when its transaction starts (the
database does, for the column `changed_at` of the history; the variable of that name
in `_transition`, which dates SLA rows and results, is taken after the lock), may wait
for the lock, and then writes status, history row and notifications at once.  `Discussion` has the three
writers of comments.  COM-02 takes `created_at` after the lock and writes an audit
row.  WF-02 and WF-03 insert the question and its answer as public comments; they
leave `created_at` to the database, which takes the begin of the transaction
(`models/comment.py:64`), write no COMMENT_CREATED row, and the other side learns of the
comment by the notification of the status change.  An edit reads the comment
under its own lock and the ticket without one.  `TicketAccess` has one action for
each change of roles, charge and status; who may list, open, comment or attach
are operators over that state, as the four services write them.  `AttachmentStore`
has an action for each of: write the temporary file, make the directory, rename,
insert and commit, reload; delete the row, look at the file, unlink, remove the
directory; each can fail the way the code expects, a request can die between any
two of them, and the answer to a commit can be lost (`lost`).

### Around accounts

Every Redis command or MULTI of `AuthSessions` and `LoginThrottle` is one action,
and so is every database statement; `request` (or `step`) holds the local
variables of a request.  EXEC fails when the watched session was written since
WATCH: because a session is only ever written away from `active`, that is the
test `~IsActive` of `Conflict`.  `AccountAdmin` and `NotificationInbox` split a
request where another may come in between: after what was read and checked, and
before the row is written.  The ORM sends only the columns that changed, which
is why a write names columns and not a row.

### Reports

`Dashboard` reads the tables of `TicketWorkflow` in seven steps with handlers in
between.  `DemoSeed` writes whole tickets with their SLA rows and results in one
commit, and the handlers of `TicketWorkflow` go on from there.  `KpiEvaluation`
appends simulated tickets of every kind to a dataset and computes the rates
after each.

### Parts that share no variable

`Accounts` and `TicketSides` put several modules that share no variable in
one state space.  A behaviour chooses one part in its initial state, and only
that one moves.  Nothing is lost: a step of one part leaves the variables of the
others alone, so a property of one part holds in every interleaving exactly if
it holds while the others stand still.  `Reports` does the same with three
modules of which two use the tables of `TicketWorkflow`.  These two are kept
apart rather than independent: the dashboard is not read while demo data is
seeded.
Where a property holds only if requests come one after the other, the part is
called "one by one" and the next action waits until the last request has ended:
the last administrator (`AdministrationIsOrderly`; the run
`accounts_last_two` shows that it does not hold otherwise) and the order of the
timeline (`JournalMatchesTicket`).

`MCReports` narrows the parts with a state constraint: an overview is read at one
instant over two tickets filed in order, of which the first may be reopened; and
beside two runs of the seed script only the demo ticket in work is worked on
while the reopened one stays as seeded, beside one run either of them.  The
theorems have no such limits.  The run's one viewer is an administrator as well as a
processor, and the clock stands still there, so the narrower scope of a processor
and the verdict BREACHED are left to the theorem `OverviewsFit`.

`MCTicketWorkflow` narrows the run of the job to one ticket as it comes, or two
without replies of which the second is resolved once and left to the job;
`MCEscalationWorker` lets either the ticket be paused or a run die.  Both cut off
steps of users and deaths only, never a step that fairness asks for.

`MCTicketSides` leaves out what is the same under another name: the discussion
starts with the first of two processors and its first content is the first of
two, one by one the ticket is given to one of them, and the clock of the journal
moves in one of its two parts.

Operators preceded by "Variant" are deliberate mistakes: no action uses them, and
replacing the definition they stand beside by the variant makes TLC refute the
property.  They show that the property can fail.

## 3. The runs

| Run | Instance | Shows |
|---|---|---|
| `workflow` | 1 ticket, requester, processor and administrator (who is also a processor), 3 cycles, 1 pause per cycle, 5 instants, policies that overlap and then lapse before a new one starts | `SlaFollowsTicket`: exactly one clock while in work, paused while waiting, and WF-03, WF-04 never meet SLA_RUNTIME_CONFLICT; `CyclesAddUp`: no cycle number reused or skipped; `ResponseClock`: stopped once, at the first public reply; `AssignedPastTriage`; `HistoryIsKept`; `VerdictsOnlyWorsen`: no later cycle clears a breach; the handlers implement `TicketLifecycle` |
| `timing` | 1 ticket, 1 cycle, 2 pauses, 2 ticks per second, 9 instants | the pause ledger, honest verdicts, metrics that agree with them, thresholds that only grow |
| `autoclose` | 2 tickets, 2 jobs, 1 crash, 2 cycles, 3 instants | nothing is closed twice or before any window ran out; closed is final; every expired ticket is closed in the end although a job crashes between two commits |
| `autoclose_stale_list` | 1 ticket, 1 job, 2 cycles | finding 1 |
| `worker_stale_read` | 1 ticket, 1 pause, one run after another, 1 death, 4 instants | an event from stale rows is never contradicted later, but in the one case of finding 4; an overdue row is reported in the end |
| `worker_overdue_met` | 1 ticket, 1 run, 3 instants | finding 4 |
| `worker_overlap` | 1 ticket, no pause, 2 runs that may each die once, 3 instants | each threshold is recorded once and for good, in order; no circular wait (deadlock checking is on) |
| `worker_stale_recipient` | 1 ticket, 2 processors, 1 run | finding 2 |
| `accounts` | sessions: 1 family, 3 pairs, 2 requests; throttle: 3 requests, limit 3, window 2, 1 death; administration: 2 accounts, 2 roles, 2 requests; inbox: 3 notices, 2 requests, 3 instants | the store implements `SessionFamilies`; the limit is exceeded by the requests under way at most, and lockouts end; an administrator remains one by one, and audit rows tell what was written; no update undoes one it has not seen |
| `accounts_last_two` | 2 administrators, 2 requests | finding 3 |
| `ticket_sides` | files: 2 keys, 3 requests, 1 death, 1 lost answer; journal: 2 processors, 5 history rows, 2 requests, and one by one 2 instants; discussion: 2 instants, 2 comments, 1 edit, 2 requests; access: 3 people; catalogue: 2 ids, 2 codes | rows have files and nothing is left over; the history is one path, parties are told; comments, those of the workflow among them, and their audit agree; list, detail, comments and attachments agree on who may do what; the catalogue stays unambiguous |
| `reports` | dashboard: 2 tickets, 2 cycles; demo: 4 scenarios (in work, closed, rejected, reopened), 2 runs, 1 death, 5 instants; KPIs: 5 tickets of 9 kinds | later statements include earlier ones and no number exceeds the tickets there are; demo data comes whole, the handlers go on from it without a contradiction, work on it is kept; rates are rates and rounding turns no missed target into a met one |

Why the bounds are enough.  Tickets share nothing but the job's list, so one
ticket shows everything about a ticket and two show the list.  Three cycles let
a cycle follow one that followed one; two pauses let a rounding loss add up.
A handler that has not committed is one per ticket, because of the row lock.
One ticket has two SLA rows, so up to six events in one run of the script,
enough for two runs to meet in any order.  Two ticks per second are the coarsest
clock on which truncation loses anything.  The window (72 hours) is one tick:
only before, at and after its end matter.  Three pairs are a
presented one, its successor and a rival successor; families share no key, so
one shows all of one, and the proof covers any number.  Three requests at the
limit of the throttle are one more than needed to overshoot it.  Two attachment
keys and three requests let an upload and two deletions meet in the directory.
Two requests suffice wherever the code reads, checks and writes once.  Five
simulated tickets make every rate with a denominator up to five, 4/5 among them,
which meets its target exactly; the proof covers lists of any length.  Of the
demo scenarios the three in work differ in their age alone.
`MaxTime`, `MaxCycle`, `MaxPauses`, `MaxCrashes`, `MaxKills`, `MaxDeaths`,
`MaxLost`, `MaxChanges`, `MaxComments`, `MaxEdits`, `MaxLogins`, `MaxTickets` and
`MaxSimulated` are bounds of the model only; the code has none.

Deadlock checking is off where users or requests may simply stop acting or a
bound of the model ends a behaviour (`workflow`, `timing`, the three composed
runs, `autoclose_stale_list`, `accounts_last_two`); it is on in the other runs,
where the job or the worker always has a next step: also a worker that waits for
a handler, since the handler can commit.

Fairness.  `FairSpec` and `FairWorkerSpec`: the clock advances, and each run of a
script takes its next step.  The scripts are run periodically by a scheduler
outside the repository, and a run that does not crash goes on to its end; a lock
is waited for no longer than the transaction that holds it: a handler that has
begun commits (`CommitHandler`).  `NotifyRecipients` has strong fairness: between two
handlers of a ticket a waiting run can go on, and PostgreSQL grants row locks in
the order they are asked for.  That a run waits for the keys of another is not
in the run about liveness, which has one run at a time; `NoCircularWait` says
that such a wait ends with the transactions waited for.  `Throttle!Fairness`:
Redis expires a key whose time has come, and a login that has begun and does not
die goes on.  Users are under no obligation, and crashes are never forced; they
are finite in number.

### Findings

1. `auto_close_expired_tickets` (`services/workflow_service.py:641`) captures the
time, lists expired tickets without a lock, and re-checks under the lock only
that the ticket is still `RESOLVED`.  Its docstring (line 646) says
"Idempotently close RESOLVED tickets whose 72-hour window expired."  In the
trace of `autoclose_stale_list` the job lists a ticket, the requester reopens it
at the last instant of the window (WF-06 accepts equality), it is resumed and
resolved again, and the job closes it: the new 72-hour window has just begun,
and `closed_at` is earlier than the last `resolved_at`.  What does hold, and is
proved, is `AutoClosedOnExpiry`: some earlier resolution had expired.  In
`TicketWorkflow` a handler is one step, so the overlap needs the boundary instant; in the
running service a reopen that took its time before the deadline and commits
after the list was read widens it.

2. `process_sla_escalations` (`services/escalation_service.py:65`) reads the
assignments of all tickets before it inserts the first event, without a lock.
The evidence of the SLA test
(`src/Code/evidence/sla_deadline_test_evidence.md:48`) says that each SLA event
notifies exactly the processor currently assigned and the active administrators.
In the trace of `worker_stale_recipient` the ticket is assigned between the two
steps; the event is committed without its processor among the recipients, and
because a threshold is recorded once (`EventsAreFinal`) no later run tells them.

3. `update_admin_user` (`services/user_service.py:166`) and the revocation of a
role (`services/role_service.py:113`) count the active administrators without a
lock and write afterwards.  "Không được vô hiệu hóa quản trị viên hoạt động cuối
cùng." (`services/user_service.py:171`) promises that the last one cannot be
deactivated.  In the trace of `accounts_last_two` two administrators depose each
other: each request counts two, and nobody is left.

4. `list_worker_candidates` (`repositories/escalation_repository.py:48`) selects the
RUNNING rows without a lock, and the worker checks nothing again before it
commits.  A handler fixes `changed_at` first (`workflow_service.py:180`,
`comment_service.py:132`) and commits after several awaits (`:226`, `:194`).  In the
trace of `worker_overdue_met` a handler has completed a row at its deadline or
before and not yet committed, the deadline passes, a run takes its time, reads
the row as still running and finds OVERDUE due; its notifications wait for the
handler and are then sent.  The event says "đã vượt quá deadline" (the deadline
has been exceeded, `services/escalation_service.py:29`) of a row whose result is MET, which
`src/Code/README.md:285` explains as "Hoàn tất đúng SLA" (completed within the SLA).
The same happens with a pause or with the first public reply.  What does hold,
and is proved, is `EventsStayTrue`: this is the only case.  Whatever else is on
record has been reached, and is never followed by MET; an event that is not
borne out by its row is marked `unsettled` (in the model only): a handler was uncommitted
when the run read the rows, and that handler had stopped the clock before the
run took its time (`StoppedBefore`).

### Behaviour worth knowing

These follow from the code and are not contradicted by any text of the
repository, so no run reports them as findings.

* Logout lists the sessions of a family and revokes them in a second command; a
  rotation in between adds one that is missed, and the family stays usable.
  `SessionFamilies` therefore promises that a spent pair stays spent, not that a
  logout ends the family.
* A login that dies between INCR and EXPIRE leaves a counter without an expiry.
  The next failure does not set it, since only the first does; once at the limit
  the e-mail and address stay locked until an operator removes the key.
  `LoginThrottle` lets logins die: `CounterWillExpire` and `LockoutEnds` hold as
  long as none does.
* A ticket may end between the check and the insert of an attachment
  (`services/attachment_service.py:235`) or between the check and the commit of
  an edit (`services/comment_service.py:217`); the ended ticket then has it.  A
  ticket may be filed under a category that was switched off meanwhile
  (`services/ticket_service.py:119`), and assigned to an account deactivated or
  stripped of its role meanwhile (`services/assignment_service.py:76`): both are
  read once, before the lock, and never again.
* When the answer to a commit is lost, the upload removes its file although the
  row is there (`lost` in `RowsHaveFiles`).
* An unexpected exception while an upload is looked at (`_detect_mime`,
  `services/attachment_service.py:124` and `:164`) leaves the temporary file behind, as the
  death of the process does: it is `Die` in `AttachmentStore`.
* A comment of WF-02 or WF-03 is dated at the begin of its transaction.  If it
  waited for the ticket it is listed before comments that were made earlier, so
  that even an answer may stand before its question.  There is no audit row of
  its first content; if it is edited, that row starts from it.
  `CommentsAreChronological` and `AuditTellsTheContent` say that nothing else is out of order
  and that every edit is accounted for.
* `ThresholdsOnlyGrow` is about the rows as they are written.  Whoever reads without
  a lock may still see the row of before the last commit.
* The timeline is ordered by the start of the transactions, so a handler that
  waited may be listed before the transition it followed.
* A ticket closed without a public reply keeps its RESPONSE clock running, and
  the escalation script goes on about it (`repositories/escalation_repository.py:48`).
* `open_count` of the dashboard includes resolved tickets, and the breakdowns
  are separate statements whose sums need not agree; only what
  `LaterPartsIncludeEarlier` states survives tickets that move in between.
* The demo ticket DEMO-REOPENED-001 (`scripts/seed_demo_data.py:124`) goes from
  CLOSED to REOPENED, which no handler does, and has its second cycle running at
  once (line 388).  WF-07 starts a cycle of its own when the ticket is resumed,
  so that two clocks run; resolving completes the newer one and the seeded one
  never ends.  `DemoTicketsAreCoherent` says nothing of the clocks of such a
  ticket; its assignee and its first response are covered.
* A rate is rounded before it is compared with its target.  That is harmless up
  to 2002 tickets, as `RoundingKeepsTheVerdict` states and the proofs show; of
  2003 tickets 1402 already count as 70 %.  The data of the repository has ten.
* A requester who also has the PROCESSOR role reads internal comments of the
  tickets in scope, although the detail does not offer it; `PermissionsAreHonoured`
  states it as the one difference.

## 4. The proofs

`TicketWorkflow_proofs` proves, for every value of the constants:

* `TypeCorrect`: `Spec => []TypeOK`.  The invariant is inductive as it stands.
  `RuntimeTypes`, `TicketRowType` and `CycleRowType` say once what the row
  operations return; each action is then a step that cites them.
* `AssigneeCorrect`: `Spec => []AssignedPastTriage`, inductive with `TypeOK`.
  Transitions within the states past triage go through one step about `Move`.
* `TerminalStays`: `Spec => TerminalIsFinal`.  Two lemmas say that a handler
  touches its own ticket only and only while it is open, and that the job
  touches only a `RESOLVED` one.
* `AutoCloseCorrect`: `Spec => []AutoClosedOnExpiry`.  The invariant speaks of
  the closed tickets and of the lists of the running jobs together, because only
  the list remembers why the ticket may be closed.  It rests on
  `ResolutionsStay` (a resolution keeps its time) and `UsersCloseInTheirName`.

`TicketCycles_proofs` proves what the handlers trust one another with.  Neither
`SlaFollowsTicket` nor `CyclesAddUp` is inductive: that WF-07 starts the clock of
an unresolved cycle follows from the results on record, that a result closes the
row of its own number follows from which row is live, and that a reopened ticket
has a result to be numbered after follows from its status.  `CyclesCohere` is the
invariant that carries all of it, one ticket at a time: `Balanced` (results
numbered without gaps and in order, each completing the row of its number; a row
is opened only when all earlier cycles are resolved), `Clocked` (the state of a row
fits the status, a paused one has its open pause) and `Accounted` (a ticket that
was handed back has a last result).  They are predicates on values, so that each
operation on rows is a lemma about them (`BalancedStart`, `BalancedChange`,
`BalancedResolve`, ...), `LiveIsLast` says that at most one row is live, and a
handler is the lemma of its operation.  From `CyclesStayCoherent`
(`Spec => []CyclesCohere`) follow

* `CyclesAgree`: `Spec => []CyclesAddUp`, and `SlaFollows`:
  `Spec => []SlaFollowsTicket`; the second includes that the guards behind 409
  SLA_RUNTIME_CONFLICT are always met;
* `HistoryStaysKept`: `Spec => HistoryIsKept`, because a row that is written is
  live, and a live row is unresolved.

`ResponseClockStopsOnce` (`Spec => []ResponseClock`) is inductive with the types:
the response row belongs to no cycle.

`TicketWorkflowRefinement_proofs` proves `WorkflowImplementsLifecycle`
(`Spec => ImplementsLifecycle`), handler by handler.  `CyclesCohere` supplies what
the abstract guards ask for and the code does not test: that the next result is
numbered one after the last, and that the clock of the lifecycle, which is one
variable, is the only live row.

`TicketWorkflowTiming_proofs` is about one row and its clock.  Every handler does
to a row one of a few things (`RowMove`: start, pause, resume, complete, void, or
nothing), so the arithmetic is done once for each.  `SoundRow` keeps the figures a
status promises, and `RowsStaySound` proves it of all rows.
`OverduePastTarget` is the truncation argument, that elapsed seconds exceed the
target when the deadline moved by the pauses has passed; with it
`VerdictsAgree` proves `VerdictMatchesMetrics`.  `NoBetter` says that a row has
the same target, no less elapsed and no more remaining time than before; each
move and each tick keeps it, though a pause is truncated to seconds when it is
credited, and `ThresholdsNeverRetreat` (`ThresholdsOnlyGrow`) follows.
`OverallOnlyWorsens` proves `VerdictsOnlyWorsen`: a verdict is written once, and
a new cycle only adds to the verdicts the dashboard ranks.

The pauses of a row are a list of any length, and what they add up to is computed
recursively.  The induction goes through a set of numbers, not a formula:
`NumbersOneByOne` (a set with zero and all successors holds every natural number)
follows from `<` being well-founded, and gives what `SumOf` returns for the empty
list and for one member more (`SumOfEmpty`, `SumOfAppend`).  `PauseLedger` does not
bound what a pause loses, and a bound by the length of the list alone is not
inductive, because the open pause has not lost anything yet.  `LedgerFits` counts
those that have ended (`EndedPauses`) and says that no time recorded is ahead of
the clock; `LedgerMove` lists how a row and its pauses move together, and
`StepMovesLedgers` that every step is one of those.  From `PausesStayFitting`
follow `PausesAddUp` (`PauseLedger`) and, with `SoundRow`, `VerdictsAreHonest`
(`VerdictIsHonest`).

`EscalationWorker_proofs` builds on all of these.  `WorkerLeavesTickets`
(`WorkerSpec => Spec`) says that the worker only reads the tables of the tickets,
so every theorem above holds beside it; `WorkerTypeCorrect` uses it for the type
of the clock.  `InsertsExclude` proves `InsertsAreExclusive`, which is inductive
with the types: a key leaves `new` only by commit or rollback, and enters it only
when no other run holds it and it is not on record.  `EventsStay` proves
`EventsAreFinal` from it: a commit writes only keys that are not on record.

The stale read is settled by `EventsHoldTrue` (`EventsStayTrue`).  `RowsTrail` says how far
what others read may lag: while a handler is at work they see its row as it was
when the handler took its time, one move behind (`RowMove`), and otherwise the row
itself.  So a row read as running either is the row, or is voided, or has been
stopped by a handler whose time `began` tells (`StoppedUnseen`).  What is on
record is true because it was true while a run still held it, so the invariant
`EventsHold` speaks of both: whatever any run has found due, has inserted or has
committed is `Borne`, that is, reached for good or void, or found while a handler
that had stopped the clock before was not yet committed.  `HoldsOn` (a threshold reached
stays reached, and its deadline stays) and `StoppedOn` carry it over the handlers, and
`RunsInOrder` says that the time a run works with is not later than now, which
is all its reads need.  `EventsStayNested` (`EventsNested`) rests on
`RunsNested`: what is on record, and what is on record with all that a run is
yet to insert and has inserted, contain with each event the ones below it.  It
needs the single commit: a run that committed event by event would break it.
`RunsNeverDeadlock` (`NoCircularWait`) rests on `RunsInKeyOrder`: a run has
inserted only keys before the ones still due, in the order of deadlines that all
runs share (`KeyOrder`), and that order does not change under a run
(`OrderStays`) because the deadlines of the rows it holds do not.

`TicketSides_proofs` proves what the run `ticket_sides` checks, about the
composition itself and for any number of people, requests, rows and files.

* Attachments: `TypeCorrect`, `RowsKeepFiles` (`RowsHaveFiles`) and
  `NothingRemains` (`NothingLeftOver`), for any number of deaths and lost answers.
  Neither is inductive: whether a file may be removed depends on who holds its
  key.  The invariant `StoreInv` adds that keys are used once, that an upload that
  has not inserted yet holds a key of its own that is not on record, that its file
  is in place before the insert, and that whoever unlinks a file has seen its row
  gone.  For what is left over, `TidyInv` says who will see to it: a temporary file
  has its upload, a file without a row an upload about to insert or a deletion
  about to remove, an empty directory a request about to use or remove it.
  `FilesBesideTheRest` carries both over to the composition.
* `JournalStaysTrue` (`JournalMatchesTicket`) and the journal's half of
  `EveryoneStaysTold` (`EveryoneIsTold`): `ChangeIsKept` says once what a handler's
  append to history and inbox keeps.  `OrderedInv` is the order of the timeline
  one by one: the request that waits began after the last row was dated, which
  fails as soon as two wait.
* `CommentsStayAccounted` (`CommentsAreAccounted`): an edit carries the content it
  has read, and `EditsAreLocked` says that it is still the content when it is
  written, and that no two edit one comment.  Then the new audit row starts from
  where the last one of that comment ended (`AuditGrows`), or from the first content
  of a comment of the workflow, of which the audit is silent until then
  (`AuditIsSilent`).  `NewCommentKeepsTalk` is what the three writers share; the order
  of the list rests on no comment being dated later than now.  The discussion's half of
  `EveryoneStaysTold` is an action property: the step that adds a public comment
  tells the other side as it stands in that step.
* `ScopesStayTheSame` (`ScopesAgree`): needs no invariant.  The four scopes agree
  in every state of roles, charge and status, reachable or not; `OffersAreGranted`
  is the case analysis, with internal comments as the one thing granted that is
  not always offered.
* `CatalogueStaysSound` (`CatalogueIsSound`): the unique indexes keep names, codes
  and levels apart.  `ReasonsRemain` is what a refused administrator is told: the
  row in conflict is still there when the answer names it, because no row is ever
  deleted and a priority never leaves its code and level.
* `SidesTyped` (`SidesTypeOK`) for all five parts.

`Accounts_proofs` begins with the sessions: `TypeCorrect`, `OneActive`
(`Spec => []OneActivePerFamily`) and `FamiliesImplemented`
(`Spec => ImplementsFamilies`) for any number of accounts, families, pairs and
requests.  The invariant `SessionInv` ties the local variables of a request to the
store (`RequestsFit`: the presented pair and the members it has read belong to
its family, a family that is being opened has no session yet, a rotation has
tries left) and says that a family is opened by one request alone.  `StoreAlone` and
`StoreWritten` reduce every action to whether its new row fits.  The refinement
then needs what the three writes do to the sessions (`SessionCreated`,
`SessionRotated`, `MembersRevoked`) and that the holder of a family is its
active session (`Holder`): opening, rotating and revoking are `Open`, `HandOn`
and `Close`, or a stutter, and everything else stutters.

It then proves what else the run `accounts` checks, for any number of logins,
accounts, roles, requests and notices, about the composition itself: each part
moves by its own next action or stands still.  `SessionsAreSessions`
(`AccountsSpec => Spec`) carries the theorems about sessions over.

* `ThrottleStaysCorrect` (`ThrottleHolds`) is inductive with the types
  (`ThrottleInv`).  A login is admitted below the limit and counts once, so the
  counter and the logins that may still count reach the bound only together.
* `AdministrationStaysOrderly` (`AdministrationIsOrderly`) needs to know what a
  request has seen.  `AdminInv` says that the audit log ends with what each row
  is and that what a request carries is a row it may write; `OrderlyInv` says,
  one by one, that the row a request has seen is still the row, and that a
  request about to depose an administrator has counted another one.  Of
  requests that overlap neither half holds (finding 3).
* `UpdatesAreKept` (`NoLostUpdate`): a stale activation writes no column of its
  own; and in the inbox `InboxInv` says that rows locked by a request that marks
  all are unread and its alone, so that no notice is counted twice and none that
  was read gets another time.
* `AccountsTyped` (`AccountsTypeOK`) for all four parts.

`Reports_proofs` proves what the run `reports` checks, about `Reports` and for any
number of tickets, viewers, runs of the script and simulated tickets.

* `DemoStaysCoherent` (`DemoDataIsCoherent`).  A seeded ticket enters the tables
  past the handlers, so the proof has two halves.  The first is about the rows of
  one scenario: if it has the shape of those in the script (`IsScenario`) they
  are well typed and fit each other (`DemoTicketFits`), and unless it was seeded
  as reopened they are rows as the handlers leave them, so that the invariant of
  `TicketCycles_proofs` holds of that ticket (`DemoTicketCoheres`).  The second is
  that a handler keeps this ticket by ticket (`TicketStaysCoherent`), which makes
  `TablesFit` an invariant of any mix of seeded and handled tickets.  That the
  data is whole is not inductive.  `InsertsFit` adds what the runs hold: a run
  has inserted only codes that do not exist, no two runs the same, and while
  nothing is there a run has inserted every code it is done with.  So the run
  that commits first has inserted them all, and no other has anything to commit.
* `WorkStaysKept` (`WorkIsKept`) follows from the same invariant.
* `OverviewsFit` (`OverviewFits`).  The numbers compared were taken at different
  times, so `OverviewInv` compares each with what the same query would give now:
  with the tickets filed, and with the closed ones.  Both only grow
  (`NumbersGrow`): no ticket is taken away, and none that is closed is opened
  again.  That a ticket has one status and one overall verdict
  (`StatusesAddUp`, `VerdictsApart`) gives the sums.
* `RatesStaySound` (`RatesAreSound`) needs no more of the dataset than that it is
  a list.  A rate counts a subset of what it counts among (`CountedAmong`,
  `SizesGrow`); `RoundingIsHarmless` is the comparison of the rounded quotient with a
  whole percentage, which `TargetsSurviveRounding` applies to the targets.  2002 is
  the largest size for which it holds of all of them.

Assumptions: the constants are what they are declared to be
(`TicksPerSecondAssumption`, `TicketsAssumption`, `UsersAssumption`,
`PoliciesAssumption`, `BoundsAssumption`, `PercentAssumption`,
`WorkersAssumption`, `PairsAssumption`, `LoginsAssumption`, the one of
`AttachmentStore`, and the `PartsAssumption` of `Accounts`, `TicketSides` and `Reports`,
which gather those of the parts); that there are finitely many tickets to count
(`FiniteAssumption` of `Dashboard`); and that the scenarios have the shape of those
in the script (`ScenarioAssumption` of `DemoSeed`).  TLC evaluates them in the runs.

Only model-checked: liveness (`ExpiredGetsClosed`, `OverdueIsReported`,
`LockoutEnds`), which is beyond the prover.  `ClosesOnlyExpired`,
`TellsProcessorInCharge`, `NoOverdueOnMet` and `AdminRemains` without the condition "one by
one" do not hold: they are the findings.

## 5. How to run

    tlc -workers 2 -config TicketWorkflow_workflow.cfg MCTicketWorkflow
    tlc -workers 2 -config Accounts_parts.cfg Accounts
    tlapm Reports_proofs.tla

`PROJECT.json` lists for each run its module and configuration, for each property
the variant that breaks it, for each definition the lines it models, and every
hazard with the properties that cover it, or the reason why none does.

## 6. Not modelled

* Texts, names, scores, file types and sizes, search, sorting, filters and pages:
  data no property tells apart.
* Audit rows other than those of accounts and comments: written in the same
  transaction and never read by a handler.
* The answer after the commit: `_transition` loads the ticket detail with the
  caller's rights, so a committed transition may be answered with an error.
* Expiry of sessions and revoked access tokens (a revoked member that has expired
  is created again by HSET without expiry; it denies access and never grants it).
* Roles and accounts inside `TicketWorkflow` and `EscalationWorker`: constant, so
  that an administrator who appears later and is never told of an event
  (`services/escalation_service.py:97`) is not in the model.
* `update_priority` (one row, no conflict), the averages of KPIs and dashboard and
  the trend (sums over durations without control), the accounts, comments and
  ratings of the demo data.
* Ties in `round(..., 2)` go up in the model and to even in Python: a tie beside
  a target that is a whole percentage takes a multiple of 20000 tickets.
* HTTP layer, schemas, configuration and errors: routing, validation, formatting;
  role dependencies appear as guards.  Web client: static pages without
  authoritative state.  Migrations: DDL, whose constraints appear as guards.
  Reference data and test scripts: look up and insert in one transaction, or run
  the tests.

## 7. Plan

* The dashboard read while demo data is seeded, and the reopened demo ticket
  after it is resumed: what still holds of its second clock.
* The averages of the KPI script, as sums with their divisors.
