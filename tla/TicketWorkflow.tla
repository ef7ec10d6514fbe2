--------------------------- MODULE TicketWorkflow ---------------------------
(***************************************************************************)
(* The life of helpdesk tickets: the handlers of ticket_service,           *)
(* assignment_service, workflow_service (WF-01 .. WF-08) and the public    *)
(* reply of comment_service, together with the SLA rows they maintain and  *)
(* the auto-close job that runs beside them.                               *)
(*                                                                         *)
(* A handler is one action.  It reads the ticket with SELECT ... FOR       *)
(* UPDATE, decides on what it read, and commits once; the row lock is held *)
(* until then, so no other handler of the same ticket acts in between, and *)
(* a handler that raises rolls back and changes nothing (its action is     *)
(* then disabled).  The auto-close job is the exception: it captures the   *)
(* time, lists the expired tickets without a lock and then closes them one *)
(* transaction at a time, so it is a process with steps of its own.        *)
(*                                                                         *)
(* Left out: texts, audit rows, status history and notifications (no       *)
(* handler here reads them back), and the roles of users, which are fixed. *)
(***************************************************************************)
EXTENDS SLARules, Sequences

CONSTANTS
  Tickets,        \* ticket ids, ordered as the job orders them
  Users,
  Roles,          \* the role codes of each user
  NoUser,         \* a NULL user reference
  Policies,       \* the rows of sla_policies for the tickets' priority
  Window,         \* REOPEN_WINDOW (72 hours), in ticks
  Jobs,           \* concurrent runs of the auto-close script
  MaxTime,        \* bound: last instant of the clock
  MaxCycle,       \* bound: resolution cycles per ticket
  MaxPauses,      \* bound: pauses per resolution cycle
  MaxCrashes      \* bound: crashes per job

RoleCode == {"REQUESTER", "PROCESSOR", "ADMIN"}

PolicyRow == [version : Nat, from : Time, until : TimeOrNever,
              response : Nat \ {0}, resolution : Nat \ {0}]

ASSUME TicketsAssumption  == Tickets \subseteq Nat
ASSUME UsersAssumption    == NoUser \notin Users /\ Roles \in [Users -> SUBSET RoleCode]
ASSUME PoliciesAssumption == Policies \subseteq PolicyRow
ASSUME BoundsAssumption   == /\ {Window, MaxTime, MaxPauses, MaxCrashes} \subseteq Nat
                             /\ MaxCycle \in Nat \ {0}

VARIABLES
  now,            \* the clock every datetime.now() reads
  ticket,         \* the tickets table, with the current assignee
  responseSla,    \* the RESPONSE row of each ticket
  resolutionSla,  \* the RESOLUTION row of each ticket and cycle
  pauses,         \* the pause periods of each RESOLUTION row, in order
  resolvedAt,     \* ticket_resolutions: the time of each ticket's cycle
  job             \* the local state of each auto-close run

vars == <<now, ticket, responseSla, resolutionSla, pauses, resolvedAt, job>>

slaVars == <<responseSla, resolutionSla, pauses>>

Cycles == 1..MaxCycle

Status == {"NONE", "NEW", "ASSIGNED", "IN_PROGRESS", "PENDING_INFO",
           "RESOLVED", "REOPENED", "CLOSED", "REJECTED"}
Terminal == {"CLOSED", "REJECTED"}

TicketRow == [status : Status, requester : Users \union {NoUser},
              assignee : Users \union {NoUser}, firstResponseAt : TimeOrNever,
              closedAt : TimeOrNever, closedBy : Users \union {NoUser}]

NoTicket == [status |-> "NONE", requester |-> NoUser, assignee |-> NoUser,
             firstResponseAt |-> Never, closedAt |-> Never, closedBy |-> NoUser]

JobState == [pc : {"idle", "listing", "closing"}, at : Time,
             queue : SUBSET Tickets, crashes : 0..MaxCrashes]

IdleJob(crashes) == [pc |-> "idle", at |-> 0, queue |-> {}, crashes |-> crashes]

TypeOK ==
  /\ now \in 0..MaxTime
  /\ ticket \in [Tickets -> TicketRow]
  /\ responseSla \in [Tickets -> Runtime]
  /\ resolutionSla \in [Tickets -> [Cycles -> Runtime]]
  /\ pauses \in [Tickets -> [Cycles -> Seq(PausePeriod)]]
  /\ resolvedAt \in [Tickets -> [Cycles -> TimeOrNever]]
  /\ job \in [Jobs -> JobState]

Init ==
  /\ now = 0
  /\ ticket = [t \in Tickets |-> NoTicket]
  /\ responseSla = [t \in Tickets |-> NoRuntime]
  /\ resolutionSla = [t \in Tickets |-> [c \in Cycles |-> NoRuntime]]
  /\ pauses = [t \in Tickets |-> [c \in Cycles |-> <<>>]]
  /\ resolvedAt = [t \in Tickets |-> [c \in Cycles |-> Never]]
  /\ job = [j \in Jobs |-> IdleJob(0)]

-----------------------------------------------------------------------------
(***************************************************************************)
(* What the handlers read.  A maximum over rows is stated as a relation:   *)
(* "n is the largest cycle number", "c is the current SLA".                *)
(***************************************************************************)
HasRole(u, role) == role \in Roles[u]

\* _assert_processor_or_admin: reassignment takes the right away at once.
ProcessorOrAdmin(t, u) ==
  \/ HasRole(u, "ADMIN")
  \/ HasRole(u, "PROCESSOR") /\ ticket[t].assignee = u

RequesterOwner(t, u) == HasRole(u, "REQUESTER") /\ ticket[t].requester = u

MayClose(t, u) == HasRole(u, "ADMIN") \/ RequesterOwner(t, u)

IsResolved(t, c) == resolvedAt[t][c] # Never
HasSla(t, c)     == resolutionSla[t][c].status # "NONE"

\* Variant: cycles are counted over SLA rows only.
IsLatestCycleOfSla(t, n) ==
  /\ n > 0 => HasSla(t, n)
  /\ \A c \in Cycles : c > n => ~HasSla(t, c)

\* latest_resolution_cycle: over SLA rows and resolutions alike, default 0.
IsLatestCycle(t, n) ==
  /\ n > 0 => HasSla(t, n) \/ IsResolved(t, n)
  /\ \A c \in Cycles : c > n => ~HasSla(t, c) /\ ~IsResolved(t, c)

\* current_resolution_sla
IsCurrentSla(t, c) ==
  /\ IsLive(resolutionSla[t][c])
  /\ \A d \in Cycles : IsLive(resolutionSla[t][d]) => d <= c

NoCurrentSla(t) == \A c \in Cycles : ~IsLive(resolutionSla[t][c])

\* max(ticket.resolutions, key=cycle_no)
IsLatestResolution(t, c) ==
  IsResolved(t, c) /\ \A d \in Cycles : IsResolved(t, d) => d <= c

\* get_effective_sla_policy
IsInForce(p, at) == p.from <= at /\ (p.until = Never \/ p.until > at)
IsEffectivePolicy(p, at) ==
  IsInForce(p, at) /\ \A q \in Policies : IsInForce(q, at) => q.version <= p.version
NoEffectivePolicy(at) == \A p \in Policies : ~IsInForce(p, at)

-----------------------------------------------------------------------------
(***************************************************************************)
(* Ticket creation and assignment                                          *)
(***************************************************************************)
Create(t, u) ==
  /\ ticket[t].status = "NONE"
  /\ HasRole(u, "REQUESTER")
  /\ ticket' = [ticket EXCEPT ![t].status = "NEW", ![t].requester = u]
  /\ \/ /\ NoEffectivePolicy(now)
        /\ UNCHANGED <<responseSla, resolutionSla>>
     \/ \E p \in Policies :
          /\ IsEffectivePolicy(p, now)
          /\ responseSla' = [responseSla EXCEPT ![t] = StartRuntime(now, p.response)]
          /\ resolutionSla' = [resolutionSla EXCEPT ![t][1] = StartRuntime(now, p.resolution)]
  /\ UNCHANGED <<now, pauses, resolvedAt, job>>

Assign(t, u, p) ==
  /\ HasRole(u, "ADMIN")
  /\ HasRole(p, "PROCESSOR")
  /\ ticket[t].status = "NEW"
  /\ ticket[t].assignee = NoUser
  /\ ticket' = [ticket EXCEPT ![t].status = "ASSIGNED", ![t].assignee = p]
  /\ UNCHANGED <<now, slaVars, resolvedAt, job>>

\* Variant: a reassignment that does not ask for an assignee.
ReassignUnassigned(t, u, p) ==
  /\ HasRole(u, "ADMIN") /\ HasRole(p, "PROCESSOR")
  /\ ticket[t].status \notin Terminal \union {"NONE"}
  /\ ticket[t].assignee # p
  /\ ticket' = [ticket EXCEPT ![t].assignee = p]
  /\ UNCHANGED <<now, slaVars, resolvedAt, job>>

\* Allowed in every state that is not terminal; the status does not move.
Reassign(t, u, p) ==
  /\ HasRole(u, "ADMIN")
  /\ HasRole(p, "PROCESSOR")
  /\ ticket[t].status \notin Terminal
  /\ ticket[t].assignee \notin {NoUser, p}
  /\ ticket' = [ticket EXCEPT ![t].assignee = p]
  /\ UNCHANGED <<now, slaVars, resolvedAt, job>>

-----------------------------------------------------------------------------
(***************************************************************************)
(* The workflow transitions                                                *)
(***************************************************************************)
Move(t, source, target) ==
  /\ ticket[t].status = source
  /\ ticket' = [ticket EXCEPT ![t].status = target]

\* WF-01
Start(t, u) ==
  /\ ProcessorOrAdmin(t, u)
  /\ Move(t, "ASSIGNED", "IN_PROGRESS")
  /\ UNCHANGED <<now, slaVars, resolvedAt, job>>

\* WF-02: the resolution clock stops while the requester is asked.
RequestInfo(t, u) ==
  /\ ProcessorOrAdmin(t, u)
  /\ Move(t, "IN_PROGRESS", "PENDING_INFO")
  /\ \/ /\ NoCurrentSla(t)
        /\ UNCHANGED <<resolutionSla, pauses>>
     \/ \E c \in Cycles :
          /\ IsCurrentSla(t, c)
          /\ resolutionSla[t][c].status = "RUNNING"
          /\ Len(pauses[t][c]) < MaxPauses
          /\ resolutionSla' = [resolutionSla EXCEPT ![t][c] = PauseRuntime(@, now)]
          /\ pauses' = [pauses EXCEPT ![t][c] =
               Append(@, [pausedAt |-> now, resumedAt |-> Never, duration |-> 0])]
  /\ UNCHANGED <<now, responseSla, resolvedAt, job>>

IsLastOpenPause(t, c, i) ==
  /\ i \in DOMAIN pauses[t][c]
  /\ IsOpen(pauses[t][c][i])
  /\ \A k \in DOMAIN pauses[t][c] : k > i => ~IsOpen(pauses[t][c][k])

\* WF-03
ProvideInfo(t, u) ==
  /\ RequesterOwner(t, u)
  /\ Move(t, "PENDING_INFO", "IN_PROGRESS")
  /\ \/ /\ NoCurrentSla(t)
        /\ UNCHANGED <<resolutionSla, pauses>>
     \/ \E c \in Cycles : \E i \in DOMAIN pauses[t][c] :
          /\ IsCurrentSla(t, c)
          /\ resolutionSla[t][c].status = "PAUSED"
          /\ resolutionSla[t][c].pausedAt # Never
          /\ IsLastOpenPause(t, c, i)
          /\ LET d == PauseDuration(pauses[t][c][i].pausedAt, now)
             IN  /\ pauses' = [pauses EXCEPT ![t][c][i] =
                      [pausedAt |-> @.pausedAt, resumedAt |-> now, duration |-> d]]
                 /\ resolutionSla' = [resolutionSla EXCEPT ![t][c] = ResumeRuntime(@, d)]
  /\ UNCHANGED <<now, responseSla, resolvedAt, job>>

\* WF-04: one resolution record per cycle, numbered as the SLA it completes.
Resolve(t, u) ==
  /\ ProcessorOrAdmin(t, u)
  /\ Move(t, "IN_PROGRESS", "RESOLVED")
  /\ \E c \in Cycles :
       /\ ~IsResolved(t, c)              \* uq_ticket_resolutions_ticket_cycle
       /\ resolvedAt' = [resolvedAt EXCEPT ![t][c] = now]
       /\ \/ /\ NoCurrentSla(t)
             /\ IsLatestCycle(t, c - 1)
             /\ UNCHANGED resolutionSla
          \/ /\ IsCurrentSla(t, c)
             /\ resolutionSla[t][c].status = "RUNNING"
             /\ resolutionSla' = [resolutionSla EXCEPT ![t][c] = CompleteRuntime(@, now)]
  /\ UNCHANGED <<now, responseSla, pauses, job>>

\* Variant: the state is not read again under the lock.
SetClosedUnchecked(t, at, by) ==
  /\ \E c \in Cycles : IsLatestResolution(t, c)
  /\ ticket' = [ticket EXCEPT ![t].status = "CLOSED", ![t].closedAt = at,
                              ![t].closedBy = by]

\* _set_close_metadata; by is NoUser when the job closes.
SetClosed(t, at, by) ==
  /\ ticket[t].status = "RESOLVED"
  /\ \E c \in Cycles : IsLatestResolution(t, c)
  /\ ticket' = [ticket EXCEPT ![t].status = "CLOSED", ![t].closedAt = at,
                              ![t].closedBy = by]

\* WF-05
Close(t, u) ==
  /\ MayClose(t, u)
  /\ SetClosed(t, now, u)
  /\ UNCHANGED <<now, slaVars, resolvedAt, job>>

\* Variant: reopening starts the next cycle at once.
ReopenStartsClock(t, u) ==
  /\ RequesterOwner(t, u)
  /\ Move(t, "RESOLVED", "REOPENED")
  /\ \E c \in Cycles : IsLatestResolution(t, c) /\ now <= resolvedAt[t][c] + Window
  /\ \E p \in Policies : \E c \in Cycles :
       /\ IsEffectivePolicy(p, now)
       /\ IsLatestCycle(t, c - 1)
       /\ resolutionSla' = [resolutionSla EXCEPT ![t][c] = StartRuntime(now, p.resolution)]
  /\ UNCHANGED <<now, responseSla, pauses, resolvedAt, job>>

\* WF-06: the window is inclusive; no SLA runs until the ticket is resumed.
Reopen(t, u) ==
  /\ RequesterOwner(t, u)
  /\ Move(t, "RESOLVED", "REOPENED")
  /\ \E c \in Cycles : IsLatestResolution(t, c) /\ now <= resolvedAt[t][c] + Window
  /\ UNCHANGED <<now, slaVars, resolvedAt, job>>

\* Variant: work resumes without a clock when no policy is in force.
ResumeWithoutPolicy(t, u) ==
  /\ ProcessorOrAdmin(t, u)
  /\ Move(t, "REOPENED", "IN_PROGRESS")
  /\ \/ NoEffectivePolicy(now) /\ UNCHANGED resolutionSla
     \/ \E p \in Policies : \E c \in Cycles :
          /\ IsEffectivePolicy(p, now)
          /\ IsLatestCycle(t, c - 1)
          /\ resolutionSla' = [resolutionSla EXCEPT ![t][c] = StartRuntime(now, p.resolution)]
  /\ UNCHANGED <<now, responseSla, pauses, resolvedAt, job>>

\* WF-07: a new cycle under the policy in force now (without one: error 500).
Resume(t, u) ==
  /\ ProcessorOrAdmin(t, u)
  /\ Move(t, "REOPENED", "IN_PROGRESS")
  /\ \E p \in Policies : \E c \in Cycles :
       /\ IsEffectivePolicy(p, now)
       /\ IsLatestCycle(t, c - 1)
       /\ resolutionSla' = [resolutionSla EXCEPT ![t][c] = StartRuntime(now, p.resolution)]
  /\ UNCHANGED <<now, responseSla, pauses, resolvedAt, job>>

\* WF-08: every clock of the ticket is voided.
Reject(t, u) ==
  LET voided(r) == IF IsLive(r) THEN MarkNotApplicable(r, now) ELSE r
  IN  /\ HasRole(u, "ADMIN")
      /\ Move(t, "NEW", "REJECTED")
      /\ responseSla' = [responseSla EXCEPT ![t] = voided(@)]
      /\ resolutionSla' = [resolutionSla EXCEPT ![t] =
                             [c \in Cycles |-> voided(resolutionSla[t][c])]]
      /\ UNCHANGED <<now, pauses, resolvedAt, job>>

\* Variant: every public reply counts as the first.
FirstReplyAgain(t, u) ==
  /\ ticket[t].status \notin Terminal \union {"NONE"}
  /\ HasRole(u, "PROCESSOR") /\ ticket[t].assignee = u
  /\ ticket' = [ticket EXCEPT ![t].firstResponseAt = now]
  /\ responseSla' = [responseSla EXCEPT ![t] =
                       IF @.status = "RUNNING" THEN CompleteRuntime(@, now) ELSE @]
  /\ UNCHANGED <<now, resolutionSla, pauses, resolvedAt, job>>

\* COM-02, the case that touches the ticket: the first public reply of the
\* processor in charge.  Every other comment leaves these variables alone.
FirstReply(t, u) ==
  /\ ticket[t].status \notin Terminal \union {"NONE"}
  /\ HasRole(u, "PROCESSOR") /\ ticket[t].assignee = u
  /\ ticket[t].firstResponseAt = Never
  /\ ticket' = [ticket EXCEPT ![t].firstResponseAt = now]
  /\ responseSla' = [responseSla EXCEPT ![t] =
                       IF @.status = "RUNNING" THEN CompleteRuntime(@, now) ELSE @]
  /\ UNCHANGED <<now, resolutionSla, pauses, resolvedAt, job>>

-----------------------------------------------------------------------------
(***************************************************************************)
(* The auto-close job (scripts/auto_close_resolved.py)                     *)
(***************************************************************************)
\* Variant: the time is a default argument, evaluated once for all runs.
StartJobAtOldTime(j) ==
  /\ job[j].pc = "idle"
  /\ job' = [job EXCEPT ![j].pc = "listing"]
  /\ UNCHANGED <<now, ticket, slaVars, resolvedAt>>

StartJob(j) ==
  /\ job[j].pc = "idle"
  /\ job' = [job EXCEPT ![j].pc = "listing", ![j].at = now]
  /\ UNCHANGED <<now, ticket, slaVars, resolvedAt>>

\* max(resolved_at) <= at - Window, for a ticket that has a resolution
IsExpired(t, at) ==
  /\ \E c \in Cycles : IsResolved(t, c)
  /\ \A c \in Cycles : IsResolved(t, c) => resolvedAt[t][c] + Window <= at

\* Variant: the window is forgotten in the query.
ListResolved(j) ==
  /\ job[j].pc = "listing"
  /\ job' = [job EXCEPT ![j].pc = "closing", ![j].queue =
       {t \in Tickets : ticket[t].status = "RESOLVED"}]
  /\ UNCHANGED <<now, ticket, slaVars, resolvedAt>>

ListExpired(j) ==
  /\ job[j].pc = "listing"
  /\ job' = [job EXCEPT ![j].pc = "closing", ![j].queue =
       {t \in Tickets : ticket[t].status = "RESOLVED" /\ IsExpired(t, job[j].at)}]
  /\ UNCHANGED <<now, ticket, slaVars, resolvedAt>>

IsNext(j, t) ==
  /\ job[j].pc = "closing"
  /\ t \in job[j].queue
  /\ \A s \in job[j].queue : t <= s

\* The state is read again under the lock; the window is not.
CloseNext(j, t) ==
  /\ IsNext(j, t)
  /\ SetClosed(t, job[j].at, NoUser)
  /\ job' = [job EXCEPT ![j].queue = @ \ {t}]
  /\ UNCHANGED <<now, slaVars, resolvedAt>>

\* Variant: a ticket that cannot be closed is tried again and again.
RetryNext(j, t) ==
  /\ IsNext(j, t)
  /\ ticket[t].status # "RESOLVED"
  /\ UNCHANGED vars

SkipNext(j, t) ==
  /\ IsNext(j, t)
  /\ ticket[t].status # "RESOLVED"
  /\ job' = [job EXCEPT ![j].queue = @ \ {t}]
  /\ UNCHANGED <<now, ticket, slaVars, resolvedAt>>

FinishJob(j) ==
  /\ job[j].pc = "closing" /\ job[j].queue = {}
  /\ job' = [job EXCEPT ![j] = IdleJob(@.crashes)]
  /\ UNCHANGED <<now, ticket, slaVars, resolvedAt>>

\* What was committed stays; the rest of the list is lost with the process.
CrashJob(j) ==
  /\ job[j].pc # "idle" /\ job[j].crashes < MaxCrashes
  /\ job' = [job EXCEPT ![j] = IdleJob(@.crashes + 1)]
  /\ UNCHANGED <<now, ticket, slaVars, resolvedAt>>

Tick ==
  /\ now < MaxTime
  /\ now' = now + 1
  /\ UNCHANGED <<ticket, slaVars, resolvedAt, job>>

-----------------------------------------------------------------------------
UserStep(t, u) ==
  \/ Create(t, u)
  \/ \E p \in Users : Assign(t, u, p) \/ Reassign(t, u, p)
  \/ Start(t, u)
  \/ RequestInfo(t, u)
  \/ ProvideInfo(t, u)
  \/ Resolve(t, u)
  \/ Close(t, u)
  \/ Reopen(t, u)
  \/ Resume(t, u)
  \/ Reject(t, u)
  \/ FirstReply(t, u)

JobStep(j) ==
  \/ StartJob(j)
  \/ ListExpired(j)
  \/ \E t \in Tickets : CloseNext(j, t) \/ SkipNext(j, t)
  \/ FinishJob(j)

Next ==
  \/ \E t \in Tickets, u \in Users : UserStep(t, u)
  \/ \E j \in Jobs : JobStep(j) \/ CrashJob(j)
  \/ Tick

Spec == Init /\ [][Next]_vars

\* The script is run again and again by a scheduler, and a run that does not
\* crash goes on to its end.  Users and crashes are under no obligation.
FairSpec == /\ Spec
            /\ WF_vars(Tick)
            /\ \A j \in Jobs : WF_vars(JobStep(j))

-----------------------------------------------------------------------------
(***************************************************************************)
(* Safety                                                                  *)
(***************************************************************************)

\* A ticket has a current assignee exactly while it is past triage: whatever
\* the order of assign, reassign, reject and the transitions, no ticket that
\* can be worked on lacks the processor _assert_processor_or_admin asks for.
AssignedPastTriage ==
  \A t \in Tickets :
    ticket[t].assignee = NoUser <=> ticket[t].status \in {"NONE", "NEW", "REJECTED"}

\* A resolution clock runs only while the ticket is being handled, is paused
\* only while the requester is asked, and is off in every other state; the
\* one clock that is on is the newest cycle, and that cycle is unresolved.
ClockFits(t) ==
  \A c \in Cycles :
    /\ resolutionSla[t][c].status = "RUNNING"
         => ticket[t].status \in {"NEW", "ASSIGNED", "IN_PROGRESS"}
    /\ resolutionSla[t][c].status = "PAUSED" => ticket[t].status = "PENDING_INFO"
    /\ IsLive(resolutionSla[t][c]) => IsLatestCycle(t, c) /\ ~IsResolved(t, c)

ClockFollowsStatus == \A t \in Tickets : ClockFits(t)

\* The two 409 SLA_RUNTIME_CONFLICT branches of WF-02 .. WF-04 are never taken:
\* a current SLA is RUNNING when work is under way, and when the requester is
\* asked it is PAUSED, with a pause period still open since paused_at.
NoConflict(t) ==
  \A c \in Cycles :
    IsCurrentSla(t, c) =>
      LET r == resolutionSla[t][c]
      IN  /\ ticket[t].status = "IN_PROGRESS" => r.status = "RUNNING"
          /\ ticket[t].status = "PENDING_INFO" =>
               /\ r.status = "PAUSED"
               /\ \E i \in DOMAIN pauses[t][c] :
                    /\ IsLastOpenPause(t, c, i)
                    /\ pauses[t][c][i].pausedAt = r.pausedAt

NoSlaRuntimeConflict == \A t \in Tickets : NoConflict(t)

\* The SLA follows the ticket: its clock is on in the right states only, and no
\* handler ever finds it in the wrong one.
SlaFollowsTicket == ClockFollowsStatus /\ NoSlaRuntimeConflict

\* The books of the cycles agree: resolutions are numbered without gaps and in
\* time order, so the latest by cycle_no (reopen, close) is the latest by
\* resolved_at (the auto-close query); an SLA cycle is completed by the
\* resolution of its own number, and every earlier cycle has been resolved.
LedgerAgrees(t) ==
  \A c \in Cycles :
    /\ IsResolved(t, c) =>
         /\ resolvedAt[t][c] <= now
         /\ \A d \in 1..c : IsResolved(t, d) /\ resolvedAt[t][d] <= resolvedAt[t][c]
    /\ HasSla(t, c) => \A d \in 1..(c - 1) : IsResolved(t, d)
    /\ resolutionSla[t][c].status = "COMPLETED" => IsResolved(t, c)
    /\ HasSla(t, c) /\ IsResolved(t, c) =>
         /\ resolutionSla[t][c].status = "COMPLETED"
         /\ resolutionSla[t][c].completedAt = resolvedAt[t][c]

CycleLedger == \A t \in Tickets : LedgerAgrees(t)

\* A ticket handed back to its requester, closed or reopened, has a result on
\* record: the 409 RESOLUTION_RECORD_MISSING guards never block it.
HasResult(t) ==
  ticket[t].status \in {"RESOLVED", "REOPENED", "CLOSED"}
    => \E c \in Cycles : IsLatestCycle(t, c) /\ IsResolved(t, c)

ResolvedHasResolution == \A t \in Tickets : HasResult(t)

\* Resolutions and SLA cycles together are the history of the ticket's results.
CyclesAddUp == CycleLedger /\ ResolvedHasResolution

\* The response clock stops at the first public reply of the processor in
\* charge, at that instant, and only that reply or a rejection stops it.
ResponseClock ==
  \A t \in Tickets :
    LET r == responseSla[t]
    IN  /\ r.status \in {"NONE", "RUNNING", "COMPLETED", "NOT_APPLICABLE"}
        /\ r.status = "RUNNING" => /\ ticket[t].firstResponseAt = Never
                                   /\ ticket[t].status # "REJECTED"
        /\ r.status = "COMPLETED" => r.completedAt = ticket[t].firstResponseAt
        /\ r.status = "NOT_APPLICABLE" <=> ticket[t].status = "REJECTED" /\ r.status # "NONE"

\* A ticket the job closed, or has on its list, had outlived the window of one
\* of its resolutions when the job took its time, whatever reopened or resolved
\* it in between; it need not be the last resolution (see below).
Outlived(t, at) == \E c \in Cycles : IsResolved(t, c) /\ resolvedAt[t][c] + Window <= at

AutoClosedOnExpiry ==
  /\ \A t \in Tickets :
       ticket[t].status = "CLOSED" /\ ticket[t].closedBy = NoUser
         => Outlived(t, ticket[t].closedAt)
  /\ \A j \in Jobs : job[j].pc = "closing" =>
       \A t \in job[j].queue : Outlived(t, job[j].at)

\* "Close RESOLVED tickets whose 72-hour window expired" (the docstring of
\* auto_close_expired_tickets): the job closes no ticket whose last resolution
\* is still within the window.
ClosesOnlyExpired ==
  [][\A t \in Tickets, j \in Jobs : CloseNext(j, t) => IsExpired(t, now)]_vars

\* Nothing about a closed or rejected ticket ever changes again.
TerminalIsFinal ==
  [][\A t \in Tickets : ticket[t].status \in Terminal =>
       /\ ticket'[t] = ticket[t]
       /\ responseSla'[t] = responseSla[t]
       /\ resolutionSla'[t] = resolutionSla[t]
       /\ pauses'[t] = pauses[t]
       /\ resolvedAt'[t] = resolvedAt[t]]_vars

\* A finished cycle is history: reopening, later cycles and later replies
\* never touch its verdict, its resolution or the first response.
HistoryIsKept ==
  [][\A t \in Tickets :
       /\ ticket[t].firstResponseAt # Never =>
            /\ ticket'[t].firstResponseAt = ticket[t].firstResponseAt
            /\ responseSla'[t] = responseSla[t]
       /\ \A c \in Cycles : IsResolved(t, c) =>
            /\ resolvedAt'[t][c] = resolvedAt[t][c]
            /\ resolutionSla'[t][c] = resolutionSla[t][c]
            /\ pauses'[t][c] = pauses[t][c]]_vars

(***************************************************************************)
(* Liveness                                                                *)
(***************************************************************************)

\* A ticket left RESOLVED beyond its window does not stay there: some run of
\* the job closes it, whatever crashed before, unless a user moved it first.
ExpiredGetsClosed ==
  \A t \in Tickets :
    (ticket[t].status = "RESOLVED" /\ IsExpired(t, now)) ~> ticket[t].status # "RESOLVED"
=============================================================================
