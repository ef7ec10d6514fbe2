----------------------- MODULE TicketWorkflow_proofs ------------------------
(***************************************************************************)
(* Proofs about TicketWorkflow, for every set of tickets, users, policies  *)
(* and jobs and every value of the bounds.                                 *)
(***************************************************************************)
EXTENDS TicketWorkflow, TLAPS

(***************************************************************************)
(* The row operations of SLARules keep rows rows.                          *)
(***************************************************************************)

\* Truncation to seconds yields an integer, and a pause never lasts less than
\* zero seconds (max(0, ...) in resume_resolution_runtime).
LEMMA SecondsType ==
  ASSUME NEW n \in Int
  PROVE  Seconds(n) \in Int
BY TicksPerSecondAssumption DEF Seconds

\* The length of a pause is a whole number of seconds.
LEMMA PauseDurationType ==
  ASSUME NEW p \in Time, NEW r \in Time
  PROVE  PauseDuration(p, r) \in Nat
<1>1. r - p \in Int  BY DEF Time
<1>2. Seconds(r - p) \in Int  BY <1>1, SecondsType
<1> QED BY <1>2 DEF PauseDuration, AtLeast

\* A row that is started, paused, resumed, completed or voided is still a row
\* of ticket_slas, in the state the operation names.
LEMMA RuntimeTypes ==
  ASSUME NEW at \in Time
  PROVE  /\ NoRuntime \in Runtime
         /\ \A target \in Nat : StartRuntime(at, target) \in Runtime
         /\ \A r \in Runtime :
              /\ PauseRuntime(r, at) \in Runtime
              /\ \A d \in Nat : ResumeRuntime(r, d) \in Runtime
              /\ CompleteRuntime(r, at) \in Runtime
              /\ MarkNotApplicable(r, at) \in Runtime
<1>1. NoRuntime \in Runtime
  BY DEF NoRuntime, Runtime, RuntimeStatus, RuntimeResult, TimeOrNever, Never
<1>2. ASSUME NEW target \in Nat  PROVE StartRuntime(at, target) \in Runtime
  <2>1. at + target * TicksPerSecond \in Time
    BY TicksPerSecondAssumption DEF Time
  <2> QED BY <1>1, <2>1 DEF StartRuntime, CalculateDeadline, Ticks, Runtime, NoRuntime,
                RuntimeStatus, TimeOrNever, Time
<1>3. ASSUME NEW r \in Runtime
      PROVE  /\ PauseRuntime(r, at) \in Runtime
             /\ \A d \in Nat : ResumeRuntime(r, d) \in Runtime
             /\ CompleteRuntime(r, at) \in Runtime
             /\ MarkNotApplicable(r, at) \in Runtime
  <2>1. PauseRuntime(r, at) \in Runtime
    BY DEF PauseRuntime, Runtime, RuntimeStatus, TimeOrNever, Time
  <2>2. ASSUME NEW d \in Nat  PROVE ResumeRuntime(r, d) \in Runtime
    <3>1. r.totalPaused + d \in Nat  BY DEF Runtime
    <3> QED BY <3>1 DEF ResumeRuntime, Runtime, RuntimeStatus, TimeOrNever, Never
  <2>3. CompleteRuntime(r, at) \in Runtime
    <3>1. CalculateResult(at, r.dueAt, r.totalPaused) \in RuntimeResult
      BY DEF CalculateResult, RuntimeResult
    <3> QED BY <3>1 DEF CompleteRuntime, Runtime, RuntimeStatus, TimeOrNever, Time, Never
  <2>4. MarkNotApplicable(r, at) \in Runtime
    BY DEF MarkNotApplicable, Runtime, RuntimeStatus, RuntimeResult, TimeOrNever, Time, Never
  <2> QED BY <2>1, <2>2, <2>3, <2>4
<1> QED BY <1>1, <1>2, <1>3

-----------------------------------------------------------------------------
(***************************************************************************)
(* Type correctness                                                        *)
(***************************************************************************)

\* Every step that moves a ticket keeps the tickets table well typed when the
\* fields it writes are.
LEMMA TicketRowType ==
  ASSUME TypeOK, NEW t \in Tickets
  PROVE  /\ \A s \in Status : [ticket EXCEPT ![t].status = s] \in [Tickets -> TicketRow]
         /\ \A s \in Status : \A u \in Users :
              /\ [ticket EXCEPT ![t].status = s, ![t].requester = u] \in [Tickets -> TicketRow]
              /\ [ticket EXCEPT ![t].status = s, ![t].assignee = u] \in [Tickets -> TicketRow]
         /\ \A u \in Users : [ticket EXCEPT ![t].assignee = u] \in [Tickets -> TicketRow]
         /\ \A f \in Time : [ticket EXCEPT ![t].firstResponseAt = f] \in [Tickets -> TicketRow]
         /\ \A a \in Time : \A b \in Users \union {NoUser} :
              [ticket EXCEPT ![t].status = "CLOSED", ![t].closedAt = a, ![t].closedBy = b]
                \in [Tickets -> TicketRow]
<1>1. ASSUME NEW s \in Status  PROVE [ticket EXCEPT ![t].status = s] \in [Tickets -> TicketRow]
  BY DEF TypeOK, TicketRow
<1>2. ASSUME NEW s \in Status, NEW u \in Users
      PROVE  [ticket EXCEPT ![t].status = s, ![t].requester = u] \in [Tickets -> TicketRow]
  BY DEF TypeOK, TicketRow
<1>3. ASSUME NEW s \in Status, NEW u \in Users
      PROVE  [ticket EXCEPT ![t].status = s, ![t].assignee = u] \in [Tickets -> TicketRow]
  BY DEF TypeOK, TicketRow
<1>4. ASSUME NEW u \in Users  PROVE [ticket EXCEPT ![t].assignee = u] \in [Tickets -> TicketRow]
  BY DEF TypeOK, TicketRow
<1>5. ASSUME NEW f \in Time  PROVE [ticket EXCEPT ![t].firstResponseAt = f] \in [Tickets -> TicketRow]
  BY DEF TypeOK, TicketRow, TimeOrNever
<1>6. ASSUME NEW a \in Time, NEW b \in Users \union {NoUser}
      PROVE  [ticket EXCEPT ![t].status = "CLOSED", ![t].closedAt = a, ![t].closedBy = b]
               \in [Tickets -> TicketRow]
  <2>1. "CLOSED" \in Status /\ a \in TimeOrNever  BY DEF Status, TimeOrNever
  <2>2. ticket[t] \in TicketRow
    BY DEF TypeOK
  <2>3. [ticket[t] EXCEPT !.status = "CLOSED", !.closedAt = a, !.closedBy = b] \in TicketRow
    BY <2>1, <2>2 DEF TicketRow
  <2>4. [ticket EXCEPT ![t] = [@ EXCEPT !.status = "CLOSED", !.closedAt = a, !.closedBy = b]]
          \in [Tickets -> TicketRow]
    BY <2>3 DEF TypeOK
  <2> QED BY <2>4
<1> QED BY <1>1, <1>2, <1>3, <1>4, <1>5, <1>6

\* The same for the SLA rows, the pauses and the resolutions of one cycle.
LEMMA CycleRowType ==
  ASSUME TypeOK, NEW t \in Tickets, NEW c \in Cycles
  PROVE  /\ \A r \in Runtime : [resolutionSla EXCEPT ![t][c] = r] \in [Tickets -> [Cycles -> Runtime]]
         /\ \A s \in Seq(PausePeriod) : [pauses EXCEPT ![t][c] = s] \in [Tickets -> [Cycles -> Seq(PausePeriod)]]
         /\ \A a \in Time : [resolvedAt EXCEPT ![t][c] = a] \in [Tickets -> [Cycles -> TimeOrNever]]
         /\ resolutionSla[t][c] \in Runtime
         /\ pauses[t][c] \in Seq(PausePeriod)
BY DEF TypeOK, TimeOrNever

\* Every step of the tables and of the job keeps them well typed.
LEMMA TypesStay ==
  ASSUME TypeOK, [Next]_vars
  PROVE  TypeOK'
<1>0. now \in Time
  BY BoundsAssumption DEF TypeOK, Time
<1>1. ASSUME NEW t \in Tickets, NEW u \in Users, Create(t, u)  PROVE TypeOK'
  <2>1. ticket' \in [Tickets -> TicketRow]
    BY <1>1, TicketRowType DEF Create, Status
  <2>2. CASE NoEffectivePolicy(now) /\ UNCHANGED <<responseSla, resolutionSla>>
    BY <1>1, <2>1, <2>2 DEF Create, TypeOK
  <2>3. ASSUME NEW p \in Policies,
               responseSla' = [responseSla EXCEPT ![t] = StartRuntime(now, p.response)],
               resolutionSla' = [resolutionSla EXCEPT ![t][1] = StartRuntime(now, p.resolution)]
        PROVE  TypeOK'
    <3>1. p.response \in Nat /\ p.resolution \in Nat /\ 1 \in Cycles
      BY PoliciesAssumption, BoundsAssumption DEF PolicyRow, Cycles
    <3>2. responseSla' \in [Tickets -> Runtime]
      BY <1>0, <2>3, <3>1, RuntimeTypes DEF TypeOK
    <3>3. resolutionSla' \in [Tickets -> [Cycles -> Runtime]]
      BY <1>0, <2>3, <3>1, RuntimeTypes, CycleRowType
    <3> QED BY <1>1, <2>1, <3>2, <3>3 DEF Create, TypeOK
  <2> QED BY <1>1, <2>2, <2>3 DEF Create
<1>2. ASSUME NEW t \in Tickets, NEW u \in Users, NEW p \in Users,
             Assign(t, u, p) \/ Reassign(t, u, p)
      PROVE  TypeOK'
  <2>1. CASE Assign(t, u, p)
    <3>1. "ASSIGNED" \in Status  BY DEF Status
    <3>2. ticket' \in [Tickets -> TicketRow]
      BY <2>1, <3>1, TicketRowType DEF Assign
    <3> QED BY <2>1, <3>2 DEF Assign, slaVars, TypeOK
  <2>2. CASE Reassign(t, u, p)
    <3>1. ticket' \in [Tickets -> TicketRow]
      BY <2>2, TicketRowType DEF Reassign
    <3> QED BY <2>2, <3>1 DEF Reassign, slaVars, TypeOK
  <2> QED BY <1>2, <2>1, <2>2
<1>3. ASSUME NEW t \in Tickets, NEW u \in Users, Start(t, u)  PROVE TypeOK'
  BY <1>3, TicketRowType DEF Start, Move, slaVars, TypeOK, Status
<1>4. ASSUME NEW t \in Tickets, NEW u \in Users, RequestInfo(t, u)  PROVE TypeOK'
  <2>1. ticket' \in [Tickets -> TicketRow]
    BY <1>4, TicketRowType DEF RequestInfo, Move, Status
  <2>2. CASE UNCHANGED <<resolutionSla, pauses>>
    BY <1>4, <2>1, <2>2 DEF RequestInfo, TypeOK
  <2>3. ASSUME NEW c \in Cycles,
               resolutionSla' = [resolutionSla EXCEPT ![t][c] = PauseRuntime(@, now)],
               pauses' = [pauses EXCEPT ![t][c] =
                 Append(@, [pausedAt |-> now, resumedAt |-> Never, duration |-> 0])]
        PROVE  TypeOK'
    <3>1. [pausedAt |-> now, resumedAt |-> Never, duration |-> 0] \in PausePeriod
      BY <1>0 DEF PausePeriod, TimeOrNever
    <3>2. pauses' \in [Tickets -> [Cycles -> Seq(PausePeriod)]]
      BY <2>3, <3>1, CycleRowType DEF TypeOK
    <3>3. resolutionSla' \in [Tickets -> [Cycles -> Runtime]]
      BY <1>0, <2>3, RuntimeTypes, CycleRowType DEF TypeOK
    <3> QED BY <1>4, <2>1, <3>2, <3>3 DEF RequestInfo, TypeOK
  <2> QED BY <1>4, <2>2, <2>3 DEF RequestInfo
<1>5. ASSUME NEW t \in Tickets, NEW u \in Users, ProvideInfo(t, u)  PROVE TypeOK'
  <2>1. ticket' \in [Tickets -> TicketRow]
    BY <1>5, TicketRowType DEF ProvideInfo, Move, Status
  <2>2. CASE UNCHANGED <<resolutionSla, pauses>>
    BY <1>5, <2>1, <2>2 DEF ProvideInfo, TypeOK
  <2>3. ASSUME NEW c \in Cycles, NEW i \in DOMAIN pauses[t][c], NEW d,
               d = PauseDuration(pauses[t][c][i].pausedAt, now),
               pauses' = [pauses EXCEPT ![t][c][i] =
                 [pausedAt |-> @.pausedAt, resumedAt |-> now, duration |-> d]],
               resolutionSla' = [resolutionSla EXCEPT ![t][c] = ResumeRuntime(@, d)]
        PROVE  TypeOK'
    <3> DEFINE ps == pauses[t][c]
               ended == [pausedAt |-> ps[i].pausedAt, resumedAt |-> now, duration |-> d]
    <3>1. ps \in Seq(PausePeriod)
      BY CycleRowType
    <3>2. ps[i] \in PausePeriod
      BY <3>1
    <3>3. d \in Nat
      BY <1>0, <2>3, <3>2, PauseDurationType DEF PausePeriod
    <3>4. ended \in PausePeriod
      BY <1>0, <3>2, <3>3 DEF PausePeriod, TimeOrNever
    <3>5. [ps EXCEPT ![i] = ended] \in Seq(PausePeriod)
      BY <3>1, <3>4
    <3>6. pauses' = [pauses EXCEPT ![t][c] = [ps EXCEPT ![i] = ended]]
      BY <2>3 DEF TypeOK
    <3>7. pauses' \in [Tickets -> [Cycles -> Seq(PausePeriod)]]
      BY <3>5, <3>6, CycleRowType
    <3>8. ResumeRuntime(resolutionSla[t][c], d) \in Runtime
      BY <1>0, <3>3, RuntimeTypes, CycleRowType
    <3>9. resolutionSla' \in [Tickets -> [Cycles -> Runtime]]
      BY <2>3, <3>8, CycleRowType DEF TypeOK
    <3> QED BY <1>5, <2>1, <3>7, <3>9 DEF ProvideInfo, TypeOK
  <2> QED BY <1>5, <2>2, <2>3 DEF ProvideInfo
<1>6. ASSUME NEW t \in Tickets, NEW u \in Users, Resolve(t, u)  PROVE TypeOK'
  <2>1. ticket' \in [Tickets -> TicketRow]
    BY <1>6, TicketRowType DEF Resolve, Move, Status
  <2>2. PICK c \in Cycles :
          /\ resolvedAt' = [resolvedAt EXCEPT ![t][c] = now]
          /\ \/ UNCHANGED resolutionSla
             \/ resolutionSla' = [resolutionSla EXCEPT ![t][c] = CompleteRuntime(@, now)]
    BY <1>6 DEF Resolve
  <2>3. resolvedAt' \in [Tickets -> [Cycles -> TimeOrNever]]
    BY <1>0, <2>2, CycleRowType
  <2>4. CompleteRuntime(resolutionSla[t][c], now) \in Runtime
    BY <1>0, RuntimeTypes, CycleRowType
  <2>5. resolutionSla' \in [Tickets -> [Cycles -> Runtime]]
    <3>1. resolutionSla \in [Tickets -> [Cycles -> Runtime]]  BY DEF TypeOK
    <3>2. [resolutionSla EXCEPT ![t][c] = CompleteRuntime(@, now)]
            \in [Tickets -> [Cycles -> Runtime]]
      BY <2>4, <3>1
    <3> QED BY <2>2, <3>1, <3>2
  <2> QED BY <1>6, <2>1, <2>3, <2>5 DEF Resolve, TypeOK
<1>7. ASSUME NEW t \in Tickets, NEW u \in Users, Close(t, u)  PROVE TypeOK'
  BY <1>0, <1>7, TicketRowType DEF Close, SetClosed, slaVars, TypeOK, Status, TimeOrNever
<1>8. ASSUME NEW t \in Tickets, NEW u \in Users, Reopen(t, u)  PROVE TypeOK'
  BY <1>8, TicketRowType DEF Reopen, Move, slaVars, TypeOK, Status
<1>9. ASSUME NEW t \in Tickets, NEW u \in Users, Resume(t, u)  PROVE TypeOK'
  <2>1. ticket' \in [Tickets -> TicketRow]
    BY <1>9, TicketRowType DEF Resume, Move, Status
  <2>2. PICK p \in Policies, c \in Cycles :
          resolutionSla' = [resolutionSla EXCEPT ![t][c] = StartRuntime(now, p.resolution)]
    BY <1>9 DEF Resume
  <2>3. p.resolution \in Nat
    BY PoliciesAssumption DEF PolicyRow
  <2>4. StartRuntime(now, p.resolution) \in Runtime
    BY <1>0, <2>3, RuntimeTypes
  <2>5. resolutionSla' \in [Tickets -> [Cycles -> Runtime]]
    BY <2>2, <2>4, CycleRowType
  <2> QED BY <1>9, <2>1, <2>5 DEF Resume, TypeOK
<1>10. ASSUME NEW t \in Tickets, NEW u \in Users, Reject(t, u)  PROVE TypeOK'
  <2> DEFINE voided(r) == IF IsLive(r) THEN MarkNotApplicable(r, now) ELSE r
  <2>1. ticket' \in [Tickets -> TicketRow]
    BY <1>10, TicketRowType DEF Reject, Move, Status
  <2>2. ASSUME NEW r \in Runtime  PROVE voided(r) \in Runtime
    BY <1>0, RuntimeTypes
  <2>3. /\ responseSla' = [responseSla EXCEPT ![t] = voided(responseSla[t])]
        /\ resolutionSla' = [resolutionSla EXCEPT ![t] =
                               [c \in Cycles |-> voided(resolutionSla[t][c])]]
    BY <1>10 DEF Reject, TypeOK
  <2> HIDE DEF voided
  <2>4. responseSla' \in [Tickets -> Runtime]
    BY <2>2, <2>3 DEF TypeOK
  <2>5. resolutionSla' \in [Tickets -> [Cycles -> Runtime]]
    <3>1. [c \in Cycles |-> voided(resolutionSla[t][c])] \in [Cycles -> Runtime]
      BY <2>2, CycleRowType
    <3> QED BY <2>3, <3>1 DEF TypeOK
  <2> QED BY <1>10, <2>1, <2>4, <2>5 DEF Reject, TypeOK
<1>11. ASSUME NEW t \in Tickets, NEW u \in Users, FirstReply(t, u)  PROVE TypeOK'
  BY <1>0, <1>11, TicketRowType, RuntimeTypes DEF FirstReply, TypeOK, TimeOrNever
<1>12. ASSUME NEW j \in Jobs, JobStep(j) \/ CrashJob(j)  PROVE TypeOK'
  <2>1. CASE StartJob(j)
    BY <1>0, <2>1 DEF StartJob, slaVars, TypeOK, JobState
  <2>2. CASE ListExpired(j)
    BY <2>2 DEF ListExpired, slaVars, TypeOK, JobState
  <2>3. ASSUME NEW t \in Tickets, CloseNext(j, t)  PROVE TypeOK'
    <3>1. job[j].at \in Time
      BY DEF TypeOK, JobState
    <3>2. ticket' \in [Tickets -> TicketRow]
      BY <2>3, <3>1, TicketRowType DEF CloseNext, SetClosed
    <3>3. job' \in [Jobs -> JobState]
      BY <2>3 DEF CloseNext, TypeOK, JobState
    <3> QED BY <2>3, <3>2, <3>3 DEF CloseNext, slaVars, TypeOK
  <2>4. ASSUME NEW t \in Tickets, SkipNext(j, t)  PROVE TypeOK'
    BY <2>4 DEF SkipNext, slaVars, TypeOK, JobState
  <2>5. CASE FinishJob(j)
    BY <2>5 DEF FinishJob, slaVars, TypeOK, JobState, IdleJob, Time
  <2>6. CASE CrashJob(j)
    BY <2>6, BoundsAssumption DEF CrashJob, slaVars, TypeOK, JobState, IdleJob, Time
  <2> QED BY <1>12, <2>1, <2>2, <2>3, <2>4, <2>5, <2>6 DEF JobStep
<1>13. CASE Tick
  BY <1>13, BoundsAssumption DEF Tick, slaVars, TypeOK
<1>14. CASE UNCHANGED vars
  BY <1>14 DEF vars, TypeOK
<1> QED BY <1>1, <1>2, <1>3, <1>4, <1>5, <1>6, <1>7, <1>8, <1>9, <1>10, <1>11, <1>12,
           <1>13, <1>14 DEF Next, UserStep

\* Every reachable state of the tables and of the job is well typed.
THEOREM TypeCorrect == Spec => []TypeOK
<1>1. Init => TypeOK
  BY RuntimeTypes, BoundsAssumption
     DEF Init, TypeOK, NoTicket, TicketRow, Status, JobState, IdleJob, Time, TimeOrNever, Never
<1> QED BY <1>1, TypesStay, PTL DEF Spec

-----------------------------------------------------------------------------
(***************************************************************************)
(* The processor in charge                                                 *)
(***************************************************************************)

\* Every step keeps the processor in charge of the tickets past triage.
LEMMA AssigneesStay ==
  ASSUME TypeOK, AssignedPastTriage, [Next]_vars
  PROVE  AssignedPastTriage'
<1> DEFINE Unassigned == {"NONE", "NEW", "REJECTED"}
           Fits(row) == row.assignee = NoUser <=> row.status \in Unassigned
<1>0. ticket \in [Tickets -> TicketRow] /\ \A t \in Tickets : Fits(ticket[t])
  BY DEF TypeOK, AssignedPastTriage
<1>1. ASSUME NEW t \in Tickets, NEW source, NEW target, Move(t, source, target),
             source \in Unassigned <=> target \in Unassigned
      PROVE  AssignedPastTriage'
  BY <1>0, <1>1 DEF Move, AssignedPastTriage, TicketRow
<1>2. ASSUME NEW t \in Tickets, NEW at, NEW by, SetClosed(t, at, by)
      PROVE  AssignedPastTriage'
  <2>1. ticket[t].status = "RESOLVED"
    BY <1>2 DEF SetClosed
  <2>2. ticket' = [ticket EXCEPT ![t].status = "CLOSED", ![t].closedAt = at,
                                 ![t].closedBy = by]
    BY <1>2 DEF SetClosed
  <2> QED BY <1>0, <2>1, <2>2 DEF AssignedPastTriage, TicketRow
<1>3. CASE UNCHANGED ticket
  BY <1>0, <1>3 DEF AssignedPastTriage
<1>4. ASSUME NEW t \in Tickets, NEW u \in Users, UserStep(t, u)
      PROVE  AssignedPastTriage'
  <2>1. CASE Create(t, u)
    <3>1. /\ ticket[t].status = "NONE"
          /\ ticket' = [ticket EXCEPT ![t].status = "NEW", ![t].requester = u]
      BY <2>1 DEF Create
    <3> QED BY <1>0, <3>1 DEF AssignedPastTriage, TicketRow
  <2>2. ASSUME NEW p \in Users, Assign(t, u, p)  PROVE AssignedPastTriage'
    BY <1>0, <2>2, UsersAssumption DEF Assign, AssignedPastTriage, TicketRow
  <2>3. ASSUME NEW p \in Users, Reassign(t, u, p)  PROVE AssignedPastTriage'
    BY <1>0, <2>3, UsersAssumption DEF Reassign, AssignedPastTriage, TicketRow
  <2>4. CASE Start(t, u)
    BY <1>1, <2>4 DEF Start
  <2>5. CASE RequestInfo(t, u)
    BY <1>1, <2>5 DEF RequestInfo
  <2>6. CASE ProvideInfo(t, u)
    BY <1>1, <2>6 DEF ProvideInfo
  <2>7. CASE Resolve(t, u)
    BY <1>1, <2>7 DEF Resolve
  <2>8. CASE Close(t, u)
    BY <1>2, <2>8 DEF Close
  <2>9. CASE Reopen(t, u)
    BY <1>1, <2>9 DEF Reopen
  <2>10. CASE Resume(t, u)
    BY <1>1, <2>10 DEF Resume
  <2>11. CASE Reject(t, u)
    BY <1>1, <2>11 DEF Reject
  <2>12. CASE FirstReply(t, u)
    <3>1. ticket' = [ticket EXCEPT ![t].firstResponseAt = now]
      BY <2>12 DEF FirstReply
    <3> QED BY <1>0, <3>1 DEF AssignedPastTriage, TicketRow
  <2> QED BY <1>4, <2>1, <2>2, <2>3, <2>4, <2>5, <2>6, <2>7, <2>8, <2>9, <2>10, <2>11,
             <2>12 DEF UserStep
<1>5. ASSUME NEW j \in Jobs, JobStep(j) \/ CrashJob(j)  PROVE AssignedPastTriage'
  <2>1. ASSUME NEW t \in Tickets, CloseNext(j, t)  PROVE AssignedPastTriage'
    BY <1>2, <2>1 DEF CloseNext
  <2> QED BY <1>3, <1>5, <2>1
          DEF JobStep, StartJob, ListExpired, SkipNext, FinishJob, CrashJob
<1> QED BY <1>3, <1>4, <1>5 DEF Next, Tick, vars

\* Whatever the order of assign, reassign, reject and the transitions, a ticket
\* has a current assignee exactly while it is past triage.
THEOREM AssigneeCorrect == Spec => []AssignedPastTriage
<1>1. Init => AssignedPastTriage
  BY DEF Init, AssignedPastTriage, NoTicket
<1> QED BY <1>1, AssigneesStay, TypeCorrect, PTL DEF Spec

-----------------------------------------------------------------------------
(***************************************************************************)
(* What is finished stays                                                  *)
(***************************************************************************)

\* The rows of one ticket, before and after a step.
Untouched(t) ==
  /\ ticket'[t] = ticket[t]
  /\ responseSla'[t] = responseSla[t]
  /\ resolutionSla'[t] = resolutionSla[t]
  /\ pauses'[t] = pauses[t]
  /\ resolvedAt'[t] = resolvedAt[t]

\* A handler writes the rows of its own ticket only, and that ticket is open.
LEMMA UserStepTouchesOpenTicket ==
  ASSUME TypeOK, NEW t \in Tickets, NEW u \in Users, UserStep(t, u), NEW s \in Tickets,
         s = t => ticket[s].status \in Terminal
  PROVE  Untouched(s)
<1> USE DEF TypeOK, Untouched, Terminal
<1>1. CASE Create(t, u)
  BY <1>1 DEF Create
<1>2. ASSUME NEW p \in Users, Assign(t, u, p)  PROVE Untouched(s)
  BY <1>2 DEF Assign, slaVars
<1>3. ASSUME NEW p \in Users, Reassign(t, u, p)  PROVE Untouched(s)
  BY <1>3 DEF Reassign, slaVars
<1>4. CASE Start(t, u)
  BY <1>4 DEF Start, Move, slaVars
<1>5. CASE RequestInfo(t, u)
  BY <1>5 DEF RequestInfo, Move
<1>6. CASE ProvideInfo(t, u)
  BY <1>6 DEF ProvideInfo, Move
<1>7. CASE Resolve(t, u)
  BY <1>7 DEF Resolve, Move
<1>8. CASE Close(t, u)
  BY <1>8 DEF Close, SetClosed, slaVars
<1>9. CASE Reopen(t, u)
  BY <1>9 DEF Reopen, Move, slaVars
<1>10. CASE Resume(t, u)
  BY <1>10 DEF Resume, Move
<1>11. CASE Reject(t, u)
  BY <1>11 DEF Reject, Move
<1>12. CASE FirstReply(t, u)
  BY <1>12 DEF FirstReply
<1> QED BY <1>1, <1>2, <1>3, <1>4, <1>5, <1>6, <1>7, <1>8, <1>9, <1>10, <1>11, <1>12
        DEF UserStep

\* The job, too: it skips a ticket it no longer finds RESOLVED.
LEMMA JobStepTouchesOpenTicket ==
  ASSUME TypeOK, NEW j \in Jobs, JobStep(j) \/ CrashJob(j), NEW s \in Tickets,
         ticket[s].status \in Terminal
  PROVE  Untouched(s)
<1>1. ASSUME NEW t \in Tickets, CloseNext(j, t)  PROVE Untouched(s)
  BY <1>1 DEF CloseNext, SetClosed, slaVars, TypeOK, Untouched, Terminal
<1> QED BY <1>1 DEF JobStep, StartJob, ListExpired, SkipNext, FinishJob, CrashJob, slaVars,
                    Untouched

\* Nothing about a closed or rejected ticket ever changes again, whatever
\* handlers and however many runs of the job are under way.
THEOREM TerminalStays == Spec => TerminalIsFinal
<1>1. ASSUME TypeOK, [Next]_vars, NEW s \in Tickets, ticket[s].status \in Terminal
      PROVE  Untouched(s)
  <2>1. ASSUME NEW t \in Tickets, NEW u \in Users, UserStep(t, u)  PROVE Untouched(s)
    BY <1>1, <2>1, UserStepTouchesOpenTicket
  <2>2. ASSUME NEW j \in Jobs, JobStep(j) \/ CrashJob(j)  PROVE Untouched(s)
    BY <1>1, <2>2, JobStepTouchesOpenTicket
  <2>3. CASE Tick \/ UNCHANGED vars
    BY <2>3 DEF Tick, slaVars, vars, Untouched
  <2> QED BY <1>1, <2>1, <2>2, <2>3 DEF Next
<1>2. TypeOK /\ [Next]_vars =>
        [\A t \in Tickets : ticket[t].status \in Terminal =>
           /\ ticket'[t] = ticket[t]
           /\ responseSla'[t] = responseSla[t]
           /\ resolutionSla'[t] = resolutionSla[t]
           /\ pauses'[t] = pauses[t]
           /\ resolvedAt'[t] = resolvedAt[t]]_vars
  BY <1>1 DEF Untouched
<1> QED BY <1>2, TypeCorrect, PTL DEF Spec, TerminalIsFinal
-----------------------------------------------------------------------------
(***************************************************************************)
(* What the auto-close job closes                                          *)
(***************************************************************************)

\* A resolution once recorded keeps its time: the next one has another number.
LEMMA ResolutionsStay ==
  ASSUME TypeOK, [Next]_vars, NEW t \in Tickets, NEW c \in Cycles, IsResolved(t, c)
  PROVE  resolvedAt'[t][c] = resolvedAt[t][c]
<1>1. ASSUME NEW s \in Tickets, NEW u \in Users, Resolve(s, u)
      PROVE  resolvedAt'[t][c] = resolvedAt[t][c]
  <2>1. PICK d \in Cycles : /\ ~IsResolved(s, d)
                            /\ resolvedAt' = [resolvedAt EXCEPT ![s][d] = now]
    BY <1>1 DEF Resolve
  <2> QED BY <2>1 DEF TypeOK, IsResolved
<1>2. ASSUME NEW s \in Tickets, NEW u \in Users, UserStep(s, u), ~Resolve(s, u)
      PROVE  UNCHANGED resolvedAt
  <2>1. CASE Create(s, u) \/ \E p \in Users : Assign(s, u, p) \/ Reassign(s, u, p)
    BY <2>1 DEF Create, Assign, Reassign
  <2>2. CASE Start(s, u) \/ RequestInfo(s, u) \/ ProvideInfo(s, u)
    BY <2>2 DEF Start, RequestInfo, ProvideInfo
  <2>3. CASE Close(s, u) \/ Reopen(s, u) \/ Resume(s, u)
    BY <2>3 DEF Close, Reopen, Resume
  <2>4. CASE Reject(s, u) \/ FirstReply(s, u)
    BY <2>4 DEF Reject, FirstReply
  <2> QED BY <1>2, <2>1, <2>2, <2>3, <2>4 DEF UserStep
<1>3. ASSUME NEW j \in Jobs, JobStep(j) \/ CrashJob(j)  PROVE UNCHANGED resolvedAt
  BY <1>3 DEF JobStep, StartJob, ListExpired, CloseNext, SkipNext, FinishJob, CrashJob
<1>4. CASE Tick \/ UNCHANGED vars
  BY <1>4 DEF Tick, vars
<1> QED BY <1>1, <1>2, <1>3, <1>4 DEF Next

\* So a window that had run out at some time stays run out at that time.
OutlivedNext(t, at) ==
  \E c \in Cycles : resolvedAt'[t][c] # Never /\ resolvedAt'[t][c] + Window <= at

\* A resolution that has outlived the window has outlived it ever after.
LEMMA OutlivedStays ==
  ASSUME TypeOK, [Next]_vars, NEW t \in Tickets, NEW at, Outlived(t, at)
  PROVE  OutlivedNext(t, at)
<1>1. PICK c \in Cycles : IsResolved(t, c) /\ resolvedAt[t][c] + Window <= at
  BY DEF Outlived
<1>2. resolvedAt'[t][c] = resolvedAt[t][c]
  BY <1>1, ResolutionsStay
<1> QED BY <1>1, <1>2 DEF IsResolved, OutlivedNext

\* No user leaves a ticket in the state the job leaves it in.
LEMMA UsersCloseInTheirName ==
  ASSUME TypeOK, NEW t \in Tickets, NEW u \in Users, UserStep(t, u),
         ticket'[t].status = "CLOSED"
  PROVE  ticket'[t].closedBy # NoUser
<1> USE DEF TypeOK, TicketRow, Terminal
<1>1. CASE Close(t, u)
  <2>1. ticket' = [ticket EXCEPT ![t].status = "CLOSED", ![t].closedAt = now,
                                 ![t].closedBy = u]
    BY <1>1 DEF Close, SetClosed
  <2> QED BY <2>1, UsersAssumption
<1>2. ASSUME NEW source, NEW target, Move(t, source, target), target # "CLOSED"
      PROVE  ticket'[t].status # "CLOSED"
  BY <1>2 DEF Move
<1>3. CASE Start(t, u) \/ RequestInfo(t, u) \/ ProvideInfo(t, u)
  BY <1>2, <1>3 DEF Start, RequestInfo, ProvideInfo
<1>4. CASE Resolve(t, u) \/ Reopen(t, u) \/ Resume(t, u) \/ Reject(t, u)
  BY <1>2, <1>4 DEF Resolve, Reopen, Resume, Reject
<1>5. CASE Create(t, u)
  <2>1. ticket' = [ticket EXCEPT ![t].status = "NEW", ![t].requester = u]
    BY <1>5 DEF Create
  <2> QED BY <2>1
<1>6. ASSUME NEW p \in Users, Assign(t, u, p) \/ Reassign(t, u, p)
      PROVE  ticket'[t].status # "CLOSED"
  BY <1>6 DEF Assign, Reassign
<1>7. CASE FirstReply(t, u)
  <2>1. /\ ticket[t].status # "CLOSED"
        /\ ticket' = [ticket EXCEPT ![t].firstResponseAt = now]
    BY <1>7 DEF FirstReply
  <2> QED BY <2>1
<1> QED BY <1>1, <1>3, <1>4, <1>5, <1>6, <1>7 DEF UserStep

\* A ticket the job closed, or has on its list, had outlived the window of one
\* of its resolutions when the job took its time.
THEOREM AutoCloseCorrect == Spec => []AutoClosedOnExpiry
<1>1. Init => AutoClosedOnExpiry
  BY DEF Init, AutoClosedOnExpiry, NoTicket, IdleJob
<1>2. ASSUME TypeOK, AutoClosedOnExpiry, [Next]_vars  PROVE AutoClosedOnExpiry'
  <2>1. ASSUME NEW t \in Tickets, NEW at, Outlived(t, at)  PROVE OutlivedNext(t, at)
    BY <1>2, <2>1, OutlivedStays
  <2>2. ASSUME NEW t \in Tickets, ticket'[t].status = "CLOSED", ticket'[t].closedBy = NoUser
        PROVE  OutlivedNext(t, ticket'[t].closedAt)
    <3>1. CASE ticket'[t] = ticket[t]
      BY <1>2, <2>1, <2>2, <3>1 DEF AutoClosedOnExpiry
    <3>2. ASSUME NEW s \in Tickets, NEW u \in Users, UserStep(s, u)
          PROVE  ticket'[t] = ticket[t]
      BY <1>2, <2>2, <3>2, UsersCloseInTheirName, UserStepTouchesOpenTicket DEF Untouched
    <3>3. ASSUME NEW j \in Jobs, NEW s \in Tickets, CloseNext(j, s), s = t
          PROVE  OutlivedNext(t, ticket'[t].closedAt)
      <4>1. ticket'[t].closedAt = job[j].at
        BY <1>2, <3>3 DEF CloseNext, SetClosed, TypeOK, TicketRow
      <4>2. Outlived(t, job[j].at)
        BY <1>2, <3>3 DEF CloseNext, IsNext, AutoClosedOnExpiry
      <4> QED BY <2>1, <4>1, <4>2
    <3>4. ASSUME NEW j \in Jobs, NEW s \in Tickets, CloseNext(j, s), s # t
          PROVE  ticket'[t] = ticket[t]
      BY <1>2, <3>4 DEF CloseNext, SetClosed, TypeOK
    <3>5. ASSUME NEW j \in Jobs, JobStep(j) \/ CrashJob(j),
                 ~\E s \in Tickets : CloseNext(j, s)
          PROVE  ticket'[t] = ticket[t]
      BY <3>5 DEF JobStep, StartJob, ListExpired, SkipNext, FinishJob, CrashJob
    <3>6. CASE Tick \/ UNCHANGED vars
      BY <3>1, <3>6 DEF Tick, vars
    <3> QED BY <1>2, <3>1, <3>2, <3>3, <3>4, <3>5, <3>6 DEF Next
  <2>3. ASSUME NEW j \in Jobs, job'[j].pc = "closing", NEW t \in job'[j].queue
        PROVE  OutlivedNext(t, job'[j].at)
    <3>1. CASE job'[j] = job[j]
      BY <1>2, <2>1, <2>3, <3>1 DEF AutoClosedOnExpiry, TypeOK, JobState
    <3>2. CASE ListExpired(j)
      <4>1. t \in Tickets /\ IsExpired(t, job[j].at) /\ job'[j].at = job[j].at
        BY <1>2, <2>3, <3>2 DEF ListExpired, TypeOK, JobState
      <4> QED BY <2>1, <4>1 DEF IsExpired, Outlived
    <3>3. ASSUME NEW s \in Tickets, CloseNext(j, s) \/ SkipNext(j, s)
          PROVE  OutlivedNext(t, job'[j].at)
      <4>1. job[j].pc = "closing" /\ t \in job[j].queue /\ job'[j].at = job[j].at
        BY <1>2, <2>3, <3>3 DEF CloseNext, SkipNext, IsNext, TypeOK, JobState
      <4> QED BY <1>2, <2>1, <4>1 DEF AutoClosedOnExpiry, TypeOK, JobState
    <3>4. CASE StartJob(j) \/ FinishJob(j) \/ CrashJob(j)
      BY <1>2, <2>3, <3>4 DEF StartJob, FinishJob, CrashJob, IdleJob, TypeOK, JobState
    <3>5. ASSUME NEW k \in Jobs, JobStep(k) \/ CrashJob(k), k # j  PROVE job'[j] = job[j]
      BY <1>2, <3>5 DEF JobStep, StartJob, ListExpired, CloseNext, SkipNext, FinishJob,
                        CrashJob, TypeOK
    <3>6. ASSUME NEW s \in Tickets, NEW u \in Users, UserStep(s, u)  PROVE job' = job
      BY <3>6 DEF UserStep, Create, Assign, Reassign, Start, RequestInfo, ProvideInfo,
                  Resolve, Close, Reopen, Resume, Reject, FirstReply
    <3>7. CASE Tick \/ UNCHANGED vars
      BY <3>1, <3>7 DEF Tick, vars
    <3> QED BY <1>2, <3>1, <3>2, <3>3, <3>4, <3>5, <3>6, <3>7 DEF Next, JobStep
  <2> QED BY <2>2, <2>3 DEF AutoClosedOnExpiry, Outlived, OutlivedNext, IsResolved
<1> QED BY <1>1, <1>2, TypeCorrect, PTL DEF Spec
=============================================================================
