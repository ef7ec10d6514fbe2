------------------- MODULE TicketWorkflowRefinement_proofs ------------------
(***************************************************************************)
(* TicketWorkflow implements TicketLifecycle, for every set of tickets,    *)
(* users, policies and jobs: each handler is a step of the lifecycle or    *)
(* none, and what the job and the clock do is a step of it or none.        *)
(*                                                                         *)
(* That the resolution rows of a ticket read as ONE clock, and its records *)
(* as ONE gapless list, is the invariant CyclesCohere of                   *)
(* TicketCycles_proofs; the mapping makes no sense without it.             *)
(***************************************************************************)
EXTENDS TicketWorkflowRefinement, TicketCycles_proofs

Runs(sla, s) == \E c \in Cycles : sla[c].status = s

Reading(sla) == IF Runs(sla, "RUNNING") THEN "on"
                ELSE IF Runs(sla, "PAUSED") THEN "held"
                ELSE "off"

Recorded(ra) == {c \in Cycles : ra[c] # Never}

\* One step of the lifecycle, or none.
LifecycleStep == Lifecycle!Next \/ UNCHANGED <<Stage, Results, Clock>>

-----------------------------------------------------------------------------
(***************************************************************************)
(* The mapping, one ticket at a time                                       *)
(***************************************************************************)

\* The mapped state, before and after a step, in terms of one ticket's rows.
LEMMA MappedValues ==
  /\ Stage = [t \in Tickets |-> ticket[t].status]
  /\ Stage' = [t \in Tickets |-> ticket'[t].status]
  /\ Results = [t \in Tickets |-> Recorded(resolvedAt[t])]
  /\ Results' = [t \in Tickets |-> Recorded(resolvedAt'[t])]
  /\ Clock = [t \in Tickets |-> Reading(resolutionSla[t])]
  /\ Clock' = [t \in Tickets |-> Reading(resolutionSla'[t])]
BY DEF Stage, Results, Clock, Recorded, Reading, Runs, HasClock, IsResolved

\* When the rows of the other tickets stay, the mapped variables move at t.
LEMMA MappedStep ==
  ASSUME NEW t \in Tickets, \A s \in Tickets : s # t => Untouched(s)
  PROVE  /\ Stage' = [Stage EXCEPT ![t] = ticket'[t].status]
         /\ Results' = [Results EXCEPT ![t] = Recorded(resolvedAt'[t])]
         /\ Clock' = [Clock EXCEPT ![t] = Reading(resolutionSla'[t])]
         /\ Stage[t] = ticket[t].status
         /\ Results[t] = Recorded(resolvedAt[t])
         /\ Clock[t] = Reading(resolutionSla[t])
<1>1. \A s \in Tickets : s # t =>
        /\ ticket'[s] = ticket[s]
        /\ resolutionSla'[s] = resolutionSla[s]
        /\ resolvedAt'[s] = resolvedAt[s]
  BY DEF Untouched
<1>2. Stage' = [Stage EXCEPT ![t] = ticket'[t].status] /\ Stage[t] = ticket[t].status
  BY <1>1, MappedValues
<1>3. /\ Results' = [Results EXCEPT ![t] = Recorded(resolvedAt'[t])]
      /\ Results[t] = Recorded(resolvedAt[t])
  BY <1>1, MappedValues
<1>4. /\ Clock' = [Clock EXCEPT ![t] = Reading(resolutionSla'[t])]
      /\ Clock[t] = Reading(resolutionSla[t])
  BY <1>1, MappedValues
<1> QED BY <1>2, <1>3, <1>4

\* Nothing moves when the rows of no ticket do.
LEMMA MappedStutter ==
  ASSUME \A s \in Tickets : Untouched(s)
  PROVE  LifecycleStep
<1>1. \A s \in Tickets : /\ ticket'[s] = ticket[s]
                         /\ resolutionSla'[s] = resolutionSla[s]
                         /\ resolvedAt'[s] = resolvedAt[s]
  BY DEF Untouched
<1>2. UNCHANGED Stage
  BY <1>1, MappedValues
<1>3. UNCHANGED Results
  BY <1>1, MappedValues
<1>4. UNCHANGED Clock
  BY <1>1, MappedValues
<1> QED BY <1>2, <1>3, <1>4 DEF LifecycleStep

\* A step that keeps the results and the clock of the ticket it moves.
LEMMA MappedKeep ==
  ASSUME NEW t \in Tickets, \A s \in Tickets : s # t => Untouched(s)
  PROVE  /\ resolvedAt'[t] = resolvedAt[t] => UNCHANGED Results
         /\ resolutionSla'[t] = resolutionSla[t] => UNCHANGED Clock
         /\ ticket'[t].status = ticket[t].status => UNCHANGED Stage
<1>1. \A s \in Tickets : s # t =>
        /\ ticket'[s] = ticket[s]
        /\ resolutionSla'[s] = resolutionSla[s]
        /\ resolvedAt'[s] = resolvedAt[s]
  BY DEF Untouched
<1>2. resolvedAt'[t] = resolvedAt[t] => UNCHANGED Results
  BY <1>1, MappedValues
<1>3. resolutionSla'[t] = resolutionSla[t] => UNCHANGED Clock
  BY <1>1, MappedValues
<1>4. ticket'[t].status = ticket[t].status => UNCHANGED Stage
  BY <1>1, MappedValues
<1> QED BY <1>2, <1>3, <1>4

\* The status alone says when the clock cannot read "on", nor "held".
LEMMA ReadingFits ==
  ASSUME NEW st, NEW sla, NEW ps, Clocked(st, sla, ps)
  PROVE  /\ st \notin {"NEW", "ASSIGNED", "IN_PROGRESS"} => Reading(sla) # "on"
         /\ st # "PENDING_INFO" => Reading(sla) \in {"on", "off"}
         /\ st \notin {"NEW", "ASSIGNED", "IN_PROGRESS", "PENDING_INFO"} => Reading(sla) = "off"
BY DEF Clocked, Reading, Runs

-----------------------------------------------------------------------------
(***************************************************************************)
(* Each handler is a step of the lifecycle                                 *)
(***************************************************************************)
LEMMA CreateOpens ==
  ASSUME TypeOK, NEW t \in Tickets, NEW u \in Users, Create(t, u),
         CoherentNext(t)
  PROVE  Lifecycle!Open(t)
<1>0. \A s \in Tickets : s # t => Untouched(s)
  BY OthersUntouched DEF UserStep
<1>1. ticket[t].status = "NONE" /\ ticket'[t].status = "NEW" /\ resolvedAt' = resolvedAt
  BY DEF Create, TypeOK, TicketRow
<1>2. Reading(resolutionSla'[t]) \in {"on", "off"}
  BY <1>1, ReadingFits DEF CoherentNext, Coherent
<1> QED BY <1>0, <1>1, <1>2, MappedStep, MappedKeep
        DEF Lifecycle!Open, Lifecycle!Move, Lifecycle!TurnClock

\* reject_ticket is the refusal of the life cycle.
LEMMA RejectRefuses ==
  ASSUME TypeOK, NEW t \in Tickets, NEW u \in Users, Reject(t, u),
         CoherentNext(t)
  PROVE  Lifecycle!Refuse(t)
<1>0. \A s \in Tickets : s # t => Untouched(s)
  BY OthersUntouched DEF UserStep
<1>1. ticket[t].status = "NEW" /\ ticket'[t].status = "REJECTED" /\ resolvedAt' = resolvedAt
  BY DEF Reject, Move, TypeOK, TicketRow
<1>2. Reading(resolutionSla'[t]) = "off"
  BY <1>1, ReadingFits DEF CoherentNext, Coherent
<1> QED BY <1>0, <1>1, <1>2, MappedStep, MappedKeep
        DEF Lifecycle!Refuse, Lifecycle!Move, Lifecycle!TurnClock

\* request_info asks, and stops the resolution clock.
LEMMA RequestInfoAsks ==
  ASSUME TypeOK, NEW t \in Tickets, NEW u \in Users, RequestInfo(t, u),
         CoherentNow(t), CoherentNext(t)
  PROVE  Lifecycle!Ask(t)
<1>0. \A s \in Tickets : s # t => Untouched(s)
  BY OthersUntouched DEF UserStep
<1>1. /\ ticket[t].status = "IN_PROGRESS" /\ ticket'[t].status = "PENDING_INFO"
      /\ resolvedAt' = resolvedAt
  BY DEF RequestInfo, Move, TypeOK, TicketRow
<1>2. Reading(resolutionSla'[t]) # "on"
  BY <1>1, ReadingFits DEF CoherentNext, Coherent
<1>3. CASE NoCurrentSla(t) /\ UNCHANGED resolutionSla
  <2>1. Reading(resolutionSla[t]) = "off" /\ Reading(resolutionSla'[t]) = "off"
    BY <1>3 DEF NoCurrentSla, IsLive, Reading, Runs
  <2> QED BY <1>0, <1>1, <2>1, MappedStep, MappedKeep
          DEF Lifecycle!Ask, Lifecycle!Move, Lifecycle!TurnClock
<1>4. ASSUME NEW c \in Cycles, resolutionSla[t][c].status = "RUNNING",
             resolutionSla' = [resolutionSla EXCEPT ![t][c] = PauseRuntime(@, now)]
      PROVE  Lifecycle!Ask(t)
  <2>1. Reading(resolutionSla[t]) = "on"
    BY <1>4 DEF Reading, Runs
  <2>2. resolutionSla'[t][c].status = "PAUSED"
    BY <1>4, RowsOfTicket DEF TypeOK, PauseRuntime, SlaRows, Runtime
  <2>3. Reading(resolutionSla'[t]) = "held"
    BY <1>2, <2>2 DEF Reading, Runs
  <2> QED BY <1>0, <1>1, <2>1, <2>3, MappedStep, MappedKeep
          DEF Lifecycle!Ask, Lifecycle!Move, Lifecycle!TurnClock
<1> QED BY <1>3, <1>4 DEF RequestInfo

\* provide_info answers, and starts the clock again.
LEMMA ProvideInfoAnswers ==
  ASSUME TypeOK, NEW t \in Tickets, NEW u \in Users, ProvideInfo(t, u),
         CoherentNow(t), CoherentNext(t)
  PROVE  Lifecycle!Answer(t)
<1>0. \A s \in Tickets : s # t => Untouched(s)
  BY OthersUntouched DEF UserStep
<1>1. /\ ticket[t].status = "PENDING_INFO" /\ ticket'[t].status = "IN_PROGRESS"
      /\ resolvedAt' = resolvedAt
  BY DEF ProvideInfo, Move, TypeOK, TicketRow
<1>2. Reading(resolutionSla[t]) # "on"
  BY <1>1, ReadingFits DEF CoherentNow, Coherent
<1>3. CASE NoCurrentSla(t) /\ UNCHANGED resolutionSla
  <2>1. Reading(resolutionSla[t]) = "off" /\ Reading(resolutionSla'[t]) = "off"
    BY <1>3 DEF NoCurrentSla, IsLive, Reading, Runs
  <2> QED BY <1>0, <1>1, <2>1, MappedStep, MappedKeep
          DEF Lifecycle!Answer, Lifecycle!Move, Lifecycle!TurnClock
<1>4. ASSUME NEW c \in Cycles, NEW d, resolutionSla[t][c].status = "PAUSED",
             resolutionSla' = [resolutionSla EXCEPT ![t][c] = ResumeRuntime(@, d)]
      PROVE  Lifecycle!Answer(t)
  <2>1. Reading(resolutionSla[t]) = "held"
    BY <1>2, <1>4 DEF Reading, Runs
  <2>2. resolutionSla'[t][c].status = "RUNNING"
    BY <1>4, RowsOfTicket DEF TypeOK, ResumeRuntime, SlaRows, Runtime
  <2>3. Reading(resolutionSla'[t]) = "on"
    BY <2>2 DEF Reading, Runs
  <2> QED BY <1>0, <1>1, <2>1, <2>3, MappedStep, MappedKeep
          DEF Lifecycle!Answer, Lifecycle!Move, Lifecycle!TurnClock
<1> QED BY <1>3, <1>4 DEF ProvideInfo

\* The records of a coherent ticket are numbered 1 to that of the last.
LEMMA RecordedUpTo ==
  ASSUME NEW sla, NEW ra, NEW at, Balanced(sla, ra, at), NEW c \in Cycles,
         ra[c] # Never, \A d \in Cycles : d > c => ra[d] = Never
  PROVE  Recorded(ra) = 1..c
BY CyclesArePositive DEF Balanced, Recorded, Cycles

\* resolve_ticket hands the work back and stops the clock.
LEMMA ResolveFinishes ==
  ASSUME TypeOK, NEW t \in Tickets, NEW u \in Users, Resolve(t, u),
         CoherentNow(t), CoherentNext(t)
  PROVE  Lifecycle!Finish(t)
<1>0. \A s \in Tickets : s # t => Untouched(s)
  BY OthersUntouched DEF UserStep
<1>1. ticket[t].status = "IN_PROGRESS" /\ ticket'[t].status = "RESOLVED"
  BY DEF Resolve, Move, TypeOK, TicketRow
<1>2. Reading(resolutionSla'[t]) = "off"
  BY <1>1, ReadingFits DEF CoherentNext, Coherent
<1>3. PICK c \in Cycles : /\ resolvedAt[t][c] = Never
                          /\ resolvedAt' = [resolvedAt EXCEPT ![t][c] = now]
  BY DEF Resolve, IsResolved
<1> DEFINE ra == resolvedAt[t]
           na == resolvedAt'[t]
<1>4. ra[c] = Never /\ na[c] # Never /\ \A d \in Cycles : d # c => na[d] = ra[d]
  BY <1>3, RowsOfTicket DEF TypeOK, Time, Never
<1>5. Balanced(resolutionSla[t], ra, now) /\ Balanced(resolutionSla'[t], na, now')
  BY DEF CoherentNow, CoherentNext, Coherent
<1>6. \A d \in Cycles : d > c => na[d] = Never
  <2> SUFFICES ASSUME NEW d \in Cycles, d > c, ra[d] # Never
               PROVE  FALSE
    BY <1>4 DEF Cycles
  <2>1. c \in 1..d
    BY DEF Cycles
  <2> QED BY <1>4, <1>5, <2>1 DEF Balanced
<1> HIDE DEF ra, na
<1>7. Recorded(na) = 1..c
  BY <1>4, <1>5, <1>6, RecordedUpTo
<1>8. Recorded(ra) = 1..(c - 1)
  <2>1. Recorded(ra) = Recorded(na) \ {c}
    BY <1>4 DEF Recorded
  <2> QED BY <1>7, <2>1, CyclesArePositive
<1>9. c - 1 \in Recorded(ra) \union {0} /\ c = (c - 1) + 1
  BY <1>8, CyclesArePositive
<1>10. Results[t] = 1..(c - 1) /\ Results' = [Results EXCEPT ![t] = 1..((c - 1) + 1)]
  BY <1>0, <1>7, <1>8, <1>9, MappedStep DEF ra, na
<1>11. \E last \in Results[t] \union {0} :
         /\ Results[t] = 1..last
         /\ Results' = [Results EXCEPT ![t] = 1..(last + 1)]
  BY <1>8, <1>9, <1>10
<1>12. Lifecycle!Move(t, "IN_PROGRESS", "RESOLVED") /\ Lifecycle!TurnClock(t, "off")
  BY <1>0, <1>1, <1>2, MappedStep DEF Lifecycle!Move, Lifecycle!TurnClock
<1> QED BY <1>11, <1>12 DEF Lifecycle!Finish

\* Resuming a reopened ticket takes the work up again, with a clock of its own.
LEMMA ResumeTakesUpAgain ==
  ASSUME TypeOK, NEW t \in Tickets, NEW u \in Users, Resume(t, u)
  PROVE  Lifecycle!TakeUpAgain(t)
<1>0. \A s \in Tickets : s # t => Untouched(s)
  BY OthersUntouched DEF UserStep
<1>1. /\ ticket[t].status = "REOPENED" /\ ticket'[t].status = "IN_PROGRESS"
      /\ resolvedAt' = resolvedAt
  BY DEF Resume, Move, TypeOK, TicketRow
<1>2. PICK p \in Policies, c \in Cycles :
        resolutionSla' = [resolutionSla EXCEPT ![t][c] = StartRuntime(now, p.resolution)]
  BY DEF Resume
<1>3. resolutionSla'[t][c].status = "RUNNING"
  BY <1>2 DEF TypeOK, StartRuntime, NoRuntime
<1>4. Reading(resolutionSla'[t]) = "on"
  BY <1>3 DEF Reading, Runs
<1> QED BY <1>0, <1>1, <1>4, MappedStep, MappedKeep
        DEF Lifecycle!TakeUpAgain, Lifecycle!Move, Lifecycle!TurnClock

\* Closing and reopening need a result on record.
LEMMA ResultOnRecord ==
  ASSUME NEW t \in Tickets, \A s \in Tickets : s # t => Untouched(s),
         \E c \in Cycles : IsLatestResolution(t, c)
  PROVE  Results[t] # {}
BY MappedStep DEF IsLatestResolution, IsResolved, Recorded

\* close_ticket ends the ticket without touching a clock.
LEMMA CloseConfirms ==
  ASSUME TypeOK, NEW t \in Tickets, NEW a, NEW b, SetClosed(t, a, b),
         UNCHANGED <<slaVars, resolvedAt>>
  PROVE  Lifecycle!Confirm(t)
<1>0. \A s \in Tickets : s # t => Untouched(s)
  BY DEF SetClosed, TypeOK, Untouched, slaVars
<1>1. ticket[t].status = "RESOLVED" /\ ticket'[t].status = "CLOSED"
  BY DEF SetClosed, TypeOK, TicketRow
<1>2. Results[t] # {}
  BY <1>0, ResultOnRecord DEF SetClosed
<1>3. Lifecycle!Move(t, "RESOLVED", "CLOSED")
  BY <1>0, <1>1, MappedStep DEF Lifecycle!Move
<1>4. UNCHANGED <<Results, Clock>>
  BY <1>0, MappedKeep DEF slaVars
<1> QED BY <1>2, <1>3, <1>4 DEF Lifecycle!Confirm

\* reopen_ticket contests the result; no clock starts yet.
LEMMA ReopenContests ==
  ASSUME TypeOK, NEW t \in Tickets, NEW u \in Users, Reopen(t, u)
  PROVE  Lifecycle!Contest(t)
<1>0. \A s \in Tickets : s # t => Untouched(s)
  BY OthersUntouched DEF UserStep
<1>1. ticket[t].status = "RESOLVED" /\ ticket'[t].status = "REOPENED"
  BY DEF Reopen, Move, TypeOK, TicketRow
<1>2. Results[t] # {}
  BY <1>0, ResultOnRecord DEF Reopen
<1>3. Lifecycle!Move(t, "RESOLVED", "REOPENED")
  BY <1>0, <1>1, MappedStep DEF Lifecycle!Move
<1>4. UNCHANGED <<Results, Clock>>
  BY <1>0, MappedKeep DEF Reopen, slaVars
<1> QED BY <1>2, <1>3, <1>4 DEF Lifecycle!Contest

\* Assigning and starting move the stage; reassigning and replying move nothing
\* that can be seen.
LEMMA AssignDispatches ==
  ASSUME TypeOK, NEW t \in Tickets, NEW u \in Users, NEW p \in Users, Assign(t, u, p)
  PROVE  Lifecycle!Dispatch(t)
<1>0. \A s \in Tickets : s # t => Untouched(s)
  BY OthersUntouched DEF UserStep
<1>1. ticket[t].status = "NEW" /\ ticket'[t].status = "ASSIGNED"
  BY DEF Assign, TypeOK, TicketRow
<1>2. Lifecycle!Move(t, "NEW", "ASSIGNED")
  BY <1>0, <1>1, MappedStep DEF Lifecycle!Move
<1>3. UNCHANGED <<Results, Clock>>
  BY <1>0, MappedKeep DEF Assign, slaVars
<1> QED BY <1>2, <1>3 DEF Lifecycle!Dispatch

\* start_ticket begins the work.
LEMMA StartBegins ==
  ASSUME TypeOK, NEW t \in Tickets, NEW u \in Users, Start(t, u)
  PROVE  Lifecycle!Begin(t)
<1>0. \A s \in Tickets : s # t => Untouched(s)
  BY OthersUntouched DEF UserStep
<1>1. ticket[t].status = "ASSIGNED" /\ ticket'[t].status = "IN_PROGRESS"
  BY DEF Start, Move, TypeOK, TicketRow
<1>2. Lifecycle!Move(t, "ASSIGNED", "IN_PROGRESS")
  BY <1>0, <1>1, MappedStep DEF Lifecycle!Move
<1>3. UNCHANGED <<Results, Clock>>
  BY <1>0, MappedKeep DEF Start, slaVars
<1> QED BY <1>2, <1>3 DEF Lifecycle!Begin

\* Assignments and replies do not show in the life cycle.
LEMMA UnseenSteps ==
  ASSUME TypeOK, NEW t \in Tickets, NEW u \in Users,
         (\E p \in Users : Reassign(t, u, p)) \/ FirstReply(t, u)
  PROVE  UNCHANGED <<Stage, Results, Clock>>
<1>0. \A s \in Tickets : s # t => Untouched(s)
  BY OthersUntouched DEF UserStep
<1>1. ticket'[t].status = ticket[t].status
  BY DEF Reassign, FirstReply, TypeOK, TicketRow
<1>2. UNCHANGED <<resolutionSla, resolvedAt>>
  BY DEF Reassign, FirstReply, slaVars
<1> QED BY <1>0, <1>1, <1>2, MappedKeep

-----------------------------------------------------------------------------
\* Every handler is a step of the life cycle of its ticket, or a stutter.
LEMMA HandlerIsLifecycleStep ==
  ASSUME TypeOK, NEW t \in Tickets, NEW u \in Users, UserStep(t, u),
         CoherentNow(t), CoherentNext(t)
  PROVE  LifecycleStep
<1>1. CASE \/ Create(t, u) \/ Reject(t, u) \/ RequestInfo(t, u) \/ ProvideInfo(t, u)
           \/ Resolve(t, u) \/ Resume(t, u)
  BY <1>1, CreateOpens, RejectRefuses, RequestInfoAsks, ProvideInfoAnswers, ResolveFinishes,
     ResumeTakesUpAgain DEF LifecycleStep, Lifecycle!Next
<1>2. CASE Close(t, u)
  BY <1>2, CloseConfirms DEF Close, LifecycleStep, Lifecycle!Next
<1>3. CASE Reopen(t, u) \/ Start(t, u) \/ \E p \in Users : Assign(t, u, p)
  BY <1>3, ReopenContests, StartBegins, AssignDispatches DEF LifecycleStep, Lifecycle!Next
<1>4. CASE FirstReply(t, u) \/ \E p \in Users : Reassign(t, u, p)
  BY <1>4, UnseenSteps DEF LifecycleStep
<1> QED BY <1>1, <1>2, <1>3, <1>4 DEF UserStep

\* Every behaviour of the handlers and the auto-close job is, step by step, one
\* the lifecycle allows: the SLA rows behave as one clock per ticket that follows
\* the status, and resolution records as one gapless list.
THEOREM WorkflowImplementsLifecycle == Spec => ImplementsLifecycle
<1>1. Init => Lifecycle!Init
  <2> SUFFICES ASSUME Init  PROVE Lifecycle!Init
    OBVIOUS
  <2>1. \A t \in Tickets : /\ ticket[t].status = "NONE"
                           /\ Recorded(resolvedAt[t]) = {}
                           /\ Reading(resolutionSla[t]) = "off"
    BY DEF Init, NoTicket, NoRuntime, Recorded, Reading, Runs
  <2> QED BY <2>1, MappedValues DEF Lifecycle!Init
<1>2. TypeOK /\ CyclesCohere /\ CyclesCohere' /\ [Next]_vars
        => [Lifecycle!Next]_<<Stage, Results, Clock>>
  <2> SUFFICES ASSUME TypeOK, CyclesCohere, CyclesCohere', [Next]_vars
               PROVE  LifecycleStep
    BY DEF LifecycleStep
  <2>1. \A t \in Tickets : CoherentNow(t) /\ CoherentNext(t)
    BY DEF CyclesCohere, CoherentNow, CoherentNext
  <2>2. ASSUME NEW t \in Tickets, NEW u \in Users, UserStep(t, u)  PROVE LifecycleStep
    BY <2>1, <2>2, HandlerIsLifecycleStep
  <2>3. ASSUME NEW j \in Jobs, NEW t \in Tickets, CloseNext(j, t)  PROVE LifecycleStep
    BY <2>3, CloseConfirms DEF CloseNext, LifecycleStep, Lifecycle!Next
  <2>4. ASSUME NEW j \in Jobs,
               StartJob(j) \/ ListExpired(j) \/ (\E s \in Tickets : SkipNext(j, s))
                 \/ FinishJob(j) \/ CrashJob(j)
        PROVE  LifecycleStep
    BY <2>4, MappedStutter
       DEF StartJob, ListExpired, SkipNext, FinishJob, CrashJob, slaVars, Untouched
  <2>5. CASE Tick \/ UNCHANGED vars
    BY <2>5, MappedStutter DEF Tick, vars, slaVars, Untouched
  <2> QED BY <2>2, <2>3, <2>4, <2>5 DEF Next, JobStep
<1> QED BY <1>1, <1>2, TypeCorrect, CyclesStayCoherent, PTL
        DEF Spec, ImplementsLifecycle, Lifecycle!Spec, Lifecycle!vars
=============================================================================
