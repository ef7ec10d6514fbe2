--------------------------- MODULE Reports_proofs ---------------------------
(***************************************************************************)
(* Proofs about what is read from the tickets and written past their       *)
(* handlers, for any number of tickets, scenarios, viewers, runs of the    *)
(* seeding script and simulated tickets.                                   *)
(*                                                                         *)
(* The tables change by steps of TicketWorkflow, whose lemmas about one    *)
(* step serve here too, and by the commit of a seeding run.  That commit   *)
(* writes what the invariant of TicketCycles_proofs asks for, with one     *)
(* exception: a ticket that the script has reopened.                       *)
(***************************************************************************)
EXTENDS Reports, TicketCycles_proofs, FiniteSetTheorems

(***************************************************************************)
(* The rows of a scenario                                                  *)
(***************************************************************************)
\* What a scenario says happened, happened before the script was run, and at
\* an instant the clock can show.
LEMMA OffsetsLieInThePast ==
  ASSUME NEW t \in Tickets, NEW at \in Time, Scenario[t].createdAgo <= at,
         NEW offset \in TimeOrNever, offset <= Scenario[t].createdAgo
  PROVE  /\ CreatedAt(t, at) \in Time
         /\ After(t, at, offset) \in TimeOrNever
         /\ offset = Never => After(t, at, offset) = Never
         /\ offset # Never => /\ After(t, at, offset) \in Time
                              /\ After(t, at, offset) # Never
                              /\ After(t, at, offset) <= at
<1>1. Scenario[t].createdAgo \in Nat /\ at \in Nat
  BY ScenarioAssumption DEF DemoScenario, Time
<1>2. CreatedAt(t, at) \in Nat /\ CreatedAt(t, at) + Scenario[t].createdAgo = at
  BY <1>1 DEF CreatedAt
<1>3. offset \in Nat \/ offset = Never
  BY DEF TimeOrNever, Time
<1> HIDE DEF CreatedAt
<1> QED BY <1>1, <1>2, <1>3 DEF After, TimeOrNever, Time, Never

\* The offsets of one scenario.
LEMMA ScenarioOffsets ==
  ASSUME NEW t \in Tickets, NEW s, s = Scenario[t]
  PROVE  /\ IsScenario(s)
         /\ s.createdAgo \in Time
         /\ \A offset \in {s.firstResponse, s.resolved, s.closed, s.reopened, s.rejected} :
              offset \in TimeOrNever /\ offset <= s.createdAgo
<1>1. s \in DemoScenario /\ IsScenario(s)
  BY ScenarioAssumption
<1>2. s.resolved <= s.createdAgo
  BY <1>1 DEF IsScenario, DemoScenario, TimeOrNever, Time, Never
<1> QED BY <1>1, <1>2 DEF IsScenario, DemoScenario

\* A runtime that is started, and completed or voided at once.
LEMMA StartedRows ==
  ASSUME NEW at \in Time, NEW target \in Nat, NEW r, r = StartRuntime(at, target)
  PROVE  /\ r \in Runtime /\ r.status = "RUNNING"
         /\ \A x \in Time : /\ CompleteRuntime(r, x) \in Runtime
                            /\ CompleteRuntime(r, x).status = "COMPLETED"
                            /\ CompleteRuntime(r, x).completedAt = x
                            /\ MarkNotApplicable(r, x) \in Runtime
                            /\ MarkNotApplicable(r, x).status = "NOT_APPLICABLE"
<1>1. r \in Runtime
  BY RuntimeTypes
<1>2. r.status = "RUNNING"
  BY DEF StartRuntime, NoRuntime
<1>3. ASSUME NEW x \in Time
      PROVE  CompleteRuntime(r, x) \in Runtime /\ MarkNotApplicable(r, x) \in Runtime
  BY <1>1, RuntimeTypes
<1>4. ASSUME NEW x \in Time
      PROVE  /\ CompleteRuntime(r, x).status = "COMPLETED"
             /\ CompleteRuntime(r, x).completedAt = x
             /\ MarkNotApplicable(r, x).status = "NOT_APPLICABLE"
  BY <1>1 DEF CompleteRuntime, MarkNotApplicable, Runtime
<1> QED BY <1>1, <1>2, <1>3, <1>4

\* The ticket and its RESPONSE row.
LEMMA DemoTicketFits ==
  ASSUME NEW t \in Tickets, NEW p \in Policies, NEW at \in Time, Scenario[t].createdAgo <= at
  PROVE  /\ DemoTicket(t, at) \in TicketRow
         /\ DemoTicket(t, at).status # "NONE"
         /\ DemoTicket(t, at).assignee = NoUser <=> DemoTicket(t, at).status = "REJECTED"
         /\ DemoTicket(t, at).status # "NEW"
         /\ DemoResponse(t, at, p) \in Runtime
         /\ StoppedOnce(DemoTicket(t, at).status, DemoTicket(t, at).firstResponseAt,
                        DemoResponse(t, at, p))
<1> DEFINE s == Scenario[t]
           first == After(t, at, s.firstResponse)
           started == StartRuntime(CreatedAt(t, at), p.response)
<1>1. IsScenario(s)
  BY ScenarioOffsets
<1>2. /\ first \in TimeOrNever
      /\ s.firstResponse # Never => first \in Time /\ first # Never
      /\ s.firstResponse = Never => first = Never
      /\ After(t, at, s.closed) \in TimeOrNever
      /\ s.rejected # Never => After(t, at, s.rejected) \in Time
      /\ CreatedAt(t, at) \in Time
      /\ s.firstResponse \in TimeOrNever
  BY ScenarioOffsets, OffsetsLieInThePast
<1>3. p.response \in Nat
  BY PoliciesAssumption DEF PolicyRow
<1>4. DemoTicket(t, at).status = s.status /\ DemoTicket(t, at).firstResponseAt = first
  BY DEF DemoTicket
<1>5. DemoTicket(t, at).assignee = IF s.status = "REJECTED" THEN NoUser ELSE DemoProcessor
  BY DEF DemoTicket
<1>6. DemoRequester \in Users /\ DemoProcessor \in Users /\ NoUser \notin Users
  BY ScenarioAssumption, UsersAssumption
<1>7. s.status \in Status /\ s.status \in {"IN_PROGRESS", "CLOSED", "REOPENED", "REJECTED"}
  BY <1>1 DEF IsScenario, Status
<1>8. DemoTicket(t, at) \in TicketRow
  <2> DEFINE closedAt == IF s.status = "CLOSED" THEN After(t, at, s.closed) ELSE Never
  <2>1. closedAt \in TimeOrNever
    BY <1>2 DEF TimeOrNever
  <2>2. DemoTicket(t, at) =
          [status          |-> s.status,
           requester       |-> DemoRequester,
           assignee        |-> IF s.status = "REJECTED" THEN NoUser ELSE DemoProcessor,
           firstResponseAt |-> first,
           closedAt        |-> closedAt,
           closedBy        |-> IF closedAt = Never THEN NoUser ELSE DemoRequester]
    BY DEF DemoTicket
  <2> HIDE DEF closedAt, first, s
  <2> QED BY <1>2, <1>6, <1>7, <2>1, <2>2 DEF TicketRow
<1>9. CASE s.rejected # Never
  <2>1. DemoResponse(t, at, p) = MarkNotApplicable(started, After(t, at, s.rejected))
    BY <1>9 DEF DemoResponse
  <2>2. DemoResponse(t, at, p) \in Runtime /\ DemoResponse(t, at, p).status = "NOT_APPLICABLE"
    BY <1>2, <1>3, <1>9, <2>1, StartedRows
  <2>3. s.status = "REJECTED"
    BY <1>1, <1>9 DEF IsScenario
  <2> QED BY <1>4, <1>5, <1>6, <1>7, <1>8, <2>2, <2>3 DEF StoppedOnce
<1>10. CASE s.rejected = Never
  <2>1. s.status # "REJECTED" /\ s.firstResponse # Never
    BY <1>1, <1>10 DEF IsScenario
  <2>2. AtLeast(0, s.firstResponse) = s.firstResponse
    BY <1>2, <2>1 DEF AtLeast, TimeOrNever, Time
  <2>3. DemoResponse(t, at, p) = CompleteRuntime(started, first)
    BY <1>10, <2>2 DEF DemoResponse
  <2>4. /\ DemoResponse(t, at, p) \in Runtime /\ DemoResponse(t, at, p).status = "COMPLETED"
        /\ DemoResponse(t, at, p).completedAt = first
    <3> HIDE DEF first
    <3> QED BY <1>2, <1>3, <2>1, <2>3, StartedRows
  <2>5. first # Never
    BY <1>2, <2>1
  <2> HIDE DEF first, s
  <2> QED BY <1>4, <1>5, <1>6, <1>7, <1>8, <2>1, <2>4, <2>5 DEF StoppedOnce
<1> QED BY <1>9, <1>10

\* The RESOLUTION rows and the resolution have the right types.
LEMMA DemoRowTypes ==
  ASSUME NEW t \in Tickets, NEW p \in Policies, NEW at \in Time, Scenario[t].createdAgo <= at
  PROVE  /\ DemoResolution(t, at, p) \in [Cycles -> Runtime]
         /\ DemoResolvedAt(t, at) \in [Cycles -> TimeOrNever]
<1> DEFINE s == Scenario[t]
           started == StartRuntime(CreatedAt(t, at), p.resolution)
           again == StartRuntime(After(t, at, s.reopened), p.resolution)
           row(c) == DemoResolution(t, at, p)[c]
<1>1. /\ CreatedAt(t, at) \in Time
      /\ s.rejected # Never => After(t, at, s.rejected) \in Time
      /\ s.resolved # Never => After(t, at, s.resolved) \in Time
      /\ s.reopened # Never => After(t, at, s.reopened) \in Time
      /\ After(t, at, s.resolved) \in TimeOrNever
  BY ScenarioOffsets, OffsetsLieInThePast
<1>2. p.resolution \in Nat
  BY PoliciesAssumption DEF PolicyRow
<1>3. /\ started \in Runtime /\ NoRuntime \in Runtime
      /\ s.rejected # Never => MarkNotApplicable(started, After(t, at, s.rejected)) \in Runtime
      /\ s.resolved # Never => CompleteRuntime(started, After(t, at, s.resolved)) \in Runtime
      /\ s.reopened # Never => again \in Runtime
  BY <1>1, <1>2, StartedRows, RuntimeTypes
<1>4. DemoResolution(t, at, p) =
        [c \in Cycles |->
           CASE c = 1 -> (IF s.rejected # Never
                            THEN MarkNotApplicable(started, After(t, at, s.rejected))
                          ELSE IF s.resolved # Never
                            THEN CompleteRuntime(started, After(t, at, s.resolved))
                          ELSE started)
             [] c = 2 /\ s.reopened # Never -> again
             [] OTHER -> NoRuntime]
  BY DEF DemoResolution
<1> HIDE DEF started, again
<1>5. ASSUME NEW c \in Cycles  PROVE row(c) \in Runtime
  <2>1. CASE c = 1
    BY <1>3, <1>4, <2>1
  <2>2. CASE c # 1 /\ c = 2 /\ s.reopened # Never
    BY <1>3, <1>4, <2>2
  <2>3. CASE c # 1 /\ ~(c = 2 /\ s.reopened # Never)
    BY <1>3, <1>4, <2>3
  <2> QED BY <2>1, <2>2, <2>3
<1>6. DemoResolution(t, at, p) \in [Cycles -> Runtime]
  BY <1>4, <1>5
<1>7. DemoResolvedAt(t, at) \in [Cycles -> TimeOrNever]
  BY <1>1 DEF DemoResolvedAt, TimeOrNever, Never
<1> QED BY <1>6, <1>7

\* Unless the script has reopened the ticket, its rows are coherent ever after.
LEMMA DemoTicketCoheres ==
  ASSUME NEW t \in Tickets, NEW p \in Policies, NEW at \in Time, Scenario[t].createdAgo <= at,
         Scenario[t].reopened = Never, NEW later \in Int, at <= later, NEW ps
  PROVE  Coherent(DemoTicket(t, at).status, DemoResolution(t, at, p), ps,
                  DemoResolvedAt(t, at), later)
<1> DEFINE s == Scenario[t]
           started == StartRuntime(CreatedAt(t, at), p.resolution)
           sla == DemoResolution(t, at, p)
           ra == DemoResolvedAt(t, at)
           result == After(t, at, s.resolved)
<1>0. IsScenario(s)
  BY ScenarioOffsets
<1>1. /\ CreatedAt(t, at) \in Time
      /\ s.rejected # Never => After(t, at, s.rejected) \in Time
      /\ s.resolved # Never => result \in Time /\ result # Never /\ result <= at
      /\ s.resolved = Never => result = Never
  BY ScenarioOffsets, OffsetsLieInThePast
<1>2. p.resolution \in Nat
  BY PoliciesAssumption DEF PolicyRow
<1>3. /\ started.status = "RUNNING"
      /\ s.rejected # Never
           => MarkNotApplicable(started, After(t, at, s.rejected)).status = "NOT_APPLICABLE"
      /\ s.resolved # Never
           => /\ CompleteRuntime(started, result).status = "COMPLETED"
              /\ CompleteRuntime(started, result).completedAt = result
  BY <1>1, <1>2, StartedRows
<1>4. 1 \in Cycles /\ Cycles \subseteq Nat \ {0} /\ \A c \in Cycles : 1..c \subseteq Cycles
  BY BoundsAssumption DEF Cycles
<1>5. sla[1] = IF s.rejected # Never THEN MarkNotApplicable(started, After(t, at, s.rejected))
               ELSE IF s.resolved # Never THEN CompleteRuntime(started, result) ELSE started
  BY <1>4 DEF DemoResolution
<1>6. ASSUME NEW c \in Cycles, c # 1  PROVE sla[c].status = "NONE" /\ ra[c] = Never
  BY <1>6 DEF DemoResolution, DemoResolvedAt, NoRuntime
<1>7. ra[1] = result
  BY <1>4 DEF DemoResolvedAt
<1>8. DemoTicket(t, at).status = s.status
  BY DEF DemoTicket
<1> HIDE DEF started, sla, ra, result
<1>9. ASSUME s.status \in {"IN_PROGRESS", "CLOSED", "REOPENED", "REJECTED"}
      PROVE  Coherent(s.status, sla, ps, ra, later)
  <2>1. \/ /\ s.status = "REJECTED" /\ sla[1].status = "NOT_APPLICABLE" /\ ra[1] = Never
        \/ /\ s.status = "IN_PROGRESS" /\ sla[1].status = "RUNNING" /\ ra[1] = Never
        \/ /\ s.status = "CLOSED" /\ sla[1].status = "COMPLETED"
           /\ ra[1] # Never /\ sla[1].completedAt = ra[1] /\ ra[1] <= later /\ ra[1] \in Time
    <3>1. CASE s.status = "REJECTED"
      BY <1>0, <1>1, <1>3, <1>5, <1>7, <3>1 DEF IsScenario
    <3>2. CASE s.status = "IN_PROGRESS"
      BY <1>0, <1>1, <1>3, <1>5, <1>7, <3>2 DEF IsScenario
    <3>3. CASE s.status = "CLOSED"
      <4>1. s.resolved # Never /\ s.rejected = Never
        BY <1>0, <3>3 DEF IsScenario
      <4>2. result \in Time /\ result # Never /\ result <= at
        BY <1>1, <4>1
      <4>3. result <= later
        BY <4>2 DEF Time
      <4> QED BY <1>3, <1>5, <1>7, <3>3, <4>1, <4>2, <4>3
    <3>4. s.status # "REOPENED"
      BY <1>0 DEF IsScenario
    <3> QED BY <1>9, <3>1, <3>2, <3>3, <3>4
  <2>2. Balanced(sla, ra, later)
    <3> SUFFICES ASSUME NEW c \in Cycles
                 PROVE  /\ ra[c] # Never => /\ ra[c] <= later
                                            /\ \A d \in 1..c : ra[d] # Never /\ ra[d] <= ra[c]
                        /\ sla[c].status # "NONE" => \A d \in 1..(c - 1) : ra[d] # Never
                        /\ sla[c].status = "COMPLETED" => ra[c] # Never
                        /\ sla[c].status # "NONE" /\ ra[c] # Never =>
                             sla[c].status = "COMPLETED" /\ sla[c].completedAt = ra[c]
      BY DEF Balanced
    <3>1. CASE c = 1
      <4>1. 1..c = {1} /\ 1..(c - 1) = {}
        BY <3>1
      <4>2. ra[1] \in Time => ra[1] <= ra[1]
        BY DEF Time
      <4> QED BY <2>1, <3>1, <4>1, <4>2
    <3>2. CASE c # 1
      BY <1>6, <3>2
    <3> QED BY <3>1, <3>2
  <2>3. Clocked(s.status, sla, ps)
    BY <1>6, <2>1 DEF Clocked
  <2>4. Accounted(s.status, sla, ra)
    <3>1. ASSUME s.status = "CLOSED"  PROVE LastResult(sla, ra, 1)
      <4>1. \A d \in Cycles : d > 1 => d # 1
        BY <1>4
      <4> QED BY <1>6, <2>1, <3>1, <4>1 DEF LastResult, Blank
    <3> QED BY <1>4, <2>1, <3>1 DEF Accounted, HandedBack
  <2> QED BY <2>2, <2>3, <2>4 DEF Coherent
<1> QED BY <1>0, <1>8, <1>9 DEF IsScenario, sla, ra

-----------------------------------------------------------------------------
(***************************************************************************)
(* The tables                                                              *)
(***************************************************************************)
\* A run that is under way took its time when every scenario could have begun.
RunsKnowTheTime ==
  \A j \in Seeders : seeder[j].pc # "idle" =>
    seeder[j].at <= now /\ \A t \in Tickets : Scenario[t].createdAgo <= seeder[j].at

\* The ticket has come to its present rows through handlers, or could have.
IsRegular(t) == part = "demo" => Scenario[t].reopened = Never

\* What holds of the tables, whichever part moves.
TablesFit ==
  /\ DemoTypeOK
  /\ AssignedPastTriage /\ ResponsesStopOnce
  /\ \A t \in Tickets : IsRegular(t) => CoherentNow(t)
  /\ RunsKnowTheTime

\* A step is one of TicketWorkflow, or one of a seeding run.
LEMMA StepsOfReports ==
  ASSUME [ReportsNext]_reportsVars
  PROVE  /\ part' = part
         /\ \/ [Next]_vars /\ UNCHANGED demoVars
            \/ part = "demo" /\ UNCHANGED dashboardVars /\ \E j \in Seeders : SeedStep(j)
<1>1. CASE DashboardMoves
  <2>1. ASSUME NEW v \in Viewers, ReportStep(v)  PROVE UNCHANGED vars
    BY <2>1 DEF ReportStep, StatusCounts, CategoryCounts, PriorityCounts, Durations,
                ReopenedCount, RatingScores, SlaResults, Answered, Says
  <2>2. ASSUME NEW t \in Tickets, Rate(t)  PROVE UNCHANGED vars
    BY <2>2 DEF Rate
  <2>3. ASSUME NEW t \in Tickets, NEW u \in Users, UserStep(t, u)  PROVE Next
    BY <2>3 DEF Next
  <2>4. ASSUME Tick  PROVE Next
    BY <2>4 DEF Next
  <2> QED BY <1>1, <2>1, <2>2, <2>3, <2>4 DEF DashboardMoves, DashboardNext
<1>2. CASE DemoMoves
  <2>1. ASSUME NEW t \in Tickets, NEW u \in Users, UserStep(t, u)  PROVE Next
    BY <2>1 DEF Next
  <2>2. ASSUME Tick  PROVE Next
    BY <2>2 DEF Next
  <2> QED BY <1>2, <2>1, <2>2 DEF DemoMoves, DemoNext
<1>3. CASE KpisMove
  BY <1>3 DEF KpisMove, reportVars
<1>4. CASE UNCHANGED reportsVars
  BY <1>4 DEF reportsVars
<1> QED BY <1>1, <1>2, <1>3, <1>4 DEF ReportsNext

\* The clock never goes back.
LEMMA TimeGoesOn ==
  ASSUME TypeOK, [Next]_vars
  PROVE  now \in Int /\ now' \in Int /\ now <= now'
<1>1. now \in Int
  BY BoundsAssumption DEF TypeOK
<1>2. ASSUME NEW t \in Tickets, NEW u \in Users, UserStep(t, u)  PROVE now' = now
  BY <1>2, HandlersStopNoClock
<1>3. ASSUME NEW j \in Jobs, JobStep(j) \/ CrashJob(j)  PROVE now' = now
  BY <1>3 DEF JobStep, StartJob, ListExpired, CloseNext, SkipNext, FinishJob, CrashJob
<1>4. CASE Tick \/ UNCHANGED vars
  BY <1>1, <1>4 DEF Tick, vars
<1> QED BY <1>1, <1>2, <1>3, <1>4 DEF Next

\* A step of TicketWorkflow keeps what holds of the tables.
LEMMA HandlersKeepTables ==
  ASSUME TablesFit, part' = part, [Next]_vars, UNCHANGED demoVars
  PROVE  TablesFit'
<1> USE DEF TablesFit, DemoTypeOK
<1>1. TypeOK' /\ AssignedPastTriage'
  BY TypesStay, AssigneesStay
<1>2. ResponsesStopOnce'
  BY ResponseStays DEF ResponsesStopOnce, ResponseNow, ResponseNext
<1>3. ASSUME NEW t \in Tickets, IsRegular(t)'  PROVE CoherentNow(t)'
  <2>1. CoherentNow(t)
    BY <1>3 DEF IsRegular
  <2>2. CoherentNext(t)
    BY <2>1, TicketStaysCoherent
  <2> QED BY <2>2 DEF CoherentNow, CoherentNext
<1>4. RunsKnowTheTime'
  <2> SUFFICES ASSUME NEW j \in Seeders, seeder'[j].pc # "idle"
               PROVE  /\ seeder'[j].at <= now'
                      /\ \A t \in Tickets : Scenario[t].createdAgo <= seeder'[j].at
    BY DEF RunsKnowTheTime
  <2>1. seeder' = seeder
    BY DEF demoVars
  <2>2. seeder[j].at \in Int /\ seeder[j].at <= now
    BY <2>1 DEF RunsKnowTheTime, SeederState, Time
  <2> QED BY <2>1, <2>2, TimeGoesOn DEF RunsKnowTheTime
<1> QED BY <1>1, <1>2, <1>3, <1>4 DEF demoVars

\* What a run does to its own state.
LEMMA RunsStayRuns ==
  ASSUME DemoTypeOK, RunsKnowTheTime, NEW j \in Seeders, SeedStep(j)
  PROVE  /\ seeder' \in [Seeders -> SeederState] /\ kills' \in 0..MaxKills
         /\ RunsKnowTheTime'
         /\ \A i \in Seeders \ {j} : seeder'[i] = seeder[i]
<1>0. /\ seeder \in [Seeders -> SeederState] /\ kills \in 0..MaxKills /\ MaxKills \in Nat
      /\ now \in Time /\ now <= now
  BY BoundsAssumption, ScenarioAssumption DEF DemoTypeOK, TypeOK, Time
<1>1. IdleSeeder \in SeederState /\ IdleSeeder.pc = "idle"
  BY DEF IdleSeeder, SeederState, Time
<1>2. PICK row \in SeederState :
        /\ seeder' = [seeder EXCEPT ![j] = row]
        /\ kills' \in 0..MaxKills
        /\ row.pc # "idle" =>
             /\ row.at <= now
             /\ \A t \in Tickets : Scenario[t].createdAgo <= row.at
        /\ now' = now
  <2> DEFINE Writes(row) ==
        /\ seeder' = [seeder EXCEPT ![j] = row]
        /\ row \in SeederState
        /\ kills' \in 0..MaxKills
        /\ row.pc # "idle" =>
             /\ row.at <= now
             /\ \A t \in Tickets : Scenario[t].createdAgo <= row.at
        /\ now' = now
  <2>1. CASE StartSeed(j)
    <3>1. Writes([pc |-> "looking", at |-> now, todo |-> Tickets, mine |-> {}])
      BY <1>0, <2>1 DEF StartSeed, SeederState, vars
    <3> QED BY <3>1
  <2>2. ASSUME NEW t \in Tickets, LookUp(j, t)  PROVE \E row \in SeederState : Writes(row)
    <3> DEFINE found == [seeder[j] EXCEPT !.todo = seeder[j].todo \ {t}]
               missing == [seeder[j] EXCEPT !.pc = "adding"]
    <3>1. /\ found \in SeederState /\ found.at = seeder[j].at
          /\ missing \in SeederState /\ missing.at = seeder[j].at
          /\ seeder[j].pc # "idle"
      BY <1>0, <2>2 DEF SeederState, LookUp
    <3>2. \/ seeder' = [seeder EXCEPT ![j] = found]
          \/ seeder' = [seeder EXCEPT ![j] = missing]
      BY <1>0, <2>2 DEF LookUp
    <3>3. now' = now /\ kills' = kills
      BY <2>2 DEF LookUp, vars
    <3>4. /\ seeder[j].at <= now
          /\ \A s \in Tickets : Scenario[s].createdAgo <= seeder[j].at
      BY <3>1 DEF RunsKnowTheTime
    <3> HIDE DEF found, missing
    <3>5. Writes(found) \/ Writes(missing)
      BY <1>0, <3>1, <3>2, <3>3, <3>4
    <3> QED BY <3>1, <3>5
  <2>3. ASSUME NEW t \in Tickets, Add(j, t)  PROVE \E row \in SeederState : Writes(row)
    <3> DEFINE added == [seeder[j] EXCEPT !.pc = "looking", !.todo = seeder[j].todo \ {t},
                                          !.mine = seeder[j].mine \union {t}]
    <3>1. added \in SeederState /\ added.at = seeder[j].at /\ seeder[j].pc # "idle"
      BY <1>0, <2>3 DEF SeederState, Add
    <3>2. seeder' = [seeder EXCEPT ![j] = added] /\ now' = now /\ kills' = kills
      BY <1>0, <2>3 DEF Add, vars
    <3>3. /\ seeder[j].at <= now
          /\ \A s \in Tickets : Scenario[s].createdAgo <= seeder[j].at
      BY <3>1 DEF RunsKnowTheTime
    <3> HIDE DEF added
    <3>4. Writes(added)
      BY <1>0, <3>1, <3>2, <3>3
    <3> QED BY <3>1, <3>4
  <2>4. ASSUME (\E t \in Tickets : Collide(j, t)) \/ CommitSeed(j)
        PROVE  \E row \in SeederState : Writes(row)
    <3>1. Writes(IdleSeeder)
      BY <1>0, <1>1, <2>4 DEF Collide, CommitSeed, vars
    <3> QED BY <3>1
  <2>5. CASE KillSeed(j)
    <3>1. Writes(IdleSeeder)
      BY <1>0, <1>1, <2>5 DEF KillSeed, vars
    <3> QED BY <3>1
  <2> QED BY <2>1, <2>2, <2>3, <2>4, <2>5 DEF SeedStep
<1>3. seeder' \in [Seeders -> SeederState] /\ \A i \in Seeders \ {j} : seeder'[i] = seeder[i]
  BY <1>0, <1>2
<1>4. RunsKnowTheTime'
  BY <1>0, <1>2 DEF RunsKnowTheTime
<1> QED BY <1>2, <1>3, <1>4

\* The rows a commit writes are those of the scenarios it has inserted.
LEMMA CommitWrites ==
  ASSUME TablesFit, NEW j \in Seeders, CommitSeed(j)
  PROVE  /\ seeder[j].at \in Time /\ seeder[j].at <= now
         /\ \A t \in Tickets : Scenario[t].createdAgo <= seeder[j].at
         /\ \E p \in Policies :
              /\ ticket' = [t \in Tickets |-> IF t \in seeder[j].mine
                              THEN DemoTicket(t, seeder[j].at) ELSE ticket[t]]
              /\ responseSla' = [t \in Tickets |-> IF t \in seeder[j].mine
                              THEN DemoResponse(t, seeder[j].at, p) ELSE responseSla[t]]
              /\ resolutionSla' = [t \in Tickets |-> IF t \in seeder[j].mine
                              THEN DemoResolution(t, seeder[j].at, p) ELSE resolutionSla[t]]
              /\ resolvedAt' = [t \in Tickets |-> IF t \in seeder[j].mine
                              THEN DemoResolvedAt(t, seeder[j].at) ELSE resolvedAt[t]]
         /\ UNCHANGED <<now, pauses, job>>
<1>1. seeder[j].at \in Time /\ seeder[j].pc = "looking"
  BY DEF CommitSeed, TablesFit, DemoTypeOK, SeederState
<1> QED BY <1>1 DEF CommitSeed, TablesFit, RunsKnowTheTime

\* A commit keeps what holds of the tables.
LEMMA CommitKeepsTables ==
  ASSUME TablesFit, part' = part, part = "demo", NEW j \in Seeders, CommitSeed(j)
  PROVE  TablesFit'
<1> DEFINE at == seeder[j].at
           new == seeder[j].mine
<1>1. /\ at \in Time /\ at <= now /\ \A t \in Tickets : Scenario[t].createdAgo <= at
      /\ UNCHANGED <<now, pauses, job>>
  BY CommitWrites
<1>2. PICK p \in Policies :
        /\ ticket' = [t \in Tickets |-> IF t \in new THEN DemoTicket(t, at) ELSE ticket[t]]
        /\ responseSla' = [t \in Tickets |->
             IF t \in new THEN DemoResponse(t, at, p) ELSE responseSla[t]]
        /\ resolutionSla' = [t \in Tickets |->
             IF t \in new THEN DemoResolution(t, at, p) ELSE resolutionSla[t]]
        /\ resolvedAt' = [t \in Tickets |->
             IF t \in new THEN DemoResolvedAt(t, at) ELSE resolvedAt[t]]
  BY CommitWrites
<1> HIDE DEF at, new
<1>3. DemoTypeOK'
  <2>1. seeder' \in [Seeders -> SeederState] /\ kills' \in 0..MaxKills
    BY RunsStayRuns DEF TablesFit, SeedStep
  <2>2. ticket' \in [Tickets -> TicketRow] /\ responseSla' \in [Tickets -> Runtime]
    BY <1>1, <1>2, DemoTicketFits DEF TablesFit, DemoTypeOK, TypeOK
  <2>3. /\ resolutionSla' \in [Tickets -> [Cycles -> Runtime]]
        /\ resolvedAt' \in [Tickets -> [Cycles -> TimeOrNever]]
    BY <1>1, <1>2, DemoRowTypes DEF TablesFit, DemoTypeOK, TypeOK
  <2> QED BY <1>1, <2>1, <2>2, <2>3 DEF TablesFit, DemoTypeOK, TypeOK
<1>4. ASSUME NEW t \in Tickets
      PROVE  /\ ticket'[t].assignee = NoUser <=> ticket'[t].status \in {"NONE", "NEW", "REJECTED"}
             /\ StoppedOnce(ticket'[t].status, ticket'[t].firstResponseAt, responseSla'[t])
             /\ IsRegular(t) => CoherentNext(t)
  <2>1. CASE t \in new
    <3>1. ticket'[t] = DemoTicket(t, at) /\ responseSla'[t] = DemoResponse(t, at, p)
      BY <1>2, <2>1
    <3>2. /\ resolutionSla'[t] = DemoResolution(t, at, p)
          /\ resolvedAt'[t] = DemoResolvedAt(t, at)
      BY <1>2, <2>1
    <3>3. IsRegular(t) => CoherentNext(t)
      <4>1. now' \in Int /\ at <= now'
        BY <1>1, BoundsAssumption DEF TablesFit, DemoTypeOK, TypeOK
      <4> QED BY <1>1, <3>1, <3>2, <4>1, DemoTicketCoheres DEF IsRegular, CoherentNext
    <3> QED BY <1>1, <3>1, <3>3, DemoTicketFits
  <2>2. CASE t \notin new
    <3>1. Untouched(t) /\ now' = now
      BY <1>1, <1>2, <2>2 DEF Untouched
    <3>2. IsRegular(t) => CoherentNext(t)
      BY <3>1 DEF TablesFit, Untouched, CoherentNow, CoherentNext
    <3> QED BY <3>1, <3>2 DEF TablesFit, Untouched, AssignedPastTriage, ResponsesStopOnce
  <2> QED BY <2>1, <2>2
<1>5. RunsKnowTheTime'
  BY RunsStayRuns DEF TablesFit, SeedStep
<1>6. ASSUME NEW t \in Tickets, IsRegular(t)'  PROVE CoherentNow(t)'
  BY <1>4, <1>6 DEF IsRegular, CoherentNow, CoherentNext
<1> QED BY <1>3, <1>4, <1>5, <1>6 DEF TablesFit, AssignedPastTriage, ResponsesStopOnce

\* Before a run commits, the tables are as they were.
LEMMA OnlyCommitsWrite ==
  ASSUME NEW j \in Seeders, SeedStep(j), ~CommitSeed(j)
  PROVE  UNCHANGED vars
BY DEF SeedStep, StartSeed, LookUp, Add, Collide, KillSeed

\* What holds of the tables holds in every state.
LEMMA TablesStayFit == ReportsSpec => []TablesFit
<1>1. ReportsInit => TablesFit
  <2> SUFFICES ASSUME ReportsInit
               PROVE  TablesFit
    OBVIOUS
  <2>1. Init /\ seeder = [j \in Seeders |-> IdleSeeder] /\ kills = 0
    BY DEF ReportsInit, DemoInit
  <2>2. TypeOK
    BY <2>1, RuntimeTypes, BoundsAssumption
       DEF Init, TypeOK, NoTicket, TicketRow, Status, JobState, IdleJob, Time, TimeOrNever,
           Never
  <2>3. seeder \in [Seeders -> SeederState] /\ kills \in 0..MaxKills /\ RunsKnowTheTime
    BY <2>1, ScenarioAssumption DEF IdleSeeder, SeederState, Time, RunsKnowTheTime
  <2>4. AssignedPastTriage /\ ResponsesStopOnce
    BY <2>1 DEF Init, AssignedPastTriage, ResponsesStopOnce, StoppedOnce, NoTicket, NoRuntime
  <2>5. \A t \in Tickets : CoherentNow(t)
    BY <2>1 DEF Init, CoherentNow, Coherent, Balanced, Clocked, Accounted, NoTicket, NoRuntime,
                HandedBack
  <2> QED BY <2>2, <2>3, <2>4, <2>5 DEF TablesFit, DemoTypeOK
<1>2. TablesFit /\ [ReportsNext]_reportsVars => TablesFit'
  <2> SUFFICES ASSUME TablesFit, [ReportsNext]_reportsVars
               PROVE  TablesFit'
    OBVIOUS
  <2>1. part' = part
    BY StepsOfReports
  <2>2. CASE [Next]_vars /\ UNCHANGED demoVars
    BY <2>1, <2>2, HandlersKeepTables
  <2>3. ASSUME part = "demo", NEW j \in Seeders, CommitSeed(j)  PROVE TablesFit'
    BY <2>1, <2>3, CommitKeepsTables
  <2>4. ASSUME NEW j \in Seeders, SeedStep(j), ~CommitSeed(j)  PROVE TablesFit'
    <3>1. UNCHANGED vars
      BY <2>4, OnlyCommitsWrite
    <3>2. DemoTypeOK' /\ RunsKnowTheTime'
      BY <2>4, <3>1, RunsStayRuns DEF TablesFit, DemoTypeOK, TypeOK, vars
    <3> QED BY <2>1, <3>1, <3>2 DEF TablesFit, vars, AssignedPastTriage, ResponsesStopOnce,
                                    CoherentNow, IsRegular
  <2> QED BY <2>2, <2>3, <2>4, StepsOfReports
<1> QED BY <1>1, <1>2, PTL DEF ReportsSpec

-----------------------------------------------------------------------------
(***************************************************************************)
(* The dataset                                                             *)
(*                                                                         *)
(* While no demo ticket is there, a run that is under way has inserted     *)
(* every ticket it is done with; and no two runs have inserted the same.   *)
(* So the run that commits first has inserted them all, and nobody else    *)
(* has anything to commit.                                                 *)
(***************************************************************************)
NothingThere == \A t \in Tickets : ~Exists(t)

InsertsFit ==
  /\ \A j \in Seeders : \A t \in seeder[j].mine : ~Exists(t)
  /\ \A i, j \in Seeders : i # j => seeder[i].mine \intersect seeder[j].mine = {}
  /\ NothingThere =>
       \A j \in Seeders : seeder[j].pc # "idle" =>
         Tickets \subseteq seeder[j].todo \union seeder[j].mine

DatasetInv == part = "demo" => DatasetIsWhole /\ InsertsFit

\* No step takes a ticket away.
LEMMA TicketsRemain ==
  ASSUME TypeOK, [Next]_vars, NEW t \in Tickets, Exists(t)
  PROVE  Exists(t)'
<1>0. ticket[t] \in TicketRow /\ ticket[t].status # "NONE"
  BY DEF TypeOK, Exists
<1>1. ASSUME NEW u \in Users, UserStep(t, u)  PROVE ticket'[t].status # "NONE"
  <2>1. ASSUME NEW source, NEW target, Move(t, source, target), target # "NONE"
        PROVE  ticket'[t].status # "NONE"
    BY <1>0, <2>1 DEF Move, TypeOK, TicketRow
  <2>2. CASE Start(t, u) \/ RequestInfo(t, u) \/ ProvideInfo(t, u) \/ Resolve(t, u)
               \/ Reopen(t, u) \/ Resume(t, u) \/ Reject(t, u)
    BY <2>1, <2>2 DEF Start, RequestInfo, ProvideInfo, Resolve, Reopen, Resume, Reject
  <2>3. ASSUME NEW p \in Users, Assign(t, u, p) \/ Reassign(t, u, p)
        PROVE  ticket'[t].status # "NONE"
    BY <1>0, <2>3 DEF Assign, Reassign, TypeOK, TicketRow
  <2>4. CASE Close(t, u)
    BY <1>0, <2>4 DEF Close, SetClosed, TypeOK, TicketRow
  <2>5. CASE FirstReply(t, u)
    BY <1>0, <2>5 DEF FirstReply, TypeOK, TicketRow
  <2>6. ~Create(t, u)
    BY <1>0 DEF Create
  <2> QED BY <1>1, <2>2, <2>3, <2>4, <2>5, <2>6 DEF UserStep
<1>2. ASSUME NEW a \in Time, SetClosed(t, a, NoUser)  PROVE ticket'[t].status # "NONE"
  BY <1>0, <1>2 DEF SetClosed, TypeOK, TicketRow
<1>3. CASE Untouched(t)
  BY <1>0, <1>3 DEF Untouched, Exists
<1> QED BY <1>1, <1>2, <1>3, StepOfTicket DEF Exists

\* What is done to a ticket that is there brings no other into being.
LEMMA NoneIsAdded ==
  ASSUME TypeOK, NEW t \in Tickets, NEW u \in Users, UserStep(t, u), Exists(t),
         NEW s \in Tickets
  PROVE  Exists(s)' <=> Exists(s)
<1>1. [Next]_vars
  BY DEF Next
<1>2. CASE s = t
  BY <1>1, <1>2, TicketsRemain
<1>3. CASE s # t
  BY <1>3, OthersUntouched DEF Untouched, Exists
<1> QED BY <1>2, <1>3

\* The commit of a run: nothing when the tickets are there, all when they are not.
LEMMA CommitIsWhole ==
  ASSUME TablesFit, DatasetIsWhole, InsertsFit, NEW j \in Seeders, CommitSeed(j)
  PROVE  DatasetIsWhole' /\ InsertsFit' /\ \A t \in Tickets : Exists(t) => ticket'[t] = ticket[t]
                                             /\ resolutionSla'[t] = resolutionSla[t]
<1> DEFINE at == seeder[j].at
           new == seeder[j].mine
<1>0. /\ seeder \in [Seeders -> SeederState]
      /\ seeder' = [seeder EXCEPT ![j] = IdleSeeder]
      /\ seeder[j].pc = "looking" /\ seeder[j].todo = {}
  BY DEF TablesFit, DemoTypeOK, CommitSeed
<1>1. \A t \in Tickets : Scenario[t].createdAgo <= at /\ at \in Time
  BY CommitWrites
<1>2. PICK p \in Policies :
        /\ ticket' = [t \in Tickets |-> IF t \in new THEN DemoTicket(t, at) ELSE ticket[t]]
        /\ resolutionSla' = [t \in Tickets |->
             IF t \in new THEN DemoResolution(t, at, p) ELSE resolutionSla[t]]
  BY CommitWrites
<1>3. ASSUME NEW t \in Tickets  PROVE Exists(t)' <=> Exists(t) \/ t \in new
  BY <1>1, <1>2, DemoTicketFits DEF Exists
<1>4. ASSUME NEW t \in Tickets, Exists(t)
      PROVE  ticket'[t] = ticket[t] /\ resolutionSla'[t] = resolutionSla[t]
  BY <1>2, <1>4 DEF InsertsFit
<1>5. /\ \A i \in Seeders \ {j} : seeder'[i] = seeder[i]
      /\ seeder'[j].mine = {} /\ seeder'[j].pc = "idle"
  BY <1>0 DEF IdleSeeder
<1>6. \A i \in Seeders : seeder[i].mine \subseteq Tickets
  BY <1>0 DEF SeederState
<1>7. CASE NothingThere
  <2>1. new = Tickets
    <3>1. Tickets \subseteq seeder[j].todo \union seeder[j].mine
      BY <1>0, <1>7 DEF InsertsFit
    <3>2. Tickets \subseteq new /\ new \subseteq Tickets
      BY <1>0, <1>6, <3>1
    <3> QED BY <3>2
  <2>2. \A t \in Tickets : Exists(t)'
    BY <1>3, <2>1
  <2>3. \A i \in Seeders : seeder'[i].mine = {}
    BY <1>5, <1>6, <2>1 DEF InsertsFit
  <2>4. NothingThere' => Tickets = {}
    BY <2>2 DEF NothingThere
  <2> QED BY <1>4, <2>2, <2>3, <2>4 DEF DatasetIsWhole, InsertsFit
<1>8. CASE ~NothingThere
  <2>1. \A t \in Tickets : Exists(t)
    BY <1>8 DEF NothingThere, DatasetIsWhole
  <2>2. /\ \A t \in Tickets : Exists(t)'
        /\ \A i \in Seeders : seeder[i].mine = {}
    BY <1>3, <1>6, <2>1 DEF InsertsFit
  <2>3. ~NothingThere'
    BY <1>8, <2>2 DEF NothingThere
  <2> QED BY <1>4, <1>5, <2>2, <2>3 DEF DatasetIsWhole, InsertsFit
<1> QED BY <1>7, <1>8

\* The other steps of a run.
LEMMA RunsKeepInserts ==
  ASSUME TablesFit, InsertsFit, NEW j \in Seeders, SeedStep(j), ~CommitSeed(j)
  PROVE  InsertsFit'
<1>0. seeder \in [Seeders -> SeederState]
  BY DEF TablesFit, DemoTypeOK
<1>1. \A t \in Tickets : Exists(t)' <=> Exists(t)
  BY OnlyCommitsWrite DEF vars, Exists
<1>2. NothingThere' <=> NothingThere
  BY <1>1 DEF NothingThere
<1>3. \A i \in Seeders : seeder[i].mine \subseteq Tickets
  BY <1>0 DEF SeederState
<1>4. ASSUME \A i \in Seeders \ {j} : seeder'[i] = seeder[i],
             \A t \in seeder'[j].mine :
               t \in Tickets /\ ~Exists(t) /\ \A i \in Seeders \ {j} : t \notin seeder[i].mine,
             NothingThere /\ seeder'[j].pc # "idle"
               => Tickets \subseteq seeder'[j].todo \union seeder'[j].mine
      PROVE  InsertsFit'
  <2>1. ASSUME NEW i \in Seeders, NEW t \in seeder'[i].mine  PROVE ~Exists(t)'
    BY <1>1, <1>3, <1>4, <2>1 DEF InsertsFit
  <2>2. ASSUME NEW i \in Seeders, NEW k \in Seeders, i # k
        PROVE  seeder'[i].mine \intersect seeder'[k].mine = {}
    BY <1>4, <2>2 DEF InsertsFit
  <2>3. ASSUME NothingThere', NEW i \in Seeders, seeder'[i].pc # "idle"
        PROVE  Tickets \subseteq seeder'[i].todo \union seeder'[i].mine
    BY <1>2, <1>4, <2>3 DEF InsertsFit
  <2> QED BY <2>1, <2>2, <2>3 DEF InsertsFit
<1>5. CASE StartSeed(j)
  BY <1>0, <1>4, <1>5 DEF StartSeed
<1>6. ASSUME NEW t \in Tickets, LookUp(j, t)  PROVE InsertsFit'
  <2>1. /\ \A i \in Seeders \ {j} : seeder'[i] = seeder[i]
        /\ seeder'[j].mine = seeder[j].mine
        /\ seeder[j].pc # "idle"
        /\ ~Exists(t) => seeder'[j].todo = seeder[j].todo
    BY <1>0, <1>6 DEF LookUp, SeederState
  <2>2. \A s \in seeder'[j].mine :
          s \in Tickets /\ ~Exists(s) /\ \A i \in Seeders \ {j} : s \notin seeder[i].mine
    BY <1>3, <2>1 DEF InsertsFit
  <2>3. NothingThere => Tickets \subseteq seeder'[j].todo \union seeder'[j].mine
    BY <2>1 DEF InsertsFit, NothingThere
  <2> QED BY <1>4, <2>1, <2>2, <2>3
<1>7. ASSUME NEW t \in Tickets, Add(j, t)  PROVE InsertsFit'
  <2>1. /\ \A i \in Seeders \ {j} : seeder'[i] = seeder[i]
        /\ seeder'[j].mine = seeder[j].mine \union {t}
        /\ seeder'[j].todo = seeder[j].todo \ {t}
        /\ seeder[j].pc # "idle"
        /\ ~Exists(t) /\ \A i \in Seeders \ {j} : t \notin seeder[i].mine
    BY <1>0, <1>7 DEF Add, SeederState, IsHeld
  <2>2. \A s \in seeder'[j].mine :
          s \in Tickets /\ ~Exists(s) /\ \A i \in Seeders \ {j} : s \notin seeder[i].mine
    BY <1>3, <2>1 DEF InsertsFit
  <2>3. NothingThere => Tickets \subseteq seeder'[j].todo \union seeder'[j].mine
    BY <2>1 DEF InsertsFit
  <2> QED BY <1>4, <2>1, <2>2, <2>3
<1>8. ASSUME seeder' = [seeder EXCEPT ![j] = IdleSeeder]  PROVE InsertsFit'
  BY <1>0, <1>4, <1>8 DEF IdleSeeder
<1> QED BY <1>5, <1>6, <1>7, <1>8 DEF SeedStep, Collide, KillSeed

\* The dataset is whole in every state.
LEMMA DatasetStaysWhole == ReportsSpec => []DatasetInv
<1>1. ReportsInit => DatasetInv
  BY DEF ReportsInit, DemoInit, Init, DatasetInv, DatasetIsWhole, InsertsFit, Exists, NoTicket,
         IdleSeeder
<1>2. TablesFit /\ DatasetInv /\ [ReportsNext]_reportsVars => DatasetInv'
  <2> SUFFICES ASSUME TablesFit, DatasetIsWhole, InsertsFit, part = "demo",
                      [ReportsNext]_reportsVars
               PROVE  DatasetIsWhole' /\ InsertsFit'
    BY StepsOfReports DEF DatasetInv
  <2>1. ASSUME \A t \in Tickets : Exists(t)' <=> Exists(t), seeder' = seeder
        PROVE  DatasetIsWhole' /\ InsertsFit'
    <3>1. \A j \in Seeders : seeder[j].mine \subseteq Tickets
      BY DEF TablesFit, DemoTypeOK, SeederState
    <3> QED BY <2>1, <3>1 DEF DatasetIsWhole, InsertsFit, NothingThere
  <2>2. ASSUME NEW j \in Seeders, CommitSeed(j)  PROVE DatasetIsWhole' /\ InsertsFit'
    BY <2>2, CommitIsWhole
  <2>3. ASSUME NEW j \in Seeders, SeedStep(j), ~CommitSeed(j)
        PROVE  DatasetIsWhole' /\ InsertsFit'
    <3>1. InsertsFit'
      BY <2>3, RunsKeepInserts
    <3>2. DatasetIsWhole'
      BY <2>3, OnlyCommitsWrite DEF vars, DatasetIsWhole, Exists
    <3> QED BY <3>1, <3>2
  <2>4. ASSUME NEW t \in Tickets, NEW u \in Users, Exists(t), UserStep(t, u),
               UNCHANGED demoVars
        PROVE  DatasetIsWhole' /\ InsertsFit'
    BY <2>1, <2>4, NoneIsAdded DEF TablesFit, DemoTypeOK, demoVars
  <2>5. CASE UNCHANGED <<ticket, demoVars>>
    BY <2>1, <2>5 DEF demoVars, Exists
  <2>6. DemoMoves \/ UNCHANGED reportsVars
    BY DEF ReportsNext, DashboardMoves, KpisMove
  <2> QED BY <2>2, <2>3, <2>4, <2>5, <2>6 DEF DemoMoves, DemoNext, Tick, reportsVars, vars
<1> QED BY <1>1, <1>2, TablesStayFit, PTL DEF ReportsSpec

\* The demo tickets are there as a whole or not at all, whatever runs of the
\* script overlap or die; and the rows it writes past the handlers are ones that
\* these keep consistent for good, unless it has reopened the ticket.
THEOREM DemoStaysCoherent == ReportsSpec => []DemoDataIsCoherent
<1>1. TablesFit /\ DatasetInv => DemoDataIsCoherent
  <2> SUFFICES ASSUME TablesFit, DatasetInv
               PROVE  DemoDataIsCoherent
    OBVIOUS
  <2>1. ResponseClock
    BY DEF TablesFit, ResponsesStopOnce, StoppedOnce, ResponseClock
  <2>2. ASSUME part = "demo", NEW t \in Tickets, Scenario[t].reopened = Never
        PROVE  ClockFits(t) /\ NoConflict(t) /\ LedgerAgrees(t) /\ HasResult(t)
    <3>1. CoherentNow(t)
      BY <2>2 DEF TablesFit, IsRegular
    <3> QED BY <3>1, CoherentFollows, CoherentAddsUp
  <2> QED BY <2>1, <2>2 DEF TablesFit, DatasetInv, DemoDataIsCoherent, DemoTicketsAreCoherent
<1> QED BY <1>1, TablesStayFit, DatasetStaysWhole, PTL

\* Seeding again, twice at once or half-way changes no ticket that is there.
THEOREM WorkStaysKept == ReportsSpec => WorkIsKept
<1>1. TablesFit /\ DatasetInv /\ [ReportsNext]_reportsVars
        => [part = "demo" => SeedersKeepWork]_reportsVars
  <2> SUFFICES ASSUME TablesFit, DatasetInv, part = "demo", NEW j \in Seeders, SeedStep(j),
                      NEW t \in Tickets, Exists(t)
               PROVE  ticket'[t] = ticket[t] /\ resolutionSla'[t] = resolutionSla[t]
    BY DEF SeedersKeepWork
  <2>1. CASE CommitSeed(j)
    BY <2>1, CommitIsWhole DEF DatasetInv
  <2>2. CASE ~CommitSeed(j)
    BY <2>2, OnlyCommitsWrite DEF vars
  <2> QED BY <2>1, <2>2
<1> QED BY <1>1, TablesStayFit, DatasetStaysWhole, PTL DEF ReportsSpec, WorkIsKept

-----------------------------------------------------------------------------
(***************************************************************************)
(* The dashboard                                                           *)
(*                                                                         *)
(* Between the statements of an overview tickets are filed and closed, and *)
(* none is taken away or opened again.  So a number read earlier is at     *)
(* most what the same query would give now.                                *)
(***************************************************************************)
ClosedTickets == {t \in Tickets : ticket[t].status = "CLOSED"}

\* The report r of a viewer fits the numbers of tickets filed and closed so far.
NumbersFit(v, r, filed, closed) ==
  /\ r.total <= filed /\ r.byCategory <= filed /\ r.byPriority <= filed
  /\ r.responded <= filed /\ r.resolved <= filed /\ r.reopened <= filed
  /\ r.rated <= filed /\ r.met + r.breached <= filed
  /\ HasRole(v, "ADMIN") =>
       /\ r.total = r.open + r.closed + r.rejected
       /\ r.closed <= closed
       /\ r.done >= 2 => r.total <= r.byCategory
       /\ r.done >= 3 => r.byCategory <= r.byPriority
       /\ r.done >= 4 => r.closed <= r.resolved

OverviewInv ==
  /\ rated \subseteq Tickets
  /\ report \in [Viewers -> Report]
  /\ \/ part = "dashboard"
     \/ report = [v \in Viewers |-> NoReport]
  /\ \A v \in Viewers :
       NumbersFit(v, report[v], Cardinality(Filed), Cardinality(ClosedTickets))

\* Some of the tickets are at most all of them.
LEMMA SomeOfTheTickets ==
  ASSUME NEW T \in SUBSET Tickets, NEW S \in SUBSET T
  PROVE  /\ IsFiniteSet(S)
         /\ Cardinality(S) \in Count /\ Cardinality(T) \in Count
         /\ Cardinality(S) \in Nat /\ Cardinality(T) \in Nat
         /\ Cardinality(S) <= Cardinality(T)
<1>1. IsFiniteSet(T) /\ Cardinality(T) <= Cardinality(Tickets)
  BY FiniteAssumption, FS_Subset
<1>2. IsFiniteSet(S) /\ Cardinality(S) <= Cardinality(T)
  BY <1>1, FS_Subset
<1>3. /\ Cardinality(S) \in Nat /\ Cardinality(T) \in Nat /\ Cardinality(Tickets) \in Nat
  BY <1>1, <1>2, FiniteAssumption, FS_CardinalityType
<1> QED BY <1>1, <1>2, <1>3 DEF Count

\* Two kinds of tickets are counted one after the other.
LEMMA CountedApart ==
  ASSUME NEW S \in SUBSET Tickets, NEW T \in SUBSET Tickets, S \intersect T = {}
  PROVE  Cardinality(S \union T) = Cardinality(S) + Cardinality(T)
<1>1. IsFiniteSet(S) /\ IsFiniteSet(T) /\ Cardinality(S) \in Nat /\ Cardinality(T) \in Nat
  BY SomeOfTheTickets
<1>2. Cardinality(S \union T) = Cardinality(S) + Cardinality(T) - Cardinality({})
  BY <1>1, FS_Union
<1> QED BY <1>1, <1>2, FS_EmptySet

\* A ticket once closed is closed.
LEMMA ClosedRemain ==
  ASSUME TypeOK, [Next]_vars, NEW t \in Tickets, ticket[t].status = "CLOSED"
  PROVE  ticket'[t].status = "CLOSED"
<1>1. ASSUME NEW u \in Users, UserStep(t, u)  PROVE Untouched(t)
  BY <1>1, UserStepTouchesOpenTicket DEF Terminal
<1>2. ASSUME NEW a \in Time  PROVE ~SetClosed(t, a, NoUser)
  BY DEF SetClosed
<1> QED BY <1>1, <1>2, StepOfTicket DEF Untouched

\* The numbers of tickets filed and closed only grow.
LEMMA NumbersGrow ==
  ASSUME TypeOK, [Next]_vars
  PROVE  /\ Cardinality(Filed) <= Cardinality(Filed')
         /\ Cardinality(ClosedTickets) <= Cardinality(ClosedTickets')
         /\ {Cardinality(Filed), Cardinality(Filed')} \subseteq Nat
         /\ {Cardinality(ClosedTickets), Cardinality(ClosedTickets')} \subseteq Nat
<1>1. Filed \subseteq Filed' /\ Filed' \subseteq Tickets
  BY TicketsRemain DEF Filed, Exists
<1>2. ClosedTickets \subseteq ClosedTickets' /\ ClosedTickets' \subseteq Tickets
  BY ClosedRemain DEF ClosedTickets
<1> QED BY <1>1, <1>2, SomeOfTheTickets

\* What fitted then fits now.
LEMMA StillFits ==
  ASSUME NEW v, NEW r \in Report, NEW filed \in Nat, NEW closed \in Nat,
         NumbersFit(v, r, filed, closed),
         NEW moreFiled \in Nat, filed <= moreFiled, NEW moreClosed \in Nat, closed <= moreClosed
  PROVE  NumbersFit(v, r, moreFiled, moreClosed)
<1>1. /\ r.total \in Nat /\ r.byCategory \in Nat /\ r.byPriority \in Nat
      /\ r.responded \in Nat /\ r.resolved \in Nat /\ r.reopened \in Nat
      /\ r.rated \in Nat /\ r.met \in Nat /\ r.breached \in Nat /\ r.closed \in Nat
  <2>1. Count \subseteq Nat
    BY FiniteAssumption, FS_CardinalityType DEF Count
  <2> QED BY <2>1 DEF Report
<1> QED BY <1>1 DEF NumbersFit

\* Nothing has been read.
LEMMA NothingRead ==
  /\ NoReport \in Report
  /\ \A v : \A filed, closed \in Nat : NumbersFit(v, NoReport, filed, closed)
<1>1. 0 \in Count /\ 0 \in Step
  BY FiniteAssumption, FS_CardinalityType DEF Count, Step, Statements
<1> QED BY <1>1 DEF NoReport, Report, NumbersFit

\* What a statement counts.
LEMMA WhatIsSeen ==
  ASSUME NEW v \in Viewers
  PROVE  /\ InScope(v) \subseteq Filed /\ Filed \subseteq Tickets
         /\ ClosedTickets \subseteq Tickets
         /\ HasRole(v, "ADMIN") => InScope(v) = Filed
BY DEF InScope, Filed, ClosedTickets

\* The first statement.
LEMMA StatusesAddUp ==
  ASSUME NEW v \in Viewers
  PROVE  /\ Cardinality(InScope(v)) =
              Cardinality({t \in InScope(v) : IsOpenTicket(t)})
                + Cardinality(WithStatus(v, {"CLOSED"})) + Cardinality(WithStatus(v, {"REJECTED"}))
         /\ Cardinality(WithStatus(v, {"CLOSED"})) <= Cardinality(ClosedTickets)
<1> DEFINE open == {t \in InScope(v) : IsOpenTicket(t)}
           closed == WithStatus(v, {"CLOSED"})
           rejected == WithStatus(v, {"REJECTED"})
<1>1. /\ open \subseteq Tickets /\ closed \subseteq Tickets /\ rejected \subseteq Tickets
      /\ open \intersect closed = {} /\ (open \union closed) \intersect rejected = {}
      /\ InScope(v) = (open \union closed) \union rejected
      /\ closed \subseteq ClosedTickets
  BY WhatIsSeen DEF WithStatus, IsOpenTicket, Terminal, ClosedTickets
<1> HIDE DEF open, closed, rejected
<1>2. Cardinality(open \union closed) = Cardinality(open) + Cardinality(closed)
  BY <1>1, CountedApart
<1>3. Cardinality((open \union closed) \union rejected)
        = Cardinality(open \union closed) + Cardinality(rejected)
  BY <1>1, CountedApart
<1>4. Cardinality(closed) <= Cardinality(ClosedTickets)
  BY <1>1, WhatIsSeen, SomeOfTheTickets
<1>5. /\ Cardinality(open) \in Nat /\ Cardinality(closed) \in Nat /\ Cardinality(rejected) \in Nat
  BY <1>1, SomeOfTheTickets
<1>6. Cardinality(InScope(v)) = Cardinality(open) + Cardinality(closed) + Cardinality(rejected)
  BY <1>1, <1>2, <1>3, <1>5
<1> QED BY <1>4, <1>6 DEF open, closed, rejected

\* Every closed ticket has a resolution time, so it is in the average.
LEMMA ClosedAreResolved ==
  ASSUME NEW v \in Viewers, HasRole(v, "ADMIN"), \A t \in Tickets : CoherentNow(t)
  PROVE  ClosedTickets \subseteq {t \in InScope(v) : \E c \in Cycles : IsResolved(t, c)}
<1> SUFFICES ASSUME NEW t \in Tickets, ticket[t].status = "CLOSED"
             PROVE  t \in InScope(v) /\ \E c \in Cycles : IsResolved(t, c)
  BY DEF ClosedTickets
<1>1. HasResult(t)
  BY CoherentAddsUp
<1>2. t \in InScope(v)
  BY DEF InScope, Filed
<1> QED BY <1>1, <1>2 DEF HasResult

\* The last statement: a ticket is not on both sides.
LEMMA VerdictsApart ==
  ASSUME NEW v \in Viewers
  PROVE  Cardinality(OverallIs(v, "MET")) + Cardinality(OverallIs(v, "BREACHED"))
           <= Cardinality(Filed)
<1>1. /\ OverallIs(v, "MET") \subseteq Filed /\ OverallIs(v, "BREACHED") \subseteq Filed
      /\ OverallIs(v, "MET") \intersect OverallIs(v, "BREACHED") = {}
  BY WhatIsSeen DEF OverallIs
<1>2. Cardinality(OverallIs(v, "MET") \union OverallIs(v, "BREACHED")) <= Cardinality(Filed)
  BY <1>1, WhatIsSeen, SomeOfTheTickets
<1> QED BY <1>1, <1>2, WhatIsSeen, CountedApart

\* A statement writes numbers of the right type.
LEMMA ReportTypes ==
  ASSUME NEW r \in Report, NEW n \in Step, NEW a \in Count, NEW b \in Count
  PROVE  /\ [r EXCEPT !.done = n, !.byCategory = a] \in Report
         /\ [r EXCEPT !.done = n, !.byPriority = a] \in Report
         /\ [r EXCEPT !.done = n, !.responded = a, !.resolved = b] \in Report
         /\ [r EXCEPT !.done = n, !.reopened = a] \in Report
         /\ [r EXCEPT !.done = n, !.rated = a] \in Report
         /\ [r EXCEPT !.done = n, !.met = a, !.breached = b] \in Report
         /\ \A c, d \in Count : [r EXCEPT !.done = n, !.total = a, !.open = b,
                                          !.closed = c, !.rejected = d] \in Report
<1>1. [r EXCEPT !.done = n, !.byCategory = a] \in Report
  BY DEF Report
<1>2. [r EXCEPT !.done = n, !.byPriority = a] \in Report
  BY DEF Report
<1>3. [r EXCEPT !.done = n, !.responded = a, !.resolved = b] \in Report
  BY DEF Report
<1>4. [r EXCEPT !.done = n, !.reopened = a] \in Report
  BY DEF Report
<1>5. [r EXCEPT !.done = n, !.rated = a] \in Report
  BY DEF Report
<1>6. [r EXCEPT !.done = n, !.met = a, !.breached = b] \in Report
  BY DEF Report
<1>7. ASSUME NEW c \in Count, NEW d \in Count
      PROVE  [r EXCEPT !.done = n, !.total = a, !.open = b, !.closed = c, !.rejected = d] \in Report
  BY DEF Report
<1> QED BY <1>1, <1>2, <1>3, <1>4, <1>5, <1>6, <1>7

\* Each statement, and the answer, leaves the viewer with a report that fits the
\* tickets there are.
LEMMA StatementFits ==
  ASSUME OverviewInv, NEW v \in Viewers, ReportStep(v), \A t \in Tickets : CoherentNow(t)
  PROVE  \E r \in Report :
           /\ report' = [report EXCEPT ![v] = r]
           /\ NumbersFit(v, r, Cardinality(Filed), Cardinality(ClosedTickets))
<1> DEFINE filed == Cardinality(Filed)
           closed == Cardinality(ClosedTickets)
           seen == Cardinality(InScope(v))
           old == report[v]
           Reads(r) == /\ r \in Report
                       /\ report' = [report EXCEPT ![v] = r]
                       /\ NumbersFit(v, r, filed, closed)
<1>1. /\ old \in Report /\ NumbersFit(v, old, filed, closed)
      /\ filed \in Nat /\ closed \in Nat
      /\ seen \in Count /\ seen \in Nat /\ seen <= filed
      /\ HasRole(v, "ADMIN") => seen = filed
  BY WhatIsSeen, SomeOfTheTickets DEF OverviewInv
<1>2. /\ Count \subseteq Nat /\ 0 \in Count
      /\ Step = 0..7 /\ 1 \in Step /\ 2 \in Step /\ 3 \in Step /\ 4 \in Step
      /\ 5 \in Step /\ 6 \in Step /\ 7 \in Step
  BY FiniteAssumption, FS_CardinalityType DEF Count, Step, Statements
<1>3. ASSUME NEW S \in SUBSET InScope(v)
      PROVE  Cardinality(S) \in Count /\ Cardinality(S) <= filed
  BY WhatIsSeen, SomeOfTheTickets
<1> HIDE DEF filed, closed, seen, old
<1>4. CASE StatusCounts(v)
  <2> DEFINE open == Cardinality({t \in InScope(v) : IsOpenTicket(t)})
             done == Cardinality(WithStatus(v, {"CLOSED"}))
             rejected == Cardinality(WithStatus(v, {"REJECTED"}))
             r == [NoReport EXCEPT !.done = 1, !.total = seen, !.open = open,
                                   !.closed = done, !.rejected = rejected]
  <2>1. open \in Count /\ done \in Count /\ rejected \in Count
    BY <1>3 DEF WithStatus
  <2>2. seen = open + done + rejected /\ done <= closed
    BY StatusesAddUp DEF seen, closed
  <2>3. report' = [report EXCEPT ![v] = r]
    BY <1>4 DEF StatusCounts, Says, seen
  <2> HIDE DEF open, done, rejected
  <2>4. r \in Report
    BY <1>1, <1>2, <2>1, NothingRead, ReportTypes
  <2>5. NumbersFit(v, r, filed, closed)
    BY <1>1, <2>2 DEF NumbersFit, NoReport
  <2> QED BY <2>3, <2>4, <2>5 DEF filed, closed
<1>5. CASE CategoryCounts(v)
  <2> DEFINE r == [old EXCEPT !.done = 2, !.byCategory = seen]
  <2>1. r \in Report /\ report' = [report EXCEPT ![v] = r]
    BY <1>1, <1>2, <1>5, ReportTypes DEF CategoryCounts, Says, seen, old
  <2>2. NumbersFit(v, r, filed, closed)
    BY <1>1, <1>2 DEF NumbersFit, Report
  <2> QED BY <2>1, <2>2 DEF filed, closed
<1>6. CASE PriorityCounts(v)
  <2> DEFINE r == [old EXCEPT !.done = 3, !.byPriority = seen]
  <2>0. r \in Report
    BY <1>1, <1>2, ReportTypes
  <2>1. report' = [report EXCEPT ![v] = r] /\ old.done = 2
    BY <1>6 DEF PriorityCounts, Says, seen, old
  <2>2. NumbersFit(v, r, filed, closed)
    BY <1>1, <1>2, <2>1 DEF NumbersFit, Report
  <2> QED BY <2>0, <2>1, <2>2 DEF filed, closed
<1>7. CASE Durations(v)
  <2> DEFINE responded == Cardinality({t \in InScope(v) : ticket[t].firstResponseAt # Never})
             resolved == Cardinality({t \in InScope(v) : \E c \in Cycles : IsResolved(t, c)})
             r == [old EXCEPT !.done = 4, !.responded = responded, !.resolved = resolved]
  <2>1. responded \in Count /\ resolved \in Count /\ responded <= filed /\ resolved <= filed
    BY <1>3
  <2>2. HasRole(v, "ADMIN") => closed <= resolved
    <3> DEFINE S == {t \in InScope(v) : \E c \in Cycles : IsResolved(t, c)}
    <3> SUFFICES ASSUME HasRole(v, "ADMIN")
                 PROVE  Cardinality(ClosedTickets) <= Cardinality(S)
      BY DEF closed
    <3>1. ClosedTickets \subseteq S /\ S \subseteq Tickets
      BY ClosedAreResolved, WhatIsSeen
    <3> QED BY <3>1, SomeOfTheTickets
  <2>3. report' = [report EXCEPT ![v] = r] /\ old.done = 3
    BY <1>7 DEF Durations, Says, old
  <2> HIDE DEF responded, resolved
  <2>4. r \in Report
    BY <1>1, <1>2, <2>1, ReportTypes
  <2>5. NumbersFit(v, r, filed, closed)
    BY <1>1, <1>2, <2>1, <2>2, <2>3 DEF NumbersFit, Report
  <2> QED BY <2>3, <2>4, <2>5 DEF filed, closed
<1>8. CASE ReopenedCount(v)
  <2> DEFINE reopened == Cardinality({t \in InScope(v) : WasReopened(t)})
             r == [old EXCEPT !.done = 5, !.reopened = reopened]
  <2>1. reopened \in Count /\ reopened <= filed
    BY <1>3
  <2>2. report' = [report EXCEPT ![v] = r] /\ old.done = 4
    BY <1>8 DEF ReopenedCount, Says, old
  <2> HIDE DEF reopened
  <2>3. r \in Report
    BY <1>1, <1>2, <2>1, ReportTypes
  <2>4. NumbersFit(v, r, filed, closed)
    BY <1>1, <1>2, <2>1, <2>2 DEF NumbersFit, Report
  <2> QED BY <2>2, <2>3, <2>4 DEF filed, closed
<1>9. CASE RatingScores(v)
  <2> DEFINE scores == Cardinality(InScope(v) \intersect rated)
             r == [old EXCEPT !.done = 6, !.rated = scores]
  <2>1. scores \in Count /\ scores <= filed
    BY <1>3
  <2>2. report' = [report EXCEPT ![v] = r] /\ old.done = 5
    BY <1>9 DEF RatingScores, Says, old
  <2> HIDE DEF scores
  <2>3. r \in Report
    BY <1>1, <1>2, <2>1, ReportTypes
  <2>4. NumbersFit(v, r, filed, closed)
    BY <1>1, <1>2, <2>1, <2>2 DEF NumbersFit, Report
  <2> QED BY <2>2, <2>3, <2>4 DEF filed, closed
<1>10. CASE SlaResults(v)
  <2> DEFINE met == Cardinality(OverallIs(v, "MET"))
             breached == Cardinality(OverallIs(v, "BREACHED"))
             r == [old EXCEPT !.done = 7, !.met = met, !.breached = breached]
  <2>1. met \in Count /\ breached \in Count
    BY <1>3 DEF OverallIs
  <2>2. met + breached <= filed
    BY VerdictsApart DEF filed
  <2>3. report' = [report EXCEPT ![v] = r] /\ old.done = 6
    BY <1>10 DEF SlaResults, Says, old
  <2> HIDE DEF met, breached
  <2>4. r \in Report
    BY <1>1, <1>2, <2>1, ReportTypes
  <2>5. NumbersFit(v, r, filed, closed)
    BY <1>1, <1>2, <2>1, <2>2, <2>3 DEF NumbersFit, Report
  <2> QED BY <2>3, <2>4, <2>5 DEF filed, closed
<1>11. CASE Answered(v)
  <2>1. NoReport \in Report /\ NumbersFit(v, NoReport, filed, closed)
    BY <1>1, NothingRead
  <2> QED BY <1>11, <2>1 DEF Answered, filed, closed
<1> QED BY <1>4, <1>5, <1>6, <1>7, <1>8, <1>9, <1>10, <1>11 DEF ReportStep

\* The numbers of every report fit in every state.
LEMMA NumbersStayFit == ReportsSpec => []OverviewInv
<1>1. ReportsInit => OverviewInv
  <2> SUFFICES ASSUME ReportsInit
               PROVE  OverviewInv
    OBVIOUS
  <2>1. rated = {} /\ report = [v \in Viewers |-> NoReport]
    BY DEF ReportsInit, DashboardInit
  <2>2. Cardinality(Filed) \in Nat /\ Cardinality(ClosedTickets) \in Nat
    BY SomeOfTheTickets DEF Filed, ClosedTickets
  <2> QED BY <2>1, <2>2, NothingRead DEF OverviewInv
<1>2. TablesFit /\ OverviewInv /\ [ReportsNext]_reportsVars => OverviewInv'
  <2> SUFFICES ASSUME TablesFit, OverviewInv, [ReportsNext]_reportsVars
               PROVE  OverviewInv'
    OBVIOUS
  <2>1. TypeOK /\ part' = part
    BY StepsOfReports DEF TablesFit, DemoTypeOK
  <2>2. ASSUME [Next]_vars, report' = report, rated' \subseteq Tickets  PROVE OverviewInv'
    <3> SUFFICES ASSUME NEW v \in Viewers
                 PROVE  NumbersFit(v, report'[v], Cardinality(Filed'), Cardinality(ClosedTickets'))
      BY <2>1, <2>2 DEF OverviewInv
    <3>1. /\ NumbersFit(v, report[v], Cardinality(Filed), Cardinality(ClosedTickets))
          /\ report[v] \in Report
      BY DEF OverviewInv
    <3>2. NumbersFit(v, report[v], Cardinality(Filed'), Cardinality(ClosedTickets'))
      BY <2>1, <2>2, <3>1, NumbersGrow, StillFits
    <3> QED BY <2>2, <3>2
  <2>3. ASSUME part = "dashboard", NEW v \in Viewers, ReportStep(v)  PROVE OverviewInv'
    <3>1. \A t \in Tickets : CoherentNow(t)
      BY <2>3 DEF TablesFit, IsRegular
    <3>2. PICK r \in Report :
            /\ report' = [report EXCEPT ![v] = r]
            /\ NumbersFit(v, r, Cardinality(Filed), Cardinality(ClosedTickets))
      BY <2>3, <3>1, StatementFits
    <3>3. UNCHANGED <<vars, rated>>
      BY <2>3 DEF ReportStep, StatusCounts, CategoryCounts, PriorityCounts, Durations,
                  ReopenedCount, RatingScores, SlaResults, Answered, Says
    <3>4. Filed' = Filed /\ ClosedTickets' = ClosedTickets
      BY <3>3 DEF vars, Filed, ClosedTickets
    <3> QED BY <2>1, <2>3, <3>2, <3>3, <3>4 DEF OverviewInv
  <2>4. ASSUME NEW t \in Tickets, Rate(t)  PROVE OverviewInv'
    <3>1. UNCHANGED vars /\ report' = report /\ rated' \subseteq Tickets
      BY <2>4 DEF Rate, OverviewInv
    <3> QED BY <2>2, <3>1
  <2>5. ASSUME [Next]_vars, UNCHANGED dashboardVars  PROVE OverviewInv'
    BY <2>2, <2>5 DEF dashboardVars, OverviewInv
  <2>6. ASSUME part = "demo", UNCHANGED dashboardVars  PROVE OverviewInv'
    <3>1. report' = [v \in Viewers |-> NoReport] /\ rated' \subseteq Tickets
      BY <2>6 DEF dashboardVars, OverviewInv
    <3>2. Filed' \subseteq Tickets /\ ClosedTickets' \subseteq Tickets
      BY DEF Filed, ClosedTickets
    <3>3. Cardinality(Filed') \in Nat /\ Cardinality(ClosedTickets') \in Nat
      BY <3>2, SomeOfTheTickets
    <3> QED BY <3>1, <3>3, NothingRead DEF OverviewInv
  <2>7. CASE DashboardMoves
    <3>1. ASSUME NEW t \in Tickets, NEW u \in Users, UserStep(t, u)  PROVE Next
      BY <3>1 DEF Next
    <3>2. ASSUME Tick  PROVE Next
      BY <3>2 DEF Next
    <3> QED BY <2>3, <2>4, <2>5, <2>7, <3>1, <3>2 DEF DashboardMoves, DashboardNext
  <2>8. CASE ~DashboardMoves
    <3>1. UNCHANGED dashboardVars
      BY <2>8 DEF ReportsNext, DemoMoves, KpisMove, reportVars, reportsVars
    <3> QED BY <2>5, <2>6, <3>1, StepsOfReports
  <2> QED BY <2>7, <2>8
<1> QED BY <1>1, <1>2, TablesStayFit, PTL DEF ReportsSpec

\* However tickets move between the statements of an overview, an
\* administrator's numbers fit one another, and no number exceeds the tickets
\* there are.
THEOREM OverviewsFit == ReportsSpec => []OverviewFits
<1>1. TablesFit /\ OverviewInv => OverviewFits
  <2> SUFFICES ASSUME TablesFit, OverviewInv
               PROVE  OverviewFits
    OBVIOUS
  <2>1. DashboardTypeOK
    BY DEF TablesFit, DemoTypeOK, OverviewInv, DashboardTypeOK
  <2>2. LaterPartsIncludeEarlier
    BY DEF OverviewInv, NumbersFit, LaterPartsIncludeEarlier
  <2>3. NoneIsCountedTwice
    BY DEF OverviewInv, NumbersFit, NoneIsCountedTwice
  <2> QED BY <2>1, <2>2, <2>3 DEF OverviewFits
<1> QED BY <1>1, TablesStayFit, NumbersStayFit, PTL

-----------------------------------------------------------------------------
(***************************************************************************)
(* The KPIs                                                                *)
(***************************************************************************)
\* Sets are counted alike in both modules.
LEMMA SameCounting ==
  \A S : Kpis!Cardinality(S) = Cardinality(S)
BY DEF Kpis!Cardinality, Cardinality

\* More kinds of rows, more rows.
LEMMA SizesGrow ==
  ASSUME dataset \in Seq(SimulatedKinds), NEW R, NEW S, R \subseteq S
  PROVE  /\ Kpis!Size(R) \in Nat /\ Kpis!Size(S) \in Nat
         /\ Kpis!Size(R) <= Kpis!Size(S)
<1> DEFINE small == {i \in DOMAIN dataset : dataset[i] \in R}
           large == {i \in DOMAIN dataset : dataset[i] \in S}
<1>1. IsFiniteSet(DOMAIN dataset)
  <2>1. Len(dataset) \in Nat /\ DOMAIN dataset = 1..Len(dataset)
    OBVIOUS
  <2> QED BY <2>1, FS_Interval
<1>2. small \subseteq large /\ large \subseteq DOMAIN dataset
  OBVIOUS
<1>3. Kpis!Size(R) = Cardinality(small) /\ Kpis!Size(S) = Cardinality(large)
  BY SameCounting DEF Kpis!Size
<1> HIDE DEF small, large
<1>4. IsFiniteSet(large) /\ IsFiniteSet(small) /\ Cardinality(small) <= Cardinality(large)
  BY <1>1, <1>2, FS_Subset
<1> QED BY <1>3, <1>4, FS_CardinalityType

\* What a KPI counts is part of what it counts among.
LEMMA CountedAmong ==
  ASSUME NEW kpi \in Kpis!RateKpis
  PROVE  Kpis!Counted(kpi) \subseteq Kpis!Among(kpi)
<1>1. kpi \in {"KPI02", "KPI04", "KPI05", "KPI08", "KPI10"}
  BY DEF Kpis!RateKpis, Kpis!TargetOf
<1>2. ASSUME NEW r \in SimulatedKinds, r.reopened  PROVE r.resolved
  <2>1. r \in Kpis!Rows
    BY PartsAssumption DEF Kpis!KindsAssumption
  <2> QED BY <1>2, <2>1 DEF Kpis!Rows, Kpis!Row
<1>3. CASE kpi = "KPI02"
  BY <1>3 DEF Kpis!Counted, Kpis!Among, Kpis!Verdicts
<1>4. CASE kpi = "KPI04"
  BY <1>4 DEF Kpis!Counted, Kpis!Among, Kpis!Verdicts
<1>5. CASE kpi = "KPI05"
  BY <1>5 DEF Kpis!Counted, Kpis!Among, Kpis!Verdicts, Kpis!EligibleForBoth
<1>6. CASE kpi = "KPI08"
  BY <1>2, <1>6 DEF Kpis!Counted, Kpis!Among, Kpis!Completed
<1>7. CASE kpi = "KPI10"
  BY <1>7 DEF Kpis!Counted, Kpis!Among
<1> QED BY <1>1, <1>3, <1>4, <1>5, <1>6, <1>7

\* A quotient reaches what its divisor goes into.
LEMMA QuotientReaches ==
  ASSUME NEW a \in Nat, NEW b \in Nat \ {0}, NEW k \in Nat
  PROVE  a \div b \in Nat /\ (a \div b >= k <=> a >= k * b)
OBVIOUS

\* When a rate of d in hundredths of a percent reaches k.
LEMMA RateReaches ==
  ASSUME NEW n \in Nat, NEW d \in Nat \ {0}, NEW k \in Nat
  PROVE  /\ Kpis!Rate(n, d) \in Nat
         /\ Kpis!Rate(n, d) >= k <=> 20000 * n + d >= k * (2 * d)
<1>1. Kpis!Rate(n, d) = (20000 * n + d) \div (2 * d)
  BY DEF Kpis!Rate
<1>2. 20000 * n + d \in Nat /\ 2 * d \in Nat \ {0}
  OBVIOUS
<1> QED BY <1>1, <1>2, QuotientReaches

\* No rate exceeds 100 %.
LEMMA RatesHaveALimit ==
  ASSUME NEW n \in Nat, NEW d \in Nat, n <= d
  PROVE  Kpis!Rate(n, d) <= 10000
<1>1. CASE d = 0
  BY <1>1 DEF Kpis!Rate
<1>2. CASE d # 0
  <2>1. Kpis!Rate(n, d) \in Nat
        /\ (Kpis!Rate(n, d) >= 10001 <=> 20000 * n + d >= 10001 * (2 * d))
    BY <1>2, RateReaches
  <2>2. ~(20000 * n + d >= 10001 * (2 * d))
    BY <1>2
  <2> QED BY <2>1, <2>2
<1> QED BY <1>1, <1>2

\* What rounding can do to a target of 80 %, 70 % or 10 %: nothing, up to 2002
\* tickets.
LEMMA RoundingIsHarmless ==
  ASSUME NEW n \in Nat, NEW d \in Nat \ {0}, d <= 2002
  PROVE  /\ Kpis!Rate(n, d) >= 8000 <=> 100 * n >= 80 * d
         /\ Kpis!Rate(n, d) >= 7000 <=> 100 * n >= 70 * d
         /\ Kpis!Rate(n, d) <= 1000 <=> 100 * n <= 10 * d
<1>1. Kpis!Rate(n, d) >= 8000 <=> 100 * n >= 80 * d
  <2>1. Kpis!Rate(n, d) >= 8000 <=> 20000 * n + d >= 8000 * (2 * d)
    BY RateReaches
  <2>2. 20000 * n + d >= 8000 * (2 * d) <=> 100 * n >= 80 * d
    OBVIOUS
  <2> QED BY <2>1, <2>2
<1>2. Kpis!Rate(n, d) >= 7000 <=> 100 * n >= 70 * d
  <2>1. Kpis!Rate(n, d) >= 7000 <=> 20000 * n + d >= 7000 * (2 * d)
    BY RateReaches
  <2>2. 20000 * n + d >= 7000 * (2 * d) <=> 100 * n >= 70 * d
    OBVIOUS
  <2> QED BY <2>1, <2>2
<1>3. Kpis!Rate(n, d) <= 1000 <=> 100 * n <= 10 * d
  <2>1. /\ Kpis!Rate(n, d) \in Nat
        /\ Kpis!Rate(n, d) >= 1001 <=> 20000 * n + d >= 1001 * (2 * d)
    BY RateReaches
  <2>2. 20000 * n + d >= 1001 * (2 * d) <=> ~(100 * n <= 10 * d)
    OBVIOUS
  <2> QED BY <2>1, <2>2
<1> QED BY <1>1, <1>2, <1>3

\* So the verdict on every target is that of the exact fraction.
LEMMA TargetsSurviveRounding ==
  ASSUME NEW kpi \in Kpis!RateKpis, NEW n \in Nat, NEW d \in Nat, d # 0, d <= 2002
  PROVE  Kpis!Meets(kpi, Kpis!Rate(n, d)) <=>
           IF kpi = "KPI08" THEN 100 * n <= Kpis!TargetOf[kpi] * d
           ELSE 100 * n >= Kpis!TargetOf[kpi] * d
<1>1. \/ kpi = "KPI08" /\ Kpis!TargetOf[kpi] = 10
      \/ kpi = "KPI10" /\ Kpis!TargetOf[kpi] = 70
      \/ kpi \in {"KPI02", "KPI04", "KPI05"} /\ Kpis!TargetOf[kpi] = 80
  BY DEF Kpis!RateKpis, Kpis!TargetOf
<1>2. /\ Kpis!Rate(n, d) >= 8000 <=> 100 * n >= 80 * d
      /\ Kpis!Rate(n, d) >= 7000 <=> 100 * n >= 70 * d
      /\ Kpis!Rate(n, d) <= 1000 <=> 100 * n <= 10 * d
  BY RoundingIsHarmless
<1>3. Kpis!Meets(kpi, Kpis!Rate(n, d)) <=>
        IF kpi = "KPI08" THEN Kpis!Rate(n, d) <= 100 * Kpis!TargetOf[kpi]
        ELSE Kpis!Rate(n, d) >= 100 * Kpis!TargetOf[kpi]
  BY DEF Kpis!Meets
<1>4. 100 * 10 = 1000 /\ 100 * 70 = 7000 /\ 100 * 80 = 8000
  OBVIOUS
<1> QED BY <1>1, <1>2, <1>3, <1>4

DatasetIsListed == dataset \in Seq(SimulatedKinds)

\* The dataset is a list of simulated tickets.
LEMMA DatasetStaysListed == ReportsSpec => []DatasetIsListed
<1>1. ReportsInit => DatasetIsListed
  BY DEF ReportsInit, Kpis!Init, DatasetIsListed
<1>2. DatasetIsListed /\ [ReportsNext]_reportsVars => DatasetIsListed'
  BY DEF DatasetIsListed, ReportsNext, DashboardMoves, DemoMoves, KpisMove, Kpis!Next, Kpis!Simulate, reportsVars
<1> QED BY <1>1, <1>2, PTL DEF ReportsSpec

\* A size among 1..2002 is a divisor of the kind TargetsSurviveRounding asks for.
LEMMA DivisorInRange ==
  ASSUME NEW kpi \in Kpis!RateKpis, Kpis!Size(Kpis!Among(kpi)) \in 1..2002
  PROVE  Kpis!Size(Kpis!Among(kpi)) # 0 /\ Kpis!Size(Kpis!Among(kpi)) <= 2002
OBVIOUS

\* Of at most 2002 tickets, the rounded rate of the dataset meets its target
\* exactly when the fraction does.
LEMMA VerdictSurvives ==
  ASSUME DatasetIsListed, NEW kpi \in Kpis!RateKpis,
         Kpis!Size(Kpis!Among(kpi)) \in 1..2002
  PROVE  Kpis!Meets(kpi, Kpis!Actual(kpi)) <=>
           IF kpi = "KPI08"
           THEN 100 * Kpis!Size(Kpis!Counted(kpi))
                  <= Kpis!TargetOf[kpi] * Kpis!Size(Kpis!Among(kpi))
           ELSE 100 * Kpis!Size(Kpis!Counted(kpi))
                  >= Kpis!TargetOf[kpi] * Kpis!Size(Kpis!Among(kpi))
<1>1. /\ Kpis!Size(Kpis!Counted(kpi)) \in Nat
      /\ Kpis!Size(Kpis!Among(kpi)) \in Nat
  BY CountedAmong, SizesGrow DEF DatasetIsListed
<1>2. /\ Kpis!Size(Kpis!Among(kpi)) # 0
      /\ Kpis!Size(Kpis!Among(kpi)) <= 2002
  BY DivisorInRange
<1> QED BY <1>1, <1>2, TargetsSurviveRounding DEF Kpis!Actual

\* Every rate of every dataset is one, and up to 2002 tickets the comparison of
\* the rounded rate with its target is that of the exact fraction.
THEOREM RatesStaySound == ReportsSpec => []RatesAreSound
<1>1. DatasetIsListed => RatesAreSound
  <2> SUFFICES ASSUME dataset \in Seq(SimulatedKinds)
               PROVE  RatesAreSound
    BY DEF DatasetIsListed
  <2>1. ASSUME NEW kpi \in Kpis!RateKpis
        PROVE  /\ Kpis!Size(Kpis!Counted(kpi)) \in Nat /\ Kpis!Size(Kpis!Among(kpi)) \in Nat
               /\ Kpis!Size(Kpis!Counted(kpi)) <= Kpis!Size(Kpis!Among(kpi))
    BY <2>1, CountedAmong, SizesGrow
  <2>2. Kpis!RatesAreRates
    <3>1. ASSUME NEW kpi \in Kpis!RateKpis
          PROVE  Kpis!Counted(kpi) \subseteq Kpis!Among(kpi) /\ Kpis!Actual(kpi) <= 10000
      BY <2>1, <3>1, CountedAmong, RatesHaveALimit DEF Kpis!Actual
    <3>2. /\ Kpis!Among("KPI05") \subseteq Kpis!Among("KPI02")
          /\ Kpis!Among("KPI05") \subseteq Kpis!Among("KPI04")
      BY DEF Kpis!Among, Kpis!EligibleForBoth
    <3>3. {r \in SimulatedKinds : r.reopened} \subseteq Kpis!Among("KPI08")
      <4>1. "KPI08" \in Kpis!RateKpis
        BY DEF Kpis!RateKpis, Kpis!TargetOf
      <4>2. Kpis!Counted("KPI08") = {r \in SimulatedKinds : r.reopened}
        BY DEF Kpis!Counted
      <4> QED BY <4>1, <4>2, CountedAmong
    <3>4. /\ Kpis!Size(Kpis!Among("KPI05")) <= Kpis!Size(Kpis!Among("KPI02"))
          /\ Kpis!Size(Kpis!Among("KPI05")) <= Kpis!Size(Kpis!Among("KPI04"))
      BY <3>2, SizesGrow
    <3>5. Kpis!ReopenedCount <= Kpis!Size(Kpis!Among("KPI08"))
      BY <3>3, SizesGrow DEF Kpis!ReopenedCount
    <3> QED BY <3>1, <3>4, <3>5 DEF Kpis!RatesAreRates
  <2>3. Kpis!RoundingKeepsTheVerdict
    BY VerdictSurvives DEF Kpis!RoundingKeepsTheVerdict, DatasetIsListed
  <2> QED BY <2>2, <2>3 DEF RatesAreSound
<1> QED BY <1>1, DatasetStaysListed, PTL
=============================================================================
