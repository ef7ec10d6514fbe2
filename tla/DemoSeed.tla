------------------------------ MODULE DemoSeed ------------------------------
(***************************************************************************)
(* scripts/seed_demo_data.py: demonstration tickets written straight into  *)
(* the tables, whole histories at once, and then handled like any other    *)
(* ticket by TicketWorkflow.                                               *)
(*                                                                         *)
(* The script may be started again, twice at once, or die: it looks each   *)
(* ticket code up, inserts what is missing, and commits once at the end.   *)
(* An insert of a code that another open transaction has inserted waits    *)
(* for that transaction, and fails if it commits.                          *)
(*                                                                         *)
(* Left out: the demo accounts (taken to exist), the status history, the   *)
(* comment and the rating of a demo ticket.                                *)
(***************************************************************************)
EXTENDS TicketWorkflow

CONSTANTS
  Scenario,       \* DEMO_SCENARIOS, by ticket (the ticket code)
  DemoRequester, DemoProcessor,
  Seeders,        \* concurrent runs of the script
  MaxKills        \* bound: runs that die

\* Offsets are ticks after the creation, Never for what did not happen.
DemoScenario == [status : Status, createdAgo : Time, firstResponse : TimeOrNever,
                 resolved : TimeOrNever, closed : TimeOrNever,
                 reopened : TimeOrNever, rejected : TimeOrNever]

\* What the six scenarios have in common: what happened goes with the status,
\* in its order, and before the script is run.
IsScenario(s) ==
  /\ s.status \in {"IN_PROGRESS", "CLOSED", "REOPENED", "REJECTED"}
  /\ s.status = "REJECTED" <=> s.rejected # Never
  /\ s.status = "REJECTED" <=> s.firstResponse = Never
  /\ s.status \in {"CLOSED", "REOPENED"} <=> s.resolved # Never
  /\ s.status \in {"CLOSED", "REOPENED"} <=> s.closed # Never
  /\ s.status = "REOPENED" <=> s.reopened # Never
  /\ s.closed # Never => s.resolved <= s.closed
  /\ s.reopened # Never => s.closed <= s.reopened
  /\ \A offset \in {s.firstResponse, s.closed, s.reopened, s.rejected} : offset <= s.createdAgo

ASSUME ScenarioAssumption ==
  /\ Scenario \in [Tickets -> DemoScenario]
  /\ \A t \in Tickets : IsScenario(Scenario[t])
  /\ {DemoRequester, DemoProcessor} \subseteq Users
  /\ MaxKills \in Nat /\ MaxCycle >= 2

VARIABLES
  seeder,   \* the local state of each run, its uncommitted inserts included
  kills

demoVars == <<seeder, kills>>
seedVars == <<vars, demoVars>>

SeederState == [pc : {"idle", "looking", "adding"}, at : Time,
                todo : SUBSET Tickets, mine : SUBSET Tickets]
IdleSeeder == [pc |-> "idle", at |-> 0, todo |-> {}, mine |-> {}]

DemoTypeOK ==
  /\ TypeOK
  /\ seeder \in [Seeders -> SeederState]
  /\ kills \in 0..MaxKills

DemoInit ==
  /\ Init
  /\ seeder = [j \in Seeders |-> IdleSeeder]
  /\ kills = 0

Exists(t) == ticket[t].status # "NONE"

-----------------------------------------------------------------------------
(***************************************************************************)
(* The rows of one scenario                                                *)
(***************************************************************************)
CreatedAt(t, at) == at - Scenario[t].createdAgo
After(t, at, offset) == IF offset = Never THEN Never ELSE CreatedAt(t, at) + offset

DemoTicket(t, at) ==
  LET s == Scenario[t]
      closedAt == IF s.status = "CLOSED" THEN After(t, at, s.closed) ELSE Never
  IN  [status          |-> s.status,
       requester       |-> DemoRequester,
       assignee        |-> IF s.status = "REJECTED" THEN NoUser ELSE DemoProcessor,
       firstResponseAt |-> After(t, at, s.firstResponse),
       closedAt        |-> closedAt,
       closedBy        |-> IF closedAt = Never THEN NoUser ELSE DemoRequester]

\* Variant: the response is completed when the ticket is resolved.
DemoResponseAtResolution(t, at, p) ==
  LET s == Scenario[t]
      started == StartRuntime(CreatedAt(t, at), p.response)
  IN  IF s.rejected # Never THEN MarkNotApplicable(started, After(t, at, s.rejected))
      ELSE CompleteRuntime(started, After(t, at, AtLeast(0, s.resolved)))

\* "first_response_after_minutes or 0"
DemoResponse(t, at, p) ==
  LET s == Scenario[t]
      started == StartRuntime(CreatedAt(t, at), p.response)
  IN  IF s.rejected # Never THEN MarkNotApplicable(started, After(t, at, s.rejected))
      ELSE CompleteRuntime(started, After(t, at, AtLeast(0, s.firstResponse)))

\* A reopened ticket has its second cycle running since it was reopened.
DemoResolution(t, at, p) ==
  LET s == Scenario[t]
      first == StartRuntime(CreatedAt(t, at), p.resolution)
  IN  [c \in Cycles |->
         CASE c = 1 -> (IF s.rejected # Never
                          THEN MarkNotApplicable(first, After(t, at, s.rejected))
                        ELSE IF s.resolved # Never
                          THEN CompleteRuntime(first, After(t, at, s.resolved))
                        ELSE first)
           [] c = 2 /\ s.reopened # Never
                -> StartRuntime(After(t, at, s.reopened), p.resolution)
           [] OTHER -> NoRuntime]

DemoResolvedAt(t, at) ==
  [c \in Cycles |-> IF c = 1 THEN After(t, at, Scenario[t].resolved) ELSE Never]

-----------------------------------------------------------------------------
(***************************************************************************)
(* A run of the script                                                     *)
(***************************************************************************)
\* The oldest scenario was created after the epoch.
StartSeed(j) ==
  /\ seeder[j].pc = "idle"
  /\ \A t \in Tickets : Scenario[t].createdAgo <= now
  /\ seeder' = [seeder EXCEPT ![j] =
       [pc |-> "looking", at |-> now, todo |-> Tickets, mine |-> {}]]
  /\ UNCHANGED <<vars, kills>>

IsFirst(j, t) == t \in seeder[j].todo /\ \A s \in seeder[j].todo : t <= s

\* _create_scenario: SELECT by ticket code; an existing ticket is left alone.
LookUp(j, t) ==
  /\ seeder[j].pc = "looking" /\ IsFirst(j, t)
  /\ \/ Exists(t) /\ seeder' = [seeder EXCEPT ![j].todo = @ \ {t}]
     \/ ~Exists(t) /\ seeder' = [seeder EXCEPT ![j].pc = "adding"]
  /\ UNCHANGED <<vars, kills>>

IsHeld(j, t) == \E i \in Seeders \ {j} : t \in seeder[i].mine

\* Variant: the ticket code is not unique.
AddUnchecked(j, t) ==
  /\ seeder[j].pc = "adding" /\ IsFirst(j, t)
  /\ seeder' = [seeder EXCEPT ![j].pc = "looking", ![j].todo = @ \ {t},
                              ![j].mine = @ \union {t}]
  /\ UNCHANGED <<vars, kills>>

Add(j, t) ==
  /\ seeder[j].pc = "adding" /\ IsFirst(j, t)
  /\ ~IsHeld(j, t) /\ ~Exists(t)
  /\ seeder' = [seeder EXCEPT ![j].pc = "looking", ![j].todo = @ \ {t},
                              ![j].mine = @ \union {t}]
  /\ UNCHANGED <<vars, kills>>

\* The code has been committed since it was looked up: all is rolled back.
Collide(j, t) ==
  /\ seeder[j].pc = "adding" /\ IsFirst(j, t) /\ Exists(t)
  /\ seeder' = [seeder EXCEPT ![j] = IdleSeeder]
  /\ UNCHANGED <<vars, kills>>

\* Under version 1 of the SLA policy, whatever its dates.
CommitSeed(j) ==
  /\ seeder[j].pc = "looking" /\ seeder[j].todo = {}
  /\ \E p \in Policies :
       LET new == seeder[j].mine
           at  == seeder[j].at
       IN  /\ p.version = 1
           /\ ticket' = [t \in Tickets |-> IF t \in new THEN DemoTicket(t, at) ELSE ticket[t]]
           /\ responseSla' = [t \in Tickets |->
                IF t \in new THEN DemoResponse(t, at, p) ELSE responseSla[t]]
           /\ resolutionSla' = [t \in Tickets |->
                IF t \in new THEN DemoResolution(t, at, p) ELSE resolutionSla[t]]
           /\ resolvedAt' = [t \in Tickets |->
                IF t \in new THEN DemoResolvedAt(t, at) ELSE resolvedAt[t]]
  /\ seeder' = [seeder EXCEPT ![j] = IdleSeeder]
  /\ UNCHANGED <<now, pauses, job, kills>>

\* Variant: every ticket is committed on its own, as the job does.
KillLeavingRows(j) ==
  /\ seeder[j].pc # "idle" /\ kills < MaxKills
  /\ \E p \in Policies :
       /\ ticket' = [t \in Tickets |->
            IF t \in seeder[j].mine THEN DemoTicket(t, seeder[j].at) ELSE ticket[t]]
       /\ p.version = 1
  /\ seeder' = [seeder EXCEPT ![j] = IdleSeeder]
  /\ kills' = kills + 1
  /\ UNCHANGED <<now, slaVars, resolvedAt, job>>

KillSeed(j) ==
  /\ seeder[j].pc # "idle" /\ kills < MaxKills
  /\ seeder' = [seeder EXCEPT ![j] = IdleSeeder]
  /\ kills' = kills + 1
  /\ UNCHANGED vars

SeedStep(j) ==
  \/ StartSeed(j)
  \/ \E t \in Tickets : LookUp(j, t) \/ Add(j, t) \/ Collide(j, t)
  \/ CommitSeed(j)
  \/ KillSeed(j)

DemoNext ==
  \/ \E j \in Seeders : SeedStep(j)
  \/ \E t \in Tickets, u \in Users : Exists(t) /\ UserStep(t, u) /\ UNCHANGED demoVars
  \/ Tick /\ UNCHANGED demoVars

DemoSpec == DemoInit /\ [][DemoNext]_seedVars

-----------------------------------------------------------------------------
(***************************************************************************)
(* Safety                                                                  *)
(***************************************************************************)

\* The dataset is there as a whole or not at all, whatever runs overlap or die.
DatasetIsWhole == \A s, t \in Tickets : Exists(s) <=> Exists(t)

\* A demo ticket is one the workflow can handle: whatever is done to it next,
\* its assignee, response, clocks, cycles and results stay as consistent as those
\* of a ticket that went through the handlers.  Not so a ticket the script has
\* reopened: its second clock runs before it is resumed, and resuming starts a
\* third.
DemoTicketsAreCoherent ==
  /\ AssignedPastTriage /\ ResponseClock
  /\ \A t \in Tickets : Scenario[t].reopened = Never =>
       ClockFits(t) /\ NoConflict(t) /\ LedgerAgrees(t) /\ HasResult(t)

\* Seeding again never disturbs what has been done with the demo tickets.
SeedersKeepWork ==
  \A j \in Seeders : SeedStep(j) => \A t \in Tickets : Exists(t) =>
    ticket'[t] = ticket[t] /\ resolutionSla'[t] = resolutionSla[t]
=============================================================================
