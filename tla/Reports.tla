------------------------------- MODULE Reports ------------------------------
(***************************************************************************)
(* What is read from the tickets and written past their handlers: the      *)
(* dashboard (Dashboard), the demo data (DemoSeed) and the evaluation of   *)
(* the KPIs (KpiEvaluation).                                               *)
(*                                                                         *)
(* As in Accounts a behaviour lets one part move.  The first two use the   *)
(* tables of TicketWorkflow, and never together.                           *)
(***************************************************************************)
EXTENDS Dashboard, DemoSeed

CONSTANTS
  SimulatedKinds,   \* KpiEvaluation; the kinds of tickets
  MaxSimulated      \* bound: tickets of one dataset

VARIABLES part, dataset

reportsVars == <<part, vars, dashboardVars, demoVars, dataset>>

Kpis == INSTANCE KpiEvaluation WITH Kinds <- SimulatedKinds, MaxTickets <- MaxSimulated

ASSUME PartsAssumption == Kpis!KindsAssumption

ReportsInit ==
  /\ part \in {"dashboard", "demo", "kpis"}
  /\ DashboardInit /\ DemoInit /\ Kpis!Init

DashboardMoves ==
  /\ part = "dashboard"
  /\ DashboardNext
  /\ UNCHANGED <<part, demoVars, dataset>>

DemoMoves ==
  /\ part = "demo"
  /\ DemoNext
  /\ UNCHANGED <<part, dashboardVars, dataset>>

KpisMove ==
  /\ part = "kpis"
  /\ Kpis!Next
  /\ UNCHANGED <<part, reportVars, demoVars>>

ReportsNext == DashboardMoves \/ DemoMoves \/ KpisMove

ReportsSpec == ReportsInit /\ [][ReportsNext]_reportsVars

-----------------------------------------------------------------------------
(***************************************************************************)
(* What each part promises                                                 *)
(***************************************************************************)

\* The parts of an overview are numbers that fit one another and the tickets
\* there are, although these move while they are read (Dashboard).
OverviewFits == DashboardTypeOK /\ LaterPartsIncludeEarlier /\ NoneIsCountedTwice

\* The demo tickets are there as a whole or not at all, are such as the
\* handlers leave, and stay so whatever is done to them (DemoSeed).
DemoDataIsCoherent ==
  DemoTypeOK /\ (part = "demo" => DatasetIsWhole /\ DemoTicketsAreCoherent)

\* Seeding again disturbs no ticket that is there (DemoSeed).
WorkIsKept == [][part = "demo" => SeedersKeepWork]_reportsVars

\* What a rate counts is part of what it counts among, and rounding never turns
\* the verdict on its target (KpiEvaluation).
RatesAreSound == Kpis!RatesAreRates /\ Kpis!RoundingKeepsTheVerdict
=============================================================================
