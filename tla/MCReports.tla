----------------------------- MODULE MCReports ------------------------------
(***************************************************************************)
(* A small instance of Reports for TLC.                                    *)
(***************************************************************************)
EXTENDS Reports, TLC

CONSTANTS req, proc, s1, s2

Team == {req, proc}
TeamRoles == [u \in Team |-> IF u = req THEN {"REQUESTER"} ELSE {"PROCESSOR", "ADMIN"}]

OnePolicy ==
  {[version |-> 1, from |-> 0, until |-> Never, response |-> 1, resolution |-> 2]}

-----------------------------------------------------------------------------
(***************************************************************************)
(* Scenarios of the script with their order of events, the distances       *)
(* shrunk to ticks                                                         *)
(***************************************************************************)
InWork == [status |-> "IN_PROGRESS", createdAgo |-> 3, firstResponse |-> 0,
           resolved |-> Never, closed |-> Never, reopened |-> Never, rejected |-> Never]
Closed == [InWork EXCEPT !.status = "CLOSED", !.firstResponse = 1, !.resolved = 2, !.closed = 2]
Reopened == [Closed EXCEPT !.status = "REOPENED", !.reopened = 3]
Rejected == [InWork EXCEPT !.status = "REJECTED", !.firstResponse = Never, !.rejected = 1]

Scenarios == 1 :> InWork @@ 2 :> Closed @@ 3 :> Rejected @@ 4 :> Reopened

-----------------------------------------------------------------------------
(***************************************************************************)
(* The kinds of tickets in data/kpi_simulated_data.json, and a reopened    *)
(* one that is open again                                                  *)
(***************************************************************************)
Good == [status |-> "CLOSED", response |-> "MET", resolution |-> "MET",
         resolved |-> TRUE, closed |-> TRUE, reopened |-> FALSE, rated |-> TRUE]

NineKinds ==
  {Good,
   [Good EXCEPT !.rated = FALSE],
   [Good EXCEPT !.response = "BREACHED"],
   [Good EXCEPT !.resolution = "BREACHED"],
   [Good EXCEPT !.status = "RESOLVED", !.closed = FALSE, !.rated = FALSE],
   [Good EXCEPT !.reopened = TRUE],
   [Good EXCEPT !.status = "REOPENED", !.closed = FALSE, !.reopened = TRUE],
   [Good EXCEPT !.status = "IN_PROGRESS", !.resolution = "NONE", !.resolved = FALSE,
                !.closed = FALSE, !.rated = FALSE],
   [Good EXCEPT !.status = "REJECTED", !.response = "NOT_APPLICABLE",
                !.resolution = "NOT_APPLICABLE", !.resolved = FALSE,
                !.closed = FALSE, !.rated = FALSE]}

-----------------------------------------------------------------------------
\* The dashboard is looked at while the clock stands (what time does to it is
\* VerdictsOnlyWorsen of TicketWorkflowTiming), over two tickets, filed in order
\* and without pauses, of which the first may be rated and reopened.
SmallOverview ==
  /\ now = 0 /\ rated \subseteq {1}
  /\ \A t \in Tickets : Exists(t) => t <= 2 /\ Exists(1)
  /\ \A t \in Tickets, c \in Cycles :
       pauses[t][c] = <<>> /\ (HasSla(t, c) => c = 1 \/ (c = 2 /\ t = 1))

\* One demo ticket is worked on, beside one run of the script.
AsSeeded(t, status) == ticket[t].status \in {"NONE", status} /\ pauses[t][1] = <<>>

SmallDemo ==
  \/ AsSeeded(1, "IN_PROGRESS") /\ AsSeeded(4, "REOPENED")
  \/ /\ AsSeeded(1, "IN_PROGRESS") \/ AsSeeded(4, "REOPENED")
     /\ seeder[s2].pc = "idle"

Small == (part = "dashboard" => SmallOverview) /\ (part = "demo" => SmallDemo)
=============================================================================
