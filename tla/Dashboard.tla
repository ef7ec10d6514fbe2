------------------------------ MODULE Dashboard -----------------------------
(***************************************************************************)
(* The dashboard (dashboard_service.py, dashboard_repository.py) read      *)
(* while the handlers of TicketWorkflow go on.                             *)
(*                                                                         *)
(* The overview is seven statements, each of which sees what is committed  *)
(* when it starts; the SLA performance page is one.  An administrator sees *)
(* every ticket, a processor those in his charge at the time of the        *)
(* statement.  The category and the priority of a ticket never change.     *)
(*                                                                         *)
(* Left out: the filters of the query, the averages and the trend (of the  *)
(* former their sample sizes are kept), the scores of the ratings.         *)
(***************************************************************************)
EXTENDS TicketWorkflow, FiniteSets

CONSTANT Viewers

ASSUME FiniteAssumption == IsFiniteSet(Tickets)

ASSUME ViewersAssumption ==
  /\ Viewers \subseteq Users
  /\ \A v \in Viewers : Roles[v] \intersect {"ADMIN", "PROCESSOR"} # {}

VARIABLES
  rated,    \* the tickets with a rating
  report    \* the overview each viewer has under way

dashboardVars == <<rated, report>>
reportVars == <<vars, dashboardVars>>

Count == 0..Cardinality(Tickets)
Statements == <<"status", "category", "priority", "durations", "reopened", "ratings", "sla">>
Step == 0..Len(Statements)

Report == [done : Step, total : Count, open : Count, closed : Count, rejected : Count,
           byCategory : Count, byPriority : Count, responded : Count, resolved : Count,
           reopened : Count, rated : Count, met : Count, breached : Count]

NoReport == [done |-> 0, total |-> 0, open |-> 0, closed |-> 0, rejected |-> 0,
             byCategory |-> 0, byPriority |-> 0, responded |-> 0, resolved |-> 0,
             reopened |-> 0, rated |-> 0, met |-> 0, breached |-> 0]

DashboardTypeOK ==
  /\ TypeOK
  /\ rated \subseteq Tickets
  /\ report \in [Viewers -> Report]

DashboardInit ==
  /\ Init
  /\ rated = {}
  /\ report = [v \in Viewers |-> NoReport]

-----------------------------------------------------------------------------
(***************************************************************************)
(* What a statement sees                                                   *)
(***************************************************************************)
Filed == {t \in Tickets : ticket[t].status # "NONE"}

\* ticket_conditions
InScope(v) == {t \in Filed : HasRole(v, "ADMIN") \/ ticket[t].assignee = v}

WithStatus(v, codes) == {t \in InScope(v) : ticket[t].status \in codes}

\* ticket_statuses.is_terminal
IsOpenTicket(t) == ticket[t].status \notin Terminal

\* A REOPENED row in the status history: seen from here, the ticket is reopened
\* now or has been given a further cycle.
WasReopened(t) == ticket[t].status = "REOPENED" \/ \E c \in Cycles : c > 1 /\ HasSla(t, c)

OverallIs(v, verdict) ==
  {t \in InScope(v) : Overall(responseSla[t], resolutionSla[t]) = verdict}

-----------------------------------------------------------------------------
(***************************************************************************)
(* get_overview                                                            *)
(***************************************************************************)
Says(v, n, answer) ==
  /\ report[v].done = n - 1
  /\ report' = [report EXCEPT ![v] = answer]
  /\ UNCHANGED <<vars, rated>>

StatusCounts(v) ==
  Says(v, 1, [NoReport EXCEPT
    !.done = 1,
    !.total = Cardinality(InScope(v)),
    !.open = Cardinality({t \in InScope(v) : IsOpenTicket(t)}),
    !.closed = Cardinality(WithStatus(v, {"CLOSED"})),
    !.rejected = Cardinality(WithStatus(v, {"REJECTED"}))])

\* The sum over the categories, and over the priorities.
CategoryCounts(v) ==
  Says(v, 2, [report[v] EXCEPT !.done = 2, !.byCategory = Cardinality(InScope(v))])

PriorityCounts(v) ==
  Says(v, 3, [report[v] EXCEPT !.done = 3, !.byPriority = Cardinality(InScope(v))])

\* Variant: only tickets that are RESOLVED have a resolution time.
DurationsOfResolved(v) ==
  Says(v, 4, [report[v] EXCEPT
    !.done = 4,
    !.responded = Cardinality({t \in InScope(v) : ticket[t].firstResponseAt # Never}),
    !.resolved = Cardinality(WithStatus(v, {"RESOLVED"}))])

\* ticket_duration_rows: the samples of the two averages.
Durations(v) ==
  Says(v, 4, [report[v] EXCEPT
    !.done = 4,
    !.responded = Cardinality({t \in InScope(v) : ticket[t].firstResponseAt # Never}),
    !.resolved = Cardinality({t \in InScope(v) : \E c \in Cycles : IsResolved(t, c)})])

\* Variant: rows of the status history are counted, not distinct tickets.
ReopenedRows(v) ==
  Says(v, 5, [report[v] EXCEPT
    !.done = 5,
    !.reopened = Cardinality(WithStatus(v, {"REOPENED"}))
                   + Cardinality({x \in InScope(v) \X Cycles : x[2] > 1 /\ HasSla(x[1], x[2])})])

ReopenedCount(v) ==
  Says(v, 5, [report[v] EXCEPT
    !.done = 5, !.reopened = Cardinality({t \in InScope(v) : WasReopened(t)})])

RatingScores(v) ==
  Says(v, 6, [report[v] EXCEPT
    !.done = 6, !.rated = Cardinality(InScope(v) \intersect rated)])

SlaResults(v) ==
  Says(v, 7, [report[v] EXCEPT
    !.done = 7,
    !.met = Cardinality(OverallIs(v, "MET")),
    !.breached = Cardinality(OverallIs(v, "BREACHED"))])

\* The answer is sent, and the page is loaded again.
Answered(v) ==
  /\ report[v].done = Len(Statements)
  /\ report' = [report EXCEPT ![v] = NoReport]
  /\ UNCHANGED <<vars, rated>>

\* rating_service.create_rating, by the requester, once per ticket.
Rate(t) ==
  /\ ticket[t].status \in {"RESOLVED", "CLOSED"} /\ t \notin rated
  /\ rated' = rated \union {t}
  /\ UNCHANGED <<vars, report>>

ReportStep(v) ==
  \/ StatusCounts(v) \/ CategoryCounts(v) \/ PriorityCounts(v) \/ Durations(v)
  \/ ReopenedCount(v) \/ RatingScores(v) \/ SlaResults(v) \/ Answered(v)

DashboardNext ==
  \/ \E v \in Viewers : ReportStep(v)
  \/ \E t \in Tickets : Rate(t)
  \/ \E t \in Tickets, u \in Users : UserStep(t, u) /\ UNCHANGED dashboardVars
  \/ Tick /\ UNCHANGED dashboardVars

DashboardSpec == DashboardInit /\ [][DashboardNext]_reportVars

-----------------------------------------------------------------------------
(***************************************************************************)
(* Safety                                                                  *)
(***************************************************************************)

\* In an administrator's overview the parts add up as far as they can while
\* tickets move between the statements: every ticket is open, closed or
\* rejected; a later breakdown misses none that an earlier one had; and every
\* ticket counted as closed has a resolution time in the average.
LaterPartsIncludeEarlier ==
  \A v \in Viewers : HasRole(v, "ADMIN") =>
    LET r == report[v]
    IN  /\ r.total = r.open + r.closed + r.rejected
        /\ r.done >= 2 => r.total <= r.byCategory
        /\ r.done >= 3 => r.byCategory <= r.byPriority
        /\ r.done >= 4 => r.closed <= r.resolved

\* No number exceeds the tickets there are, however they move between the
\* statements: none is counted twice, and a verdict is counted on one side.
NoneIsCountedTwice ==
  \A v \in Viewers :
    LET r == report[v]
    IN  \A n \in {r.total, r.byCategory, r.byPriority, r.responded, r.resolved, r.reopened,
                  r.rated, r.met + r.breached} : n <= Cardinality(Filed)
=============================================================================
