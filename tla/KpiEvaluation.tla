--------------------------- MODULE KpiEvaluation ---------------------------
(***************************************************************************)
(* scripts/evaluate_kpis.py: the ten KPIs of a set of tickets, here those  *)
(* that are counts and rates, and the comparison with their targets.       *)
(*                                                                         *)
(* A dataset is a list of tickets.  A rate is rounded to two decimals      *)
(* before it is compared, so the value is in hundredths of a percent.      *)
(* Left out: the averages KPI01, KPI03 and KPI09.                          *)
(***************************************************************************)
EXTENDS Integers, Sequences, FiniteSets

CONSTANTS
  Kinds,       \* the rows a dataset is made of
  MaxTickets   \* bound: tickets of one dataset

VARIABLE dataset

Status == {"NEW", "ASSIGNED", "IN_PROGRESS", "PENDING_INFO", "RESOLVED",
           "REOPENED", "CLOSED", "REJECTED"}
Verdicts == {"MET", "BREACHED"}

\* A row of the dataset.
Row == [status : Status, response : Verdicts \union {"NONE", "NOT_APPLICABLE"},
        resolution : Verdicts \union {"NONE", "NOT_APPLICABLE"},
        resolved : BOOLEAN, closed : BOOLEAN, reopened : BOOLEAN, rated : BOOLEAN]

\* The rows that a ticket of the workflow can give: a result comes with the
\* resolution verdict, and closing, reopening and rating with a result.
Rows ==
  {r \in Row :
     /\ r.closed <=> r.status = "CLOSED"
     /\ r.resolved <=> r.resolution \in Verdicts
     /\ r.status \in {"RESOLVED", "CLOSED", "REOPENED"} => r.resolved
     /\ r.resolved /\ ~r.reopened => r.status \in {"RESOLVED", "CLOSED"}
     /\ r.reopened \/ r.rated => r.resolved
     /\ r.status = "REOPENED" => r.reopened
     /\ r.status = "REJECTED" <=> r.response = "NOT_APPLICABLE"
     /\ r.status = "REJECTED" <=> r.resolution = "NOT_APPLICABLE"
     /\ r.status = "NEW" => r.response = "NONE" /\ ~r.resolved
     /\ r.status = "ASSIGNED" => ~r.resolved}

KindsAssumption == Kinds \subseteq Rows /\ MaxTickets \in Nat

Init == dataset = <<>>

\* How many tickets of the dataset are among these rows.
Size(rows) == Cardinality({i \in DOMAIN dataset : dataset[i] \in rows})

\* One more ticket is simulated.
Simulate(r) ==
  /\ Len(dataset) < MaxTickets
  /\ dataset' = Append(dataset, r)

Next == \E r \in Kinds : Simulate(r)
Spec == Init /\ [][Next]_dataset

-----------------------------------------------------------------------------
\* _rate, in hundredths of a percent, ties upwards; 0.0 of nothing.
Rate(n, d) == IF d = 0 THEN 0 ELSE (2 * 10000 * n + d) \div (2 * d)

\* TARGETS and _status
TargetOf == [KPI02 |-> 80, KPI04 |-> 80, KPI05 |-> 80, KPI08 |-> 10, KPI10 |-> 70]
RateKpis == DOMAIN TargetOf

\* Variant: a target has to be exceeded.
MeetsStrictly(kpi, actual) ==
  IF kpi = "KPI08" THEN actual < 100 * TargetOf[kpi] ELSE actual > 100 * TargetOf[kpi]

Meets(kpi, actual) ==
  IF kpi = "KPI08" THEN actual <= 100 * TargetOf[kpi] ELSE actual >= 100 * TargetOf[kpi]

EligibleForBoth(r) == r.response \in Verdicts /\ r.resolution \in Verdicts

\* Variant: a ticket is completed while it is RESOLVED or CLOSED.
CompletedNow(r) == r.status \in {"RESOLVED", "CLOSED"}

Completed(r) == r.resolved \/ r.closed

\* calculate_kpis: the rows a rate counts, and the rows it counts them among.
Counted(kpi) ==
  {r \in Kinds :
     CASE kpi = "KPI02" -> r.response = "MET"
       [] kpi = "KPI04" -> r.resolution = "MET"
       [] kpi = "KPI05" -> r.response = "MET" /\ r.resolution = "MET"
       [] kpi = "KPI08" -> r.reopened
       [] kpi = "KPI10" -> r.rated /\ r.closed}

Among(kpi) ==
  {r \in Kinds :
     CASE kpi = "KPI02" -> r.response \in Verdicts
       [] kpi = "KPI04" -> r.resolution \in Verdicts
       [] kpi = "KPI05" -> EligibleForBoth(r)
       [] kpi = "KPI08" -> Completed(r)
       [] kpi = "KPI10" -> r.closed}

Actual(kpi) == Rate(Size(Counted(kpi)), Size(Among(kpi)))

\* KPI07
ReopenedCount == Size({r \in Kinds : r.reopened})

-----------------------------------------------------------------------------
\* Every rate is one: what it counts is part of what it counts among, also for
\* tickets that were reopened and are open again, so none exceeds 100 %; and a
\* ticket judged by KPI05 is judged by KPI02 and by KPI04.
RatesAreRates ==
  /\ \A kpi \in RateKpis : Counted(kpi) \subseteq Among(kpi) /\ Actual(kpi) <= 10000
  /\ Size(Among("KPI05")) <= Size(Among("KPI02"))
  /\ Size(Among("KPI05")) <= Size(Among("KPI04"))
  /\ ReopenedCount <= Size(Among("KPI08"))

\* Rounding before the comparison never turns a missed target into a met one
\* or the reverse: up to 2002 tickets the verdict is that of the exact fraction.
\* One more, and 1402 of 2003 count as 70 %.
RoundingKeepsTheVerdict ==
  \A kpi \in RateKpis :
    LET n == Size(Counted(kpi))
        d == Size(Among(kpi))
    IN  d \in 1..2002 => (Meets(kpi, Actual(kpi)) <=>
          IF kpi = "KPI08" THEN 100 * n <= TargetOf[kpi] * d
          ELSE 100 * n >= TargetOf[kpi] * d)
=============================================================================
