------------------------ MODULE TicketWorkflowTiming ------------------------
(***************************************************************************)
(* What the SLA rows of TicketWorkflow say about time: the pause ledger,   *)
(* the verdict at completion and the thresholds shown on the way there.    *)
(***************************************************************************)
EXTENDS TicketWorkflow

CONSTANTS
  WarningPercent,     \* sla_policies.warning_percent
  EscalationPercent   \* sla_policies.escalation_percent

ASSUME PercentAssumption ==
  WarningPercent \in 1..99 /\ EscalationPercent \in Nat /\ EscalationPercent >= 100

SumOf(s) ==
  LET upTo[n \in 0..Len(s)] == IF n = 0 THEN 0 ELSE upTo[n - 1] + s[n]
  IN  upTo[Len(s)]

RecordedPauses(ps) == SumOf([i \in DOMAIN ps |-> ps[i].duration])

\* Ticks really spent waiting for the requester, in pauses that have ended.
Waited(ps) ==
  SumOf([i \in DOMAIN ps |->
    IF IsOpen(ps[i]) THEN 0 ELSE ps[i].resumedAt - ps[i].pausedAt])

Worked(t, c) ==
  resolutionSla[t][c].completedAt - resolutionSla[t][c].startedAt - Waited(pauses[t][c])

\* total_paused_seconds is the sum of the recorded pauses; the pauses of a
\* cycle follow one another, and at most the last is open, while PAUSED.
PauseLedger ==
  \A t \in Tickets : \A c \in Cycles :
    LET r  == resolutionSla[t][c]
        ps == pauses[t][c]
    IN  /\ r.totalPaused = RecordedPauses(ps)
        /\ \A i \in DOMAIN ps :
             /\ IsOpen(ps[i]) <=> i = Len(ps) /\ r.status = "PAUSED"
             /\ i > 1 => ps[i].pausedAt >= ps[i - 1].resumedAt
        /\ r.status = "PAUSED" => ps # <<>>

\* Truncating each pause to whole seconds never helps the processor: a cycle
\* is MET only if the time really worked is within the target, and it is
\* BREACHED wrongly by less than a second for each pause.
VerdictIsHonest ==
  \A t \in Tickets : \A c \in Cycles :
    LET r      == resolutionSla[t][c]
        target == r.dueAt - r.startedAt
    IN  /\ r.result = "MET" => Worked(t, c) <= target
        /\ r.result = "BREACHED" =>
             Worked(t, c) + Len(pauses[t][c]) * (TicksPerSecond - 1) > target

\* What the ticket page and the worker computed last agrees with the stored
\* verdict: BREACHED exactly when the metrics at completion say OVERDUE, and an
\* overdue runtime is always past 100%, so a priority 1 ticket is escalated.
VerdictMatchesMetrics ==
  \A t \in Tickets : \A c \in Cycles : \A r \in {responseSla[t], resolutionSla[t][c]} :
    r.status \in {"RUNNING", "PAUSED", "COMPLETED"} =>
      LET reached == ReachedThresholds(r, now, WarningPercent, EscalationPercent, 1)
      IN  /\ r.status = "COMPLETED" => (r.result = "BREACHED" <=> "OVERDUE" \in reached)
          /\ "OVERDUE" \in reached => "ESCALATED" \in reached
          /\ ClassifyStatus(r, now, WarningPercent) = "OVERDUE" <=> "OVERDUE" \in reached

\* A threshold once reached stays reached while the runtime lives on: pausing
\* and resuming never takes a warning back.
ThresholdsOnlyGrow ==
  [][\A t \in Tickets : \A c \in Cycles :
       LET before == resolutionSla[t][c]
           after  == resolutionSla'[t][c]
       IN  IsLive(before) /\ IsLive(after) =>
             ReachedThresholds(before, now, WarningPercent, EscalationPercent, 2)
               \subseteq
             ReachedThresholds(after, now', WarningPercent, EscalationPercent, 2)]_vars

\* Of a ticket with several cycles the dashboard shows one SLA result.  It never
\* improves and is never withdrawn: reopening the ticket and resolving it in time
\* does not clear a breach (_overall_sla_results).
VerdictsOnlyWorsen ==
  [][\A t \in Tickets :
       LET before == Overall(responseSla[t], resolutionSla[t])
           after  == Overall(responseSla'[t], resolutionSla'[t])
       IN  /\ before = "BREACHED" => after = "BREACHED"
           /\ before # "NONE" => after # "NONE"]_vars
=============================================================================
