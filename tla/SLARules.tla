------------------------------ MODULE SLARules ------------------------------
(***************************************************************************)
(* The SLA arithmetic of app/core/sla.py and the row operations of         *)
(* app/services/sla_service.py, as operators without state.                *)
(*                                                                         *)
(* Timestamps are natural numbers of ticks.  A second holds TicksPerSecond *)
(* ticks, because the code mixes microsecond datetimes with integer        *)
(* seconds and truncates between them; a model with one tick per second    *)
(* would never show that loss.  SLA targets are whole seconds, as they are *)
(* whole minutes in the policy table.                                      *)
(***************************************************************************)
EXTENDS Integers

CONSTANT TicksPerSecond

ASSUME TicksPerSecondAssumption == TicksPerSecond \in Nat \ {0}

Time  == Nat
Never == -1                        \* a NULL timestamp
TimeOrNever == Time \union {Never}

RuntimeStatus == {"NONE", "RUNNING", "PAUSED", "COMPLETED", "NOT_APPLICABLE"}
RuntimeResult == {"NONE", "MET", "BREACHED", "NOT_APPLICABLE"}

\* One row of ticket_slas; status "NONE" stands for "no such row".
Runtime == [status : RuntimeStatus, startedAt : TimeOrNever, dueAt : TimeOrNever,
            pausedAt : TimeOrNever, totalPaused : Nat,
            completedAt : TimeOrNever, result : RuntimeResult]

NoRuntime == [status |-> "NONE", startedAt |-> Never, dueAt |-> Never,
              pausedAt |-> Never, totalPaused |-> 0,
              completedAt |-> Never, result |-> "NONE"]

\* One row of sla_pause_periods; resumedAt = Never while the pause is open.
PausePeriod == [pausedAt : Time, resumedAt : TimeOrNever, duration : Nat]

IsLive(r) == r.status \in {"RUNNING", "PAUSED"}
IsOpen(p) == p.resumedAt = Never

-----------------------------------------------------------------------------
(***************************************************************************)
(* core/sla.py                                                             *)
(***************************************************************************)
Seconds(ticks) == ticks \div TicksPerSecond       \* int() and floor()
Ticks(seconds) == seconds * TicksPerSecond        \* timedelta(seconds=...)
AtLeast(low, n) == IF n < low THEN low ELSE n

CalculateDeadline(startedAt, target) == startedAt + Ticks(target)

EffectiveDueAt(dueAt, totalPaused) == dueAt + Ticks(totalPaused)

\* Variant: strict comparison, a completion on the deadline counts as late.
CalculateResultStrict(completedAt, dueAt, totalPaused) ==
  IF completedAt < EffectiveDueAt(dueAt, totalPaused) THEN "MET" ELSE "BREACHED"

CalculateResult(completedAt, dueAt, totalPaused) ==
  IF completedAt <= EffectiveDueAt(dueAt, totalPaused) THEN "MET" ELSE "BREACHED"

\* Variant: a paused runtime is measured at the present.
AnchorIgnoresPause(r, at) == IF r.completedAt # Never THEN r.completedAt ELSE at

\* The instant a runtime is measured at: its end, its pause, or the present.
Anchor(r, at) ==
  IF r.completedAt # Never THEN r.completedAt
  ELSE IF r.status = "PAUSED" /\ r.pausedAt # Never THEN r.pausedAt
  ELSE at

Elapsed(r, at) == AtLeast(0, Seconds(Anchor(r, at) - r.startedAt) - r.totalPaused)

Target(r) == AtLeast(1, Seconds(r.dueAt - r.startedAt))

Remaining(r, at) == Seconds(EffectiveDueAt(r.dueAt, r.totalPaused) - Anchor(r, at))

\* round(elapsed * 100 / target, 2), in hundredths of a percent, ties upwards.
Progress(r, at) == (2 * 10000 * Elapsed(r, at) + Target(r)) \div (2 * Target(r))

\* Variant: an overdue row is past warning.
ReachedThresholdsNoWarning(r, at, warning, escalation, priority) ==
  LET overdue    == Remaining(r, at) < 0
      escalateAt == IF priority = 1 THEN 100 ELSE escalation
      reached(n) == Progress(r, at) >= 100 * n
  IN  {e \in {"WARNING", "OVERDUE", "ESCALATED"} :
         \/ e = "WARNING"   /\ ~overdue /\ reached(warning)
         \/ e = "OVERDUE"   /\ overdue
         \/ e = "ESCALATED" /\ overdue /\ reached(escalateAt)}

\* The thresholds one live runtime has reached (percentages are whole numbers).
ReachedThresholds(r, at, warning, escalation, priority) ==
  LET overdue    == Remaining(r, at) < 0
      escalateAt == IF priority = 1 THEN 100 ELSE escalation
      reached(n) == Progress(r, at) >= 100 * n
  IN  {e \in {"WARNING", "OVERDUE", "ESCALATED"} :
         \/ e = "WARNING"   /\ reached(warning)
         \/ e = "OVERDUE"   /\ overdue
         \/ e = "ESCALATED" /\ overdue /\ reached(escalateAt)}

\* The state shown to users for one runtime.
ClassifyStatus(r, at, warning) ==
  IF "NOT_APPLICABLE" \in {r.status, r.result} THEN "NOT_APPLICABLE"
  ELSE IF r.result = "MET" THEN "MET"
  ELSE IF r.result = "BREACHED" \/ Remaining(r, at) < 0 THEN "OVERDUE"
  ELSE IF Progress(r, at) >= 100 * warning THEN "NEAR_DUE"
  ELSE "ON_TRACK"

-----------------------------------------------------------------------------
(***************************************************************************)
(* services/sla_service.py                                                 *)
(***************************************************************************)
StartRuntime(at, target) ==
  [NoRuntime EXCEPT !.status = "RUNNING", !.startedAt = at,
                    !.dueAt = CalculateDeadline(at, target)]

\* Variant: the ticket's status code is written to the runtime.
PauseRuntimeAsTicket(r, at) == [r EXCEPT !.status = "PENDING_INFO", !.pausedAt = at]

PauseRuntime(r, at) == [r EXCEPT !.status = "PAUSED", !.pausedAt = at]

\* Variant: a started second of a pause counts in full.
PauseDurationRoundedUp(pausedAt, resumedAt) == AtLeast(0, -Seconds(pausedAt - resumedAt))

\* Whole seconds of a pause: the fraction of the last second is dropped.
PauseDuration(pausedAt, resumedAt) == AtLeast(0, Seconds(resumedAt - pausedAt))

\* Variants: the status is not set back; the total is overwritten.
ResumeRuntimeStillPaused(r, duration) ==
  [r EXCEPT !.pausedAt = Never, !.totalPaused = @ + duration]
ResumeRuntimeOverwrites(r, duration) ==
  [r EXCEPT !.status = "RUNNING", !.pausedAt = Never, !.totalPaused = duration]

ResumeRuntime(r, duration) ==
  [r EXCEPT !.status = "RUNNING", !.pausedAt = Never,
            !.totalPaused = @ + duration]

\* Variant: the result is written but the clock is left running.
CompleteRuntimeLeftRunning(r, at) ==
  [r EXCEPT !.completedAt = at, !.result = CalculateResult(at, r.dueAt, r.totalPaused)]

CompleteRuntime(r, at) ==
  [r EXCEPT !.status = "COMPLETED", !.pausedAt = Never, !.completedAt = at,
            !.result = CalculateResult(at, r.dueAt, r.totalPaused)]

MarkNotApplicable(r, at) ==
  [r EXCEPT !.status = "NOT_APPLICABLE", !.pausedAt = Never, !.completedAt = at,
            !.result = "NOT_APPLICABLE"]
-----------------------------------------------------------------------------
(***************************************************************************)
(* services/dashboard_service.py                                           *)
(***************************************************************************)
Verdicts == {"MET", "BREACHED"}
VerdictsOf(runtimes) == {r.result : r \in runtimes} \intersect Verdicts

\* Variant: of the resolution cycles, the last one with a verdict counts.
OverallOfLastCycle(response, cycles) ==
  LET judged == {c \in DOMAIN cycles : cycles[c].result \in Verdicts}
  IN  IF response.result \notin Verdicts \/ judged = {} THEN "NONE"
      ELSE LET last == CHOOSE c \in judged : \A d \in judged : d <= c
           IN  IF {response.result, cycles[last].result} = {"MET"} THEN "MET" ELSE "BREACHED"

\* _overall_sla_results: a verdict once both types have one; every cycle counts.
Overall(response, cycles) ==
  LET resolutions == VerdictsOf({cycles[c] : c \in DOMAIN cycles})
  IN  IF response.result \notin Verdicts \/ resolutions = {} THEN "NONE"
      ELSE IF {response.result} \union resolutions = {"MET"} THEN "MET"
      ELSE "BREACHED"
=============================================================================
