--------------------------- MODULE TicketLifecycle --------------------------
(***************************************************************************)
(* What the helpdesk promises about a ticket, seen from outside: the       *)
(* stages of the workflow table, a numbered list of results, and one       *)
(* resolution clock that is on while the ticket is being handled, held     *)
(* while its requester is asked, and off otherwise.  No rows, users, times *)
(* or jobs: TicketWorkflow implements this under the mapping given in      *)
(* TicketWorkflowRefinement.                                               *)
(***************************************************************************)
EXTENDS Integers

CONSTANT Tickets

VARIABLES
  stage,     \* tickets.current_status_code
  results,   \* the numbers of the results recorded so far
  clock      \* the resolution clock: "off", "on" or "held"

vars == <<stage, results, clock>>

Init ==
  /\ stage = [t \in Tickets |-> "NONE"]
  /\ results = [t \in Tickets |-> {}]
  /\ clock = [t \in Tickets |-> "off"]

Move(t, source, target) ==
  /\ stage[t] = source
  /\ stage' = [stage EXCEPT ![t] = target]

TurnClock(t, reading) == clock' = [clock EXCEPT ![t] = reading]

\* A ticket opened while no SLA policy is in force has no clock at first.
Open(t) ==
  /\ Move(t, "NONE", "NEW")
  /\ TurnClock(t, "on") \/ TurnClock(t, "off")
  /\ UNCHANGED results

Refuse(t) ==
  /\ Move(t, "NEW", "REJECTED")
  /\ TurnClock(t, "off")
  /\ UNCHANGED results

Dispatch(t) == Move(t, "NEW", "ASSIGNED") /\ UNCHANGED <<results, clock>>

Begin(t) == Move(t, "ASSIGNED", "IN_PROGRESS") /\ UNCHANGED <<results, clock>>

Ask(t) ==
  /\ Move(t, "IN_PROGRESS", "PENDING_INFO")
  /\ TurnClock(t, IF clock[t] = "on" THEN "held" ELSE "off")
  /\ UNCHANGED results

Answer(t) ==
  /\ Move(t, "PENDING_INFO", "IN_PROGRESS")
  /\ TurnClock(t, IF clock[t] = "held" THEN "on" ELSE "off")
  /\ UNCHANGED results

\* Results are numbered 1, 2, 3 ... with no gap.
Finish(t) ==
  /\ Move(t, "IN_PROGRESS", "RESOLVED")
  /\ TurnClock(t, "off")
  /\ \E last \in results[t] \union {0} :
       /\ results[t] = 1..last
       /\ results' = [results EXCEPT ![t] = 1..(last + 1)]

\* Only a ticket with a result is accepted or contested.
Confirm(t) ==
  /\ Move(t, "RESOLVED", "CLOSED")
  /\ results[t] # {}
  /\ UNCHANGED <<results, clock>>

Contest(t) ==
  /\ Move(t, "RESOLVED", "REOPENED")
  /\ results[t] # {}
  /\ UNCHANGED <<results, clock>>

\* A reopened ticket is always taken up under a running clock.
TakeUpAgain(t) ==
  /\ Move(t, "REOPENED", "IN_PROGRESS")
  /\ TurnClock(t, "on")
  /\ UNCHANGED results

Next ==
  \E t \in Tickets :
    \/ Open(t) \/ Refuse(t) \/ Dispatch(t) \/ Begin(t) \/ Ask(t) \/ Answer(t)
    \/ Finish(t) \/ Confirm(t) \/ Contest(t) \/ TakeUpAgain(t)

Spec == Init /\ [][Next]_vars
=============================================================================
