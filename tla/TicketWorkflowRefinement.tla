---------------------- MODULE TicketWorkflowRefinement ----------------------
(***************************************************************************)
(* TicketWorkflow implements TicketLifecycle.                              *)
(***************************************************************************)
EXTENDS TicketWorkflow

Stage == [t \in Tickets |-> ticket[t].status]

Results == [t \in Tickets |-> {c \in Cycles : IsResolved(t, c)}]

HasClock(t, s) == \E c \in Cycles : resolutionSla[t][c].status = s

Clock == [t \in Tickets |-> IF HasClock(t, "RUNNING") THEN "on"
                            ELSE IF HasClock(t, "PAUSED") THEN "held"
                            ELSE "off"]

Lifecycle == INSTANCE TicketLifecycle
               WITH stage <- Stage, results <- Results, clock <- Clock

\* Every behaviour of the handlers and the auto-close job is, step by step,
\* one the lifecycle allows: the SLA rows behave as one clock per ticket that
\* follows the status, and resolution records as one gapless list.
ImplementsLifecycle == Lifecycle!Spec
=============================================================================
