-------------------------- MODULE MCTicketWorkflow --------------------------
(***************************************************************************)
(* Small instances of TicketWorkflow for TLC.                              *)
(***************************************************************************)
EXTENDS TicketWorkflowTiming, TicketWorkflowRefinement

CONSTANTS req, proc, admin

FullTeam == {req, proc, admin}
SmallTeam == {req, admin}

\* The administrator also holds the processor role, as users may.
MCRoles(u) == CASE u = req   -> {"REQUESTER"}
                [] u = proc  -> {"PROCESSOR"}
                [] u = admin -> {"ADMIN", "PROCESSOR"}

FullTeamRoles  == [u \in FullTeam |-> MCRoles(u)]
SmallTeamRoles == [u \in SmallTeam |-> MCRoles(u)]

Policy(version, from, until, response, resolution) ==
  [version |-> version, from |-> from, until |-> until,
   response |-> response, resolution |-> resolution]

\* One policy from the start; a stricter version replaces it; a gap follows.
OnePolicy == {Policy(1, 0, Never, 1, 2)}
PolicyChange == {Policy(1, 0, 3, 1, 2), Policy(2, 1, 2, 1, 1), Policy(3, 4, Never, 1, 1)}

\* One ticket as it comes, or two without replies that are worked on one after
\* the other, of which the second is resolved once and left to the job.
AtRest(t) == ticket[t].status \in {"NONE", "RESOLVED", "CLOSED"}

TheSecondIsPlain ==
  \A t \in Tickets \ {1} : ticket[t].status # "NONE" =>
    /\ ticket[1].status # "NONE" /\ (AtRest(1) \/ AtRest(t))
    /\ ticket[1].firstResponseAt = Never /\ ticket[t].firstResponseAt = Never
    /\ ticket[t].status # "REOPENED" /\ ticket[t].closedBy = NoUser
=============================================================================
