------------------------- MODULE MCEscalationWorker -------------------------
(***************************************************************************)
(* Small instances of EscalationWorker for TLC.                            *)
(***************************************************************************)
EXTENDS EscalationWorker

CONSTANTS req, proc, admin

FullTeam == {req, proc, admin}
SmallTeam == {req, admin}

\* The administrator also holds the processor role, as users may.
MCRoles(u) == CASE u = req   -> {"REQUESTER"}
                [] u = proc  -> {"PROCESSOR"}
                [] u = admin -> {"ADMIN", "PROCESSOR"}

FullTeamRoles  == [u \in FullTeam |-> MCRoles(u)]
SmallTeamRoles == [u \in SmallTeam |-> MCRoles(u)]

\* One second to respond, two to resolve.
OnePolicy == {[version |-> 1, from |-> 0, until |-> Never,
               response |-> 1, resolution |-> 2]}

\* Either the ticket is paused or a run dies.
PausesOrDeaths ==
  \/ \A t \in Tickets, c \in Cycles : pauses[t][c] = <<>>
  \/ \A w \in Workers : worker[w].kills = 0
=============================================================================
