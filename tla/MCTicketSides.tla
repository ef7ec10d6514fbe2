---------------------------- MODULE MCTicketSides ---------------------------
(***************************************************************************)
(* A small instance of TicketSides for TLC.                                *)
(***************************************************************************)
EXTENDS TicketSides

CONSTANTS p1, p2,  \* the processors
          a        \* a content

\* The processors are alike: the discussion starts with the first, and one by
\* one the ticket is only ever given to him.  The contents are alike: the first
\* one written is a.  The clock of the journal moves in one of its two parts.
SmallInit == SidesInit /\ charge = p1

SmallSpec == SmallInit /\ [][SidesNext]_sidesVars

Small ==
  /\ part = "journal" => clock = 0
  /\ part = "one by one" => processor # p2
  /\ part = "discussion" /\ comments # <<>> => comments[1].first = a
=============================================================================
