--------------------------- MODULE SessionFamilies --------------------------
(***************************************************************************)
(* What the service promises about signing in: a login opens a family of   *)
(* sessions once; the family has one current token pair, which gives way   *)
(* to a new one and is then spent; a family that has none left is over.    *)
(* AuthSessions implements this.                                           *)
(***************************************************************************)
CONSTANTS Families, Pairs, NoPair

VARIABLES
  opened,   \* the families a login has opened
  current,  \* the pair in force in each family, or NoPair
  spent     \* the pairs that were in force once

vars == <<opened, current, spent>>

Init ==
  /\ opened = {}
  /\ current = [f \in Families |-> NoPair]
  /\ spent = {}

Unheld(p) == p \notin spent /\ \A f \in Families : current[f] # p

Open(f, p) ==
  /\ f \notin opened
  /\ Unheld(p)
  /\ opened' = opened \union {f}
  /\ current' = [current EXCEPT ![f] = p]
  /\ UNCHANGED spent

HandOn(f, p) ==
  /\ current[f] # NoPair
  /\ Unheld(p)
  /\ current' = [current EXCEPT ![f] = p]
  /\ spent' = spent \union {current[f]}
  /\ UNCHANGED opened

Close(f) ==
  /\ current[f] # NoPair
  /\ current' = [current EXCEPT ![f] = NoPair]
  /\ spent' = spent \union {current[f]}
  /\ UNCHANGED opened

Next ==
  \E f \in Families :
    \/ \E p \in Pairs : Open(f, p) \/ HandOn(f, p)
    \/ Close(f)

Spec == Init /\ [][Next]_vars
=============================================================================
