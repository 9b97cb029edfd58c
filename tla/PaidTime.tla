------------------------------ MODULE PaidTime ------------------------------
(***************************************************************************)
(* What billing promises a payer: every charge is credited to one user at  *)
(* most once, and buys one more period from the end of what was paid, or   *)
(* from the charge when that is over.                                      *)
(***************************************************************************)
EXTENDS Naturals

CONSTANTS Users, Heights, Nobody, Period

VARIABLES
    credited,   \* the user each charge was credited to
    until       \* the end of each user's paid time

paidTime == <<credited, until>>

Init ==
    /\ credited = [b \in Heights |-> Nobody]
    /\ until = [u \in Users |-> 0]

Credit(u, b) ==
    /\ credited[b] = Nobody
    /\ credited' = [credited EXCEPT ![b] = u]
    /\ until' = [until EXCEPT ![u] = (IF @ > b THEN @ ELSE b) + Period]

Next == \E u \in Users, b \in Heights : Credit(u, b)

Spec == Init /\ [][Next]_paidTime
=============================================================================
