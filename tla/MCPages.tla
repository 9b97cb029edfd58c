------------------------------ MODULE MCPages ------------------------------
(* One user with two tabs, two wallets and a few rows.                      *)
EXTENDS Pages

CONSTANT alice

AliceHoldsAll == [w \in Wallets |-> alice]

MCSarStep == Ratio(1, 50)
MCSarMaxStep == Ratio(1, 5)
MCTolerance == Zero
=============================================================================
