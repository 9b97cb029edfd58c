------------------------------ MODULE MCOrders ------------------------------
(* Orders for TLC: the .cfg files give the constants; handlers are          *)
(* interchangeable in the runs that check no liveness.                      *)
EXTENDS Orders, TLC

HandlerSymmetry == Permutations(Handlers)
=============================================================================
