---------------------------- MODULE MCAutoInvest ----------------------------
(* One user who asks for a portfolio that fits its budget and for one of    *)
(* which only the first leg does.                                           *)
EXTENDS AutoInvest, TLC

MCOffers == {<<"CONSERVATIVE", 1000>>, <<"BALANCED", 70>>}
Symmetry == Permutations(Bots) \cup Permutations(Requests)
=============================================================================
