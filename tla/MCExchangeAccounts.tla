------------------------- MODULE MCExchangeAccounts -------------------------
(* Two accounts, a limit of one, two requests at a time.                    *)
EXTENDS ExchangeAccounts, TLC

Symmetry == Permutations(Accounts) \cup Permutations(Calls)
=============================================================================
