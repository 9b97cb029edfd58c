----------------------------- MODULE MCBilling -----------------------------
(* Billing for TLC: alice holds every wallet.                               *)
EXTENDS Billing, TLC

CONSTANTS alice, bob

AliceHoldsAll == [w \in Wallets |-> alice]
=============================================================================
