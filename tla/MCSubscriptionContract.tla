----------------------- MODULE MCSubscriptionContract -----------------------
(* SubscriptionContract on three accounts and the contract's own.           *)
EXTENDS SubscriptionContract, TLC

CONSTANTS owner, user, self

Everyone == {owner, user, self}
=============================================================================
