----------------------------- MODULE MCBrowser -----------------------------
(* Browser for TLC.                                                         *)
EXTENDS Browser, TLC

BrowserSymmetry == Permutations(Tokens) \cup Permutations(Calls)
=============================================================================
