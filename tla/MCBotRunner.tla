---------------------------- MODULE MCBotRunner ----------------------------
(* Instances of BotRunner for TLC.                                         *)
EXTENDS BotRunner

Off == [min |-> 0, max |-> 0]
(* With it, buys only at the high price, where the budget is worth one lot. *)
TradeHigh == {[BUY |-> Off, SELL |-> [min |-> 2, max |-> 0]],
              [BUY |-> [min |-> 2, max |-> 0], SELL |-> Off]}
=============================================================================
