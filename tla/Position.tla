------------------------------ MODULE Position ------------------------------
(***************************************************************************)
(* What a bot holds and what it earned, rebuilt from its fills: position.ts*)
(* and ReconcilerService.realisedPnl, which derives a profit of its own    *)
(* from the same rows.                                                     *)
(*                                                                         *)
(* A quantity is a number of exchange lots and a price a number of quote   *)
(* units.  The code divides exactly (Decimal); here a position carries the *)
(* denominator of its money, so that cost / unit is the cost of the open   *)
(* lot and gain / unit the profit realised.                                *)
(***************************************************************************)
EXTENDS Integers, Sequences

Flat == [quantity |-> 0, cost |-> 0, gain |-> 0, unit |-> 1]

Bought(position, fill) ==
    [position EXCEPT !.quantity = @ + fill.filled,
                     !.cost = @ + fill.filled * fill.price * position.unit]

(* Mutant: a partial exit leaves the whole cost on the rest of the lot.     *)
Sold_KeepsCost(position, fill) ==
    LET held == position.quantity
        sold == IF fill.filled < held THEN fill.filled ELSE held
    IN  IF held = 0
        THEN [position EXCEPT !.gain = @ + fill.filled * fill.price * position.unit]
        ELSE [quantity |-> held - sold,
              cost |-> position.cost * held,
              gain |-> position.gain * held
                         + (fill.price * position.unit * held - position.cost) * sold,
              unit |-> position.unit * held]

(* A sell of more than is held counts for what is held.  With nothing held  *)
(* all of its proceeds are profit.                                          *)
Sold(position, fill) ==
    LET held == position.quantity
        sold == IF fill.filled < held THEN fill.filled ELSE held
    IN  IF held = 0
        THEN [position EXCEPT !.gain = @ + fill.filled * fill.price * position.unit]
        ELSE [quantity |-> held - sold,
              cost |-> position.cost * (held - sold),
              gain |-> position.gain * held
                         + (fill.price * position.unit * held - position.cost) * sold,
              unit |-> position.unit * held]

AfterFill(position, fill) ==
    IF fill.filled = 0 THEN position
    ELSE IF fill.side = "BUY" THEN Bought(position, fill)
    ELSE Sold(position, fill)

(* The position before the first fill and after each one.                   *)
Positions(fills) ==
    LET after[n \in {0} \cup DOMAIN fills] ==
            IF n = 0 THEN Flat ELSE AfterFill(after[n - 1], fills[n])
    IN  after

computePosition(fills) == Positions(fills)[Len(fills)]

(* The reconciler's profit: proceeds of the sells less cost of the buys.    *)
AfterCash(total, fill) ==
    IF fill.side = "SELL" THEN total + fill.filled * fill.price
    ELSE total - fill.filled * fill.price

Profits(fills) ==
    LET after[n \in {0} \cup DOMAIN fills] ==
            IF n = 0 THEN 0 ELSE AfterCash(after[n - 1], fills[n])
    IN  after

realisedPnl(fills) == Profits(fills)[Len(fills)]

(* unrealisedReturn compared with a percentage.  A lot that cost nothing    *)
(* has no entry price, and then the return is zero.                         *)
ReturnAtLeast(position, price, percent) ==
    /\ position.cost > 0
    /\ 100 * (price * position.quantity * position.unit - position.cost)
         >= percent * position.cost

ReturnAtMost(position, price, percent) ==
    /\ position.cost > 0
    /\ 100 * (price * position.quantity * position.unit - position.cost)
         <= percent * position.cost

(* The lots a budget buys, rounded down.                                    *)
sizeFromBudget(budget, price) == IF price = 0 THEN 0 ELSE budget \div price
=============================================================================
