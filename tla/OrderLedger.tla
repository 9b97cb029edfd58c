----------------------------- MODULE OrderLedger -----------------------------
(***************************************************************************)
(* What order execution promises about money, with no handlers, messages   *)
(* or restarts: an intent is recorded, then submitted at most once, then   *)
(* executed by the exchange, and what is reported of it was executed.      *)
(***************************************************************************)
EXTENDS Naturals

CONSTANTS Intents, Qty

VARIABLES
    recorded,    \* intents that have a row
    submitted,   \* submissions sent for each intent
    executed,    \* the exchange's record of each order
    reported     \* the filled quantity a user is shown

ledger == <<recorded, submitted, executed, reported>>

Absent == [status |-> "ABSENT", filled |-> 0]
Open == {"NEW", "PARTIALLY_FILLED"}
Closed == {"FILLED", "CANCELED", "REJECTED", "EXPIRED"}
Orders == [status : Open \cup Closed, filled : 0 .. Qty]

Init ==
    /\ recorded = {}
    /\ submitted = [i \in Intents |-> 0]
    /\ executed = [i \in Intents |-> Absent]
    /\ reported = [i \in Intents |-> 0]

Record(i) ==
    /\ i \notin recorded
    /\ recorded' = recorded \cup {i}
    /\ UNCHANGED <<submitted, executed, reported>>

Submit(i) ==
    /\ i \in recorded
    /\ submitted[i] = 0
    /\ submitted' = [submitted EXCEPT ![i] = 1]
    /\ UNCHANGED <<recorded, executed, reported>>

(* The order appears once it was submitted; an open one gains fills or      *)
(* closes; a closed one never changes again.                                *)
Execute(i) ==
    /\ submitted[i] = 1
    /\ executed[i].status \notin Closed
    /\ \E order \in Orders :
          /\ order.filled >= executed[i].filled
          /\ executed' = [executed EXCEPT ![i] = order]
    /\ UNCHANGED <<recorded, submitted, reported>>

Report(i) ==
    /\ i \in recorded
    /\ \E quantity \in 0 .. executed[i].filled :
          reported' = [reported EXCEPT ![i] = quantity]
    /\ UNCHANGED <<recorded, submitted, executed>>

Next == \E i \in Intents : Record(i) \/ Submit(i) \/ Execute(i) \/ Report(i)

Spec == Init /\ [][Next]_ledger
=============================================================================
