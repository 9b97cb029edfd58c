------------------------------ MODULE Billing ------------------------------
(***************************************************************************)
(* Subscriptions paid on chain: PaymentListenerService scans the blocks    *)
(* that have enough confirmations from a persisted cursor, attributes each *)
(* log to the verified owner of its wallet (Wallets), and                  *)
(* SubscriptionService turns it into paid time.  The chain grows, and may  *)
(* drop blocks that are not confirmed yet.                                 *)
(*                                                                         *)
(* A block holds at most one log, so the height of a block is the position *)
(* (txHash, logIndex) of its log; heights are also the clock.              *)
(***************************************************************************)
EXTENDS Naturals, Wallets

CONSTANTS
    Confirmations,  \* CONFIRMATIONS
    Span,           \* MAX_BLOCK_SPAN
    Period,         \* PERIOD_DAYS, in blocks; also the period of the contract
    Grace,          \* GRACE_DAYS, in blocks
    MaxBlocks,      \* bound: height of the chain
    MaxReorgs,      \* bound: reorganisations
    MaxFaults,      \* bound: restarts and failed calls
    LinkedFirst,    \* TRUE: users prove their wallet before they use the contract
    LapseJob        \* TRUE: something calls reconcileLapsed, which nothing in the code does

Heights == 1 .. MaxBlocks

ASSUME SizesAssumption ==
    /\ Confirmations \in Nat /\ Span \in Nat \ {0} /\ Period \in Nat \ {0} /\ Grace \in Nat
ASSUME BillingBoundsAssumption == MaxBlocks \in Nat /\ MaxReorgs \in Nat /\ MaxFaults \in Nat
ASSUME SwitchesAssumption == LinkedFirst \in BOOLEAN /\ LapseJob \in BOOLEAN

VARIABLES
    block,       \* the log of each block of the chain
    head,        \* the height of the chain
    cursor,      \* lastProcessedBlock
    payment,     \* the user credited for the log at a height: the payments table
    sub,         \* the subscriptions table
    listener,    \* the continuation of sync
    lapse,       \* the continuation of reconcileLapsed
    mishaps      \* reorganisations and faults so far

chain == <<block, head>>
tables == <<cursor, payment, sub>>
tasks == <<listener, lapse>>
vars == <<wallet, chain, tables, tasks, mishaps>>

-----------------------------------------------------------------------------
Events == {"Subscribed", "Unsubscribed", "Charged"}
NoLog == [event |-> "none", wallet |-> NoWallet]
Logs == [event : Events, wallet : Wallets] \cup {NoLog}

Tiers == {"FREE", "PRO"}
Standings == {"NONE", "ACTIVE", "GRACE", "CANCELLED", "EXPIRED"}

(* end and graceEnd are 0 while they are null.                              *)
NewSubscription ==
    [tier |-> "FREE", status |-> "NONE", end |-> 0, graceEnd |-> 0, payer |-> NoWallet]

Idle == [pc |-> "idle", confirmed |-> 0, from |-> 0, to |-> 0, queue |-> {},
         log |-> 0, user |-> Nobody, end |-> 0]
NoLapse == [pc |-> "idle", now |-> 0, ends |-> [u \in Users |-> 0]]

TypeOK ==
    /\ WalletTypeOK
    /\ block \in [Heights -> Logs]
    /\ head \in 0 .. MaxBlocks
    /\ cursor \in 0 .. MaxBlocks
    /\ payment \in [Heights -> Users \cup {Nobody}]
    /\ sub \in [Users -> [tier : Tiers, status : Standings, end : Nat, graceEnd : Nat,
                          payer : Wallets \cup {NoWallet}]]
    /\ listener \in [pc : {"idle", "scan", "handle", "owned", "apply"},
                     confirmed : 0 .. MaxBlocks, from : 0 .. MaxBlocks, to : 0 .. MaxBlocks,
                     queue : SUBSET Heights, log : 0 .. MaxBlocks,
                     user : Users \cup {Nobody}, end : Nat]
    /\ lapse \in [pc : {"idle", "grace"}, now : 0 .. MaxBlocks, ends : [Users -> Nat]]
    /\ mishaps \in [{"reorg", "fault"} -> Nat]

Init ==
    /\ WalletInit
    /\ block = [b \in Heights |-> NoLog]
    /\ head = 0
    /\ cursor = 0
    /\ payment = [b \in Heights |-> Nobody]
    /\ sub = [u \in Users |-> NewSubscription]
    /\ listener = Idle
    /\ lapse = NoLapse
    /\ mishaps = [m \in {"reorg", "fault"} |-> 0]

(* isProActive: may the user use paid features at this height?              *)
IsProActive(s, now) ==
    /\ s.tier = "PRO"
    /\ IF s.status = "CANCELLED" THEN s.end > now
       ELSE (IF s.graceEnd # 0 THEN s.graceEnd ELSE s.end) > now

-----------------------------------------------------------------------------
(* The chain and the contract *)

Holds(b, event, w) == b <= head /\ block[b] = [event |-> event, wallet |-> w]

OptedIn(w) ==
    \E b \in Heights :
        /\ Holds(b, "Subscribed", w)
        /\ \A c \in Heights : c > b => ~Holds(c, "Unsubscribed", w)

(* A log the contract may emit now: a charge only of an opted-in wallet,    *)
(* and a period after the one before.                                       *)
Emittable(log) ==
    log.event = "Charged" =>
        /\ OptedIn(log.wallet)
        /\ \A b \in Heights : Holds(b, "Charged", log.wallet) => b + Period <= head + 1

Mine(log) ==
    /\ head < MaxBlocks
    /\ Emittable(log)
    /\ LinkedFirst => log.wallet \in {w \in Wallets : OwnerOf(w) # Nobody} \cup {NoWallet}
    /\ head' = head + 1
    /\ block' = [block EXCEPT ![head + 1] = log]
    /\ UNCHANGED <<wallet, tables, tasks, mishaps>>

(* The logs of unconfirmed blocks from b up are dropped.                    *)
Reorg(b) ==
    /\ mishaps["reorg"] < MaxReorgs
    /\ b <= head /\ b + Confirmations > head
    /\ mishaps' = [mishaps EXCEPT !["reorg"] = @ + 1]
    /\ block' = [c \in Heights |-> IF c >= b THEN NoLog ELSE block[c]]
    /\ UNCHANGED <<wallet, head, tables, tasks>>

-----------------------------------------------------------------------------
(* PaymentListenerService.sync, from the timer or from the stream *)

(* Mutant: logs are taken at the head of the chain.                         *)
Sync_AtTheHead ==
    /\ listener.pc = "idle"
    /\ cursor + 1 <= head
    /\ listener' = [Idle EXCEPT !.pc = "scan", !.confirmed = head, !.from = cursor + 1]
    /\ UNCHANGED <<wallet, chain, tables, lapse, mishaps>>

(* The head less the confirmations, and the cursor: the range to scan.      *)
Sync ==
    /\ listener.pc = "idle"
    /\ head > Confirmations
    /\ cursor + 1 <= head - Confirmations
    /\ listener' = [Idle EXCEPT !.pc = "scan", !.confirmed = head - Confirmations,
                                !.from = cursor + 1]
    /\ UNCHANGED <<wallet, chain, tables, lapse, mishaps>>

(* Mutant: the cursor is saved before the logs of the range are handled.    *)
GetLogs_SaveFirst ==
    LET last == listener.from + Span - 1
        to == IF last > listener.confirmed THEN listener.confirmed ELSE last
    IN
    /\ listener.pc = "scan"
    /\ cursor' = to
    /\ listener' = [listener EXCEPT !.pc = "handle", !.to = to,
                        !.queue = {b \in listener.from .. to : block[b] # NoLog}]
    /\ UNCHANGED <<wallet, chain, payment, sub, lapse, mishaps>>

(* One getLogs call, of at most Span blocks.                                *)
GetLogs ==
    LET last == listener.from + Span - 1
        to == IF last > listener.confirmed THEN listener.confirmed ELSE last
    IN
    /\ listener.pc = "scan"
    /\ listener' = [listener EXCEPT !.pc = "handle", !.to = to,
                        !.queue = {b \in listener.from .. to : block[b] # NoLog}]
    /\ UNCHANGED <<wallet, chain, tables, lapse, mishaps>>

(* The next log of the range, in the order of the chain.                    *)
NextLog(b) == b \in listener.queue /\ \A c \in listener.queue : b <= c

(* handle asks for the owner of the wallet, and drops a log that names no   *)
(* wallet, or one that nobody has proven.                                   *)
FindOwner(b) ==
    LET owner == IF block[b] = NoLog THEN Nobody ELSE OwnerOf(block[b].wallet) IN
    /\ listener.pc = "handle"
    /\ NextLog(b)
    /\ listener' = IF owner = Nobody
                   THEN [listener EXCEPT !.queue = @ \ {b}]
                   ELSE [listener EXCEPT !.pc = "owned", !.log = b, !.user = owner]
    /\ UNCHANGED <<wallet, chain, tables, lapse, mishaps>>

(* Mutant: a log that was paid out before is not recognised.                *)
Skipped_NoIdempotency(b, user) ==
    block[b].event = "Subscribed" /\ sub[user].status = "ACTIVE"

(* The subscription is read, and with it, for a charge, the payment of this *)
(* log; a log that was paid out before is skipped, and so is an opt-in of   *)
(* an active subscription.                                                  *)
Skipped(b, user) ==
    \/ block[b].event = "Charged" /\ payment[b] # Nobody
    \/ block[b].event = "Subscribed" /\ sub[user].status = "ACTIVE"

LogHandled ==
    [listener EXCEPT !.pc = "handle", !.queue = @ \ {listener.log},
                     !.log = 0, !.user = Nobody, !.end = 0]

ReadSubscription ==
    /\ listener.pc = "owned"
    /\ listener' = IF Skipped(listener.log, listener.user)
                   THEN LogHandled
                   ELSE [listener EXCEPT !.pc = "apply", !.end = sub[listener.user].end]
    /\ UNCHANGED <<wallet, chain, tables, lapse, mishaps>>

Applying(event) == listener.pc = "apply" /\ block[listener.log].event = event

(* applyCharge: payment and subscription in one transaction; the period     *)
(* goes on from its end as it was read, or from the charge if that is over. *)
ApplyCharge ==
    LET b == listener.log
        u == listener.user
    IN
    /\ Applying("Charged")
    /\ payment' = [payment EXCEPT ![b] = u]
    /\ sub' = [sub EXCEPT ![u] = [tier |-> "PRO", status |-> "ACTIVE",
                                  end |-> (IF listener.end > b THEN listener.end ELSE b) + Period,
                                  graceEnd |-> 0, payer |-> block[b].wallet]]
    /\ listener' = LogHandled
    /\ UNCHANGED <<wallet, chain, cursor, lapse, mishaps>>

MarkSubscribed ==
    /\ Applying("Subscribed")
    /\ sub' = [sub EXCEPT ![listener.user].status = "NONE",
                          ![listener.user].payer = block[listener.log].wallet]
    /\ listener' = LogHandled
    /\ UNCHANGED <<wallet, chain, cursor, payment, lapse, mishaps>>

MarkCancelled ==
    /\ Applying("Unsubscribed")
    /\ sub' = [sub EXCEPT ![listener.user].status = "CANCELLED"]
    /\ listener' = LogHandled
    /\ UNCHANGED <<wallet, chain, cursor, payment, lapse, mishaps>>

(* Mutant: the cursor jumps to the end of the whole scan.                   *)
SaveCursor_WholeScan ==
    LET next == listener.to + 1 IN
    /\ listener.pc = "handle" /\ listener.queue = {}
    /\ cursor' = listener.confirmed
    /\ listener' = IF next <= listener.confirmed
                   THEN [listener EXCEPT !.pc = "scan", !.from = next]
                   ELSE Idle
    /\ UNCHANGED <<wallet, chain, payment, sub, lapse, mishaps>>

(* The cursor moves once every log of the range was handled.                *)
SaveCursor ==
    LET next == listener.to + 1 IN
    /\ listener.pc = "handle" /\ listener.queue = {}
    /\ cursor' = listener.to
    /\ listener' = IF next <= listener.confirmed
                   THEN [listener EXCEPT !.pc = "scan", !.from = next]
                   ELSE Idle
    /\ UNCHANGED <<wallet, chain, payment, sub, lapse, mishaps>>

-----------------------------------------------------------------------------
(* The controller binds the wallet that was just proven (attachWallet).     *)
AttachWallet(r) ==
    /\ Respond(r)
    /\ sub' = [sub EXCEPT ![request[r].user].payer = request[r].wallet]
    /\ UNCHANGED <<chain, cursor, payment, tasks, mishaps>>

(* reconcileLapsed: reads the active subscriptions whose period is over,    *)
(* gives each its grace in a write of its own, then expires those whose     *)
(* grace, or cancelled period, is over.                                     *)
ReadLapsed ==
    /\ LapseJob
    /\ lapse.pc = "idle"
    /\ lapse' = [pc |-> "grace", now |-> head,
                 ends |-> [u \in Users |->
                     IF sub[u].tier = "PRO" /\ sub[u].status = "ACTIVE" /\ sub[u].end < head
                     THEN sub[u].end ELSE 0]]
    /\ UNCHANGED <<wallet, chain, tables, listener, mishaps>>

GiveGrace(u) ==
    /\ lapse.pc = "grace" /\ lapse.ends[u] # 0
    /\ sub' = [sub EXCEPT ![u].status = "GRACE", ![u].graceEnd = lapse.ends[u] + Grace]
    /\ lapse' = [lapse EXCEPT !.ends[u] = 0]
    /\ UNCHANGED <<wallet, chain, cursor, payment, listener, mishaps>>

ExpireLapsed ==
    LET Over(s) ==
            /\ s.status \in {"GRACE", "CANCELLED"}
            /\ \/ s.graceEnd # 0 /\ s.graceEnd < lapse.now
               \/ s.status = "CANCELLED" /\ s.end # 0 /\ s.end < lapse.now
    IN
    /\ lapse.pc = "grace" /\ \A u \in Users : lapse.ends[u] = 0
    /\ sub' = [u \in Users |-> IF Over(sub[u])
                               THEN [sub[u] EXCEPT !.status = "EXPIRED", !.tier = "FREE"]
                               ELSE sub[u]]
    /\ lapse' = NoLapse
    /\ UNCHANGED <<wallet, chain, cursor, payment, listener, mishaps>>

-----------------------------------------------------------------------------
(* A call of the node or of the database throws: sync logs it and ends.     *)
SyncFails ==
    /\ listener.pc # "idle"
    /\ mishaps["fault"] < MaxFaults
    /\ mishaps' = [mishaps EXCEPT !["fault"] = @ + 1]
    /\ listener' = Idle
    /\ UNCHANGED <<wallet, chain, tables, lapse>>

(* A restart: every task and every request in flight is gone.               *)
Crash ==
    /\ mishaps["fault"] < MaxFaults
    /\ mishaps' = [mishaps EXCEPT !["fault"] = @ + 1]
    /\ listener' = Idle
    /\ lapse' = NoLapse
    /\ request' = [r \in Requests |-> Resting]
    /\ UNCHANGED <<link, message, nonces, ops, chain, tables>>

ListenerStep ==
    \/ Sync \/ GetLogs \/ (\E b \in Heights : FindOwner(b)) \/ ReadSubscription
    \/ ApplyCharge \/ MarkSubscribed \/ MarkCancelled \/ SaveCursor

Next ==
    \/ \E log \in Logs : Mine(log)
    \/ \E b \in Heights : Reorg(b)
    \/ ListenerStep
    \/ WalletStep /\ UNCHANGED <<chain, tables, tasks, mishaps>>
    \/ \E r \in Requests : AttachWallet(r)
    \/ ReadLapsed \/ ExpireLapsed \/ \E u \in Users : GiveGrace(u)
    \/ SyncFails \/ Crash

Spec == Init /\ [][Next]_vars

(* The timer runs sync every minute, and the event loop its continuations.  *)
FairSpec == Spec /\ WF_vars(ListenerStep)

-----------------------------------------------------------------------------
(* Only a charge that no reorganisation can take back is credited           *)
(* (CONFIRMATIONS: "occasionally granting Pro for a transaction a reorg     *)
(* then rolls back").                                                       *)
CreditsAreFinal ==
    \A b \in Heights :
        payment[b] # Nobody => block[b].event = "Charged" /\ b + Confirmations <= head

(* A charge is credited to the user who holds the wallet it was pulled from *)
(* (handle and ownerOf, with challenges of other users in flight).          *)
CreditsGoToThePayer ==
    \A b \in Heights : payment[b] # Nobody => payment[b] = HolderOf[block[b].wallet]

Due(b) == block[b].event = "Charged" /\ OwnerOf(block[b].wallet) # Nobody

(* The cursor leaves no charge of a proven wallet behind, across restarts   *)
(* and failed calls (sync).                                                 *)
NothingIsSkipped == \A b \in 1 .. cursor : Due(b) => payment[b] # Nobody

(* Nobody keeps the paid features longer than what was paid and the grace   *)
(* (isProActive, reconcileLapsed and applyCharge, interleaved).             *)
NoAccessBeyondGrace ==
    \A u \in Users : IsProActive(sub[u], head) => head < sub[u].end + Grace

(* What the steps rest on: a scan is above the cursor and below the         *)
(* confirmations, where no reorganisation removes its logs; the log in hand *)
(* is one of the range, of a user whose end of paid time nobody else moves; *)
(* no grace is longer than Grace.                                           *)

ScanIsConfirmed ==
    listener.pc # "idle" =>
        /\ cursor < listener.from /\ listener.from <= listener.confirmed
        /\ listener.confirmed + Confirmations <= head
        /\ listener.pc # "scan" =>
               /\ listener.from <= listener.to /\ listener.to <= listener.confirmed
               /\ \A b \in listener.queue :
                      listener.from <= b /\ b <= listener.to /\ block[b] # NoLog

LogInHand ==
    /\ listener.pc \in {"owned", "apply"} =>
           listener.log \in listener.queue /\ listener.user \in Users
    /\ listener.pc = "apply" =>
           /\ listener.end = sub[listener.user].end
           /\ block[listener.log].event = "Charged" => payment[listener.log] = Nobody

GraceIsBounded ==
    \A u \in Users :
        /\ lapse.ends[u] <= sub[u].end
        /\ sub[u].graceEnd <= sub[u].end + Grace

(* What the cursor rests on: a scan starts where the cursor stands, and the *)
(* logs of its range that are out of its queue were seen to.                *)
ScanIsComplete ==
    /\ cursor <= head
    /\ listener.pc # "idle" => listener.from = cursor + 1
    /\ listener.pc \notin {"idle", "scan"} =>
           \A b \in (listener.from .. listener.to) \ listener.queue : Due(b) => payment[b] # Nobody

(* A wallet is proven before the chain has a log of it.                     *)
ProvenFirst ==
    \A w \in Wallets :
        OwnerOf(w) = Nobody /\ OwnerOf(w)' # Nobody => \A b \in Heights : block[b].wallet # w

(* The inductive invariant.                                                 *)
IInv == TypeOK /\ ScanIsConfirmed /\ LogInHand /\ GraceIsBounded /\ CreditsAreFinal

(* A charge that has its confirmations is credited, whatever fails on the   *)
(* way, unless its wallet is not proven any more.                           *)
ConfirmedChargesAreCredited ==
    \A b \in Heights :
        (Due(b) /\ b + Confirmations <= head) ~> (payment[b] # Nobody \/ ~Due(b))

-----------------------------------------------------------------------------
(* Refinement: scanning, attribution and restarts forgotten, each charge    *)
(* buys one period, once.                                                   *)
Paid == INSTANCE PaidTime WITH
    credited <- payment,
    until <- [u \in Users |-> sub[u].end]

(* Each log is credited once, to one user, and every credit adds one period *)
(* to the end of the paid time, never less and never a free one             *)
(* (applyCharge with the listener that feeds it).                           *)
ImplementsPaidTime == Paid!Spec
=============================================================================
