------------------------------- MODULE Orders -------------------------------
(***************************************************************************)
(* The order execution path: OrdersService (place, sync, cancel), the      *)
(* reconciler that re-reads every order that could still have moved, and   *)
(* the exchange as its adapters see it.                                    *)
(*                                                                         *)
(* The backend is one Node process.  A handler runs atomically between two *)
(* awaits and interleaves with every other handler at an await, so each    *)
(* action below is the code from one await to the next.  A restart loses   *)
(* every handler in flight and keeps the database rows and the exchange.   *)
(*                                                                         *)
(* An intent is a (user, idempotency key) pair; the client order id        *)
(* derived from it is injective, so an intent names both the row and the   *)
(* order on the exchange.                                                  *)
(***************************************************************************)
EXTENDS Naturals, FiniteSets

CONSTANTS
    Live,          \* intents of real bots and of the API: they reach the exchange
    Paper,         \* intents of paper bots: they never do
    Handlers,      \* slots for concurrent HTTP requests and strategy runs
    Reconciler,    \* the worker of the reconciler's tick
    NoIntent,      \* the intent of an idle worker
    Qty,           \* quantity of every order, in fill steps
    BatchSize,     \* BATCH_SIZE of the reconciler
    PlainErrors,   \* TRUE: a place call may fail with an error that is not retryable although it landed
    SlowQueue,     \* TRUE: a submission may wait for the rate limiter past STALE_AFTER_MS
    MaxPlaces,     \* bound: place calls per intent
    MaxSyncs,      \* bound: user sync calls per intent
    MaxCancels,    \* bound: cancel calls per intent
    MaxCalls,      \* bound: place, sync and cancel calls per intent together
    MaxFaults      \* bound: process restarts and failed database writes

Intents == Live \cup Paper
Workers == Handlers \cup {Reconciler}

ASSUME IntentsAssumption ==
    Live \cap Paper = {} /\ NoIntent \notin Intents /\ IsFiniteSet(Intents)
ASSUME WorkersAssumption == Reconciler \notin Handlers
ASSUME SizesAssumption == Qty \in Nat \ {0} /\ BatchSize \in Nat \ {0}
ASSUME EnvironmentAssumption == PlainErrors \in BOOLEAN /\ SlowQueue \in BOOLEAN
ASSUME BoundsAssumption ==
    /\ MaxPlaces \in Nat /\ MaxSyncs \in Nat /\ MaxCancels \in Nat
    /\ MaxCalls \in Nat /\ MaxFaults \in Nat

VARIABLES
    row,         \* the orders table: state and filledQuantity of each intent's row
    created,     \* createdAt of the row, 0 while there is none
    stale,       \* intents whose row is older than STALE_AFTER_MS
    worker,      \* the continuation of each handler and of the reconciler
    batch,       \* what is left of the reconciler's candidate list
    killSwitch,  \* TRADING_KILL_SWITCH, read from the environment at start
    book,        \* the exchange's record of each order
    wire,        \* what became of the submission sent for an intent
    sent,        \* how many submissions were ever sent for an intent
    calls,       \* API calls made so far on each intent
    faults       \* restarts and failed writes so far

database == <<row, created, stale>>
process == <<worker, batch, killSwitch>>
exchange == <<book, wire, sent>>
vars == <<database, process, exchange, calls, faults>>

-----------------------------------------------------------------------------
(* States and records *)

TerminalStates == {"FILLED", "CANCELED", "REJECTED", "EXPIRED"}
OpenStatuses == {"NEW", "PARTIALLY_FILLED"}
Statuses == OpenStatuses \cup TerminalStates
RowStates == Statuses \cup {"NONE", "PENDING"}

Absent == [status |-> "ABSENT", filled |-> 0]
OrderRecord == [status : Statuses, filled : 0 .. Qty] \cup {Absent}

Steps == {"idle", "create", "paper", "queued", "placing", "retryable", "final",
          "sync", "apply", "cancelPaper", "cancel"}

Continuations == [pc : Steps, intent : Intents \cup {NoIntent}, answer : OrderRecord]
ApiCalls == {"place", "sync", "cancel"}

Idle == [pc |-> "idle", intent |-> NoIntent, answer |-> Absent]
At(step, i) == [pc |-> step, intent |-> i, answer |-> Absent]
Apply(i, answer) == [pc |-> "apply", intent |-> i, answer |-> answer]

Exists(i) == row[i].state # "NONE"
IsTerminal(i) == row[i].state \in TerminalStates
MayCall(i) == calls[i]["place"] + calls[i]["sync"] + calls[i]["cancel"] < MaxCalls
Called(op, i) == calls' = [calls EXCEPT ![i][op] = @ + 1]
Goto(w, continuation) == worker' = [worker EXCEPT ![w] = continuation]

TypeOK ==
    /\ row \in [Intents -> [state : RowStates, filled : 0 .. Qty]]
    /\ created \in [Intents -> Nat]
    /\ stale \subseteq Intents
    /\ worker \in [Workers -> Continuations]
    /\ batch \subseteq Live
    /\ killSwitch \in BOOLEAN
    /\ book \in [Intents -> OrderRecord]
    /\ wire \in [Intents -> {"none", "travelling", "landed", "refused", "lost"}]
    /\ sent \in [Intents -> Nat]
    /\ calls \in [Intents -> [ApiCalls -> Nat]]
    /\ faults \in 0 .. MaxFaults

Init ==
    /\ row = [i \in Intents |-> [state |-> "NONE", filled |-> 0]]
    /\ created = [i \in Intents |-> 0]
    /\ stale = {}
    /\ worker = [w \in Workers |-> Idle]
    /\ batch = {}
    /\ killSwitch \in BOOLEAN
    /\ book = [i \in Intents |-> Absent]
    /\ wire = [i \in Intents |-> "none"]
    /\ sent = [i \in Intents |-> 0]
    /\ calls = [i \in Intents |-> [op \in ApiCalls |-> 0]]
    /\ faults = 0

-----------------------------------------------------------------------------
(* OrdersService.place *)

(* The kill switch, then the look-up of the client order id: a new intent   *)
(* goes on, a settled one is returned as it is, a live one is synced.       *)
PlaceRequest(h, i) ==
    /\ worker[h].pc = "idle"
    /\ ~killSwitch
    /\ calls[i]["place"] < MaxPlaces /\ MayCall(i)
    /\ Called("place", i)
    /\ \/ ~Exists(i) /\ Goto(h, At("create", i))
       \/ IsTerminal(i) /\ UNCHANGED worker
       \/ Exists(i) /\ ~IsTerminal(i) /\ Goto(h, At("sync", i))
    /\ UNCHANGED <<database, batch, killSwitch, exchange, faults>>

(* getCredentials throws: the account is missing, revoked or unverified.    *)
CredentialsRefused(h) ==
    /\ worker[h].pc = "create"
    /\ Goto(h, Idle)
    /\ UNCHANGED <<database, batch, killSwitch, exchange, calls, faults>>

(* order.create under the UNIQUE clientOrderId.                             *)
CreateRow(h) ==
    LET i == worker[h].intent IN
    /\ worker[h].pc = "create"
    /\ ~Exists(i)
    /\ row' = [row EXCEPT ![i].state = "PENDING"]
    /\ created' = [created EXCEPT ![i] = Cardinality({j \in Intents : Exists(j)}) + 1]
    /\ Goto(h, At(IF i \in Paper THEN "paper" ELSE "queued", i))
    /\ UNCHANGED <<stale, batch, killSwitch, exchange, calls, faults>>

(* A second request of the same intent loses the race for the UNIQUE key.   *)
CreateConflict(h) ==
    /\ worker[h].pc = "create"
    /\ Exists(worker[h].intent)
    /\ Goto(h, Idle)
    /\ UNCHANGED <<database, batch, killSwitch, exchange, calls, faults>>

(* A paper order is filled on the spot, in a second write.                  *)
PaperFill(h) ==
    /\ worker[h].pc = "paper"
    /\ row' = [row EXCEPT ![worker[h].intent] = [state |-> "FILLED", filled |-> Qty]]
    /\ Goto(h, Idle)
    /\ UNCHANGED <<created, stale, batch, killSwitch, exchange, calls, faults>>

(* The rate limiter lets the adapter send the signed request.               *)
Submit(h) ==
    LET i == worker[h].intent IN
    /\ worker[h].pc = "queued"
    /\ wire' = [wire EXCEPT ![i] = "travelling"]
    /\ sent' = [sent EXCEPT ![i] = @ + 1]
    /\ Goto(h, At("placing", i))
    /\ UNCHANGED <<database, batch, killSwitch, book, calls, faults>>

(* The adapter answers with the order as the exchange holds it.             *)
PlaceAnswered(h) ==
    LET i == worker[h].intent IN
    /\ worker[h].pc = "placing"
    /\ book[i] # Absent
    /\ Goto(h, Apply(i, book[i]))
    /\ UNCHANGED <<database, batch, killSwitch, exchange, calls, faults>>

(* A 4xx or a business error: the exchange refused the order for good.      *)
PlaceRefused(h) ==
    /\ worker[h].pc = "placing"
    /\ wire[worker[h].intent] = "refused"
    /\ Goto(h, At("final", worker[h].intent))
    /\ UNCHANGED <<database, batch, killSwitch, exchange, calls, faults>>

(* 429, 418, 5xx, or an order that could not be read back: whether it       *)
(* landed is unknown, and the error says so.                                *)
PlaceRetryable(h) ==
    /\ worker[h].pc = "placing"
    /\ Goto(h, At("retryable", worker[h].intent))
    /\ UNCHANGED <<database, batch, killSwitch, exchange, calls, faults>>

(* The fetch times out, the connection breaks, the body is no JSON, or      *)
(* Bybit's read-back of an accepted order is refused: an error that is not  *)
(* retryable, so place takes it for a final one.                            *)
PlacePlainError(h) ==
    /\ PlainErrors
    /\ worker[h].pc = "placing"
    /\ Goto(h, At("final", worker[h].intent))
    /\ UNCHANGED <<database, batch, killSwitch, exchange, calls, faults>>

(* Mutant: a retryable failure is submitted again at once.                  *)
RecordFailure_SendAgain(h) ==
    /\ worker[h].pc \in {"retryable", "final"}
    /\ row' = [row EXCEPT ![worker[h].intent].state =
                   IF worker[h].pc = "retryable" THEN "PENDING" ELSE "REJECTED"]
    /\ Goto(h, IF worker[h].pc = "retryable" THEN At("queued", worker[h].intent) ELSE Idle)
    /\ UNCHANGED <<created, stale, batch, killSwitch, exchange, calls, faults>>

(* The catch block: PENDING for a retryable error, REJECTED for any other.  *)
RecordFailure(h) ==
    /\ worker[h].pc \in {"retryable", "final"}
    /\ row' = [row EXCEPT ![worker[h].intent].state =
                   IF worker[h].pc = "retryable" THEN "PENDING" ELSE "REJECTED"]
    /\ Goto(h, Idle)
    /\ UNCHANGED <<created, stale, batch, killSwitch, exchange, calls, faults>>

-----------------------------------------------------------------------------
(* OrdersService.sync, for a user, a replayed place and the reconciler *)

SyncRequest(h, i) ==
    /\ worker[h].pc = "idle"
    /\ Exists(i)
    /\ calls[i]["sync"] < MaxSyncs /\ MayCall(i)
    /\ Called("sync", i)
    /\ Goto(h, At("sync", i))
    /\ UNCHANGED <<database, batch, killSwitch, exchange, faults>>

(* A paper order is returned as it is.                                      *)
SyncPaper(w) ==
    /\ worker[w].pc = "sync"
    /\ worker[w].intent \in Paper
    /\ Goto(w, Idle)
    /\ UNCHANGED <<database, batch, killSwitch, exchange, calls, faults>>

(* fetchOrder: the exchange's record at the time it reads it, or null.      *)
FetchOrder(w) ==
    LET i == worker[w].intent IN
    /\ worker[w].pc = "sync"
    /\ i \in Live
    /\ Goto(w, Apply(i, book[i]))
    /\ UNCHANGED <<database, batch, killSwitch, exchange, calls, faults>>

(* No credentials, or any error of the exchange: nothing is written.        *)
FetchFails(w) ==
    /\ worker[w].pc = "sync"
    /\ worker[w].intent \in Live
    /\ Goto(w, Idle)
    /\ UNCHANGED <<database, batch, killSwitch, exchange, calls, faults>>

(* applyResult, or REJECTED when the exchange has never heard of the order. *)
(* Neither write looks at the row it overwrites.                            *)
ApplyResult(w) ==
    LET i == worker[w].intent
        answer == worker[w].answer
    IN
    /\ worker[w].pc = "apply"
    /\ row' = IF answer = Absent
              THEN [row EXCEPT ![i].state = "REJECTED"]
              ELSE [row EXCEPT ![i] = [state |-> answer.status, filled |-> answer.filled]]
    /\ Goto(w, Idle)
    /\ UNCHANGED <<created, stale, batch, killSwitch, exchange, calls, faults>>

-----------------------------------------------------------------------------
(* OrdersService.cancel *)

(* A closed order is refused with 400: only a live one goes on.             *)
CancelRequest(h, i) ==
    /\ worker[h].pc = "idle"
    /\ Exists(i)
    /\ ~IsTerminal(i)
    /\ calls[i]["cancel"] < MaxCancels /\ MayCall(i)
    /\ Called("cancel", i)
    /\ Goto(h, At(IF i \in Paper THEN "cancelPaper" ELSE "cancel", i))
    /\ UNCHANGED <<database, batch, killSwitch, exchange, faults>>

CancelPaper(h) ==
    /\ worker[h].pc = "cancelPaper"
    /\ row' = [row EXCEPT ![worker[h].intent].state = "CANCELED"]
    /\ Goto(h, Idle)
    /\ UNCHANGED <<created, stale, batch, killSwitch, exchange, calls, faults>>

(* Binance: the exchange closes an open order; the answer comes back or is  *)
(* lost on the way, and then the call throws and writes nothing.            *)
CancelOrder(h) ==
    LET i == worker[h].intent
        closed == [book[i] EXCEPT !.status = "CANCELED"]
    IN
    /\ worker[h].pc = "cancel"
    /\ book[i].status \in OpenStatuses
    /\ book' = [book EXCEPT ![i] = closed]
    /\ Goto(h, Apply(i, closed)) \/ Goto(h, Idle)
    /\ UNCHANGED <<database, batch, killSwitch, wire, sent, calls, faults>>

(* Bybit: the cancellation of an open order is acknowledged, and the order  *)
(* is read back, closed by then or not.                                     *)
CancelAcknowledged(h) ==
    LET i == worker[h].intent IN
    /\ worker[h].pc = "cancel"
    /\ book[i].status \in OpenStatuses
    /\ Goto(h, At("sync", i))
    /\ UNCHANGED <<database, batch, killSwitch, exchange, calls, faults>>

(* Mutant: a cancellation that failed is recorded as done.                  *)
CancelFails_Optimistic(h) ==
    LET i == worker[h].intent IN
    /\ worker[h].pc = "cancel"
    /\ Goto(h, Apply(i, [book[i] EXCEPT !.status = "CANCELED"]))
    /\ UNCHANGED <<database, batch, killSwitch, exchange, calls, faults>>

(* No credentials, no such open order, or the request never arrived.        *)
CancelFails(h) ==
    /\ worker[h].pc = "cancel"
    /\ Goto(h, Idle)
    /\ UNCHANGED <<database, batch, killSwitch, exchange, calls, faults>>

-----------------------------------------------------------------------------
(* ReconcilerService *)

(* Mutant: a PENDING row is re-read at once, however young.                 *)
Candidates_AnyAge ==
    {i \in Live : row[i].state \in OpenStatuses \cup {"PENDING"}}

(* Mutant: PENDING rows are never re-read.                                  *)
Candidates_OpenOnly == {i \in Live : row[i].state \in OpenStatuses}

Candidates ==
    {i \in Live : \/ row[i].state \in OpenStatuses
                  \/ row[i].state = "PENDING" /\ i \in stale}

(* The `take` oldest of S.                                                  *)
Oldest(S, take) ==
    {i \in S : Cardinality({j \in S : created[j] < created[i]}) < take}

(* A tick, unless the previous one is still running.                        *)
ReconcilerTick ==
    /\ worker[Reconciler].pc = "idle"
    /\ batch = {}
    /\ batch' = Oldest(Candidates, BatchSize)
    /\ UNCHANGED <<database, worker, killSwitch, exchange, calls, faults>>

(* The next candidate, oldest first, goes through OrdersService.sync.       *)
ReconcilerNext ==
    /\ worker[Reconciler].pc = "idle"
    /\ \E i \in Oldest(batch, 1) :
          /\ Goto(Reconciler, At("sync", i))
          /\ batch' = batch \ {i}
    /\ UNCHANGED <<database, killSwitch, exchange, calls, faults>>

-----------------------------------------------------------------------------
(* The exchange, the network, time and faults *)

(* An accepted order rests, fills in part or in full, or is rejected or     *)
(* expired by the matching engine at once.                                  *)
Land(i) ==
    /\ wire[i] = "travelling"
    /\ wire' = [wire EXCEPT ![i] = "landed"]
    /\ \E outcome \in {[status |-> "NEW", filled |-> 0],
                       [status |-> "FILLED", filled |-> Qty],
                       [status |-> "REJECTED", filled |-> 0]} :
          book' = [book EXCEPT ![i] = outcome]
    /\ UNCHANGED <<database, process, sent, calls, faults>>

(* The exchange refuses the request, or the request never gets there.       *)
FailToLand(i) ==
    /\ wire[i] = "travelling"
    /\ \E fate \in {"refused", "lost"} : wire' = [wire EXCEPT ![i] = fate]
    /\ UNCHANGED <<database, process, book, sent, calls, faults>>

(* One more step of an open order's quantity trades.                        *)
Trade(i) ==
    LET filled == book[i].filled + 1 IN
    /\ book[i].status \in OpenStatuses
    /\ filled <= Qty
    /\ book' = [book EXCEPT ![i] =
                   [status |-> IF filled = Qty THEN "FILLED" ELSE "PARTIALLY_FILLED",
                    filled |-> filled]]
    /\ UNCHANGED <<database, process, wire, sent, calls, faults>>

(* The exchange expires an open order, or its owner cancels it there.       *)
CloseOnExchange(i) ==
    /\ book[i].status \in OpenStatuses
    /\ \E status \in {"CANCELED", "EXPIRED"} :
          book' = [book EXCEPT ![i].status = status]
    /\ UNCHANGED <<database, process, wire, sent, calls, faults>>

(* A worker waits for the rate limiter to submit the order of i.            *)
Queued(i) == \E w \in Workers : worker[w].pc = "queued" /\ worker[w].intent = i

(* STALE_AFTER_MS passes.  recvWindow and the HTTP timeout bound the flight *)
(* of a request far below it; nothing bounds the wait for the rate limiter. *)
Age(i) ==
    /\ Exists(i)
    /\ i \notin stale
    /\ wire[i] # "travelling"
    /\ ~SlowQueue => ~Queued(i)
    /\ stale' = stale \cup {i}
    /\ UNCHANGED <<row, created, process, exchange, calls, faults>>

(* The process dies and is restarted, with the environment of the restart.  *)
Crash ==
    /\ faults < MaxFaults
    /\ faults' = faults + 1
    /\ worker' = [w \in Workers |-> Idle]
    /\ batch' = {}
    /\ killSwitch' \in BOOLEAN
    /\ UNCHANGED <<database, exchange, calls>>

(* A database write throws and ends the handler that made it.               *)
WriteFails(w) ==
    /\ faults < MaxFaults
    /\ worker[w].pc \in {"create", "paper", "apply", "retryable", "final", "cancelPaper"}
    /\ faults' = faults + 1
    /\ Goto(w, Idle)
    /\ UNCHANGED <<database, batch, killSwitch, exchange, calls>>

-----------------------------------------------------------------------------
Continue(w) ==
    \/ CredentialsRefused(w) \/ CreateRow(w) \/ CreateConflict(w) \/ PaperFill(w)
    \/ Submit(w)
    \/ PlaceAnswered(w) \/ PlaceRefused(w) \/ PlaceRetryable(w) \/ PlacePlainError(w)
    \/ RecordFailure(w)
    \/ SyncPaper(w) \/ FetchOrder(w) \/ FetchFails(w) \/ ApplyResult(w)
    \/ CancelPaper(w) \/ CancelOrder(w) \/ CancelAcknowledged(w) \/ CancelFails(w)

Next ==
    \/ \E h \in Handlers, i \in Intents :
          PlaceRequest(h, i) \/ SyncRequest(h, i) \/ CancelRequest(h, i)
    \/ \E w \in Workers : Continue(w) \/ WriteFails(w)
    \/ ReconcilerTick \/ ReconcilerNext
    \/ \E i \in Intents : Land(i) \/ FailToLand(i) \/ Trade(i) \/ CloseOnExchange(i) \/ Age(i)
    \/ Crash

Spec == Init /\ [][Next]_vars

(* The event loop runs every continuation and every timer; a request in     *)
(* flight lands or is lost; and the reconciler, asking again every 30       *)
(* seconds, is not refused an answer about one order for ever.              *)
Fairness ==
    /\ \A w \in Workers : WF_vars(Continue(w))
    /\ WF_vars(ReconcilerTick) /\ WF_vars(ReconcilerNext)
    /\ \A i \in Live : SF_vars(worker[Reconciler].intent = i /\ FetchOrder(Reconciler))
    /\ \A i \in Intents : WF_vars(Land(i) \/ FailToLand(i)) /\ WF_vars(Age(i))

FairSpec == Spec /\ Fairness

-----------------------------------------------------------------------------
(* Safety *)

(* An intent reaches the exchange at most once, however often its request   *)
(* is replayed, raced or cut short by a restart (OrdersService.place).      *)
AtMostOneSubmission == \A i \in Intents : sent[i] <= 1

(* Nothing is sent, and nothing exists on the exchange, that has no row in  *)
(* the database first; and paper orders never leave the process.            *)
RecordedBeforeSent ==
    \A i \in Intents : (sent[i] > 0 \/ book[i] # Absent) => i \in Live /\ Exists(i)

(* What a row claims happened did happen: it never shows more filled than   *)
(* the exchange executed, and a row that says FILLED, CANCELED or EXPIRED   *)
(* agrees with the exchange, whichever of the racing answers wrote it last. *)
RowsClaimOnlyTheTruth ==
    \A i \in Live :
        /\ row[i].filled <= book[i].filled
        /\ row[i].state \in {"FILLED", "CANCELED", "EXPIRED"}
              => book[i] = [status |-> row[i].state, filled |-> row[i].filled]

(* While the kill switch is on no order is recorded and none is sent, not   *)
(* even by a request that was admitted before (assertTradingEnabled).       *)
KillSwitchStopsOrders ==
    [][killSwitch => \A i \in Intents : sent'[i] = sent[i] /\ (Exists(i)' = Exists(i))]_vars

(* What the safety of a step rests on, and is kept by every step.           *)

BusyWithAnIntent ==
    \A w \in Workers : worker[w].pc # "idle" => worker[w].intent \in Intents

(* Row first, then one submission, then an order; the reconciler's list is  *)
(* of orders that have a row.                                               *)
RecordedThenSent ==
    \A i \in Intents :
        /\ i \in batch => Exists(i)
        /\ sent[i] \in {0, 1}
        /\ sent[i] = 1 => i \in Live /\ Exists(i)
        /\ sent[i] = 0 => wire[i] = "none" /\ book[i] = Absent
        /\ wire[i] = "travelling" => book[i] = Absent

(* Past the creation of the row a worker has a row; paper steps are taken   *)
(* on paper orders; and the one worker that is about to submit an order is  *)
(* the one that created its row, and nobody has submitted it.               *)
OwnersAreUnique ==
    \A w \in Workers :
        /\ worker[w].pc \notin {"idle", "create"} => Exists(worker[w].intent)
        /\ worker[w].pc \in {"paper", "cancelPaper"} => worker[w].intent \in Paper
        /\ worker[w].pc = "queued" =>
              /\ worker[w].intent \in Live
              /\ sent[worker[w].intent] = 0
              /\ \A v \in Workers \ {w} :
                    worker[v].pc = "queued" => worker[v].intent # worker[w].intent

(* An answer waiting to be written is at most what the exchange holds now,  *)
(* and if it is final it is what the exchange holds for good.               *)
Backed(answer, order) ==
    /\ answer.filled <= order.filled
    /\ answer.status \in {"FILLED", "CANCELED", "EXPIRED"} => order = answer

AnswersAreBacked ==
    \A w \in Workers :
        worker[w].pc = "apply" => Backed(worker[w].answer, book[worker[w].intent])

(* The inductive invariant.                                                 *)
IInv ==
    /\ TypeOK
    /\ BusyWithAnIntent
    /\ RecordedThenSent
    /\ OwnersAreUnique
    /\ AnswersAreBacked
    /\ RowsClaimOnlyTheTruth

Quiet(i) == wire[i] # "travelling" /\ \A w \in Workers : worker[w].intent # i

(* The failure that must never happen, money that moved and nobody wrote    *)
(* down: once no handler works on an intent and no request of it is in      *)
(* flight, a row that is settled as REJECTED has no live, filled or         *)
(* partly filled order behind it (OrdersService.place).                     *)
NoMoneyUnrecorded ==
    \A i \in Live : Quiet(i) /\ row[i].state = "REJECTED"
                        => book[i].status \in {"ABSENT", "REJECTED"}

(* No submission of i is in flight, and none is to come.                    *)
Over(i) == Exists(i) /\ wire[i] # "travelling" /\ ~Queued(i)

NothingBehind(i) == Over(i) /\ book[i].status \in {"ABSENT", "REJECTED"}

(* The three ways to lose money, one step at a time: an error is taken for  *)
(* final although the order landed or may land yet; a user's sync, or a     *)
(* replayed request, finds no order because the submission is still under   *)
(* way; a row grows stale while its submission waits for the rate limiter.  *)
(* NoMoneyUnrecorded holds of every behaviour without them (OrdersProofs).  *)
ErrorsAreFinal ==
    \A w \in Workers :
        worker[w].pc = "placing" /\ worker'[w].pc = "final" => NothingBehind(worker[w].intent)

UsersReadInTime ==
    \A h \in Handlers :
        worker[h].pc = "sync" /\ worker'[h].pc = "apply" /\ worker'[h].answer = Absent
            => Over(worker[h].intent)

QueueKeepsMoving == \A i \in stale' \ stale : ~Queued(i)

NothingMisread == ErrorsAreFinal /\ UsersReadInTime /\ QueueKeepsMoving

(* Then an order has landed when its row or an answer shows it, and the     *)
(* reconciler meets a row only when the submission is over.                 *)
ReadLate ==
    \A i \in Intents :
        /\ book[i] # Absent => wire[i] = "landed"
        /\ row[i].state \in OpenStatuses => book[i] # Absent
        /\ i \in stale \cup batch => Over(i)

ReadsLate(w) ==
    LET i == worker[w].intent
        answer == worker[w].answer
    IN
    /\ worker[w].pc = "sync" /\ w = Reconciler => Over(i)
    /\ worker[w].pc = "final" => NothingBehind(i)
    /\ worker[w].pc = "apply" =>
          /\ answer = Absent => NothingBehind(i)
          /\ answer # Absent => book[i] # Absent
          /\ answer.status = "REJECTED" => book[i].status = "REJECTED"

ReadersAreLate == \A w \in Workers : ReadsLate(w)

(* A row is only written off when nothing is, or will be, behind it.        *)
WrittenOffForGood == \A i \in Live : row[i].state = "REJECTED" => NothingBehind(i)

LateInv == ReadLate /\ ReadersAreLate /\ WrittenOffForGood

(* Liveness *)

Agrees(i) ==
    IF book[i] = Absent THEN row[i].state = "REJECTED"
    ELSE row[i] = [state |-> book[i].status, filled |-> book[i].filled]

(* Whatever interrupted the request path, the reconciler brings every row   *)
(* to what the exchange holds, and there it stays.                          *)
RowsConverge == \A i \in Live : <>[](Exists(i) => Agrees(i))

-----------------------------------------------------------------------------
(* Refinement: what is left of a step when handlers and messages are        *)
(* forgotten is a step of the ledger.                                       *)
Ledger == INSTANCE OrderLedger WITH
    Intents <- Live,
    recorded <- {i \in Live : Exists(i)},
    submitted <- [i \in Live |-> sent[i]],
    executed <- [i \in Live |-> book[i]],
    reported <- [i \in Live |-> row[i].filled]

(* Every order is executed once for its intent, in this order: recorded,    *)
(* submitted, executed; and nothing is reported that was not executed       *)
(* (place, sync and cancel together).                                       *)
ImplementsLedger == Ledger!Spec
=============================================================================
