------------------------------ MODULE Adapters ------------------------------
(***************************************************************************)
(* The order calls of the exchange adapters over the rate limiter: every   *)
(* HTTP request takes a token of its key, then is stamped, signed and sent *)
(* under a timeout, and its answer is parsed.  Binance answers a call with *)
(* one request; Bybit answers with ids only, so that its adapter reads the *)
(* order back, from the open orders first and then from the closed ones.   *)
(*                                                                         *)
(* The calls of one key about one order are modelled, and the exchange     *)
(* around them: the order trades and closes at any time, is shown some     *)
(* time after it was accepted, and requests and answers are lost.          *)
(***************************************************************************)
EXTENDS RateLimiter

CONSTANTS
    NoOrder,      \* what the exchange shows of an order it does not show
    Quantity,     \* quantity of the order, in fill steps
    RecvWindow,   \* recvWindow, in ticks
    Timeout,      \* TIMEOUT_MS, in ticks
    LastJob,      \* bound: no call of an adapter begins after this tick
    MaxJobs       \* bound: calls of the adapter

ASSUME TimesAssumption == RecvWindow \in Nat /\ Timeout \in Nat /\ RecvWindow < Timeout
ASSUME RequestAssumption == 1 \in Weights

VARIABLES
    exchange,   \* whose adapter it is
    order,      \* the order at the exchange, NoOrder before it is accepted
    shown,      \* does the exchange show it already
    placed,     \* was placeOrder called (the orders service calls it once)
    job,        \* the continuation of each call of the adapter
    jobs        \* calls so far

market == <<exchange, order, shown, placed>>
adapters == <<vars, market, job, jobs>>

-----------------------------------------------------------------------------
(* The exchange *)

Open == {"NEW", "PARTIALLY_FILLED"}
Closed == {"FILLED", "CANCELED", "REJECTED", "EXPIRED"}
Orders == [status : Open \cup Closed, filled : Nat]
View == IF shown THEN order ELSE NoOrder

(* What there is of an order: what it is, and nothing while it is not shown. *)
Faces(o, visible) == {o} \cup (IF visible THEN {} ELSE {NoOrder})

(* How the exchange words a status: Bybit has its own names, one of them    *)
(* for an order that was cancelled after a part of it had filled.           *)
BybitWord(o) ==
    CASE o.status = "NEW" -> "New"
      [] o.status = "PARTIALLY_FILLED" -> "PartiallyFilled"
      [] o.status = "FILLED" -> "Filled"
      [] o.status = "CANCELED" /\ o.filled = 0 -> "Cancelled"
      [] o.status = "CANCELED" /\ o.filled > 0 -> "PartiallyFilledCanceled"
      [] o.status = "REJECTED" -> "Rejected"
      [] o.status = "EXPIRED" -> "Deactivated"
Word(o) == IF exchange = "BYBIT" THEN BybitWord(o) ELSE o.status
Told(o) == IF o = NoOrder THEN NoOrder ELSE [word |-> Word(o), filled |-> o.filled]

STATUS_MAP ==
    [New |-> "NEW", PartiallyFilled |-> "PARTIALLY_FILLED", Filled |-> "FILLED",
     Cancelled |-> "CANCELED", PartiallyFilledCanceled |-> "CANCELED",
     Rejected |-> "REJECTED", Deactivated |-> "EXPIRED"]

Tellings == [word : Open \cup Closed \cup DOMAIN STATUS_MAP, filled : Nat]
ASSUME NoOrderAssumption == NoOrder \notin Orders \cup Tellings

(* toOrderResult                                                            *)
OrderResult(told) ==
    [status |-> IF exchange = "BYBIT" THEN STATUS_MAP[told.word] ELSE told.word,
     filled |-> told.filled]

-----------------------------------------------------------------------------
(* Calls *)

NoReply == [kind |-> "none", told |-> NoOrder]
NoResult == [kind |-> "none", seen |-> TRUE, retryable |-> FALSE, step |-> "none", heard |-> TRUE]
NoJob == [op |-> "none", step |-> "none", phase |-> "idle", stamp |-> 0, sent |-> 0,
          reply |-> NoReply, seen |-> {}, result |-> NoResult]

(* What a call returns, and whether the order was so during the call.       *)
Answer(j, o) == [NoResult EXCEPT !.kind = "order", !.seen = o \in j.seen]
Null(j) == [NoResult EXCEPT !.kind = "null", !.seen = NoOrder \in j.seen]
ExchangeError(step, retryable) == [NoResult EXCEPT !.kind = "error", !.step = step, !.retryable = retryable]
PlainError == [NoResult EXCEPT !.kind = "plain"]

Busy(c) == job[c].phase # "idle"

(* Mutant: the closed orders are read first.                                *)
Paths_ClosedFirst == <<"history", "realtime">>

(* Where fetchOrder of Bybit looks for an order.                            *)
Paths == <<"realtime", "history">>

(* The first request of a call.                                             *)
FirstStep(op) ==
    CASE op = "place" -> "create"
      [] op = "cancel" -> "cancel"
      [] op = "fetch" /\ exchange = "BYBIT" -> Paths[1]
      [] op = "fetch" /\ exchange = "BINANCE" -> "read"

AdaptersInit ==
    /\ Init
    /\ exchange \in {"BINANCE", "BYBIT"}
    /\ order = NoOrder /\ shown = FALSE /\ placed = FALSE
    /\ job = [c \in Callers |-> NoJob]
    /\ jobs = 0

(* A request of a call: it waits for its token.                             *)
Request(c, step) ==
    /\ job' = [job EXCEPT ![c].step = step, ![c].phase = "queued", ![c].reply = NoReply]
    /\ Consume(c, 1)

(* placeOrder, cancelOrder or fetchOrder is called.                         *)
Begin(c, op) ==
    /\ ~Busy(c) /\ caller[c].pc = "idle"
    /\ jobs < MaxJobs /\ now <= LastJob
    /\ jobs' = jobs + 1
    /\ op = "place" => ~placed
    /\ placed' = (placed \/ op = "place")
    /\ job' = [job EXCEPT ![c] = [NoJob EXCEPT !.op = op, !.step = FirstStep(op),
                                               !.phase = "queued", !.seen = Faces(order, shown)]]
    /\ Consume(c, 1)
    /\ UNCHANGED <<exchange, order, shown>>

(* The timer of a call that waits for its token.                            *)
TryAgain(c) == Wake(c) /\ UNCHANGED <<market, job, jobs>>

(* The token is there: the request is stamped, signed and sent.             *)
Send(c) ==
    /\ job[c].phase = "queued" /\ caller[c].pc = "idle"
    /\ job' = [job EXCEPT ![c].phase = "sent", ![c].stamp = now, ![c].sent = now]
    /\ UNCHANGED <<vars, market, jobs>>

-----------------------------------------------------------------------------
(* The exchange answers *)

(* Whatever the order is from now on, the calls in progress have seen it.   *)
Becomes(j, o, visible) ==
    /\ order' = o /\ shown' = visible
    /\ job' = [c \in Callers |->
                  IF j[c].phase = "idle" THEN j[c]
                  ELSE [j[c] EXCEPT !.seen = @ \cup Faces(o, visible)]]
    /\ UNCHANGED <<vars, exchange, placed, jobs>>

Replies(c, kind, told) ==
    [job EXCEPT ![c].phase = "answered", ![c].reply = [kind |-> kind, told |-> told]]

Arrives(c) == job[c].phase = "sent"
Stale(c) == now - job[c].stamp > RecvWindow

(* A request may be turned away before it does anything: a stamp outside    *)
(* the receive window, a limit, a key, a refusal; or the exchange fails.    *)
TurnAway(c) ==
    /\ Arrives(c)
    /\ \E kind \in IF Stale(c) THEN {"stale"} ELSE {"limited", "auth", "refused", "down"} :
          Becomes(Replies(c, kind, NoOrder), order, shown)

(* An order is accepted; the exchange may fail after that, the body of an   *)
(* answer may be cut off (the timeout, or the connection), and an answer    *)
(* may be lost.                                                             *)
Accept(c) ==
    /\ Arrives(c) /\ ~Stale(c)
    /\ job[c].step = "create" /\ order = NoOrder
    /\ \E kind \in {"ok", "cut", "down", "lost"}, visible \in BOOLEAN :
          LET o == [status |-> "NEW", filled |-> 0]
          IN Becomes(Replies(c, kind, IF kind = "ok" THEN Told(o) ELSE NoOrder), o, visible)

(* An open order is cancelled.                                              *)
AcceptCancel(c) ==
    /\ Arrives(c) /\ ~Stale(c)
    /\ job[c].step = "cancel" /\ View # NoOrder /\ View.status \in Open
    /\ \E kind \in {"ok", "cut", "down", "lost"} :
          LET o == [order EXCEPT !.status = "CANCELED"]
          IN Becomes(Replies(c, kind, IF kind = "ok" THEN Told(o) ELSE NoOrder), o, shown)

(* An order is read: Bybit shows open orders at one address and closed ones *)
(* at another.                                                              *)
Shows(step) ==
    LET lists == CASE step = "read" -> Open \cup Closed
                   [] step = "realtime" -> Open
                   [] step = "history" -> Closed
    IN IF View # NoOrder /\ View.status \in lists THEN Told(View) ELSE NoOrder

Read(c) ==
    /\ Arrives(c) /\ ~Stale(c)
    /\ job[c].step \in {"read", "realtime", "history"}
    /\ \E kind \in {"ok", "cut"} :
          Becomes(Replies(c, kind, IF kind = "ok" THEN Shows(job[c].step) ELSE NoOrder), order, shown)

(* The exchange shows the order, trades it, or closes it.                   *)
Publish == order # NoOrder /\ ~shown /\ Becomes(job, order, TRUE)

Trade ==
    /\ order # NoOrder /\ order.status \in Open
    /\ Becomes(job, [filled |-> order.filled + 1,
                     status |-> IF order.filled + 1 = Quantity THEN "FILLED"
                                ELSE "PARTIALLY_FILLED"], shown)

Close ==
    /\ order # NoOrder /\ order.status \in Open
    /\ \E status \in Closed \ {"FILLED"} :
          /\ status = "REJECTED" => order.filled = 0
          /\ Becomes(job, [order EXCEPT !.status = status], shown)
-----------------------------------------------------------------------------
(* The adapter reads the answer *)

Answered(c) == job[c].phase = "answered"
Said(c, kind) == Answered(c) /\ job[c].reply.kind = kind
Heard(c) == Answered(c) /\ job[c].reply.kind # "lost"
IdsOnly(c) == exchange = "BYBIT" /\ job[c].step \in {"create", "cancel"}

Return(c, result) ==
    /\ job' = [job EXCEPT ![c] = [NoJob EXCEPT !.result = result]]
    /\ UNCHANGED <<vars, market, jobs>>

(* Mutant: a failure of the exchange is taken for a refusal.                *)
parse_AnyStatus(c) ==
    /\ Heard(c) /\ job[c].reply.kind # "ok"
    /\ Return(c, ExchangeError(job[c].step, job[c].reply.kind = "limited"))

(* An answer that is not ok: a rate limit or a failure of the exchange may  *)
(* be tried again, a refusal or a bad key may not.  A body that cannot be   *)
(* read is null: Binance's is taken for an order, which throws a TypeError, *)
(* and Bybit's is an error with the code 200.                               *)
parse(c) ==
    /\ Heard(c) /\ job[c].reply.kind # "ok"
    /\ Return(c, CASE job[c].reply.kind # "cut" ->
                       ExchangeError(job[c].step, job[c].reply.kind \in {"limited", "down"})
                    [] job[c].reply.kind = "cut" /\ exchange = "BYBIT" ->
                       [ExchangeError(job[c].step, FALSE) EXCEPT !.heard = FALSE]
                    [] job[c].reply.kind = "cut" /\ exchange = "BINANCE" -> PlainError)

(* The answer shows the order.                                              *)
ReturnOrder(c) ==
    /\ Said(c, "ok") /\ ~IdsOnly(c) /\ job[c].reply.told # NoOrder
    /\ Return(c, Answer(job[c], OrderResult(job[c].reply.told)))

(* Bybit took the request and tells ids only: the order is read back; and   *)
(* one that is not found in one place is looked for in the next.            *)
ReadBack(c) ==
    /\ Said(c, "ok")
    /\ \/ IdsOnly(c) /\ Request(c, Paths[1])
       \/ ~IdsOnly(c) /\ job[c].reply.told = NoOrder
          /\ job[c].step = Paths[1] /\ Request(c, Paths[2])
    /\ UNCHANGED <<market, jobs>>

(* It is nowhere: fetchOrder says so, placeOrder and cancelOrder throw.     *)
ReturnNothing(c) ==
    /\ Said(c, "ok") /\ ~IdsOnly(c) /\ job[c].reply.told = NoOrder
    /\ job[c].step \in {"read", Paths[2]}
    /\ Return(c, IF job[c].op = "fetch" THEN Null(job[c])
                 ELSE ExchangeError(job[c].step, job[c].op = "place"))

(* No answer within the timeout: fetch throws an error of its own, which is *)
(* no ExchangeError.                                                        *)
Waiting(c) == job[c].phase = "sent" \/ Said(c, "lost")
Abort(c) ==
    /\ Waiting(c) /\ now = job[c].sent + Timeout
    /\ Return(c, PlainError)

-----------------------------------------------------------------------------
(* Time passes when nothing is left to run: timers fire on time, and what   *)
(* the process can do it does at once.                                      *)
AdaptersTick ==
    /\ Tick
    /\ \A c \in Callers :
          /\ job[c].phase = "queued" => caller[c].pc = "asleep"
          /\ ~Heard(c)
          /\ Waiting(c) => now < job[c].sent + Timeout
    /\ UNCHANGED <<market, job, jobs>>

(* A restart forgets the calls; a request that was sent may still make the  *)
(* order.                                                                   *)
AdaptersRestart ==
    /\ Restart
    /\ job' = [c \in Callers |-> NoJob]
    /\ \/ UNCHANGED <<order, shown>>
       \/ /\ \E c \in Callers : Arrives(c) /\ ~Stale(c) /\ job[c].step = "create"
          /\ order = NoOrder
          /\ order' = [status |-> "NEW", filled |-> 0] /\ shown' \in BOOLEAN
    /\ UNCHANGED <<exchange, placed, jobs>>

Run(c) ==
    TryAgain(c) \/ Send(c) \/ parse(c) \/ ReturnOrder(c) \/ ReadBack(c) \/ ReturnNothing(c) \/ Abort(c)

AdaptersNext ==
    \/ \E c \in Callers :
          \/ \E op \in {"place", "cancel", "fetch"} : Begin(c, op)
          \/ Run(c)
          \/ TurnAway(c) \/ Accept(c) \/ AcceptCancel(c) \/ Read(c)
    \/ Publish \/ Trade \/ Close
    \/ AdaptersTick \/ AdaptersRestart

AdaptersSpec == AdaptersInit /\ [][AdaptersNext]_adapters

(* Time goes on, timers fire and the event loop runs what it can. Nothing   *)
(* is assumed of the exchange.                                              *)
FairAdaptersSpec ==
    /\ AdaptersSpec
    /\ WF_adapters(AdaptersTick)
    /\ \A c \in Callers : WF_adapters(Run(c))

-----------------------------------------------------------------------------
(* A call that returns an order returns a state the exchange showed during  *)
(* the call, and one that says there is none was made while none was shown, *)
(* although Bybit's order is read in two places and may move from the one   *)
(* to the other in between, and both exchanges have names of their own for  *)
(* a status (fetchOrder: "closed ones fall through to history").            *)
AnswersAreTrue == \A c \in Callers : job[c].result.seen

(* An error of the request that places the order says that it is safe to    *)
(* give up only when the exchange has no order (retryable is "the           *)
(* difference between try again in a moment and this order will never       *)
(* work"), provided the body of the answer could be read.                   *)
SafeToGiveUp ==
    \A c \in Callers :
        LET result == job[c].result IN
        result.kind = "error" /\ result.step = "create" /\ ~result.retryable /\ result.heard
            => order = NoOrder

(* What the two rest on.                                                    *)
Steps == {"none", "create", "cancel", "read", "realtime", "history"}
Replied == [kind : {"none", "ok", "cut", "down", "lost", "stale", "limited", "auth", "refused"},
            told : Tellings \cup {NoOrder}]
Results == [kind : {"none", "order", "null", "error", "plain"}, seen : BOOLEAN,
            retryable : BOOLEAN, step : Steps, heard : BOOLEAN]
Jobs == [op : {"none", "place", "cancel", "fetch"}, step : Steps,
         phase : {"idle", "queued", "sent", "answered"}, stamp : Nat, sent : Nat,
         reply : Replied, seen : SUBSET (Orders \cup {NoOrder}), result : Results]

AdaptersTypeOK ==
    /\ exchange \in {"BINANCE", "BYBIT"}
    /\ order \in Orders \cup {NoOrder} /\ shown \in BOOLEAN /\ placed \in BOOLEAN
    /\ job \in [Callers -> Jobs]

(* A call in progress has seen what the order is.                           *)
UpToDate(c) == Busy(c) => Faces(order, shown) \subseteq job[c].seen /\ job[c].result = NoResult

(* What is not among the open orders was not shown, or is closed for good.  *)
NotOpen(c) == NoOrder \in job[c].seen \/ (order # NoOrder /\ order.status \in Closed)

ShowsNone(c) == Said(c, "ok") /\ job[c].reply.told = NoOrder

RepliesAreTrue(c) ==
    /\ Said(c, "ok") /\ job[c].reply.told # NoOrder =>
           OrderResult(job[c].reply.told) \in job[c].seen
    /\ ShowsNone(c) /\ job[c].step \in {"read", "history"} => NoOrder \in job[c].seen
    /\ Busy(c) /\ job[c].step = "history" => NotOpen(c)
    /\ ShowsNone(c) /\ job[c].step = "realtime" => NotOpen(c)

(* One call places the order, and while it is asked to, there is none.      *)
GaveUp(c) ==
    LET result == job[c].result IN
    result.kind = "error" /\ result.step = "create" /\ ~result.retryable /\ result.heard
Placer(c) == (Busy(c) /\ job[c].op = "place") \/ GaveUp(c)

PlacedOnce ==
    /\ order # NoOrder => placed
    /\ \A c \in Callers :
          /\ Placer(c) => placed /\ \A d \in Callers : Placer(d) => d = c
          /\ Busy(c) /\ job[c].step = "create" =>
                /\ job[c].op = "place"
                /\ order # NoOrder => Answered(c) /\ job[c].reply.kind \in {"ok", "cut", "down", "lost"}

AdaptersInv ==
    /\ AdaptersTypeOK
    /\ \A c \in Callers : UpToDate(c) /\ RepliesAreTrue(c)
    /\ PlacedOnce /\ AnswersAreTrue /\ SafeToGiveUp

(* Every call ends, with an answer or an error, whatever the exchange does  *)
(* (consume waits for a token, and fetch has a timeout).                    *)
JobsEnd == \A c \in Callers : Busy(c) ~> ~Busy(c)
=============================================================================
