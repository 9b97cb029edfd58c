------------------------------ MODULE BotRunner ------------------------------
(***************************************************************************)
(* The life of a trading bot: the user's BotsService, the strategy runner  *)
(* that turns a closed bar into an order, and the reconciler that re-reads *)
(* the bot's orders and enforces its loss limit.  The exchange executes.   *)
(*                                                                         *)
(* The runner reads the RUNNING bots once per tick and works through that  *)
(* list with an await at every step, while users and the reconciler change *)
(* the same rows.  How one order is submitted and recorded is the subject  *)
(* of Orders; here a submission is one step with every outcome it can have.*)
(***************************************************************************)
EXTENDS Position, FiniteSets

CONSTANTS
    Bots,         \* bot ids
    NoBot,        \* botId of an order whose bot was deleted (SET NULL)
    Workers,      \* processes that run the strategy runner
    MaxBots,      \* maxConcurrentBots of the user
    MaxPerTick,   \* MAX_BOTS_PER_TICK
    MaxFailures,  \* MAX_CONSECUTIVE_FAILURES
    NoLimit,      \* maxLossUsd is null
    Limits,       \* values of maxLossUsd a user may set
    Prices,       \* closes of a bar
    FillPrices,   \* average prices of an execution: the market may slip from the close
    OrderSize,    \* orderSizeUsd of every bot
    MinNotional,  \* the exchange's smallest order value
    TakeProfit, StopLoss,   \* percentages of every bot
    Bands,        \* price guards: the bot's band and the account's rule for the pair
    MaxBar,       \* bound: bars that close
    MaxOps,       \* bound: requests of the user
    MaxFaults     \* bound: restarts of the backend

ASSUME BotsAssumption == NoBot \notin Bots /\ NoLimit \notin Limits
(* A bot without these percentages fails validation.                        *)
ASSUME RiskAssumption == TakeProfit > 0 /\ StopLoss > 0
ASSUME MarketAssumption == Prices \subseteq Nat /\ FillPrices \subseteq Nat /\ OrderSize \in Nat
ASSUME BarsAssumption == MaxBar \in Nat \ {0}

VARIABLES
    bot,       \* the bots table: status, isPaper and maxLossUsd
    requests,  \* requests of the user that passed their checks and have not yet written
    orders,    \* the orders table, in the order of createdAt
    book,      \* for each order, what the exchange did with it
    worker,    \* the runner of each worker: its place in runAll and runBot
    failures,  \* the runner's map of consecutive failures
    review,    \* the bots enforceLossLimits has read and not yet looked at
    bar,       \* open time of the last closed bar
    price,     \* its close
    signal,    \* what each bot's strategy says of it
    paused,    \* tradingPaused in the user's settings
    ops,       \* requests made so far
    faults,    \* restarts so far
    late,      \* history: orders each worker placed for a bot since it stopped running
    lagged     \* history: bots an order of which was under way when a bar closed

users == <<bot, requests, ops>>
exchange == <<orders, book>>
market == <<bar, price, signal>>
vars == <<users, exchange, worker, failures, review, market, paused, faults, late, lagged>>

-----------------------------------------------------------------------------
(* Rows and positions *)

Statuses == {"NONE", "DRAFT", "RUNNING", "PAUSED", "STOPPED", "ERROR", "DELETED"}
OpenStates == {"PENDING", "NEW", "PARTIALLY_FILLED"}
FillStates == {"FILLED", "PARTIALLY_FILLED"}
OrderStates == OpenStates \cup {"FILLED", "CANCELED", "REJECTED"}
Sides == {"BUY", "SELL"}
Signals == Sides \cup {"HOLD"}
NoHand == [bot |-> NoBot, bar |-> 0, side |-> "BUY", qty |-> 0]
Unsent == [open |-> FALSE, filled |-> 0, price |-> 0]
Resting == [pc |-> "idle", queue |-> {}, hand |-> NoHand]

Absent == [status |-> "NONE", paper |-> TRUE, limit |-> NoLimit]

Exists(b) == bot[b].status \notin {"NONE", "DELETED"}
Running(b) == bot[b].status = "RUNNING"
Rows == DOMAIN orders
RowsOf(b) == {i \in Rows : orders[i].bot = b}

(* The query takes the rows of the bot that filled.  Those it leaves out    *)
(* count, in their places, for fills of nothing, which change no position   *)
(* and no profit.                                                           *)
Fills(b) ==
    [i \in Rows |-> IF orders[i].bot = b /\ orders[i].state \in FillStates
                    THEN orders[i] ELSE [orders[i] EXCEPT !.filled = 0]]
PositionOf(b) == computePosition(Fills(b))
ProfitOf(b) == realisedPnl(Fills(b))

(* Two workers never hold one decision; a worker's hand is its decision or  *)
(* the order it is submitting.                                              *)
RowFor(hand) == {i \in Rows : /\ orders[i].bot = hand.bot /\ orders[i].bar = hand.bar
                              /\ orders[i].side = hand.side}
Submitting(i) == \E w \in Workers : worker[w].pc = "send" /\ i \in RowFor(worker[w].hand)

(* The row applyResult, or a sync that finds no order, writes.              *)
Outcome(row, truth) ==
    [row EXCEPT !.filled = truth.filled,
                !.price = truth.price,
                !.state = IF truth = Unsent THEN "REJECTED"
                          ELSE IF truth.filled = row.qty THEN "FILLED"
                          ELSE IF ~truth.open THEN "CANCELED"
                          ELSE IF truth.filled = 0 THEN "NEW"
                          ELSE "PARTIALLY_FILLED"]

(* An order of the bot that the runner has decided on, that the exchange    *)
(* still works on, or whose row does not tell what the exchange did.        *)
Underway(b) ==
    \/ \E w \in Workers : worker[w].pc # "idle" /\ worker[w].hand.bot = b
    \/ \E i \in RowsOf(b) : /\ ~orders[i].paper
                            /\ (book[i].open \/ book[i].filled # orders[i].filled)

Ended(b, status) ==
    /\ bot' = [bot EXCEPT ![b].status = status]
    /\ late' = [late EXCEPT ![b] = [w \in Workers |-> 0]]

BotRows == [status : Statuses, paper : BOOLEAN, limit : Limits \cup {NoLimit}]
Requests == [op : {"create", "update"}, bot : Bots, paper : BOOLEAN, limit : Limits \cup {NoLimit}]
              \cup [op : {"remove"}, bot : Bots]

ControlTypeOK ==
    /\ bot \in [Bots -> BotRows]
    /\ requests \subseteq Requests
    /\ worker = [w \in Workers |-> worker[w]]
    /\ \A w \in Workers : worker[w].queue \subseteq Bots
    /\ review \subseteq [bot : Bots, limit : Limits]
    /\ late \in [Bots -> [Workers -> Nat]]

OrderRows == [bot : Bots \cup {NoBot}, bar : 0 .. MaxBar, side : Sides, qty : Nat,
              paper : BOOLEAN, filled : Nat, price : FillPrices \cup {0}, state : OrderStates]
Truths == [open : BOOLEAN, filled : Nat, price : FillPrices \cup {0}]
Hands == [bot : Bots \cup {NoBot}, bar : 0 .. MaxBar, side : Sides, qty : Nat]

TradeTypeOK ==
    /\ orders \in Seq(OrderRows) /\ book \in Seq(Truths)
    /\ Len(book) = Len(orders)
    /\ \A i \in Rows : orders[i].filled <= orders[i].qty /\ book[i].filled <= orders[i].qty
    /\ worker \in [Workers -> [pc : {"idle", "tick", "place", "send"},
                               queue : SUBSET Bots, hand : Hands]]
    /\ bar \in 1 .. MaxBar /\ price \in Prices

TypeOK ==
    /\ ControlTypeOK
    /\ TradeTypeOK
    /\ failures \in [Workers -> [Bots -> 0 .. MaxFailures]]
    /\ signal \in [Bots -> Signals]
    /\ paused \in BOOLEAN /\ ops \in 0 .. MaxOps /\ faults \in 0 .. MaxFaults
    /\ lagged \subseteq Bots

(* The backend starts over a database in which bots may already wait.       *)
Init ==
    /\ bot \in [Bots -> {Absent} \cup
                         [status : {"DRAFT"}, paper : BOOLEAN, limit : Limits \cup {NoLimit}]]
    /\ requests = {} /\ ops = 0
    /\ orders = <<>> /\ book = <<>>
    /\ worker = [w \in Workers |-> Resting]
    /\ failures = [w \in Workers |-> [b \in Bots |-> 0]]
    /\ review = {}
    /\ bar = 1 /\ price \in Prices /\ signal \in [Bots -> Signals]
    /\ paused = FALSE /\ faults = 0
    /\ late = [b \in Bots |-> [w \in Workers |-> 0]]
    /\ lagged = {}

-----------------------------------------------------------------------------
(* BotsService *)

NotUsers == <<exchange, worker, failures, review, market, paused, faults, lagged>>

(* Checks a request, and leaves it to be written after the awaits between.  *)
Accept(request) ==
    /\ ops < MaxOps /\ ops' = ops + 1
    /\ requests' = requests \cup {request}
    /\ UNCHANGED <<bot, late, NotUsers>>

(* create counts the user's bots against the limit before it writes.        *)
CheckCreate(b, paper, limit) ==
    /\ bot[b].status = "NONE" /\ \A r \in requests : r.bot # b
    /\ Cardinality({c \in Bots : Exists(c)}) < MaxBots
    /\ Accept([op |-> "create", bot |-> b, paper |-> paper, limit |-> limit])

(* update refuses a running bot.                                            *)
CheckUpdate(b, paper, limit) ==
    /\ Exists(b) /\ ~Running(b)
    /\ Accept([op |-> "update", bot |-> b, paper |-> paper, limit |-> limit])

(* remove refuses a bot with open orders.                                   *)
CheckRemove(b) ==
    /\ Exists(b)
    /\ \A i \in RowsOf(b) : orders[i].state \notin OpenStates
    /\ Accept([op |-> "remove", bot |-> b])

(* The write of a checked request.  A bot deleted meanwhile makes an update *)
(* throw; deleting a bot leaves its orders behind without it.               *)
Write(r) ==
    /\ r \in requests /\ requests' = requests \ {r}
    /\ \/ /\ r.op = "create"
          /\ bot' = [bot EXCEPT ![r.bot] =
                       [status |-> "DRAFT", paper |-> r.paper, limit |-> r.limit]]
          /\ UNCHANGED <<late, orders>>
       \/ /\ r.op = "update" /\ Exists(r.bot)
          /\ bot' = [bot EXCEPT ![r.bot].paper = r.paper, ![r.bot].limit = r.limit]
          /\ UNCHANGED <<late, orders>>
       \/ /\ r.op = "remove" /\ Exists(r.bot)
          /\ Ended(r.bot, "DELETED")
          /\ orders' = [i \in Rows |-> IF orders[i].bot = r.bot
                                       THEN [orders[i] EXCEPT !.bot = NoBot] ELSE orders[i]]
       \/ /\ ~Exists(r.bot) /\ r.op # "create"
          /\ UNCHANGED <<bot, late, orders>>
    /\ UNCHANGED <<ops, book, worker, failures, review, market, paused, faults, lagged>>

(* start, pause and stop.  They read the bot only to know whose it is, so   *)
(* the write alone matters; starting a live bot on an inactive key is       *)
(* refused, which is no step.                                               *)
setStatus(b, status) ==
    /\ ops < MaxOps /\ ops' = ops + 1
    /\ Exists(b) /\ status \in {"RUNNING", "PAUSED", "STOPPED"}
    /\ IF status = "RUNNING"
       THEN bot' = [bot EXCEPT ![b].status = status] /\ UNCHANGED late
       ELSE IF Running(b) THEN Ended(b, status)
       ELSE bot' = [bot EXCEPT ![b].status = status] /\ UNCHANGED late
    /\ UNCHANGED <<requests, NotUsers>>

(* tradingPaused in the user's settings.                                    *)
PauseTrading ==
    /\ ops < MaxOps /\ ops' = ops + 1
    /\ paused' = ~paused
    /\ UNCHANGED <<bot, requests, late, exchange, worker, failures, review, market, faults, lagged>>

-----------------------------------------------------------------------------
(* StrategyRunnerService *)

RunningBots == {b \in Bots : Running(b)}

(* Mutant: the list also holds paused bots.                                 *)
Tick_AnyStatus(w) ==
    /\ worker[w].pc = "idle"
    /\ \E queue \in {{b \in Bots : Exists(b)}} \ {{}} :
         worker' = [worker EXCEPT ![w] = [pc |-> "tick", queue |-> queue, hand |-> NoHand]]
    /\ UNCHANGED <<users, exchange, failures, review, market, paused, faults, late, lagged>>

(* tick: the list of runAll, in no particular order and cut at              *)
(* MAX_BOTS_PER_TICK.  The running flag is the worker not being idle.       *)
Tick(w) ==
    /\ worker[w].pc = "idle" /\ RunningBots # {}
    /\ \E queue \in SUBSET RunningBots :
         /\ \/ Cardinality(queue) = MaxPerTick
            \/ queue = RunningBots /\ Cardinality(queue) < MaxPerTick
         /\ worker' = [worker EXCEPT ![w] = [pc |-> "tick", queue |-> queue, hand |-> NoHand]]
    /\ UNCHANGED <<users, exchange, failures, review, market, paused, faults, late, lagged>>

(* The loop of runAll goes on without b.                                    *)
NextBot(w, b) ==
    LET rest == worker[w].queue \ {b}
    IN  worker' = [worker EXCEPT ![w] =
          IF rest = {} THEN Resting ELSE [pc |-> "tick", queue |-> rest, hand |-> NoHand]]

RunEnds(w, b) ==
    /\ NextBot(w, b)
    /\ failures' = [failures EXCEPT ![w][b] = 0]
    /\ UNCHANGED <<bot, late>>

(* recordFailure.  Its own write throws when the bot is gone, and then it   *)
(* is runAll that ends.                                                     *)
RunFails(w, b) ==
    LET count == failures[w][b] + 1
    IN  \/ /\ ~Exists(b)
           /\ failures' = [failures EXCEPT ![w][b] = count]
           /\ worker' = [worker EXCEPT ![w] = Resting]
           /\ UNCHANGED <<bot, late>>
        \/ /\ Exists(b) /\ count < MaxFailures
           /\ failures' = [failures EXCEPT ![w][b] = count]
           /\ NextBot(w, b)
           /\ UNCHANGED <<bot, late>>
        \/ /\ Exists(b) /\ count = MaxFailures
           /\ failures' = [failures EXCEPT ![w][b] = 0]
           /\ NextBot(w, b)
           /\ IF Running(b) THEN Ended(b, "ERROR")
              ELSE bot' = [bot EXCEPT ![b].status = "ERROR"] /\ UNCHANGED late

NotRun == <<requests, ops, review, market, paused, faults, lagged>>

(* priceBandBlock and symbolRuleBlock: a guard that is zero is off.         *)
Allowed(side) ==
    \A band \in Bands :
        /\ band[side].min > 0 => price >= band[side].min
        /\ band[side].max > 0 => price <= band[side].max

Nothing == [side |-> "BUY", qty |-> 0]
Exit(b) == [side |-> "SELL", qty |-> PositionOf(b).quantity]
AtProfit(b) == ReturnAtLeast(PositionOf(b), price, TakeProfit)
AtStop(b) == ReturnAtMost(PositionOf(b), price, 0 - StopLoss)

Entry ==
    LET qty == sizeFromBudget(OrderSize, price)
    IN  IF Allowed("BUY") /\ qty * price >= MinNotional
        THEN [side |-> "BUY", qty |-> qty] ELSE Nothing

AsSignalled(b) ==
    CASE signal[b] = "BUY" -> Entry
      [] signal[b] = "SELL" /\ Allowed("SELL") -> Exit(b)
      [] OTHER -> Nothing

(* Mutant: the stop-loss obeys the sell guards.                             *)
decide_StopIsGuarded(b) ==
    IF AtProfit(b) \/ AtStop(b) THEN IF Allowed("SELL") THEN Exit(b) ELSE Nothing
    ELSE AsSignalled(b)

(* Mutant: an exit sells what orders asked for rather than what they filled.*)
decide_SellsWhatWasAsked(b) ==
    IF \E i \in RowsOf(b) : orders[i].side = "BUY" /\ orders[i].state # "REJECTED"
    THEN [side |-> "SELL", qty |-> OrderSize \div price] ELSE AsSignalled(b)

(* decide: a take-profit within the sell guards, then the stop-loss, which  *)
(* no guard holds back, then the strategy.                                  *)
decide(b) ==
    IF AtProfit(b) THEN IF Allowed("SELL") THEN Exit(b) ELSE Nothing
    ELSE IF AtStop(b) THEN Exit(b)
    ELSE AsSignalled(b)

(* runBot up to its first order: the user's pause, a call that throws (the  *)
(* market, the config, a bot that is gone), or a decision.                  *)
RunBot(w, b) ==
    /\ worker[w].pc = "tick" /\ b \in worker[w].queue
    /\ \/ RunFails(w, b)
       \/ Exists(b) /\ (paused \/ decide(b).qty = 0) /\ RunEnds(w, b)
       \/ LET choice == decide(b)
          IN  /\ ~paused /\ Exists(b) /\ choice.qty > 0
              /\ worker' = [worker EXCEPT ![w] =
                    [pc |-> "place", queue |-> worker[w].queue,
                     hand |-> [bot |-> b, bar |-> bar,
                               side |-> choice.side, qty |-> choice.qty]]]
              /\ UNCHANGED <<bot, failures, late>>
    /\ UNCHANGED <<NotRun, exchange>>

(* place, before the row: the kill switch, the bot is gone, no credentials, *)
(* or the re-read of a replayed order fails.                                *)
PlaceFails(w) ==
    /\ worker[w].pc = "place"
    /\ RunFails(w, worker[w].hand.bot)
    /\ UNCHANGED <<NotRun, exchange>>

(* place of a bar and side that has its row: a live order is synced.        *)
PlaceReplayed(w) ==
    LET b == worker[w].hand.bot
    IN  /\ worker[w].pc = "place" /\ Exists(b)
        /\ \E i \in RowFor(worker[w].hand) :
             orders' = IF orders[i].state \in OpenStates /\ ~orders[i].paper
                       THEN [orders EXCEPT ![i] = Outcome(@, book[i])] ELSE orders
        /\ RunEnds(w, b)
        /\ UNCHANGED <<NotRun, book>>

NewRow(hand) ==
    [bot |-> hand.bot, bar |-> hand.bar, side |-> hand.side, qty |-> hand.qty,
     paper |-> bot[hand.bot].paper, filled |-> 0, price |-> 0, state |-> "PENDING"]

(* A paper order fills in full, at the price of the request; a market order *)
(* carries none, and the column says 0.                                     *)
PaperFilled(row) == [row EXCEPT !.filled = row.qty, !.state = "FILLED"]

CountLate(w, b) == late' = IF Running(b) THEN late ELSE [late EXCEPT ![b][w] = @ + 1]

(* place of a new order: paper or live is what the bot is now.              *)
PlaceRow(w) ==
    LET b == worker[w].hand.bot
        row == NewRow(worker[w].hand)
    IN  /\ worker[w].pc = "place" /\ Exists(b)
        /\ RowFor(worker[w].hand) = {}
        /\ book' = Append(book, Unsent)
        /\ CountLate(w, b)
        /\ \/ /\ row.paper
              /\ orders' = Append(orders, PaperFilled(row))
              /\ NextBot(w, b) /\ failures' = [failures EXCEPT ![w][b] = 0]
           \/ /\ ~row.paper
              /\ orders' = Append(orders, row)
              /\ worker' = [worker EXCEPT ![w] =
                    [pc |-> "send", queue |-> worker[w].queue, hand |-> worker[w].hand]]
              /\ UNCHANGED failures
        /\ UNCHANGED <<NotRun, bot>>

(* The submission of w's order: what becomes of it on the exchange.         *)
Executions(qty) ==
    {Unsent} \cup [open : {FALSE}, filled : {qty}, price : FillPrices]
             \cup [open : {TRUE}, filled : 0 .. qty - 1, price : FillPrices]

Sent(w, i, truth) ==
    /\ worker[w].pc = "send" /\ i \in RowFor(worker[w].hand)
    /\ truth \in Executions(orders[i].qty)
    /\ book' = [book EXCEPT ![i] = truth]
    /\ UNCHANGED NotRun

(* The exchange answers and applyResult writes what it said.                *)
Answered(w, i, truth) ==
    /\ Sent(w, i, truth) /\ truth # Unsent
    /\ orders' = [orders EXCEPT ![i] = Outcome(@, truth)]
    /\ RunEnds(w, worker[w].hand.bot)

(* The call throws: the row stays PENDING when the error is retryable and   *)
(* becomes REJECTED otherwise, whatever became of the order.                *)
SendFails(w, i, truth) ==
    /\ Sent(w, i, truth)
    /\ \E state \in {"PENDING", "REJECTED"} : orders' = [orders EXCEPT ![i].state = state]
    /\ RunFails(w, worker[w].hand.bot)

Submit(w) == \E i \in Rows : \E truth \in Executions(orders[i].qty) :
                Answered(w, i, truth) \/ SendFails(w, i, truth)

RunnerStep(w) ==
    \/ \E b \in Bots : RunBot(w, b)
    \/ PlaceFails(w) \/ PlaceReplayed(w) \/ PlaceRow(w) \/ Submit(w)

-----------------------------------------------------------------------------
(* ReconcilerService *)

(* sync of an order that could still have moved.  A PENDING row is young,   *)
(* and left alone, while its submission is on its way.                      *)
Reconcile(i) ==
    /\ i \in Rows /\ ~orders[i].paper /\ orders[i].state \in OpenStates
    /\ orders[i].state = "PENDING" => ~Submitting(i)
    /\ orders[i] # Outcome(orders[i], book[i])
    /\ orders' = [orders EXCEPT ![i] = Outcome(@, book[i])]
    /\ UNCHANGED <<users, book, worker, failures, review, market, paused, faults, late, lagged>>

NotReview == <<requests, ops, exchange, worker, failures, market, paused, faults, lagged>>

(* enforceLossLimits reads the live running bots that have a limit.         *)
ReviewBots ==
    /\ review = {}
    /\ review' = {[bot |-> b, limit |-> bot[b].limit] :
                    b \in {c \in RunningBots : ~bot[c].paper /\ bot[c].limit # NoLimit}}
    /\ review' # {}
    /\ UNCHANGED <<bot, late, NotReview>>

(* Mutant: the loss is compared without its sign.                           *)
Enforce_NoSign(r) ==
    /\ r \in review
    /\ \/ /\ ProfitOf(r.bot) <= r.limit \/ ~Exists(r.bot)
          /\ review' = review \ {r} /\ UNCHANGED <<bot, late>>
       \/ /\ ProfitOf(r.bot) > r.limit /\ Exists(r.bot)
          /\ review' = review \ {r}
          /\ Ended(r.bot, "STOPPED")
    /\ UNCHANGED NotReview

(* One turn of its loop: a bot past its limit is stopped. A bot that was    *)
(* deleted has no orders any more (SetNull), and so no loss; if it is       *)
(* deleted after they were read, the write throws and ends the loop.        *)
Enforce(r) ==
    /\ r \in review
    /\ \/ /\ ProfitOf(r.bot) >= 0 - r.limit \/ ~Exists(r.bot)
          /\ review' = review \ {r} /\ UNCHANGED <<bot, late>>
       \/ /\ ProfitOf(r.bot) < 0 - r.limit /\ ~Exists(r.bot)
          /\ review' = {} /\ UNCHANGED <<bot, late>>
       \/ /\ ProfitOf(r.bot) < 0 - r.limit /\ Exists(r.bot)
          /\ review' = review \ {r}
          /\ IF Running(r.bot) THEN Ended(r.bot, "STOPPED")
             ELSE bot' = [bot EXCEPT ![r.bot].status = "STOPPED"] /\ UNCHANGED late
    /\ UNCHANGED NotReview

-----------------------------------------------------------------------------
(* The market, the exchange and the process *)

(* A bar closes.                                                            *)
NextBar ==
    /\ bar < MaxBar /\ bar' = bar + 1
    /\ price' \in Prices /\ signal' \in [Bots -> Signals]
    /\ lagged' = lagged \cup {b \in Bots : Underway(b)}
    /\ UNCHANGED <<users, exchange, worker, failures, review, paused, faults, late>>

(* An open order trades one more lot, or is closed as it is.                *)
Trade(i) ==
    /\ i \in Rows /\ book[i].open
    /\ \/ book' = [book EXCEPT ![i].filled = @ + 1,
                               ![i].open = book[i].filled + 1 < orders[i].qty]
       \/ book' = [book EXCEPT ![i].open = FALSE]
    /\ UNCHANGED <<users, orders, worker, failures, review, market, paused, faults, late, lagged>>

(* A process restarts and loses its handlers and its memory, with the       *)
(* requests and the review it was serving.  Its submission may have gone.   *)
Restart(w) ==
    /\ faults < MaxFaults /\ faults' = faults + 1
    /\ worker' = [worker EXCEPT ![w] = Resting]
    /\ failures' = [failures EXCEPT ![w] = [b \in Bots |-> 0]]
    /\ review' \in {review, {}} /\ requests' \in {requests, {}}
    /\ \/ book' = book
       \/ /\ worker[w].pc = "send"
          /\ \E i \in RowFor(worker[w].hand) : \E truth \in Executions(orders[i].qty) :
               book' = [book EXCEPT ![i] = truth]
    /\ UNCHANGED <<bot, ops, orders, market, paused, late, lagged>>

UserNext ==
    \/ \E b \in Bots, paper \in BOOLEAN, limit \in Limits \cup {NoLimit} :
         CheckCreate(b, paper, limit) \/ CheckUpdate(b, paper, limit)
    \/ \E b \in Bots : CheckRemove(b)
    \/ \E r \in requests : Write(r)
    \/ \E b \in Bots, status \in {"RUNNING", "PAUSED", "STOPPED"} : setStatus(b, status)
    \/ PauseTrading

ReconcilerNext ==
    \/ \E i \in Rows : Reconcile(i)
    \/ ReviewBots
    \/ \E r \in review : Enforce(r)

Next ==
    \/ UserNext
    \/ \E w \in Workers : Tick(w) \/ RunnerStep(w) \/ Restart(w)
    \/ ReconcilerNext
    \/ NextBar
    \/ \E i \in Rows : Trade(i)

Spec == Init /\ [][Next]_vars

(* The event loop runs every continuation, cron starts every tick, and the  *)
(* reconciler's loop goes on.                                               *)
FairSpec ==
    /\ Spec
    /\ \A w \in Workers : WF_vars(Tick(w)) /\ WF_vars(RunnerStep(w))
    /\ WF_vars(ReviewBots) /\ WF_vars(\E r \in review : Enforce(r))

-----------------------------------------------------------------------------
(* Properties *)

(* The sum of the first n elements, for every n.                            *)
Totals(s) ==
    LET upTo[n \in {0} \cup DOMAIN s] == IF n = 0 THEN 0 ELSE upTo[n - 1] + s[n]
    IN  upTo

(* What the bot bought, or sold, on the exchange.                           *)
Executed(b, side) ==
    [i \in Rows |-> IF orders[i].bot = b /\ orders[i].side = side /\ ~orders[i].paper
                    THEN book[i].filled ELSE 0]
NetOf(b, side) == Totals(Executed(b, side))[Len(orders)]

(* Causes for which the code lets a bot sell what it does not hold.         *)
PaperCounts(b) == \E i \in RowsOf(b) : orders[i].paper
PartFilled(b) ==
    \E i \in RowsOf(b) : /\ orders[i].state = "CANCELED" \/ ~book[i].open
                         /\ book[i].filled \in 1 .. orders[i].qty - 1
Unclear(b) == PaperCounts(b) \/ PartFilled(b) \/ b \in lagged

(* "The platform does not open shorts" (strategy-runner, lines 271-272).    *)
(* The code keeps that for a bot that trades for real from the start and    *)
(* all of whose orders are recorded and closed in full before the next bar: *)
(* on the exchange it never sells more than it bought, whatever fails,      *)
(* restarts or is replayed on the way.  Each exception is real.             *)
OnlyHoldingsAreSold == \A b \in Bots : Unclear(b) \/ NetOf(b, "SELL") <= NetOf(b, "BUY")

(* The two profits the code derives from the fills agree, the reconciler's  *)
(* and position.ts': they differ by the cost of what the bot still holds.   *)
ProfitsAgree ==
    \A b \in Bots : LET position == PositionOf(b)
                    IN  \/ Unclear(b)
                        \/ ProfitOf(b) * position.unit = position.gain - position.cost

(* A bot that is paused, stopped, parked or over its loss limit may still   *)
(* be in the list a tick has read: each worker can place one more order for *)
(* it, and no second one.                                                   *)
StoppedBotsWindDown ==
    \A b \in Bots, w \in Workers : ~Running(b) => late[b][w] <= 1

(* The strengthening that makes it inductive.  A worker has placed nothing  *)
(* yet for a stopped bot still on its list; the order in its hand is of a   *)
(* bot on its list; and a bot being created has no other request.           *)
ToCome(w) ==
    IF worker[w].pc = "send" THEN worker[w].queue \ {worker[w].hand.bot} ELSE worker[w].queue
ListsAreFresh ==
    \A b \in Bots, w \in Workers : ~Running(b) /\ b \in ToCome(w) => late[b][w] = 0
HandsAreListed ==
    \A w \in Workers : worker[w].pc \in {"place", "send"} => worker[w].hand.bot \in worker[w].queue
CreationsAreAlone ==
    \A r \in requests : r.op = "create" =>
        /\ bot[r.bot].status = "NONE"
        /\ \A q \in requests : q.bot = r.bot => q = r

IInv ==
    /\ ControlTypeOK
    /\ HandsAreListed
    /\ CreationsAreAlone
    /\ ListsAreFresh
    /\ StoppedBotsWindDown

(* What OnlyHoldingsAreSold and ProfitsAgree rest on.                       *)

(* What the rows say the bot held after each of them.                       *)
Filled(b, side) ==
    [i \in Rows |-> IF orders[i].bot = b /\ orders[i].side = side THEN orders[i].filled ELSE 0]
Held(b, n) == Totals(Filled(b, "BUY"))[n] - Totals(Filled(b, "SELL"))[n]

(* A row tells of a live order no more than the exchange did; what is open  *)
(* is not full, and what was given up is neither open nor full.             *)
FollowsTheBook(row, truth) ==
    IF row.paper THEN ~truth.open
    ELSE /\ row.filled <= truth.filled
         /\ truth.open \/ row.state = "CANCELED" => truth.filled < row.qty
         /\ row.state = "CANCELED" => ~truth.open /\ truth # Unsent
         /\ row.filled > 0 => row.state \in FillStates \cup {"CANCELED"}
RowsFollowTheBook == \A i \in Rows : FollowsTheBook(orders[i], book[i])

(* A bar, a bot and a side have one row, and one worker to submit it.       *)
Alike(x, y) == x.bot = y.bot /\ x.bar = y.bar /\ x.side = y.side
DecisionsAreUnique ==
    /\ \A i, j \in Rows : orders[i].bot \in Bots /\ Alike(orders[i], orders[j]) => i = j
    /\ \A w \in Workers : worker[w].pc = "send" =>
          /\ Exists(worker[w].hand.bot) => RowFor(worker[w].hand) # {}
          /\ \A i \in RowFor(worker[w].hand) : ~orders[i].paper /\ book[i] = Unsent
          /\ \A v \in Workers : worker[v].pc = "send" /\ Alike(worker[v].hand, worker[w].hand)
                                  => v = w

(* A bot that is not there yet is nobody's business.                        *)
UnbornAreIdle ==
    \A b \in Bots : bot[b].status = "NONE" =>
        RowsOf(b) = {} /\ \A w \in Workers : b \notin worker[w].queue

(* Every order of a bot that was never lagged by a bar is of this bar, or   *)
(* done; and its rows are in the order of their bars.                       *)
OldOrdersAreDone ==
    \A b \in Bots \ lagged :
        /\ \A w \in Workers : worker[w].pc # "idle" /\ worker[w].hand.bot = b
                                => worker[w].hand.bar = bar
        /\ \A i \in RowsOf(b) :
              /\ orders[i].bar <= bar
              /\ orders[i].bar < bar /\ ~orders[i].paper
                    => ~book[i].open /\ book[i].filled = orders[i].filled
              /\ \A j \in RowsOf(b) : j < i => orders[j].bar <= orders[i].bar

(* A sell asks for no more than the rows before it left, and one that is    *)
(* decided for no more than there is.                                       *)
ExitToCome(w, b) ==
    /\ worker[w].pc = "place" /\ Exists(b)
    /\ worker[w].hand.bot = b /\ worker[w].hand.side = "SELL"
    /\ RowFor(worker[w].hand) = {}

SellsAreCovered ==
    \A b \in Bots : ~Unclear(b) =>
        /\ \A i \in RowsOf(b) : orders[i].side = "SELL" => orders[i].qty <= Held(b, i - 1)
        /\ \A w \in Workers :
              ExitToCome(w, b) => worker[w].hand.qty <= Held(b, Len(orders))

TradeInv ==
    /\ TradeTypeOK
    /\ RowsFollowTheBook
    /\ DecisionsAreUnique
    /\ UnbornAreIdle
    /\ OldOrdersAreDone
    /\ SellsAreCovered

ExitTried(b) == \E i \in RowsOf(b) : orders[i].bar = bar /\ orders[i].side = "SELL"

(* "A stop-loss that only fires when the strategy happens to agree is not a *)
(* stop-loss": the exit of a running bot whose price stays below its stop   *)
(* is submitted in that bar, whatever its strategy and its guards say.      *)
StopLossFires ==
    \A b \in Bots : <>[](Running(b) /\ ~paused /\ AtStop(b)) => <>[]ExitTried(b)

(* "Stops any bot that has lost more than its configured limit": a live bot *)
(* does not go on running past it.                                          *)
PastLimit(b) ==
    /\ Running(b) /\ ~bot[b].paper /\ bot[b].limit # NoLimit
    /\ ProfitOf(b) < 0 - bot[b].limit
LossesStopTheBot == \A b \in Bots : ~<>[]PastLimit(b)
=============================================================================
