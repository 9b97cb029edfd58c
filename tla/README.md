# A formal model of Dokabot

TLA+ modules, TLC configurations and TLAPS proofs for Dokabot, a multi-tenant trading-bot service for
Binance and Bybit. The backend (`src/be`) is one NestJS process over one MySQL database (Prisma),
restarted by pm2 (`ecosystem.config.js`: one instance, `autorestart`). The frontend (`src/fe`) is a
Nuxt single-page application over its HTTP API. `src/be/contracts` is the contract that pulls the fee.

`PROJECT.json` maps each definition to the lines it stands for. Paths below are those of the source
without `src/be/src/modules/` or `src/fe/`, and short names are unique.

## How the code runs, and what that makes an action

Node runs a handler from one `await` to the next without interruption, and interleaves it with every
other handler at each `await`. So an action of a module is the code between two awaits that matter: a
read or write of the database, a call of an exchange or of the chain node, and in the frontend a
request or the prompt of a wallet. A restart drops every handler in flight and the memory of the process
(timers, caches, `running` flags) and keeps the database, the exchanges and the chain. A unique index
is the only thing that orders two handlers. The contract is different: its calls are atomic, but a
token transfer inside of one may call it again, and a revert puts everything back.

## Inventory

| Component | State it keeps | Operations | Interacts with | What is hard | What makes it correct |
|---|---|---|---|---|---|
| Order execution, `orders.service.ts` | `orders` rows | `place`, `sync`, `cancel` | credentials, adapters, UNIQUE `clientOrderId` | replays and races on one key, unknown outcomes, restarts | an intent is submitted at most once; no money moves unrecorded; rows tell the truth |
| Reconciler, `reconciler.service.ts` | a `running` flag | `tick`: `reconcileOpenOrders`, `enforceLossLimits` | `OrdersService.sync`, bots | batch limit, racing the request path, ageing rows | every row converges to the exchange; a losing bot stops |
| Strategy runner, `strategy-runner.service.ts` | `running`, `failures` in memory | `tick`, `runAll`, `runBot`, `decide` | market data, position, orders, settings | users change bots while a tick holds their old rows | one order per bar and side; a stopped bot winds down; stop-losses fire |
| Bots, `bots.service.ts` | `bots` rows | `create`, `update`, `setStatus`, `remove` | accounts, orders, subscription | races with the runner and the reconciler | a status means what it says |
| Position, `position.ts` | none | `computePosition`, `sizeFromBudget`, `floorToStep` | runner | partial fills, rounding to lots | a position is what its fills say |
| Rate limiter, `rate-limiter.service.ts` | token buckets per API key | `consume` | adapters | concurrent waiters, late timers, restarts | never more than burst plus refill |
| Adapters, `exchange/adapters/*` | none | place, cancel, fetch, verify | exchanges | unknown outcomes, two-place reads, error classes | an error says whether it is safe to give up; an answer is true |
| Exchange accounts, `exchange-accounts/*` | accounts, a 5-minute credential cache | `create`, `verify`, `getCredentials`, `revoke` | vault, adapters, bots | a revoke racing a verify or a cached read | revoked keys are not used |
| Wallets, `wallet.service.ts` | `wallet_links` | `challenge`, `verify`, `unlink`, `ownerOf` | listener, billing page | a challenge while events arrive, replays | an address belongs to who proved it |
| Payment listener, `payment-listener.service.ts` | cursor, `running` | `sync`, `handle` | chain node, wallets, subscription | overlap of stream and scan, crash in a range, reorganisations | every confirmed charge is credited once |
| Subscription, `subscription.service.ts` | `subscriptions`, `payments` | `applyCharge`, `markCancelled`, `markSubscribed`, `attachWallet`, `reconcileLapsed`, `isProActive` | listener, controllers | replays, lapse against charge | paid time is granted, unpaid is not |
| Contract, `contracts/SubscriptionManager.sol` | one storage | `subscribe`, `unsubscribe`, `charge`, `chargeBatch`, setters | token, listener | reentrancy, period bounds, reverts | at most the cap per period, to a treasury |
| Authentication, `authentication/*` | users, refresh tokens | `register`, `login`, `refresh`, `logout`, `revokeAllForUser` | settings, API client | rotation races, reuse of an old token | an ended session does not come back |
| Settings, `settings/*` | `user_settings` rows | `get`, `update`, `symbolRule`, `changePassword`, `revokeSession` | runner, authentication | first requests that race, stale tabs | rules can be obeyed, limits are kept |
| Auto-invest, `auto-invest/*` | a tag in the config of bots | `enable`, `disable` | bots, accounts | many writes and no transaction | on means whole, off means off |
| Strategies, `strategies/*` | the config of bots | `validateConfig`, nine strategies, the rule engine, eighteen indicators | runner, bot form | warm-up, windows, running sums, look-ahead, two engines that must agree | a verdict depends on closed candles only, and is ready in time |
| API client, `apis/index.ts` | two cookies | `request`, `send`, `tryRefresh`, `signOut` | authentication | parallel requests of one browser | one refresh, one replay, no false alarm |
| Pages: settings, lists, billing, bot form | drafts and copies of server rows | fetch, edit, save, act | the services above | answers out of order, stale copies, lost answers | what is shown and sent is what the server has and the user meant |
| Key vault, audit, health, throttling, environment | keys, log rows | | | | not modelled, see the end |

The hazards of this code, each at its line and with the properties that would catch it going wrong, are
listed in `PROJECT.json`.

## The modules and how they fit

```
OrderLedger <=refines= Orders --- OrdersProofs        Position <- BotRunner --- BotRunnerProofs
PaidTime    <=refines= Billing                        RateLimiter <- Adapters - RateLimiterProofs
                          |    \__ BillingAnd          Sessions <=refines= Browser - SessionsProofs
                       Wallets  /  PagesProofs        ExchangeAccounts, AutoInvest, SubscriptionContract
                          |    /                            \- AccountsAndContractProofs
   SettingsPage ListPages BillingPage BotForm         Fractions <- Indicators <- Rules <- StrategyLibrary
            \______\_____ Pages ______/                <- BotForm, Strategies - SeriesProofs, StrategiesProofs
```

An `MC...` module gives a module its constants for TLC, and a `...Proofs` module holds its theorems.

### The runs

Eleven pass, and TLC refutes one, as `findings` in `PROJECT.json` says. Each run names its properties there; no
two passing runs share one.

| Run | Configuration | Question | States | Bounds, and why they are enough |
|---|---|---|---|---|
| `orders_safety` | `OrdersSafety.cfg` | is an order executed once, and do rows tell the truth | 1 975 106 | two handlers and the reconciler put a submission, a racing replay, sync or cancel of it and a re-read in flight at once; `Qty` 2 gives a partial fill; a live and a paper intent; one fault |
| `orders_live` | `OrdersLive.cfg` | is money ever unrecorded; do rows converge | 808 649 | two live intents compete for the reconciler; one handler, one fault |
| `orders_plain_error` | `OrdersPlainError.cfg` | the same question of money when `fetch` times out after the order has landed | violated | one intent, one handler, no fault |
| `bots` | `Bots.cfg` | shorts, profits, stop-losses, loss limits, winding down | 348 159 | bots share only the list of a tick, so one; two bars allow an entry and its exit, each bar several ticks; prices 1 and 2 are past the stop and the profit of one another; every price of a fill; one fault, one request of the user |
| `billing` | `Billing.cfg` | are the right charges credited, once, and all of them | 991 030 | four blocks hold opt-in, charge, the charge of the next period and its confirmation, as a period is one block here; ranges of two blocks, so that the cursor moves between charges; one reorganisation, one fault and one unlink reach every step of the listener |
| `adapters` | `Adapters.cfg` | budgets, true answers, truthful errors, every call ends | 753 440 | two callers over a bucket of two tokens; a call of Bybit needs up to three; nine ticks of time leave room for two timeouts |
| `sessions` | `Browsers.cfg` | which sessions survive what | 3 306 717 | two parallel requests of one browser are enough to race; three tokens: a login, a refresh and a racing refresh |
| `contract` | `Contract.cfg` | the ceiling per period | 1 293 729 | three blocks with a period of two; two calls deep; the owner, a user and the contract, each of which may be the charger |
| `accounts` | `Accounts.cfg` | does a revocation stick | 614 046 | two requests cross on one account, the second account is what the limit of one refuses |
| `auto_invest` | `AutoInvest.cfg` | are portfolios whole, single and off when off | 3 339 700 | two portfolios, of which the second fits its budget only in part, three bots, two requests |
| `strategies` | `Strategies.cfg` | indicators, warm-up, windows, agreement of engines | 7 162 | periods of 2 and 3; every sequence of five candles of four shapes (still, up, down, mixed), on a new market or, with the market still until the second of the five, with all the history the bot asks for |
| `pages` | `Pages.cfg` | what the pages show and send | 2 150 567 | two tabs; up to three requests in flight; two wallets; three edits of a form |

The `bots`, `billing`, `adapters`, `auto_invest`, `sessions`, `strategies` and `pages` runs do not check
deadlock: their bounds (blocks, bars, faults, edits, time) are where they stop.

## Trading

### Orders, OrderLedger, OrdersProofs

`Orders.tla` is the order path: `OrdersService`, the order part of the reconciler, and the exchange as
the adapters present it. `OrderLedger.tla` is the abstract promise about money: an intent is recorded,
submitted at most once, executed, and what is reported was executed.

| Variable | Stands for |
|---|---|
| `row`, `created`, `stale` | `orders.state`, `filledQuantity`, `createdAt`, and whether the row is older than `STALE_AFTER_MS` |
| `worker` | the continuation of each request, strategy run and of the reconciler: where it is, on which intent, with which answer in hand |
| `batch` | what is left of `candidates` in `reconcileOpenOrders` (its `running` flag is `batch # {}` or a busy reconciler) |
| `killSwitch` | `TRADING_KILL_SWITCH`, read from the environment when the process starts |
| `book`, `wire`, `sent` | the exchange's order, the fate of the submission, the number of submissions |

`place` is `PlaceRequest` (kill switch and look-up), `CredentialsRefused`, `CreateRow` or
`CreateConflict` (the UNIQUE key), `PaperFill`, `Submit` (the rate limiter lets the request go), then
one of `PlaceAnswered`, `PlaceRefused`, `PlaceRetryable`, `PlacePlainError`, and `ApplyResult` or
`RecordFailure`. `sync` is `SyncRequest`, `SyncPaper`, `FetchOrder`, `FetchFails`, `ApplyResult`;
`cancel` is `CancelRequest`, `CancelPaper`, `CancelOrder` (answered with the closed order) or
`CancelAcknowledged` (Bybit: acknowledged, and read back like a sync, perhaps still open or filled),
`CancelFails`, `ApplyResult`. The reconciler
is `ReconcilerTick`, `ReconcilerNext` and then `sync`. The environment is `Land`, `FailToLand`, `Trade`,
`CloseOnExchange`, `Age`, `Crash`, `WriteFails`.

An intent stands for a (user, idempotency key) pair, since the derived client order id is injective up
to a hash collision; a quantity is a number of fill steps; prices, messages and the audit log are left
out.

Fairness: weak fairness of every continuation and of the reconciler's timer, because the event loop
runs them; a request in flight lands or is lost, because the HTTP timeout bounds it; rows age; and
strong fairness of the reconciler getting an answer for each order, because it asks every 30 seconds
and an exchange that refuses for ever is not the code's to fix. Nothing is assumed of users, trades or
restarts.

What the code does not promise; with the assumption dropped, TLC refutes the property named:

- a plain error or a timeout of `fetch` marks the row REJECTED over an order that landed
  (`orders.service.ts:152`, against the comment at lines 54-56): `NoMoneyUnrecorded` with `PlainErrors`,
  which is the run `orders_plain_error` and the finding of `PROJECT.json`;
- a replayed `place` syncs before the first submission lands (`orders.service.ts:74-78`), is told that
  there is no such order, and writes REJECTED over it, while line 197 says the submission never landed:
  `NoMoneyUnrecorded` with replays;
- `reconcileOpenOrders` always takes the `BATCH_SIZE` oldest candidates (`reconciler.service.ts:77-78`);
  that many resting orders starve the younger ones, while line 10 says that a backlog degrades latency
  only: `RowsConverge` with `BatchSize = 1`;
- a restart between `CreateRow` and `PaperFill` leaves a paper order PENDING for good
  (`orders.service.ts:109`), while `reconciler.service.ts:22-24` says that anything that falls through
  the cracks is caught there;
- a paper market order fills at price 0 (`orders.service.ts:117`), so the return of a paper bot is 0 and
  neither its take-profit nor its stop-loss fires.

Proved in `OrdersProofs`, for every set of intents and handlers, quantity, batch size and bound: types,
`AtMostOneSubmission`, `RecordedBeforeSent`, `RowsClaimOnlyTheTruth`, `KillSwitchStopsOrders`, and that
`Orders` refines `OrderLedger`. All rest on `Invariance`, `Spec => []IInv`. `AtMostOneSubmission` is not
inductive: it holds because a worker about to submit is the only one that holds its intent and nobody
has submitted it (`OwnersAreUnique`), which holds because the row is created under a unique key and once
it exists no worker passes `CreateRow` (`RecordedThenSent`). `RowsClaimOnlyTheTruth` needs
`AnswersAreBacked`: an answer read and not yet written is still at most what the exchange holds, because
fills only grow and a closed order never changes.

`NoMoneyUnrecorded` is false of the code, in three ways: an error is taken for final although the order has
landed or may yet land; a user's sync, or a replayed request, reads the exchange while the submission is under
way; a row goes stale while its submission waits for the rate limiter. `MoneyIsRecorded` says that there is no
fourth: it holds of every behaviour of `Spec` without such a step (`ErrorsAreFinal`, `UsersReadInTime`,
`QueueKeepsMoving`, together `NothingMisread`), for all constants, with any number of requests, replays, syncs,
cancels, faults and restarts. The hypothesis is about steps of the system and not about its constants; the
constants of `orders_live` (`PlainErrors` and `SlowQueue` off, `MaxPlaces` 1, `MaxSyncs` 0) exclude such
steps. Its invariant is `LateInv`: an order
has landed when its row or an answer shows it, and the reconciler meets a row only when its submission is over
(`ReadLate`), so an answer of "no such order", or of a refusal, is still true when it is written
(`ReadersAreLate`), and a row written off has nothing behind it and nothing to come (`WrittenOffForGood`).
Only model-checked: `RowsConverge`.

### BotRunner, Position, BotRunnerProofs

`BotRunner.tla` is the life of a bot: `BotsService`, `StrategyRunnerService`, and the reconciler's
re-read of orders and loss limits, with the market and the exchange around them. `Position.tla` holds
the arithmetic on fills: `computePosition`, `unrealisedReturn`, `sizeFromBudget` and the reconciler's
`realisedPnl`.

| Variable | Stands for |
|---|---|
| `bot` | `bots.status`, `isPaper`, `maxLossUsd` (NONE and DELETED: no row) |
| `requests` | HTTP requests past their checks and not yet written |
| `orders`, `book` | `orders` in the order of `createdAt`, and what the exchange did with each |
| `worker` | for each process its `running` flag, what is left of the list of `runAll`, the decision in hand |
| `failures`, `review` | the `failures` map; what is left of the list of `enforceLossLimits` |
| `bar`, `price`, `signal`, `paused` | the last closed bar, its close, what the strategy says of it, `tradingPaused` |
| `late`, `lagged` | history, for the properties |

`create`, `update` and `remove` are a check (`CheckCreate`, `CheckUpdate`, `CheckRemove`) and a later
`Write`; `setStatus` is one step, since it checks nothing of the bot that can change. `Tick` reads the
list; then, bot by bot in any order, `RunBot` (pause, market data, `decide`), the order (`PlaceFails`,
`PlaceReplayed`, or `PlaceRow` and then `Answered` or `SendFails`), and `RunEnds` or `RunFails`
(`recordFailure`). `enforceLossLimits` is `ReviewBots` and one `Enforce` per bot; `Reconcile` is the
re-read of one order. `NextBar`, `Trade` and `Restart` are the environment.

A look-up and the sync of a replay are one step, and so is a submission with its answer, because
`Orders` takes them apart; a signal is any value, so that no property relies on a strategy (the
strategies themselves are in `Strategies`); a quantity is a number of lots and `Position` computes with
exact fractions. Shards are left out: every worker may run every bot, which allows more than the code.

Fairness: weak, of the tick and the review (cron), of a worker's next step and of the review's loop (the
event loop). Nothing is assumed of users, market, exchange or restarts. `StopLossFires` speaks of a bot
whose price stays below its stop: an order in that bar is all the code can promise.

`OnlyHoldingsAreSold` excepts three causes, each of which TLC shows to be real against lines 271-272 of
the runner: an order still under way when a bar closes (the position is read from rows, and the next bar
has another key); an order that ended CANCELED with a partial fill, which lines 202-206 do not count;
and paper fills, which count after the bot has turned live. Other things the model shows:

- a bot with no realised loss can be stopped, even with a gain: `realisedPnl` counts open inventory as
  loss (`reconciler.service.ts:172`), while lines 110 and 155 say that it ignores it. `ProfitsAgree`
  states the difference exactly: the cost of what is held;
- `update` and `remove` write several awaits after their checks (`bots.service.ts:112-116, 170-182`): a
  running bot can turn from paper to live, against line 113, and a bot with an open order can be deleted;
  two creations at once pass the limit on bots (47-51);
- when a bot was deleted meanwhile, the write of `recordFailure` throws as well and the rest of the list
  is not run in that tick (`strategy-runner.service.ts:92`);
- `findMany` takes `MAX_BOTS_PER_TICK` bots in no order: beyond that number some may never run.

Proved (`BotRunnerProofs`, for every number of bots, workers, bars, prices, lots, requests and restarts):
`Invariance` of `IInv` and from it `StoppedBotsWindDown`. That a stopped bot gets at most one more order from
a worker is not inductive: a list names a bot once and is read from the running ones (`ListsAreFresh`), the
order in hand is of a bot on the list (`HandsAreListed`), and no late write of a creation brings a stopped bot
back (`CreationsAreAlone`).

`OnlyHoldingsAreSold` and `ProfitsAgree` rest on `TradeInv` (`TradesInvariance`). A row tells no more than the
exchange did, and what was given up is neither open nor full (`RowsFollowTheBook`). A bar, a bot and a side
have one row and one worker to submit it (`DecisionsAreUnique`). The orders of a bot that no bar overtook are
of this bar or done, and its rows are in the order of their bars (`OldOrdersAreDone`), so that what a worker
reads of the position is what the fills of the earlier rows left (`SellsAreCovered`): a sell that is decided
asks for no more than is held, and what is held only grows until it is placed, since the only other sell there
could be has the same key. Positions are sums over the rows: `Position` computes them with recursive functions
(`Totals`, `Profits`), which the lemmas `Recursion` and `Induction` make available to the proofs (see the end),
and `TotalsGrow`, `TotalsAgree` carry them over a step. Assumed: prices, fills and lots are naturals
(`MarketAssumption`), at least one bar (`BarsAssumption`). Only model-checked: the liveness properties.

### RateLimiter, Adapters, RateLimiterProofs

`RateLimiter.tla` is the bucket of one key; keys share nothing. `tryConsume` has no await, so it is one
step, and a refused call sleeps until `wake` and tries again (`Wake`), up to `Late` ticks late. A token
is `Scale` units and a tick refills `Rate`, so that all arithmetic is whole; the ceiling of the delay is
kept, the rounding of doubles is not. The clock is assumed not to go back. The weight of a request is 1
everywhere in the code.

`Adapters.tla` is `placeOrder`, `cancelOrder` and `fetchOrder` of both adapters over that bucket. A call
is a sequence of requests (`job`): each waits for a token (`Begin`), is stamped, signed and sent under a
timeout (`Send`), is met by the exchange (`TurnAway`, after `recvWindow` or for reasons of its
own, `Accept`, `AcceptCancel`, `Read`), and its answer is parsed (`parse`) into an order, nothing, or an error with its `retryable`
flag; `Abort` is the timeout. Binance answers in one request; Bybit answers with ids, so its adapter
reads the order back from the open orders first and the closed ones next (`ReadBack`), while the order
trades, closes, and is shown only some time after it was accepted (`Trade`, `Close`, `Publish`).
`STATUS_MAP` is modelled by what it maps. The orders service calls `placeOrder` once per order.

`AnswersAreTrue` says that an answer is what the exchange showed during the call, `SafeToGiveUp` that an
error is marked hopeless only if there is no order, `WindowBudget` is the budget of every window, with
one more burst per restart, because buckets live in the process and the exchange's count does not.
`JobsEnd` assumes that time passes, timers fire and the event loop runs, nothing of the exchange; it needs
calls to stop coming in the end, because waiters have no order and an endless stream may overtake one.

Known: a body that cannot be read (HTTP 200, `null`) is a refusal to Bybit's adapter although the order
exists, which is why `SafeToGiveUp` is about answers whose body was read; a non-retryable error of the
read-back reaches `place` as the failure of an order that was accepted; a status that `STATUS_MAP` does
not know reads as NEW.

Proved (`RateLimiterProofs`, for every capacity, rate, set of weights and number of callers):
`WindowBudget` and `SleepIsExact`, from the invariant that what is in the bucket is unspent budget of
every window. `AdaptersUseTheLimiter` says that every step of the adapters is one the limiter allows, so that
both hold of the adapters too. `AnswersAreTrue` and `SafeToGiveUp` come from `AdaptersInv`: whatever an answer
shows was the order during the call (`UpToDate`, `RepliesAreTrue`); an order that was not among the open ones
is closed for good by the time the closed ones are asked (`NotOpen`), which is why two reads in that order
suffice; one call places the order, and until it is accepted there is none (`PlacedOnce`). Only model-checked:
`JobsEnd`.

## Money

### Wallets

`Wallets.tla` is `WalletService`: how an address comes to belong to a user.

| Variable | Stands for |
|---|---|
| `link` | the `wallet_links` row of each address: owner, nonce, `verifiedAt`, and whether `createdAt` is past `NONCE_TTL_MS` |
| `message` | the nonce in the message each user was last given for each address |
| `request` | the continuation of each HTTP request |
| `nonces`, `ops` | nonces drawn, and bounds |

`challenge` is `Challenge` (the look-up) and `IssueNonce` (the upsert by address); `verify` is `Verify`
(row, age and signature), `Confirm` or `ConfirmNothing` (the update by address) and `Respond`; `unlink`
is one conditional delete; `ownerOf` is `OwnerOf`; time is `Expire`. Cryptography is a relation:
`HolderOf[w]` is the user with the key, and only the holder's signature over the nonce in the row
verifies. The module runs in `billing` and, under the billing page, in `pages`.

Proved (in `BillingAndPagesProofs`): types; `NoTakeover`, that an address changes hands only through an unlink; and
`VerifiedMeansProven` for every behaviour in which no unlink takes an address away while a verify of it is past
its signature check (`UnlinksWait`), from the invariant that such a request is of the holder who has the row.
Nothing in the code makes an unlink wait, and with one in that gap it fails: the holder unlinks, another user
challenges the address, and `Confirm`, which updates by address alone (`wallet.service.ts:94`), verifies that
user's row. Also known: the expiry of a nonce is
that of the row's `createdAt` (`wallet.service.ts:73`), which a new challenge does not renew, so ten
minutes after the first challenge every retry is expired at once.

### Billing, PaidTime, BillingAndPagesProofs

`Billing.tla` extends `Wallets` with the chain, the listener and the subscriptions. `PaidTime.tla` is
the abstract promise: a charge is credited to one user, once, and buys one period.

| Variable | Stands for |
|---|---|
| `block`, `head` | the log in each block of the chain and its height, which is also the clock |
| `cursor`, `payment`, `sub` | `chain_cursors.lastProcessedBlock`, `payments` by the position of the log, `subscriptions` |
| `listener` | the continuation of `sync` (`running` is `pc # "idle"`): range, logs left, log, user and period end in hand |
| `lapse` | the continuation of `reconcileLapsed` |
| `mishaps` | reorganisations and faults so far |

`sync` is `Sync` (head, confirmations, cursor), `GetLogs`, then for each log `FindOwner`,
`ReadSubscription` and one of `ApplyCharge`, `MarkSubscribed`, `MarkCancelled`, and `SaveCursor`; any
failing call is `SyncFails`. `AttachWallet` is the end of `verify` in the controller. `ReadLapsed`,
`GiveGrace`, `ExpireLapsed` are `reconcileLapsed`. `Mine` and `Reorg` are the chain, `Crash` a restart.
The contract restricts what `Mine` may emit (`Emittable`): a charge needs an opt-in and a period since
the last one, as `SubscriptionContract` shows.

A block holds at most one log, so a position is a height; amounts, prices and `currentPeriodStart` are
left out, and so is `ChargeFailed`, which only logs. `dueForCharge` and the public `handle` have no
other caller. Two switches name assumptions: `LinkedFirst` (users prove a wallet before they use the
contract) and `LapseJob`: nothing but its tests calls `reconcileLapsed` (`subscription.service.ts:197`), so it
is no hazard of the program as it is, and `billing` shows what holds once something calls it.

Fairness is weak fairness of the listener's step: `sync` runs every minute and the event loop runs its
continuations. `ConfirmedChargesAreCredited` gives up a charge whose wallet was unlinked before it was
scanned. Blocks need not come, and the fault budget is finite, which stands for a node and a
database that answer again at some time.

What the code does not promise, each refuted by TLC without the assumption:

- without `LinkedFirst`, a charge scanned before its wallet is proven is dropped and the cursor passes it
  (`payment-listener.service.ts:119-121`), while lines 144-145 say that the payment waits for the user
  to link the wallet; a new challenge of a proven wallet clears `verifiedAt` (`wallet.service.ts:47`)
  and has the same effect (`MaxChallenges = 2`);
- a range with an opt-out, an opt-in and a charge that is read again after a fault ends as cancelled or
  never charged: `markSubscribed` and `markCancelled` run again, the charge does not
  (`subscription.service.ts:165`, `payment-listener.service.ts:26-27, 119-120`);
- if something called the job, `GiveGrace` might follow an `ApplyCharge` that came after its `ReadLapsed` (it updates by id alone): the
  grace of the old period then ends access early although the new period is paid;
- with no caller of the job, no access continues after a period, as `billing.constants.ts:28-29` says.

Proved (`BillingAndPagesProofs`, for every chain, span, period, grace and number of confirmations): `Invariance`
of `IInv`: a scan lies above the cursor and below the confirmations, where no reorganisation removes a
log (`ScanIsConfirmed`); the log in hand is unpaid and nobody else moves the end of its user's paid time
(`LogInHand`); no stored grace is longer than `Grace` (`GraceIsBounded`). From it `CreditsAreFinal`,
`NoAccessBeyondGrace`, the refinement of `PaidTime`, and, under `UnlinksWait`, `CreditsGoToThePayer`.
`NothingIsSkipped` is proved for every behaviour in which a wallet is proven before the chain has a log of it
(`NothingSkipped`; in the run `LinkedFirst` and one challenge see to that). Its invariant, `ScanIsComplete`, says of the scan under way what the property says of the cursor: the logs
of the range that are no longer in the queue are credited; a fault drops the range and leaves the cursor, and
what was due then was due before, since logs below the head only disappear (`DueStep`). Only model-checked:
`ConfirmedChargesAreCredited`.

### SubscriptionContract, AccountsAndContractProofs

`SubscriptionContract.tla` is every function of `SubscriptionManager.sol`. Its storage is one record
(`store`), so that a revert restores it; `balance` and `allowance` are the token, which is external. A
`charge` writes, then pushes a frame for the transfer under way; until the token answers, any account it
runs may call any function again, one frame deeper, and the answer either commits or puts back the
frame's snapshot. `chargeBatch` is a frame with the users still to try. `charged` is the history of
`Charged` events, `store.treasuries` of the addresses an owner named.

`OneChargePerPeriod` is the claim of the contract's head comment: the charger can take at most
`maxChargeAmount` per subscriber and period. `ChargeableIsExact` compares the view `chargeable` with what
`charge` accepts. Proved for all constants and any depth of calls: `OneChargePerPeriod`,
`PaidToATreasury`, and `BatchChargesNobody`: `chargeBatch` calls `this.charge`, so that `charge` sees the
contract itself as its sender, which is not the charger, and every entry of every batch fails
(`SubscriptionManager.sol:174-181`). The invariant holds of the state and of every snapshot on the stack
(`ContractInv`), because a revert is a jump to one of those. `ChargeableIsExact` is proved as well
(`BackendIsToldTheTruth`): the view and `charge` test the same conditions in a different order.

## Access

### Sessions, Browser, SessionsProofs

`Sessions.tla` is `AuthenticationService` and the part of `SettingsService` that ends sessions, for one
account: `account`, the `refresh_tokens` rows (`session`), and the handlers between awaits (`call`):
register, login, refresh with its detection of reuse, logout, revocation, `changePassword`. Passwords are
the number of the change that set them. `Browser.tla` puts the API client over it: the cookies of one
browser, shared by the requests of its pages, the one refresh and one replay of `send`, time-outs, signing
in and out. Hashes and signatures are perfect.

`OldSessionsDie` says which sessions may survive a password change, `OneHeirPerLogin` that a login has one
live session, `FalseAlarmsHaveACause` and `BrowserKeepsUp` when the alarm of reuse may ring for an honest
browser. Their exceptions are what the code really allows:

- two parallel requests refresh one token; the second is "reuse" and every session is revoked
  (`authentication.service.ts:107`, `apis/index.ts:45`), and a page left while it refreshes does the same;
  so does presenting a token that merely expired;
- a login or refresh past its checks when `revokeAllForUser` runs issues a session that survives it
  (`settings.service.ts:147-149`);
- two refreshes that both passed the check before either revoked leave two live sessions;
- logging out in the frontend never tells the server (`layouts/default.vue:127`), and a refresh in flight
  fills the cookies again; any error of a refresh signs the browser out; a wrong current password answers
  401, so that the client refreshes and sends it again; two password changes with the same old password
  both succeed.

Proved for any number of tokens and handlers, and for clients that present any token at any time:
`SessionsInv` (`Invariance`), `OldSessionsDie`, `OneHeirPerLogin`, and that every step of `Browser` is a step
`Sessions` allows (`BrowsersAreClients`), with `Browser`'s types. `FalseAlarmsHaveACause` and `BrowserKeepsUp`
are proved for any number of browsers, requests and tokens from `HolderInv`: as long as nothing on the list of
mishaps happened, a token is held by the cookies of one browser, by the handler it was presented to or by the
one that answers it, and by two of those only while the browser waits for its own refresh (`OneHolder`); and a
browser refreshes one token at a time, one that was issued and not yet replaced (`OneRefresh`).

### ExchangeAccounts, AccountsAndContractProofs

`ExchangeAccounts.tla` is `create`, `verify`, `getCredentials` and `revoke`, each from its read (`row` is
copied into `call[c].copy`) over its call of the exchange to its write, with the credential cache
(`cached`), which expires, and restarts. `RevokedForGood` says that a revocation no handler crossed is
final, in the row, in memory and for orders; `StatusIsTheLastAnswer` that ACTIVE is what the exchange said
last; both are proved for any number of requests and accounts (`AccountsInv`), and so is `WithinTheLimit`
for requests that do not cross.

What crossing handlers do: a verify or a read in flight over a revoke makes the account ACTIVE again or puts
wiped credentials back into the cache (`exchange-accounts.service.ts:181, 274`); two creations pass
`MAX_ACCOUNTS_PER_USER`; a transient outage during verify marks an account INVALID, and a key that can no
longer trade stays ACTIVE if its answer is ok. Labels are left out; by the source, the label of a revoked
account can never be used again.

### AutoInvest

`AutoInvest.tla` is `enable` and `disable`, row by row, over the user's own operations on bots and the
status of the account: the old portfolio is deleted bot by bot, the legs are created and started one by one, and
a bot belongs to the portfolio by a tag in its config. `OnePortfolio`, `OffMeansOff` and `PortfoliosAreWhole`
say that old, disabled and partial portfolios have a cause: an enable that crossed another, a leg that was
refused, a call that failed, a restart, a bot the user edited or deleted.

All three are proved (in `AccountsAndContractProofs`) for any set of bots and requests and any number of
portfolios, from `AutoInv`. An enable that has read the tags has every bot of an old portfolio on its list, and
from its first leg on none is left, but those of an enable it crosses (`OldOnesGo`); a disable no enable
crosses has every tagged bot on its list (`AloneIsAlone`); and the bots of a portfolio that lost none are one
for each leg its enable has come to (`UnbrokenAreWhole`), from which the number of bots follows by a bijection
with the legs (`AsManyAsLegs`).

Known: the tag `__auto` is a setting no strategy knows (`params.ts:15-20`), so every run of such a bot throws
and the runner parks it in ERROR (runner, lines 117, 212, 241); `enable` deletes the old portfolio before it
checks the legs of the new one; `removeManaged` deletes bots with open orders.

## Strategies

`Fractions` are the numbers: exact fractions with a `NaN` that spreads, so that the algebra of the code is
checked and not its floating point. `Indicators` are the eighteen series of `library/indicators.ts` with
their running sums, seeds and smoothing. `Rules` is the rule engine of `rules.ts` with its catalogue,
operands, operators and groups. `StrategyLibrary` is `params.ts` and `library/*.ts`: the settings each of
the nine strategies declares, how they are checked and completed, how much history they ask for, and their
verdict with its confidence. `Strategies` is the registry and the runner around one bot: candles close, and
on each the stored configuration is evaluated over the window the runner fetched.

| Property | Says |
|---|---|
| `NumbersStayInRange` | confidences are in [0, 1], oscillators in their range, averages inside the prices, in flat markets too |
| `ReadyInTime` | the history a configuration asks for gives every value its rules read |
| `WindowSuffices` | what should not depend on older candles does not: the fetched window gives the same verdict as the whole history |
| `RebuiltAgrees` | what a preset does, the rules that say the same do, though each has its own crossings and its own reading of missing values; and what the rules do the preset does, unless they see a crossing within their tolerance |
| `NeverRepaints` | a value shown for a closed candle never changes |

The run evaluates seventeen accepted configurations, one of which throws when it is evaluated (four more are
refused), over the sequences of candles its bounds allow, with `MinHistory` 0 (10 in the code) so that the
windows are as small as the periods, and a faster stop (`SarStep`) so that it reaches its maximum.
`NumericTolerance` is 1/2 (1e-12 in the code, which is beyond TLC's integers), so that lines of whole prices come
within it.

The two engines do *not* always agree. `crossesAbove` and `crossesBelow` of the rules take a line that was above
by up to `NUMERIC_TOLERANCE` for one that was not (`rules.ts:467-468`); `crossedAbove` of the presets has no
tolerance (`indicators.ts:196`). When the difference one candle ago was in (0, 1e-12], the rule fires and the
preset holds: an action a second time for a crossing that was already there. `Grazed` is that case, `RebuiltAgrees`
allows it and nothing else (`SaidBy`), and without that exception TLC refutes it.

Proved (`SeriesProofs` and `StrategiesProofs`), all five, for every configuration the code accepts, all periods,
any least history, any tolerance and candles of any number and shape. Assumed (`StrategiesAssumption`): a candle's prices are
whole, its low is above 0 and its close between low and high; a setting is what the form and the rule builder
can send (`IsInput`): numbers in lowest terms, whole ones for what counts candles (`Lengths`; the code takes
others, see below), and groups whose conditions have an operator of `ComparisonOperator`, two or three operands,
and whole parameters. That an indicator is known, its parameters in range and its output one it has is *not*
assumed: where it is not, the engine throws, and the proofs treat the verdict it then has. `StrategiesInv`, the
invariant all five start from, says that the setting was accepted, that the candles are the market's, and that
the signal is what the engine says of them.

1. *Numbers.* `GcdFacts` gets from Euclid's algorithm a common divisor that is a combination of the two
   numbers (Bezout), from which a fraction has one form in lowest terms (`SameValue`); so fractions are
   compared by `=`, and are an ordered field (`PlusLaws`, `TimesLaws`, `OverLaws`, `Order...`). `NaN` spreads.
2. *Series.* A series `Scan` makes is a function given by a first value and a step (`Builds`, `MadeExists`);
   what holds at first and passes each step holds on (`Steps`). So the running sum of `Sma` is the mean of its
   window (`SmaIs`: nothing is left of a candle that has gone out), and smoothed series stay between what bounds
   their inputs (`WilderBetween`, `EmaBetween`); the stop stays between the prices through every flip (`PsarRuns`).
3. *Indicators*, one step for each of the eighteen and each output. Of a longer history they show the same
   (`IndicatorAgrees`, by `Begins` and `Agrees`); of a part of it, from their reach on, the same if they look at
   a window (`IndicatorPart`); they exist from a candle that is no later than `Latest` (`IndicatorStarts`); and
   the bounded ones stay in range (`RangesHold`).
4. *Strategies.* What the settings of each are (`ConfigIs`), how many candles they ask for (`RequiredIs`,
   `GroupNeedsIs`: three times the longest period of the rules, the finitely many of a list of any length) and
   that this is enough (`EnoughIs`, `OperandReady`, `PresetReady`); the confidence of each (`VerdictSure`); that each
   looks no further back than the runner fetches (`BollingerSame` to `GridSame`); and of each preset that has one,
   that it says what its rules say (`RsiRebuilt` to `StochasticRebuilt`).

The proofs found where two statements said too much: a crossing whose fast line is not the faster one reads
nothing, and is not what its rules say (`Ordered`: such settings are accepted, and never trade). The run now has
such configurations.

What follows from the model: the comment on the stop at `indicators.ts:439` is false right after it
flips; "everything the built-ins do can be rebuilt" (`custom.strategy.ts:46-53`) is false for Donchian,
supertrend, the grid and `requireTurn`, and for Bollinger in a flat window; a flat market reads RSI 100 and
stochastic 50, and Bollinger buys in it with confidence 0; smoothed indicators start anew from each
fetched window, so their values depend on its length; a fractional period passes validation and gives NaN
for ever; rules are only looked into when they run, so that an unknown indicator or a parameter out of
range is accepted and then throws on every tick; a period above about a third of what an exchange returns
asks for more candles than there will be; no strategy uses the `enum` parameter type.

## Pages

`Pages.tla` shows one page at a time; each page is a module. A tab, a request or a slot in flight has its own
continuation, and its answer may come late, in any order, or never.

`SettingsPage` is `SettingsService.get` (find, create under a unique index, read again), `update`,
`symbolRule` as the runner asks for it, and `settings.vue` in two tabs: a draft, all of which is sent
(`Body`), but for an empty limit and rules without a pair. A loss limit and the price rules stand for all
fields. `RulesCanBeObeyed`: one rule per pair, with prices to buy and to sell at, however saves interleave.
`LimitsStay`: a saved loss limit is not lost to a racing first request or a stale tab.

`ListPages` is the bots, orders, API keys and auto-invest pages over `useTrading.ts`: fetch, act, delete,
create, with `busyId`, the retry of `ky`, lost answers and changes made elsewhere. A row is its number and
the version of its contents. `GoneRowsStayGone`: a removed row does not come back. `QuietPagesAreTrue`: at
rest the page shows what the server has, with the listed causes for being wrong (`excuse`).

`BillingPage` extends `Wallets` with `billing.vue`: connect, challenge, sign, verify, approve, subscribe,
unsubscribe, in two tabs of a browser whose wallet offers any account. `SubscribersAreProven`: no
transaction approves or subscribes from a wallet the user never proved.

`BotForm` is `bots/new.vue` and `RuleBuilder.vue` over the catalogue and `BotsService.create`. Conditions are
objects in a heap, since the builder changes them in place. Strategies can be chosen and edited before the accounts
have come; then `Mounted` chooses the first one once more and drops the edits (`new.vue:398-402`). `DefaultsStay`: no edit leaks into the catalogue.
`BuiltBotsRun`: whatever is clicked, in whatever order, the server accepts it and its rules evaluate; only a
typed number can be wrong.

What follows from the model and is not repaired by the code: a stale tab's save overwrites every other field,
`tradingPaused` too (`settings.vue:440`); what is typed while a save or the password form's `load` is in flight
is discarded by the watch; a loss limit cannot be taken away on the page; a fetch in flight over a create shows
the new row twice or not at all; one `busyId` lets a second request go to the same row, and answers may cross; a
`DELETE` whose answer was lost is retried, gets 404, and leaves a ghost row; a bot whose creation was answered
by nobody is made twice when the form is sent again; only the modal dialog keeps a late answer of a creation
from bringing a revoked key back; after a reload of the billing page the address is gone and its connect button
hidden, so that approving and subscribing always throw; those three actions do not switch the chain, the address
does not follow a change of account, a challenge from another tab un-verifies a wallet the first tab goes on to
subscribe from, and after a reload a wallet that never subscribed may unsubscribe; a cleared rule parameter is
sent as 0.

Proved (`BillingAndPagesProofs`), for any number of tabs, requests in flight, rows, wallets and edits, of each page
and so of the front end (`PagesKeepTheirPromises`): `Pages` moves one page at a time and leaves the others alone.

- `SubscribersAreProven`: an address a tab loads with or pays from is proven, because the request of a tab that
  waits for its proof is about the address the tab shows (`ProofIsShown`).
- `RulesCanBeObeyed` and `LimitsStay`: what a request in flight would write was checked when it was sent
  (`TaskOK`), and it names either no limit, which keeps the stored one, or one that is not 0.
- `GoneRowsStayGone`, from `RowsInv`: a page that has removed a row fetches no more, since its one fetch is over
  before it can act; no answer brings a row into its list but one that creates it, and such a row is new.
- `QuietPagesAreTrue`, from `TruthInv`: while nothing excuses the page no request crosses another (`Alone`), and
  the list is the server's but for the answers on their way (`ListFollows`). At rest both are lists of the same
  rows, newest first, and two such lists are one (`ListInto`, by the least place at which they differ).
- `DefaultsStay` and `BuiltBotsRun`, from `FormInv`: the form points only to objects made after the catalogue's,
  and every condition in the heap is in order: operands of a known indicator with exactly its parameters and
  one of its outputs, a second bound where the operator is a range. An edit keeps that (`LeftEditOK`,
  `RightEditOK`, `OperatorEditOK`), settings are blank or of their type, and so only a typed number can be wrong.

By reading only: `maxDailyLossUsd` is enforced nowhere and the notification settings are wired to nothing; the
template of `api-keys.vue` uses names its script does not define (`egressIpsConfigured`, `copyEgressIps`,
`selectedGuide`), and `fetchSupported` is never called.

## Proved, and only model-checked

Every theorem is for all values of the constants, under the named ASSUMEs of the modules (finite sets of
names that do not overlap, natural bounds). `PROJECT.json` lists them. The inductive invariants, the
type invariants of proved modules and the following properties are proved and so take no room in the runs:
`AtMostOneSubmission`, `RecordedBeforeSent`, `KillSwitchStopsOrders`, `NoTakeover`, `VerifiedMeansProven`,
`CreditsGoToThePayer`, `NoAccessBeyondGrace`, `PaidToATreasury`, `BatchChargesNobody`, `WithinTheLimit`,
`SleepIsExact`.

| | Proved for all constants and run | Run only |
|---|---|---|
| Orders | `RowsClaimOnlyTheTruth`, `ImplementsLedger`; `NoMoneyUnrecorded` without misread steps | `RowsConverge` |
| Bots | `StoppedBotsWindDown`, `OnlyHoldingsAreSold`, `ProfitsAgree` | `StopLossFires`, `LossesStopTheBot` |
| Billing | `CreditsAreFinal`, `ImplementsPaidTime`; `NothingIsSkipped` when wallets are proven first | `ConfirmedChargesAreCredited` |
| Adapters | `WindowBudget`, `AnswersAreTrue`, `SafeToGiveUp` | `JobsEnd` |
| Sessions | `OldSessionsDie`, `OneHeirPerLogin`, `FalseAlarmsHaveACause`, `BrowserKeepsUp` | |
| Contract | `OneChargePerPeriod`, `ChargeableIsExact` | |
| Accounts | `RevokedForGood`, `StatusIsTheLastAnswer` | |
| Auto-invest | `OnePortfolio`, `OffMeansOff`, `PortfoliosAreWhole` | |
| Pages | `SubscribersAreProven`, `RulesCanBeObeyed`, `LimitsStay`, `GoneRowsStayGone`, `QuietPagesAreTrue`, `DefaultsStay`, `BuiltBotsRun` | |
| Strategies | `NumbersStayInRange`, `ReadyInTime`, `WindowSuffices`, `RebuiltAgrees`, `NeverRepaints` | |

Out of the prover's reach: liveness under fairness (`RowsConverge`, `StopLossFires`, `LossesStopTheBot`,
`ConfirmedChargesAreCredited`, `JobsEnd`, which are all that is run only); lemmas about an operator that takes an
operator, such as the folds; and induction over data of unknown shape. Recursive functions over numbers are
within it, by three lemmas proved from the axioms of sets alone (`Least`: a non-empty set of naturals has a least
element; `Induction`, over sets in place of predicates; `Recursion`: a function given by its first value and a
step exists), which is why positions, lists and sums are computed by such functions here, and Euclid's algorithm
is one. `Scan`, which takes the step of an indicator as an operator, is expanded where it is used, and then is
such a function.

## Not modelled

- Key vault: cryptography. Seen from the accounts, a ciphertext is there or it is wiped.
- Audit log, health checks, HTTP throttling, validation of the environment: I/O and configuration that no other component
  reads back. The kill switch, which is in the environment, is a constant of a process.
- Market data, balances, open orders and key verification of the adapters: reads whose formats nothing here
  depends on. Their failures are in `BotRunner` and `ExchangeAccounts`.
- Charts and the trading view of the frontend: no page mounts them, and they import a service and a composable the
  repository does not have (`~/services/binanceService`, `~/composables/useTradingState`).
- Layout, home page, login form, landing texts: presentation. What they change, cookies, is in `Browser`.
- Floating point: amounts are fill steps, lots or exact fractions; Bollinger's bands are compared by squares, and
  left out as operands of a rule (`upper`, `lower` and `width`, with the multiplier), since they are irrational.
- Parameters of indicators that are not whole: Keltner's multiplier has the least value 1 here and 0.5 in the code
  (`rules.ts:208`).

Some steps are larger than the code's, and some outcomes are left out:

- `RunBot` is one step from the pause to the decision (`strategy-runner.service.ts:106-141`), and `Enforce` one
  from the profit to the write (`reconciler.service.ts:125-130`), so that what changes in between is seen as if it
  had changed before or after; the throw of that write for a bot deleted meanwhile is an outcome of `Enforce`.
- `Accept` processes a request and answers it in one step, though the answer may be lost; a request in flight at
  a restart makes the order then or never.
- On the settings page a client that gives up while the server is between its `create` and its `update` is left
  out: that save still ends, and nobody waits for it.
