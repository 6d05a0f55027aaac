# A TLA+ model of the prediction-market trader

The repository is a NestJS service in front of the Polymarket exchange. It keeps
markets, events and orders in PostgreSQL, executes orders through a BullMQ queue
in Redis, protects `POST /orders` with idempotency keys, and keeps the prices of
the markets up to date with a WebSocket and with polling. This directory models
the parts of it where the order of events matters, model-checks them with TLC and
proves some of the results with TLAPS. Source paths below are relative to
`src/src/`.

## 1. Inventory

| Component | State | Operations | Talks to |
|---|---|---|---|
| Order creation, queueing, cancellation (`modules/orders/orders.service.ts`, `database/repositories/order.repository.ts`) | order rows: status, external id | `createOrder`, `queueOrder`, `cancelOrder`, `removeOrderFromQueue` | database, queue, exchange, chain (balance, allowance) |
| Order execution (`modules/orders/orders.processor.ts`, `common/services/usdc-token.service.ts`, `providers/polymarket/polymarket.provider.ts`) | order rows, the chain's balances, the exchange's order book | `process`, `onFailed`, `executeRealOrder` | queue, database, chain, exchange |
| Order queue (BullMQ, external) | one job per order: state, lock, attempts, stalls | add, delay, promote, hand out, complete, fail and retry, recover stalled jobs, remove | the two above |
| Idempotency (`common/services/idempotency.service.ts`, `common/interceptors/idempotency.interceptor.ts`, `common/redis/redis.service.ts`) | one Redis entry per key | `checkAndLock`, `storeResponse`, `releaseLock` | Redis, order creation |
| Price updates (`providers/polymarket/market-update-handler.service.ts`) | queue of quotes, batch timer, flags, prices of the market rows | `handleMessage`, `updateMarketPrices`, `processPriceUpdateBatch` | WebSocket, database |
| WebSocket connection (`providers/polymarket/polymarket-websocket.service.ts`) | socket, connection state, two timers, attempts, subscribed tokens | `connect`, socket events, `scheduleReconnect`, subscribe, unsubscribe, shutdown | exchange, database, price updates |
| Synchronisation (`modules/sync/*`, `scheduler/scheduler.service.ts`, `common/factories/*`) | event, market and token rows | `syncEvents`, `syncMarket`, `updateMarketPrices`, event statuses, `handleMarketResolvedMessage` | exchange, database, WebSocket |
| CLOB client cache (`providers/polymarket/polymarket-clob.service.ts`) | one client of the server, one per user wallet | lazy creation by each call, removal after a refused placement | exchange, order execution |
| USDC amounts (both `calculateUsdcAmount`, `processOrderDto`, `common/services/usdc-token.service.ts`, `placeOrder` of the provider) | quantity and price of the row, what was charged, placed and filled | derive, check, charge, place, record | the order components |
| Market and event queries (`modules/markets/markets.service.ts`, `modules/events/events.service.ts`) | event and market rows | searches that fall back to the exchange and store what they find; reads | exchange, database |

What is hard in each of them:

* **Orders.** A request, a queue, several workers and cancellations write the same
  row. The worker reads the status without a lock, takes the row lock only with its
  first save, and keeps it over the USDC transfer and the placement, neither of
  which the database can roll back. Jobs are retried up to ten times, stall, and are
  redelivered. A cancellation removes the job inside a transaction that may still
  roll back. An order is correct when it is never executed twice at a time, never
  placed with the funder's money, never FILLED without an order on the exchange, left
  alone once it is settled, and settled eventually.
* **Idempotency.** The check and the lock are two Redis commands; failures of the
  handler release the key, failures of Redis do not; the process may die with the
  key locked. It is correct when a key excludes, answers only for its own content,
  never replays an error, creates one order and is usable again after a failure.
* **Prices.** Quotes are handled after an asynchronous lookup that may be rejected, coalesced
  per market and written by batches that must neither overlap nor be forgotten. It is correct
  when a queued quote always has a timer or a batch end ahead of it and, at rest, the
  row has the newest quote that was not lost on the way.
* **WebSocket.** A connection that times out schedules a reconnection, and the close
  event of the abandoned socket another; subscriptions survive the connection that
  carried them. The API and the scheduler are two processes (`main.ts`, `scheduler.ts`), each
  with a connection, a cron job and a price batch of its own, that share only the database.
  It is correct when there is one socket at a time, somebody is always about to reconnect
  while attempts are left, nothing happens after shutdown, and an active market without a
  subscription has a known cause.
* **Synchronisation.** Snapshots fetched before an event happened are saved after it, by
  the cron job, by handlers of messages and by searches. It is correct when a closed
  market stays closed once no older snapshot is left, an open row of a closed market has
  a known cause, and the event's flag follows its markets.
* **Prices of the rows.** A synchronisation, the polling and the price batch write a
  market and its tokens in three transactions, of which only the batch locks what it
  reads, with prices from sources that need not agree. It is correct when a token never
  disagrees with its market and the side that a batch has no quote for is left as it is.
* **Amounts.** The price of a MARKET order is read again at each step, the minimum of a
  dollar is applied once to a sum and once to a size, the check reads the request and the
  charge the row whose columns rounded it, and the client library rounds once more. It is
  correct when the charge is what the wallet was checked for, a client's budget is kept, and
  the funder's loss is bounded, each up to what the rounding amounts to.
* **Clients.** Calls that run side by side create clients, use clients that were removed
  meanwhile, and store clients that are stale already. It is correct when a revoked key
  costs a bounded number of orders on top of those that the exchange refuses without a word
  about the signature, which leave the client where it is.

`PROJECT.json` lists the hazards line by line with the properties that cover them,
and the components that are left out with the reason.

## 2. Plan

Done, in this order: `OrderLifecycle` with its abstract specification `OrderContract`,
`Idempotency`, `PriceBatch`, `WsConnection`, `MarketRows`, `OrderAmounts`, `ClobAuth`,
`MarketPrices`; for each a module of theorems that proves its safety properties for every
value of the constants, and says which faults each guarantee has to be paid for with; the
refinements of `OrderContract` and of `IdempotencyContract`.

Left:

1. What `NewestPriceRests` leaves open: which quotes a failing batch undoes, as a theorem
   about the step that undoes them.
2. The queue `sync` of the administrator's synchronisation, as far as its retries overlap
   with the cron job's.
3. The metadata that `last_trade_price` writes, should anything come to read them.

## 3. Modules

### OrderLifecycle

One action per piece of code between two awaits. A database transaction that writes a
row holds `rowLock` until it ends, and its writes are visible from its commit on; a
read without a lock sees the committed `status`.

* `cpc[o]` follows `createOrder`: `ValidateOrder` (market, signature, balance and
  allowance: accepts or refuses), `InsertOrder` (the transaction of the row),
  `EnqueueJob` and `SetQueued` (`queueOrder`: the job first, then the UPDATE to QUEUED),
  `AbortCreate` (a statement fails; what was committed stays).
* `job`, `jobLock`, `attemptsMade` and `stalls` are the BullMQ job: delayed, then
  prioritized (every job of `queueOrder` has a priority), active under a lock,
  completed, failed or back to delayed; a job whose lock expired is recovered
  `MaxStalled` times and then failed. `marking` is an `onFailed` handler that found the
  attempts used up and is about to run `markAsFailed`.
* `wpc[w]` follows `process`: `ReadOrder`, `SaveProcessing` (takes the row lock),
  `CheckMarket`, and `executeRealOrder` as `CheckHealth`, `TransferUsdc` and `PlaceOrder`,
  then `CommitExecution` or `RollbackExecution`, and `AckJob` or `FailJob`. `charged` and
  `placed` count what the chain and the exchange did, whatever the worker learns of it.
* `xpc[c]` follows `cancelOrder`: `LockForCancel` (SELECT ... FOR UPDATE and the status
  check), `ListJobs` and `RemoveJob` (which do not look for prioritized jobs),
  `CancelOnProvider`, `CommitCancel` or `RollbackCancel`.
* `Faults` says which faults an instance may suffer; each is described at its
  declaration.

Amounts, prices, signatures and failure reasons are abstracted to the outcomes of the
calls that use them. A limit order is counted as placed and FILLED when the exchange
accepts it, as the code does.

`OrderContract` is what a client may rely on while no execution fails: one claim per order, made
while the order was open, that pays at most once and before it places, and whose outcome
is final. `OrderLifecycle!Contract` maps the row, the workers' claims, `charged` and
`placed` to it. The contract has to admit two things the code does: an order cancelled
before its UPDATE to QUEUED is queued again, and a cancellation that commits after the
claim is overridden by the outcome.

### Idempotency

`entry`, `entryBody` and `entryResp` are the Redis entry of a key: whether it is locked
or holds a response, the hash, and whose response. `pc[r]` follows a request through the
interceptor: `CheckKey` and `LockKey` are the GET and the SET of `checkAndLock`,
`HandleRequest` is `createOrder` seen from outside (answers, throws before its commit, or
throws after it), `ReadEntry` and `StoreResponse` are the GET and the SET of
`storeResponse`, `ReleaseKey` is the DEL in `catchError`. A Redis command may fail with or
without effect; the process may die; an entry expires only when none of its requests
runs, because 24 hours are longer than any request. `slips` records, per key, what
happened that the protocol does not protect against: a race between GET and SET, an error
after the commit, a response that was not stored, an expiry. The properties say exactly
which guarantee each of these costs.

`IdempotencyContract` is what DESIGN.md promises of a key: it is taken, at most one order is
created for it, and then it is answered for good; it is given up only without an order; whoever
asks with the same content is told of that order, and whoever asks with another, or too early, is
refused. `IdempotencyProofs!Contract` reads the phase of a key off its entry, its orders off
`created`, and the answers off `pc` and `replayOf`.

### PriceBatch

`ReceiveQuote` and `FinishLookup` are the two halves of the message handlers around the
token lookup; `UpdateMarketPrices`, `StartBatch`, `ConnectBatch`, `WriteBatch`,
`LoseBatch`, `FinishBatch` are `updateMarketPrices` and `processPriceUpdateBatch` with its
try, catch and finally. `FailLookup` is a `findByTokenId` that is rejected: `handleMessage`
logs it and the quote is gone. `DieConnecting` is the `connect()` that stands before the try,
`DieRollingBack` the `rollbackTransaction` in the catch: their rejections are unhandled and end
the process (`LoseMemory`), which is restarted with empty memory. The
variables `priceUpdateQueue`, `timerSet`, `isProcessingBatch` and `pendingBatchScheduled`
are the fields of the service. `newest` and `yesAsks` are history: the newest quote not
undone by a fault, and the asks of the YES token.

### WsConnection

`ws`, `connectionState`, `reconnectAttempts`, `reconnectTimer`, `connectionTimeout`,
`isShuttingDown` and `subscribedTokenIds` are the fields of the service; `sock[s]` is what a
WebSocket object will tell by its events: 'closing' means that its 'close' is still to come.
`Connect`, `TimeOut`, `SocketOpen`, `SocketError`, `SocketClose` and `Destroy` are `connect`'s
callbacks, the timers' and `onModuleDestroy`. The close event of a socket that timed out comes
at the next tick and the reconnection seconds later, so `Connect` waits for it. The counter of
attempts is cut off at its maximum, the only value it is compared with. `RunQuery` and
`SubscribeToActiveMarkets` are the two halves of `subscribeToActiveMarkets`; `calls` holds what
`syncMarket` and the handlers of `new_market` and `market_resolved` are about to do after an
await. `sent` is what the exchange has been asked to send on a socket. `excused` is history: it
records the ways in which an active market is left without a subscription, found by
checking `ActiveIsSubscribed` without them: its tokens were remembered from an earlier
connection before the market was stored; the scheduler's process stored it (`CreateElsewhere`),
whose subscription is on that process's connection; or it was stored inactive, or closed, and
made active by a later save (`UpdateMarket`), which `syncMarket` does not count as a creation and
does not subscribe (`sync.service.ts:224`). Another cause, a failed query for the active markets,
is visible in `query`. `CreateMarket` stores a market in whatever phase the exchange says. The
pings, and the constructor's exception on a malformed URL, are left out.

### MarketRows

The stored flags of one event and its markets. `upstream` and `messages` are the exchange: a
market opens once, closes once, and its closing sends a `market_resolved` message. A run of
`syncEvents` goes through `StartSync` (getEvents), `SaveEvent` (`syncEvent`), `FetchMarkets`
(getMarkets and the filter), `SaveMarket` for each snapshot with `ReadStatus` and `WriteStatus`
after it (`syncMarket`, `updateEventStatusIfAllMarketsClosed`), and `ReadStatuses` and
`WriteStatuses` (`updateAllEventStatuses`). `LoseStatus` is the catch of both: a query or an
UPDATE fails, is swallowed, and the synchronisation goes on. A handler, which is a message or a request, joins
at the same steps: `NewMarketMessage` with one unfiltered snapshot, `SearchMarkets` and
`SearchEvents` with what a search that found nothing here gets from the exchange.
`ResolveMarket` is the handler of `market_resolved`. `excused` is history: the markets whose
message was missed, whose transaction failed, or whose closure was overwritten from an older
snapshot. A row that is inactive but not closed is treated as a closed one, because every
computation asks only for markets that are active and not closed. TypeORM's save reads the
row, compares and writes what differs: where nothing differs the save has taken effect when it
read, otherwise when it wrote, so one step models both.

### MarketPrices

The prices of a market row and its two token rows. Every writer is a transaction that goes
through the rows in the same order and holds what it has written: a polling round
(`PollMarket`, `UpdatePolled`), a synchronisation (`StartSync`, then `LoadRow` and `SaveRow` for
each row, because TypeORM's save reads the row without a lock and updates what it found
changed), and the batch (`LockMarket`, the SELECT ... FOR UPDATE, and `UpdateQuoted`, which
rewrites the side without a quote as it was read). `Commit` makes them visible, `Rollback` is
their failure; `MissPrice` is a `getMarketPrice` that fails, which ends the whole round, since
it stands before the try of the loop. The sources need not agree: Gamma's outcome prices, the CLOB's
token prices, and the ask and the complement of the bid of either token, so a writer brings any
quote, a batch one of one side or both (`QuotesOf`). There is a batch per process, and each excludes
only itself. Which quote a batch brings, and which of two quotes is newer, is `PriceBatch`'s. Save
compares the spellings of decimals, so that it usually takes every price for changed; where the
spellings agree (`exact`), it leaves columns out. `torn` is history: the markets with a token
that was saved by a synchronisation which left the market's price out. A market whose outcomes are not
named Yes and No gets the price 0 from polling; that case is not modelled.

### OrderAmounts

The money of one order: `CreateOrder` (`processOrderDto`, `calculateUsdcAmount` and
`validateUsdcRequirements` of the service), `ChargeUser` (the processor's own
`calculateUsdcAmount`, `getGasPrices` and `transferFromUser`), `PlaceOrder` (price and size of
the provider, with the minimum of a dollar) or `SimulateExecution`. Each reads the market's
price anew. Money is counted in units of the token, prices and quantities in units of their
columns (10^6, 10^8 and 10^8 in the code, which `AmountConstants` admits). The numbers of a request
are `Fine` times finer: the service checks the wallet with the raw strings, and the decimal columns
round them when the row is saved (`Row`), which is what the processor charges for. `PlaceOrder`
hands a price, a size and the exchange's tick to the client library; the minimum of a dollar is
enforced before that. The library is not under `src/`: `ClientPrice`, `ClientSize` and
`ClientAccepts` say what `createAndPostOrder` is relied upon to do with a `tickSize`, which is to
round the price to the nearest tick and the size down, and to refuse a price off the ticks' range.
The arithmetic is exact where the code's is floating point, apart from the unit that the truncation
in `transferFromUser` may lose, and which is a choice. What happens to the order otherwise, its
retries and cancellations, is `OrderLifecycle`'s.

### ClobAuth

The cached clients. A key of a wallet has a generation that `Revoke` raises. A call takes the
cached client (`StartCall`), or asks for a key (`AnswerKey`, `RefuseKey`) and stores its client
over whatever is cached by then (`StoreClient`); it ends with `FinishCall` or, a placement, with
`RefusePlacement`, which removes the server's client, be it the one refused or a newer one, or,
when the key was revoked, with `LosePlacement`: the exchange refuses it in words that do not
mention the signature, or the request throws something else, and the client stays
(`polymarket-clob.service.ts:131-140`). `lost` counts the orders that a revocation has cost,
`unsaid` those among them that were lost that way; both are history. Orders are placed with the server's
client only, as `executeRealOrder` passes no wallet; cancellations may use a user's client, and neither they nor the reads ever
remove a stale one, so that a user's client is cached for good.

## 4. Runs

| Run | Instance | Shows |
|---|---|---|
| `order_faults` | 1 funded order, 2 workers, 1 cancellation, 2 attempts, 1 stall, all faults | types; executions exclude each other; a placement follows its own transfer; FILLED is backed; executions are bounded by attempts and stalls; a settled, unclaimed order is inert |
| `order_contract` | 1 funded order, 2 workers, 2 cancellations; broken requests, errors of queue calls and lost failure handlers | `OrderContract` is implemented |
| `order_retries` | 2 orders, 1 worker, 1 cancellation, simulated trading, failing commits, fair | every order settles for good: retries end in an outcome, or in FAILED after the last attempt |
| `idem_faults` | 3 requests, 1 key, 2 contents, all faults, fair | exclusion and same content short of a race; only created orders are replayed; a second order, or an order behind an error, takes a named slip; no key is locked for ever |
| `idem_race` | 2 requests, 1 key, races only | finding: two orders for one key |
| `price_faults` | 1 listed and 1 unlisted market, 2 prices, 3 quotes, all faults, fair | no lost wake-up, no timer during a batch, newest price at rest short of a named fault, the handler always comes to rest |
| `price_outcome` | 1 market, 2 quotes, no fault | finding: quotes of the NO token are written as YES prices |
| `ws_faults` | 2 sockets, 1 market, 2 attempts, all faults, fair | one socket at a time; a reconnection is ahead until the attempts are used up; silence after shutdown; active markets are subscribed unless excused; recovery from hanging connections |
| `rows_faults` | 2 markets, 1 synchronisation, 1 handler or search, all faults, fair | a closed market is reopened only from a snapshot older than its closure; an open row of a closed market has its message ahead or a named accident behind it; the event's flag is repaired again and again |
| `amounts_drift` | 5 prices, 6 limits, 4 amounts, 4 quantities, 4 balances, 6 gas fees, 3 ticks | the charge is the one checked; budgets are kept; the funder's loss stays below a share and half a tick for each share; a fill was placed as recorded; all up to the rounding of the columns and of the client library |
| `auth_revoked` | 2 calls, 1 user, 2 revocations per wallet, 2 refusals in other words | a revoked key costs at most three orders here on top of those refused in other words |
| `prices_writers` | 1 market, 2 prices, 1 polling round, 1 synchronisation, the batches of 2 processes, 1 failure | a token has its market's price, unless torn; a side without a quote is kept; no writers wait for each other in a circle |

**Bounds.** `MaxAttempts` is 10 in the code and 2 here: one retry and one last attempt are
the two cases the code distinguishes. `MaxStalled` is BullMQ's default 1. Two workers are
the least that run one stalled job at once, and a stalled job is redelivered once; two
cancellations are the least that compete. Orders share only the workers and the market, so
two are enough to make one wait for the other. Three requests of one key give a race and a
retry after it. Three quotes give one in the batch, one queued meanwhile and one after it.
Two sockets, used again once
closed, are a connection and the one whose query or close event is still pending; a market is
subscribed independently of the others. Two markets are the
least for which the event's flag differs from one market's; a synchronisation and a handler
overlap with each other and with the resolutions, and run any number of times (two
synchronisations beside a handler were too many states; the proofs hold for any number). In
`MarketPrices` locks and prices of two markets do not meet, and one failure (`MaxFailures`) ends one
transaction or one round. In `MarketRows` `MaxLapses` status updates fail in a behaviour, one here.
The prices of `OrderAmounts` lie on both sides of every minimum, rounding and clamp, 0 and a dollar
included, its requests fall on a unit of the columns and between two, its sizes on a step of the
client library and between two, its fees on both sides of the minima of `getGasPrices`; a dollar is
2000 token units and 1000 price units, a share 4, which are the least that let all of this happen,
and the proofs cover the code's. Two calls are the least that
create two clients; `MaxRevocations` lets a key be revoked while the client of an earlier
revocation is on its way into the cache; `MaxUnsaid` lets refusals in other words come before,
between and after those that remove the client, and nothing bounds them in the code. Nothing else is bounded.
The retry delays and time limits are abstracted to their order, with one exception made explicit: the job's delay of ten seconds may elapse before
`queueOrder`'s own UPDATE only under the fault `slow`.

**Fairness.** An HTTP request that has been accepted goes on, BullMQ promotes, recovers and
hands out jobs, an idle worker takes them, a worker with a job goes on: Node's event loop and
the queue's timers do this without anybody's help. Sending a request or suffering a fault is
never obligatory. In `Idempotency` running requests go on and Redis expires what has a time
to live; in `PriceBatch` lookups end, answered or rejected, the timer fires and a batch goes on; in
`WsConnection` timers fire, closing sockets close and queries return, but no connection is
obliged to open; in `MarketRows` the cron job starts synchronisations again and again, what runs
goes on, and received messages are handled. The failures a run may suffer there leave
`updateAllEventStatuses` its chance; that its own statements fail every time (`MaxLapses`), or that
getEvents does, is excluded. The remaining modules state no liveness: nothing in the
code guarantees that a revoked key is ever refused for its signature, nor that prices of sources which disagree settle.

**Deadlock** is checked in the order runs, where the market may always open or close, in
`auth_revoked`, where calls may always be made, and in `prices_writers`, where it means that no
transactions wait for each other's row locks. The other runs may end, or their bounded
requests and quotes be used up, and switch the check off.

**Action properties** are checked under symmetry of the workers and of the cancellations
in `order_faults`, and of the two batches in `prices_writers`; the properties do not distinguish
them. Runs with liveness use none.

Each property has a mutant in `PROJECT.json`: a variant of a mapped definition, written
beside it in the module, under which the run finds the property violated.

## 5. Findings

* `idem_race` (`common/services/idempotency.service.ts:38`), against DESIGN.md, section 3: two
  requests that both read before either locks create two orders for one key.
* `price_outcome` (`market-update-handler.service.ts:86`), against the DTO's description of
  the YES price: the quotes of a market's NO token are stored as those of its YES token.

The models also exhibit the following, which no run is kept for.

* An order that a worker read before its cancellation committed is executed all the same, and
  CANCELLED is overwritten by the outcome (`orders.processor.ts:44` and `:62`). `OrderContract`
  admits it: the worker's claim wins.
* An outage that the health check notices fails the order for good, although the message says
  that it will be retried (`orders.processor.ts:160`; DESIGN.md, section 4): the outcome is
  committed, and nothing is thrown that the queue would retry.
* A closure whose message is missed never reaches the row, since the synchronisation drops
  closed markets before it looks at them (`modules/sync/sync.service.ts:143`). `OpenRowExplained`
  names it among the causes.
* PROCESSING is never committed on its own, so no reader sees it; a cancellation that removed
  the job and then rolled back leaves a QUEUED order without a job; a job failed by too many
  stalls has attempts to spare, so that `onFailed` leaves its order open; an error of
  `queueOrder` after the commit releases the key and the retry creates a second order; after a
  race the hash that `storeResponse` keeps may be another request's.
* A refused placement removes the client that is cached, which may be a newer one than the one
  that was refused, and a slow call may put a revoked client back after it was removed. A revoked key
  that is refused without the word `signature` is never given up
  (`polymarket-clob.service.ts:135`).
* The API's connection has no subscription for a market that the scheduler's process stored, or that
  became active after it was stored, until the connection is opened anew
  (`modules/sync/sync.service.ts:224`). `ActiveIsSubscribed` names both.
* A rejected token lookup drops a quote (`market-update-handler.service.ts:70`), and the row keeps an
  older price until the next one comes.

## 6. Proofs

A module of theorems uses one assumption, the one its component declares on its constants
(`OrderConstants`, `IdempotencyConstants`, `PriceConstants`, `WsConstants`, `RowConstants`,
`PricesConstants`, `AmountConstants`, `AuthConstants`), and `PriceBatchProofs` also
`NoneIsNoQuote`. The theorems hold for any number of orders, workers, requests, markets, quotes,
sockets, calls or writers, and for any set of faults unless they name a hypothesis. Every inductive
invariant was model-checked before it was proved, and so was every hypothesis on the faults: with
any one of the faults that it excludes TLC finds the conclusion violated.

| Module | Theorem | States |
|---|---|---|
| `OrderLifecycleProofs` | `TypeCorrect` | `Spec => []TypeOK` |
| | `ExecutionsExclude` | `Spec => []ExecutionExclusive` |
| | `PlacementsAreCharged` | `Spec => []ChargedBeforePlaced` |
| | `FillsAreBacked` | `Spec => []FilledIsBacked` |
| | `SettledOrdersAreInert` | `Spec => SettledUnclaimedIsInert` |
| | `ExecutionsAreBounded` | `Spec => []ExecutionsBounded` |
| | `ContractImplemented` | with `Faults \subseteq {"request", "redis", "mark"}`, `Spec => ContractKept` |
| | `OutcomesAreFinal` | with these and `crash`, and more than one attempt, FILLED and FAILED are final |
| | `ExecutionsAreSingle` | without `commit`, `crash` and `stall`, an order is charged and placed at most once |
| `OrderAmountsProofs` | `TypeCorrect`, `ChargeMatchesCheck`, `BudgetAlwaysKept`, `FunderLossAlwaysBounded`, `FillAlwaysPlaced` | the run's five invariants |
| | `GasIsAcceptable` | the fees `getGasPrices` computes make an acceptable transaction |
| `IdempotencyProofs` | `TypeCorrect`, `HoldersExclude`, `ReplaysHaveOrders`, `ReplaysAnswerTheirContent`, `SecondOrdersNeedSlips`, `ErrorsLeaveNoOrder` | the run's six invariants |
| | `SlipsAreCaused`, `OneOrderShortOfFaults`, `ExclusiveShortOfRaces`, `ErrorsAreClean` | each slip has its fault; the three guarantees without exception, each under the absence of the faults that cost it |
| | `ContractImplemented` | with `Faults \subseteq {"crash"}`, `Spec => ContractKept` (`IdempotencyContract`) |
| `PriceBatchProofs` | `TypeCorrect`, `NoLostWakeUp`, `TimerAndBatchExclude`, `NewestPriceRests` | the run's four invariants |
| | `NewestIsNeverForgotten` | without faults, `Spec => NewestIsKept`: a market with a quote keeps one |
| `WsConnectionProofs` | `TypeCorrect`, `OneSocketEver`, `ReconnectionIsAhead`, `ShutdownIsQuiet`, `ActiveAreSubscribed` | the run's five invariants |
| | `SubscribedShortOfFaults` | without `network`, `activate` and `scheduler`, every active market is subscribed once the connection's query was answered, no excuse admitted |
| `MarketRowsProofs` | `TypeCorrect`, `OpenRowsExplained`, `ClosuresAreFinal` | the run's two invariants and `Spec => ClosedForGood` |
| `MarketPricesProofs` | `TypeCorrect`, `TokensAgree`, `UnquotedSidesKept` | the types, `Spec => []TokensFollowMarket`, `Spec => UnquotedSideKept` |
| | `TokensAlwaysAgree` | without `exact`, every token has its market's price |
| `ClobAuthProofs` | `TypeCorrect`, `RefusalsAreBounded` | the run's two invariants |

**Orders.** `ExecutionInv` says, besides the properties, that a worker past its first save holds
the row lock of its order (`WorkerHoldsLock`), that a worker about to place has a transfer in
hand that no placement has used (`PlacementIsPaid`), and that a worker about to commit a fill got
it from the exchange (`ResultIsBacked`). Exclusion follows from the first, because a lock has one
holder; the second is needed because `placed <= charged` alone does not survive a placement; the
third because the fill is recorded two steps after the placement. Steps that neither run a worker
nor take its lock are dealt with once, by `QuietKeeps`. `SettledOrdersAreInert` rests on
`UnbornInv`: an order whose row is not inserted is in no queue, on no worker and in no
cancellation, so that InsertOrder cannot overwrite a settled row. `ExecutionsAreBounded` counts:
`Budget(o)` is the attempts made, the stalls, and one more while an attempt is left that is not
waiting in the queue. `CountFacts` says that the executions done and the workers still before
theirs fit into the budget, for the payment and for the placement. A pick-up adds a worker and a
unit of budget, since the job no longer waits; a failure or a stall that puts the job back
exchanges one term for another; nothing else adds to the left side.

**The outcomes.** While no execution throws and no lock expires under a running worker, a job that
a worker has is locked by it and by nobody else (`JobFacts`), the row says PENDING or QUEUED where a
cancellation holds it (`RowFacts`), and what a worker acts on has no outcome yet (`ClaimsAreOpen`).
Together, as `RowsInv`, they leave no statement that overwrites FILLED or FAILED. A worker that
dies only leaves an active job without a lock, which the queue gives to another; the job that
stalled too often fails on its first attempt, and as long as more than one is allowed (the code
allows ten) `onFailed` writes nothing. With a single attempt TLC finds a crash overwriting an
outcome, and each of a failed commit, a lost job lock and a slow `queueOrder` does so alone.

**The contract.** With the faults that touch no execution an active job never is without its
worker, and what the chain and the exchange did for an order follows from where that worker is
(`MoneyFacts`). Under this invariant, `ContractInv`, each step of `OrderLifecycle` is a step of the contract or
leaves what the contract sees alone: `CreateContract`, `CancelContract` and `WorkerContract`.
The faults admitted are those that touch no execution: a client's request that dies, an error of a
queue call, a lost `onFailed`. The hypothesis is as weak as it can be: TLC finds the contract
broken under each of the other four faults alone (a failed commit, a crash and a lost job lock run
`executeRealOrder` again; a slow `queueOrder` writes QUEUED over an outcome). `ExecutionsAreSingle`
separates the money from the row: for `charged <= 1` and `placed <= 1` the slow `queueOrder` is
harmless too, because an order that was executed without a failure has no job left. `FirstAttempt`
says that no attempt has failed and no job has stalled, which leaves a budget of one.

**Amounts.** `AmountsInv` says what the row's quantity and price were derived from (`Derived`),
that the charge is the value of the row's quantity at the price read for it (`ChargeCovers`), and that
the placed size and price are the client library's rounding of a quantity that is the row's or the
least one worth a dollar (`PlacedFits`). The properties follow by arithmetic: what the columns round
is worth at most half a unit of price for each unit of quantity and half a unit of quantity at the
price (`Rounding`), nothing if the request has no finer decimals (`Margin`); rounding up to a
dollar's worth costs less than one share, rounding to the tick at most half a tick for each share.
`FunderLossBounded` speaks of an order for which no more is asked than the charge was computed from:
the loss to a price that rose in between is unbounded, and for a MARKET order nothing in the code
limits it.

**Idempotency.** `KeyInv` says that, short of a race, the entry tells who is busy: it is absent
when a request is about to write it, and has the holder's hash afterwards (`LockFacts`). A stored
response is that of a request that created an order (`EntryFacts`), an order without an answer is
on record among the slips (`RequestFacts`), and while nothing went wrong a key with an order is
taken and nobody else is busy with it (`OrderFacts`). The slips are history variables, and a
property that admits them says little to an operator; `SlipsHaveCauses` ties each to the fault it
comes from, so that the price of every guarantee can be read off the hypotheses: a lock that is
one command (SET NX) buys exclusion and same content, a Redis that answers and a `createOrder`
without an error after its commit buy errors that leave no order, both together with entries that
outlive the retries buy one order per key. For the refinement of `IdempotencyContract` one fact
more is needed, that a stored response has been given to its own request (`AnswersAreGiven`);
`Held` and `Answered` read the invariant at a request that runs and at a key that has an answer,
and each step follows from one of them. TLC finds the contract broken under each fault but `crash`
alone.

**Price batch.** `BatchInv` adds to the properties that the flag is set exactly while a batch runs.
For `NewestPriceRests` the newest quote is followed on its way (`NewestOnItsWay`): its lookup is
the last in flight, or it is queued, in the batch with nothing behind it, or written with nothing
behind it. Lookups are numbered, so that the last one is well defined. The exception that the property makes,
`newest[m] = NONE`, never arises without faults (`NewestIsNeverForgotten`): a lookup that ends in
its order overtakes none. Each of the five faults alone makes it arise.

**Connection.** `ConnectionInv` relates the service's socket, state and timers (`SocketFacts`): while
it has a socket no reconnection is planned and no abandoned socket will call back.
`SubscriptionInv` says that a remembered token and an active market are subscribed, will be by the
query that is under way, or are about to be by a pending call. All excuses come from faults: while
no connection is lost, nothing is remembered before the first connection
opens, and there is no second one (`FirstConnection`); while in addition no other process stores
markets and none becomes active late, nothing is excused, so that `SubscribedShortOfFaults` needs no
excuse. A query that fails is left to the property's premise. Each of the three faults alone breaks it.

**Rows.** `OpenRowExplained` is inductive together with the types.

**Prices.** `PricesInv` says that a row has one holder (`LocksExclude`), that a writer holds what
it has written and what it has behind it (`WriterFacts`, `PollFacts`, `SyncFacts`, `BatchFacts`),
and that a synchronisation which holds the market row and leaves a token as it is leaves it at its
own price (`UnwrittenTokenAgrees`): it read the token after it had locked the market, so that only
a writer who tears the market could have changed it. `UnquotedSidesKept` adds that what the batch
read of the market row is still stored when it commits (`BatchSeesRow`), the other process's batch
included. Without `exact` a
synchronisation always writes whole rows (`WholeRows`), and `TokensAlwaysAgree` drops the
exception: however transactions fail and interleave, a market and its tokens agree.

**Clients.** A key that is revoked lives on in the cache and in the calls. `Storing` are the calls
that are about to put a revoked key into the cache, `Through` are all others. Each refusal removes
the cached client, so for a revoked key to be refused again somebody must store one first, and a
call that has stored it is through: at most all that are through use it before it is removed. Hence
`RefusalFacts`: the refusals for the signature so far, and those that the present cache allows
(`Refusable`), do not exceed 1 + 2 + ... + n for the n calls that are through, and the orders lost
exceed them by `unsaid` at most, whatever it is. A store adds a call to those that are
through, and the sum its new term; a refusal moves one from the second summand to the first; a
revocation starts the count anew. The bound is tight: three calls reach six refusals.

Only model-checked: all liveness properties (`EveryOrderSettles`, `NoKeyLockedForever`,
`HandlerComesToRest`, `HandlerComesToRest`, `ServiceRecovers`, `EventStatusRepaired`), which the prover cannot state:
fairness speaks of enabled actions. Only proved:
the theorems with a hypothesis on the faults, apart from `OrderLifecycle`'s `ContractImplemented`,
since no run is kept for each set of faults.

## 7. Not modelled

* Request and response plumbing, filters, pages and listings, DTO validation, the mapping of the
  exchange's answers, signature cryptography, configuration, logging and migrations keep no
  state of their own and decide nothing that other components depend on. Where a verdict of
  theirs matters (a signature, a health check), it is a choice of the action that asks for it.
* `updateOrderStatus` of the order service is not called by anything.
* `last_trade_price` writes four fields of a market's metadata that only the API's answer shows.
* The queue `sync` retries on demand what the cron job repeats anyway.
* `estimateGasFees` informs the client and constrains nothing.
* The pings of the connection and the constructor's failure on a malformed URL.
