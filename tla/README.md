# Verification of CryptoView / CriptoBot

TLA+ models of the trading bot and of the cloud service of this repository, the
configurations that model-check them with TLC, and theorems about them checked
by TLAPS. Paths below are relative to the repository root.

## 1. Inventory

The repository holds two programs that share market data.

**CriptoBot** (`bot/`): a FastAPI process that trades on KuCoin.

| component | state | operations | shared with |
|---|---|---|---|
| LIVE runner (`core/live_runner.py`) | maps of resting buy and sell orders per bot and tranche index, memory only | one cycle: reconcile the balance, the resting buys, the resting sells, evaluate the strategy, place buys | `BotInstance` with the API, PostgreSQL, exchange, event bus |
| Books (`BotInstance` in `api/services/bot_service.py`) | available balance, profit, deposits, withdrawals, active tranches | fills, capital movements, balance corrections | runner and API handlers, some of them in worker threads |
| Lifecycle and capital API (`bot_service.py`, `api/routes/bots.py`) | status in memory and in `bots.status` | create, pause, resume, stop, deposit, withdraw, hydrate after a restart | runner |
| Storage (`storage/*.py`) | tables orders, tranches, capital_transactions, bots, bot_events, candles | one transaction per statement | everyone |
| Exchange client (`exchange/client.py`) | none | create with retries, cancel, fetch | runner, in executor threads |
| Paper trading (dry-run branches of the runner) | the same maps, simulated order ids | fills read off the last candle | the same |
| Strategies (`strategies/*.py`) | trailing highs | signals from indicators and portfolio | runner, simulation engine |
| Simulation engine (`simulation/engine.py`) | portfolio of one run | sells, cascade, buys per candle | strategies |
| Candle ingestion (`core/ingestor.py`, `storage/candle_repository.py`) | table candles | fetch the last candles, insert if absent | runner reads the table |
| Event bus, notifications, WebSocket (`core/event_bus.py`, `core/notification_dispatcher.py`, `core/ws_dispatcher.py`, `api/routes/ws.py`) | subscribers, queue, list of clients | publish, deliver, broadcast | runner and API publish |

**CryptoView** (`backend/`, `lib/`): a FastAPI data service with a collector and
a Flutter client.

| component | state | operations |
|---|---|---|
| Trade journal (`backend/app/routers/matches.py`, `trades.py`, `withdrawals.py`) | trades with a remaining amount, matches, withdrawals | match, delete a match, import trades |
| Collector (`backend/app/services/collector.py`, `exchange_client.py`) | candles per symbol, backfill flag, round-robin cursor | forward sync, backfill, trade sync |
| Authentication (`backend/app/auth.py`) | request history, failures, lockouts per address | verify |
| Backup, keys, symbols, candles, health (`backend/app/routers/`) | tables | export and restore, CRUD, queries |
| Flutter clients (`lib/`, `bot/criptobot_ui/lib/`) | local SQLite database, providers | FIFO matching, presentation |

### How the parts interact

- `LiveRunner.run_cycle` and the API handlers share one `BotInstance` object.
  Handlers written `async def` run on the event loop between two awaits of the
  runner; `deposit` and `withdraw` are plain `def` routes, which FastAPI runs in
  a worker thread, so they may also run *inside* a stretch of the runner.
- The runner and the handlers write PostgreSQL one statement per transaction;
  nothing spans two statements. A restart reads the rows back
  (`bot_service._hydrate_bot_state_from_db`), but not the runner's maps.
- The runner learns what the exchange did only by asking: it fetches each order
  its maps name, once per cycle.
- One cycle of the runner walks over all bots of the registry; an exception in
  the visit of one ends the cycle. Each worker process has a registry and a
  runner of its own over the same database.
- `event_bus.publish` makes one task per handler on the same loop; the
  WebSocket broadcast and the notification worker are two of them.
- The cloud journal's routers take one connection per request, at READ
  COMMITTED. They read, decide, write and commit without row locks, so requests
  interleave between the read and the writes.
- The collector's import, the routers and `/backup` share the journal tables;
  the symbol and candle routes edit the list the collector reads once per cycle.

### What is hard, and what correct means

| component | hard behaviour | correct when |
|---|---|---|
| LIVE runner | fills, pauses and transfers at every await; refused calls; lost replies; a cascade that cancels and replaces orders a loop is iterating over | every fill becomes one tranche or one close; one active tranche and at most one open sell per index; no resting order forgotten; every tranche offered for sale |
| Books | five running amounts changed by the runner, the reconciliation and two routes | every step is one booking and the amounts add up |
| Hydration | three tables stand for the state in memory | memory and rows agree at every await |
| Lifecycle | calls that fail between memory and table; a status read once per visit; several workers | what was answered is stored; no position is opened after a pause was answered; every bot gets its turn |
| Paper trading | order ids that repeat over an upsert that keeps the old price; a candle that stays as first seen | a simulated order fills at the price asked for; the debt is bounded |
| Simulation engine and strategies | profit recycled over several targets; chained entries among sold and rebought tranches | the portfolio adds up; a subsidy is spent once; the chain goes down the ladder |
| Events | a list iterated across awaits while clients come and go; a client that does not read | who is connected throughout gets the event, in order; notifications do not wait for clients |
| Trade journal | read-then-write requests that race; amounts written back as absolute values; restores with old ids | remainder and matches add up to the buy; a hidden buy is used up; ids never collide |
| Collector | an empty page taken for the end of the history; a cursor over a list that shrinks | no gap behind the stored candles; completed only at the genesis; no symbol starved |
| Authentication | one clock for window, lockout and recovery; tables pruned and cleared on the way | the limits hold for every window; a lockout lasts its time |

`PROJECT.json` lists every hazard at its source line, with the properties that
watch it or the reason why none does.

## 2. Modules

| module | what it is |
|---|---|
| `BotLedger` | abstract specification of the books: Buy, Sell, Deposit, Withdraw, and Lose for capital that enters the totals while the balance is overwritten |
| `LiveRunner` | one LIVE bot: runner, API handlers, rows, exchange (external), crash and hydration; implements `BotLedger` |
| `LiveRunner_inv` | its inductive invariants `RunnerInv`, `SellInv`, `FillInv`, `CoverInv`, `AccountInv` |
| `PaperTrading` | one dry-run bot with the candles it fills on; implements `BotLedger` |
| `Strategies` | the eleven strategies as functions of candle, portfolio and memory |
| `Simulation`, `SimulationMC` | the simulation engine over `Strategies`; implements `BotLedger` |
| `BotLifecycle`, `BotLifecycleMC` | the registry: calls, workers, the runner's loop over the bots, restarts |
| `Events` | event bus, WebSocket broadcast, notification queue |
| `TradeJournal`, `TradeJournalMC` | the cloud journal: matches, trades, import, backup and restore |
| `Collector`, `CollectorMC` | the ingestion worker and the list of symbols |
| `AuthGate` | rate limit, failures and lockout |
| `Lists` | Python's list comprehension with a condition, for `Events`, `AuthGate`, `Strategies` and `Simulation` |
| `LiveRunner_proofs`, `PaperTrading_proofs`, `Simulation_proofs`, `BotLifecycle_proofs`, `Collector_proofs`, `Events_proofs`, `CloudApi_proofs` | theorems and their proofs, one module per component; `CloudApi_proofs` has those of `AuthGate` and of `TradeJournal`, the gate of the cloud API and the journal behind it |
| `FoldFacts` | lemmas on sums over finite sets, on folds and on recursive functions, which those proofs share |

`BotLedger` is the one abstract promise of the three programs that keep books:
cash, profit, invested cost, deposits and withdrawals change by whole bookings
only. Each detailed module gives a refinement mapping and is checked against it.

### LiveRunner

`pc` names the exchange call the coroutine awaits; one action is the code
between two awaits.

| `pc` | awaits | actions that leave it |
|---|---|---|
| `sleep` | `asyncio.sleep` between cycles | `StartCycle` (the status is read here, and only here) |
| `balance` | `fetch_balance` | `ReadBalance`, `BalanceUnknown` (the call raised) |
| `apply` | nothing more: the balance has arrived and the coroutine is to be resumed | `CompareBalance` |
| `write` | nothing: between the read of `available_usdt` and its overwrite, where only a worker thread can cut in | `BookDifference` |
| `buys` | `fetch_order` of a resting buy | `BuyStillOpen`, `Activate`, `BuysReconciled` |
| `placeSell`, `sellPlaced` | `create_order` of the take-profit | `SellAccepted`, `RecordSell`, `SellFailed`, `Resubmit` |
| `sells` | `fetch_order` of a resting sell | `SellStillOpen`, `Close` |
| `cascade`, `cancel`, `replace`, `replaced` | `cancel_order`, then `create_order` of the subsidized target | `Subsidize`, `CancelAccepted`, `CancelFailed`, `ReplaceAccepted`, `RecordReplaced`, `ReplaceFailed`, `CascadeEnds`, `Resubmit` |
| `signals`, `placeBuy`, `buyPlaced` | `create_order` of a buy | `Evaluate`, `SkipSignal`, `HandleBuySignal`, `BuyAccepted`, `RecordBuy`, `BuyFailed`, `EndCycle`, `Resubmit` |

`todo` is the snapshot (`list(map.items())`) the two reconciliation loops
iterate over. The replies `sellPlaced`, `replaced` and `buyPlaced` stand between
the order resting on the exchange and the maps naming it: a fill, a command or a
crash may come there.

The handlers are `PauseBot`, `ResumeBot`, `StopBot`, `DepositCapital` and
`WithdrawCapital`. `LoopIsFree` is the guard of the first three, which run on the
event loop. The two capital handlers run in a worker thread; `ThreadedApi` says
whether that thread may run at `write`, the one place where the runner holds a
value of the balance that the thread makes stale.
`Fill` and `ExternalTransfer` are the exchange and its owner, marked external.
`Crash` forgets the memory and hydrates it from the rows; `CrashInHandler`
crashes after an order is marked CLOSED and before its tranche row is written.

A database error does not end the process: the exception leaves `run_cycle`,
`_loop` logs it (`live_runner.py:621`) and sleeps, and whatever the handler had
changed so far stays. With `DbErrors` each statement of the two fill handlers
and of the cascade may raise, with one action for each state it leaves:

| action | the statement that raises | what it leaves |
|---|---|---|
| `BuyDropped` | `update_order_status` or `save_tranche` (373, 390) | the order in no map, the fill in no row: recorded in `lost` |
| `BuyWithoutSell` | `record_event` (395) | the tranche booked, its sell order never placed |
| `SaleDropped` | `update_order_status` (458) | the order in no map, the tranche as before |
| `SaleHalfBooked` | `update_tranche` (474) | the tranche marked CLOSED in memory only and still in `active_tranches`: `sold`, `halfSold` |
| `SaleWithoutCascade` | `record_event` (480) | the sale booked, its profit not recycled |
| `SubsidyUnsaved` | `update_tranche` (501) | the target lower in memory than in the row: `unsaved` |

A tranche in `sold` no longer occupies its index (250), so the index can be
bought again beside it; the next cascade that subsidizes it writes its row CLOSED
(`SavedAsIs`). `lost`, `halfSold` and `unsaved` are ghosts: no guard reads them.

`client.create_order` submits again after a network error: `Raised`/`Resubmit`
and `LostReplies` model that, including a reply lost after the order was
accepted.

Left out on purpose: candles and indicators (any free index may be signaled at
any price it can pay, which contains every strategy), amounts other than one
unit (which hides that the cascade takes a USDT value off the price of a unit,
`live_runner.py:497-498`; `PaperTrading` and `Simulation` have amounts), database
errors of the other statements (a `save_order`, whose order is then tracked
without a row; the transfer record of the reconciliation; the writes of the API
handlers; reading the candles), threads of the capital routes inside another
read-then-write of the runner than the reconciliation's, precision and rounding, events and notifications, and the guard on fewer
than 50 candles. Several bots in one loop and the zero-trust halt are in
`BotLifecycle`. `invested` is a ghost: the cost of the active tranches, booked
as it changes, for the refinement.

### PaperTrading

The dry-run branches of the same cycle, with amounts, prices and fees. `stored`
is the latest row of table `candles`. Candles are inserted DO NOTHING, so the row
stays what the market was when the candle was first seen: `SyncOnce` adds one and
the market goes on unseen. `orders` is table `orders` with the simulated ids
(side, index, timestamp) and the upsert that changes the status only. `pc` and
`todo` follow the cycle: `StartCycle` takes the resting buys the candle touches,
`Activate` books one and rests its sell, `BuysReconciled` takes the sells,
`Sell` books one with its cascade over the other tranches, `Evaluate` and
`HandleBuySignal` place what the strategy asks for. Nothing here awaits, but the
capital routes run in threads: `DepositCapital` and `WithdrawCapital` are enabled
at every step. An amount is a whole number of units, so a small enough order
could round to nothing, which the code's floats do not do for an order of at
least 10 USDT; `UnitAssumption` says that the unit is fine enough for the orders
that are placed. The ghosts of a property are `asked`, `sold` and `larger` (an
order was placed under an id whose row says more than was asked for). Left out:
pause, restart (other modules), and the torn update of a
balance inside one booking, which `LiveRunner` has under `ThreadedApi`.

### Strategies and Simulation

A strategy is `Evaluate(strategy, row, portfolio, memory)`: a pair of signals and
next memory. The shared parts (`Regime`, `TakeProfits`, `Exits`, `ChainedEntry`,
`FloorEntry`, `GridEntry`, ...) are one operator each and the eleven classes are
combinations of them, since most of their code is the same text. A `row` is a
candle with its indicator values, which the engine reads from a table. Money is
in whole units, rates in thousandths, and divisions round down.

`Simulation` is `engine.run`: `Inject` adds a capital injection before a candle,
`EvaluateCandle` asks the strategy and fills `queue`, `ExecuteSell` books a sell
with its cascade, `ExecuteBuy` books a buy or `RejectBuy` drops it. Left out: the
SATOSHIS harvest, the equity series and the metrics, `enable_compounding=False`,
weight lists shorter than the tranches.

### BotLifecycle

`db` is column `bots.status`; `status` is the registry of each worker; `todo` is
the snapshot of bots its cycle still has to visit and `visiting` whether it
awaits inside a LIVE bot. `SetStatus` (pause, stop, resume) and `Create` change
memory, then table, then answer; each has the branch in which the second step
fails and the caller sees an error. `Visit` is `Skip`, `Halt` (a LIVE bot
without credentials, in memory only since `app.py:31` gives the runner no
`BotService`), `VisitDry` (no await) or `BeginVisit`, followed by `Buy` and
`EndVisit`. `CycleFails` is a database error in any visit. `Restart` reads the
registry again and seeds an empty table. The ghosts say what a property allows
for: `told` is the last answer, `torn` the bots whose last call failed half-way,
`caught` those told to stop while being visited, `halted` those halted in memory.

### Events

An event is its position in `published`. `StartService` is `lifespan`, `Publish`
appends one task per handler to `ready`; the other actions are the loop running a
task until it really suspends. A broadcast (`casts`) keeps a position in
`connections`, which others mutate; `SendToNext` sends to the client there and
stops in `waiting` if that client does not take it; `FinishCast` removes the
failed ones. `Connect`, `ConnectionLost` and `Disconnect` come between.
`TakeFromQueue` and `SendToChannel` are the notification worker, whose channels
may refuse. A member of `Clients` is one connection, made and lost once.

### TradeJournal

`create_match` is three actions: `CreateRead` (the SELECT and the refusal),
`CreateInsert` (the match takes its number of the sequence, and is seen by nobody
else) and `CreateCommit` (the update of the buy from the remainder that was read,
the flag of the sell, COMMIT). `delete_match` is two, `DeleteRead` and
`DeleteCommit`. `request` holds what a transaction has read and inserted. An
import (the collector and `POST /trades`) is `ImportInsert`, then `ImportCommit`,
or `ImportFails` at the first number in use; `importing` are its uncommitted rows.
What PostgreSQL makes wait is a guard: a trade cannot be deleted under a match
that is being inserted, a restore waits for an insert of one of its trades or
ids. `UpdateTrade` and `DeleteTrade` with its cascade are single statements. The
code checks neither the side of a trade nor the sign of a remainder, so neither
does the model: a match may name a sell as its buy and any number as its sell,
and `PutRems` holds a negative remainder. The export reads each table in its own
statement (`ExportTrades`, `ExportMatches`); `Restore` is one transaction that
gives new trades new ids and matches their old ones, and `RestoreFails` as a whole
on a number in use or on the foreign key. `FreshServer` is the migration the
backup exists for. A row's ghosts `foreign`, `creates`, `raced` and `rewritten`
say what a property must allow for: `raced` is set only when a request wrote from
a value that was no longer current, `rewritten` only when a client set the
remainder or a backup older than the tables was restored. `overtaken` are the ids
that were inserted and not committed when the last restore moved the sequences.
Left out: two imports at once, and requests that the database fails to resolve a
deadlock.

### Collector

Time is in minutes and a candle is the minute it opens. `ReadList` is the top of
the cycle (`snapshot`), `AskForward`/`ForwardAnswer` the pages of the forward
loop, `AskBackward`/`BackwardAnswer` the block of the one symbol the cursor
chose, `ForwardFails` and `BackwardFails` the exceptions caught around each
symbol. `ForwardAnswer` and `BackwardAnswer` differ by `Kind`: KuCoin and Binance
look for the listing, ccxt pages through a window. `AddSymbol`, `RemoveSymbol` and
`AutoTrack` (a candle query for an unknown symbol) are the API; `Tick` is the
clock; `partial` are the candles stored before their minute was over.

### AuthGate

`verify_api_key` awaits nothing, so each outcome is one action: `TooMany` (429),
`RightKey`, `WrongKeyWhileLocked`, `WrongKey`. The tables are pruned and cleared
exactly where the function does it. A right key is accepted at any time, since the key is
compared (59) before the lockout is looked at (68). The ghosts are the logs the
limits are about: `admitted` has every request that passed the rate limit,
`counted` the wrong keys sent outside a lockout since the client last showed the
right one.

## 3. Runs

| run | checks | shows |
|---|---|---|
| `live` | `TypeOK`, `TakeProfitResting`, `NoOrphanOrder`, `SubsidyBounded` | calls and statements that succeed, pause and resume at every await: each tranche is offered for sale, no resting order is lost, no target is raised or falls below its floor |
| `refusals` | `PhantomsCancel` | refused calls, lost replies, resubmissions, fees, stop: phantom transfers cancel once the account settles |
| `crash` | `OneTranchePerIndex`, `OneOpenSell`, `MemoryIsDurable`, `EveryFillOneTranche` | refused calls, a crash anywhere, and database errors in the fill handlers and the cascade |
| `fair` | `FillsAreBooked`, `ImplementsLedger` | transfers and capital threads at every step, inside the reconciliation too: the books refine `BotLedger`, and every fill is booked |
| `paper` | `TypeOK`, `BuyAtItsSignal`, `SellIsOwnUnlessResold`, `OwesAtMost`, `ImplementsBooks` | repeated order ids on frozen candles with capital threads: buys at the price asked for, debt bounded, books refine `BotLedger` |
| `sim` | `SubsidyIsPaidFor`, `TargetsKeepTheirFloor`, `ChainDescends`, `ImplementsBooks` | eleven strategies, three regimes, injections and cascades: books refine `BotLedger`, subsidies are spent once, the chain goes down |
| `lifecycle` | `AnswersAreStored`, `MemoryIsStored`, `PauseEndsBuying`, `EveryoneGetsATurn` | one worker: calls at every await and failing half-way, failing cycles, a restart |
| `workers` | `PauseEndsBuying` (violated) | with a second worker a paused bot goes on buying in the other |
| `events` | `HeardUnlessDisturbed`, `ClientOrder`, `NotifiedInTheEnd` | clients connect, stall and leave during broadcasts |
| `races` | `TypeOK`, `Conserved`, `HiddenBuysAreUsedUp`, `NoIdCollision`, `QuietRestoreIsIdentity` | two clients and an import that read, insert and commit in steps, edits with a negative remainder, cascades, export, restores over uncommitted rows, fresh server |
| `collector` | `NoHoles`, `CompletedAtGenesis`, `OlderAreFinal`, `BackfillEnds`, `KeepsUp` | three kinds of exchange, histories with pauses, failures, restarts, edits of the list |
| `auth` | `RateHolds`, `LockedInTime`, `LockoutLasts` | all orders of right keys, wrong keys and pauses |

`workers` quotes the documented start command (`bot/README.md:76`, two workers)
against what a pause answers (`bot_service.py:312`); `PROJECT.json` "findings"
gives the lines. Every property of a passing run has a mutant there: a change of
one definition, of the kind a plausible bug would make, under which TLC finds
that property violated.

### What the passing properties except

A property that holds with an exception says where the code falls short of the
plain one. Each of these can be reproduced by one change to a configuration:

- `NoOrphanOrder` is stated without crashes, lost replies and database errors.
  With `MaxCrashes = 1` a restart forgets resting orders: the maps are memory
  (`bot/CONTEXTO.md:261` promises their reconciliation after a restart). With
  `LostReplies` a resubmitted order rests twice (`client.py:160`).
- `TakeProfitResting` is stated for `Rejects = FALSE` and `DbErrors = FALSE`: a
  refused sell is not tried again (`live_runner.py:435`), a refused replacement
  leaves the tranche without its order (557), and so does a cycle cut short.
- `EveryFillOneTranche` excepts the fills in `lost`: with a crash, or a database
  error that ends the cycle only, between 337 and 390 a fill is gone, and no
  later cycle or restart books it.
- `MemoryIsDurable` and `OneTranchePerIndex` except a tranche whose sale was cut
  at 474 (`halfSold`); targets agree but for those in `unsaved`, which are lower
  in memory (498-501) until the next subsidy or restart.
- `SubsidyBounded` is about the targets and not about the amount: how much of a
  profit a cascade may take is the matter of `SubsidyIsPaidFor` for the engine.
- `ImplementsLedger` counts the capital that a reconciliation overwrites
  (`overwritten`): a deposit in its worker thread between 569 and 573 enters the
  totals and not the balance (`bot/CONTEXTO.md:321`). It is stated for
  `MaxCrashes = 0`, since hydration starts from a balance without the realized
  profit (`bot_service.py:82`).
- `PhantomsCancel` holds only once no order rests: until then a resting buy of the
  bot is booked as an external withdrawal (`live_runner.py:579`). It is stated
  without restarts and database errors, either of which may drop a fill.
- `Conserved` excepts rows with `raced`, since two concurrent matches can both
  consume one remainder (`matches.py:94-122`) and two deletions give one amount
  back twice; and rows with `rewritten`. `QuietRestoreIsIdentity` is about a quiet
  restore: one into newer tables or a fresh server, or of a backup whose two reads
  saw different states, may attach a match to another trade (`backup.py:191`,
  `backend/README.md:128`).
- `HiddenBuysAreUsedUp` excepts a row whose flag a `PUT` wrote, or a match that
  names the row as its sell, until a match or a deletion writes the flag again.
- `NoIdCollision` excepts the ids in `overtaken`. A match inserted and not yet
  committed is not in the MAX(id) a restore sees (`backup.py:216-218`), so setval
  moves the sequence to or below its number, and the insert that meets it later
  fails; the comment at `backup.py:214` says the synchronisation is there to avoid
  collisions of ids. Without the exception TLC violates the property.
- `LockedInTime` counts the wrong keys sent outside a lockout. It is no bound on
  the keys a client may try: those sent during a lockout are compared as well
  (`auth.py:59`), and a right one ends it; the rate limit alone holds them back.
- `AnswersAreStored` and `MemoryIsStored` except the call that failed half-way;
  `PauseEndsBuying` the visit that was under way; `EveryoneGetsATurn` is about
  failures that pass, since a bot that fails in every cycle starves those behind it.
- `HeardUnlessDisturbed` excepts a client behind one that left during the
  broadcast: `ws.py:29` speaks of all connected clients.
- `SellIsOwnUnlessResold` excepts an index sold earlier on the candle it was
  bought on: the upsert then keeps the older, maybe lower, target
  (`live_runner.py:439`, `order_repository.py:20`).
- `OwesAtMost` leaves one tranche out of the debt, the one checked last, but not
  once an owner has withdrawn, and not once `larger`: a second order on one
  candle keeps the row of the first (`order_repository.py:20`), so what is
  resting may cost more than was compared with the balance. The plain bound
  fails with `MaxOrders = 4`, `MaxCandles = 4`, `Budget = 100`, `FeeRate = 0`.
- `MemoryIsStored` excepts a halted bot: a restart makes it RUNNING again, to be
  halted again; and a creation whose save failed, which trades without a row.
- `BackfillEnds` excepts a ccxt exchange with a pause longer than one window,
  where the backfill asks for the same window for ever
  (`exchange_client.py:252-272`).

### Bounds

- `LiveRunner`: two tranche indexes (the cascade needs a closed tranche and a
  hung one), two prices (so that a subsidy and a dearer order can be told
  apart), a budget of 5 or 7 (two tranches fit, three do not), two or three buy
  orders (an index is bought again after it was sold), one transfer, one crash and
  any number of database errors.
  `MaxRetries` is the code's own. `TakeProfit`, `Fee` and `RecycleDiv` are
  chosen so that a close leaves a subsidy that moves a target.
  `MaxBuys`, `MaxTransfers` and `MaxCrashes` bound counters that the program
  does not have. At the bound the runner still cycles, so deadlock is checked.
- `PaperTrading`: two indexes, three prices, a size the budget holds twice and
  one that needs a deposit, three candles and three buys: an index can be bought, sold and bought again on one
  candle, which is when ids repeat. One transfer between any two steps. The
  bounds end the behaviour, so deadlock is not checked.
- `Simulation`: five prices of a ladder in up to three regimes, at most five
  candles in a run and one injection. The rungs are placed so that the strategies
  buy, take profit, stop and buy again; two base and two floor tranches make the chain,
  the floor and the cascade meet. `Lot`, the units of the asset a price unit is
  divided into, is the highest price, the least the assumption allows: whole
  amounts then round often. Each run ends, so deadlock is not checked.
- `BotLifecycle`: three bots (seeded, LIVE, LIVE without credentials), three
  tables to start from, three calls and one restart: pause, resume and pause
  again around one visit. Deadlock is checked.
- `Events`: two events (their broadcasts overlap), one of a notified type and one
  not, two connections (one in front of the other). Deadlock is not checked: the
  system rests when nothing more is published.
- `TradeJournal`: one buy and one sell for two clients, amount 12, dust 3,
  tolerance 1, matches of 5 and 13: one match of 5 leaves a remainder, two leave
  dust, and 13 uses the tolerance. A remainder set by hand is -4. Ids up to 2, at
  most five requests and imports, one export per behaviour: two matches and a
  deletion, or a match that is inserted while a restore runs and one that meets
  its number. `TradeJournalMC` has the negative number a configuration cannot. Requests are bounded, so deadlock is not checked. Symmetry on
  the clients: no property names a client and none is a liveness property.
- `Collector`: a symbol of each API, histories with a pause longer (k) and
  not longer (c) than a window, pages of two and windows of two minutes against
  histories of up to eight, the clock at 5 and 8 (the jump is longer than a page),
  two edits or restarts. Two of the symbols are tracked from the start, so the
  list under the cursor both grows and shrinks.
- `AuthGate`: one address, since no table relates two of them; window 3, four
  requests, two failures, lockout 4, nine moments: a lockout begins, ends and
  begins again. The clock ends the behaviour, so deadlock is not checked.

### Fairness

- `LiveRunner`: weak fairness of `Runner` as a whole: the event loop runs the
  coroutine, and every exchange call returns. Nothing is assumed of the owner,
  the market, the API or a crash. `FillsAreBooked` therefore speaks of a run in
  which calls do not fail and the bot is not halted.
- `BotLifecycle`: the loop starts cycles (weak), and a visit that is attempted
  again and again does not fail for ever (strong, since `CycleFails` disables it
  each time). Calls and restarts are free.
- `Events`: the loop runs what is ready and the requests to the channels end,
  both of which have timeouts. Nothing makes a client read, which is the point of
  `NotifiedInTheEnd`.
- `Collector`: the worker runs and every request is answered or fails (weak); an
  exchange asked again and again for a symbol answers some time (strong). The
  clock and the API are free.
- The journal, the gate, the paper bot and the simulation have no liveness
  property: a request that is never committed is an ordinary behaviour, and a run
  of the engine is a bounded loop.

## 4. Proofs

Each row holds for every value of the constants that satisfies the assumption of
the component's module (`RunnerAssumption`, `PaperAssumption` and
`UnitAssumption`, `StrategyAssumption` and `SimulationAssumption`,
`JournalAssumption`, ...) and, beyond it, what the last column
says. The bounds of the runs are constants too, so the theorems are about any
number of buys, transfers, requests and candles.

| theorem | says | and assumes |
|---|---|---|
| `LiveRunner_proofs!TranchesAgree` | `[]RunnerInv` | |
| `!TranchePerIndex` | `[]OneTranchePerIndex` | |
| `!TranchesDurable` | `[]MemoryIsDurable` | |
| `!TypesHold` | `[]TypeOK` | |
| `!TargetsOnlyFall` | `SubsidyBounded` | no crash, or no database error |
| `!SellPerIndex` | `[]OneOpenSell` | no reply of the exchange is lost |
| `!NothingOrphaned` | `[]NoOrphanOrder` | no lost reply, no crash, no database error |
| `!TakeProfitRests` | `[]TakeProfitResting` | no lost reply, no refusal, no crash, no database error |
| `!FillsBecomeTranches` | `[]EveryFillOneTranche` | |
| `!PhantomsBalance` | `[]PhantomsCancel` | no crash, no database error |
| `!RunnerImplementsLedger` | `ImplementsLedger` | no crash |
| `!LedgerIdentity` | `Books!Spec => []Books!Identity` | a numeric budget |
| `!BooksBalance` | `Spec => []Books!Identity`, the identity for the runner | no crash |
| `PaperTrading_proofs!PaperTyped` | `[]TypeOK` | |
| `!BuysAsAsked` | `[]BuyAtItsSignal` | |
| `!SellsAreOwn` | `[]SellIsOwnUnlessResold` | |
| `!DebtIsBounded` | `[]OwesAtMost` | |
| `!PaperImplementsBooks` | `ImplementsBooks` | |
| `BotLifecycle_proofs!AnswersStay` | `[]AnswersAreStored`, for any workers | |
| `!PausesHold` | `[]PauseEndsBuying` | `OneWorker` |
| `!MemoryFollowsTable` | `[]MemoryIsStored` | `OneWorker` |
| `Simulation_proofs!FloorsHold` | `[]TargetsKeepTheirFloor` | |
| `!SubsidiesArePaid` | `[]SubsidyIsPaidFor` | |
| `!ChainGoesDown` | `[]ChainDescends` | no candle has an ATR of 0 |
| `!SimulationImplementsBooks` | `ImplementsBooks` | |
| `CloudApi_proofs!JournalTyped` | `[]TypeOK` | |
| `!SequencesStayAhead` | `[]NoIdCollision` | |
| `!NothingHiddenButDust` | `[]HiddenBuysAreUsedUp` | |
| `!AmountsConserved` | `[]Conserved` | |
| `!RestoreOfCurrentStateIsNoChange` | `QuietRestoreIsIdentity` | |
| `!RateIsLimited` | `[]RateHolds` | |
| `!LockoutsComeInTime` | `[]LockedInTime` | |
| `!LockoutHolds` | `LockoutLasts` | |
| `Collector_proofs!StoredWithoutHoles` | `[]NoHoles` | `CcxtPage > Window`, in `CollectorAssumption` |
| `!RenewedBehindTheEnd` | `[]OlderAreFinal` | |
| `!CompletedWithHistory` | `[]CompletedAtGenesis` | |
| `Events_proofs!HeardByAll` | `[]HeardUnlessDisturbed` | |
| `!HeardInOrder` | `[]ClientOrder` | |

The assumptions in the last column are no stronger than the configuration of the
run that checks the property, and "What the passing properties except" says what happens without
them.

### LiveRunner

**RunnerInv.** That no index is bought twice rests on the path of an order:
`HandleBuySignal` checks that the index is free, several awaits later the order
rests, later still it fills, and in between other fills, cascades, database errors
and crashes happen. So the invariant says what holds at each await: what the maps
name (`MapsTracked`), what the snapshot of a loop names although the maps may move
(`TodoTracked`), what the order on its way is (`InFlight`), that its index has no
tranche but half-sold ones (`IndexReserved`), that each row is a processed buy of
its own (`RowsBooked`), that a processed buy has its row or was cut from it once
(`FillsKept`), and what a tranche in memory and its row agree on (`MemoryBooked`).
A crash clears the maps; rows are what remains, hence `MemoryIsDurable` comes from
it. `Unharmed` says that without database errors nothing is half-sold or unsaved,
so the theorems that exclude them get the plain statements (`Exact`).

**SellInv.** `OneOpenSell` needs more: an open sell belongs to an active tranche
(`SellsActive`) and is the tracked or the just placed one (`SellsTracked`), a
sell is placed only where none is open (`SellsPlaced`), and a snapshot item that
the cascade has overtaken names a canceled order (`SnapshotFresh`), which is why
a stale item closes nothing. With lost replies it is false, since a resubmitted
order may rest twice. `NoOrphanOrder` is inductive on top of it: what rests and
is in no map is the order whose reply has just arrived.

**FillInv and CoverInv.** A row is made in the step that marks its buy processed
(`BuysBooked`), and only a filled order is processed (`ProcessedIsFilled`), which
is `EveryFillOneTranche`. For `TakeProfitResting` each tranche must be `Covered`
at every await, not only between cycles: its order rests at its target or has
filled, but for the one tranche whose order is being placed or replaced, where
the coroutine holds the target. That a `create_order` of a sell then succeeds
needs the coin to be there: `CoinsCounted` says that the account has one for each
filled buy that is not processed and for the order about to be placed.

**AccountInv.** `PhantomsCancel` compares the account with the books.
`Outstanding` is what one order makes them differ by: the reserve of a buy until
it is processed, its fee for good, the revenue of a filled sell until it is
processed. Their sum over the orders is the difference, less what was booked as
transfers (`AccountExplained`). Each action changes one order, so it changes
one term of the sum; once the account has settled the fees are left.

**The ledger.** `RunnerImplementsLedger` shows that each action of `LiveRunner`
is one booking of `BotLedger` or leaves the books alone. Between the read of the
balance and its overwrite the mapping takes the balance that was read (`Liquid`):
what a thread moves meanwhile changes the totals only, which is `Lose`, and the
overwrite then is the deposit or withdrawal of the difference that was computed.
A cycle cut short by a database error has done one booking or none. A restart
computes the balance anew, hence `MaxCrashes = 0`. With `LedgerIdentity` the books
of the runner add up, in terms of the booked cost `invested` and of what was
overwritten (`BooksBalance`).

### PaperTrading

**Shape.** An id is made of side, index and timestamp and the upsert keeps the
price of an older order. That a pending buy is still at the price its signal
asked for needs the whole history of the table: every buy id on the current
candle has that candle's close as its price (`BuysAtClose`), and no id is ahead
of the candle (`NoneAhead`), so the next candle starts with fresh ids.
`WorkIsThere` ties `todo` to the pending maps. The invariant is shared by the
five theorems. `SellsAreOwn` adds that an id of a sell on the current candle
stands for a sale on it (`SoldBefore`).

**The debt.** A resting buy costs at most the largest size, since the fee and the
two roundings only take away; so the sum over the resting buys is at most their
number times that size, and the last buy was compared with the balance.
The proof found that the bound was not true as first stated: see `OwesAtMost`
in section 3.

**The cascade.** `Subsidized` folds over the dearer tranches in an order that a
CHOOSE fixes. `SubsidyLowers` proves of the fold that it only lowers targets:
`Invested` does not depend on them, so a sale is one booking however its profit
is spread, which is `PaperImplementsBooks`.

### Simulation

**Fits.** The invariant says what a portfolio and the signals still queued always
are, whichever of the eleven strategies runs: a tranche was bought for something
and has a target between its floor and what its signal asked for (`Held`), an
index is held once, and a queued sell is for a tranche that is held and for one of
its own (`SellsHeld`), so that the engine never meets the sell it would skip. That
a strategy sells no tranche twice is shown once for each way to put exits
together, and that no entry costs nothing once for `Order`. `FloorsHold` is
part of `Held`.

**The cascade.** `Cascade` folds `Lower` over the hung tranches, dearest first.
The proof needs nothing of that order: whatever the fold has reached, the
discounts given and the rest make up the subsidy, and what a tranche gives up
is worth no more than its discount, since both divisions round down. Summed over
the tranches this is `SubsidiesArePaid`; a sale takes its tranche out of the sum
and a purchase adds one that was given nothing.

**Chain.** `ChainDescends` speaks of the tranches held, but a buy is queued before
it is executed. `ChainReady` says that the buy of a chained strategy is alone in
its candle and below everything the chain holds: the strategy compares it with
the tranche of the highest index only, so the descent itself is the induction
hypothesis. The theorem supposes that no candle has an ATR of 0. The code does
not check it; without it the required drop is 0 and two tranches may have one
price (`btc_quantum_evolution_regime.py:199`). `MaxTranches` is any number, while
three of the strategies have spacings for five tranches only and raise
IndexError for more (`naive_grid.py:78`, `three_regime.py:114`,
`btc_regime.py:109`).

**Units.** Amounts are floats in the code and whole units here.
`SimulationAssumption` has no price above `Lot`, so that whatever is paid buys
more than nothing, as it does in the code; otherwise a tranche of amount 0 would
be divided by.

### BotLifecycle and Collector

**TableInv and MemoryInv.** `AnswersStay` is by the table alone: whoever writes a
row answers what it wrote or is `torn`; `NotEmpty` keeps a restart from seeding
over it. `PausesHold` needs the chain from answer to order: a bot that trades was
told to (`TradesAsTold`), and so was one that is being visited unless the call
came during the visit (`VisitedAsTold`). Both use that memory follows the table,
which is where `OneWorker` enters; `workers` is the counterexample without it.

**CollectorInv.** `NoHoles` speaks of stored candles only, but a page in flight
was asked for earlier: `RequestFits` says that the request still begins where the
store ends, since the symbol may have been removed, added or restarted
meanwhile. `OlderAreFinal` is part of the invariant because the forward page
starts from the latest stored candle, which may be a partial one.
`StartsAtGenesis` is what the backfill flag means. `CollectorAssumption` states
what the constants of the code satisfy: a forward page is longer than its overlap
(1000 against 2 minutes), and a ccxt exchange gives more than one window; one
that caps its pages below 1500 candles would leave a hole for ever.

### TradeJournal

`NothingHiddenButDust` holds however requests race, because a commit writes flag
and remainder together; the invariant carries the same statement for the rows of
the backup, which a restore brings back, and of an import. `SequencesStayAhead`
needs in addition that the uncommitted ids a restore did not overtake are below
the sequence too (`Ahead`). `Conserved` is about sums: remainder plus the matches
of a buy. `JournalInv` says that a match names a buy that is there (`KeysHold`),
also one that is being inserted, and that the id it has taken is nobody else's
(`InsertsApart`); that what an import has inserted is not in the table
(`ImportsApart`); that a trade has one row, in the journal and in the backup
(`OneRowPerTrade`); and that a request asks for no more than it has read
(`RequestsFit`), so a commit on a value that is still current moves its amount
from the remainder to a match. `QuietBackup` (while nobody writes, the backup is
the journal) makes a restore give every row its own id again, which is
`RestoreOfCurrentStateIsNoChange`; otherwise it marks the rows it brings back.

### Events

`LoopInv` says how a broadcast under way stands to the tasks of the loop, the
list and the clients it waits for: the tasks are in the order of their events
(`TasksInOrder`), and a broadcast has the loop or waits at one place (`OnePlace`).
For `HeardByAll` a client that was never moved up is still ahead of the iteration
or has been sent the event (`Reached`); removing somebody in front of it is what
moves it up. For `HeardInOrder` the broadcasts must not overtake each other while
nobody leaves: `InStep` says that an older one is further in the list than a
younger one, or in front of it at the client both wait for.

### AuthGate

The limits are about everything that was admitted or counted, the code knows only
tables that it prunes and clears. `EndOf` relates the two: a table is the end of
its log, and what it left out has left the window. From it, the table has room
exactly when the log is `Spaced`: of one more entry than the limit in a row, the
last is a window behind the first, and then no window holds more than the limit.
Clearing the table at a lockout keeps this since a lockout is not shorter than
the window (`AuthAssumption`; 300 against 60 seconds in the code).

### Sums and recursion

The models compute with recursive functions and with the folds of the community
modules. The library's induction theorems take an operator as a parameter, which
no installed prover instantiates, so `FoldFacts` states induction over sets
instead: a set of numbers that has 0 and with each number the next has them all
(`NatInductive`), a family of subsets closed under adding an element has every
finite subset (`SmallerFirst`). From the second it proves that the function
`MapThenFoldSet` chooses exists, and then what its sums do when an element is
added, removed, changed or renamed (`SumWith`, `SumWithout`, `SumChanged`,
`SumReindexed`), and their bounds (`SumAtMost`).

### Only model-checked

The liveness properties (`FillsAreBooked`, `EveryoneGetsATurn`,
`NotifiedInTheEnd`, `BackfillEnds`, `KeepsUp`), since liveness under fairness and
ENABLED are outside what the installed provers do. Every other property of a
passing run has a theorem.

## 5. Not modelled

`PROJECT.json` "components" has a row for each part, with its reason. In short:
indicator and chart code (numeric), market data queries, encryption, Flutter
screens (presentation; the client's FIFO matching is a local copy of what the
journal holds), experiment scripts, configuration and logging, `pg_dump` and the
other tables of the restore (same shape as the modelled ones), the journal's
withdrawals, the engine's SATOSHIS harvest and metrics.

Hazards that no property states: deleting one match of a sell clears its flag
although another match still uses it (`matches.py:153`; no document says what the
flag of a partly matched sell means); events queued for notification are lost
when the process stops (`notification_dispatcher.py:71`); an injection counts
twice in the sizing base of the quantum strategies
(`btc_quantum_compound_regime.py:101-104`), for which
`bot/CONTEXTO.md:307-308` gives another formula: it changes the size of orders, which the cash check caps.

Observations made while modelling, which no property is about:

- No code publishes SYSTEM_ALERT, and SECURITY_ALERT (`live_runner.py:178-188`) has no
  subscriber, so the operator is not told of a zero-trust halt.
- A pause of a LIVE bot stops its reconciliation too: a fill during the pause is
  booked when the bot is resumed.
- In the engine an order for the whole balance is always rejected, since the fee
  comes on top of it.
- A tranche of the dry-run bot can be sold in the cycle it was bought in, by a
  high the candle made earlier; a subsidized target is not carried to the
  simulated order.
- A restored backup without candles keeps `backfill_completed` set
  (`backup.py:29,132-141`), and the history is then not fetched again:
  `CompletedAtGenesis` is about the worker and the routes that edit the list, and
  does not hold across such a restore.
- The forward request of an exchange that goes through ccxt takes what the
  exchange counts as a page. `Forward` is the oldest candles there are; an API
  that bounds its page in time would return nothing for a pause of the market
  longer than 1000 minutes, and the symbol would stay behind it.
- A cycle of the collector longer than 90 s shows as stalled (`health.py:356-360`).
- `auth.py` counts failures within one window; its comment speaks of consecutive
  ones. Its tables keep an entry per address for ever (`auth.py:11`).

## 6. Plan

What is left, in this order:

1. The journal's withdrawals, whose matches flag them as they flag sells.
2. `FifoMatching`: the Flutter tracker's matching
   (`lib/features/tracker/providers/tracker_provider.dart`) as an operator
   against a reference definition.
