# The trading platform in TLA+

Models, model-checking runs and machine-checked proofs kept beside the Python
code of the trading platform (`main.py` and the packages around it). Every
definition is translated from the source; `PROJECT.json` maps each of them to the
lines it stands for, names the bug (mutant) that each property catches, and lists
the hazards the properties are for.

Run `tlc -config X.cfg M` for a run listed below and `tlapm M.tla` for a proof
module. Parse any module with `tlasany`.

## 1. Inventory of the system

The program is a single asyncio process (`main.py`, class `TradingPlatform`) that
trades a watchlist through one Alpaca account, two collector daemons that record
market data, and an offline replay harness.

| part | state | operations | how it interacts |
|---|---|---|---|
| order path: `main._place_order`, `execution/alpaca_orders.py` | equity cache, the broker's account | read positions, equity, validate, submit bracket, log row | called by the bar callback; HTTP to the broker |
| flatten: `main._run_flatten`, `close_all_positions` | `_flatten_done_for`, errors of the sweep | read, cancel all, wait for release, close with retry | task DailyRoutine; shares the account with the order path |
| risk: `strategy/risk.py` | none (pure) | validate_order, size_from_risk, stop and take profit | called by the order path |
| bars: `data/bar_aggregator.py`, `data/alpaca_market_data.py` | per-symbol window and buffer; connection lock, backoff | on_minute_bar, flush_all; connect, subscribe, reconnect, stop | websocket callback into `_on_5min_bar` |
| schedule: `_daily_routine_loop`, `_task_supervisor` | done-for flags, task list | ten daily steps, restart of dead tasks | polls the clock; resets the LLM budget, runs the flatten |
| signals: `strategy/signal_engine.py`, `strategy/signals/*`, `analysis/indicators.py` | none (pure) | gap-and-go, pullback, evaluate_trade | called per 5-minute bar |
| LLM shadow path: `strategy/llm/*` | escalation budget, caches | tiers T1/T2, merge, policy decide and position mapping | runs before each entry; never sends orders |
| tick store: `data/tick_store.py`, `data/feed_daemon.py`, `scripts/run_feed_daemon.py` | bounded queue, drop counters, SQLite rows | put, batch, flush, close; feed rolling clock skew | websocket task produces, writer task consumes |
| option chains, quotes, prices: `data/schwab_*.py`, `data/chain_store.py`, `data/price_store.py`, `scripts/collector.py` | OAuth tokens, daily SQLite tables | refresh, fetch, store, collect per schedule | separate collector process |
| replay: `data/replay/*`, `data/replay_cache.py` | day state, portfolio, run rows, LLM cache | run_replay, day loop, fill simulator, persistence | offline; its rows are recorded under a run id |
| simulation: `sim/*` | portfolio, comparison metrics | mark, open, close, compare | used by replay |
| watcher and alerter: `scripts/watch.py`, `scripts/alert.py` | one JSON file, the state of each level | poll and replace; read, advance, report | two processes that share only the file |
| news: `data/polygon_news.py`, `data/news_pipeline.py`, `data/news_feed.py` | poller's cursor, queue of headlines, sentiment table | poll and store; queue, batch, score, store | two tasks under the supervisor |
| downloads: `data/polygon_feed.py`, `alpaca_rest.py`, `fred_vix.py`, `watchlist_builder.py`, build scripts | none kept | ask, retry, follow pages, give up | called by every part that needs history |
| regime, gamma, walls, journal, MCP server, tools | SQLite tables, files | compute, render | read-only reports |

What is hard here:

- **Interleaving.** The order path and the flatten await HTTP calls on the same
  account; fills, stops and the close of the market happen in between. What was
  read before an await is used after it.
- **Failure.** Any HTTP call may fail before or after it took effect; several
  functions turn a failure into an ordinary answer (an empty list, a cached value).
- **Crash.** Flags such as `_flatten_done_for` live in memory only.
- **Order.** Bars close when the *next* one arrives; the flatten looks at the
  positions before it cancels orders.
- **Limits.** Bounded queues that drop, retry counts, daily budgets, exposure caps.
- **Time.** Decisions, outcomes and replayed contexts must not see what comes after them,
  while bars, news, scores, open interest and volumes are stamped by different clocks.
- **Files without locks.** The sentiment and shadow tables, `ticker_metadata.json`, the cache
  of decisions and the watcher's file have writers and readers that do not know of each other.

## 2. Modules

| module | models | EXTENDS |
|---|---|---|
| `Risk` | `strategy/risk.py`: caps and exposure | |
| `Brokerage` | external: the Alpaca account as the client sees it | `Risk` |
| `LiveOrders` | `main.py` `_place_order`, `_run_flatten`; `execution/alpaca_orders.py` | `Brokerage` |
| `BarFeed` | `data/bar_aggregator.py`, `main.py` `_on_5min_bar` and the pre-market context | |
| `TickStore` | `data/tick_store.py`, `data/feed_daemon.py`, the verdict of `scripts/run_feed_daemon.py` | |
| `StreamLock` | `data/alpaca_market_data.py` `run`, `SingleConnectionLock`, starts and stops of the processes | |
| `Portfolio` | `sim/portfolio.py`, `sim/fills.py`: the simulated cash account | `Risk` |
| `Replay` | `data/replay/driver.py`, `tick_loop.py`, `pre_filter.py`, `fill_simulator.py`, `persistence.py` | `Portfolio` |
| `ReplayReport` | the labels of tier 3, the base pass, the database of several runs, `sim/comparison.py` | |
| `ReplayContexts` | what a replayed decision may know: `tick_context.py`, `day_state.py`, `market_context.py` | |
| `DecisionCache` | `data/replay_cache.py` under `run_replay` | |
| `DailyRoutine` | `main.py`: schedule, supervisor, shadow evaluations and their budget, the outcomes follower and its script | |
| `OrderLifecycle` | abstract: what the account and the orders table promise of an order; `LiveOrders` refines it | |
| `DecisionLifecycle` | abstract: what the shadow tables promise of a decision; `DailyRoutine` refines it | |
| `Signals`, `Tiers`, `Policy`, `Metrics` | pure: both setups and gates; escalation and merge; the policy; an outcome from bars | |
| `Evaluation` | one evaluation from the bar to its outcome | the four above |
| `SchwabAuth`, `ChainStore` | the token file; the option-chain tables and their readers | |
| `Collector` | `scripts/collector.py`, `fetch_option_chain.py`, the pull of bars | `ChainStore`, `SchwabAuth` |
| `AlertLevels`, `MarketWatch` | the state machine of a level; watcher and alerter | `MarketWatch` extends `AlertLevels` |
| `PagedFetch` | one download, each client a record of its choices | |
| `NewsPipelines`, `NewsHistory` | the two live news sources; the replay's news and metadata files | `PagedFetch` |
| `MC*` | constants for TLC; `MCReplay` and `MCHistory` put modules side by side | the module they name |
| `*_proofs` | theorems | the module they name; `Replay_proofs` also the contexts, the cache and the report; `DailyRoutine_proofs` also `Evaluation`; `Collector_proofs` also `MarketWatch`; `Outside_proofs` is about `StreamLock` and `NewsHistory` |
| `Sums` | lemmas on induction, finite sums and counting, for the proof modules | |

In several modules an operator marked "mutant" stands before the definition it would
replace: the plausible bug that makes a property of section 3 fail. It is no part of
the specification.

### Brokerage (external)

An order is an entry together with the lot it becomes once filled, and its exit
legs. `POST /v2/orders` is `Accept`, `DELETE /v2/orders` is `CancelOrders`,
`DELETE /v2/positions/{symbol}` is `Liquidate`; fills, firing exit legs, the delayed
release of shares and the expiry of day orders are steps of the broker. The broker
refuses an entry that opposes a working order or position of the same symbol.
All shares are worth one price unit, so that values are numbers of shares.

### LiveOrders

`entryPc` is the program counter of the one coroutine that may be placing an entry
(bars are awaited one after the other on the websocket's read loop), `routinePc`
that of `_run_flatten`. Each HTTP call is one action, so everything else may happen
between any two of them:

| action | code |
|---|---|
| `Signal` | `_on_5min_bar`, `_evaluate_and_execute`: an actionable decision |
| `ReadPositions` | `get_open_positions` and the no-pyramiding check |
| `GetEquityAndValidate` | `get_account_equity`, sizing, `validate_order` |
| `SubmitRaises`, `SubmitAccepted`, `SubmitRefused` | `submit_bracket_order` |
| `LogResult` | `_log_order_result`, whose INSERT nothing guards: it may raise |
| `WakeForFlatten`, `ReadBeforeFlatten` | `_daily_routine_loop`, `_run_flatten` |
| `CancelAllOrders`, `WaitForRelease`, `ListPositions`, `ClosePosition`, `AllGathered` | `close_all_positions` and its helpers |
| `Restart`, `Tick`, `Broker` | a crash, the clock, the account's own steps |

History variables (`view`, `trail`, `mustClose`, `blind`) record what each decision
was based on; no action's guard reads them.

`OrderLifecycle` is what all of this promises of an order: accepted while no earlier row
is owed, never changed in its terms, resting, then a lot, then over, never back; one row, never rewritten, and a mishap
of its own for each row that does not show it as submitted. `BookOf` is the refinement
mapping: the account's statuses become lives, and where the coroutine is tells whether a row is owed, written
or lost.

### BarFeed

Per symbol: `buffers` and `window_start` of `BarAggregator`, `bars` and
`premarket_bars` of `SymbolState`, and `premarket_ctx`. `Receive` is one bar from the
stream with everything it causes: `on_minute_bar` opens, extends or rolls over a window,
or drops the bar as late; a window that rolls over is aggregated, stored
(`StoreRow`) and perhaps evaluated (`Evaluate`), all inside one awaited callback. Bars
may be late, missing, or delayed by up to `MaxDelay` minutes. `RunBaselineBackfill` and
`ComputePremarketContexts` are the two steps of `_daily_routine_loop` that fill the
context, `Restart` loses all of it. `received` and `decisions` are history.

### TickStore

A row is its number of arrival and its kind. `Receive` is a stream callback with
`_put` (a full queue drops), `Take` and `FlushTick` an iteration of the writer, `Flush`
the whole of `_flush`, which has no await: it commits, or an SQLite error stops it at a
row of a table, at the ledger row or at the commit, and SQLite keeps or rolls back the
open transaction. `Stop`, `PutSentinel`, `WaitForWriter`, `Close` are
`FeedDaemon.stop` and `TickStore.close` up to the verdict that `run_feed_daemon`
prints; `Kill` is the end of the process anywhere.

### StreamLock

Each await of `AlpacaMarketStream.run` is a step of its own (`Connect`, `Authenticate`,
`Subscribe`, `Reconnect`), with a lost connection, a stop or a kill possible between any
two. `Daemons` take the lock file (`Acquire`), the platform of `main.py` does not
(`RunUnlocked`). The create of the file, the write of the pid after it and the deletion
(`Acquire`, `Unlink`) may fail too; `abandoned`, a history variable, tells that the file's
owner was killed or failed to write or to delete it. Alpaca holds at most one session of the account and may notice late
that a client is gone (`SessionEnds`).

### Portfolio, Replay

`Portfolio` is pure: each method of `SimulatedPortfolio` is an operator from a portfolio
to the portfolio after the call. Long and short positions share one formula through
`signed_qty`. Money is a whole number of price units, chosen so that slippage and stop
distance are exact; `record_exit` takes the tickers of one call site together.

`Replay` is `run_replay` as a program counter over a day:

| `pc` | action | code |
|---|---|---|
| prepare | `PrepareDay`, `SkipDay` | `build_day_state`, or an exception in it |
| evaluate | `EvaluateTick`, `SkipDay` | one tick of `run_day_ticks`, or an exception in it |
| walk | `ApplyBar`, `ApplyOneDecision`, `flatten_at_eod` | `apply_day_to_portfolio` |
| persist | `PersistDay` | `write_day_results`: one transaction |
| complete | `complete_run` | the run is marked complete |
| any | `Abort` | any other error, or a kill |

What the tiers answer, which tickers have a catalyst and what the bars of a day look like
are inputs. `validate_order` and `size_from_risk` are those of `Risk`, shared with the live
path. The database holds decisions in their order and fills and rejections as sets; the
portfolio keeps the closed positions of all days, as in the code.

### ReplayReport

`replay` is the run under way: its day, what the three passes have decided of it, and
`budget`, its `T3Budget`. `LabelSlot` is one turn of `run_day_t3_ticks`: not sampled, over
the cap, or called and paid, a failing call too. `write_day_results` writes the rows
of the three sources and a point of the equity curve in one transaction; the profit of a
day's fills is an input, for `Replay` models where it comes from. Below the actions the
sections of the report are operators, each a query of the database as the code writes it,
with or without a condition on the run.

### ReplayContexts, DecisionCache

`ReplayContexts` chooses the minutes with bars and the articles of a short calendar and
takes, at each tick, the slices `build_tick_context` and `run_day_base_ticks` take; of SPY a context
holds the minutes of its bars (`MinutesOf`), not their labels.
`DecisionCache` lets two runs go over the same days at once: a context is known by its
day, tick and the decisions before it, a file name is bound to the file of the run that
opened it, as a file system does.

### DailyRoutine, DecisionLifecycle

The loop reads the clock (`Wake`), then makes its steps one by one (`StepSucceeds`,
`StepRaises`); during the steps of `SlowSteps` time, evaluations and crashes go on. An
evaluation is three steps, with the two awaited calls between them; `Backfill` is the
follower or the script by hand, whose reading and writing are apart. `DecisionLifecycle`
is the abstract promise: unlogged, logged or priced, attributed, in this order and once;
`LifecycleKept` is the refinement `Lifecycle!Spec` under the mapping `stage`.

### Evaluation and its pure modules

A frame holds what the code compares (distances in per mille, counts, sides), so that the
mirror image of a market is an operator. `Tiers` has the gates of the escalation, every
error of a client and the merge; `Policy` the gates of `decide` in their order; `Metrics`
the outcome of a decision from a list of minute bars. The whole day is downloaded, so the list
also has bars from before the decision, which `Relevant` leaves out. Stops are in hundredths and
targets in hundredths of those, so that the demanded ratio of reward to risk is exact.

### Collector, ChainStore, SchwabAuth

The clock moves by slots of a day that are longer than a pass. A pass is a program
counter over bars, chains and dashboard; `state` is what the process believes and `file`
what a restart finds; each save may fail, also that of an error (`save`, `error`). A row of a
chain keeps the close its open interest belongs to and the slot it was fetched in, which is what
the readers' claims are about. A pull of bars asks for windows of a day, symbol after symbol;
`got` is the set of those that answered all there was, and each other one costs a fault, whether it
raised or answered with nothing. The first window begins at the minute of the pull, so the
slot that minute falls into `BarDays` days ago is not counted as pulled (`Pulled`).

### AlertLevels, MarketWatch

A snapshot is where the book is relative to the level, and the day's volume: wholly above or
below, or around it with its middle on either side ("over", "under"), which only the baseline
looks at. The watcher polls, and its request may fail; the alerter reads on its own clock, may miss
a snapshot and may find the file unreadable, which skips the stall check of that pass. `series` is what a later replay of the same level is given.

### PagedFetch, NewsPipelines, NewsHistory

A client of `PagedFetch` is a record: how often it asks again and for which answers, what
it does with a page that fails, whether it follows the next page and how far, what it
returns in each case. `Begin`, `Page` and `NoPage` interpret the record, so that each
function of the code that downloads is a short definition. `NewsPipelines` uses it for the
poller, whose articles may be listed later than they are stamped; `NewsHistory` for the
window of a ticker's news, with its coverage, and for the metadata file. A file that cannot be read
is taken for one that is not there, and a write may fail; `dropped` records whose rows a call that
could not read the file of metadata left out. Each of these parts
has a server of its own and shares nothing with the others, so a behaviour of the histories
(`HistorySpec`) is one part's.

## 3. Runs

### Passing runs

`live_orders` (two interchangeable tickers, two orders of up to two shares, position
cap 40 % and total cap 60 % of an equity of five, so that two full-size orders breach
the total cap and one does not; two close attempts; one failing call or write, one crash, one
day) checks the type invariant and

- `FlattenAccounted`: when the day's flatten is marked done, a lot it found is gone,
  being liquidated, or on record as an error;
- `ExposureWithinCap`: entries decided while nothing rested and no read failed keep
  the account within the total cap, unfilled entries included;
- `PyramidOnlyOverUnfilled`: two orders on a ticker only if the older was unfilled, or
  the read failed, when the younger was decided;
- `OrdersKeepTheirLife`: the refinement of `OrderLifecycle`. A row is written for the order
  whose answer it is, once and before the next order is sent; what was cancelled or sold never comes back;
  each row that does not show its order as submitted has cost a failing call, a failing write of the
  row or a crash of its own.

Two orders and two tickers are enough for the cases these properties tell apart: two
entries of one ticker or of two, one of them resting, filled, closing or protected while
the other is decided on. One failure and one crash make each "unless a call failed"
clause matter.

`live_flatten` (one ticker, two days) checks the liveness properties
`FlattenReturnsEventually` and `FlattenSells` under `Fairness`:
a coroutine whose call has returned is resumed by the event loop, the broker releases
the shares of cancelled legs and fills liquidations, and time passes. Starting a flatten
and emitting a signal are not assumed fair.

`bar_feed` makes two studies of one symbol, told apart by the initial state. One is a day of
eight minutes with windows of two (one before the open, two in the session, the second of
which is evaluated, one after the close) until the second day's open, at one price; the
other a session at two prices. A bar may be late once and delayed by up to three minutes, more
than a window, so that it may come after its window has been closed; there is room for
one session row. Checked are `ClosedBeforeEvaluated` (no decision looks ahead or is
taken twice), `VolumeWasReceived` (a context claims no volume the stream did not
deliver before the open) and `RowsMatchReceived` (each five-minute row equals the
reference aggregate of the minute bars received for its window). Symbols share nothing
but the clock, so one is enough; two days show what is carried over.

`tick_store` (two tables, up to four rows, a queue of two, batches of three, two SQLite
errors, a slow disk) checks

- `OnlyTrueOK`: "OK" is printed only over a complete corpus;
- `OnlyTailLost`: a kill loses only the newest rows;
- `LedgerTellsDrops`: the ledger of a closed corpus knows of every drop;
- `StopEnds`: stopping ends although the sentinel needs a slot in the queue. The fairness
  is that of the event loop: the writer and the stopping coroutine run when they can.
  A received row and an SQLite error are not assumed.

The queue is smaller than a batch and a batch smaller than the stream, so the queue
fills, a batch spans both tables, and a second flush follows a failed one.

`stream_lock` (two daemons, one platform, four starts, two faults: lost connections or failing
calls on the lock file) checks

- `LockCoversConnection`: a daemon that may be connected owns the lock file, so no two
  are at the account, whatever starts, refusals, stops and kills surround it;
- `StreamRecovers`: a daemon with the lock reaches its subscription after any loss,
  unless it ends or a process outside the lock has the account. Fair are the steps of a
  process's event loop and Alpaca's discovery that a client is gone; starts, stops,
  kills and losses are not.

Four starts let each of the two daemons be started twice, as after a kill.

`replay` has two parts that share no state. The walk (two tickers, two days of three
ticks, both values of `fill_at`, one candidate a tick, three evaluations in the run)
checks

- `CashAddsUp`: cash and the cost of what is held add up to the starting cash and the
  realized profit, through entries, stops, flips and flattens of both sides, and the caps
  alone keep the cash from going negative, unless a short was bought back at more than
  double its price;
- `FlatBetweenDays`: nothing is held outside the day it was entered on;
- `NoHindsight`: a fill comes no earlier than its decision, a stop no earlier than the
  bar after it, and only at a bar that reached it;
- `LedgerMatchesBook`: fills in the database are one for one the closed positions of the
  days that are over, linked to a decision of the same day, ticker and side; no decision
  is filled and rejected; a skipped day has no row.

The series of bars contain a calm day, a drop through the stop of a long, a rise through
that of a short, a gap so far past one that buying it back costs more than there is, and a
half day without a last bar. Caps of 60 % and 90 % let two
positions be open at once and refuse the one that would breach the total. Three
evaluations give an entry, a flip of it and an entry beside it, or a day with two and a
second with one, which is what the restart of the ids needs.

The database (one slot a day, two days in all: a run over a bull day and a bear day, or two
runs over one day; a cap that pays for one label) checks

- `ReportTellsTheRun`: the calls, the skipped and the unsampled slots of a completed run's
  summary are those its rows show and never exceed the cap; the tables of a report agree
  with each other, portfolio by portfolio; and what a section takes from another run can only
  be a decision of the base strategy on the same slot.

Two runs over one day are what it takes to mix them; a run of two days is what it takes for
a budget to be used up, for regimes to differ and for a day to be skipped. Deadlock is
checked in this run: a replay always returns or dies.

`daily_routine` (two trading days and what follows, a budget of one call, two
evaluations, one mishap among failing steps, failing inserts, crashes and scripts run by
hand, two slow steps) checks

- `BudgetKept`: the calls of a day never exceed the cap, once for each time the budget was
  renewed on that day;
- `CallsAccounted`: each call of the second tier is told by one row, unless the process or
  the stream died or the insert failed;
- `OutcomesSeeTheSession`: the follower attributes a decision only after its session;
- `FlattenOnTime`: a weekday's flatten begins in its window, unless the process was down
  or an earlier step held the loop up;
- `LifecycleKept`: the refinement of `DecisionLifecycle`.

The budget of one call is used up by the first evaluation, so the second meets it spent,
reset or lost in a restart.

`decisions` (some twenty thousand frames, sixteen situations, six answers, six analyses, tables
of buckets on both sides of each threshold; three minute bars out of twenty, some from before
the decision) checks

- `MirrorImage`: the two sides of every setup and gate, written out twice in the code,
  give mirrored decisions;
- `TradesOnlyAsFirstAdvised`: an account without a position trades only in the
  direction the first tier advised;
- `PolicyOnlyTightens`: with worse liquidity or expectancy the size never grows, and the
  demanded ratio of reward to risk holds;
- `VerdictStands`: what an outcome says from some bars stands when there are more.

`collectors` (Friday, Saturday, Monday; two symbols, two contracts; a range of strikes that
grows and shrinks; a token that ages out; one fault, one crash) checks

- `HolesAreExplained`: a missing chain has a cause other than the collector's own marks;
- `SnapshotsMeanWhatTheySay`: a difference of open interest is between the closes it
  names, and a volume called final is;
- `TapeIsWhole`: a finished slot without its bars lies within what the passes since could not
  reach: each of them failed, began too late to ask for the whole of the slot, or was
  answered nothing for that symbol and slot, any set of windows being answered so at the price of
  a fault each;
- `OkMeansAccepted`: a dated token called usable is accepted by Schwab.

`alerts` (five polls around one level, two snapshots to confirm, one fault; a book around the level
has its middle below it, the other side being the mirror image) checks
`BreaksFollowTheTape` (each break, live or replayed, has its crossing, its confirmation
and its volume in the snapshots) and, fair only in the alerter's own loop,
`StallIsTold` (a dead watcher is reported). Five polls hold at most one break that the
cooldown delays; the theorem `BreaksAreRight` has no such bound.

`history` looks at seven parts that share no state, one per behaviour, and checks

- `DownloadsAreWhole`: what a download returns is what the server listed for the window, once
  each, or the part its client's choices (a cap of pages, one page, an error taken for an
  answer) allow;
- `HistoriesAreKept`: no article listed in time is passed over by the poller, scores are
  stored once, the news file answers only for what it covers, the metadata file loses no
  row but to a call that ran beside its own or could not read the file;
- `ContextsArePast`: a replayed decision knows nothing that comes after its tick but the minute, and
  of SPY the bar of five minutes, that begin with it, and the few things the property names; it
  misses nothing of SPY's session so far and no news it looks back on. The baseline of SPY's volume
  and the scores of articles are left out: section 3 lists what they know too early;
- `RerunsAgree`: a decision was made for exactly its context, whatever two runs do to the
  files at once, and a second run decides like the first and pays nothing.

Six rows in pages of two give a full page, a short and an empty one, and one cut off by a
cap of two; a listing may grow during the download. Two days of eight minutes hold a
session with bars of both lengths, a pre-market and articles on both sides of the lag and the
lookback. Two runs over two days of two ticks meet every order of write and rename
on one name; which of them starts first is a symmetry. One fault among skipped
days, failed calls and writes and kills.

`CHECK_DEADLOCK FALSE` is set where every bounded history ends or a stopped
process rests: in all runs but `replay` and `collectors`.

### A run that shows a disagreement

`flatten_reads_error_as_flat` checks one sentence of the code's comments, and TLC finds
the behaviour that contradicts it (`FlattenSeesErrors`; `PROJECT.json` "findings" quotes both
sides): a failed read of the positions ends the day's flatten.

Further disagreements between code and comments, docs or tests were met while modelling.
Where a passing run's property has a clause for one of them, it is named.

Order path and schedule:

- unfilled entries are not counted against the total cap (`strategy/risk.py:128`), against
  `docs/NARRATIVE_OVERVIEW.md:9` (`ExposureWithinCap` asks that nothing rested);
- a second signal on a ticker whose first entry still rests is submitted too, against
  "one entry per ticker per day" (`main.py:1073`; `PyramidOnlyOverUnfilled`);
- a flatten that finds no position cancels no orders, against "cancel all orders + close
  all positions" (`main.py:1724`), so an entry may fill after it and be held overnight;
- errors of `close_all_positions` do not reach the handler that promises a retry
  (`main.py:754`), and an earlier step of the iteration can hold the flatten up (`FlattenOnTime`);
- an order accepted by the broker whose answer is lost is recorded as failed
  (`alpaca_orders.py:417`), while the broker works it (`OrdersKeepTheirLife`);
- the INSERT of an order's row is not guarded (`main.py:1688`): a locked database leaves an accepted
  order without one (the same property counts it as a fault of its own);
- the comment of the follower (`main.py:861`) speaks of rows it would compute again; a row once
  written stays, and one written too early stays incomplete (`OutcomesSeeTheSession`);
- the daily budget of the second tier is one per process and reset, not per day
  (`BudgetKept` counts the renewals).

Bars and ticks:

- the context is computed at 09:30 (`main.py:721`), when the bar of 09:30 to 09:35 cannot be in
  the frame yet, so its open is the close of an early pre-market bar, against "Must include
  the 9:30 AM bar (the open)" (`analysis/indicators.py:283`);
- pre-market rows of earlier days count into a later day's volume (`main.py:1058`), against
  `analysis/indicators.py:238` (`VolumeWasReceived` compares with all that was received);
- the open of a context on a process's second day may be that of a row of the first
  (`analysis/indicators.py:335`), and until the day's backfill succeeds signals are
  evaluated with the context of the day before (`main.py:1107`);
- the last window of a session is evaluated after the close, or the next morning
  (`main.py:1061`);
- rows executed before an error that rolls back are lost uncounted
  (`data/tick_store.py:322`), and a daemon that runs over midnight keeps writing the file of its
  first day (`tick_store.py:154`), against "one database per session date";
- a deletion of the lock file that fails is swallowed (`data/alpaca_market_data.py:148`), and a write
  of the pid that fails leaves the new file behind (`:137`): the next start is refused although nothing
  was killed, and until someone deletes the file (`StaleOnlyAfterFailure`);
- a daemon refused the lock ends with "OK" and exit status 0 (`data/feed_daemon.py:175`),
  against `docs/FEED_SPEC_V4.md:416`.

Evaluation:

- the live path passes no catalyst flags, and the bucket key it asks for is never one
  a table can hold ("open_drive" or "unknown", `main.py:1333`), so the first tier is
  never escalated and every bucket is empty;
- once the budget is used up, a decision whose gates did not fire is labelled
  `t1_only_budget_exhausted` (`strategy/llm/signal_engine.py:130`);
- exits and trims of a short map to "Sell"; stops and targets are touched by bars
  after hours.

Collectors, watcher, alerter:

- a chain that cannot be stored is a warning and exit code 0
  (`scripts/fetch_option_chain.py:102`), so the collector marks the day, against "FAIL LOUD"
  (`HolesAreExplained` has the clause);
- a second fetch of a day keeps rows of strikes it did not see, against "OVERWRITES"
  (`collector.py:44`), and one stamp of the day calls all of them final
  (`SnapshotsMeanWhatTheySay` has the clause); a change of open interest is called that of
  the last session also over a gap;
- an empty answer for one window is no error as long as another window of the pull has bars
  (`scripts/backfill_bars.py:84`, `:117`), also for a single symbol, and is not asked for again once it is
  older than the two days of a pull; nor are Friday's last minutes after hours (`TapeIsWhole`);
- a token file without the time of its login is aged by its modification time
  (`data/schwab_auth.py:217`), which every renewal resets, so it is called usable until Schwab
  refuses it: `OkMeansAccepted` speaks only of files that carry the time;
- the pace of a break is that since the crossing, against "RATE over a fixed window"
  (`scripts/alert.py:29`), one confirmation needs two snapshots, and a total without volume
  ends the alerter.

Histories and replay:

- a replay evaluates all ticks of a day before it applies the first decision, and every
  day starts flat (`FlatBetweenDays`), so no ticker is ever held when it is evaluated, against
  "Always re-evaluate held positions" (`data/replay/pre_filter.py:142`);
- sections 4 and 7 of the report join the rows of the base strategy without asking for
  their run (`sim/comparison.py:598`, `:1195`), against "Reads one replay run's rows"
  (`sim/comparison.py:3`): with two runs in the database divergences of the one are paired
  with decisions of the other (last clause of `ReportTellsTheRun`). Section 5d
  joins by run;
- "T1 failures excluded" of section 5d counts failures that had no label either; the
  note of section 2 that tiers are not persisted is out of date; section 7 orders by profit
  where its comment says confidence;
- a call of tier 3 is charged before it is made (`data/replay/tick_loop.py:667`), against
  "Called after a successful T3 invocation" (`data/replay/t3_budget.py:64`);
- a bar is labelled by its start, so "bars on tick_et's date at or before tick_et"
  (`data/replay/tick_context.py:161`) include the bar of SPY that begins with the tick: the
  "session change so far" (`:23`) and the volume ratio use its close and volume of five minutes later. A
  ticker's own last bar is of the minute behind the tick, and in the base pass of up to five;
- a replayed context holds the VIX close of its own day and, where nothing was traded since the
  open, the first price to come (`ContextsArePast` names both). The baseline of SPY's volume is taken
  from the end of the run, at every tick, and an article is scored whenever it was; the property
  says nothing of these two;
- an article listed late, behind the cursor, is lost by the poller; the news file of a
  window is overwritten by that of another, counts an empty answer to a failed request as
  covered, and may be written before its last day is over;
- two loads of metadata beside each other lose a row, and a load that cannot read or parse the
  file, against "we'd rather re-fetch a few rows" (`data/replay/ticker_metadata.py:265`), writes
  it anew with its own row only (`:543`), so that all others are lost; two processes share a temporary
  name, against "a partial write never leaves a half-truncated file"
  (`data/replay_cache.py`), though no reader takes half a file for a decision (`RerunsAgree`);
- a day whose grouped bars could not be fetched reads as a holiday.

## 4. Proofs

Every theorem holds for all values of the constants that satisfy the named assumptions
of the module: any watchlist, calendar, queue, batch, number of failures, crashes, days
or processes. All are proved along one pattern: an inductive invariant is established
by `Init` and kept by each action, with one lemma per group of actions, and the property
follows from it.

The assumptions are what the code's types and tables give. `StoreAssumption`: days are
numbered from 1 and the contracts of a chain are finitely many. `CollectorAssumption`: each
fetch sees at least one strike in range, and the closed days are among the days, weekends
among them. `ContextAssumption`: the session lies inside the day and a bar has a length.
`CacheAssumption`: what stands for "no answer" is no answer, and the Hold made of a failed call is
told apart from what the model answers. `ReportAssumption`: the slots of a day are finitely many, and "no fill" is
neither an amount nor a verdict. `FetchAssumption`: a server lists finitely many keys, at least one, and pages,
caps and retries are at least 1. `PipelinesAssumption`: the queue, a batch and the loops are at least
1. `LevelAssumption` and `WatchAssumption`: thresholds, trades and periods are natural numbers, and `None` is neither a
number nor a side nor a vendor. `HistoryAssumption`: a day has slots. `PortfolioAssumption`: the slippage is at most 10000 basis points, and "no position"
is not a position. `SignalsAssumption`: what stands for `None` is none of the values the code
computes. `PolicyAssumption`: the parameters are numbers, the counts and the ratio positive.
`EvaluationAssumption` and `MetricsAssumption`: frames, situations, raw answers, buckets, bars and
horizons have the fields and types of the code's classes, with any values. TLC evaluates each of them in a run. One theorem has a hypothesis of its
own, `RoomForSlippage`, named where it is used.

`Sums`

What the other modules cite of sums. `SumFunctionOnSet` of the community modules is a
recursive function on subsets that takes one member away at a time; `TableExists` and
`SumIsTotal` give it a table on the subsets of the whole domain, and from there come `SumStep`,
`SumChange`, `SumAtMost`, `SumSplit`, `SumByParts` (a sum of sums over a partition), `OntoSize`
and `DisjointSize` for counting, and `FiniteMax`, `RankGrows` and `FirstMembers` for the order in a
finite set. Theorems of the library that have a predicate as a parameter cannot be used here, so induction is over sets: `LeastNatural`, `EveryNatural` and `EverySubset`
are instances of the library's well-founded minimum.

`LiveOrders_proofs`

- `TypeCorrect`: `Spec => []TypeOK`;
- `FlattenIsAccounted`: `Spec => []FlattenAccounted`. The property is not inductive, since
  it speaks only of the finished flatten. `FlattenInv` adds that while positions
  are being closed each open lot of the list is being tried or in `errors`, that listed
  lots never become orders again, and how the flags relate to the day. Every step of the
  broker, the clock and the order path is `Settling` (no lot that left the state "open"
  returns to it); the cancel-all is not, but it precedes the list;
- `FlattensOnceADay`: the action property, from the same invariant;
- `PyramidsOnlyOverUnfilled`: from `EntryInv`, which adds that between the read and the
  submission each order working on the wanted ticker was seen resting. Every step but
  an accepted submission is `Fading` (no order starts to work);
- `ExposureIsCapped`: `Spec => []ExposureWithinCap`. `CapInv` says of every moment between the
  read and the submission what is working now, or will be once this order is accepted, in
  shares (`QtyOf`); `ExposureIsQty` says that the exposure `validate_order` computes ticker by
  ticker is that number of shares, because all lots of a ticker are on one side;
- `MisreportsCostFailures`: `Spec => []MisreportedOnlyByFailure`. The count is not inductive: an
  order accepted whose row is not written yet may still become misreported. `ReportInv` counts
  those (`Unanswered`) too;
- `OrdersRefineLifecycle`: `Spec => OrdersKeepTheirLife`. `StepKinds` sorts the steps: an accepted
  submission maps to `Accept`, a written row to `Record` (a refused order has none, and the step is a stutter), a crash or a write that
  raises to `Lose`,
  every other step, which moves orders `Forward` and lets the rows stand, to `Trade`. Types are
  not enough: that either leaves the order it interrupts without a row takes `RowInv`, by which no row is written before
  its order is accepted or while it is owed.

`BarFeed_proofs`

- `TypeCorrect`, with the bound on a symbol's session rows;
- `NoLookAhead`: `Spec => []ClosedBeforeEvaluated`. `FeedInv` adds that the open window has
  begun and lies after every window evaluated so far: a window is evaluated when a
  bar of a later one, which is over, has arrived.
- `RowsAreTheTape`: `Spec => []RowsMatchReceived`. `Book` relates the state of a symbol to the
  history of its bars: the buffer holds the accepted positions of the youngest window, with
  their first and last price and their extremes; the rows are the reference bars of the closed windows
  owed, in order (`RowsOf`), and each row is followed by the rows of all younger windows
  (`Ranked`), which is what a roll of the full list needs. `BarOpens`, `BarExtends` and
  `BarIsLate` say what one more bar does to the reference, and that a window that is closed stays
  as it was;
- `ContextVolume`: `Spec => []VolumeWasReceived`. The volume is compared through an injection of the
  shares of the pre-market rows into the delivered minutes. `PremarketWindow` shows that a
  window outside the session ends before the open or begins after the close, which
  needs the open and the length of a day to be multiples of the window.

`TickStore_proofs`

- `TypeCorrect`, with the bound on the queue;
- `VerdictIsSound`, `VerdictIsComplete`, `PrefixIsKept`, `LedgerIsComplete`: the four
  invariants above, from `StoreInv`: the queue rises and holds the sentinel only at its
  end, what is queued is younger than what is batched, and that younger than what is
  executed or committed; the count of written rows never exceeds the committed ones;
  while nothing failed or overflowed every row is committed or on its way; and drops
  the ledger does not know of have rows before them that are still to be flushed. The
  lemmas on sequences come first;
- `OrderIsKept`: the action property `TablesInOrder`, from the same order of places.

`Outside_proofs`

- `TypeCorrect`, of the stream and its lock;
- `LockCovers` and `StaleLockMeansFailure`, from `LockInv`: `StaleOnlyAfterFailure` (a file whose
  owner is down was left by a kill or by a failed write or deletion of the file) speaks of an
  owner that is down; `StaleInv` extends it to every owner outside the loop, for a daemon that
  left the file may have been started again, and be refused by its own stale file;
- `DownloadsHandOverTheListing`: `FetchSpec => []DownloadsAreWhole`, for each of the clients, any
  listing, size of a page, cap and number of retries, while the server lists further rows. `FetchInv`
  says of the download under way that what it has got is the listing up to the key it is behind
  (`Follows`), that every page but the last was full (`Underway`), and how it may have ended
  (`Ended`). `PageIs` is the arithmetic of one page, `OneMorePage` of appending it; a client without a
  cap never ends for its pages, since it has room for more keys than can be listed
  (`NoMoreThanListed`);
- `HistoriesKept`: `HistorySpec => []HistoriesAreKept`, one invariant per part. `PollInv`: between the
  cursor and the end of the page in flight all that was listed is on the page or was listed too
  late. `ShelfInv`: a file, like what is served of it, holds all that was listed of its window
  when its download began. `MetadataInv`: what a call under way has read of the file, if it
  could read it, holds the rows that the others' finished calls wrote, but for the exposed and the
  dropped ones (`HoldsDone`). `StreamInv`: the queue rises,
  ends with the newest headline and holds none more than once for each running loop (`Spread`), so
  that one pushed out of a full queue has `QueueCap` divided by the loops newer ones behind it
  (`SpreadOut`, by induction along the queue).

`Replay_proofs`

- `ReplayFlat`: `Spec => []FlatBetweenDays`;
- `ReplayNoHindsight`: `Spec => []NoHindsight`. Both follow from `IInv` (`ReplayInvariant`),
  which gives for each `pc` what the portfolio looks like: flat outside the walk; during
  it every open position is of today and was filled at the tick its decision, which was
  taken at a tick already walked, calls for; and each position closed today satisfies the
  property on its own (`Sound`). Positions closed on earlier days are told apart by their
  day, because decision ids and bars are those of today. Lemmas on `record_entry` and `record_exit` come first.
  Nothing is assumed of sizes, prices or caps;
- `ReplayBooksBalance`: `Spec => []BooksBalance`, for every order of entries, stops, flips and
  flattens. `Money` says that cash and `Cost`, the signed cost of what is held, add up to the
  starting cash and the realized profit; `ExitMoney` and `EntryMoney` say what one call does to
  the sums;
- `ReplayCashAddsUp`: `RoomForSlippage => (Spec => []CashAddsUp)`. `Covered` adds that what is
  staked, long or short, is covered by the equity. `validate_order` approves a purchase at
  its reference price and the fill costs up to `SlippageBps` more, so the cap has to leave room
  for that: `MaxTotalExposurePct` percent of the equity, with the slippage on top, may not
  exceed it. The defaults do (90 percent in `strategy/risk.py`, 5 basis points in
  `data/replay/config.py`), a cap of 100 percent would not. That every price is at least a unit
  comes from `ReplayAssumption`, and that a stop is hit at a price from the bar that hit it;
- `ReplayLedgerMatches`: `Spec => []LedgerMatchesBook`. `LedgerInv` adds to the property what
  makes it inductive: while a day is walked, each position of the day, open or closed, is
  booked on an applied decision of its own that asked for its side, and no rejection is
  about that decision (`Today`); and every row id in the database is one of a row, so that the
  ids of a day, which start after the last row, are new. `DayInv`, which both use, gives
  the bars and decisions of the day in hand their types; for the list of candidates this is
  an induction over `TickerOrder` (`CandidatesAreTickers`);
- `ContextsKnowThePast`: `ContextsSpec => []ContextsArePast`, for every length of a day and of a
  bar, lookback, lag and age. `ContextInv` says that a stored bar is the bar of the minutes the
  history has of it, and that the contexts built so far were built from those (`FeedsHold`). The
  lemmas `Calendar`, `DaysBetween`, `BarOfMinute` and `BeforeTheOpen` do the arithmetic of days and windows,
  `BarIsSpys`, with `Quotient`, finds the bar of SPY that a minute of a session is in,
  `NewsIsComplete` shows that no article of the lookback is missing and `BasisIsNear` that the
  base pass takes bars of up to one bar's length later and no score that is;
- `RerunsPayNothing`: `CacheSpec => []RerunsAgree`, for any number of runs side by side, any outcomes
  and faults. A context holds the decisions before it, so two runs agree on a tick only if they
  agree on those. `CacheInv` says that each decision of a run hangs on its predecessors (`Chained`), that what a
  file holds was decided on its key (`Stored`), and that a decision that is stored will be
  read back (`AsKnown`, `KnownChained`);
- `ReportsTellTheRun`: `ReportSpec => []ReportTellsTheRun`, for any number of runs, days and slots and a
  death at any point. `ReportInv` says where the last point of each portfolio stands (`Even`), that the
  rows of the day in hand are still to come (`InHand`), what the calls counted by the budget have become
  (`Counted`, `Summed`) and on which rows a label stands (`LabelsStand`). `TheReportTells` reads the tables of a report off it;
  the counts of actions, cells and regimes are sums over a partition (`CountByKeys`, `RegimesAddUp`).

`DailyRoutine_proofs`

- `TypeCorrect`, from `RoutineInvariant`: `LoopInv` (what an iteration read is not in the
  future, and the step it awaits was due then), `ShadowInv` and `FollowInv` (the follower
  runs only inside its step, and holds only priced decisions);
- `BudgetIsKept`: `Spec => []BudgetKept`. `BudgetInv` adds that the calls of today are
  covered by what is used now and the renewals before it, so that midnight, a reset and a
  restart may each begin a new count;
- `CallsAreAccounted`: `Spec => []CallsAccounted`. The equation is inductive as it stands; the
  work is in the sum over the days and the count of the rows (`OneRowMore`);
- `FlattenIsOnTime`: `Spec => []FlattenOnTime`. `FlattenInv` tells for every place of the
  loop why today's flatten has begun or is excused; the lemma `NextStepIsDue` says that
  an iteration never passes over a step that is due;
- `OutcomesAreLate`: `Spec => []OutcomesSeeTheSession`;
- `DailyRoutineRefinesLifecycle`: `Spec => LifecycleKept`. A row that is appended maps to
  `Log`, a group of outcomes to `Attribute` (also the empty one), every other step to a
  stutter. `RoutineInv` is needed for the rows to have numbers of `Ids` and for what a
  backfill holds to be priced;
- about `Evaluation`, from `EvaluationInv`, which says of each stage what the input of the policy,
  its decision and the plan of the backfill are: `MirroredMarkets`, by `MirroredDaily`, `MirroredPm`,
  `MirroredGaps`, `MirroredPullback` and `MirroredWalls`, one lemma for each function written out
  in two sides; `FirstTierLeads`, by `AdvisedByFirst` for `evaluate` and the merge;
  `PolicyTightens`, by `SizeShrinks`, since neither a worse bucket nor a flag can raise a rank;
  and the action property `VerdictsStand`, by `TouchStays` (what is first of some bars is
  first of more), `ExtremeGrows` and `CloseStays`. Frames, answers, bucket tables, configuration, horizons and bars are arbitrary.

`Collector_proofs`

- `TypeInvariant`: `Spec => []TypeOK`;
- `NoSilentHoles`: `Spec => []HolesAreExplained`. A hole is explained by what was attempted on
  its day; `HoleInv` adds that a mark, in memory or in the file, stands for an attempt, that
  a day on which a pass ended has had one, and that an attempt counted as done
  has each chain stored or noted as lost, symbol by symbol while a pass is under way;
- `SnapshotsMean`: `Spec => []SnapshotsMeanWhatTheySay`. `SnapInv` says of each session that the last
  fetch saw the latest rows and which close a row belongs to; the lemmas `DiffsRight` and
  `FinalRight` read the readers' claims off it;
- `WholeTape`: `Spec => []TapeIsWhole`, from `TapeInv`: the last pull the state or the file
  remembers was made by a pass. `Pulled` takes in only slots that lie wholly inside the windows
  answered, and what a silent window withheld from a pass is in `empty` for that pass alone, so
  that a later pass within reach has to have closed the gap;
- `UsableMeansAccepted`: `Spec => []OkMeansAccepted`. It follows from the types and `auth_state`
  alone, for every life of a token;
- about `MarketWatch`, `BreaksAreRight`: `WatchSpec => []BreaksFollowTheTape`, from `WatchInv`
  (`WatchInvariant`). The property counts a break over the tape from scratch, while `step_level` keeps
  a few counters. `Follows` says what these are: the snapshots on the other side since the
  baseline or the last break, with no return and no long straddle behind them, are the crossing
  under way (`Crossing`); the level holds the time and total of the first of them, the number of their distinct
  times, and how many straddles the tape ends with. `CrossingGrows` is what one more snapshot does to such a crossing,
  `UndecidedStep`, `BeginStep`, `ConfirmStep`, `BaselineStep` and `SideStep` take the branches of
  `step_level`, `EarnedStep` and `NotEarned` read the break off it. For the replay, the
  invariant says of every prefix of the series, not just the whole, that if the alerter read it at once the
  replay has come to the same level and breaks: the alerter may be behind by the last poll. The file keeps
  a total of zero as no total and the series keeps it as zero; `AlikeStep` shows that a level never tells these apart.
  `RerunExists` is the table of levels of the replay, by induction over the series.

Some of these theorems state properties that no run lists, since the theorem shows
more than a run could: `FlattenOnceADay`, `MisreportedOnlyByFailure`, `StaleOnlyAfterFailure`,
`CleanStopIsOK`, `TablesInOrder` and `BooksBalance` on its own.

What the attempts to prove found:

- `auth_state` and the answers of a download were written as `CASE` with guards that overlap.
  TLC takes the first, the language lets any be taken, and so the theorem about the
  tokens could not be proved; they are chains of `IF` now, in the order of the code's tests;
- "a replay spends only its own cash" held in the run because its prices were mild. A
  short that a gap takes to more than double its price can cost more than there is, and
  nothing in `fill_simulator.py` limits that. `SpendsOwnCash` names the case (`SqueezedShort`), the
  series of the run contain such a gap, and the theorem needs no other excuse;
- sums were recursive operators, out of reach of the provers; they are `SumFunction` of the
  community modules now. `SelectSeq`, `:>` and `@@`, whose definitions the prover does not open,
  became the recursive function `InOrder` and the operators `With` and `Put`; the order of a page is given
  by counting (`PagedFetch`, `InOrder`);
- the replay of a series was a recursive operator too, and only its last answer could be
  spoken of; it is a recursive function now, whose prefixes the invariant needs;
- a context was said to hold news published strictly before its instant. A lag of 0 is
  allowed (`data/replay/config.py`), and then an article of that very minute is in it; the property
  now says what holds for every lag;
- targets were in hundredths, and the demanded ratio of reward to risk held only for stops whose
  product with the ratio is a multiple of 100. The code multiplies floats; the unit of targets
  is finer now, and `PolicyTightens` holds for every ratio;
- an outcome compared the excursions of two lists as soon as the first was not empty, though
  all its bars may lie before the decision; the run has such bars now.

Every invariant and every action property that a run checks is a theorem, as are both refinements.
Model-checked only: liveness, which is out of the prover's reach: `FlattenSells`,
`FlattenReturnsEventually`, `StopEnds`, `StreamRecovers` and `StallIsTold`.

## 5. Plan

Done: the live order path, refining the life of an order; the bar feed, the tick store and the stream's lock; the replay with
its contexts, cache, labels, database and report; the daily schedule with the shadow
evaluations and their budget, refining the life of a decision; signals, tiers, policy and
outcomes as pure operators; the collectors, the watcher and the alerter; downloads and
histories.

Next:

1. an abstract specification of a replay (a book of trades, day by day), with `Replay`
   as its refinement;
2. the journal, and the market tools that read more than one table.

## 6. What is not modelled

In the order path: the rows of rejected orders, the equity refresh of the journal, weekends,
prices (every share is worth one unit), and that exit legs are day orders: a lot carried
into the next session has none. In the bar feed: weekends, volumes other than one share a
minute, and the indicators computed from the rows; `flush_all` is never called by the
program. In the tick store: the row conversions, the skew monitor and the opening of the
file. In the stream: back-off durations, the heartbeat and the contents of a
subscription. In the replay: drawdown and ratios of the report, the schema and its
migration, the second portfolio's walk (it is the same code over other decisions). In the daily
schedule: the contents of the files a step refreshes, and the restarts of the two news
tasks beside those of the bar stream. In the evaluation: the arithmetic of the indicators, prompt texts, version
strings. In the collectors: quotes, the phases of `price_store`, the browser login. In the
alerter: banners and the refresh of its option chain. When Schwab's quote fails for a poll, the
snapshot carries Alpaca's total of the day, a fraction of the consolidated one, and a crossing that
begins with one vendor's total and is confirmed with the other's has a volume that is the
difference of the two (`scripts/alert.py:302`): far too large from Alpaca to Schwab, negative
the other way. The model has such snapshots, and `BreaksAreEarned` says nothing of the crossings that
contain one (`Comparable`): a break may then be reported without the volume, or withheld with it. A
file that stays unreadable forever is never reported as a stall, since such a pass ends before the
check (`scripts/alert.py:476`); `StallIsTold` has each unreadable file become readable again. In the histories: columns, parquet
files, the ranking of the watchlist. Parts listed in `PROJECT.json` with status `not_modelled` give their reason.
