# Formal models of cryptozavr

cryptozavr is an MCP server for crypto market research and paper trading. One
Python process runs an asyncio loop; clients call its tools over MCP; Postgres
(Supabase) holds the persistent state; KuCoin and CoinGecko deliver market data.
This directory holds TLA+ modules that model the parts of that program whose
correctness depends on the order of events, TLC configurations that check them
on small instances, and TLAPS proofs of the properties that matter most.

Paths below are relative to the repository root (`src/` in `PROJECT.json`).

## 1. Inventory

| Part | State it keeps | Operations | Interacts with | Correct when |
|---|---|---|---|---|
| **Position watch** (`application/services/position_watcher.py`, `domain/watch.py`, `mcp/tools/watch.py`, `infrastructure/providers/kucoin_ws.py`) | `WatchState`: status, event buffer, fired milestones, last tick, task, condition | `start`, `stop`, `check`, the task's loop over trades, `wait_for_event`, `check_watch` | the exchange feed; the ledger's terminal callback; long-polling clients; shutdown | each event at most once; no lost wakeup; cursors exact; the end is final and truthful |
| **Paper ledger** (`application/services/paper_ledger_service.py`, `infrastructure/persistence/paper_trade_repo.py`, `mcp/tools/paper.py`, migration 090) | rows of `paper_trades`; in-flight requests; the bankroll override | open, close/cancel, terminal handler, resume at start-up, reset | position watch, Postgres, other server processes | a trade is decided once; a running trade is watched; a hit decides its trade |
| **Server start-up and shutdown** (`mcp/bootstrap.py`) | which services run | build, resume, serve, `_shutdown` | everything | resume ends; no task survives |
| **Venue health** (`providers/state/`, `health_monitor.py`) | state machine per venue, counters, cool-down, time of last probe | probe outcomes, `require_operational`, `mark_down` | every fetch asks it; a probe sees only whether the markets could be loaded | it degrades and heals by streaks of probes, whatever requests do meanwhile |
| **Market data chain** (`*_service.py`, `providers/chain/`) | none of its own; writes back to Supabase | health check, symbol check, Supabase cache, provider fetch | venue state, gateway, provider stack | an answer is as recent as its source promises; nothing is fetched from a venue that is not operational; a lost write costs no answer |
| **Provider stack** (`providers/decorators/`, `rate_limiters.py`, `factory.py`) | TTL cache, token bucket, metrics | cache / rate limit / retry around a provider call | venue APIs; cache invalidator | tokens never above the rate; an L0 answer is younger than the ttl; every call ends |
| **Background services** (`cache_invalidator.py`, `ticker_sync_worker.py`, `supabase/realtime.py`) | debounce task, subscriptions | invalidate on a broadcast; periodic refresh; start/stop | provider stack, Supabase Realtime | what is cached is announced, and dropped when the announcement arrives |
| **OHLCV paginator** (`ohlcv_paginator.py`, `mcp/tools/history.py`) | window cursor | pages of candles | OHLCV service | what is delivered lies in the window, in order, once, and is complete unless a chunk skipped candles |
| **Symbols** (`domain/symbols.py`, `symbol_resolver.py`) | flyweight registry | resolve, register | every tool | same instrument, same object |
| **Risk** (`risk_policy_repo.py`, `application/risk/`, `mcp/tools/risk_tools.py`) | policy rows with one active; kill switch | set, activate, evaluate, simulate, engage, disengage | Postgres transactions | the table is a register; an engaged switch lets nothing through; worse intents get no milder verdict |
| **Backtest** (`application/backtest/`, `mcp/tools/strategy_compute.py`) | position, equity, trades, curve; results of a request | a bar, a signal, levels, auto-close; backtest, compare, stress | strategy specification, OHLCV service | the accounts agree; no look-ahead; an exit is taken when it is due |
| **Strategy specifications** (`application/strategy/`, `strategy_spec_repo.py`, `strategy_read_only.py`) | rows of `strategy_specs` | validate, save, list, get, delete, explain, diff | backtest, Postgres | an id goes on naming what was saved; a difference is never missed |
| **Indicators, analytics** | none between calls | formulas over candles and reports | evaluator, backtest | no value of a bar depends on a later one; the metrics agree with the trades |
| **MCP tools, DTOs, resources, prompts** | none | translation | everything | wording and wire format |

Hard behaviour, all of it listed at its line under `hazards` in `PROJECT.json`:
coroutines interleave at every `await`, so what was read before one may be stale
after it; cancellation can land before a task runs, inside its terminal callback
or in the middle of a database call; clients long-poll with timeouts and cursors;
the server may stop between any two database calls and must rebuild its watches
from the rows; two server processes may share the database; a database call of
several can fail and leave the others done; transactions of several calls meet in
Postgres and see each other only as READ COMMITTED lets them; and the numbers of a
backtest are told three times (equity, trades, metrics) by different lines.

## 2. Plan

Done, in this order:

1. `PositionWatch` with the abstract `WatchLifecycle`, and its proofs.
2. `PaperLedger` with the abstract `TradeLifecycle`, and its proofs. It
   instantiates `WatchLifecycle` once more, for the watches as the ledger sees
   them, so that both halves are checked against one contract.
3. `TokenBucket` with the abstract `IdealBucket`, and its proofs.
4. `TickerFetch`: the handler chain, the provider stack and the invalidation
   around one cached ticker, and its proofs.
5. `RiskEngine` (the decision chain) and `RiskPolicies` (the transactions on the
   active policy), composed with the kill switch by `RiskGate`; the abstract
   register `ActivePolicy`; the proofs of the verdicts, of the locks and of the
   register in `RiskGateProofs`.
6. `StrategySpecs`, `StrategyEvaluator`, `TradeSimulator` and `BacktestMetrics`,
   composed by `BacktestTools`, and the proofs of the accounts, the exits and the
   signals in `BacktestProofs`.
7. `StrategyStore` over `StrategySpecs`, `StrategyDiff` over both, and their proofs.
8. `VenueHealth`, composed with the paginator, the candle table and the L0 cache
   by `OhlcvHistory`, and the proofs of both.

Every safety property that a passing run checks is proved. What could come next is
outside of the checked properties: the deadline of a resumed watch, and the rounding
of levels by their column, are hazards listed without a property.

## 3. Modules

| Module | Models |
|---|---|
| `WatchLifecycle` | abstract: what a watch promises to the code that starts it |
| `PositionWatch` | one watch in detail: detector, task, stop callers, long-poll clients |
| `PositionWatchProofs` | TLAPS proofs about `PositionWatch` |
| `MCPositionWatch` | levels, trades and symmetry for TLC |
| `TradeLifecycle` | abstract: the life of a paper trade as the table shows it |
| `PaperLedger` | rows, requests, terminal handlers, watches, servers |
| `PaperLedgerProofs` | TLAPS proofs about `PaperLedger`: the rows, the refinements, who watches what |
| `MCPaperLedger` | symmetry for TLC |
| `IdealBucket` | abstract: what a rate limiter promises |
| `TokenBucket` | the bucket of `rate_limiters.py`, its lock, its sleeps, cancellation |
| `TokenBucketProofs` | TLAPS proofs about `TokenBucket` |
| `TickerFetch` | `get_ticker`: handler chain, L0 cache, retries, `tickers_live`, invalidation |
| `TickerFetchProofs` | TLAPS proofs about `TickerFetch` |
| `RiskEngine` | the six handlers of the decision chain, what payloads and policies are accepted |
| `ActivePolicy` | abstract: the store of policies is a register |
| `RiskPolicies` | the transactions on `risk_policies`, statement by statement |
| `RiskGate` | the risk tools: store, kill switch, verdicts |
| `RiskGateProofs` | TLAPS proofs about `RiskGate` |
| `MCRisk` | policies and intents for TLC |
| `StrategySpecs` | specifications and the two places that refuse them |
| `StrategyEvaluator` | indicators, conditions, entry and exit signals |
| `TradeSimulator` | a backtest, bar by bar, and the validators of its report |
| `BacktestMetrics` | the visitors of a report |
| `BacktestTools` | backtest, compare and stress requests over `TradeSimulator` |
| `BacktestProofs` | TLAPS proofs about the backtest, with lemmas on sums, maxima and recursive series |
| `MCBacktest` | strategies and histories for TLC |
| `StrategyStore` | the table of specifications and the tools around it |
| `StrategyDiff` | what `diff_strategies` answers: the walk over two payloads, depth by depth |
| `StrategyStoreProofs` | TLAPS proofs about `StrategyStore` and `StrategyDiff` |
| `MCStrategies` | payloads for TLC |
| `VenueHealth` | the state of a venue and the monitor that probes it |
| `OhlcvHistory` | a paginated history through the chain, the candle table and L0 |
| `OhlcvHistoryProofs` | TLAPS proofs about `VenueHealth` and `OhlcvHistory` |
| `MCOhlcvHistory` | windows for TLC |

Definitions whose comment says "Mutant of" are faulty variants of the definition
that follows them. No specification uses them: they are substituted for it to
see that the property named for them in `PROJECT.json` notices the fault.

### 3.1 PositionWatch

An action is a segment of a coroutine between two suspension points. The state is
`WatchState` (`status`, `events`, `fired`, `lastTick`, the `task` and whether it
has a cancellation pending), the callers of `stop`, and per client whether it is
blocked in the condition, its cursor, the status it was last told, and (history)
all events it was sent.

`TerminalTick` and `MilestoneTick` are the two ways through the body of `_run`
for one trade; both apply `EventDetector.detect` as the code orders it (stop,
take, timeout, then the milestones that have not fired). `notify_change` cannot
suspend, since no coroutine keeps the condition's lock while suspended, so waking
is part of the segment that changes the state; each waiter runs later
(`WaiterRuns`) and re-evaluates `_ready`, or its `wait_for` expires first
(`WaitTimesOut`). `CancelDelivered` is the `CancelledError` that unwinds the
task; a task that never ran unwinds without touching the status, which is why
`stop` sets it (`StopReturns`). A callback that fails and one that returns are
the same to the watch (`HandlerEnds`).

Abstracted: prices are integers, with the 20 % band written as
`5 * distance <= entry distance`, which is exact; P&L is a function of the last
tick; the WS provider's reconnects are invisible to the watch.

### 3.2 PaperLedger

A database call takes effect in one step, and the coroutine goes on in another
where what it does next touches shared memory, so that its view may be stale. A
row is its `status`, its `reason` (which kind of writer decided it) and its
`watch_id`. `opener[t]` and `closer[c]` are the program counters of the
`open_trade` and `close_trade` calls, `resume[s]` that of `resume_open_watches`
in server process `s`, `phase[w]` that of the task of watch `w`. The close of a
row is the guarded `UPDATE`, whose row count both callers ignore, as in the code.

Watches appear as far as `WatchLifecycle` describes them, plus the two database
calls of the terminal handler: the hit is published before the handler reads the
row (`WatchHits`), a cancellation unwinds the handler anywhere and an `UPDATE`
under way is applied or not (`CancelLands`), a database error ends it
(`HandlerFails`). `ServerStops` is a crash or a shutdown: what was in memory is
gone and the rows stay.

Not in this model: amounts, timestamps, the deadline of a resumed watch, and
the rounding of levels by the columns' type.

### 3.3 TokenBucket

`asyncio.Lock` is fair, so the calls in `acquire` are a queue whose head holds
the lock. One iteration of the loop, which has no `await`, is one action: `Take`
when the refilled bucket (`Level`) has a token, `Sleep` when not. A sleep keeps
the lock. `Cancel` removes a call wherever it waits; if it was the holder the
lock passes on, and what its sleep had waited for stays in the bucket. The bucket
is exact in integers: a token is `Unit` units and a tick adds `Rate` units. The
sleep is rounded down, so that a holder may wake before the token is complete,
which is what the loop is for; `MaxDelay` lets it wake late as well. `now`,
`Tick` and the queue's fairness are external. `IdealBucket` is instantiated with
the level as of now: a step of time is a `Fill`, `Take` is a `Take`, everything
else leaves the level alone.

### 3.4 TickerFetch

One symbol of one venue. A ticker is the time at which the venue sampled it,
which is all the properties need. `req[c]` is a request: where it is, whether it
is forced, when it looked into L0, the ticker it has and where from, its failed
attempts. The actions follow the awaits:

| Where a request waits | Code | Leaves by |
|---|---|---|
| `loading` | `SupabaseCacheHandler` | `LoadHits`, `LoadMisses`, `LoadFails` |
| `acquiring` | `RateLimitDecorator` | `GetsToken` |
| `calling` | the exchange call under `_execute_ticker` | `VenueSamples`, `CallFails`, `CallRaises` |
| `answered` | its answer on the way | `Stores` |
| `backoff` | `RetryDecorator` | `BackoffEnds` |
| `writing` | `upsert_ticker` | `Writes`, `WriteFails` |

plus `Aborts` anywhere. `Begin` is everything before the first await;
`LookIntoL0` reads the clock and the entry in one step, as `_cached` does. An L0
hit is written through like an answer of the venue. The row is replaced whatever
it holds. Every change of the row puts one broadcast per channel on its way;
`Delivered` is the invalidator's callback, which drops the entry. An entry that
has expired and no entry are the same to every reader, so the entry is never
removed by time. `Prune` is the cron job. `GateMoves` lets `require_operational`
refuse or not in any order: wider than today's health monitor, whose probes never
produce a refusal.

The model shows two things that are the code's design and are listed as hazards
without a property: a delayed write-through can put an older ticker over a newer
row, and a row of any age is answered as fresh. It also shows that
`force_refresh` bypasses the database only, as its parameter description says: a
forced request may be answered from L0, if `RecentAnswers` allows it.

### 3.5 RiskEngine, RiskPolicies, RiskGate

`RiskPolicies` is one call per setter and one action per statement: `Upsert`,
`Scan` and `Deactivate` (one UPDATE, split where Postgres waits between reading
and locking), `LockTarget`/`TargetMissing`, `Activate`, `Commit`. `locks`, `off`
and `on` are what the transaction holds and has changed and nobody else sees yet.
Row locks, the wait of a unique index for uncommitted entries, its refusal
(`UniqueViolation`), the deadlock detector and a lost commit are external, as the
documentation of Postgres describes READ COMMITTED. What the code decides is the
order of the statements and what is in one transaction with what. The refinement
maps a call to `ActivePolicy`: it takes effect at its commit.

`RiskGate` adds the switch and the askers. `evaluate_trade_intent` reads the
policy, awaits, and only then looks at the switch, so the switch may be thrown
in between; `ask[e].switch` remembers (history) what it said while the call ran.
A simulation with an override awaits nothing. Shares are integer percents; every
comparison of the code is exact in them.

### 3.6 StrategySpecs, StrategyEvaluator, TradeSimulator, BacktestMetrics, BacktestTools

A step of `TradeSimulator` is one bar: `Enters`, `Waits`, `Holds`, `Exits`, and
`Finishes` for the close of what is left and the report. Money is an integer in
hundredths of a price times a lot; rates are hundredths; sizes are whole lots, a
fraction of which is the code's dust. `MCBacktest` has prices at which no division
of the accounts has a remainder. The indicators divide and round down where numpy
has floats: that moves a comparison by less than a hundredth and not the bar it
speaks of. A warming indicator is `NaN`, a warming signal the `None` of the code.
As in the code every series is computed over the whole history before the first
bar is looked at, which is what makes `NoLookAhead` worth asking.

`BacktestTools` runs the jobs of a request over it: specification and number
errors, failing fetches, an indicator that cannot be built and a report that is
refused become lines of the answer, each where the code catches it.

### 3.7 StrategyStore, StrategyDiff

Each operation is one statement and one action; `SaveFails` is the one whose
answer is lost, with or without its effect. A diff answers with the
two rows it read; `StrategyDiff` says what it makes of them. The dump of a payload is
a tree of objects, lists and leaves. `Calls` has, for each depth, the pairs of
subtrees that `_walk_diff` is called with there, and `WalkDiff` those calls that
report a difference. The recursion of the code ends with the data: `Depth` is the
number of keys down to the period of an indicator in a condition of the entry, and
`Opens` proves that what lies there is a leaf. Like the code the walk takes a
missing key or position to be `None`; that this hides nothing is part of the proof.

`PayloadsAssumption` says what JSON can spell: a payload has the fields of its class
and no other, and a number has no source. Values are not restricted by it: payloads
that the validators refuse are among the payloads.

### 3.8 VenueHealth, OhlcvHistory

A candle is the number of its interval and a chunk a set of candles, which is
ascending as the venue and the table return it. `call[c]` is a
`fetch_ohlcv_history`: at `loading` it awaits the table, at `asking` the rate
limiter, at `calling` the venue, at `writing` the write-through. The L0 cache
is keyed by the cursor and the size of the chunk, as the repr of the arguments
is. Everything between two awaits is one step: `Takes` is the body of the
paginator's loop up to the next fetch, the gate included.

`VenueHealth` moves beside it. The only thing they share in production is whether
the markets are loaded: a probe is `load_markets`, which asks the venue nothing
once they are ("blind"), and requests tell the state nothing of their outcome.
What load_markets raises is not translated, so no probe ever reports a rate limit
and the gate of the model never shuts: it is in the model, and no guard is there
to keep it open.

## 4. Runs

Passing runs (the figures are distinct states):

| Run | Instance | States | Shows |
|---|---|---|---|
| `watch_long` | long, 6 prices, 2 clients, 2 stop callers, symmetric | 61 k | the safety of a watch |
| `watch_short` | short with breakeven beyond take, fair | 15 k | the mirrored comparisons, the contract, both liveness properties |
| `ledger_live` | 1 trade, 2 close requests, 1 stop of the server, fair | 31 k | a hit decides, requests and start-ups end |
| `ledger_two` | 2 trades, 2 requests, 4 watches, a restart, symmetric | 329 k | each running trade is watched by the one watch its row names |
| `ledger_faults` | 2 servers, a fault, stop_watch, reset, a crash, symmetric | 2.0 M | one decision per trade, watches keep their contract |
| `bucket` | 4 calls, 3 units a token, 2 units a tick, capacity 2, fair | 9 k | the rate, the abstraction, nobody starves |
| `ticker_fetch` | 2 requests, ttl 2, 2 attempts, one failure, loss and gate change, fair | 718 k | freshness, self-draining cache, every fetch ends |
| `risk` | 2 setters (one may activate), 1 asker, 2 policies and 2 overrides, fair | 122 k | the store is a register, the switch denies, severities are ordered, calls end |
| `backtest` | 8 strategies, 219 histories of up to 6 bars, 3 tools | 162 k | the accounts agree, no look-ahead, exits in time |
| `strategies` | 5 payloads, 3 rows | 5 k | ids keep their content, differences are complete |
| `history` | 2 calls, 2 windows, 2 candles, streaks of 2 and 2 | 3.3 M | histories are their windows, streaks decide |

One run that TLC must find violated, a disagreement between a document and the
code (`findings` in `PROJECT.json` quotes both sides):

| Run | Says | The code |
|---|---|---|
| `history_exhausted` | `ohlcv_paginator.py`: short-circuits on empty chunks, the provider has exhausted the history | an empty answer raises `ValueError` in the adapter, and a window that reaches beyond the newest candle loses the whole history |

### Other disagreements met while modelling

They are behaviours of the models, each at its line under `hazards`; no property
forbids them, because the code does them:

- `wait_for_event` says that a terminal status means the trade has been
  auto-closed (`watch.py:147`); the status is published before the handler runs.
- The design of `paper_reset` stops the watches; the code only truncates, and a
  request in flight then fails its `assert fresh is not None`.
- The design of the integration test expects `stop_watch` to close the trade as
  manual_cancel; the row stays running and unwatched.
- The design of the terminal handler retries a database error; the code does not.
- `activate` of an unknown id empties the register and then raises.
- Of two `set_risk_policy` calls at once the slower one may get a unique
  violation that no tool translates, where migration 080 speaks of an atomic
  switch.
- `engage_kill_switch` says all later verdicts are DENY (`risk_tools.py:387`);
  without an active policy the answer is an error, which lets nothing through
  either.
- The comment of `BacktestTrade` (`backtest_report.py:63`) expects fees to shrink
  a pnl; a win smaller than its fees is refused and the whole backtest fails.
- `trade_simulator.py:195` says "worst case first"; for a short it takes the
  profit first. A level beyond a gap is not reached by its bar.
- `load_ohlcv` answers with the newest rows since the cursor, so a history over
  the table skips the candles before them.
- `force_refresh` bypasses the database only, for tickers as for candles.
- The paginator says its cursor steps by timeframe times chunk size; it steps
  behind the last candle of the chunk, which `HistoryIsTheWindow` shows to be
  right and the stated step to be wrong.

### Bounds, and why they are enough

- *Prices, times.* One price per region that the detector tells apart, for each
  side, and one time on each side of the deadline. `PositionWatchProofs` covers
  all levels.
- *`EventBufferCap`* is 4 instead of 200. By `OneShotEvents` (proved) and the end of
  a watch at its first terminal event, a log holds three milestones and one
  terminal event at most: at 4, as at 200, nothing is ever trimmed.
- *Trades, requests, servers, watches.* Races need two writers of one row (two
  requests, or a request and a handler, or two servers) and confusion needs two
  trades. A watch per trade and start-up is what can be created.
- *`MaxCrashes`, `MaxFaults`.* One restart shows what resume rebuilds. One fault
  of any kind is put at every possible place; the safety properties of
  `ledger_faults` are proved for every number of both.
- *`MaxNow`, `MaxDelay`* (bucket). Four ticks fill the bucket and drain it again,
  and while a call sleeps the clock goes on, so that no sleep is cut off.
- *`MaxNow`, `MaxFailures`, `MaxLosses`, `MaxGates`* (ticker). Three ticks outlast
  a ttl of two, so that an entry can be stored when it has already expired, and
  `PruneAge` 1 lets cron take the row while a request is under way. One failure
  makes one retry and a shut gate exhausts the attempts.
- *`Channels`* is 1 where production opens one per venue (2): it only multiplies
  the broadcasts of a change, and the proofs cover every number.

- *Risk.* Two transactions make every conflict of locks and index; the third
  actor is the asker. Policies: a strict and a mild one, and a broken override.
- *Backtest.* Four to six bars leave room for a warm-up, an entry, a bar that
  holds, an exit and a second entry; the histories contain gaps, bars that hold
  one level or both, and a rise that takes a short below zero. `FastPeriod` is 1
  instead of 12, so that MACD warms up within them.
- *`MaxRows`* (strategies). A row, another, and one saved anew after a deletion.
- *`First`, `MaxLatest`, streaks* (history). Two candles, one of which begins
  while the calls run, make chunks that are full, short, empty, skipping and newer
  than asked. Streaks of 2 and 2 instead of 3 and 5 have every order of success and
  failure within their length and one before it.

Symmetry is used only in runs without liveness. `CHECK_DEADLOCK FALSE` is set
where the system may rest: ended trades, served calls, a clock at its bound.

### Fairness

- *Watch*: the loop runs what is runnable (an unwinding task, a stop whose task is
  done, a notified waiter), and clients call `wait_for_event` again while told
  "running", as the tool's description asks. No trade is ever assumed to arrive.
- *Ledger*: the database answers, the loop goes on with the answer. Not assumed: a
  price, a client's call, the start of a server.
- *Bucket*: the holder of the lock runs when its timer is due; time passes.
- *Ticker*: each await of a request is answered, by success or failure. Not
  assumed: broadcasts, cron, the venue's recovery.

- *Risk*: a transaction that can go on does. Strong fairness, because a lock that
  becomes free may be taken by another call first: Postgres queues the waiters. Not
  assumed: a new call, a failure, a restart.

Weak fairness is enough everywhere else: an action that is ready stays ready until
it or its cancellation is taken. `backtest`, `strategies` and `history` have no
liveness property and state no fairness.

## 5. Proofs

Each theorem holds for every value of the constants that its module's `ASSUME`
admits, and each `ASSUME` is evaluated in a run.

| Module | Assumes | Invariant | Theorems |
|---|---|---|---|
| `PositionWatchProofs` | `LevelsAssumption`, `BufferAssumption`: what `WatchState` and `PositionWatcher.start` enforce on levels; a buffer that holds every milestone and one terminal event | `TypeOK`, `ControlInv`, `EventInv`, `ReaderInv` | every safety property of a watch, and `KeepsContract` |
| `PaperLedgerProofs` | `LedgerAssumption`: null ids are no ids | `TypeOK`, `Referents`, `Rows`, `Decided`, `Watching`, `ReasonIsTrue`; for the watching `Ids`, `Serving`, `Fresh`, `Alone`, `HandOver`, `Closing`, `Tended` | types, `ClosedMeansClosed`, `ReasonIsTrue`, both refinements; with one server `OneWatchPerTrade`; without faults and stops `RunningIsWatched` |
| `TokenBucketProofs` | `BucketAssumption`: `__init__` refuses others | `TypeOK`, `Windows`, `RateBound` | types, `RateBound`, `IsIdeal` |
| `TickerFetchProofs` | `FetchAssumption`: positive ttl, attempts, channels | `Inv`, `Counters`, `CachedIsAnnounced` | types, `RecentAnswers`, `CachedIsAnnounced` |
| `RiskGateProofs` | `IntentAssumption`, `LimitsAssumption`: the numbers of intents and policies are integers, shares are not negative; `NoPolicyAssumption` | `StoreInv`, `AskInv`, the locks of a transaction | types and `LocksExclude`, at most one active row, the register `StoreIsRegister`, `EngagedDenies`, `WorseIsNoMilder` |
| `OhlcvHistoryProofs` | `HistoryAssumption`, `HealthAssumption`: windows of integers, positive chunks and limits, no more errors to degrade than answers to recover (3 and 5 in the code) | `HealthInv`, `HistoryInv` | `StreaksDecide`, `HistoryIsTheWindow` |
| `StrategyStoreProofs` | `RowsAssumption`: the bound of the model is a number; `PayloadsAssumption`: payloads have the fields of their classes | `TableOK`, `AsksAboutPayloads` | `SavedIsKept`, `DiffIsComplete` |
| `BacktestProofs` | `EvaluatorAssumption`, `SimAssumption`, `ToolsAssumption`: candles, fees, slips, levels and periods are numbers, a stress test runs one strategy | `SimTypeOK`, `RequestOK`, `Timely`, `Accounts` | `ExitsInTime`, `BooksBalance`, `NoLookAhead` |

Why a strengthening is needed, in each case:

- *Watch.* That the end is told truthfully needs to know which task states go with
  which statuses and pending cancellations (`ControlInv`); one-shot events need the
  log tied to the set of fired milestones (`EventInv`); and exact cursors need what
  a client has received tied to a prefix of the log (`ReaderInv`).
- *Ledger.* That a reason is true needs to know, at the moment a handler or closer
  writes, that its watch was hit or its request is for that trade, which was
  decided several steps earlier (`Watching`, `Referents`); that a close returns a
  decided trade needs `Decided`, the knowledge that survives between its update and
  its last read. That a running trade is watched needs, besides, who owes it a
  watch: a server that is down, listing or still has the trade on its list
  (`Tended`); a watch without a name is known only to whoever started it (`Fresh`);
  and a cancelled watch has left its trade to a request in the same process
  (`HandOver`, `Closing`). `OneWatchPerTrade` is proved for one server, with every
  fault; `RunningIsWatched` for any number of servers and with restarts, but under
  `Quiet` (no fault, no `stop_watch`), as its statement says. Both are wider than the
  runs.
- *Bucket.* `RateBound` relates two grants and says nothing of the next. `Windows`
  relates every window that is still open to what is left in the bucket: tokens
  taken since grant `i` plus the level never exceed a full bucket and the refill
  since.
- *Policies.* The register's value is the active row as committed. What a
  transaction changed and has not committed nobody else touches, and between
  `activate`'s two updates no other transaction has activated and no row is active
  but those it is about to deactivate.
- *Venue.* Each counter counts the latest outcomes of its kind, which only the log
  of outcomes can tell (`HealthInv`).
- *History.* The answer is the window because what is gathered lies before the
  cursor, and each chunk is gapless from the cursor or lacks the venue's oldest
  candles and is noted as skipping (`HistoryInv`).
- *Strategies.* A new id names no row, so an insert overwrites none (`TableOK`).
- *Differences.* The invariant is slight, that an answer is about two payloads; the
  work is in the walk. A call at a place is about what is there on either side, or
  about `None` where a side ends (`CallIsAbout`); above it there is a call at every
  depth that went on, so no difference lies under another (`DifferencesApart`); a
  node that no call visits lies under a difference (`NodesAreReached`); and two sides
  that differ have a key at which they differ (`ChildDiffers`), the only place where
  the shape matters: objects at the same place have the same keys, and the longer of
  two lists has a condition where the other one has `None`. From the leaves upward
  each call with different sides has a difference below (`DifferenceBelow`). As no
  two payloads have the same dump (`DumpTells`), no difference means one strategy.
  The depth is bounded and the lengths of the lists are not, so induction goes by
  depth (`DepthInduction`), never over data.
- *Backtest.* Trades come one after the other: each is later than the one before,
  the open position later than all of them, and no bar since its entry told it to
  close (`Timely`). The curve shows the balance at each close and before each
  entry, so a trade that lost shows as a fall of the curve (`Accounts`). That
  signals do not look ahead is a lemma on series: an indicator's series over the
  first bars is the start of its series over all of them.
- *Ticker.* `Good` records what is known of a request at each place it waits, and
  the L0 entry outlives its sample by the ttl at most because the request that
  stored it looked before the venue sampled.
- *Risk.* A verdict is given by one position of the switch, which both properties
  compare with all the call has seen. `GoodAsk` carries that the present position is
  among those while the call runs, and `StoreInv` that what the store hands it is a
  policy. The rest is about the chain: what an intent breaks a riskier one breaks as
  well (`RiskierBreaksMore`, limit by limit; the exposure limit is the one that
  multiplies the policy by the account), and more violations give no milder status.

The two refinements of the ledger and `KeepsContract` are proved as: initial
states map to initial states, and each action is a step or a stutter of the
abstract specification. `BucketIsIdeal` needs the type invariant only: a tick
raises the capped level by exactly one capped fill. `StoreIsRegister`: a call of the
store takes effect at its commit, and every other step of it is a stutter.

The library's induction theorems take an operator as a parameter, which no installed
prover can instantiate. `BacktestProofs` reasons by induction over sets instead: a set of naturals that is not all of them has a least
absentee (`LeastNatural`), which also shows that the recursive functions of the
evaluator exist (`RecursExists`) and are determined by their equations
(`RecursAgree`). What the series of an indicator holds is not proved, only that the
bars to come do not change it.

### Only model-checked

The liveness properties (`StopCompletes`, `LoopersLearn`, `HitDecides`,
`CloseEnds`, `ResumeFinishes`, `EveryoneServed`, `FetchEnds`, `CallsEnd`): the prover
has no backend for liveness under fairness.

## 6. Not modelled

- Symbol registry and resolver: a flyweight filled at start-up and a pure function
  over it, whose cases the unit tests enumerate.
- `application/strategies` and the market analyzer (VWAP, support, volatility) and
  the value of Sharpe's ratio: formulas nothing else depends on.
- Order book and trades: the chain of `TickerFetch` without a database.
- DTOs, resources, prompts, catalogs: wording and wire format, except what the
  modelled tools decide with them.
- Field by field mapping of the exchange adapters; CoinGecko; HTTP clients;
  reconnects of the WebSocket, which a watch does not see.
- Metrics and logging decorators, the query log: they pass calls and exceptions
  through.
- Embeddings and similarity search of strategies, the fluent builder.
- `TickerSyncWorker`: it refreshes the subscriptions of `subscribe_ticker`, which
  nothing in production calls.
- `mark_down`, `transition_to` and `on_request_started` of `VenueState`, which
  nothing in production calls.
- Of the paper ledger: amounts, timestamps, the rounding of levels by their column,
  and the deadline, which a resumed watch starts anew.
