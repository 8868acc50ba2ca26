# TLA+ verification of trading-ai-alpha-agent

TLA+ modules, TLC runs and TLAPS proofs for the trading agent in `src/`. Each module
models the code of one component; `PROJECT.json` maps every definition to the lines it
stands for, lists the runs, the mutated definitions each property must reject, the
hazards of the code and the theorems.

    tlc -workers 2 -config OrderExecution.cfg MCOrderExecution     # one run
    tlapm OrderExecutionProofs.tla                                  # one proof module

## 1. The system

The program watches Indian (Zerodha) and US (Alpaca) markets. Its documented live
pipeline is `Signal -> RiskEngine -> RiskDecision -> OrderIntent -> ExecutionAgent ->
BrokerAdapter` (README.md:18 of the repository). In its default mode it places no orders
and runs the *shadow* system: a loop that opens, marks and closes hypothetical positions,
and a professional intraday pipeline with review agents that opens virtual positions.
Processes: the API server (threads), the two loops, operator scripts. They share one
PostgreSQL database (READ COMMITTED), journal files, and an environment per process.

| Component | State it keeps | Operations | Talks to |
|---|---|---|---|
| Order execution (`app/execution`) | `order_idempotency_keys` and `orders` rows | `ExecutionAgent.execute`: guards, get, reserve, place, reconcile, upsert | broker adapter, system state |
| Broker adapters (`app/brokers`) | none (the broker's orders) | `place_order`, `get_order`, `reconcile_order` | HTTP |
| Risk engine (`app/risk`) | none | `RiskEngine.evaluate` | arguments: portfolio, health, calendar, FX, compliance, system state |
| Broker/provider health caches | `_cache`, `_cache_at` per process | `statuses` | adapters; readiness, reports, routes |
| System state | one row: mode, live flag, kill switch | `get_state`, `enable/disable_kill_switch`, `set_mode` | API routes, scripts |
| Paper engine (`app/paper`) | cash, positions, realized profit, journal, daily counts | `submit_order`, `close_position`, `evaluate_exit` | backtester |
| Backtester | equity curve over a paper engine | `run_single_symbol` | strategy callback |
| Shadow training | `shadow_observations`, `shadow_training_samples` | `run_cycle` | strategies, exit policy, news, FX |
| Shadow loop, rescale script | lock file | loop, `once`, rescale | shadow training |
| Intraday pipeline (`app/intraday`) | kill switch, virtual positions, journal | `process_snapshot` | agents |
| Agentic review (`app/agentic`) | agents' journal | reviews of regime, signal, risk, execution | LLM provider |
| News sentiment | `news_items` rows | `ingest_if_due`, `assess` | Alpha Vantage, shadow training |
| Profit protection, reports | `daily_market_review_snapshots` | `summary`, `daily_summary`, the training report | shadow rows, read only |
| Not modelled | | readiness, token exchange, market intelligence, e-mail, dashboard, schema | see section 7 |

What is hard in this code: `execute` crosses two transactions and two requests, any of
which can fail or be cut off, while another caller retries the key; a row is read, changed
in memory and written back without a lock; the shadow cycle is one transaction over many
symbols, overlapped by an API route and a script that take no lock; the intraday pipeline
is one object shared by server threads; caches are shared without a lock; money is
divided over partial exits; the news is refreshed inside the transaction that makes exits,
by cycles that do not see each other's rows; and each report derives from its own rows
what the cycle decided on others. The properties below, and the hazards of `PROJECT.json`, are
about these.

## 2. Modules

| Module | Models | Composition |
|---|---|---|
| `IdempotentOrders` | what execution promises: a key is claimed once, sent at most once, settled once | abstract specification |
| `OrderExecution` | `execute`, `OrderIdempotencyStore`, adapters, reconciler | implements `IdempotentOrders` (`KeepsItsPromise`, `INSTANCE ... WITH`) |
| `SystemState` | `SystemStateService` over a row with concurrent sessions | |
| `RiskGate` | `evaluate` with every rule, sizing, calendar, `BrokerService` cache | |
| `PaperEngine` | `PaperTradingEngine` and its cost model | |
| `Backtest` | `run_single_symbol` | EXTENDS `PaperEngine`: it owns one and calls it |
| `ShadowTraining` | `run_cycle`, its loop and lock, exit policy, rescale script | |
| `ShadowReports` | daily review and its stored rows, day-wise result, profit protection, training outcomes | EXTENDS `ShadowTraining`: requests read between the steps of its cycles |
| `NewsSentiment` | `ingest_if_due`, deduplication, `assess`, inside the cycles of loop and API | details the guard that `ShadowTraining` leaves open |
| `IntradayPipeline` | `process_snapshot`, kill switch, journals, agents | |
| `MC*` | instances for TLC; `MCPaperEngine` gives an engine to a caller or to a backtest | EXTENDS the module |
| `*Proofs` | theorems | EXTENDS the module and TLAPS; `PaperEngineProofs` EXTENDS `Backtest` |
| `SumTheorems` | induction, and what the sums of the library are | used by the proof modules of components that add something up |

How state and actions correspond:

- **OrderExecution.** `store[k]` is the row of a key with its order row, `posts`/`book`
  what the broker did, `sysState` the persisted state row, `pc/call/rec` the locals of each
  worker. A caller reads the state it passes (`ReadState`), calls at any time after that
  (`Execute`) and may read again instead. Then an action is one transaction or one request
  with the computation after it: `PreTradeRejects`, `ReturnExisting`, `LookupMisses`, `Reserve` (INSERT
  under the unique constraint) or `ReserveLosesRace`, `PlaceReplies`/`PlaceRefused`/
  `PlaceRaises` (the order may exist although the request raised), `MarkUnknown`,
  `Reconcile`/`ReconcileRaises`, `Save`, and `DatabaseFails`, `Crash` between any two.
- **SystemState.** A call is `Select`, an in-memory change, `Commit`. SQLAlchemy's UPDATE
  names the columns that differ from what was read; `Write` is that merge. The insert of
  two creators meets the unique key (`InsertLosesRace`).
- **RiskGate.** `Evaluate` is `RiskEngine.evaluate` in one step: it reads only its
  arguments. The list of rejection reasons is reduced to whether it is empty, one operator
  per rule module; `CapQuantity` is the least of four floors. `Ask`, `Probe`, `Store`,
  `Stamp`, `Show` are the lines of `BrokerService.statuses`, for several threads. No code
  calls `evaluate`: the caller, its portfolio, fills and prices are external, under the
  assumption that one order at a time is pending and is taken over before the next
  evaluation. `Fill` pays the price and the rate of its moment, in full or in part, so the
  cash may end below zero; `PortfolioSnapshot` then refuses it and nothing more is approved.
  `RiskEngine` never passes a sector to `exposure_reasons`, so the model has no
  sector limit either, although the rulebook lists one.
- **PaperEngine/Backtest.** One action per call. Prices are ticks and money is counted in
  ticks/Base^2, so slippage and proportional costs stay exact; the rounding of Python
  floats is not modelled. A stop is filled at the stop price even when the bar opens
  below it, as the code does.
- **ShadowTraining.** `session[p]` is a transaction: rows and samples as read, changed in
  memory, committed at the end or rolled back. The session does not autoflush
  (`app/db/session.py:13`), so queries inside a cycle do not see its own new samples; this
  is modelled. Samples of one tick are ordered by insertion. The budget is that of the
  process, a free choice of each cycle and each run of the script. `Rescale` is the script:
  the amounts of every open row for its budget, at the price and rate of the last mark, and
  no sample.
- **ShadowReports.** `Read` is `daily_summary` up to its flush: the reviews of yesterday,
  and which markets have no row yet; `Store` is the flush and commit of a request that no
  other was faster than, `Fail` the unique key or any other error. The reports that keep
  nothing (day-wise result, recommended exits, booked totals, training outcomes) are
  operators on the rows of the moment.
- **NewsSentiment.** `published[a]` is the age of an article at the provider, `news` the
  committed rows, `quiet` the age of the newest `created_at`, `session[p]` an open cycle.
  Ages grow up to the first that tells nothing apart any more, so the clock needs no end and
  liveness can be stated. `Begin` is `ingest_if_due` up to the request, `Answered` and
  `Refused` its two ways on, `Enter` and `NoEntry` the entry of a symbol, which flushes the
  session (and so stamps `created_at`), `Commit` and `Rollback` the ends. While `broken` any
  cycle may be rolled back; `OutageChanges` begins and ends outages at will. A session sees
  the committed rows and its flushed ones, and looks for duplicates before it flushes.
- **IntradayPipeline.** `call[t]` holds what the call of a thread has computed; one action
  per stage that writes a journal, reads or changes shared state, or can raise. Snapshots
  are those `from_zerodha_quote` builds. A restart empties kill switch and positions, the
  journal stays.

## 3. Runs

| Run | What may happen | What it shows |
|---|---|---|
| `orders` | two workers on one key, three kinds of call, states read long before, crashes, database failures, lost answers, operators | one order per key; what is stored of it is true; a thrown stop drains: only callers that read the row before it can still send, one order each; refinement of `IdempotentOrders`, hence one execution per key |
| `system_state` | an API process and a script with other settings, database failures | no operation undoes another; live mode only through the gate; reads fail closed; every call returns |
| `risk_gate` | two threads on the health cache, two markets, price and FX moves before and between partial fills, each rule broken once | an approved order is within every limit, never oversells, overdraws by no more than the move since its approval, rests on a health record of bounded age |
| `engine` | five journalled calls on two symbols and two days; or a backtest with every history of four bars of ten kinds and every answer of five | every call conserves money, the journal gives back cash, holdings and profit, daily cap; equity identity, a mark equals a sale, drawdown equals its definition |
| `shadow` | two loops, restarts, roll-backs, budgets that change, careful rescales, two days | one open row per symbol, exits recorded once, marks on their day, cooldown, loss discipline, no missed exit |
| `reports` | a loop, rescales to another budget and two requests of the dashboard, on two days | a stored review is what the book says for ever, but for the amounts of a row rescaled after its day; totals of observations and of samples explain each other; recommended exits and training outcomes are those the cycle made |
| `news` | the loop's cycle and one of the API, a provider that publishes, pushes out and refuses, outages | old bad news keeps its symbols out; cycles are committed also when every request is refused, and again after an outage; no article is lost for good |
| `intraday` | two server threads and the loop, failing agents, exceptions, one restart | journal explains positions, position limit up to what is in flight, agents only narrow, kill switch latches |

Four runs show a disagreement of the code with what the repository says of it:

| Run | Property | What TLC finds |
|---|---|---|
| `orders_kill_switch` | `KillSwitchBlocksOrders` | without an explicit `system_state`, `execute` reads the environment and not the persisted switch (order_manager.py:35) |
| `orders_unknown` | `UnknownOrdersAreMarked` | an exception of the reconciliation leaves CREATED/REQUIRED without the broker's id although the order exists (order_manager.py:62) |
| `system_state_race` | `EnabledSwitchIsOn` | an acknowledged enable that overlaps a disable leaves the switch off (system_state_service.py:65) |
| `shadow_race` | `OneOpenObservation` | `POST /shadow/run-cycle` during a cycle of the loop opens a symbol twice (shadow_training_service.py:300) |

Every property of a passing run has a mutant: a plausible bug in a mapped definition under
which TLC finds the property violated in the same instance.

### Bounds and why they are enough

- `orders`: two workers, one key: every property is about one key, and two workers give
  first execution, duplicate and retry. Both markets and both sources of the state.
- `system_state`: one session each with and without the safety flags; two modes, one live.
- `risk_gate`: `MaxTime` 3 with `CacheTtl = MaxProbe = 1`: a record can be sampled, stored
  late, served under a newer stamp and expire. (The age does exceed `CacheTtl`: the race of
  the two writes is reached.) Two fills reach buy then sell, and buys in both markets; the
  limits are chosen so that each of the four floors and the total exposure decide once.
- `engine`: `MaxJournal` 5: an entry, two partial exits, a second entry and a refusal, and
  with two symbols and two days every limit is reached. `NumCandles` 4: entry, hold, exit
  and re-entry, or a final close.
- `shadow`: one US symbol with rates {1, 5}, budgets {20, 10}, `TicksPerDay` 3, `MaxTime` 4,
  `MaxCycles` 4: the first day with its closed tick, the second while the market is open; open,
  mark, exit, blocked re-entry; at a rate of 5 the smaller budget buys no share. The loops are interchangeable.
- `reports`: the same symbol at the rate 1, budgets {20, 4}, `MaxTime` 3 and `MaxCycles` 4: a day
  with entry, mark, exit and re-entry, and the first tick of the next, when its review is stored
  while the loop or a rescale works; 4 buys one share of an entry at 4 and none at 5. The prices reach each of the four exits; a target above the booking zone
  lets both be decided. Two requests meet at the unique key; they are interchangeable.
- `news`: `Interval` 1, `MaxCycle` 1 and `Window` 4: the property speaks of ages above 3,
  so an article passes through the whole bound. Two articles, market-wide bad news and undated news
  about another listing, with `Limit` 2: copies of two sessions can push an article out of
  what `assess` looks at. Refusals and outages have no bound.
- `intraday`: `MaxCalls` 2 and `MaxOpenPositions` 1: two overlapping calls of the server, or
  two consecutive ones of the loop with a restart between; five snapshots that reach each
  verdict; the two risk budgets differ by one so that the auditor disagrees with the manager.

`CHECK_DEADLOCK FALSE` is set where the bound ends the behaviour or the run really ends
(`engine`, `intraday`).

### Fairness

- `SystemState`: weak fairness of each session's steps and strong fairness of `Insert`,
  which waits for the unique key another session holds: the database queues lock waiters.
- `NewsSentiment`: weak fairness of the clock, of the loop's next cycle (it sleeps and begins
  again, whatever a cycle raised) and of the steps of a cycle that has begun (its requests
  have timeouts). No article has to be published and nobody calls the API. No
  outage has to end, and the provider need not answer: `CyclesComplete` has as its premise
  that cycles do not break off for ever, and `NewsIsLearned` also that answers come again.
- The other modules claim no liveness and state none.

### Modelling assumptions

- `OrderExecution`: no code in `app/` calls `execute`, only tests do, so its caller is external:
  it reads the row, or has nothing and leaves it to the environment, and calls when it likes.
  The call starts in the worker that read.
- `ShadowTraining`: `Alone = TRUE` in `shadow` is the operator's discipline (cycles and
  scripts outside the loop run only when nothing else does); no code enforces it, and
  `shadow_race` drops it. A rescale beside a cycle writes back old metadata and may erase a
  cooldown (rescale_shadow_book.py:46): `CooldownKept` holds because the operator takes
  care. A rescale with that care still writes amounts no cycle decided on: `NoExitIsMissed`
  looks at an open row as its last mark left it, since the next cycle compares the new amounts
  with the peak of the old ones (and may book a giveback the price never made), and the
  properties of the reports name what a row rescaled after its day (`ResizedLate`) may change.
  A cycle does not last over midnight. The feature switches are on. The news guard
  may block any entry; `NewsSentiment` says which it does.
- `NewsSentiment`: a cycle lasts at most `MaxCycle` ticks. Each article is published once
  and has the identity that `_news_exists` compares. Of a score and a headline only what
  `_score_based_risk` and `_keyword_based_risk` decide on is kept. What else a cycle does
  with a symbol is the free choice between `Enter` and `NoEntry`.
- `ShadowReports`: the windows of the reports (21 and 5 days, 4000 samples) exceed the
  instance and are left out. The training report groups by the UTC date, which during the
  sessions of both markets is the market's date. The ideas it builds from signals without a
  sample are left out.
- `IntradayPipeline`: the execution agent's review is recorded and has no effect, as in the
  code; a review written right before a failure is left out. Without bid and ask the
  simulated fill is never MISSED. `no_new_trade_after` is read by no code.
- `RiskGate`: both brokers are sampled in one step that takes at most `MaxProbe` ticks (the
  clients have timeouts); writing two attributes takes no tick.

## 4. Proofs

All theorems hold for every value of the constants that satisfies the named assumptions of
the module (`ExecutionAssumption`, `SystemStateAssumption` and so on; TLC evaluates them in the runs).

- **OrderExecutionProofs.** `IInv` strengthens the invariants by what a worker past its
  reservation knows: it holds its key alone, the stored row is the one it made, and no order
  exists before its request. Without this, `posts[k] <= 1` is not inductive: a second worker
  could stand before `place_order`. From it follow `AtMostOneOrderPerKey`,
  `OneExecutionPerKey`, `StoredStatusIsTrue`, and the refinement step by step (a
  reservation claims, a placing sends, an upsert settles, all else stutters).
  `StopsDrain` needs an invariant of its own, `StopInv` (no call passes validation with a
  snapshot that shows a thrown switch), and that no step but a read of the row makes a worker
  one of the `Unstopped` (`NobodyJoins`).
- **SystemStateProofs.** `IInv` adds that a call for a live mode has passed its gate
  (`GateHeld`) and that a row about to be inserted is the environment's (`FreshRow`). The
  action properties follow field by field from the merge of `Write`.
- **SumTheorems.** The library's induction theorems take a predicate as an argument, which
  no prover at hand can instantiate. `NaturalInduction` and `FiniteInduction` say the same of
  the *set* of the good values, and are proved from the library's facts on well-founded
  orders; with them the folds of the library are unfolded: a sum (`SumFunctionOnSet`) is
  what it should be (`SumType`, `SumRemove`, `SumAdd`, `SumUnion`, `SumCongruence`,
  `SumOfPart`), also when its elements go by other names (`SumReindex`).
- **PaperEngineProofs.** Types (an open position keeps at least one share), `EachCallBalances`
  (the algebra of one partial exit) and `DailyEntryCap` by `CountInv`: the counter of a day
  is the number of its OPENED entries. The invariants are proved of a `Call` with any order,
  sale or bar of the right type, which is why they hold for a backtest too
  (`BacktestKeepsTheBooks`), whose orders are made of candles and signals.
  `JournalTellsTheAccount` is inductive once a call is shown to append one entry that says
  what it did (`Recorded`), by `SumAdd`. `RunInv` is the invariant of a backtest: how many points the
  curve has in each phase (`Shape`), `Balanced` (cash and basis are the starting cash and the
  realized profit), and `Marks` (the last point is what a sale at the last close would
  leave); it gives `EquityIsExplained`. `DrawdownIsWorst` unfolds the fold of
  `_max_drawdown_pct`: after k points it knows the highest equity and the worst decline so far
  (`Knows`), and a decline to a point is no smaller a part of a higher peak (`HigherPeak`).
  This needs equities that are not negative (`Solvent`), which `FeesAreCovered` ensures: the flat
  fee is at most the cash buffer, and costs are at most 100 percent. The defaults are 0 and 0.
  The condition is needed: with a flat fee of 708, no buffer and a cash of 1320, TLC finds
  equities 1320, -458, 109, -620, where the reported decline (of 1320) is a smaller part of its
  peak than that from 109 to -620.
- **RiskGateProofs.** `QuantityBounds` shows what the minimum of the floors implies in INR;
  `OrdersFit` follows with `OneMore` for the number of positions. `IInv` adds `Covered` (a
  pending purchase was within the cash at what a share was worth when it was approved, and a
  pending sale is within the holding, until it fills), which gives `TypeOK` and, with the
  worth at the fill, `OverdraftIsBounded`; and for `HealthIsRecent` the relation of the cache's time stamp to the sample:
  stored within `MaxProbe`, so never stamped more than that later, by any thread.
- **NewsSentimentProofs.** An entry is safe from an article because the rows its cycle sees
  contain it, and that rests on the other cycles. `IInv` says: while the newest row is
  within the interval, whatever was out when the cycle that created it began is stored
  (`FreshIsComplete`); and a cycle that was answered, or needed no answer, knows what was out
  for long, in the store or in its own rows (`SessionIsComplete`). A commit carries the second
  over to the first, a `Begin` the first to the second, and the clock costs each at most the
  duration of a cycle: hence `Slack`. `FeedMisses` counts what an answer leaves out
  and `LeftOutForNewer` what the query of `assess` does; `OldBadNewsIsSeen` combines them.
- **ShadowTrainingProofs.** `TypeInv`, for any number of overlapping sessions: what a session
  holds would commit to a well-typed book. `ShadowInv` needs `Alone`, the operator's care,
  without which `shadow_race` refutes the first of its consequences: one session is open
  (`Exclusive`), and `BookOK` holds of the committed book *and* of the one the open session
  would leave. A commit exchanges the two, a roll-back or the end of the process drops the
  second, so only the steps inside a cycle are proved, as one of two changes of a book: rows
  advance (`Advance`: marked, rescaled, closed with their exit sample) or a row opens
  (`Opens`). From `BookOK` follow `OneOpenObservation`, `ExitRecordedOnce`,
  `MarkedOnItsDay`, `NoExitIsMissed`, `CooldownKept` and `LoserNotRetried`. Amounts
  belong to the row that has them (`Valued`), not to one budget. What the samples tell of an
  open row is told of the row as last marked (`AsMarked`), which a rescale leaves alone and a
  mark catches up with; a stale close of a rescaled row makes an exit that no cycle judged
  (`Judged`), of which only its price is claimed. `CooldownKept` and `LoserNotRetried` assume
  `Cooldown > 0` (20 minutes by default: with 0 an exit and an entry of one tick have no order,
  and the "latest" closed row is not one) and `NoExitIsMissed` assumes
  `Giveback > 0` (25 percent by default: with 0 a position at its peak has given it back).
  Both kinds of change leave what was last marked on an earlier day as it is, but for its
  status and a late rescale: a cycle closes what is stale before it marks, at the time of its
  last mark (`PastKept`). So the review of a day that is over changes at most in the amounts of
  rows rescaled late, neither between a request's read and its store nor after in anything
  else: `ReportsInv` says so of the stored rows and of open requests, and gives `SnapshotIsFinal` and `ReportsTypeOK`. `BookOK` also says what the samples of an
  observation tell (`Told`): they are in order, the last shows the row, none but the exit of
  a level is beyond its levels, and their peak says whether a profit was given back. The
  profit protection and the training report look at just that, hence
  `ReportsAgreeWithTheBook`, for `Giveback > 0` again. `TotalsAgree` compares sums that the
  code forms over different rows: stored reviews, the last sample of each symbol, exit
  samples, observations. The last sample of a symbol on a day is the last of its
  observation and shows it (`LastOfGroup`), so each total is the sum over the observations
  behind some samples (`PnlOfLasts`, by `SumReindex`); an observation of the day that is not
  behind one was replaced by a later entry of its symbol (`ReplacedOrLast`). That an exit
  at target is a profit, and that one at the session's close is of an earlier day, is part
  of `BookOK` (`RowOK`).
- **IntradayPipelineProofs.** `KillInv`: in a process of one thread a call past its
  evaluation runs only while the switch is not triggered; hence `KillSwitchLatches`. With
  two threads the switch can be lost (kill_switch.py:30), which is why the property speaks
  of one. `PipelineInv` gives the other invariants. Ids are drawn in order, and a call's row
  of the journal is what that call computed (`IdsOK`, `RowsOK`, `ReviewsOK`), so a virtual
  position is explained and an accepted signal was narrowed only. For the limit on open
  positions, those opened since a thread looked at it are mapped one to one to the signals
  the threads of the process have already worked off (`SlotsOK`): hence the limit less one
  and the signals of one snapshot per thread.

`NoConcurrentExecution` and `RowIsCreatedOnce` are proved of the whole specification and
have no run of their own: the refinement and `NoOperationUndoesAnother` fail with them.

Every safety invariant and every action property of the runs that pass is a theorem. Only
model-checked: liveness (`CallsReturn` of `system_state`, `CyclesComplete`, `NewsIsLearned`),
which the prover cannot reach.
Exposure sums are not evaluated in `RiskGateProofs`: the types
`PortfolioSnapshot` validates are a guard of `Evaluate`.

## 5. Correctness by component

- Order execution: at most one order per key; the store never says more than the broker;
  unknown outcomes are marked; a stop drains what read the row before it, and blocks the rest.
- System state: an operation is never undone by a concurrent one of another kind; reads fail
  closed; live mode is gated.
- Risk engine: an approval respects the rulebook at the moment of decision; at the fill a sale
  is covered, and an overdraft is the move of price and rate since.
- Paper engine and backtester: no money appears; the journal is the account; the limits of a
  day hold in any order of calls; what a backtest reports follows from its trades.
- Shadow system: a symbol is open at most once; an exit is recorded once and never reopened;
  pauses and cooldowns survive roll-backs and restarts.
- News: bad news is seen by every entry within a known delay; a refusal of the provider never
  holds up the exits that share its transaction, a broken connection does while it lasts; neither
  is the loss of an article.
- Reports: history does not change after the fact, unless a rescale rewrites it; two reports on one day agree, or differ
  by what is named; a recommendation is what the cycle did.
- Intraday pipeline: what is open is explained by the journal; agents can refuse and never
  add; the switch latches.

## 6. Plan

Done, in this order: orders, system state, paper, backtest, shadow, intraday, risk gate,
news with its proofs, reports and profit protection.

Next, in order of value:

1. The kill-switch latch of two server threads (kill_switch.py:30) as a property of its own.
2. The exit manager of the intraday package, checked against its definitions; token exchange.
3. The pre-market and end-of-day agents and their journal.

## 7. Not modelled, and why

- Shadow readiness: computed from settings, calendar and caches, it changes no state. Its
  search for the next session has no end if the calendar knows none.
- Market intelligence: its agents put into words what the modelled reports computed, decide
  nothing and write nothing but a log.
- Averages, correlations and advice of the performance and training reports: wording and
  statistics over the rows `ShadowReports` models.
- The exit manager of the intraday package, and the methods of its positions that mark and
  close them with the cost model, are called by tests only; its daily report and readiness
  compute numbers from journal rows of exits, which nothing writes.
- Strategies' indicator arithmetic: floating-point statistics over candles; their answer is
  a free choice of the calling module.
- Intraday model training: an offline fit.
- HTTP clients of data providers, e-mail, dashboard, migrations, PowerShell scripts: I/O.
- `/orders/reconcile` and `scripts/reconcile_orders.py` are stubs; nothing re-reconciles.
- The class-level FX cache; the provider cache is the broker cache's twin.
