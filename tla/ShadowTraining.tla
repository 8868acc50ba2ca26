--------------------------- MODULE ShadowTraining ---------------------------
(***************************************************************************)
(* ShadowTrainingService.run_cycle: one pass over the watchlists that      *)
(* opens, marks and closes hypothetical positions ("observations") and     *)
(* records training samples, all in one transaction.  The loop of          *)
(* run_shadow_training.py calls it again and again, one process at a time  *)
(* by a lock file; POST /shadow/run-cycle and the script's "once" call it  *)
(* without the lock; rescale_shadow_book.py rewrites the open rows.        *)
(*                                                                         *)
(* A session reads committed rows, changes them in memory and commits; the *)
(* UPDATE of a row writes the columns that differ from what was read.      *)
(***************************************************************************)
EXTENDS Integers, SequencesExt, FiniteSetsExt

CONSTANTS
  Loops,      \* processes that run the loop, and want its lock
  Callers,    \* API threads and scripts that run one cycle, without the lock
  Scripts,    \* runs of rescale_shadow_book
  Alone,      \* whether cycles and scripts outside the loop are only started while
              \* nothing else runs: the operator's care, which no code enforces
  Watchlist,  \* Watchlist[market]: the symbols, in order
  Quotes,     \* quotes with what the strategy says of them
  FxRates,    \* fresh USD/INR rates
  TicksPerDay, OpenTicks,            \* of a day's ticks, those the market is open
  Budgets,    \* the values shadow_hypothesis_notional_inr is configured with
  BookingProgress, BookingPnl, BookingPct,      \* intraday_profit_booking_*
  LockPnl, LockPct, Giveback,        \* intraday_min_profit_lock_*, _giveback_exit_pct
  Cooldown,                          \* intraday_reentry_cooldown_minutes
  Lookback,                          \* intraday_loss_discipline_lookback_minutes
  SymbolSamples, SymbolLossRate, SymbolLoss, SymbolLossPct,  \* intraday_symbol_loss_pause_*
  MarketSamples, MarketWinRate, MarketLoss,     \* intraday_market_loss_pause_*
  PreviousDays, PreviousLoss, PreviousLossPct,  \* intraday_previous_session_loss_pause_*
  MaxTime, MaxCycles,                \* bounds of this model
  None

VARIABLES
  now,           \* the clock, in ticks
  observations,  \* the committed shadow_observations, by id
  samples,       \* the committed shadow_training_samples
  lock,          \* the loop that holds the lock file, or None
  session,       \* session[p]: the open session of process p, or None
  cycles         \* cycles begun so far

vars == <<now, observations, samples, lock, session, cycles>>

-----------------------------------------------------------------------------
Processes == Loops \cup Callers \cup Scripts
Markets == {"INDIA", "US"}
Symbols == UNION {ToSet(Watchlist[m]) : m \in Markets}
Time == 0..MaxTime

ExitActions == {"EXIT_STOP_LOSS", "EXIT_TAKE_PROFIT", "EXIT_PROFIT_BOOKING",
                "EXIT_PROFIT_GIVEBACK", "EXIT_SESSION_CLOSE"}

\* A closed status is named by the exit action it stands for (_closed_status).
Status == {"OPEN_OBSERVATION"} \cup ExitActions

Quote == [price: Nat \ {0}, action: {"BUY", "NO_TRADE"}, stop_loss: Nat, take_profit: Nat]

\* The assessment kept with an observation is that of its entry; "latest" is the
\* price the latest assessment looked at.
Metadata == [stop_loss: Nat, take_profit: Nat, usd_inr: Nat \ {0}, latest: Nat,
             rescaled: BOOLEAN, reentry_blocked_until: Int \cup {None}]

ShadowObservation ==
  [market: Markets, symbol: Symbols, opened_at: Time, last_marked_at: Time,
   entry_price: Nat \ {0}, current_price: Nat \ {0}, quantity: Nat, notional: Nat,
   pnl: Int, status: Status, metadata: Metadata]

ShadowTrainingSample ==
  [observation: Nat, market: Markets, symbol: Symbols, sample_at: Int, price: Nat \ {0},
   pnl: Int, quantity: Nat, notional: Nat, kind: {"INTRADAY_MARK", "SHADOW_EXIT"}]

ASSUME ShadowAssumption ==
  /\ Watchlist \in [Markets -> Seq(STRING)]
  /\ \A m \in Markets : IsInjective(Watchlist[m])
  /\ ToSet(Watchlist["INDIA"]) \cap ToSet(Watchlist["US"]) = {}
  /\ Quotes \subseteq Quote
  /\ \A q \in Quotes : q.action = "BUY" => 0 < q.stop_loss /\ q.stop_loss < q.price /\ q.price < q.take_profit
  /\ FxRates \subseteq Nat \ {0}
  /\ TicksPerDay \in Nat \ {0} /\ OpenTicks \in SUBSET (0..TicksPerDay - 1)
  /\ Budgets \subseteq Nat \ {0}
  /\ {BookingProgress, BookingPct, LockPct, Giveback, SymbolLossRate, SymbolLossPct,
      MarketWinRate, PreviousLossPct} \subseteq 0..100
  /\ {BookingPnl, LockPnl, SymbolLoss, MarketLoss, PreviousLoss, Cooldown} \subseteq Nat
  /\ {SymbolSamples, MarketSamples, PreviousDays, Lookback} \subseteq Nat \ {0}
  /\ MaxTime \in Nat /\ MaxCycles \in Nat /\ Alone \in BOOLEAN
  /\ None \notin Int \cup Processes \cup ExitActions

\* _market_day_start_utc
DayStart(t) == (t \div TicksPerDay) * TicksPerDay

IsOpen(o) == o.status = "OPEN_OBSERVATION"

\* _shadow_size: whole shares that the budget buys.
Quantity(budget, entry_price, fx) == budget \div (entry_price * fx)

-----------------------------------------------------------------------------
(***************************************************************************)
(* Sessions.                                                               *)
(***************************************************************************)
\* What a session has read and changed: loaded and rows hold the rows it touched as
\* it read them and as they are in memory, new rows only in rows.  budget is the one
\* its process was started with: another process, or the same one started again, may
\* have another.
Empty == [id \in {} |-> None]

NewSession(markets, budget) ==
  [markets |-> markets, todo |-> << >>, market |-> "INDIA", fx |-> 1, budget |-> budget,
   loaded |-> Empty, rows |-> Empty, samples |-> << >>]

\* The UPDATE: a column is written when the session changed what it had read.
Write(current, before, after) ==
  [column \in DOMAIN current |->
     IF after[column] # before[column] THEN after[column] ELSE current[column]]

\* The table as a session sees it once it has flushed, and as it leaves it.
Table(s) ==
  [id \in DOMAIN observations \cup DOMAIN s.rows |->
     IF id \notin DOMAIN s.rows THEN observations[id]
     ELSE IF id \notin DOMAIN s.loaded THEN s.rows[id]
     ELSE Write(observations[id], s.loaded[id], s.rows[id])]

Samples(s) == samples \o s.samples

\* A table with a row changed, or added.
Put(table, id, row) ==
  [k \in DOMAIN table \cup {id} |-> IF k = id THEN row ELSE table[k]]

\* The session with a row changed, or added, and samples recorded.
WithRow(s, id, row, recorded) ==
  [s EXCEPT !.rows = Put(@, id, row),
            !.loaded = IF id \in DOMAIN s.rows \/ id \notin DOMAIN observations THEN @
                       ELSE Put(@, id, observations[id]),
            !.samples = @ \o recorded]

NewId ==
  LET used == DOMAIN observations
              \cup UNION {DOMAIN session[p].rows : p \in {p \in Processes : session[p] # None}}
  IN 1 + Max({0} \cup used)

Sample(id, o, kind, t) ==
  [observation |-> id, market |-> o.market, symbol |-> o.symbol, sample_at |-> t,
   price |-> o.current_price, pnl |-> o.pnl, quantity |-> o.quantity, notional |-> o.notional, kind |-> kind]

-----------------------------------------------------------------------------
(***************************************************************************)
(* Exits.                                                                  *)
(***************************************************************************)
\* part / whole >= percent / 100, for a positive whole.
AtLeast(part, percent, whole) == part * 100 >= percent * whole

\* A loss of at least an amount, or of at least a percentage of the notional.
Lost(pnl, notional, amount, percent) ==
  pnl <= -amount \/ AtLeast(-pnl, percent, notional)

\* Mutant: the warning that the stop is near is taken for an exit.
LevelExitNearStop(o) ==
  IF o.quantity > 0 /\ o.current_price <= o.metadata.stop_loss + 1 THEN "WATCH_STOP_CLOSELY" ELSE None

\* evaluate_observation of the exit service, as far as it closes.
LevelExit(o) ==
  LET gain == o.current_price - o.entry_price
      distance == o.metadata.take_profit - o.entry_price
  IN IF o.quantity <= 0 THEN None
     ELSE IF o.current_price <= o.metadata.stop_loss THEN "EXIT_STOP_LOSS"
     ELSE IF o.current_price >= o.metadata.take_profit THEN "EXIT_TAKE_PROFIT"
     ELSE IF o.pnl > 0 /\ distance > 0
             /\ (o.pnl >= BookingPnl \/ AtLeast(o.pnl, BookingPct, o.notional))
             /\ AtLeast(gain, BookingProgress, distance)
          THEN "EXIT_PROFIT_BOOKING"
     ELSE None

\* The first sample with the highest profit.
Peak(known, S) ==
  CHOOSE i \in S : \A j \in S \ {i} :
    \/ known[j].pnl < known[i].pnl
    \/ known[j].pnl = known[i].pnl /\ i < j

\* A peak worth protecting, of which enough has been given back.
HasGivenBack(peak, pnl) ==
  /\ peak.pnl > 0
  /\ peak.pnl >= LockPnl \/ AtLeast(peak.pnl, LockPct, peak.notional)
  /\ AtLeast(peak.pnl - pnl, Giveback, peak.pnl)

\* Mutant: the giveback is looked at from the fourth mark on.
GaveBackLate(o, id, known) ==
  LET path == {i \in DOMAIN known : known[i].observation = id}
  IN /\ Cardinality(path) > 2
     /\ HasGivenBack(known[Peak(known, path)], o.pnl)

\* _profit_path_exit_decision: the samples of the observation that are flushed.
GaveBack(o, id, known) ==
  LET path == {i \in DOMAIN known : known[i].observation = id}
  IN /\ Cardinality(path) >= 2
     /\ HasGivenBack(known[Peak(known, path)], o.pnl)

\* _apply_shadow_exit_policy: the exit action that is due, or None.
ExitDue(o, id, known) ==
  IF LevelExit(o) # None THEN LevelExit(o)
  ELSE IF GaveBack(o, id, known) THEN "EXIT_PROFIT_GIVEBACK"
  ELSE None

\* _close_shadow_observation
Closed(o, action, t) ==
  [o EXCEPT !.status = action, !.metadata.reentry_blocked_until = t + Cooldown]

-----------------------------------------------------------------------------
(***************************************************************************)
(* What keeps a new observation from being opened.                         *)
(***************************************************************************)
\* _active_reentry_cooldown: of the closed row that was marked last, whichever of
\* them when several were.
CoolingDown(table, latest) ==
  /\ latest # None
  /\ table[latest].metadata.reentry_blocked_until # None
  /\ table[latest].metadata.reentry_blocked_until > now

\* Mutant: the cooldown is that of the closed row marked first.
LatestClosedAscending(table, symbol) ==
  LET closed == {id \in DOMAIN table : table[id].symbol = symbol /\ ~IsOpen(table[id])}
  IN IF closed = {} THEN {None}
     ELSE {id \in closed : \A other \in closed :
                              table[other].last_marked_at >= table[id].last_marked_at}

LatestClosed(table, symbol) ==
  LET closed == {id \in DOMAIN table : table[id].symbol = symbol /\ ~IsOpen(table[id])}
  IN IF closed = {} THEN {None}
     ELSE {id \in closed : \A other \in closed :
                              table[other].last_marked_at <= table[id].last_marked_at}

\* The latest n of a set of samples, by time and then in the order of insertion.
Latest(known, S, n) ==
  {i \in S : Cardinality({j \in S : \/ known[j].sample_at > known[i].sample_at
                                    \/ known[j].sample_at = known[i].sample_at /\ j > i}) < n}

Pnl(known, S) == MapThenSumSet(LAMBDA i : known[i].pnl, S)
Notional(known, S) == MapThenSumSet(LAMBDA i : known[i].notional, S)

Sized(known, market) == {i \in DOMAIN known : known[i].market = market /\ known[i].quantity > 0}

Recent(known, market) == {i \in Sized(known, market) : known[i].sample_at >= now - Lookback}

\* _market_loss_pause
MarketPaused(known, market) ==
  LET latest == Latest(known, Recent(known, market), MarketSamples)
      winners == {i \in latest : known[i].pnl > 0}
  IN /\ Cardinality(latest) >= MarketSamples
     /\ Cardinality(winners) * 100 <= MarketWinRate * Cardinality(latest)
     /\ Pnl(known, latest) <= -MarketLoss

\* Mutant: the look back over sessions is counted in minutes.
PreviousSessionPausedInMinutes(known, market, symbol) ==
  LET previous == {i \in Sized(known, market) :
                     /\ known[i].symbol = symbol
                     /\ known[i].sample_at >= DayStart(now) - PreviousDays
                     /\ known[i].sample_at < DayStart(now)}
  IN \E i \in Latest(known, previous, 1) :
       Lost(known[i].pnl, known[i].notional, PreviousLoss, PreviousLossPct)

\* _previous_session_symbol_loss_pause
PreviousSessionPaused(known, market, symbol) ==
  LET previous == {i \in Sized(known, market) :
                     /\ known[i].symbol = symbol
                     /\ known[i].sample_at >= DayStart(now) - PreviousDays * TicksPerDay
                     /\ known[i].sample_at < DayStart(now)}
  IN \E i \in Latest(known, previous, 1) : 
    Lost(known[i].pnl, known[i].notional, PreviousLoss, PreviousLossPct)

\* _symbol_loss_pause
SymbolPaused(known, market, symbol) ==
  LET latest == Latest(known, {i \in Recent(known, market) : known[i].symbol = symbol}, SymbolSamples)
      losers == {i \in latest : known[i].pnl < 0}
  IN /\ Cardinality(latest) >= SymbolSamples
     /\ AtLeast(Cardinality(losers), SymbolLossRate, Cardinality(latest))
     /\ Lost(Pnl(known, latest), Notional(known, latest), SymbolLoss, SymbolLossPct)

\* _active_loss_discipline_pause
LossPaused(known, market, symbol) ==
  \/ MarketPaused(known, market)
  \/ PreviousSessionPaused(known, market, symbol)
  \/ SymbolPaused(known, market, symbol)

-----------------------------------------------------------------------------
(***************************************************************************)
(* A cycle.                                                                *)
(***************************************************************************)
Init ==
  /\ now = 0
  /\ observations = Empty
  /\ samples = << >>
  /\ lock = None
  /\ session = [p \in Processes |-> None]
  /\ cycles = 0

\* Mutant: the lock does not keep a second loop out.
LoopStartsAnyway(p) ==
  /\ lock' = p
  /\ UNCHANGED <<now, observations, samples, session, cycles>>

\* SingleLoopLock.__enter__; a second loop exits at once.
LoopStarts(p) ==
  /\ lock = None
  /\ lock' = p
  /\ UNCHANGED <<now, observations, samples, session, cycles>>

\* The process of the loop ends, whatever it was doing; the lock goes with it.
LoopDies(p) ==
  /\ lock = p
  /\ lock' = None
  /\ session' = [session EXCEPT ![p] = None]
  /\ UNCHANGED <<now, observations, samples, cycles>>

\* Mutant: a stale observation gets its exit, and stays open.
StaleExitOpen(o) ==
  [o EXCEPT !.metadata.reentry_blocked_until = Min({o.last_marked_at, DayStart(now) - 1}) + Cooldown]

\* _close_stale_intraday_observations: with the last mark, and at its time.
StaleExit(o) ==
  Closed(o, "EXIT_SESSION_CLOSE", Min({o.last_marked_at, DayStart(now) - 1}))

\* Mutant: only the observations of the day before yesterday and earlier are stale.
CloseStaleLate(s) ==
  LET stale == {id \in DOMAIN observations :
                  /\ IsOpen(observations[id])
                  /\ observations[id].opened_at < DayStart(now) - TicksPerDay}
      exit(id) == Sample(id, observations[id], "SHADOW_EXIT",
                         Min({observations[id].last_marked_at, DayStart(now) - 1}))
  IN [s EXCEPT !.loaded = [id \in stale |-> observations[id]],
               !.rows = [id \in stale |-> StaleExit(observations[id])],
               !.samples = SetToSeq({exit(id) : id \in stale})]

CloseStale(s) ==
  LET stale == {id \in DOMAIN observations :
                  IsOpen(observations[id]) /\ observations[id].opened_at < DayStart(now)}
      exit(id) == Sample(id, observations[id], "SHADOW_EXIT",
                         Min({observations[id].last_marked_at, DayStart(now) - 1}))
  IN [s EXCEPT !.loaded = [id \in stale |-> observations[id]],
               !.rows = [id \in stale |-> StaleExit(observations[id])],
               !.samples = SetToSeq({exit(id) : id \in stale})]

MayBegin(p) ==
  /\ session[p] = None
  /\ p \in Loops => lock = p
  /\ Alone => \A q \in Processes : session[q] = None \/ {p, q} \subseteq Loops
  /\ cycles < MaxCycles

BeginCycle(p) ==
  /\ MayBegin(p)
  /\ \E budget \in Budgets :
       session' = [session EXCEPT ![p] = CloseStale(NewSession(<<"INDIA", "US">>, budget))]
  /\ cycles' = cycles + 1
  /\ UNCHANGED <<now, observations, samples, lock>>

\* _run_india_cycle and _run_us_cycle: the calendar, and for the US a fresh rate.
StartMarket(p) ==
  LET s == session[p]
      market == Head(s.markets)
  IN /\ s # None /\ s.todo = << >> /\ s.markets # << >>
     /\ \/ /\ now % TicksPerDay \in OpenTicks
           /\ \E fx \in IF market = "US" THEN FxRates ELSE {1} :
                session' = [session EXCEPT ![p] =
                  [s EXCEPT !.markets = Tail(@), !.market = market, !.fx = fx,
                            !.todo = Watchlist[market]]]
        \/ /\ now % TicksPerDay \notin OpenTicks \/ market = "US"
           /\ session' = [session EXCEPT ![p] = [s EXCEPT !.markets = Tail(@)]]
     /\ UNCHANGED <<now, observations, samples, lock, cycles>>

\* The else branch of _record_shadow_observation.
Marked(o, quote, fx, budget) ==
  LET quantity == Quantity(budget, o.entry_price, fx)
  IN [o EXCEPT !.quantity = quantity,
               !.notional = quantity * o.entry_price * fx,
               !.current_price = quote.price,
               !.last_marked_at = now,
               !.pnl = (quote.price - o.entry_price) * quantity * fx,
               !.metadata.usd_inr = fx,
               !.metadata.latest = quote.price]

NewObservation(market, symbol, quote, fx, budget) ==
  LET quantity == Quantity(budget, quote.price, fx)
  IN [market |-> market, symbol |-> symbol, opened_at |-> now, last_marked_at |-> now,
      entry_price |-> quote.price, current_price |-> quote.price,
      quantity |-> quantity, notional |-> quantity * quote.price * fx, pnl |-> 0,
      status |-> "OPEN_OBSERVATION",
      metadata |-> [stop_loss |-> quote.stop_loss, take_profit |-> quote.take_profit,
                    usd_inr |-> fx, latest |-> quote.price, rescaled |-> FALSE,
                    reentry_blocked_until |-> None]]

\* The end of _record_shadow_observation: a sample of the row as it is now, and its
\* exit when one is due.  The sample is not flushed when the exit looks at the others.
Record(s, id, o) ==
  LET action == ExitDue(o, id, Samples(s))
      mark == Sample(id, o, "INTRADAY_MARK", now)
  IN IF action = None THEN WithRow(s, id, o, <<mark>>)
     ELSE WithRow(s, id, Closed(o, action, now), <<mark, Sample(id, o, "SHADOW_EXIT", now)>>)

NextSymbol(s) == [s EXCEPT !.todo = Tail(@)]

OpenRows(s, symbol) ==
  {id \in DOMAIN Table(s) : Table(s)[id].symbol = symbol /\ IsOpen(Table(s)[id])}

\* One symbol: no quote (a TradingAlphaError), or no usable price in it.
SymbolBlocked(p) ==
  LET s == session[p]
  IN /\ s # None /\ s.todo # << >>
     /\ session' = [session EXCEPT ![p] = NextSymbol(s)]
     /\ UNCHANGED <<now, observations, samples, lock, cycles>>

\* The symbol has an open row: the first the SELECT returns is marked.
MarkOpen(p, quote) ==
  LET s == session[p]
      symbol == Head(s.todo)
  IN /\ s # None /\ s.todo # << >>
     /\ \E id \in OpenRows(s, symbol) :
          session' = [session EXCEPT ![p] =
            NextSymbol(Record(s, id, Marked(Table(s)[id], quote, s.fx, s.budget)))]
     /\ UNCHANGED <<now, observations, samples, lock, cycles>>

MayEnter(s, symbol, quote) ==
  /\ OpenRows(s, symbol) = {}
  /\ quote.action = "BUY"
  /\ \E latest \in LatestClosed(Table(s), symbol) : ~CoolingDown(Table(s), latest)
  /\ ~LossPaused(Samples(s), s.market, symbol)

OpenNew(p, quote) ==
  LET s == session[p]
      symbol == Head(s.todo)
  IN /\ s # None /\ s.todo # << >>
     /\ MayEnter(s, symbol, quote)
     /\ session' = [session EXCEPT ![p] =
          NextSymbol(Record(s, NewId, NewObservation(s.market, symbol, quote, s.fx, s.budget)))]
     /\ UNCHANGED <<now, observations, samples, lock, cycles>>

\* No row is open and none is opened: for the strategy, the news, the cooldown or
\* the loss discipline.  The news may block any entry.
EntryBlocked(p) ==
  LET s == session[p]
  IN /\ s # None /\ s.todo # << >>
     /\ OpenRows(s, Head(s.todo)) = {}
     /\ session' = [session EXCEPT ![p] = NextSymbol(s)]
     /\ UNCHANGED <<now, observations, samples, lock, cycles>>

Commit(p) ==
  LET s == session[p]
  IN /\ s # None /\ s.todo = << >> /\ s.markets = << >>
     /\ observations' = Table(s)
     /\ samples' = Samples(s)
     /\ session' = [session EXCEPT ![p] = None]
     /\ UNCHANGED <<now, lock, cycles>>

\* Any other exception, of any symbol, rolls the whole cycle back.
Rollback(p) ==
  /\ session[p] # None
  /\ session' = [session EXCEPT ![p] = None]
  /\ UNCHANGED <<now, observations, samples, lock, cycles>>

-----------------------------------------------------------------------------
\* The amounts of a row at the price and the rate of its last mark, for another budget.
\* No sample is recorded and no exit looked at.
Rescaled(o, budget) ==
  LET quantity == Quantity(budget, o.entry_price, o.metadata.usd_inr)
  IN [o EXCEPT !.quantity = quantity,
               !.notional = quantity * o.entry_price * o.metadata.usd_inr,
               !.pnl = (o.current_price - o.entry_price) * quantity * o.metadata.usd_inr,
               !.metadata.rescaled = TRUE]

\* rescale_shadow_book: reads every open row, also one left of an earlier day, computes
\* it anew; Commit writes it.
Rescale(p) ==
  LET open == {id \in DOMAIN observations : IsOpen(observations[id])}
  IN /\ MayBegin(p)
     /\ \E budget \in Budgets :
          session' = [session EXCEPT ![p] =
            [NewSession(<< >>, budget) EXCEPT
               !.loaded = [id \in open |-> observations[id]],
               !.rows = [id \in open |-> Rescaled(observations[id], budget)]]]
     /\ cycles' = cycles + 1
     /\ UNCHANGED <<now, observations, samples, lock>>

\* Time passes, during a cycle too; but a cycle does not last over midnight.
Tick ==
  /\ now < MaxTime
  /\ (now + 1) % TicksPerDay = 0 => \A p \in Processes : session[p] = None
  /\ now' = now + 1
  /\ UNCHANGED <<observations, samples, lock, session, cycles>>

Cycle(p) ==
  \/ BeginCycle(p) \/ StartMarket(p) \/ SymbolBlocked(p) \/ EntryBlocked(p)
  \/ \E quote \in Quotes : MarkOpen(p, quote) \/ OpenNew(p, quote)

Next ==
  \/ \E p \in Loops : LoopStarts(p) \/ LoopDies(p)
  \/ \E p \in Loops \cup Callers : Cycle(p)
  \/ \E p \in Scripts : Rescale(p)
  \/ \E p \in Processes : Commit(p) \/ Rollback(p)
  \/ Tick

Spec == Init /\ [][Next]_vars

-----------------------------------------------------------------------------
(***************************************************************************)
(* What makes it correct.                                                  *)
(***************************************************************************)
\* Every variable stays in its type; sessions are typed by what they commit.
TypeOK ==
  /\ now \in Time
  /\ DOMAIN observations \subseteq Nat
  /\ \A id \in DOMAIN observations : observations[id] \in ShadowObservation
  /\ samples \in Seq(ShadowTrainingSample)
  /\ lock \in Loops \cup {None}
  /\ DOMAIN session = Processes
  /\ cycles \in 0..MaxCycles

\* At most one observation of a symbol is open, which no constraint of the table says.
OneOpenObservation ==
  \A a, b \in DOMAIN observations :
    /\ observations[a].symbol = observations[b].symbol
    /\ IsOpen(observations[a]) /\ IsOpen(observations[b])
    => a = b

Exits(id) ==
  {i \in DOMAIN samples : samples[i].observation = id /\ samples[i].kind = "SHADOW_EXIT"}

\* Every closed observation has exactly one exit sample, which has its final profit;
\* an open one has none.
ExitRecordedOnce ==
  \A id \in DOMAIN observations :
    IF IsOpen(observations[id]) THEN Exits(id) = {}
    ELSE \E i \in Exits(id) : Exits(id) = {i} /\ samples[i].pnl = observations[id].pnl

\* No observation is marked on another day than the day it was opened on, whenever
\* the loop was down and whatever was rolled back: "Intraday shadow observations
\* cannot carry overnight" (shadow_training_service.py:722).
MarkedOnItsDay ==
  \A i \in DOMAIN samples :
    DayStart(samples[i].sample_at) = DayStart(observations[samples[i].observation].opened_at)

ExitTime(id) == Min({samples[i].sample_at : i \in Exits(id)})

\* A symbol is entered again only when its cooldown after every earlier exit is over.
CooldownKept ==
  \A a, b \in DOMAIN observations :
    /\ a # b /\ observations[a].symbol = observations[b].symbol
    /\ ~IsOpen(observations[b])
    /\ observations[b].opened_at <= observations[a].opened_at
    => observations[a].opened_at >= ExitTime(b) + Cooldown

\* A symbol whose last observation of the days before ended in the loss that pauses
\* it is not entered: the pause looks at samples, the loss is that of the observation.
LoserNotRetried ==
  \A a \in DOMAIN observations :
    LET today == DayStart(observations[a].opened_at)
        before == {b \in DOMAIN observations :
                     /\ observations[b].symbol = observations[a].symbol
                     /\ observations[b].opened_at \in today - PreviousDays * TicksPerDay .. today - 1
                     /\ ~IsOpen(observations[b])}
    IN \A b \in before :
         observations[b].quantity > 0 /\ (\A c \in before : ExitTime(c) <= ExitTime(b)) =>
           ~Lost(observations[b].pnl, observations[b].notional, PreviousLoss, PreviousLossPct)

\* An observation with the amounts of its last mark, which a rescale may have replaced
\* since while it is open.
AsMarked(o, id, known) ==
  LET last == known[Max({i \in DOMAIN known : known[i].observation = id})]
  IN IF ~IsOpen(o) \/ ~o.metadata.rescaled THEN o
     ELSE [o EXCEPT !.quantity = last.quantity, !.notional = last.notional, !.pnl = last.pnl]

\* What a cycle committed of an open observation leaves no exit due: its last mark is
\* within its levels and has not given back its peak, though the exit of a cycle is
\* decided before its own sample is flushed.  (The amounts a rescale writes after it
\* are compared with the peak of the old ones only by the next cycle.)
NoExitIsMissed ==
  \A id \in DOMAIN observations :
    IsOpen(observations[id]) => ExitDue(AsMarked(observations[id], id, samples), id, samples) = None
=============================================================================
