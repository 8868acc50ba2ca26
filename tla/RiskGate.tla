------------------------------ MODULE RiskGate ------------------------------
(***************************************************************************)
(* The gate every order of the documented pipeline passes (README.md:18):  *)
(* RiskEngine.evaluate with its rule modules (app/risk) approves a         *)
(* candidate with a quantity, or rejects it.  The gate reads the broker's  *)
(* health from BrokerService's cache, which the threads of the API server  *)
(* share without a lock, and a snapshot of the portfolio.                  *)
(*                                                                         *)
(* The repository has no caller that joins the two: TradingThread asks for *)
(* the statuses, evaluates one candidate and waits for its order before it *)
(* evaluates the next.  The order fills at the price and the rate of its   *)
(* fill, which nothing ties to those of the approval.                      *)
(*                                                                         *)
(* Amounts are integers in INR, a percentage is an integer over Scale and  *)
(* a clock tick is a second of any length; floor is \div.                  *)
(***************************************************************************)
EXTENDS Integers, FiniteSets, FiniteSetsExt

CONSTANTS
  None,
  Threads, TradingThread,   \* threads that ask BrokerService for the statuses
  Symbols, Market,          \* Market[s] is "INDIA" or "US"
  Prices,                   \* Prices[s]: the prices s can have, in its own currency
  FxRates,                  \* the USD/INR rates
  StartingCash,
  Scale,
  RiskConfig,               \* the limits of schemas/risk.py
  QuoteLimits,              \* the live market-quality limits of the settings
  Candidates,               \* [symbol, action, ..., stop]: stop is a distance or None
  Inputs,                   \* the other arguments a caller can pass
  Answers,                  \* what a broker can answer to a health check
  CacheTtl, MaxProbe,       \* ticks a record is served, and a health check can take
  MaxTime, MaxOrders        \* bounds of the model

Markets == {"INDIA", "US"}

ASSUME RiskGateAssumption ==
  /\ TradingThread \in Threads
  /\ None \notin Int /\ IsFiniteSet(Symbols) /\ Market \in [Symbols -> Markets]
  /\ Prices \in [Symbols -> SUBSET (Nat \ {0})] /\ FxRates \subseteq Nat \ {0}
  /\ StartingCash \in Nat /\ Scale \in Nat \ {0}
  /\ CacheTtl \in Nat /\ MaxProbe \in Nat

ASSUME CandidateAssumption ==
  \A c \in Candidates : /\ c.symbol \in Symbols /\ c.market = Market[c.symbol]
                        /\ c.asset_class \in {"STOCK", "ETF"}
                        /\ c.stop \in Nat \cup {None}

ASSUME RiskConfigAssumption ==
  /\ RiskConfig.max_risk_per_trade \in Nat
  /\ RiskConfig.max_position \in [{"STOCK", "ETF"} -> Nat]
  /\ RiskConfig.max_total_exposure \in Nat /\ RiskConfig.max_exposure \in [Markets -> Nat]
  /\ RiskConfig.max_open_total \in Nat /\ RiskConfig.max_open \in [Markets -> Nat]

VARIABLES
  cash, held, price, fx,    \* the account at the broker and the market
  decision,                 \* the decision whose order is not filled yet
  orders,                   \* number of fills so far
  clock,
  cache, cache_at,          \* BrokerService._cache and _cache_at
  pc, asked, probed         \* per thread: where it is, its `now`, what it probed

book == <<cash, held>>
market == <<price, fx>>
service == <<cache, cache_at, pc, asked, probed>>
vars == <<book, market, decision, orders, clock, service>>

-----------------------------------------------------------------------------
(* The portfolio snapshot: positions valued at the last price.  The bounds of
   its fields are the ones PortfolioSnapshot validates. *)

Rate(m) == IF m = "US" THEN fx ELSE 1

\* What a share is worth in INR.
Worth(s) == price[s] * Rate(Market[s])

Open(m) == {s \in Symbols : Market[s] = m /\ held[s] > 0}

Exposure(m) == MapThenSumSet(LAMBDA s : held[s] * Worth(s), Open(m))

Portfolio ==
  [cash |-> cash, exposure |-> [m \in Markets |-> Exposure(m)],
   equity |-> Exposure("INDIA") + Exposure("US"),
   total |-> cash + Exposure("INDIA") + Exposure("US")]

PortfolioSnapshot ==
  [cash: Nat, exposure: [Markets -> Nat], equity: Nat, total: Nat \ {0}]

-----------------------------------------------------------------------------
(* The rules.  `in` is what the caller passes besides the candidate. *)

SystemAllows(in) ==
  /\ ~in.state.kill_switch
  /\ in.state.live_capable => in.state.live_trading_enabled /\ in.state.settings_safe

ComplianceApproved(status) ==
  /\ status.can_place_live_orders
  /\ status.algo_compliance_required =>
       status.strategy_registered /\ status.broker_approved /\ status.has_identifier

ComplianceAllows(m, in) ==
  m = "INDIA" /\ in.state.live_capable =>
    in.compliance # None /\ in.compliance.market = m /\ ComplianceApproved(in.compliance)

BrokerAllows(m, health) ==
  /\ health # None
  /\ health.market = m /\ health.auth = "VALID"
  /\ health.active /\ health.trading_enabled /\ health.positions_reconciled

\* A provider whose check raises, lacks credentials or answers no is not FRESH.
HealthyForLive(check) == check.credentials /\ ~check.raises /\ check.healthy

ProvidersAllow(m, in) ==
  in.providers # {} /\ \A p \in in.providers : p.market = m /\ HealthyForLive(p.check)

\* MarketCalendar.status of an instant: day is what the configuration and the list
\* of holidays say of its date, minute its time on the exchange's clock.
SessionOpen == [INDIA |-> 555, US |-> 570]
SessionClose == [INDIA |-> 930, US |-> 960]

CalendarState(m, day, minute) ==
  LET close == IF day.early_close = None THEN SessionClose[m] ELSE day.early_close
  IN IF ~day.config_valid \/ ~day.holidays_known THEN "UNKNOWN"
     ELSE IF (day.weekend \/ day.holiday) /\ ~day.special_open THEN "CLOSED"
     ELSE IF close <= SessionOpen[m] THEN "UNKNOWN"
     ELSE IF minute \in SessionOpen[m]..(close - 1) THEN "OPEN" ELSE "CLOSED"

CalendarAllows(m, in) ==
  /\ in.calendar # None /\ in.calendar.market = m
  /\ CalendarState(m, in.calendar.day, in.calendar.minute) = "OPEN"

\* FXRateStatus.is_fresh; age is None when the rate was never fetched.
FxFresh(status) ==
  /\ status.freshness = "FRESH" /\ status.has_rate /\ status.age # None
  /\ status.age <= status.stale_after

FxAllows(m, in) == m = "US" => in.fx # None /\ FxFresh(in.fx)

StopAllows(c) == c.stop # None /\ c.stop # 0

LossesAllow(total, in) ==
  /\ -in.daily_pnl * Scale <= RiskConfig.max_daily_loss * total
  /\ -in.weekly_pnl * Scale <= RiskConfig.max_weekly_loss * total
  /\ in.monthly_drawdown <= RiskConfig.max_monthly_drawdown
  /\ in.total_drawdown <= RiskConfig.max_total_drawdown

\* Mutant: a price in USD is taken for one in INR.
RateUsedIsOne(c, in) == IF c.market # "US" \/ in.fx = None THEN 1 ELSE IF in.fx.has_rate THEN 1 ELSE None

\* The rate is a field of the status; a status may come without one.
RateUsed(c, in) ==
  IF c.market # "US" \/ in.fx = None THEN 1 ELSE IF in.fx.has_rate THEN fx ELSE None

Notional(c, quote, rate) ==
  IF quote.notional # None THEN quote.notional
  ELSE IF quote.average_volume = None \/ rate = None THEN None
  ELSE price[c.symbol] * quote.average_volume * rate

LiquidityAllows(c, in) ==
  LET quote == in.quote
      required == in.state.quotes_required
      rate == IF c.market = "US" /\ in.fx = None THEN None ELSE RateUsed(c, in)
  IN /\ "illiquid" \notin c.risk_flags
     /\ IF quote = None THEN ~required
        ELSE IF quote.volume = None /\ quote.average_volume = None THEN ~required
        ELSE /\ quote.volume # None => quote.volume >= QuoteLimits.min_volume
             /\ quote.average_volume # None =>
                  quote.average_volume >= QuoteLimits.min_average_volume
             /\ IF Notional(c, quote, rate) = None THEN ~required
                ELSE Notional(c, quote, rate) >= QuoteLimits.min_notional

SlippageAllows(c, in) ==
  /\ "high_slippage" \notin c.risk_flags
  /\ IF in.quote = None \/ in.quote.spread = None THEN ~in.state.quotes_required
     ELSE /\ in.quote.spread <= QuoteLimits.max_spread
          /\ in.quote.slippage # None => in.quote.slippage <= QuoteLimits.max_slippage

RewardAllows(c) == c.reward_risk >= RiskConfig.min_reward_risk

OpenPositionsAllow(c) ==
  c.action = "BUY" =>
    /\ Cardinality(Open("INDIA") \cup Open("US")) < RiskConfig.max_open_total
    /\ Cardinality(Open(c.market)) < RiskConfig.max_open[c.market]

\* Mutant: the limits are compared before the order, not after it.
ExposureAllowsBefore(c, capital, p) ==
  /\ p.equity * Scale <= p.total * RiskConfig.max_total_exposure
  /\ p.exposure[c.market] * Scale <= p.total * RiskConfig.max_exposure[c.market]

\* A sale also waits until the exposure is back under its limits: its order value
\* counts as 0, what the portfolio has already is still compared.
ExposureAllows(c, capital, p) ==
  LET order_value == IF c.action = "BUY" THEN capital ELSE 0
  IN /\ (p.equity + order_value) * Scale <= p.total * RiskConfig.max_total_exposure
     /\ (p.exposure[c.market] + order_value) * Scale
          <= p.total * RiskConfig.max_exposure[c.market]

-----------------------------------------------------------------------------
(* Position sizing: the least of four floors, in shares at the price in INR. *)

QuantityByRisk(total, stop_inr) ==
  IF stop_inr = 0 THEN 0 ELSE (total * RiskConfig.max_risk_per_trade) \div (Scale * stop_inr)

AtLeastZero(n) == IF n < 0 THEN 0 ELSE n

AtMost(n, m) == IF n <= m THEN n ELSE m

CapQuantity(c, p, by_risk, entry_inr) ==
  LET by_position == (p.total * RiskConfig.max_position[c.asset_class]) \div (Scale * entry_inr)
      by_cash == IF c.action = "BUY" THEN p.cash \div entry_inr ELSE by_risk
      room == AtLeastZero(p.total * RiskConfig.max_exposure[c.market] - p.exposure[c.market] * Scale)
      by_exposure == room \div (Scale * entry_inr)
  IN AtMost(AtMost(by_risk, by_position), AtMost(by_cash, by_exposure))

\* Mutant: a sale is not cut to the holding.
QuantityOfAnySide(c, p, entry_inr, stop_inr) ==
  AtLeastZero(CapQuantity(c, p, QuantityByRisk(p.total, stop_inr), entry_inr))

Quantity(c, p, entry_inr, stop_inr) ==
  LET capped == AtLeastZero(CapQuantity(c, p, QuantityByRisk(p.total, stop_inr), entry_inr))
  IN IF c.action = "SELL" THEN AtMost(capped, held[c.symbol]) ELSE capped

-----------------------------------------------------------------------------
(* BrokerService.statuses.  Both brokers are asked in one step, which may take
   MaxProbe ticks; the attributes are written, and read again, one by one. *)

Down(m) == [market |-> m, auth |-> "INVALID", active |-> FALSE,
            trading_enabled |-> FALSE, positions_reconciled |-> FALSE]

\* reconcile_positions fetches the positions and compares them with nothing.
BrokerHealth(m, answer) ==
  IF ~answer.credentials THEN [Down(m) EXCEPT !.auth = "MISSING_CREDENTIALS"]
  ELSE IF answer.raises THEN Down(m)
  ELSE [market |-> m, auth |-> IF answer.session_valid THEN "VALID" ELSE "EXPIRED",
        active |-> answer.active, trading_enabled |-> answer.trading_enabled,
        positions_reconciled |-> TRUE]

\* Mutant: a record that is there is fresh.
CacheIsThere == cache # None /\ cache_at # None

CacheIsFresh == cache # None /\ cache_at # None /\ clock - cache_at <= CacheTtl

At(t, place) == pc' = [pc EXCEPT ![t] = place]

Ask(t) ==
  /\ pc[t] = "idle"
  /\ t = TradingThread => decision = None
  /\ IF CacheIsFresh THEN At(t, "serve") ELSE At(t, "probe")
  /\ asked' = [asked EXCEPT ![t] = clock]
  /\ UNCHANGED <<book, market, decision, orders, clock, cache, cache_at, probed>>

Probe(t) ==
  /\ pc[t] = "probe"
  /\ \E answer \in [Markets -> Answers] :
       probed' = [probed EXCEPT ![t] =
         [sampled |-> clock, health |-> [m \in Markets |-> BrokerHealth(m, answer[m])]]]
  /\ At(t, "store")
  /\ UNCHANGED <<book, market, decision, orders, clock, cache, cache_at, asked>>

Store(t) ==
  /\ pc[t] = "store"
  /\ cache' = probed[t]
  /\ probed' = [probed EXCEPT ![t] = None]
  /\ At(t, "stamp")
  /\ UNCHANGED <<book, market, decision, orders, clock, cache_at, asked>>

Stamp(t) ==
  /\ pc[t] = "stamp"
  /\ cache_at' = asked[t]
  /\ At(t, "serve")
  /\ UNCHANGED <<book, market, decision, orders, clock, cache, asked, probed>>

\* A thread that only shows the statuses: the routes and the reports.
Show(t) ==
  /\ pc[t] = "serve" /\ t # TradingThread
  /\ At(t, "idle")
  /\ UNCHANGED <<book, market, decision, orders, clock, cache, cache_at, asked, probed>>

-----------------------------------------------------------------------------
(* RiskEngine.evaluate, in one step: it reads only its arguments. *)

Health(in) == IF in.broker = None THEN None ELSE cache.health[in.broker]

Allows(c, p, in) ==
  /\ SystemAllows(in)
  /\ ComplianceAllows(c.market, in)
  /\ BrokerAllows(c.market, Health(in))
  /\ ProvidersAllow(c.market, in)
  /\ CalendarAllows(c.market, in)
  /\ FxAllows(c.market, in)
  /\ StopAllows(c)
  /\ LossesAllow(p.total, in)
  /\ LiquidityAllows(c, in)
  /\ SlippageAllows(c, in)
  /\ RewardAllows(c)
  /\ OpenPositionsAllow(c)
  /\ c.action = "SELL" => held[c.symbol] > 0
  /\ c.action = "BUY" => p.cash > 0

\* With the approval are kept, for the properties, what a share was worth in INR and
\* how old the health record was.
Approval(c, p, in) ==
  LET entry_inr == price[c.symbol] * RateUsed(c, in)
      stop_inr == c.stop * RateUsed(c, in)
      quantity == Quantity(c, p, entry_inr, stop_inr)
  IN [symbol |-> c.symbol, asset_class |-> c.asset_class, action |-> c.action,
      quantity |-> quantity, capital |-> quantity * entry_inr, risk |-> quantity * stop_inr,
      worth |-> Worth(c.symbol), health_age |-> clock - cache.sampled]

Trades(c) == c.action \in {"BUY", "SELL"}

\* A status without a rate is multiplied with the price before the reasons count:
\* the TypeError leaves the caller without a decision.
Raises(c, in) == Trades(c) /\ c.market = "US" /\ in.fx # None /\ ~in.fx.has_rate /\ c.stop # None

\* PortfolioSnapshot validates what it is built from: there is none of an overdrawn
\* account, and nothing is approved for it, a sale neither.
Approves(c, p, in) ==
  /\ p \in PortfolioSnapshot
  /\ Trades(c) /\ ~Raises(c, in) /\ Allows(c, p, in)
  /\ Approval(c, p, in).quantity > 0
  /\ ExposureAllows(c, Approval(c, p, in).capital, p)

\* What the caller is left with: the approval, or no order.
Decisions(p) ==
  {IF Approves(c, p, in) THEN Approval(c, p, in) ELSE None : c \in Candidates, in \in Inputs}

Evaluate ==
  /\ pc[TradingThread] = "serve"
  /\ decision' \in Decisions(Portfolio)
  /\ At(TradingThread, "idle")
  /\ UNCHANGED <<book, market, orders, clock, cache, cache_at, asked, probed>>

-----------------------------------------------------------------------------
(* Outside the repository: fills, prices, time. *)

\* The broker fills a part of the order, or nothing, at the price and the rate of that
\* moment (an order may be a MARKET order, and one with a limit fills when the market
\* has come to it), and the caller takes the fill over before it evaluates again.
Fill ==
  /\ decision # None /\ orders < MaxOrders
  /\ \E q \in 0..decision.quantity :
       \/ /\ decision.action = "BUY"
          /\ cash' = cash - q * Worth(decision.symbol)
          /\ held' = [held EXCEPT ![decision.symbol] = @ + q]
       \/ /\ decision.action = "SELL"
          /\ cash' = cash + q * Worth(decision.symbol)
          /\ held' = [held EXCEPT ![decision.symbol] = @ - q]
  /\ decision' = None
  /\ orders' = orders + 1
  /\ UNCHANGED <<market, clock, service>>

PriceMoves ==
  /\ \/ \E s \in Symbols : \E p \in Prices[s] : price' = [price EXCEPT ![s] = p] /\ fx' = fx
     \/ \E r \in FxRates : fx' = r /\ price' = price
  /\ UNCHANGED <<book, decision, orders, clock, service>>

\* The requests of a health check have timeouts; all other steps are quick.
Tick ==
  /\ clock < MaxTime
  /\ \A t \in Threads : \/ pc[t] = "idle"
                        \/ pc[t] = "store" /\ clock < probed[t].sampled + MaxProbe
  /\ clock' = clock + 1
  /\ UNCHANGED <<book, market, decision, orders, service>>

LastPrices == {p \in [Symbols -> UNION {Prices[s] : s \in Symbols}] : \A s \in Symbols : p[s] \in Prices[s]}

Init ==
  /\ cash = StartingCash /\ held = [s \in Symbols |-> 0]
  /\ price \in LastPrices /\ fx \in FxRates
  /\ decision = None /\ orders = 0 /\ clock = 0
  /\ cache = None /\ cache_at = None
  /\ pc = [t \in Threads |-> "idle"]
  /\ asked = [t \in Threads |-> 0] /\ probed = [t \in Threads |-> None]

Next ==
  \/ \E t \in Threads : Ask(t) \/ Probe(t) \/ Store(t) \/ Stamp(t) \/ Show(t)
  \/ Evaluate \/ Fill \/ PriceMoves \/ Tick

Spec == Init /\ [][Next]_vars

-----------------------------------------------------------------------------
(***************************************************************************)
(* Properties.                                                             *)
(***************************************************************************)

Approved ==
  [symbol: Symbols, asset_class: {"STOCK", "ETF"}, action: {"BUY", "SELL"},
   quantity: Nat \ {0}, capital: Nat, risk: Nat, worth: Nat \ {0}, health_age: Int]

\* Every variable stays in its type: no approved order sells what is not there
\* (risk_rulebook.md:10, "Long-only rule satisfied").  The cash may be negative.
TypeOK ==
  /\ cash \in Int /\ held \in [Symbols -> Nat]
  /\ price \in [Symbols -> Nat \ {0}] /\ fx \in FxRates
  /\ decision \in Approved \cup {None}
  /\ orders \in Nat /\ clock \in Nat

\* Only the move of the price and the rate between an approval and its fill can
\* overdraw the account (schemas/order.py:15 allows MARKET orders, and nothing fixes
\* the rate): by no more than that move on the approved quantity, and never twice,
\* because nothing is approved for an overdrawn account (schemas/portfolio.py:11).
OverdraftIsTheMove ==
  [][cash' # cash /\ cash' < 0 =>
       /\ cash >= 0
       /\ decision.action = "BUY"
       /\ -cash' <= decision.quantity * (Worth(decision.symbol) - decision.worth)]_vars

\* An approved order, valued at its entry price, leaves the portfolio within every
\* limit of RiskConfig the rulebook names, whichever of the four floors decided
\* its size and in whichever currency its price is: the total exposure, the
\* market's, the order's own share, its loss at the stop, the number of positions.
Within(part, limit, total) == part * Scale <= limit * total

OrderFits(d) ==
  LET m == Market[d.symbol]
      total == Portfolio.total
  IN /\ d.action = "BUY" =>
          /\ d.capital <= cash
          /\ Within(Portfolio.equity + d.capital, RiskConfig.max_total_exposure, total)
          /\ Within(Portfolio.exposure[m] + d.capital, RiskConfig.max_exposure[m], total)
          /\ Cardinality({s \in Symbols : held[s] > 0} \cup {d.symbol}) <= RiskConfig.max_open_total
          /\ Cardinality(Open(m) \cup {d.symbol}) <= RiskConfig.max_open[m]
     /\ d.action = "SELL" => d.quantity <= held[d.symbol]
     /\ Within(d.risk, RiskConfig.max_risk_per_trade, total)
     /\ Within(d.capital, RiskConfig.max_position[d.asset_class], total)

ApprovedOrdersFit ==
  [][decision' # decision /\ decision' # None => OrderFits(decision')]_vars

\* No approval rests on a health record that was sampled longer ago than the time
\* it may be served and the time one health check takes, though another thread can
\* store an older record between this thread's two writes of the cache.
HealthIsRecent ==
  decision # None => decision.health_age <= CacheTtl + MaxProbe
=============================================================================
