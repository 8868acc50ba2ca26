---------------------------- MODULE MCPaperEngine ----------------------------
(***************************************************************************)
(* A small instance of PaperEngine and Backtest for TLC: an engine belongs *)
(* to a caller, who may call it in any way, or to a backtest.              *)
(***************************************************************************)
EXTENDS Backtest

CONSTANTS s1, s2

VARIABLE owner

EngineInit == BacktestInit /\ owner \in {"caller", "backtest"}

EngineNext ==
  /\ UNCHANGED owner
  /\ \/ owner = "caller" /\ Next /\ UNCHANGED <<index, candle, phase, equity_curve>>
     \/ owner = "backtest" /\ BacktestNext

EngineSpec == EngineInit /\ [][EngineNext]_<<backtestVars, owner>>

Entry(s, day) ==
  [symbol |-> s, market |-> "INDIA", quantity |-> 2, reference_price |-> 5,
   day |-> day, stop_loss |-> 3, take_profit |-> 7]

\* Entries in two symbols on two days, a cheap one without a target, one too large
\* for the cash, one without a stop and one whose stop is not below its price.
MCBuys ==
  {Entry(s1, 1), Entry(s2, 1), Entry(s1, 2),
   [Entry(s2, 1) EXCEPT !.quantity = 1, !.reference_price = 2, !.stop_loss = 1,
                         !.take_profit = None],
   [Entry(s1, 1) EXCEPT !.quantity = 4],
   [Entry(s1, 1) EXCEPT !.stop_loss = None],
   [Entry(s2, 2) EXCEPT !.stop_loss = 5]}

Sale(s, day, quantity, price) ==
  [symbol |-> s, market |-> "INDIA", quantity |-> quantity,
   reference_price |-> price, day |-> day]

\* Partial and whole sales at a profit and at a loss, a sale on another market and
\* one of more shares than an entry buys.
MCSells ==
  {Sale(s1, 1, 1, 8), Sale(s1, 1, 2, 2), Sale(s2, 1, 1, 4), Sale(s1, 2, 3, 6),
   [Sale(s2, 1, 1, 5) EXCEPT !.market = "US"]}

\* A bar through the stop and the target, one at the target, one between them.
MCBars ==
  {[symbol |-> s1, market |-> "INDIA", day |-> 1, low |-> 2, high |-> 8],
   [symbol |-> s1, market |-> "INDIA", day |-> 2, low |-> 4, high |-> 7],
   [symbol |-> s2, market |-> "INDIA", day |-> 1, low |-> 4, high |-> 6]}

Bar4(day, open, high, low, close) ==
  [day |-> day, open |-> open, high |-> high, low |-> low, close |-> close]

\* A flat bar, a rise to the target, a fall through the stop, a bar through both,
\* a bar that opens below the stop, on two days.
MCCandles ==
  UNION {{Bar4(d, 5, 6, 4, 5), Bar4(d, 5, 12, 5, 10), Bar4(d, 5, 5, 2, 3),
          Bar4(d, 5, 12, 2, 6), Bar4(d, 2, 3, 1, 2)} : d \in Days}

Answer(quantity, stop, target) ==
  [symbol |-> symbol, market |-> market, quantity |-> quantity, stop_loss |-> stop,
   take_profit |-> target]

\* A signal with and without a target, one of no shares, one too large, one for
\* another market.
MCSignals ==
  {Answer(2, 3, 10), Answer(1, 1, None), Answer(0, 3, 7), Answer(12, 3, None),
   [Answer(2, 3, 10) EXCEPT !.market = "US"]}
=============================================================================
