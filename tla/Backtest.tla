------------------------------ MODULE Backtest ------------------------------
(***************************************************************************)
(* HistoricalBacktestEngine.run_single_symbol: it owns a PaperEngine and   *)
(* calls it bar by bar, with what a strategy answers to the bars before.   *)
(* The bars are those _validated_candles lets through; they are drawn one  *)
(* by one, after the strategy has answered.                                *)
(***************************************************************************)
EXTENDS PaperEngine, SequencesExt

CONSTANTS
  symbol, market,             \* of the run
  Candles,                    \* bars that may come
  Signals,                    \* what the strategy may answer
  NumCandles,                 \* bound of this model: the length of the history
  close_open_positions_on_end

VARIABLES
  index,         \* bars reached so far
  candle,        \* the current bar, or None
  phase,         \* what run_single_symbol does next
  equity_curve   \* one EquityCurvePoint per bar, and one for the final close

backtestVars == <<vars, index, candle, phase, equity_curve>>

-----------------------------------------------------------------------------
Candle == [day: Days, open: Nat \ {0}, high: Nat \ {0}, low: Nat \ {0}, close: Nat \ {0}]

BacktestSignal ==
  [symbol: Symbols, market: Markets, quantity: Nat, stop_loss: Nat,
   take_profit: (Nat \ {0}) \cup {None}]

\* candle_high_low_inconsistent is not raised.
Consistent(c) == c.low <= c.open /\ c.low <= c.close /\ c.open <= c.high /\ c.close <= c.high

\* The order a signal for the next bar becomes.
Order(signal, c) ==
  [symbol |-> symbol, market |-> market, quantity |-> signal.quantity,
   reference_price |-> c.open, day |-> c.day,
   stop_loss |-> signal.stop_loss, take_profit |-> signal.take_profit]

ASSUME BacktestAssumption ==
  /\ symbol \in Symbols /\ market \in Markets
  /\ Candles \subseteq {c \in Candle : Consistent(c)}
  /\ Days \subseteq Nat
  /\ Signals \subseteq BacktestSignal
  /\ NumCandles \in Nat /\ close_open_positions_on_end \in BOOLEAN
  /\ None \notin Candle
  /\ \A signal \in Signals, c \in Candles : signal.quantity > 0 =>
       signal.quantity * PerUnit(BuyCosts(Order(signal, c)), signal.quantity) = BuyCosts(Order(signal, c))

\* snapshot: what selling a position at a mark would bring.
LiquidationValue(position, mark) ==
  IF position = None THEN 0
  ELSE LET gross == ExecutionPrice("SELL", mark) * position.quantity
       IN gross - TransactionCost(gross)

\* _equity_point: the close marks the symbol, other positions there are none.
EquityPoint(mark) ==
  LET value == LiquidationValue(positions[symbol], mark)
  IN [equity |-> cash + value, cash |-> cash, realized_pnl |-> realized_pnl,
      unrealized_pnl |-> value - Basis(positions[symbol])]

\* Of two drawdowns, fractions loss / peak with a positive peak, the first is worse.
Deeper(a, b) == a.loss * b.peak > b.loss * a.peak

\* Mutant: a new peak is not remembered.
DrawdownStepForgetful(seen, point) ==
  LET peak == IF seen.peak = None THEN point.equity ELSE seen.peak
      decline == [loss |-> peak - point.equity, peak |-> peak]
  IN [peak |-> peak,
      worst |-> IF peak > 0 /\ Deeper(decline, seen.worst) THEN decline ELSE seen.worst]

\* One step of the loop of _max_drawdown_pct.
DrawdownStep(seen, point) ==
  LET peak == IF seen.peak = None \/ seen.peak < point.equity THEN point.equity ELSE seen.peak
      decline == [loss |-> peak - point.equity, peak |-> peak]
  IN [peak |-> peak,
      worst |-> IF peak > 0 /\ Deeper(decline, seen.worst) THEN decline ELSE seen.worst]

MaxDrawdown(curve) ==
  FoldLeft(DrawdownStep, [peak |-> None, worst |-> [loss |-> 0, peak |-> 1]], curve).worst

-----------------------------------------------------------------------------
BacktestInit ==
  /\ Init
  /\ index = 0
  /\ candle = None
  /\ phase = "next"
  /\ equity_curve = << >>

\* The strategy sees the bars before this one, the first bar has none; an open
\* position needs no signal.
NextCandle ==
  /\ phase = "next" /\ index < NumCandles
  /\ \E c \in Candles :
       /\ candle # None => candle.day <= c.day
       /\ candle' = c
  /\ index' = index + 1
  /\ phase' = IF index > 0 /\ positions[symbol] = None THEN "signal" ELSE "exit"
  /\ UNCHANGED <<vars, equity_curve>>

NoSignal ==
  /\ phase = "signal"
  /\ phase' = "exit"
  /\ UNCHANGED <<vars, index, candle, equity_curve>>

\* _submit_signal: a signal for another symbol or market is dropped; the entry is
\* at the open of this bar.
Signal(signal) ==
  /\ phase = "signal"
  /\ phase' = "exit"
  /\ IF signal.symbol = symbol /\ signal.market = market
     THEN SubmitBuy(Order(signal, candle))
     ELSE UNCHANGED vars
  /\ UNCHANGED <<index, candle, equity_curve>>

CurrentBar ==
  [symbol |-> symbol, market |-> market, day |-> candle.day,
   low |-> candle.low, high |-> candle.high]

\* evaluate_exit
Exit ==
  /\ phase = "exit"
  /\ phase' = "mark"
  /\ IF ExitDue(CurrentBar) THEN EvaluateExit(CurrentBar) ELSE UNCHANGED vars
  /\ UNCHANGED <<index, candle, equity_curve>>

Mark ==
  /\ phase \in {"mark", "final_mark"}
  /\ equity_curve' = Append(equity_curve, EquityPoint(candle.close))
  /\ phase' = IF phase = "mark" THEN "next" ELSE "done"
  /\ UNCHANGED <<vars, index, candle>>

\* Mutant: the final close sells one share, whatever the position holds.
FinalCloseHalf ==
  /\ phase = "next" /\ index = NumCandles
  /\ IF close_open_positions_on_end /\ positions[symbol] # None
     THEN /\ SubmitSell([SellAll(CurrentBar, candle.close) EXCEPT !.quantity = 1])
          /\ phase' = "final_mark"
     ELSE phase' = "done" /\ UNCHANGED vars
  /\ UNCHANGED <<index, candle, equity_curve>>

\* After the last bar an open position is sold at its close, and marked again.
FinalClose ==
  /\ phase = "next" /\ index = NumCandles
  /\ IF close_open_positions_on_end /\ positions[symbol] # None
     THEN /\ CloseOpenPosition(CurrentBar, candle.close)
          /\ phase' = "final_mark"
     ELSE phase' = "done" /\ UNCHANGED vars
  /\ UNCHANGED <<index, candle, equity_curve>>

BacktestNext ==
  NextCandle \/ NoSignal \/ (\E signal \in Signals : Signal(signal)) \/ Exit \/ Mark \/ FinalClose

BacktestSpec == BacktestInit /\ [][BacktestNext]_backtestVars

-----------------------------------------------------------------------------
(***************************************************************************)
(* What makes it correct.                                                  *)
(***************************************************************************)
\* _metrics: the net profit of the closed trades.
NetPnl ==
  SumFunctionOnSet([i \in DOMAIN journal |-> journal[i].realized_pnl],
                   Entries(Len(journal), LAMBDA e : e.status = "CLOSED"))

\* The equity of every point is the starting cash with the profit realized and the
\* profit a sale at the close would realize, whatever trades led there; closing the
\* position after the last bar does not change the equity that was marked for that
\* bar (risk_rulebook.md:42, the final close "is a research mark"), and leaves none
\* open; and the net profit of the closed trades is then that of the final equity.
EquityIsExplained ==
  /\ \A i \in DOMAIN equity_curve :
       equity_curve[i].equity =
         StartingCash + equity_curve[i].realized_pnl + equity_curve[i].unrealized_pnl
  /\ Len(equity_curve) > NumCandles =>
       equity_curve[NumCandles + 1].equity = equity_curve[NumCandles].equity
  /\ phase = "done" =>
       /\ close_open_positions_on_end => positions[symbol] = None
       /\ positions[symbol] = None /\ NumCandles > 0 =>
            NetPnl = equity_curve[Len(equity_curve)].equity - StartingCash

\* The drawdown that is reported is the worst decline from any point of the curve
\* to a later one, though _max_drawdown_pct goes through the curve only once.
DrawdownIsWorstDecline ==
  phase = "done" =>
    LET equity(i) == equity_curve[i].equity
        spans == {span \in (DOMAIN equity_curve) \X (DOMAIN equity_curve) :
                    span[1] <= span[2] /\ equity(span[1]) > 0}
        decline(span) == [loss |-> equity(span[1]) - equity(span[2]), peak |-> equity(span[1])]
        worst == MaxDrawdown(equity_curve)
    IN /\ \A span \in spans : ~Deeper(decline(span), worst)
       /\ spans # {} => \E span \in spans : ~Deeper(worst, decline(span))
=============================================================================
