----------------------------- MODULE PaperEngine -----------------------------
(***************************************************************************)
(* PaperTradingEngine: cash, positions, realized profit and the journal of *)
(* a simulated account.  One action is one call of the engine, which has a *)
(* single owner.  Prices are natural numbers of ticks and an amount of     *)
(* money is counted in ticks / Base^2, so that slippage and the cost rate, *)
(* both fractions over Base, keep every amount exact.                      *)
(***************************************************************************)
EXTENDS Integers, Sequences, FiniteSetsExt, Functions

CONSTANTS
  Symbols, Days,
  Buys, Sells, Bars,   \* the arguments the engine is called with
  Base,                \* 10000 in the code
  Slippage,            \* slippage_bps, over Base
  CostRate,            \* brokerage_pct + taxes_pct, over Base
  FlatCost,            \* brokerage_flat
  StartingCash, MaxTradesPerDay, MaxDailyLoss, MinCashBuffer,
  MaxJournal,          \* bound of this model: calls that write to the journal
  None                 \* Python's None

VARIABLES cash, positions, realized_pnl, total_costs,
          daily_entry_count, daily_realized_pnl, journal

vars == <<cash, positions, realized_pnl, total_costs,
          daily_entry_count, daily_realized_pnl, journal>>

-----------------------------------------------------------------------------
Markets == {"INDIA", "US"}

PaperPosition ==
  [market: Markets, quantity: Nat \ {0}, average_entry_price: Int,
   entry_cost_per_unit: Int, stop_loss: Nat,
   take_profit: (Nat \ {0}) \cup {None}]

\* A PaperOrderRequest; the day is that of submitted_at in UTC.
BuyRequest ==
  [symbol: Symbols, market: Markets, quantity: Nat, reference_price: Nat, day: Days,
   stop_loss: Nat \cup {None}, take_profit: (Nat \ {0}) \cup {None}]

SellRequest ==
  [symbol: Symbols, market: Markets, quantity: Nat, reference_price: Nat \ {0}, day: Days]

\* The arguments of evaluate_exit.
Bar == [symbol: Symbols, market: Markets, day: Days, low: Nat \ {0}, high: Nat \ {0}]

\* execution_price: the buyer pays the slippage, the seller loses it.
ExecutionPrice(side, price) ==
  price * Base * (IF side = "BUY" THEN Base + Slippage ELSE Base - Slippage)

\* transaction_cost: a share of the value, and a flat fee per trade.
TransactionCost(gross) == (gross \div Base) * CostRate + FlatCost

\* costs / quantity, which is exact in these units.
PerUnit(costs, quantity) == costs \div quantity

BuyCosts(r) == TransactionCost(ExecutionPrice("BUY", r.reference_price) * r.quantity)

ASSUME PaperAssumption ==
  /\ Buys \subseteq BuyRequest /\ Sells \subseteq SellRequest /\ Bars \subseteq Bar
  /\ Base \in Nat \ {0} /\ Slippage \in 0..Base /\ CostRate \in Nat /\ FlatCost \in Nat
  /\ MaxTradesPerDay \in Nat \ {0} /\ MaxDailyLoss \in Nat \ {0}
  /\ StartingCash \in Nat \ {0} /\ MinCashBuffer \in Nat /\ MaxJournal \in Nat
  /\ None \notin Nat /\ None \notin PaperPosition

ASSUME ExactDivision ==
  \A r \in Buys : r.quantity > 0 => r.quantity * PerUnit(BuyCosts(r), r.quantity) = BuyCosts(r)

Basis(position) ==
  IF position = None THEN 0
  ELSE (position.average_entry_price + position.entry_cost_per_unit) * position.quantity

-----------------------------------------------------------------------------
Init ==
  /\ cash = StartingCash
  /\ positions = [s \in Symbols |-> None]
  /\ realized_pnl = 0
  /\ total_costs = 0
  /\ daily_entry_count = [d \in Days |-> 0]
  /\ daily_realized_pnl = [d \in Days |-> 0]
  /\ journal = << >>

Journal(r, side, status, quantity, costs, change, pnl) ==
  journal' = Append(journal,
    [symbol |-> r.symbol, day |-> r.day, side |-> side, status |-> status,
     quantity |-> quantity, costs |-> costs, cash_change |-> change, realized_pnl |-> pnl])

Account == <<cash, positions, realized_pnl, total_costs, daily_entry_count, daily_realized_pnl>>

\* _blocked: the refusal is journalled and nothing else changes.
Blocked(r, side) ==
  /\ Journal(r, side, "BLOCKED", r.quantity, 0, 0, 0)
  /\ UNCHANGED Account

\* _entry_block_reason is None.
EntryAllowed(r) ==
  /\ r.quantity > 0
  /\ r.reference_price > 0
  /\ r.stop_loss # None
  /\ r.stop_loss < r.reference_price
  /\ positions[r.symbol] = None
  /\ daily_entry_count[r.day] < MaxTradesPerDay
  /\ daily_realized_pnl[r.day] > -MaxDailyLoss

CashNeeded(r) == ExecutionPrice("BUY", r.reference_price) * r.quantity + BuyCosts(r)

EntryBlocked(r) ==
  /\ EntryAllowed(r) => cash - CashNeeded(r) < MinCashBuffer
  /\ Blocked(r, "BUY")

\* Mutant: the costs of an entry are charged but not made part of its basis.
NewPositionWithoutCosts(r) ==
  [market |-> r.market, quantity |-> r.quantity,
   average_entry_price |-> ExecutionPrice("BUY", r.reference_price),
   entry_cost_per_unit |-> 0,
   stop_loss |-> r.stop_loss, take_profit |-> r.take_profit]

NewPosition(r) ==
  [market |-> r.market, quantity |-> r.quantity,
   average_entry_price |-> ExecutionPrice("BUY", r.reference_price),
   entry_cost_per_unit |-> PerUnit(BuyCosts(r), r.quantity),
   stop_loss |-> r.stop_loss, take_profit |-> r.take_profit]

\* Mutant: only the first entry of a day is counted.
OpenPositionUncounted(r) ==
  /\ EntryAllowed(r)
  /\ cash - CashNeeded(r) >= MinCashBuffer
  /\ cash' = cash - CashNeeded(r)
  /\ total_costs' = total_costs + BuyCosts(r)
  /\ positions' = [positions EXCEPT ![r.symbol] = NewPosition(r)]
  /\ daily_entry_count' = [daily_entry_count EXCEPT ![r.day] = 1]
  /\ Journal(r, "BUY", "OPENED", r.quantity, BuyCosts(r), -CashNeeded(r), 0)
  /\ UNCHANGED <<realized_pnl, daily_realized_pnl>>

OpenPosition(r) ==
  /\ EntryAllowed(r)
  /\ cash - CashNeeded(r) >= MinCashBuffer
  /\ cash' = cash - CashNeeded(r)
  /\ total_costs' = total_costs + BuyCosts(r)
  /\ positions' = [positions EXCEPT ![r.symbol] = NewPosition(r)]
  /\ daily_entry_count' = [daily_entry_count EXCEPT ![r.day] = @ + 1]
  /\ Journal(r, "BUY", "OPENED", r.quantity, BuyCosts(r), -CashNeeded(r), 0)
  /\ UNCHANGED <<realized_pnl, daily_realized_pnl>>

-----------------------------------------------------------------------------
\* Mutant: a sale larger than the position is not refused.
MayCloseAnyQuantity(r) ==
  /\ positions[r.symbol] # None
  /\ positions[r.symbol].market = r.market
  /\ r.quantity > 0

MayClose(r) ==
  /\ positions[r.symbol] # None
  /\ positions[r.symbol].market = r.market
  /\ r.quantity > 0
  /\ r.quantity <= positions[r.symbol].quantity

ExitBlocked(r) == ~MayClose(r) /\ Blocked(r, "SELL")

\* Mutant: a position that is sold completely is kept.
RemainingKept(position, quantity) == [position EXCEPT !.quantity = @ - quantity]

\* The position after part of it, or all of it, is sold.
Remaining(position, quantity) ==
  IF position.quantity <= quantity THEN None
  ELSE [position EXCEPT !.quantity = @ - quantity]

ClosePosition(r) ==
  LET position == positions[r.symbol]
      gross == ExecutionPrice("SELL", r.reference_price) * r.quantity
      costs == TransactionCost(gross)
      entry_basis == (position.average_entry_price + position.entry_cost_per_unit) * r.quantity
      pnl == gross - costs - entry_basis
  IN /\ MayClose(r)
     /\ cash' = cash + gross - costs
     /\ realized_pnl' = realized_pnl + pnl
     /\ total_costs' = total_costs + costs
     /\ daily_realized_pnl' = [daily_realized_pnl EXCEPT ![r.day] = @ + pnl]
     /\ positions' = [positions EXCEPT ![r.symbol] = Remaining(position, r.quantity)]
     /\ Journal(r, "SELL", "CLOSED", r.quantity, costs, gross - costs, pnl)
     /\ UNCHANGED daily_entry_count

\* submit_order
SubmitBuy(r) == OpenPosition(r) \/ EntryBlocked(r)
SubmitSell(r) == ClosePosition(r) \/ ExitBlocked(r)

\* The order evaluate_exit and close_open_position submit for a whole position.
SellAll(bar, price) ==
  [symbol |-> bar.symbol, market |-> bar.market, day |-> bar.day, reference_price |-> price,
   quantity |-> IF positions[bar.symbol] = None THEN 0 ELSE positions[bar.symbol].quantity]

\* The price at which a bar makes evaluate_exit sell; stop-loss before target.
ExitPrice(position, bar) ==
  IF bar.low <= position.stop_loss THEN position.stop_loss
  ELSE IF position.take_profit # None /\ bar.high >= position.take_profit
       THEN position.take_profit
       ELSE None

ExitDue(bar) ==
  /\ positions[bar.symbol] # None
  /\ positions[bar.symbol].market = bar.market
  /\ ExitPrice(positions[bar.symbol], bar) # None

EvaluateExit(bar) ==
  /\ ExitDue(bar)
  /\ SubmitSell(SellAll(bar, ExitPrice(positions[bar.symbol], bar)))

CloseOpenPosition(bar, price) == SubmitSell(SellAll(bar, price))

Next ==
  /\ Len(journal) < MaxJournal
  /\ \/ \E r \in Buys : SubmitBuy(r)
     \/ \E r \in Sells : SubmitSell(r)
     \/ \E bar \in Bars : EvaluateExit(bar)
     \/ \E bar \in Bars : \E price \in {bar.low, bar.high} : CloseOpenPosition(bar, price)

Spec == Init /\ [][Next]_vars

-----------------------------------------------------------------------------
(***************************************************************************)
(* What makes it correct.                                                  *)
(***************************************************************************)
\* Every variable stays in its type; an open position holds at least one share.
TypeOK ==
  /\ cash \in Int /\ realized_pnl \in Int /\ total_costs \in Int
  /\ positions \in [Symbols -> PaperPosition \cup {None}]
  /\ daily_entry_count \in [Days -> Nat]
  /\ daily_realized_pnl \in [Days -> Int]
  /\ journal \in Seq([symbol: Symbols, day: Days, side: {"BUY", "SELL"},
                      status: {"OPENED", "CLOSED", "BLOCKED"}, quantity: Nat,
                      costs: Int, cash_change: Int, realized_pnl: Int])

\* No money appears or is lost: whatever a call does to the cash it does to the
\* realized profit or to the basis of the one position it touches, with the entry
\* costs of the shares already sold counted exactly once.
EachCallBalances ==
  [][\E s \in Symbols :
       /\ \A t \in Symbols \ {s} : positions'[t] = positions[t]
       /\ cash' - realized_pnl' + Basis(positions'[s])
            = cash - realized_pnl + Basis(positions[s])]_vars

\* The entries of the journal up to entry n that satisfy a test, by index.
Entries(n, Test(_)) == {i \in 1..n : Test(journal[i])}

\* Shares of a symbol bought and not sold in the first n entries.
Held(s, n) ==
  LET shares(status) ==
        SumFunctionOnSet([i \in 1..n |-> journal[i].quantity],
          Entries(n, LAMBDA e : e.symbol = s /\ e.status = status))
  IN shares("OPENED") - shares("CLOSED")

\* The sum of a column of the journal.
Total(column) == SumFunction([i \in DOMAIN journal |-> journal[i][column]])

\* The journal alone tells the account: its cash changes, costs and profits add up
\* to the cash, the costs and the realized profit; at none of its points has more of
\* a symbol been sold than bought (risk_rulebook.md:37, "Short selling is disabled"),
\* and what remains is the open position.
JournalTellsTheAccount ==
  /\ cash = StartingCash + Total("cash_change")
  /\ total_costs = Total("costs")
  /\ realized_pnl = Total("realized_pnl")
  /\ \A s \in Symbols :
       /\ \A n \in 0..Len(journal) : Held(s, n) >= 0
       /\ Held(s, Len(journal)) = IF positions[s] = None THEN 0 ELSE positions[s].quantity

\* No entry is opened on a day that has had its number of entries, though they may
\* be of other symbols, closed since, or submitted in any order of days.
Opened(n, day) == Entries(n, LAMBDA e : e.status = "OPENED" /\ e.day = day)

DailyEntryCap ==
  \A n \in DOMAIN journal : journal[n].status = "OPENED" =>
    Cardinality(Opened(n - 1, journal[n].day)) < MaxTradesPerDay
=============================================================================
