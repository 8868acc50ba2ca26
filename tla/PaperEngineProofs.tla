-------------------------- MODULE PaperEngineProofs --------------------------
(***************************************************************************)
(* Proofs about PaperEngine and Backtest, for any symbols, prices, costs,  *)
(* limits, sequences of calls, bars and answers of the strategy.           *)
(***************************************************************************)
EXTENDS Backtest, SumTheorems, TLAPS

EntryRecord ==
  [symbol: Symbols, day: Days, side: {"BUY", "SELL"},
   status: {"OPENED", "CLOSED", "BLOCKED"}, quantity: Nat,
   costs: Int, cash_change: Int, realized_pnl: Int]

-----------------------------------------------------------------------------
\* A product distributes over a sum, and over a difference.
LEMMA Distribution ==
  ASSUME NEW a \in Int, NEW b \in Int, NEW q \in Int, NEW n \in Int
  PROVE  /\ (a + b) * q = a * q + q * b
         /\ a * (n - q) + a * q = a * n
  OBVIOUS

\* A product of integers is one.
LEMMA ProductType == ASSUME NEW a \in Int, NEW b \in Int PROVE a * b \in Int
  OBVIOUS

\* So is a quotient by a positive number.
LEMMA QuotientType == ASSUME NEW a \in Int, NEW b \in Nat \ {0} PROVE a \div b \in Int
  OBVIOUS

\* An execution price is an integer.
LEMMA PriceType ==
  ASSUME NEW side, NEW price \in Int
  PROVE  ExecutionPrice(side, price) \in Int
  <1>1. price * Base \in Int
    BY PaperAssumption, ProductType
  <1>2. (IF side = "BUY" THEN Base + Slippage ELSE Base - Slippage) \in Int
    BY PaperAssumption
  <1> QED
    BY <1>1, <1>2, ProductType DEF ExecutionPrice

\* The cost of a trade is an integer.
LEMMA CostType == ASSUME NEW gross \in Int PROVE TransactionCost(gross) \in Int
  <1>1. gross \div Base \in Int
    BY PaperAssumption, QuotientType
  <1>2. (gross \div Base) * CostRate \in Int
    BY <1>1, PaperAssumption, ProductType
  <1> QED
    BY <1>2, PaperAssumption DEF TransactionCost

\* The orders that may open a position: costs per share are exact.
EntryOrder ==
  {r \in BuyRequest :
     r.quantity > 0 => r.quantity * PerUnit(BuyCosts(r), r.quantity) = BuyCosts(r)}

\* What an entry costs, and what it becomes.
LEMMA EntryTypes ==
  ASSUME NEW r \in EntryOrder, r.quantity > 0, r.stop_loss # None
  PROVE  /\ r \in BuyRequest
         /\ BuyCosts(r) \in Int /\ CashNeeded(r) \in Int
         /\ NewPosition(r) \in PaperPosition
         /\ Basis(NewPosition(r)) = CashNeeded(r)
  <1>1. r \in BuyRequest /\ r.quantity \in Nat \ {0} /\ r.reference_price \in Int
    BY DEF EntryOrder, BuyRequest
  <1> DEFINE price == ExecutionPrice("BUY", r.reference_price)
             unit == PerUnit(BuyCosts(r), r.quantity)
  <1>2. price \in Int
    BY <1>1, PriceType
  <1>3. BuyCosts(r) \in Int /\ price * r.quantity \in Int
    BY <1>1, <1>2, ProductType, CostType DEF BuyCosts
  <1>4. CashNeeded(r) \in Int /\ CashNeeded(r) = price * r.quantity + BuyCosts(r)
    BY <1>3 DEF CashNeeded
  <1>5. unit \in Int
    BY <1>1, <1>3, QuotientType DEF PerUnit
  <1>6. NewPosition(r) \in PaperPosition
    BY <1>1, <1>2, <1>5, PaperAssumption DEF NewPosition, PaperPosition, BuyRequest
  <1>7. Basis(NewPosition(r)) = (price + unit) * r.quantity
    BY <1>6, PaperAssumption DEF Basis, NewPosition
  <1>8. r.quantity * unit = BuyCosts(r)
    BY <1>1 DEF EntryOrder
  <1> HIDE DEF price, unit
  <1>9. (price + unit) * r.quantity = price * r.quantity + r.quantity * unit
    BY <1>1, <1>2, <1>5, Distribution
  <1> QED
    BY <1>1, <1>3, <1>4, <1>6, <1>7, <1>8, <1>9

\* The orders that may close a position.
ClosingOrder == [symbol: Symbols, market: Markets, day: Days, reference_price: Nat \ {0},
                 quantity: Nat]

\* The sales of a caller, and those the engine makes of a bar, close orders.
LEMMA SellTypes ==
  ASSUME TypeOK
  PROVE  /\ \A r \in Sells : r \in ClosingOrder
         /\ \A bar \in Bar : \A price \in Nat \ {0} : SellAll(bar, price) \in ClosingOrder
  <1>1. \A r \in Sells : r \in ClosingOrder
    BY PaperAssumption DEF SellRequest, ClosingOrder
  <1>3. ASSUME NEW bar \in Bar, NEW price \in Nat \ {0}
        PROVE  SellAll(bar, price) \in ClosingOrder
    <2>1. bar.symbol \in Symbols /\ bar.market \in Markets /\ bar.day \in Days
      BY DEF Bar
    <2>2. (IF positions[bar.symbol] = None THEN 0 ELSE positions[bar.symbol].quantity) \in Nat
      BY <2>1 DEF TypeOK, PaperPosition
    <2> QED
      BY <2>1, <2>2 DEF SellAll, ClosingOrder
  <1> QED
    BY <1>1, <1>3

\* What the sale of part or all of a position leaves.
LEMMA RemainingTypes ==
  ASSUME NEW position \in PaperPosition, NEW quantity \in Nat \ {0},
         quantity <= position.quantity
  PROVE  /\ Remaining(position, quantity) \in PaperPosition \cup {None}
         /\ Basis(Remaining(position, quantity))
              + (position.average_entry_price + position.entry_cost_per_unit) * quantity
            = Basis(position)
         /\ (position.average_entry_price + position.entry_cost_per_unit) * quantity \in Int
  <1> DEFINE unit == position.average_entry_price + position.entry_cost_per_unit
             left == [position EXCEPT !.quantity = @ - quantity]
  <1>1. unit \in Int /\ position.quantity \in Nat \ {0} /\ position # None
    BY PaperAssumption DEF PaperPosition
  <1>2. Basis(position) = unit * position.quantity
    BY <1>1 DEF Basis
  <1>3. unit * quantity \in Int
    BY <1>1, ProductType
  <1>4. CASE position.quantity <= quantity
    <2>1. Remaining(position, quantity) = None /\ quantity = position.quantity
      BY <1>1, <1>4 DEF Remaining
    <2>2. Basis(Remaining(position, quantity)) = 0
      BY <2>1 DEF Basis
    <2> QED
      BY <1>1, <1>2, <1>3, <2>1, <2>2
  <1>5. CASE ~(position.quantity <= quantity)
    <2>1. Remaining(position, quantity) = left
      BY <1>5 DEF Remaining
    <2>2. position.quantity - quantity \in Nat \ {0}
      BY <1>1, <1>5
    <2>3. left \in PaperPosition
      BY <2>2 DEF PaperPosition
    <2>4. /\ left.quantity = position.quantity - quantity
          /\ left.average_entry_price = position.average_entry_price
          /\ left.entry_cost_per_unit = position.entry_cost_per_unit
      BY DEF PaperPosition
    <2>5. Basis(left) = unit * (position.quantity - quantity)
      BY <2>3, <2>4, PaperAssumption DEF Basis
    <2> HIDE DEF unit, left
    <2>6. unit * (position.quantity - quantity) + unit * quantity = unit * position.quantity
      BY <1>1, Distribution
    <2> QED
      BY <1>2, <1>3, <2>1, <2>3, <2>5, <2>6 DEF unit
  <1> QED
    BY <1>4, <1>5

-----------------------------------------------------------------------------
\* A call, by what it does: an entry, a sale, or a refusal.
Call ==
  \/ \E r \in EntryOrder : OpenPosition(r)
  \/ \E r \in ClosingOrder : ClosePosition(r)
  \/ \E r \in BuyRequest \cup ClosingOrder : \E side \in {"BUY", "SELL"} : Blocked(r, side)

\* Submitting an order of these types is a call.
LEMMA SubmitIsCall ==
  /\ \A r \in EntryOrder : SubmitBuy(r) => Call
  /\ \A r \in ClosingOrder : SubmitSell(r) => Call
  <1>1. ASSUME NEW r \in EntryOrder, SubmitBuy(r) PROVE Call
    BY <1>1 DEF SubmitBuy, EntryBlocked, EntryOrder, Call
  <1>2. ASSUME NEW r \in ClosingOrder, SubmitSell(r) PROVE Call
    BY <1>2 DEF SubmitSell, ExitBlocked, Call
  <1> QED
    BY <1>1, <1>2

\* The exit of a bar sells the whole position at some price.
LEMMA ExitIsClose ==
  ASSUME TypeOK, NEW bar \in Bar, EvaluateExit(bar)
  PROVE  /\ \E price \in Nat \ {0} : CloseOpenPosition(bar, price)
         /\ positions[bar.symbol] # None /\ positions[bar.symbol].market = bar.market
  <1>1. bar.symbol \in Symbols /\ bar.low \in Nat \ {0}
    BY DEF Bar
  <1>2. positions[bar.symbol] \in PaperPosition
    BY <1>1 DEF EvaluateExit, ExitDue, TypeOK
  <1> DEFINE price == ExitPrice(positions[bar.symbol], bar)
  <1>3. price # None /\ CloseOpenPosition(bar, price)
    BY DEF EvaluateExit, ExitDue, CloseOpenPosition
  <1>4. price \in (Nat \ {0}) \cup {None}
    BY <1>1, <1>2 DEF ExitPrice, PaperPosition
  <1> HIDE DEF price
  <1> QED
    BY <1>3, <1>4 DEF EvaluateExit, ExitDue

\* What a caller of the engine may do is a call.
LEMMA Calls == ASSUME TypeOK, Next PROVE Call
  <1>1. ASSUME NEW r \in Buys, SubmitBuy(r) PROVE Call
    <2>1. r \in EntryOrder
      BY PaperAssumption, ExactDivision DEF EntryOrder
    <2> QED
      BY <1>1, <2>1, SubmitIsCall
  <1>2. ASSUME NEW r \in ClosingOrder, SubmitSell(r) PROVE Call
    BY <1>2, SubmitIsCall
  <1>3. ASSUME NEW bar \in Bars, EvaluateExit(bar) PROVE Call
    <2>1. PICK price \in Nat \ {0} : CloseOpenPosition(bar, price)
      BY <1>3, ExitIsClose, PaperAssumption
    <2> QED
      BY <1>2, <2>1, SellTypes, PaperAssumption DEF CloseOpenPosition
  <1>4. ASSUME NEW bar \in Bars, NEW price \in {bar.low, bar.high}, CloseOpenPosition(bar, price)
        PROVE  Call
    <2>1. bar \in Bar /\ price \in Nat \ {0}
      BY PaperAssumption DEF Bar
    <2> QED
      BY <1>2, <1>4, <2>1, SellTypes DEF CloseOpenPosition
  <1>5. ASSUME NEW r \in Sells, SubmitSell(r) PROVE Call
    BY <1>2, <1>5, SellTypes
  <1> QED
    BY <1>1, <1>2, <1>3, <1>4, <1>5 DEF Next

\* The amounts of a sale.
LEMMA SaleTypes ==
  ASSUME NEW r \in ClosingOrder
  PROVE  /\ ExecutionPrice("SELL", r.reference_price) * r.quantity \in Int
         /\ TransactionCost(ExecutionPrice("SELL", r.reference_price) * r.quantity) \in Int
  <1>1. r.reference_price \in Int /\ r.quantity \in Int
    BY DEF ClosingOrder
  <1> QED
    BY <1>1, PriceType, ProductType, CostType

\* A call keeps the types.
LEMMA CallTypeOK == ASSUME TypeOK, Call \/ UNCHANGED vars PROVE TypeOK'
  <1>1. ASSUME NEW r \in EntryOrder, OpenPosition(r) PROVE TypeOK'
    <2>1. r.quantity > 0 /\ r.stop_loss # None
      BY <1>1 DEF OpenPosition, EntryAllowed
    <2>2. /\ r.symbol \in Symbols /\ r.day \in Days /\ r.quantity \in Nat
          /\ BuyCosts(r) \in Int /\ CashNeeded(r) \in Int /\ NewPosition(r) \in PaperPosition
      BY <2>1, EntryTypes DEF BuyRequest
    <2>3. journal' \in Seq(EntryRecord)
      BY <1>1, <2>2 DEF OpenPosition, Journal, EntryRecord, TypeOK
    <2>4. /\ cash' = cash - CashNeeded(r)
          /\ total_costs' = total_costs + BuyCosts(r)
          /\ positions' = [positions EXCEPT ![r.symbol] = NewPosition(r)]
          /\ daily_entry_count' = [daily_entry_count EXCEPT ![r.day] = @ + 1]
          /\ UNCHANGED <<realized_pnl, daily_realized_pnl>>
      BY <1>1 DEF OpenPosition
    <2>5. daily_entry_count' \in [Days -> Nat]
      BY <2>2, <2>4, SMTT(60) DEF TypeOK
    <2> QED
      BY <2>2, <2>3, <2>4, <2>5, SMTT(60) DEF TypeOK, EntryRecord
  <1>2. ASSUME NEW r \in ClosingOrder, ClosePosition(r) PROVE TypeOK'
    <2> DEFINE position == positions[r.symbol]
               gross == ExecutionPrice("SELL", r.reference_price) * r.quantity
               costs == TransactionCost(gross)
               basis == (position.average_entry_price + position.entry_cost_per_unit) * r.quantity
    <2>1. /\ r.symbol \in Symbols /\ r.day \in Days /\ r.quantity \in Nat \ {0}
          /\ position \in PaperPosition /\ r.quantity <= position.quantity
      BY <1>2 DEF ClosePosition, MayClose, ClosingOrder, TypeOK
    <2>2. gross \in Int /\ costs \in Int
      BY SaleTypes
    <2>3. basis \in Int /\ Remaining(position, r.quantity) \in PaperPosition \cup {None}
      BY <2>1, RemainingTypes
    <2>4. /\ cash' = cash + gross - costs
          /\ realized_pnl' = realized_pnl + (gross - costs - basis)
          /\ total_costs' = total_costs + costs
          /\ daily_realized_pnl' =
               [daily_realized_pnl EXCEPT ![r.day] = @ + (gross - costs - basis)]
          /\ positions' = [positions EXCEPT ![r.symbol] = Remaining(position, r.quantity)]
          /\ Journal(r, "SELL", "CLOSED", r.quantity, costs, gross - costs,
                     gross - costs - basis)
          /\ UNCHANGED daily_entry_count
      BY <1>2 DEF ClosePosition
    <2> HIDE DEF position, gross, costs, basis
    <2>5. journal' \in Seq(EntryRecord)
      BY <2>1, <2>2, <2>3, <2>4 DEF Journal, EntryRecord, TypeOK
    <2> QED
      BY <2>1, <2>2, <2>3, <2>4, <2>5 DEF TypeOK, EntryRecord
  <1>3. ASSUME NEW r \in BuyRequest \cup ClosingOrder, NEW side \in {"BUY", "SELL"},
               Blocked(r, side)
        PROVE  TypeOK'
    <2>1. r.symbol \in Symbols /\ r.day \in Days /\ r.quantity \in Nat
      BY DEF BuyRequest, ClosingOrder
    <2>2. journal' \in Seq(EntryRecord)
      BY <1>3, <2>1 DEF Blocked, Journal, EntryRecord, TypeOK
    <2> QED
      BY <1>3, <2>2 DEF Blocked, Account, TypeOK, EntryRecord
  <1>4. CASE UNCHANGED vars
    BY <1>4 DEF vars, TypeOK
  <1> QED
    BY <1>1, <1>2, <1>3, <1>4 DEF Call

\* They hold at the start.
LEMMA InitTypeOK == Init => TypeOK
  BY PaperAssumption DEF Init, TypeOK

\* Every variable keeps its type; in particular no position holds less than one share.
THEOREM TypeCorrect == Spec => []TypeOK
  <1>1. TypeOK /\ [Next]_vars => TypeOK'
    BY Calls, CallTypeOK
  <1> QED
    BY <1>1, InitTypeOK, PTL DEF Spec

-----------------------------------------------------------------------------
\* What a call does to the cash it does to the realized profit or to the basis of the
\* position of its symbol.
LEMMA CallBalances ==
  ASSUME TypeOK, Call
  PROVE  \E s \in Symbols :
           /\ \A t \in Symbols \ {s} : positions'[t] = positions[t]
           /\ cash' - realized_pnl' + Basis(positions'[s])
                = cash - realized_pnl + Basis(positions[s])
  <1>1. ASSUME NEW r \in EntryOrder, OpenPosition(r)
        PROVE  /\ r.symbol \in Symbols
               /\ \A t \in Symbols \ {r.symbol} : positions'[t] = positions[t]
               /\ cash' - realized_pnl' + Basis(positions'[r.symbol])
                    = cash - realized_pnl + Basis(positions[r.symbol])
    <2>1. /\ r.symbol \in Symbols /\ CashNeeded(r) \in Int
          /\ Basis(NewPosition(r)) = CashNeeded(r)
      BY <1>1, EntryTypes DEF OpenPosition, EntryAllowed, BuyRequest
    <2>2. Basis(positions[r.symbol]) = 0
      BY <1>1 DEF OpenPosition, EntryAllowed, Basis
    <2>3. /\ positions'[r.symbol] = NewPosition(r)
          /\ \A t \in Symbols \ {r.symbol} : positions'[t] = positions[t]
          /\ cash' = cash - CashNeeded(r) /\ realized_pnl' = realized_pnl
      BY <1>1, <2>1 DEF OpenPosition, TypeOK
    <2> QED
      BY <2>1, <2>2, <2>3 DEF TypeOK
  <1>2. ASSUME NEW r \in ClosingOrder, ClosePosition(r)
        PROVE  /\ r.symbol \in Symbols
               /\ \A t \in Symbols \ {r.symbol} : positions'[t] = positions[t]
               /\ cash' - realized_pnl' + Basis(positions'[r.symbol])
                    = cash - realized_pnl + Basis(positions[r.symbol])
    <2> DEFINE position == positions[r.symbol]
               gross == ExecutionPrice("SELL", r.reference_price) * r.quantity
               costs == TransactionCost(gross)
               basis == (position.average_entry_price + position.entry_cost_per_unit) * r.quantity
    <2>1. /\ r.symbol \in Symbols /\ r.quantity \in Nat \ {0}
          /\ position \in PaperPosition /\ r.quantity <= position.quantity
      BY <1>2 DEF ClosePosition, MayClose, ClosingOrder, TypeOK
    <2>2. gross \in Int /\ costs \in Int
      BY SaleTypes
    <2>3. basis \in Int /\ Basis(Remaining(position, r.quantity)) + basis = Basis(position)
      BY <2>1, RemainingTypes
    <2>4. Basis(Remaining(position, r.quantity)) \in Int
      <3>1. \A p \in PaperPosition : Basis(p) \in Int
        <4>1. ASSUME NEW p \in PaperPosition PROVE Basis(p) \in Int
          <5>1. /\ p.average_entry_price + p.entry_cost_per_unit \in Int
                /\ p.quantity \in Int
            BY DEF PaperPosition
          <5> QED
            BY <5>1, ProductType DEF Basis
        <4> QED
          BY <4>1
      <3> QED
        BY <2>1, <3>1, RemainingTypes DEF Basis
    <2>5. /\ cash' = cash + gross - costs
          /\ realized_pnl' = realized_pnl + (gross - costs - basis)
          /\ positions' = [positions EXCEPT ![r.symbol] = Remaining(position, r.quantity)]
      BY <1>2 DEF ClosePosition
    <2>6. /\ positions'[r.symbol] = Remaining(position, r.quantity)
          /\ \A t \in Symbols \ {r.symbol} : positions'[t] = positions[t]
      BY <2>1, <2>5 DEF TypeOK
    <2>7. position = positions[r.symbol]
      OBVIOUS
    <2> HIDE DEF position, gross, costs, basis
    <2> QED
      BY <2>1, <2>2, <2>3, <2>4, <2>5, <2>6, <2>7 DEF TypeOK
  <1>3. ASSUME NEW r \in BuyRequest \cup ClosingOrder, NEW side \in {"BUY", "SELL"},
               Blocked(r, side)
        PROVE  r.symbol \in Symbols /\ UNCHANGED <<cash, realized_pnl, positions>>
    BY <1>3 DEF Blocked, Account, BuyRequest, ClosingOrder
  <1> QED
    BY <1>1, <1>2, <1>3 DEF Call

\* Whatever a call does to the cash it does to the realized profit or to the basis
\* of the one position it touches, for any prices, costs and partial sales.
THEOREM MoneyIsConserved == Spec => EachCallBalances
  <1>1. TypeOK /\ Next =>
          \E s \in Symbols :
            /\ \A t \in Symbols \ {s} : positions'[t] = positions[t]
            /\ cash' - realized_pnl' + Basis(positions'[s])
                 = cash - realized_pnl + Basis(positions[s])
    BY Calls, CallBalances
  <1> QED
    BY <1>1, TypeCorrect, PTL DEF Spec, EachCallBalances

-----------------------------------------------------------------------------
\* The counter of a day is the number of entries the journal has for it.
CountInv ==
  /\ DailyEntryCap
  /\ \A d \in Days : /\ daily_entry_count[d] = Cardinality(Opened(Len(journal), d))
                     /\ daily_entry_count[d] <= MaxTradesPerDay

\* The entries opened on a day are finitely many of the journal.
LEMMA OpenedFinite ==
  ASSUME NEW n \in Nat, NEW d
  PROVE  IsFiniteSet(Opened(n, d)) /\ Opened(n, d) \subseteq 1..n
  <1>1. Opened(n, d) \subseteq 1..n
    BY DEF Opened, Entries
  <1>2. IsFiniteSet(1..n)
    BY FS_Interval
  <1> QED
    BY <1>1, <1>2, FS_Subset

\* Appending an entry leaves what the journal says of every earlier point.
LEMMA PastIsKept ==
  ASSUME TypeOK, NEW e \in EntryRecord, journal' = Append(journal, e)
  PROVE  /\ Len(journal) \in Nat /\ Len(journal') = Len(journal) + 1
         /\ \A i \in 1..Len(journal) : journal'[i] = journal[i]
         /\ journal'[Len(journal) + 1] = e
         /\ \A n \in 0..Len(journal) : \A d : Opened(n, d)' = Opened(n, d)
  <1>1. journal \in Seq(EntryRecord)
    BY DEF TypeOK, EntryRecord
  <1>2. /\ Len(journal) \in Nat /\ Len(journal') = Len(journal) + 1
        /\ \A i \in 1..Len(journal) : journal'[i] = journal[i]
        /\ journal'[Len(journal) + 1] = e
    BY <1>1
  <1>3. ASSUME NEW n \in 0..Len(journal), NEW d PROVE Opened(n, d)' = Opened(n, d)
    <2>1. \A i \in 1..n : journal'[i] = journal[i]
      BY <1>2, <1>3
    <2> QED
      BY <2>1 DEF Opened, Entries
  <1> QED
    BY <1>2, <1>3

\* The number of them, after a new entry of the journal.
LEMMA CountAfterAppend ==
  ASSUME TypeOK, NEW e \in EntryRecord, journal' = Append(journal, e), NEW d
  PROVE  Cardinality(Opened(Len(journal), d)') =
           IF e.status = "OPENED" /\ e.day = d
           THEN Cardinality(Opened(Len(journal), d)) + 1
           ELSE Cardinality(Opened(Len(journal), d))
  <1> DEFINE n == Len(journal)
             old == Opened(n, d)
  <1>1. /\ n \in Nat /\ Len(journal') = n + 1 /\ journal'[n + 1] = e
        /\ \A i \in 1..n : journal'[i] = journal[i]
    BY PastIsKept
  <1>2. IsFiniteSet(old) /\ n + 1 \notin old
    BY <1>1, OpenedFinite
  <1>3. 1..(n + 1) = 1..n \cup {n + 1}
    BY <1>1
  <1>4. Opened(Len(journal), d)' =
          {i \in 1..(n + 1) : journal'[i].status = "OPENED" /\ journal'[i].day = d}
    BY <1>1 DEF Opened, Entries
  <1>5. old = {i \in 1..n : journal[i].status = "OPENED" /\ journal[i].day = d}
    BY DEF Opened, Entries
  <1> HIDE DEF n, old
  <1>6. CASE e.status = "OPENED" /\ e.day = d
    <2>1. Opened(Len(journal), d)' = old \cup {n + 1}
      BY <1>1, <1>3, <1>4, <1>5, <1>6
    <2> QED
      BY <1>2, <1>6, <2>1, FS_AddElement DEF n, old
  <1>7. CASE ~(e.status = "OPENED" /\ e.day = d)
    <2>1. Opened(Len(journal), d)' = old
      BY <1>1, <1>3, <1>4, <1>5, <1>7
    <2> QED
      BY <1>7, <2>1 DEF n, old
  <1> QED
    BY <1>6, <1>7

\* A new entry of the journal keeps the cap if it opens nothing, or opens a position
\* while the day's counter allows it.
LEMMA CapAfterAppend ==
  ASSUME TypeOK, CountInv, NEW e \in EntryRecord, journal' = Append(journal, e),
         e.status = "OPENED" => daily_entry_count[e.day] < MaxTradesPerDay
  PROVE  DailyEntryCap'
  <1> DEFINE before(n) ==
        {i \in 1..(n - 1) : journal'[i].status = "OPENED" /\ journal'[i].day = journal'[n].day}
  <1>1. SUFFICES ASSUME NEW n \in 1..(Len(journal) + 1), journal'[n].status = "OPENED"
                 PROVE  Cardinality(before(n)) < MaxTradesPerDay
    <2>1. DOMAIN journal' = 1..(Len(journal) + 1)
      BY DEF TypeOK
    <2> QED
      BY <1>1, <2>1 DEF DailyEntryCap, Opened, Entries
  <1>2. /\ Len(journal) \in Nat /\ DOMAIN journal = 1..Len(journal)
        /\ journal'[Len(journal) + 1] = e
        /\ \A i \in 1..Len(journal) : journal'[i] = journal[i]
    BY PastIsKept DEF TypeOK
  <1>3. before(n) = Opened(n - 1, journal'[n].day)
    <2>1. \A i \in 1..(n - 1) : journal'[i] = journal[i]
      BY <1>2
    <2> QED
      BY <2>1 DEF Opened, Entries
  <1> HIDE DEF before
  <1>4. CASE n \in 1..Len(journal)
    <2>1. journal'[n] = journal[n] /\ n \in DOMAIN journal
      BY <1>2, <1>4
    <2>2. Cardinality(Opened(n - 1, journal[n].day)) < MaxTradesPerDay
      BY <1>1, <2>1 DEF CountInv, DailyEntryCap
    <2> QED
      BY <1>3, <2>1, <2>2
  <1>5. CASE n = Len(journal) + 1
    <2>1. journal'[n].day = e.day /\ e.day \in Days /\ e.status = "OPENED" /\ n - 1 = Len(journal)
      BY <1>1, <1>2, <1>5 DEF EntryRecord
    <2> QED
      BY <1>3, <2>1 DEF CountInv
  <1> QED
    BY <1>2, <1>4, <1>5

\* A call keeps the count of the day and the cap.
LEMMA CallCountInv == ASSUME TypeOK, CountInv, Call \/ UNCHANGED vars PROVE CountInv'
  <1>1. ASSUME NEW e \in EntryRecord, journal' = Append(journal, e),
               e.status # "OPENED", UNCHANGED daily_entry_count
        PROVE  CountInv'
    <2>1. \A d \in Days : Cardinality(Opened(Len(journal), d)') = daily_entry_count[d]
      BY <1>1, CountAfterAppend DEF CountInv
    <2> QED
      BY <1>1, <2>1, CapAfterAppend DEF CountInv
  <1>2. ASSUME NEW r \in EntryOrder, OpenPosition(r) PROVE CountInv'
    <2>1. r.quantity > 0 /\ r.stop_loss # None /\ daily_entry_count[r.day] < MaxTradesPerDay
      BY <1>2 DEF OpenPosition, EntryAllowed
    <2>2. /\ r.symbol \in Symbols /\ r.day \in Days /\ r.quantity \in Nat
          /\ BuyCosts(r) \in Int /\ CashNeeded(r) \in Int
      BY <2>1, EntryTypes DEF BuyRequest
    <2>3. PICK e \in EntryRecord :
            journal' = Append(journal, e) /\ e.status = "OPENED" /\ e.day = r.day
      BY <1>2, <2>2 DEF OpenPosition, Journal, EntryRecord
    <2>4. daily_entry_count' = [daily_entry_count EXCEPT ![r.day] = @ + 1]
      BY <1>2 DEF OpenPosition
    <2>5. \A d \in Days : Cardinality(Opened(Len(journal), d)') = daily_entry_count'[d]
      BY <2>2, <2>3, <2>4, CountAfterAppend DEF CountInv, TypeOK
    <2>6. \A d \in Days : daily_entry_count'[d] <= MaxTradesPerDay
      BY <2>1, <2>2, <2>4, PaperAssumption DEF CountInv, TypeOK
    <2>7. DailyEntryCap'
      BY <2>1, <2>3, CapAfterAppend
    <2> QED
      BY <2>5, <2>6, <2>7 DEF CountInv
  <1>3. ASSUME NEW r \in ClosingOrder, ClosePosition(r) PROVE CountInv'
    <2> DEFINE position == positions[r.symbol]
               gross == ExecutionPrice("SELL", r.reference_price) * r.quantity
               costs == TransactionCost(gross)
               basis == (position.average_entry_price + position.entry_cost_per_unit) * r.quantity
    <2>1. /\ r.symbol \in Symbols /\ r.day \in Days /\ r.quantity \in Nat \ {0}
          /\ position \in PaperPosition /\ r.quantity <= position.quantity
      BY <1>3 DEF ClosePosition, MayClose, ClosingOrder, TypeOK
    <2>2. gross \in Int /\ costs \in Int /\ basis \in Int
      BY <2>1, SaleTypes, RemainingTypes
    <2>3. /\ Journal(r, "SELL", "CLOSED", r.quantity, costs, gross - costs,
                     gross - costs - basis)
          /\ UNCHANGED daily_entry_count
      BY <1>3 DEF ClosePosition
    <2> HIDE DEF position, gross, costs, basis
    <2>4. PICK e \in EntryRecord : journal' = Append(journal, e) /\ e.status = "CLOSED"
      BY <2>1, <2>2, <2>3 DEF Journal, EntryRecord
    <2> QED
      BY <1>1, <2>3, <2>4
  <1>4. ASSUME NEW r \in BuyRequest \cup ClosingOrder, NEW side \in {"BUY", "SELL"},
               Blocked(r, side)
        PROVE  CountInv'
    <2>1. r.symbol \in Symbols /\ r.day \in Days /\ r.quantity \in Nat
      BY DEF BuyRequest, ClosingOrder
    <2>2. PICK e \in EntryRecord : journal' = Append(journal, e) /\ e.status = "BLOCKED"
      BY <1>4, <2>1 DEF Blocked, Journal, EntryRecord
    <2> QED
      BY <1>1, <1>4, <2>2 DEF Blocked, Account
  <1>5. CASE UNCHANGED vars
    BY <1>5 DEF vars, CountInv, DailyEntryCap, Opened, Entries
  <1> QED
    BY <1>2, <1>3, <1>4, <1>5 DEF Call

\* There are no entries at the start.
LEMMA InitCountInv == Init => CountInv
  <1> SUFFICES ASSUME Init PROVE CountInv
    OBVIOUS
  <1>1. Len(journal) = 0 /\ DOMAIN journal = {}
    BY DEF Init
  <1>2. \A d \in Days : Opened(Len(journal), d) = {}
    BY <1>1 DEF Opened, Entries
  <1>3. DailyEntryCap
    BY <1>1 DEF DailyEntryCap
  <1>4. \A d \in Days : Cardinality(Opened(Len(journal), d)) = 0
    BY <1>2, FS_EmptySet
  <1>5. \A d \in Days : daily_entry_count[d] = 0
    BY DEF Init
  <1> QED
    BY <1>3, <1>4, <1>5, PaperAssumption DEF CountInv

\* No day has more entries than its cap, in whatever order the days are submitted.
THEOREM EntriesAreCapped == Spec => []DailyEntryCap
  <1>1. CountInv => DailyEntryCap
    BY DEF CountInv
  <1>2. TypeOK /\ CountInv /\ [Next]_vars => CountInv'
    BY Calls, CallCountInv
  <1> QED
    BY <1>1, <1>2, InitCountInv, TypeCorrect, PTL DEF Spec

-----------------------------------------------------------------------------
\* What a call writes to the journal is what it does to the account.
Recorded(e) ==
  /\ journal' = Append(journal, e)
  /\ cash' = cash + e.cash_change
  /\ total_costs' = total_costs + e.costs
  /\ realized_pnl' = realized_pnl + e.realized_pnl
  /\ e.status # "CLOSED" => e.realized_pnl = 0
  /\ \A s \in Symbols \ {e.symbol} : positions'[s] = positions[s]
  /\ e.status = "OPENED" =>
       /\ positions[e.symbol] = None
       /\ positions'[e.symbol] # None /\ positions'[e.symbol].quantity = e.quantity
  /\ e.status = "CLOSED" =>
       /\ positions[e.symbol] # None /\ e.quantity <= positions[e.symbol].quantity
       /\ IF e.quantity = positions[e.symbol].quantity
          THEN positions'[e.symbol] = None
          ELSE /\ positions'[e.symbol] # None
               /\ positions'[e.symbol].quantity = positions[e.symbol].quantity - e.quantity
  /\ e.status = "BLOCKED" => positions'[e.symbol] = positions[e.symbol]

\* A call is recorded.
LEMMA CallIsRecorded ==
  ASSUME TypeOK, Call
  PROVE  \E e \in EntryRecord : Recorded(e)
  <1>1. ASSUME NEW r \in EntryOrder, OpenPosition(r)
        PROVE  \E e \in EntryRecord : Recorded(e)
    <2>1. r.quantity > 0 /\ r.stop_loss # None /\ positions[r.symbol] = None
      BY <1>1 DEF OpenPosition, EntryAllowed
    <2>2. /\ r.symbol \in Symbols /\ r.day \in Days /\ r.quantity \in Nat
          /\ BuyCosts(r) \in Int /\ CashNeeded(r) \in Int /\ NewPosition(r) \in PaperPosition
      BY <2>1, EntryTypes DEF BuyRequest
    <2> DEFINE e == [symbol |-> r.symbol, day |-> r.day, side |-> "BUY", status |-> "OPENED",
                     quantity |-> r.quantity, costs |-> BuyCosts(r),
                     cash_change |-> -CashNeeded(r), realized_pnl |-> 0]
    <2>3. e \in EntryRecord
      BY <2>2 DEF EntryRecord
    <2>4. /\ journal' = Append(journal, e)
          /\ cash' = cash - CashNeeded(r) /\ total_costs' = total_costs + BuyCosts(r)
          /\ realized_pnl' = realized_pnl
          /\ positions' = [positions EXCEPT ![r.symbol] = NewPosition(r)]
      BY <1>1 DEF OpenPosition, Journal
    <2>5. /\ positions'[r.symbol] = NewPosition(r)
          /\ \A s \in Symbols \ {r.symbol} : positions'[s] = positions[s]
      BY <2>2, <2>4 DEF TypeOK
    <2>6. NewPosition(r) # None /\ NewPosition(r).quantity = r.quantity
      BY <2>2, PaperAssumption DEF NewPosition
    <2>7. /\ e.symbol = r.symbol /\ e.status = "OPENED" /\ e.quantity = r.quantity
          /\ e.costs = BuyCosts(r) /\ e.cash_change = -CashNeeded(r) /\ e.realized_pnl = 0
      OBVIOUS
    <2> HIDE DEF e
    <2>8. /\ cash' = cash + e.cash_change /\ total_costs' = total_costs + e.costs
          /\ realized_pnl' = realized_pnl + e.realized_pnl
      BY <2>2, <2>4, <2>7 DEF TypeOK
    <2>9. Recorded(e)
      BY <2>1, <2>4, <2>5, <2>6, <2>7, <2>8 DEF Recorded
    <2> QED
      BY <2>3, <2>9
  <1>2. ASSUME NEW r \in ClosingOrder, ClosePosition(r)
        PROVE  \E e \in EntryRecord : Recorded(e)
    <2> DEFINE position == positions[r.symbol]
               gross == ExecutionPrice("SELL", r.reference_price) * r.quantity
               costs == TransactionCost(gross)
               basis == (position.average_entry_price + position.entry_cost_per_unit) * r.quantity
               pnl == gross - costs - basis
    <2>1. /\ r.symbol \in Symbols /\ r.day \in Days /\ r.quantity \in Nat \ {0}
          /\ position \in PaperPosition /\ position # None /\ r.quantity <= position.quantity
      BY <1>2 DEF ClosePosition, MayClose, ClosingOrder, TypeOK
    <2>2. gross \in Int /\ costs \in Int /\ basis \in Int
      BY <2>1, SaleTypes, RemainingTypes
    <2> DEFINE e == [symbol |-> r.symbol, day |-> r.day, side |-> "SELL", status |-> "CLOSED",
                     quantity |-> r.quantity, costs |-> costs,
                     cash_change |-> gross - costs, realized_pnl |-> pnl]
    <2>3. /\ journal' = Append(journal, e)
          /\ cash' = cash + gross - costs /\ total_costs' = total_costs + costs
          /\ realized_pnl' = realized_pnl + pnl
          /\ positions' = [positions EXCEPT ![r.symbol] = Remaining(position, r.quantity)]
      BY <1>2 DEF ClosePosition, Journal
    <2>4. /\ positions'[r.symbol] = Remaining(position, r.quantity)
          /\ \A s \in Symbols \ {r.symbol} : positions'[s] = positions[s]
      BY <2>1, <2>3 DEF TypeOK
    <2>5. IF r.quantity = position.quantity
          THEN Remaining(position, r.quantity) = None
          ELSE /\ Remaining(position, r.quantity) # None
               /\ Remaining(position, r.quantity).quantity = position.quantity - r.quantity
      <3>1. position.quantity \in Nat
        BY <2>1 DEF PaperPosition
      <3>2. CASE r.quantity = position.quantity
        BY <3>1, <3>2 DEF Remaining
      <3>3. CASE r.quantity # position.quantity
        <4>1. Remaining(position, r.quantity) = [position EXCEPT !.quantity = @ - r.quantity]
          BY <2>1, <3>1, <3>3 DEF Remaining
        <4>2. [position EXCEPT !.quantity = @ - r.quantity] \in PaperPosition
          BY <2>1, <3>1, <3>3 DEF PaperPosition
        <4>3. [position EXCEPT !.quantity = @ - r.quantity].quantity = position.quantity - r.quantity
          BY <2>1 DEF PaperPosition
        <4> QED
          BY <3>3, <4>1, <4>2, <4>3, PaperAssumption
      <3> QED
        BY <3>2, <3>3
    <2> HIDE DEF gross, costs, basis
    <2>6. /\ e.symbol = r.symbol /\ e.status = "CLOSED" /\ e.quantity = r.quantity
          /\ e.costs = costs /\ e.cash_change = gross - costs /\ e.realized_pnl = pnl
      OBVIOUS
    <2>7. e \in EntryRecord /\ pnl \in Int
      BY <2>1, <2>2 DEF EntryRecord
    <2>8. positions[e.symbol] = position
      BY <2>6
    <2> HIDE DEF e, pnl, position
    <2>9. /\ cash' = cash + e.cash_change /\ total_costs' = total_costs + e.costs
          /\ realized_pnl' = realized_pnl + e.realized_pnl
      BY <2>2, <2>3, <2>6, <2>7 DEF TypeOK
    <2>10. Recorded(e)
      BY <2>1, <2>3, <2>4, <2>5, <2>6, <2>8, <2>9 DEF Recorded
    <2> QED
      BY <2>7, <2>10
  <1>3. ASSUME NEW r \in BuyRequest \cup ClosingOrder, NEW side \in {"BUY", "SELL"},
               Blocked(r, side)
        PROVE  \E e \in EntryRecord : Recorded(e)
    <2>1. r.symbol \in Symbols /\ r.day \in Days /\ r.quantity \in Nat
      BY DEF BuyRequest, ClosingOrder
    <2> DEFINE e == [symbol |-> r.symbol, day |-> r.day, side |-> side, status |-> "BLOCKED",
                     quantity |-> r.quantity, costs |-> 0, cash_change |-> 0, realized_pnl |-> 0]
    <2>2. e \in EntryRecord
      BY <2>1 DEF EntryRecord
    <2>3. journal' = Append(journal, e) /\ UNCHANGED Account
      BY <1>3 DEF Blocked, Journal
    <2>4. e.status = "BLOCKED" /\ e.costs = 0 /\ e.cash_change = 0 /\ e.realized_pnl = 0
      OBVIOUS
    <2> HIDE DEF e
    <2>5. Recorded(e)
      BY <2>3, <2>4 DEF Recorded, Account, TypeOK
    <2> QED
      BY <2>2, <2>5
  <1> QED
    BY <1>1, <1>2, <1>3 DEF Call

-----------------------------------------------------------------------------
\* The part of an interval is finite.
LEMMA IntervalFinite == ASSUME NEW n \in Nat, NEW S \in SUBSET (1..n) PROVE IsFiniteSet(S)
  <1>1. IsFiniteSet(1..n)
    BY FS_Interval
  <1> QED
    BY <1>1, FS_Subset

\* The journal after an entry.
LEMMA JournalAppended ==
  ASSUME TypeOK, NEW e \in EntryRecord, journal' = Append(journal, e)
  PROVE  /\ Len(journal) \in Nat /\ DOMAIN journal = 1..Len(journal)
         /\ Len(journal') = Len(journal) + 1
         /\ DOMAIN journal' = (1..Len(journal)) \cup {Len(journal) + 1}
         /\ \A i \in 1..Len(journal) : journal'[i] = journal[i] /\ journal[i] \in EntryRecord
         /\ journal'[Len(journal) + 1] = e
  <1>1. journal \in Seq(EntryRecord)
    BY DEF TypeOK, EntryRecord
  <1>2. /\ Len(journal) \in Nat /\ DOMAIN journal = 1..Len(journal)
        /\ Len(journal') = Len(journal) + 1 /\ DOMAIN journal' = 1..(Len(journal) + 1)
        /\ \A i \in 1..Len(journal) : journal'[i] = journal[i] /\ journal[i] \in EntryRecord
        /\ journal'[Len(journal) + 1] = e
    BY <1>1
  <1> QED
    BY <1>2

\* A sum over a sequence that grows by an entry.
LEMMA SumGrows ==
  ASSUME NEW n \in Nat, NEW S \in SUBSET (1..n), NEW f, NEW g,
         \A i \in 1..n : f[i] \in Int /\ g[i] = f[i], g[n + 1] \in Int
  PROVE  /\ SumFunctionOnSet(f, S) \in Int
         /\ SumFunctionOnSet(g, S) = SumFunctionOnSet(f, S)
         /\ SumFunctionOnSet(g, S \cup {n + 1}) = SumFunctionOnSet(f, S) + g[n + 1]
  <1>1. IsFiniteSet(S) /\ n + 1 \notin S
    <2>1. IsFiniteSet(S)
      BY IntervalFinite
    <2>2. n + 1 \notin S
      OBVIOUS
    <2> QED
      BY <2>1, <2>2
  <1>2. SumFunctionOnSet(f, S) \in Int
    BY <1>1, SumType
  <1>3. SumFunctionOnSet(g, S) = SumFunctionOnSet(f, S)
    BY <1>1, SumCongruence
  <1>4. SumFunctionOnSet(g, S \cup {n + 1}) = SumFunctionOnSet(g, S) + g[n + 1]
    <2>1. \A i \in S \cup {n + 1} : g[i] \in Int
      OBVIOUS
    <2> QED
      BY <1>1, <2>1, SumAdd
  <1> QED
    BY <1>2, <1>3, <1>4

\* The same for all the entries.
LEMMA SumOfIntervalGrows ==
  ASSUME NEW n \in Nat, NEW f, NEW g, \A i \in 1..n : f[i] \in Int /\ g[i] = f[i],
         g[n + 1] \in Int
  PROVE  /\ SumFunctionOnSet(f, 1..n) \in Int
         /\ SumFunctionOnSet(g, (1..n) \cup {n + 1}) = SumFunctionOnSet(f, 1..n) + g[n + 1]
  <1> DEFINE S == 1..n
  <1>1. S \in SUBSET (1..n)
    OBVIOUS
  <1> HIDE DEF S
  <1>2. /\ SumFunctionOnSet(f, S) \in Int
        /\ SumFunctionOnSet(g, S) = SumFunctionOnSet(f, S)
        /\ SumFunctionOnSet(g, S \cup {n + 1}) = SumFunctionOnSet(f, S) + g[n + 1]
    BY <1>1, SumGrows
  <1> QED
    BY <1>2 DEF S

\* A column's total grows by what the new entry has in it.
LEMMA TotalGrows ==
  ASSUME TypeOK, NEW e \in EntryRecord, journal' = Append(journal, e),
         NEW column \in {"cash_change", "costs", "realized_pnl"}
  PROVE  Total(column) \in Int /\ Total(column)' = Total(column) + e[column]
  <1> DEFINE n == Len(journal)
             f == [i \in DOMAIN journal |-> journal[i][column]]
             g == [i \in DOMAIN journal' |-> journal'[i][column]]
  <1>1. /\ n \in Nat /\ DOMAIN journal = 1..n /\ DOMAIN journal' = (1..n) \cup {n + 1}
        /\ \A i \in 1..n : journal'[i] = journal[i] /\ journal[i] \in EntryRecord
        /\ journal'[n + 1] = e
    BY JournalAppended
  <1>2. e[column] \in Int /\ \A i \in 1..n : journal[i][column] \in Int
    BY <1>1 DEF EntryRecord
  <1>3. /\ \A i \in 1..n : f[i] \in Int /\ g[i] = f[i]
        /\ g[n + 1] = e[column] /\ g[n + 1] \in Int
    BY <1>1, <1>2
  <1>4. /\ Total(column) = SumFunctionOnSet(f, 1..n)
        /\ Total(column)' = SumFunctionOnSet(g, (1..n) \cup {n + 1})
    BY <1>1 DEF Total, SumFunction
  <1> HIDE DEF n, f, g
  <1>6. /\ SumFunctionOnSet(f, 1..n) \in Int
        /\ SumFunctionOnSet(g, (1..n) \cup {n + 1}) = SumFunctionOnSet(f, 1..n) + g[n + 1]
    BY <1>1, <1>3, SumOfIntervalGrows
  <1> QED
    BY <1>3, <1>4, <1>6


\* The shares of a symbol in the first n entries with a status.
Shares(s, n, status) ==
  SumFunctionOnSet([i \in 1..n |-> journal[i].quantity],
                   {i \in 1..n : journal[i].symbol = s /\ journal[i].status = status})

\* What is held is what was bought less what was sold.
LEMMA HeldIs ==
  ASSUME NEW s, NEW n
  PROVE  Held(s, n) = Shares(s, n, "OPENED") - Shares(s, n, "CLOSED")
  BY DEF Held, Entries, Shares

\* A new entry leaves the shares of every earlier point, and adds its own.
LEMMA SharesGrow ==
  ASSUME TypeOK, NEW e \in EntryRecord, journal' = Append(journal, e), NEW s, NEW status
  PROVE  /\ \A n \in 0..Len(journal) : Shares(s, n, status) \in Int
                                       /\ Shares(s, n, status)' = Shares(s, n, status)
         /\ \A m : m = Len(journal) + 1 =>
              Shares(s, m, status)' = Shares(s, Len(journal), status)
                + IF e.symbol = s /\ e.status = status THEN e.quantity ELSE 0
  <1>1. /\ Len(journal) \in Nat
        /\ \A i \in 1..Len(journal) : journal'[i] = journal[i] /\ journal[i] \in EntryRecord
        /\ journal'[Len(journal) + 1] = e
    BY JournalAppended
  <1>2. e.quantity \in Int /\ \A i \in 1..Len(journal) : journal[i].quantity \in Int
    BY <1>1 DEF EntryRecord
  <1>3. ASSUME NEW n \in 0..Len(journal)
        PROVE  Shares(s, n, status) \in Int /\ Shares(s, n, status)' = Shares(s, n, status)
    <2> DEFINE f == [i \in 1..n |-> journal[i].quantity]
               S == {i \in 1..n : journal[i].symbol = s /\ journal[i].status = status}
    <2>1. [i \in 1..n |-> journal'[i].quantity] = f
      BY <1>1
    <2>2. {i \in 1..n : journal'[i].symbol = s /\ journal'[i].status = status} = S
      BY <1>1
    <2>3. Shares(s, n, status)' = Shares(s, n, status)
      BY <2>1, <2>2 DEF Shares
    <2>4. IsFiniteSet(S) /\ \A i \in S : f[i] \in Int
      <3>1. n \in Nat /\ S \in SUBSET (1..n)
        BY <1>1
      <3>2. \A i \in S : f[i] \in Int
        BY <1>1, <1>2
      <3> QED
        BY <3>1, <3>2, IntervalFinite
    <2> HIDE DEF f, S
    <2>5. SumFunctionOnSet(f, S) \in Int
      BY <2>4, SumType
    <2> QED
      BY <2>3, <2>5 DEF Shares, f, S
  <1>4. ASSUME NEW m, m = Len(journal) + 1
        PROVE  Shares(s, m, status)' = Shares(s, Len(journal), status)
                 + IF e.symbol = s /\ e.status = status THEN e.quantity ELSE 0
    <2> DEFINE n == Len(journal)
               f == [i \in 1..n |-> journal[i].quantity]
               g == [i \in 1..m |-> journal'[i].quantity]
               S == {i \in 1..n : journal[i].symbol = s /\ journal[i].status = status}
               T == {i \in 1..m : journal'[i].symbol = s /\ journal'[i].status = status}
    <2>1. n \in Nat /\ m = n + 1 /\ 1..m = (1..n) \cup {n + 1}
      BY <1>1, <1>4
    <2>2. /\ \A i \in 1..n : f[i] \in Int /\ g[i] = f[i]
          /\ g[n + 1] = e.quantity /\ g[n + 1] \in Int
      BY <1>1, <1>2, <2>1
    <2>3. T = IF e.symbol = s /\ e.status = status THEN S \cup {n + 1} ELSE S
      BY <1>1, <2>1
    <2>4. Shares(s, m, status)' = SumFunctionOnSet(g, T)
      BY DEF Shares
    <2>5. Shares(s, n, status) = SumFunctionOnSet(f, S)
      BY DEF Shares
    <2>6. S \in SUBSET (1..n)
      OBVIOUS
    <2> HIDE DEF n, f, g, S, T
    <2>7. /\ SumFunctionOnSet(f, S) \in Int
          /\ SumFunctionOnSet(g, S) = SumFunctionOnSet(f, S)
          /\ SumFunctionOnSet(g, S \cup {n + 1}) = SumFunctionOnSet(f, S) + g[n + 1]
      <3>1. n \in Nat
        BY <2>1
      <3>2. g[n + 1] \in Int /\ \A i \in 1..n : f[i] \in Int /\ g[i] = f[i]
        BY <2>2
      <3> QED
        BY <2>6, <3>1, <3>2, SumGrows
    <2>8. SumFunctionOnSet(g, T) = SumFunctionOnSet(f, S)
            + IF e.symbol = s /\ e.status = status THEN e.quantity ELSE 0
      BY <2>2, <2>3, <2>7
    <2> QED
      BY <2>4, <2>5, <2>8 DEF n
  <1> QED
    BY <1>3, <1>4

\* What is held of a symbol, before and after an entry.
LEMMA HeldGrows ==
  ASSUME TypeOK, NEW e \in EntryRecord, journal' = Append(journal, e), NEW s
  PROVE  /\ \A n \in 0..Len(journal) : Held(s, n) \in Int /\ Held(s, n)' = Held(s, n)
         /\ \A m : m = Len(journal) + 1 =>
              Held(s, m)' = Held(s, Len(journal))
                + IF e.symbol # s THEN 0
                  ELSE IF e.status = "OPENED" THEN e.quantity
                  ELSE IF e.status = "CLOSED" THEN -e.quantity ELSE 0
  <1>1. ASSUME NEW status \in {"OPENED", "CLOSED"}
        PROVE  /\ \A n \in 0..Len(journal) : Shares(s, n, status) \in Int
                                             /\ Shares(s, n, status)' = Shares(s, n, status)
               /\ \A m : m = Len(journal) + 1 =>
                    Shares(s, m, status)' = Shares(s, Len(journal), status)
                      + IF e.symbol = s /\ e.status = status THEN e.quantity ELSE 0
    BY SharesGrow, ZenonT(60)
  <1>2. \A n : Held(s, n) = Shares(s, n, "OPENED") - Shares(s, n, "CLOSED")
    BY HeldIs
  <1>3. \A n : Held(s, n)' = Shares(s, n, "OPENED")' - Shares(s, n, "CLOSED")'
    BY DEF Held, Entries, Shares
  <1>4. e.quantity \in Nat /\ Len(journal) \in 0..Len(journal)
    BY DEF EntryRecord, TypeOK
  <1>5. \A n \in 0..Len(journal) : Held(s, n) \in Int /\ Held(s, n)' = Held(s, n)
    BY <1>1, <1>2, <1>3
  <1>6. ASSUME NEW m, m = Len(journal) + 1
        PROVE  Held(s, m)' = Held(s, Len(journal))
                 + IF e.symbol # s THEN 0
                   ELSE IF e.status = "OPENED" THEN e.quantity
                   ELSE IF e.status = "CLOSED" THEN -e.quantity ELSE 0
    <2>1. Shares(s, m, "OPENED")' = Shares(s, Len(journal), "OPENED")
            + IF e.symbol = s /\ e.status = "OPENED" THEN e.quantity ELSE 0
      BY <1>1, <1>6
    <2>2. Shares(s, m, "CLOSED")' = Shares(s, Len(journal), "CLOSED")
            + IF e.symbol = s /\ e.status = "CLOSED" THEN e.quantity ELSE 0
      BY <1>1, <1>6
    <2>3. Shares(s, Len(journal), "OPENED") \in Int /\ Shares(s, Len(journal), "CLOSED") \in Int
      BY <1>1, <1>4
    <2> QED
      BY <1>2, <1>3, <1>4, <2>1, <2>2, <2>3
  <1> QED
    BY <1>5, <1>6

\* The shares that are held, by the position.
Shown(s) == IF positions[s] = None THEN 0 ELSE positions[s].quantity

\* A call leaves a journal that tells the account.
LEMMA CallKeepsJournal ==
  ASSUME TypeOK, TypeOK', JournalTellsTheAccount, Call \/ UNCHANGED vars
  PROVE  JournalTellsTheAccount'
  <1>1. ASSUME NEW e \in EntryRecord, Recorded(e) PROVE JournalTellsTheAccount'
    <2>1. journal' = Append(journal, e)
      BY <1>1 DEF Recorded
    <2>2. /\ cash' = StartingCash + Total("cash_change")'
          /\ total_costs' = Total("costs")' /\ realized_pnl' = Total("realized_pnl")'
      <3>1. Total("cash_change") \in Int /\ Total("cash_change")' = Total("cash_change") + e.cash_change
        BY <2>1, TotalGrows
      <3>2. Total("costs") \in Int /\ Total("costs")' = Total("costs") + e.costs
        BY <2>1, TotalGrows
      <3>3. Total("realized_pnl") \in Int /\ Total("realized_pnl")' = Total("realized_pnl") + e.realized_pnl
        BY <2>1, TotalGrows
      <3>4. e.cash_change \in Int /\ e.costs \in Int /\ e.realized_pnl \in Int /\ StartingCash \in Int
        BY PaperAssumption DEF EntryRecord
      <3> QED
        BY <1>1, <3>1, <3>2, <3>3, <3>4 DEF Recorded, JournalTellsTheAccount
    <2>3. ASSUME NEW s \in Symbols
          PROVE  /\ \A n \in 0..Len(journal') : Held(s, n)' >= 0
                 /\ Held(s, Len(journal))' = Shown(s)'
      <3>1. /\ \A n \in 0..Len(journal) : Held(s, n) \in Int /\ Held(s, n)' = Held(s, n)
            /\ \A m : m = Len(journal) + 1 =>
                 Held(s, m)' = Held(s, Len(journal))
                   + IF e.symbol # s THEN 0
                     ELSE IF e.status = "OPENED" THEN e.quantity
                     ELSE IF e.status = "CLOSED" THEN -e.quantity ELSE 0
        BY <2>1, HeldGrows
      <3>2. Len(journal) \in Nat /\ Len(journal') = Len(journal) + 1
        BY <2>1 DEF TypeOK
      <3>3. /\ \A n \in 0..Len(journal) : Held(s, n) >= 0
            /\ Held(s, Len(journal)) = Shown(s)
        BY DEF JournalTellsTheAccount, Shown
      <3>4. PICK m : m = Len(journal')
        OBVIOUS
      <3>5. Held(s, m)' = Shown(s)
                   + IF e.symbol # s THEN 0
                     ELSE IF e.status = "OPENED" THEN e.quantity
                     ELSE IF e.status = "CLOSED" THEN -e.quantity ELSE 0
        BY <3>1, <3>2, <3>3, <3>4
      <3>6. e.quantity \in Nat /\ e.status \in {"OPENED", "CLOSED", "BLOCKED"}
        BY DEF EntryRecord
      <3>7. Shown(s) \in Nat /\ Shown(s)' \in Nat
        BY DEF TypeOK, Shown, PaperPosition
      <3>8. Shown(s)' = Shown(s)
                   + IF e.symbol # s THEN 0
                     ELSE IF e.status = "OPENED" THEN e.quantity
                     ELSE IF e.status = "CLOSED" THEN -e.quantity ELSE 0
        <4>1. CASE e.symbol # s
          BY <1>1, <3>7, <4>1 DEF Recorded, Shown
        <4>2. CASE e.symbol = s /\ e.status = "OPENED"
          BY <1>1, <3>6, <4>2 DEF Recorded, Shown
        <4>3. CASE e.symbol = s /\ e.status = "CLOSED"
          BY <1>1, <3>6, <3>7, <4>3 DEF Recorded, Shown
        <4>4. CASE e.symbol = s /\ e.status = "BLOCKED"
          BY <1>1, <3>7, <4>4 DEF Recorded, Shown
        <4> QED
          BY <3>6, <4>1, <4>2, <4>3, <4>4
      <3>9. Held(s, m)' = Shown(s)'
        BY <3>5, <3>8
      <3>10. Held(s, Len(journal))' = Shown(s)'
        <4>1. Held(s, Len(journal))' = Held(s, m)'
          BY <3>4 DEF Held
        <4> QED
          BY <3>9, <4>1
      <3>11. \A n \in 0..Len(journal') : Held(s, n)' >= 0
        BY <3>1, <3>2, <3>3, <3>4, <3>7, <3>9
      <3> QED
        BY <3>10, <3>11
    <2> QED
      BY <2>2, <2>3 DEF JournalTellsTheAccount, Shown
  <1>2. CASE UNCHANGED vars
    BY <1>2, ZenonT(60) DEF vars, JournalTellsTheAccount, Total, Held, Entries
  <1> QED
    BY <1>1, <1>2, CallIsRecorded

\* The empty journal tells the account of the start.
LEMMA InitJournal == Init => JournalTellsTheAccount
  <1> SUFFICES ASSUME Init PROVE JournalTellsTheAccount
    OBVIOUS
  <1>1. journal = << >> /\ Len(journal) = 0 /\ DOMAIN journal = {}
    BY DEF Init
  <1>2. \A column : Total(column) = 0
    <2>1. ASSUME NEW column PROVE Total(column) = 0
      <3> DEFINE f == [i \in DOMAIN journal |-> journal[i][column]]
      <3>1. Total(column) = SumFunctionOnSet(f, {})
        BY <1>1 DEF Total, SumFunction
      <3> QED
        BY <3>1, SumOfNone
    <2> QED
      BY <2>1
  <1>3. ASSUME NEW s, NEW status PROVE Shares(s, 0, status) = 0
    <2> DEFINE f == [i \in 1..0 |-> journal[i].quantity]
    <2>1. Shares(s, 0, status) = SumFunctionOnSet(f, {})
      BY DEF Shares
    <2> QED
      BY <2>1, SumOfNone
  <1>4. \A s : Held(s, 0) = 0
    BY <1>3, HeldIs
  <1>5. cash = StartingCash /\ total_costs = 0 /\ realized_pnl = 0 /\ StartingCash \in Int
    BY PaperAssumption DEF Init
  <1>6. \A s \in Symbols : positions[s] = None
    BY DEF Init
  <1> QED
    BY <1>1, <1>2, <1>4, <1>5, <1>6 DEF JournalTellsTheAccount

\* The journal alone tells the account, for every sequence of calls.
THEOREM JournalIsComplete == Spec => []JournalTellsTheAccount
  <1>1. TypeOK /\ TypeOK' /\ JournalTellsTheAccount /\ [Next]_vars => JournalTellsTheAccount'
    BY Calls, CallKeepsJournal
  <1> QED
    BY <1>1, InitJournal, TypeCorrect, PTL DEF Spec

-----------------------------------------------------------------------------
(***************************************************************************)
(* The backtest.                                                           *)
(***************************************************************************)
EquityCurvePoint == [equity: Int, cash: Int, realized_pnl: Int, unrealized_pnl: Int]

\* Where a run is: how far it has come, and how many points the curve has by then.
Shape ==
  /\ index \in 0..NumCandles
  /\ phase \in {"next", "signal", "exit", "mark", "final_mark", "done"}
  /\ index > 0 => candle \in Candles
  /\ phase \in {"signal", "exit", "mark", "final_mark"} => index > 0
  /\ phase \in {"final_mark", "done"} => index = NumCandles
  /\ equity_curve \in Seq(EquityCurvePoint)
  /\ phase \in {"signal", "exit", "mark"} => Len(equity_curve) = index - 1
  /\ phase \in {"next", "final_mark"} => Len(equity_curve) = index
  /\ phase = "done" => Len(equity_curve) \in {index, index + 1}

\* A position of the run is in its market, and was opened at a bar.
Traded ==
  positions[symbol] # None => positions[symbol].market = market /\ index > 0

\* The types of the arguments a run calls its engine with.
LEMMA RunTypes ==
  ASSUME Shape, index > 0
  PROVE  /\ candle \in Candle
         /\ CurrentBar \in Bar /\ CurrentBar.symbol = symbol /\ CurrentBar.market = market
         /\ candle.close \in Nat \ {0}
         /\ \A signal \in Signals :
              signal.symbol = symbol /\ signal.market = market =>
                /\ Order(signal, candle) \in EntryOrder
                /\ Order(signal, candle).symbol = symbol /\ Order(signal, candle).market = market
  <1>1. candle \in Candle /\ candle \in Candles
    BY BacktestAssumption DEF Shape
  <1>2. CurrentBar \in Bar /\ CurrentBar.symbol = symbol /\ CurrentBar.market = market
    BY <1>1, BacktestAssumption DEF CurrentBar, Bar, Candle
  <1>3. ASSUME NEW signal \in Signals
        PROVE  /\ Order(signal, candle) \in EntryOrder
               /\ Order(signal, candle).symbol = symbol /\ Order(signal, candle).market = market
    <2> DEFINE r == Order(signal, candle)
    <2>1. signal \in BacktestSignal
      BY BacktestAssumption
    <2>2. r.quantity = signal.quantity /\ r.symbol = symbol /\ r.market = market
      BY DEF Order
    <2>3. r \in BuyRequest
      BY <1>1, <2>1, BacktestAssumption DEF Order, BuyRequest, BacktestSignal, Candle
    <2>4. signal.quantity > 0 => signal.quantity * PerUnit(BuyCosts(r), signal.quantity) = BuyCosts(r)
      BY <1>1, BacktestAssumption
    <2> HIDE DEF r
    <2>5. r \in EntryOrder
      BY <2>2, <2>3, <2>4 DEF EntryOrder
    <2> QED
      BY <2>2, <2>5 DEF r
  <1> QED
    BY <1>1, <1>2, <1>3 DEF Candle

\* What a run does to its engine is a call, or nothing.
LEMMA RunCalls ==
  ASSUME TypeOK, Shape, Traded, [BacktestNext]_backtestVars
  PROVE  Call \/ UNCHANGED vars
  <1>1. ASSUME NEW signal \in Signals, Signal(signal) PROVE Call \/ UNCHANGED vars
    <2>1. index > 0
      BY <1>1 DEF Signal, Shape
    <2> QED
      BY <1>1, <2>1, RunTypes, SubmitIsCall DEF Signal
  <1>2. ASSUME Exit PROVE Call \/ UNCHANGED vars
    <2>1. index > 0
      BY <1>2 DEF Exit, Shape
    <2>2. ASSUME EvaluateExit(CurrentBar) PROVE Call
      <3>1. PICK price \in Nat \ {0} : CloseOpenPosition(CurrentBar, price)
        BY <2>1, <2>2, RunTypes, ExitIsClose
      <3> QED
        BY <2>1, <3>1, RunTypes, SellTypes, SubmitIsCall DEF CloseOpenPosition
    <2> QED
      BY <1>2, <2>2 DEF Exit
  <1>3. ASSUME FinalClose PROVE Call \/ UNCHANGED vars
    <2>1. CASE close_open_positions_on_end /\ positions[symbol] # None
      <3>1. index > 0 /\ CloseOpenPosition(CurrentBar, candle.close)
        BY <1>3, <2>1 DEF FinalClose, Traded
      <3> QED
        BY <3>1, RunTypes, SellTypes, SubmitIsCall DEF CloseOpenPosition
    <2> QED
      BY <1>3, <2>1 DEF FinalClose
  <1>4. ASSUME NextCandle \/ NoSignal \/ Mark \/ UNCHANGED backtestVars PROVE UNCHANGED vars
    BY <1>4 DEF NextCandle, NoSignal, Mark, backtestVars
  <1> QED
    BY <1>1, <1>2, <1>3, <1>4 DEF BacktestNext

\* What a sale of the whole position brings is its value at that price.
LEMMA WholeSale ==
  ASSUME TypeOK, NEW bar \in Bar, NEW price \in Nat \ {0}, bar.symbol = symbol,
         positions[symbol] # None, positions[symbol].market = bar.market,
         CloseOpenPosition(bar, price)
  PROVE  /\ positions'[symbol] = None
         /\ LiquidationValue(positions[symbol], price) \in Int
         /\ Basis(positions[symbol]) \in Int
         /\ cash' = cash + LiquidationValue(positions[symbol], price)
         /\ realized_pnl' = realized_pnl + LiquidationValue(positions[symbol], price)
                              - Basis(positions[symbol])
  <1> DEFINE position == positions[symbol]
             r == SellAll(bar, price)
             gross == ExecutionPrice("SELL", price) * position.quantity
             costs == TransactionCost(gross)
             unit == position.average_entry_price + position.entry_cost_per_unit
  <1>1. symbol \in Symbols /\ position \in PaperPosition /\ position.quantity \in Nat \ {0}
    BY BacktestAssumption DEF TypeOK, PaperPosition
  <1>2. /\ r.symbol = symbol /\ r.market = position.market /\ r.quantity = position.quantity
        /\ r.reference_price = price /\ r \in ClosingOrder
    BY SellTypes DEF SellAll
  <1>3. MayClose(r)
    BY <1>1, <1>2 DEF MayClose
  <1>4. ClosePosition(r)
    BY <1>3 DEF CloseOpenPosition, SubmitSell, ExitBlocked
  <1>5. gross \in Int /\ costs \in Int
    BY <1>2, SaleTypes
  <1>6. unit \in Int /\ unit * position.quantity \in Int
    <2>1. unit \in Int
      BY <1>1 DEF PaperPosition
    <2> QED
      BY <1>1, <2>1, ProductType
  <1>7. Remaining(position, position.quantity) = None
    BY <1>1 DEF Remaining
  <1>8. /\ cash' = cash + gross - costs
        /\ realized_pnl' = realized_pnl + (gross - costs - unit * position.quantity)
        /\ positions' = [positions EXCEPT ![symbol] = Remaining(position, position.quantity)]
    BY <1>2, <1>4 DEF ClosePosition
  <1>9. positions'[symbol] = None
    BY <1>1, <1>7, <1>8 DEF TypeOK
  <1>10. LiquidationValue(position, price) = gross - costs /\ Basis(position) = unit * position.quantity
    BY DEF LiquidationValue, Basis
  <1>11. cash \in Int /\ realized_pnl \in Int
    BY DEF TypeOK
  <1>12. position = positions[symbol]
    OBVIOUS
  <1> HIDE DEF position, gross, costs, unit
  <1>13. /\ cash' = cash + LiquidationValue(position, price)
         /\ realized_pnl' = realized_pnl + LiquidationValue(position, price) - Basis(position)
         /\ LiquidationValue(position, price) \in Int /\ Basis(position) \in Int
    BY <1>5, <1>6, <1>8, <1>10, <1>11
  <1> QED
    BY <1>9, <1>12, <1>13

\* What an entry of the run does.
LEMMA RunEntry ==
  ASSUME TypeOK, NEW r \in EntryOrder, r.symbol = symbol, SubmitBuy(r)
  PROVE  \/ UNCHANGED <<cash, positions, realized_pnl>>
         \/ /\ positions[symbol] = None
            /\ positions'[symbol] # None /\ positions'[symbol].market = r.market
            /\ Basis(positions'[symbol]) \in Int
            /\ cash' = cash - Basis(positions'[symbol])
            /\ cash' >= MinCashBuffer
            /\ realized_pnl' = realized_pnl
  <1>1. CASE EntryBlocked(r)
    BY <1>1 DEF EntryBlocked, Blocked, Account
  <1>2. CASE OpenPosition(r)
    <2>1. r.quantity > 0 /\ r.stop_loss # None /\ positions[symbol] = None
      BY <1>2 DEF OpenPosition, EntryAllowed
    <2>2. /\ CashNeeded(r) \in Int /\ NewPosition(r) \in PaperPosition
          /\ Basis(NewPosition(r)) = CashNeeded(r)
      BY <2>1, EntryTypes
    <2>3. /\ positions' = [positions EXCEPT ![symbol] = NewPosition(r)]
          /\ cash' = cash - CashNeeded(r) /\ cash' >= MinCashBuffer
          /\ realized_pnl' = realized_pnl
      BY <1>2 DEF OpenPosition
    <2>4. positions'[symbol] = NewPosition(r)
      BY <2>3, BacktestAssumption DEF TypeOK
    <2>5. NewPosition(r) # None /\ NewPosition(r).market = r.market
      BY <2>2, PaperAssumption DEF NewPosition
    <2> QED
      BY <2>1, <2>2, <2>3, <2>4, <2>5
  <1> QED
    BY <1>1, <1>2 DEF SubmitBuy

-----------------------------------------------------------------------------
\* The cash and what the position cost are what was put in and what was realized.
Balanced == cash + Basis(positions[symbol]) = StartingCash + realized_pnl

\* What the curve says: every point is explained, the last one is what the account is
\* worth at the last close, and the final close changes nothing of it.
Marks ==
  /\ \A i \in DOMAIN equity_curve :
       equity_curve[i].equity =
         StartingCash + equity_curve[i].realized_pnl + equity_curve[i].unrealized_pnl
  /\ phase \in {"next", "done"} /\ index > 0 =>
       equity_curve[Len(equity_curve)].equity
         = cash + LiquidationValue(positions[symbol], candle.close)
  /\ phase = "final_mark" =>
       positions[symbol] = None /\ equity_curve[NumCandles].equity = cash
  /\ Len(equity_curve) > NumCandles =>
       equity_curve[NumCandles + 1].equity = equity_curve[NumCandles].equity
  /\ phase = "done" /\ close_open_positions_on_end => positions[symbol] = None

RunInv == Shape /\ Traded /\ Balanced /\ Marks

\* The types of the position of the run.
LEMMA PositionTypes ==
  ASSUME TypeOK
  PROVE  /\ symbol \in Symbols /\ positions[symbol] \in PaperPosition \cup {None}
         /\ Basis(positions[symbol]) \in Int
         /\ positions[symbol] = None => Basis(positions[symbol]) = 0
         /\ \A mark \in Nat \ {0} : LiquidationValue(positions[symbol], mark) \in Int
         /\ \A mark : positions[symbol] = None => LiquidationValue(positions[symbol], mark) = 0
  <1> DEFINE position == positions[symbol]
  <1>1. symbol \in Symbols /\ position \in PaperPosition \cup {None}
    BY BacktestAssumption DEF TypeOK
  <1>2. position = None =>
          Basis(position) = 0 /\ \A mark : LiquidationValue(position, mark) = 0
    BY DEF Basis, LiquidationValue
  <1>3. ASSUME position # None
        PROVE  Basis(position) \in Int
               /\ \A mark \in Nat \ {0} : LiquidationValue(position, mark) \in Int
    <2>1. /\ position.quantity \in Int
          /\ position.average_entry_price + position.entry_cost_per_unit \in Int
      BY <1>1, <1>3 DEF PaperPosition
    <2>2. (position.average_entry_price + position.entry_cost_per_unit) * position.quantity \in Int
      BY <2>1, ProductType
    <2>3. ASSUME NEW mark \in Nat \ {0} PROVE LiquidationValue(position, mark) \in Int
      <3> DEFINE gross == ExecutionPrice("SELL", mark) * position.quantity
      <3>1. ExecutionPrice("SELL", mark) \in Int
        BY PriceType
      <3>2. gross \in Int
        BY <2>1, <3>1, ProductType
      <3>3. TransactionCost(gross) \in Int
        BY <3>2, CostType
      <3> HIDE DEF gross
      <3>4. gross - TransactionCost(gross) \in Int
        BY <3>2, <3>3
      <3> QED
        BY <1>3, <3>4 DEF LiquidationValue, gross
    <2> QED
      BY <1>3, <2>2, <2>3 DEF Basis
  <1> QED
    BY <1>1, <1>2, <1>3

\* Only the account changes: what the curve said stays said.
LEMMA MarksKept ==
  ASSUME Shape', Marks, UNCHANGED equity_curve,
         phase' \in {"signal", "exit", "mark"}
  PROVE  Marks'
  <1>1. PICK n, i : n = Len(equity_curve) /\ i = index'
    OBVIOUS
  <1>2. NumCandles \in Nat
    BY BacktestAssumption
  <1>3. ~(Len(equity_curve) > NumCandles)
    <2>1. n = i - 1 /\ i \in 0..NumCandles
      BY <1>1 DEF Shape
    <2>2. ~(n > NumCandles)
      BY <1>2, <2>1
    <2> QED
      BY <1>1, <2>2
  <1>4. ~(Len(equity_curve') > NumCandles)
    BY <1>3
  <1> QED
    BY <1>4 DEF Marks

\* A new bar keeps the invariant of the run.
LEMMA NextCandleKeeps == ASSUME TypeOK, RunInv, NextCandle PROVE RunInv'
  <1>1. Shape'
    <2>1. NumCandles \in Nat
      BY BacktestAssumption
    <2>2. /\ index \in Nat /\ index < NumCandles /\ index' = index + 1
          /\ candle' \in Candles /\ phase' \in {"signal", "exit"}
          /\ equity_curve' = equity_curve /\ Len(equity_curve) = index
          /\ equity_curve \in Seq(EquityCurvePoint)
      BY <2>1 DEF RunInv, Shape, NextCandle
    <2> QED
      BY <2>1, <2>2 DEF Shape
  <1>2. Traded' /\ Balanced'
    <2>1. UNCHANGED <<cash, positions, realized_pnl>> /\ index' = index + 1 /\ index \in Nat
      BY BacktestAssumption DEF NextCandle, vars, RunInv, Shape
    <2> QED
      BY <2>1 DEF RunInv, Traded, Balanced
  <1>3. Marks'
    BY <1>1, MarksKept DEF RunInv, NextCandle
  <1> QED
    BY <1>1, <1>2, <1>3 DEF RunInv

\* So does a strategy that answers nothing,
LEMMA NoSignalKeeps == ASSUME TypeOK, RunInv, NoSignal PROVE RunInv'
  <1>1. Shape'
    BY DEF RunInv, Shape, NoSignal
  <1>2. Traded' /\ Balanced'
    BY DEF RunInv, Traded, Balanced, NoSignal, vars
  <1>3. Marks'
    BY <1>1, MarksKept DEF RunInv, NoSignal
  <1> QED
    BY <1>1, <1>2, <1>3 DEF RunInv

\* the entry of a signal, or its refusal,
LEMMA SignalKeeps ==
  ASSUME TypeOK, RunInv, NEW signal \in Signals, Signal(signal)
  PROVE  RunInv'
  <1>1. phase = "signal" /\ index > 0 /\ UNCHANGED <<index, candle, equity_curve>> /\ phase' = "exit"
    BY DEF RunInv, Shape, Signal
  <1>2. Shape'
    BY <1>1 DEF RunInv, Shape
  <1>3. Traded' /\ Balanced'
    <2>1. CASE UNCHANGED <<cash, positions, realized_pnl>>
      BY <1>1, <2>1 DEF RunInv, Traded, Balanced
    <2>2. CASE ~UNCHANGED <<cash, positions, realized_pnl>>
      <3> DEFINE r == Order(signal, candle)
      <3>1. signal.symbol = symbol /\ signal.market = market /\ SubmitBuy(r)
        BY <2>2 DEF Signal, vars
      <3>2. r \in EntryOrder /\ r.symbol = symbol /\ r.market = market
        BY <1>1, <3>1, RunTypes DEF RunInv
      <3> HIDE DEF r
      <3>3. /\ positions[symbol] = None
            /\ positions'[symbol] # None /\ positions'[symbol].market = r.market
            /\ Basis(positions'[symbol]) \in Int
            /\ cash' = cash - Basis(positions'[symbol])
            /\ realized_pnl' = realized_pnl
        BY <2>2, <3>1, <3>2, RunEntry
      <3>4. Basis(positions[symbol]) = 0 /\ cash \in Int
        BY <3>3, PositionTypes DEF TypeOK
      <3> QED
        BY <1>1, <3>2, <3>3, <3>4 DEF RunInv, Traded, Balanced
    <2> QED
      BY <2>1, <2>2
  <1>4. Marks'
    BY <1>1, <1>2, MarksKept DEF RunInv
  <1> QED
    BY <1>2, <1>3, <1>4 DEF RunInv

\* A sale of the whole position keeps the balance, and leaves nothing to be traded.
LEMMA SaleBalances ==
  ASSUME TypeOK, RunInv, index > 0, positions[symbol] # None, NEW price \in Nat \ {0},
         CloseOpenPosition(CurrentBar, price)
  PROVE  /\ Traded' /\ Balanced' /\ positions'[symbol] = None
         /\ cash' = cash + LiquidationValue(positions[symbol], price)
  <1>1. CurrentBar \in Bar /\ CurrentBar.symbol = symbol /\ CurrentBar.market = market
    BY RunTypes DEF RunInv
  <1>2. positions[symbol].market = market
    BY DEF RunInv, Traded
  <1>3. /\ positions'[symbol] = None
        /\ LiquidationValue(positions[symbol], price) \in Int
        /\ Basis(positions[symbol]) \in Int
        /\ cash' = cash + LiquidationValue(positions[symbol], price)
        /\ realized_pnl' = realized_pnl + LiquidationValue(positions[symbol], price)
                             - Basis(positions[symbol])
    BY <1>1, <1>2, WholeSale
  <1>4. Basis(positions'[symbol]) = 0
    BY <1>3 DEF Basis
  <1>5. cash + Basis(positions[symbol]) = StartingCash + realized_pnl
    BY DEF RunInv, Balanced
  <1>6. cash \in Int /\ realized_pnl \in Int /\ StartingCash \in Int
    BY PaperAssumption DEF TypeOK
  <1>7. cash' + Basis(positions'[symbol]) = StartingCash + realized_pnl'
    BY <1>3, <1>4, <1>5, <1>6
  <1> QED
    BY <1>3, <1>7 DEF Traded, Balanced

\* an exit at the stop or at the target,
LEMMA ExitKeeps == ASSUME TypeOK, RunInv, Exit PROVE RunInv'
  <1>1. phase = "exit" /\ index > 0 /\ UNCHANGED <<index, candle, equity_curve>> /\ phase' = "mark"
    BY DEF RunInv, Shape, Exit
  <1>2. Shape'
    BY <1>1 DEF RunInv, Shape
  <1>3. Traded' /\ Balanced'
    <2>1. CASE UNCHANGED vars
      BY <1>1, <2>1 DEF RunInv, Traded, Balanced, vars
    <2>2. CASE ~UNCHANGED vars
      <3>1. EvaluateExit(CurrentBar) /\ CurrentBar \in Bar /\ CurrentBar.symbol = symbol
        BY <1>1, <2>2, RunTypes DEF Exit, RunInv
      <3>2. PICK price \in Nat \ {0} : CloseOpenPosition(CurrentBar, price)
        BY <3>1, ExitIsClose
      <3>3. positions[symbol] # None
        BY <3>1, ExitIsClose
      <3> QED
        BY <1>1, <3>2, <3>3, SaleBalances
    <2> QED
      BY <2>1, <2>2
  <1>4. Marks'
    BY <1>1, <1>2, MarksKept DEF RunInv
  <1> QED
    BY <1>2, <1>3, <1>4 DEF RunInv

\* The point that is marked.
LEMMA PointTypes ==
  ASSUME TypeOK, Balanced, NEW mark \in Nat \ {0}
  PROVE  /\ EquityPoint(mark) \in EquityCurvePoint
         /\ EquityPoint(mark).equity = cash + LiquidationValue(positions[symbol], mark)
         /\ EquityPoint(mark).equity =
              StartingCash + EquityPoint(mark).realized_pnl + EquityPoint(mark).unrealized_pnl
  <1> DEFINE value == LiquidationValue(positions[symbol], mark)
  <1>1. /\ cash \in Int /\ realized_pnl \in Int /\ StartingCash \in Int
        /\ value \in Int /\ Basis(positions[symbol]) \in Int
    BY PositionTypes, PaperAssumption DEF TypeOK
  <1>2. /\ EquityPoint(mark).equity = cash + value /\ EquityPoint(mark).cash = cash
        /\ EquityPoint(mark).realized_pnl = realized_pnl
        /\ EquityPoint(mark).unrealized_pnl = value - Basis(positions[symbol])
    BY DEF EquityPoint
  <1>3. EquityPoint(mark) \in EquityCurvePoint
    BY <1>1 DEF EquityPoint, EquityCurvePoint
  <1> HIDE DEF value
  <1>4. cash + Basis(positions[symbol]) = StartingCash + realized_pnl
    BY DEF Balanced
  <1>5. cash + value = StartingCash + realized_pnl + (value - Basis(positions[symbol]))
    BY <1>1, <1>4
  <1> QED
    BY <1>2, <1>3, <1>5 DEF value

\* the mark at the close,
LEMMA MarkKeeps == ASSUME TypeOK, RunInv, Mark PROVE RunInv'
  <1> DEFINE n == Len(equity_curve)
             point == EquityPoint(candle.close)
  <1>1. /\ phase \in {"mark", "final_mark"} /\ index > 0 /\ index \in Nat
        /\ equity_curve' = Append(equity_curve, point)
        /\ phase' = IF phase = "mark" THEN "next" ELSE "done"
        /\ UNCHANGED <<cash, positions, realized_pnl, index, candle>>
        /\ equity_curve \in Seq(EquityCurvePoint) /\ NumCandles \in Nat
    BY BacktestAssumption DEF RunInv, Shape, Mark, vars
  <1>2. candle.close \in Nat \ {0}
    BY <1>1, RunTypes DEF RunInv
  <1>3. /\ point \in EquityCurvePoint
        /\ point.equity = cash + LiquidationValue(positions[symbol], candle.close)
        /\ point.equity = StartingCash + point.realized_pnl + point.unrealized_pnl
    BY <1>2, PointTypes DEF RunInv
  <1> HIDE DEF point
  <1>4. /\ n \in Nat /\ DOMAIN equity_curve = 1..n /\ Len(equity_curve') = n + 1
        /\ DOMAIN equity_curve' = 1..(n + 1)
        /\ \A i \in 1..n : equity_curve'[i] = equity_curve[i]
        /\ equity_curve'[n + 1] = point
        /\ equity_curve' \in Seq(EquityCurvePoint)
    BY <1>1, <1>3
  <1>5. n = IF phase = "mark" THEN index - 1 ELSE NumCandles
    BY <1>1 DEF RunInv, Shape
  <1>6. index <= NumCandles /\ (phase = "final_mark" => index = NumCandles)
    BY DEF RunInv, Shape
  <1>7. Shape'
    BY <1>1, <1>4, <1>5, <1>6 DEF RunInv, Shape
  <1>8. Traded' /\ Balanced'
    BY <1>1 DEF RunInv, Traded, Balanced
  <1>9. Marks'
    <2>1. \A i \in DOMAIN equity_curve' :
            equity_curve'[i].equity =
              StartingCash + equity_curve'[i].realized_pnl + equity_curve'[i].unrealized_pnl
      BY <1>3, <1>4 DEF RunInv, Marks
    <2>2. equity_curve'[Len(equity_curve')].equity
            = cash' + LiquidationValue(positions'[symbol], candle'.close)
      BY <1>1, <1>3, <1>4
    <2>3. CASE phase = "mark"
      <3>1. phase' = "next" /\ Len(equity_curve') <= NumCandles
        BY <1>1, <1>4, <1>5, <1>6, <2>3
      <3> QED
        BY <1>1, <2>1, <2>2, <3>1 DEF Marks
    <2>4. CASE phase = "final_mark"
      <3>1. phase' = "done" /\ n = NumCandles /\ NumCandles > 0
        BY <1>1, <1>5, <1>6, <2>4
      <3>2. positions[symbol] = None /\ equity_curve[NumCandles].equity = cash
        BY <2>4 DEF RunInv, Marks
      <3>3. point.equity = cash
        BY <1>2, <1>3, <3>2, PositionTypes DEF TypeOK
      <3>4. equity_curve'[NumCandles + 1].equity = equity_curve'[NumCandles].equity
        BY <1>4, <3>1, <3>2, <3>3
      <3> QED
        BY <1>1, <2>1, <2>2, <3>1, <3>2, <3>4 DEF Marks
    <2> QED
      BY <1>1, <2>3, <2>4
  <1> QED
    BY <1>7, <1>8, <1>9 DEF RunInv

\* and the close after the last bar.
LEMMA FinalCloseKeeps == ASSUME TypeOK, RunInv, FinalClose PROVE RunInv'
  <1>1. /\ phase = "next" /\ index = NumCandles /\ NumCandles \in Nat
        /\ UNCHANGED <<index, candle, equity_curve>> /\ Len(equity_curve) = index
    BY BacktestAssumption DEF RunInv, Shape, FinalClose
  <1>2. CASE close_open_positions_on_end /\ positions[symbol] # None
    <2>1. phase' = "final_mark" /\ index > 0 /\ CloseOpenPosition(CurrentBar, candle.close)
      BY <1>2 DEF FinalClose, RunInv, Traded
    <2>2. candle.close \in Nat \ {0}
      BY <2>1, RunTypes DEF RunInv
    <2>3. /\ Traded' /\ Balanced' /\ positions'[symbol] = None
          /\ cash' = cash + LiquidationValue(positions[symbol], candle.close)
      BY <1>2, <2>1, <2>2, SaleBalances
    <2>4. Shape'
      BY <1>1, <2>1 DEF RunInv, Shape
    <2>5. equity_curve[NumCandles].equity
            = cash + LiquidationValue(positions[symbol], candle.close)
      BY <1>1, <2>1 DEF RunInv, Marks
    <2>6. Marks'
      BY <1>1, <2>1, <2>3, <2>5 DEF RunInv, Marks
    <2> QED
      BY <2>3, <2>4, <2>6 DEF RunInv
  <1>3. CASE ~(close_open_positions_on_end /\ positions[symbol] # None)
    <2>1. phase' = "done" /\ UNCHANGED vars
      BY <1>3 DEF FinalClose
    <2>2. UNCHANGED <<cash, positions, realized_pnl>>
      BY <2>1 DEF vars
    <2>3. Shape'
      BY <1>1, <2>1 DEF RunInv, Shape
    <2>4. Traded' /\ Balanced'
      BY <1>1, <2>2 DEF RunInv, Traded, Balanced
    <2>5. Marks'
      BY <1>1, <1>3, <2>1, <2>2 DEF RunInv, Marks
    <2> QED
      BY <2>3, <2>4, <2>5 DEF RunInv
  <1> QED
    BY <1>2, <1>3

\* Every step of a run keeps its invariant.
LEMMA NextRunInv ==
  ASSUME TypeOK, RunInv, [BacktestNext]_backtestVars
  PROVE  RunInv'
  <1>1. CASE UNCHANGED backtestVars
    BY <1>1 DEF backtestVars, vars, RunInv, Shape, Traded, Balanced, Marks
  <1> QED
    BY <1>1, NextCandleKeeps, NoSignalKeeps, SignalKeeps, ExitKeeps, MarkKeeps, FinalCloseKeeps
    DEF BacktestNext

\* A run starts with it.
LEMMA InitRunInv == BacktestInit => TypeOK /\ RunInv
  <1> SUFFICES ASSUME BacktestInit PROVE TypeOK /\ RunInv
    OBVIOUS
  <1>1. TypeOK /\ positions[symbol] = None
    BY InitTypeOK, BacktestAssumption DEF BacktestInit, Init
  <1>2. Shape
    BY BacktestAssumption DEF BacktestInit, Shape
  <1>3. Traded /\ Balanced
    BY <1>1, PaperAssumption DEF BacktestInit, Init, Traded, Balanced, Basis
  <1>4. Marks
    BY BacktestAssumption DEF BacktestInit, Marks
  <1> QED
    BY <1>1, <1>2, <1>3, <1>4 DEF RunInv

\* In a run the engine keeps its types and the run its invariant.
LEMMA RunIsInv == BacktestSpec => [](TypeOK /\ RunInv)
  <1>1. TypeOK /\ RunInv /\ [BacktestNext]_backtestVars => TypeOK' /\ RunInv'
    BY RunCalls, CallTypeOK, NextRunInv DEF RunInv
  <1> QED
    BY <1>1, InitRunInv, PTL DEF BacktestSpec

\* The books of an engine that a backtest owns are those of one that anybody calls:
\* its types hold, its journal tells the account, no day exceeds its cap and every
\* step balances.
THEOREM BacktestKeepsTheBooks ==
  BacktestSpec => /\ []TypeOK /\ []JournalTellsTheAccount /\ []DailyEntryCap
                  /\ EachCallBalances
  <1>1. BacktestInit => JournalTellsTheAccount /\ CountInv
    BY InitJournal, InitCountInv DEF BacktestInit
  <1>2. TypeOK /\ TypeOK' /\ RunInv /\ JournalTellsTheAccount /\ [BacktestNext]_backtestVars
          => JournalTellsTheAccount'
    BY RunCalls, CallKeepsJournal DEF RunInv
  <1>3. TypeOK /\ RunInv /\ CountInv /\ [BacktestNext]_backtestVars => CountInv'
    BY RunCalls, CallCountInv DEF RunInv
  <1>4. CountInv => DailyEntryCap
    BY DEF CountInv
  <1>5. TypeOK /\ RunInv /\ [BacktestNext]_backtestVars =>
          [\E s \in Symbols :
             /\ \A t \in Symbols \ {s} : positions'[t] = positions[t]
             /\ cash' - realized_pnl' + Basis(positions'[s])
                  = cash - realized_pnl + Basis(positions[s])]_vars
    BY RunCalls, CallBalances DEF RunInv
  <1> QED
    BY <1>1, <1>2, <1>3, <1>4, <1>5, RunIsInv, PTL DEF BacktestSpec, EachCallBalances

-----------------------------------------------------------------------------
\* The net profit of the closed trades is the profit that was realized.
LEMMA NetPnlIs ==
  NetPnl = SumFunctionOnSet([i \in DOMAIN journal |-> journal[i].realized_pnl],
                            {i \in 1..Len(journal) : journal[i].status = "CLOSED"})
  BY DEF NetPnl, Entries

\* A call adds to the net profit what it adds to the realized profit.
LEMMA CallKeepsNetPnl ==
  ASSUME TypeOK, NetPnl = realized_pnl, Call \/ UNCHANGED vars
  PROVE  NetPnl' = realized_pnl'
  <1>1. ASSUME NEW e \in EntryRecord, Recorded(e) PROVE NetPnl' = realized_pnl'
    <2> DEFINE n == Len(journal)
               f == [i \in DOMAIN journal |-> journal[i].realized_pnl]
               g == [i \in DOMAIN journal' |-> journal'[i].realized_pnl]
               S == {i \in 1..Len(journal) : journal[i].status = "CLOSED"}
               T == {i \in 1..Len(journal') : journal'[i].status = "CLOSED"}
    <2>1. journal' = Append(journal, e)
      BY <1>1 DEF Recorded
    <2>2. /\ n \in Nat /\ DOMAIN journal = 1..n
          /\ Len(journal') = n + 1
          /\ DOMAIN journal' = (1..n) \cup {n + 1}
          /\ \A i \in 1..n : journal'[i] = journal[i] /\ journal[i] \in EntryRecord
          /\ journal'[n + 1] = e
      BY <2>1, JournalAppended
    <2>3. e.realized_pnl \in Int /\ \A i \in 1..n : journal[i].realized_pnl \in Int
      BY <2>2 DEF EntryRecord
    <2>4. g[n + 1] \in Int /\ g[n + 1] = e.realized_pnl
      BY <2>2, <2>3
    <2>5. \A i \in 1..n : f[i] \in Int /\ g[i] = f[i]
      BY <2>2, <2>3
    <2>6. S \in SUBSET (1..n)
      OBVIOUS
    <2>7. T = IF e.status = "CLOSED" THEN S \cup {n + 1} ELSE S
      BY <2>2
    <2>8. NetPnl = SumFunctionOnSet(f, S) /\ NetPnl' = SumFunctionOnSet(g, T)
      BY DEF NetPnl, Entries
    <2>9. n \in Nat
      BY <2>2
    <2> HIDE DEF n, f, g, S, T
    <2>10. /\ SumFunctionOnSet(f, S) \in Int
           /\ SumFunctionOnSet(g, S) = SumFunctionOnSet(f, S)
           /\ SumFunctionOnSet(g, S \cup {n + 1}) = SumFunctionOnSet(f, S) + g[n + 1]
      <3>1. g[n + 1] \in Int
        BY <2>4
      <3> QED
        BY <2>5, <2>6, <2>9, <3>1, SumGrows
    <2>11. realized_pnl' = realized_pnl + e.realized_pnl /\ (e.status # "CLOSED" => e.realized_pnl = 0)
      BY <1>1 DEF Recorded
    <2>12. SumFunctionOnSet(f, S) = realized_pnl /\ realized_pnl \in Int
      BY <2>8 DEF TypeOK
    <2>13. CASE e.status = "CLOSED"
      BY <2>4, <2>7, <2>8, <2>10, <2>11, <2>12, <2>13
    <2>14. CASE e.status # "CLOSED"
      BY <2>3, <2>7, <2>8, <2>10, <2>11, <2>12, <2>14
    <2> QED
      BY <2>13, <2>14
  <1>2. CASE UNCHANGED vars
    BY <1>2 DEF vars, NetPnl, Entries
  <1> QED
    BY <1>1, <1>2, CallIsRecorded

\* Both are nothing at the start.
LEMMA InitNetPnl == Init => NetPnl = realized_pnl
  <1> SUFFICES ASSUME Init PROVE NetPnl = realized_pnl
    OBVIOUS
  <1> DEFINE f == [i \in DOMAIN journal |-> journal[i].realized_pnl]
  <1>1. NetPnl = SumFunctionOnSet(f, {})
    BY NetPnlIs DEF Init
  <1> QED
    BY <1>1, SumOfNone DEF Init

\* Every point of the curve is the starting cash with the realized and the unrealized
\* profit; the final close changes nothing of it and leaves no position; and the net
\* profit of the closed trades is that of the final equity: for every history, every
\* strategy, every cost and every limit.
THEOREM EquityExplained == BacktestSpec => []EquityIsExplained
  <1>1. TypeOK /\ RunInv /\ NetPnl = realized_pnl => EquityIsExplained
    <2> SUFFICES ASSUME TypeOK, RunInv, NetPnl = realized_pnl PROVE EquityIsExplained
      OBVIOUS
    <2>1. ASSUME phase = "done", positions[symbol] = None, NumCandles > 0
          PROVE  NetPnl = equity_curve[Len(equity_curve)].equity - StartingCash
      <3>1. index > 0
        BY <2>1 DEF RunInv, Shape
      <3>2. candle.close \in Nat \ {0}
        BY <3>1, RunTypes DEF RunInv
      <3>3. equity_curve[Len(equity_curve)].equity = cash
        BY <2>1, <3>1, <3>2, PositionTypes DEF RunInv, Marks, TypeOK
      <3>4. cash = StartingCash + realized_pnl
        BY <2>1, PositionTypes DEF RunInv, Balanced, TypeOK
      <3> QED
        BY <3>3, <3>4, PaperAssumption DEF TypeOK
    <2> QED
      BY <2>1 DEF RunInv, Marks, EquityIsExplained
  <1>2. TypeOK /\ RunInv /\ NetPnl = realized_pnl /\ [BacktestNext]_backtestVars
          => (NetPnl = realized_pnl)'
    BY RunCalls, CallKeepsNetPnl DEF RunInv
  <1>3. BacktestInit => NetPnl = realized_pnl
    BY InitNetPnl DEF BacktestInit
  <1> QED
    BY <1>1, <1>2, <1>3, RunIsInv, PTL DEF BacktestSpec

-----------------------------------------------------------------------------

(***************************************************************************)
(* The drawdown: one pass over the curve finds the worst of its declines,  *)
(* as long as no equity is negative.                                       *)
(***************************************************************************)
Unseen == [peak |-> None, worst |-> [loss |-> 0, peak |-> 1]]

\* What the pass has seen after each part of a curve.
IsPass(g, curve) ==
  g = [s \in SUBSET (DOMAIN curve) |->
         IF s = {} THEN Unseen ELSE DrawdownStep(g[s \ {Max(s)}], curve[Max(s)])]

\* What the fold of the library is.
LEMMA PassDefinition ==
  ASSUME NEW curve
  PROVE  MaxDrawdown(curve) = (CHOOSE g : IsPass(g, curve))[DOMAIN curve].worst
  BY Zenon DEF MaxDrawdown, FoldLeft, MapThenFoldSet, IsPass, Unseen

\* The last element of a part of a curve is one of its elements.
LEMMA MaxElement ==
  ASSUME NEW n \in Nat, NEW s \in SUBSET (1..n), s # {}
  PROVE  Max(s) \in s
  <1> DEFINE T == {n - i : i \in s}
  <1>1. T \in SUBSET Nat /\ T # {}
    <2>1. \A i \in s : n - i \in Nat
      OBVIOUS
    <2> QED
      BY <2>1
  <1>2. PICK x \in T : \A y \in T : x <= y
    BY <1>1, Smallest
  <1>3. \E i \in s : \A j \in s : i >= j
    <2>1. PICK i \in s : x = n - i
      BY <1>2
    <2>2. ASSUME NEW j \in s PROVE i >= j
      <3>1. n - i <= n - j
        BY <1>2, <2>1
      <3> QED
        BY <3>1
    <2> QED
      BY <2>2
  <1> QED
    BY <1>3 DEF Max

\* The last of the first k.
LEMMA MaxOfInterval ==
  ASSUME NEW k \in Nat
  PROVE  Max(1..(k + 1)) = k + 1 /\ (1..(k + 1)) \ {k + 1} = 1..k
  <1>1. Max(1..(k + 1)) \in 1..(k + 1) /\ \A y \in 1..(k + 1) : Max(1..(k + 1)) >= y
    <2>1. \E x \in 1..(k + 1) : \A y \in 1..(k + 1) : x >= y
      OBVIOUS
    <2> QED
      BY <2>1 DEF Max
  <1> QED
    BY <1>1

\* The pass can be made.
LEMMA PassExists ==
  ASSUME NEW curve, NEW n \in Nat, DOMAIN curve = 1..n
  PROVE  \E g : IsPass(g, curve)
  <1> DEFINE upto(m) == {s \in SUBSET (1..n) : Cardinality(s) <= m}
             step(g, s) == IF s = {} THEN Unseen
                           ELSE DrawdownStep(g[s \ {Max(s)}], curve[Max(s)])
             passes(m) == \E g : g = [s \in upto(m) |-> step(g, s)]
  <1>1. IsFiniteSet(1..n)
    BY FS_Interval
  <1>2. \A s \in SUBSET (1..n) :
          IsFiniteSet(s) /\ Cardinality(s) \in Nat /\ Cardinality(s) <= Cardinality(1..n)
    BY <1>1, FS_Subset, FS_CardinalityType
  <1>3. \A s \in SUBSET (1..n) : s # {} =>
          s \ {Max(s)} \in SUBSET (1..n) /\ Cardinality(s \ {Max(s)}) = Cardinality(s) - 1
    BY <1>2, MaxElement, FS_RemoveElement
  <1> HIDE DEF step
  <1>4. passes(0)
    <2> DEFINE g == [s \in upto(0) |-> Unseen]
    <2>1. \A s \in upto(0) : s = {}
      BY <1>2, FS_EmptySet
    <2>2. \A s \in upto(0) : step(g, s) = Unseen
      BY <2>1 DEF step
    <2> HIDE DEF upto
    <2> QED
      BY <2>2
  <1>5. ASSUME NEW m \in Nat, passes(m) PROVE passes(m + 1)
    <2>1. PICK g : g = [s \in upto(m) |-> step(g, s)]
      BY <1>5
    <2> DEFINE h == [s \in upto(m + 1) |-> IF s \in upto(m) THEN g[s] ELSE step(g, s)]
    <2>2. \A s \in upto(m + 1) : s # {} => s \ {Max(s)} \in upto(m)
      BY <1>2, <1>3, SMTT(60)
    <2>3. \A s \in upto(m) : s \in upto(m + 1)
      BY <1>2
    <2> HIDE DEF upto
    <2>4. \A s \in upto(m) : h[s] = g[s]
      BY <2>3
    <2>5. \A s \in upto(m + 1) : step(h, s) = step(g, s)
      <3>1. ASSUME NEW s \in upto(m + 1), s # {} PROVE step(h, s) = step(g, s)
        <4>1. h[s \ {Max(s)}] = g[s \ {Max(s)}]
          BY <2>2, <2>4, <3>1
        <4> QED
          BY <3>1, <4>1 DEF step
      <3>2. step(h, {}) = step(g, {})
        BY DEF step
      <3> QED
        BY <3>1, <3>2
    <2>6. \A s \in upto(m + 1) : h[s] = step(g, s)
      <3>1. \A s \in upto(m) : g[s] = step(g, s)
        BY <2>1
      <3> QED
        BY <3>1
    <2>7. h = [s \in upto(m + 1) |-> h[s]]
      OBVIOUS
    <2> HIDE DEF h
    <2>8. h = [s \in upto(m + 1) |-> step(h, s)]
      BY <2>5, <2>6, <2>7
    <2> QED
      BY <2>8
  <1>6. \A m \in Nat : passes(m)
    <2> DEFINE Good == {m \in Nat : passes(m)}
    <2> HIDE DEF passes
    <2>1. 0 \in Good /\ \A m \in Nat : m \in Good => m + 1 \in Good
      BY <1>4, <1>5
    <2> HIDE DEF Good
    <2>2. Nat \subseteq Good
      BY <2>1, NaturalInduction
    <2> QED
      BY <2>2 DEF Good
  <1>7. upto(Cardinality(1..n)) = SUBSET (1..n) /\ Cardinality(1..n) \in Nat
    BY <1>1, <1>2, FS_CardinalityType
  <1> HIDE DEF upto
  <1>8. PICK g : g = [s \in SUBSET (1..n) |-> step(g, s)]
    BY <1>6, <1>7
  <1> QED
    BY <1>8 DEF step, IsPass

\* The pass, point by point.
LEMMA PassSteps ==
  ASSUME NEW curve, NEW n \in Nat, DOMAIN curve = 1..n
  PROVE  \E seen :
           /\ seen[0] = Unseen
           /\ \A k \in 0..(n - 1) : seen[k + 1] = DrawdownStep(seen[k], curve[k + 1])
           /\ MaxDrawdown(curve) = seen[n].worst
  <1> DEFINE g == CHOOSE g : IsPass(g, curve)
             seen == [k \in 0..n |-> g[1..k]]
  <1>1. IsPass(g, curve)
    BY PassExists
  <1>2. MaxDrawdown(curve) = g[1..n].worst
    BY PassDefinition
  <1> HIDE DEF g
  <1>3. seen[0] = Unseen
    <2>1. g[{}] = Unseen
      BY <1>1 DEF IsPass
    <2>2. 1..0 = {} /\ 0 \in 0..n
      OBVIOUS
    <2> QED
      BY <2>1, <2>2
  <1>4. ASSUME NEW k \in 0..(n - 1)
        PROVE  seen[k + 1] = DrawdownStep(seen[k], curve[k + 1])
    <2>1. k \in Nat /\ k \in 0..n /\ k + 1 \in 0..n /\ 1..(k + 1) # {}
      OBVIOUS
    <2>2. 1..(k + 1) \in SUBSET (DOMAIN curve)
      OBVIOUS
    <2>3. Max(1..(k + 1)) = k + 1 /\ (1..(k + 1)) \ {k + 1} = 1..k
      BY <2>1, MaxOfInterval
    <2>4. \A s \in SUBSET (DOMAIN curve) : s # {} =>
            g[s] = DrawdownStep(g[s \ {Max(s)}], curve[Max(s)])
      BY <1>1 DEF IsPass
    <2>5. g[1..(k + 1)] = DrawdownStep(g[1..k], curve[k + 1])
      BY <2>1, <2>2, <2>3, <2>4
    <2> QED
      BY <2>1, <2>5
  <1>5. MaxDrawdown(curve) = seen[n].worst
    BY <1>2
  <1> QED
    BY <1>3, <1>4, <1>5

-----------------------------------------------------------------------------
\* The fraction a / b is at most c / d.
AtMost(a, b) == a.loss * b.peak <= b.loss * a.peak

\* A product grows with its factor.
LEMMA ProductGrows ==
  ASSUME NEW a \in Int, NEW b \in Int, NEW c \in Nat, a <= b
  PROVE  a * c <= b * c
  <1>1. (b - a) * c \in Nat
    OBVIOUS
  <1>2. (b - a) * c = b * c - a * c
    OBVIOUS
  <1> QED
    BY <1>1, <1>2

\* A common positive factor may be left out.
LEMMA FactorOut ==
  ASSUME NEW a \in Int, NEW b \in Int, NEW c \in Nat \ {0}, a * c <= b * c
  PROVE  a <= b
  <1>1. SUFFICES ASSUME a > b PROVE FALSE
    OBVIOUS
  <1>2. (b + 1) * c <= a * c
    BY <1>1, ProductGrows
  <1>3. (b + 1) * c = b * c + c
    OBVIOUS
  <1> QED
    BY <1>2, <1>3, ProductType

\* Products may be reordered.
LEMMA Reordered ==
  ASSUME NEW a \in Int, NEW b \in Int, NEW c \in Int
  PROVE  (a * b) * c = (a * c) * b /\ (a * b) * c = (c * b) * a /\ a * b = b * a
  OBVIOUS

\* The order of fractions with positive denominators is transitive.
LEMMA FractionOrder ==
  ASSUME NEW a \in Int, NEW b \in Nat \ {0}, NEW c \in Int, NEW d \in Nat \ {0},
         NEW x \in Int, NEW y \in Nat \ {0}, a * d <= c * b, c * y <= x * d
  PROVE  a * y <= x * b
  <1>1. (a * d) * y <= (c * b) * y
    BY ProductGrows, ProductType
  <1>2. (c * y) * b <= (x * d) * b
    BY ProductGrows, ProductType
  <1>3. (a * d) * y = (a * y) * d /\ (c * b) * y = (c * y) * b /\ (x * d) * b = (x * b) * d
    BY Reordered
  <1>4. a * y \in Int /\ x * b \in Int /\ (a * y) * d \in Int /\ (c * b) * y \in Int
          /\ (x * b) * d \in Int
    BY ProductType
  <1>5. (a * y) * d <= (x * b) * d
    BY <1>1, <1>2, <1>3, <1>4
  <1> QED
    BY <1>4, <1>5, FactorOut

\* A decline from a higher peak to the same equity, which is not negative, is no
\* smaller a part of the peak.
LEMMA HigherPeak ==
  ASSUME NEW e \in Nat \ {0}, NEW p \in Nat \ {0}, e <= p, NEW q \in Nat
  PROVE  (e - q) * p <= (p - q) * e
  <1>1. q * e <= q * p
    BY ProductGrows, Reordered
  <1>2. (e - q) * p = e * p - q * p /\ (p - q) * e = e * p - q * e
    OBVIOUS
  <1> QED
    BY <1>1, <1>2, ProductType

-----------------------------------------------------------------------------
\* What the pass knows after k points: the highest equity so far, and the worst
\* decline so far, which is one of the curve.
Knows(k, seen, curve) ==
  /\ seen.worst.loss \in Nat /\ seen.worst.peak \in Nat \ {0}
  /\ k = 0 => seen.peak = None
  /\ k > 0 => /\ seen.peak \in Nat
              /\ \A i \in 1..k : curve[i].equity <= seen.peak
              /\ \E i \in 1..k : curve[i].equity = seen.peak
  /\ \A j \in 1..k : \A i \in 1..j : curve[i].equity > 0 =>
       (curve[i].equity - curve[j].equity) * seen.worst.peak
         <= seen.worst.loss * curve[i].equity
  /\ \/ seen.worst.loss = 0
     \/ \E j \in 1..k : \E i \in 1..j :
          /\ curve[i].equity > 0
          /\ seen.worst.loss = curve[i].equity - curve[j].equity
          /\ seen.worst.peak = curve[i].equity

\* One more point of the curve keeps what the pass knows true.
LEMMA PassKnows ==
  ASSUME NEW curve, NEW k \in Nat, \A i \in 1..(k + 1) : curve[i].equity \in Nat,
         NEW seen, Knows(k, seen, curve)
  PROVE  Knows(k + 1, DrawdownStep(seen, curve[k + 1]), curve)
  <1> DEFINE q == curve[k + 1].equity
             p == IF seen.peak = None \/ seen.peak < q THEN q ELSE seen.peak
             decline == [loss |-> p - q, peak |-> p]
             next == DrawdownStep(seen, curve[k + 1])
  <1>1. q \in Nat /\ \A i \in 1..k : curve[i].equity \in Nat
    OBVIOUS
  <1>2. /\ next.peak = p
        /\ next.worst = IF p > 0 /\ Deeper(decline, seen.worst) THEN decline ELSE seen.worst
    BY DEF DrawdownStep
  <1>3. decline.loss = p - q /\ decline.peak = p
    OBVIOUS
  <1>4. p \in Nat /\ q <= p /\ (\A i \in 1..(k + 1) : curve[i].equity <= p)
          /\ \E i \in 1..(k + 1) : curve[i].equity = p
    <2>1. CASE k = 0
      <3>1. p = q
        BY <2>1 DEF Knows
      <3>2. 1..(k + 1) = {k + 1}
        BY <2>1
      <3> QED
        BY <1>1, <3>1, <3>2
    <2>2. CASE k > 0
      <3>1. /\ seen.peak \in Nat /\ seen.peak # None
            /\ \A i \in 1..k : curve[i].equity <= seen.peak
            /\ \E i \in 1..k : curve[i].equity = seen.peak
        BY <2>2, PaperAssumption DEF Knows
      <3>2. p = IF seen.peak < q THEN q ELSE seen.peak
        BY <3>1
      <3>3. p \in Nat /\ q <= p /\ seen.peak <= p
        BY <1>1, <3>1, <3>2
      <3>4. \A i \in 1..(k + 1) : curve[i].equity <= p
        BY <1>1, <3>1, <3>3
      <3>5. \E i \in 1..(k + 1) : curve[i].equity = p
        BY <1>1, <3>1, <3>2
      <3> QED
        BY <3>3, <3>4, <3>5
    <2> QED
      BY <2>1, <2>2
  <1> DEFINE w == next.worst
             v == seen.worst
  <1>5. v.loss \in Nat /\ v.peak \in Nat \ {0}
    BY DEF Knows
  <1> HIDE DEF q, p, next
  <1>6. \/ /\ p > 0 /\ w.loss = p - q /\ w.peak = p /\ (p - q) * v.peak > v.loss * p
        \/ w = v /\ (p > 0 => (p - q) * v.peak <= v.loss * p)
    <2>1. Deeper(decline, v) <=> (p - q) * v.peak > v.loss * p
      BY <1>3 DEF Deeper
    <2>2. (p - q) * v.peak \in Int /\ v.loss * p \in Int
      BY <1>1, <1>4, <1>5, ProductType
    <2> QED
      BY <1>2, <1>3, <2>1, <2>2
  <1> HIDE DEF w, v, decline
  <1>7. w.loss \in Nat /\ w.peak \in Nat \ {0}
    BY <1>1, <1>4, <1>5, <1>6
  <1>8. v.loss * w.peak <= w.loss * v.peak
    <2>1. CASE w = v
      BY <1>5, <2>1, ProductType
    <2>2. CASE w.loss = p - q /\ w.peak = p /\ (p - q) * v.peak > v.loss * p
      <3>1. (p - q) * v.peak \in Int /\ v.loss * p \in Int
        BY <1>1, <1>4, <1>5, ProductType
      <3> QED
        BY <2>2, <3>1
    <2> QED
      BY <1>6, <2>1, <2>2
  <1>9. p > 0 => (p - q) * w.peak <= w.loss * p
    <2>1. (p - q) * p \in Int
      BY <1>1, <1>4, ProductType
    <2> QED
      BY <1>6, <2>1
  <1>10. ASSUME NEW j \in 1..(k + 1), NEW i \in 1..j, curve[i].equity > 0
         PROVE  (curve[i].equity - curve[j].equity) * w.peak <= w.loss * curve[i].equity
    <2> DEFINE a == curve[i].equity
               b == curve[j].equity
    <2>1. a \in Nat \ {0} /\ b \in Nat /\ a <= p
      BY <1>4, <1>10
    <2>2. CASE j = k + 1
      <3>1. b = q
        BY <2>2 DEF q
      <3>2. p \in Nat \ {0}
        BY <1>4, <2>1
      <3> HIDE DEF a, b
      <3>3. (a - q) * p <= (p - q) * a
        BY <1>1, <2>1, <3>2, HigherPeak
      <3>4. (p - q) * w.peak <= w.loss * p
        BY <1>9, <3>2
      <3>5. a - q \in Int /\ p - q \in Int
        BY <1>1, <2>1, <3>2
      <3>6. (a - q) * w.peak <= w.loss * a
        BY <1>7, <2>1, <3>2, <3>3, <3>4, <3>5, FractionOrder
      <3> QED
        BY <3>1, <3>6 DEF a, b
    <2>3. CASE j # k + 1
      <3>1. j \in 1..k
        BY <2>3
      <3>2. (a - b) * v.peak <= v.loss * a
        BY <1>10, <3>1 DEF Knows, v
      <3> HIDE DEF a, b
      <3>3. a - b \in Int
        BY <2>1
      <3>4. (a - b) * w.peak <= w.loss * a
        BY <1>5, <1>7, <1>8, <2>1, <3>2, <3>3, FractionOrder, SMTT(60)
      <3> QED
        BY <3>4 DEF a, b
    <2> QED
      BY <2>2, <2>3
  <1>11. \/ w.loss = 0
         \/ \E j \in 1..(k + 1) : \E i \in 1..j :
              /\ curve[i].equity > 0
              /\ w.loss = curve[i].equity - curve[j].equity /\ w.peak = curve[i].equity
    <2>1. CASE w = v
      <3>1. CASE v.loss = 0
        BY <2>1, <3>1
      <3>2. CASE v.loss # 0
        <4>1. PICK j \in 1..k : \E i \in 1..j :
                 /\ curve[i].equity > 0
                 /\ v.loss = curve[i].equity - curve[j].equity /\ v.peak = curve[i].equity
          BY <3>2 DEF Knows, v
        <4>2. j \in 1..(k + 1)
          OBVIOUS
        <4> QED
          BY <2>1, <4>1, <4>2
      <3> QED
        BY <3>1, <3>2
    <2>2. CASE p > 0 /\ w.loss = p - q /\ w.peak = p
      <3>1. PICK i \in 1..(k + 1) : curve[i].equity = p
        BY <1>4
      <3>2. k + 1 \in 1..(k + 1) /\ curve[k + 1].equity = q
        BY DEF q
      <3> QED
        BY <2>2, <3>1, <3>2
    <2> QED
      BY <1>6, <2>1, <2>2
  <1>12. next.peak = p /\ next.worst = w
    BY <1>2 DEF w
  <1>13. Knows(k + 1, next, curve)
    BY <1>4, <1>7, <1>10, <1>11, <1>12 DEF Knows
  <1> QED
    BY <1>13 DEF next

\* No decline of a curve without negative equities is worse than the one reported,
\* which is one of the curve.
LEMMA DrawdownOfCurve ==
  ASSUME NEW curve, NEW n \in Nat, DOMAIN curve = 1..n,
         \A i \in 1..n : curve[i].equity \in Nat
  PROVE  \E seen : Knows(n, seen, curve) /\ MaxDrawdown(curve) = seen.worst
  <1>1. PICK seen : /\ seen[0] = Unseen
                    /\ \A k \in 0..(n - 1) : seen[k + 1] = DrawdownStep(seen[k], curve[k + 1])
                    /\ MaxDrawdown(curve) = seen[n].worst
    BY PassSteps
  <1> DEFINE Good == {k \in Nat : k <= n => Knows(k, seen[k], curve)}
  <1>2. 0 \in Good
    <2>1. Knows(0, Unseen, curve)
      BY DEF Knows, Unseen
    <2> QED
      BY <1>1, <2>1
  <1>3. ASSUME NEW k \in Nat, k \in Good PROVE k + 1 \in Good
    <2>1. ASSUME k + 1 <= n PROVE Knows(k + 1, seen[k + 1], curve)
      <3>1. k \in 0..(n - 1) /\ Knows(k, seen[k], curve)
        BY <1>3, <2>1
      <3>2. \A i \in 1..(k + 1) : curve[i].equity \in Nat
        BY <2>1
      <3>3. Knows(k + 1, DrawdownStep(seen[k], curve[k + 1]), curve)
        BY <3>1, <3>2, PassKnows
      <3> QED
        BY <1>1, <3>1, <3>3
    <2> QED
      BY <2>1
  <1> HIDE DEF Good
  <1>4. n \in Good
    BY <1>2, <1>3, NaturalInduction
  <1>5. Knows(n, seen[n], curve)
    BY <1>4 DEF Good
  <1> QED
    BY <1>1, <1>5

-----------------------------------------------------------------------------
\* The costs of a trade come out of it and of the cash that is kept: a sale costs no
\* more than it brings and the flat fee, which the cash buffer covers.
FeesAreCovered == CostRate <= Base /\ FlatCost <= MinCashBuffer

\* No equity is negative, and with an open position the buffer is kept.
Solvent ==
  /\ cash >= 0
  /\ positions[symbol] # None => cash >= MinCashBuffer
  /\ \A i \in DOMAIN equity_curve : equity_curve[i].equity >= 0

\* A share of a value that is not negative is not more than the value.
LEMMA ShareOfValue ==
  ASSUME FeesAreCovered, NEW gross \in Nat
  PROVE  TransactionCost(gross) <= gross + FlatCost /\ TransactionCost(gross) \in Int
  <1>1. Base \in Nat \ {0} /\ CostRate \in Nat /\ CostRate <= Base /\ FlatCost \in Nat
    BY PaperAssumption DEF FeesAreCovered
  <1> DEFINE d == gross \div Base
  <1>2. d \in Nat
    BY <1>1
  <1>3. Base * d <= gross
    BY <1>1
  <1> HIDE DEF d
  <1>4. CostRate * d <= Base * d
    BY <1>1, <1>2, ProductGrows
  <1>5. d * CostRate = CostRate * d /\ CostRate * d \in Int /\ Base * d \in Int
    BY <1>1, <1>2, Reordered, ProductType
  <1>6. d * CostRate <= gross /\ d * CostRate \in Int
    BY <1>3, <1>4, <1>5
  <1>7. TransactionCost(gross) = d * CostRate + FlatCost
    BY DEF TransactionCost, d
  <1> QED
    BY <1>1, <1>6, <1>7

\* Selling a position costs at most the flat fee.
LEMMA LiquidationCost ==
  ASSUME TypeOK, FeesAreCovered, NEW mark \in Nat \ {0}
  PROVE  LiquidationValue(positions[symbol], mark) >= -FlatCost
  <1> DEFINE position == positions[symbol]
             price == ExecutionPrice("SELL", mark)
             gross == price * position.quantity
  <1>1. CASE position = None
    BY <1>1, PaperAssumption DEF LiquidationValue
  <1>2. CASE position # None
    <2>1. position \in PaperPosition /\ position.quantity \in Nat
      BY <1>2, BacktestAssumption DEF TypeOK, PaperPosition
    <2>2. price \in Nat
      <3>1. mark * Base \in Nat /\ Base - Slippage \in Nat
        BY PaperAssumption
      <3>2. price = (mark * Base) * (Base - Slippage)
        BY DEF ExecutionPrice
      <3> QED
        BY <3>1, <3>2
    <2> HIDE DEF price
    <2>3. gross \in Nat
      BY <2>1, <2>2
    <2> HIDE DEF gross
    <2>4. TransactionCost(gross) <= gross + FlatCost /\ TransactionCost(gross) \in Int
      BY <2>3, ShareOfValue
    <2>5. LiquidationValue(position, mark) = gross - TransactionCost(gross)
      BY <1>2 DEF LiquidationValue, gross, price
    <2> HIDE DEF position
    <2> QED
      BY <2>3, <2>4, <2>5, PaperAssumption DEF position
  <1> QED
    BY <1>1, <1>2

\* A run never has a negative equity.
LEMMA SolventKept ==
  ASSUME FeesAreCovered, TypeOK, RunInv, Solvent, [BacktestNext]_backtestVars
  PROVE  Solvent'
  <1>1. /\ cash \in Int /\ MinCashBuffer \in Nat /\ FlatCost \in Nat /\ FlatCost <= MinCashBuffer
    BY PaperAssumption DEF TypeOK, FeesAreCovered
  <1>2. ASSUME UNCHANGED <<cash, positions, equity_curve>> PROVE Solvent'
    BY <1>2 DEF Solvent
  <1>3. ASSUME NEW price \in Nat \ {0}, index > 0, positions[symbol] # None,
               CloseOpenPosition(CurrentBar, price), UNCHANGED equity_curve
        PROVE  Solvent'
    <2>1. positions'[symbol] = None /\ cash' = cash + LiquidationValue(positions[symbol], price)
      BY <1>3, SaleBalances
    <2>2. /\ LiquidationValue(positions[symbol], price) >= -FlatCost
          /\ LiquidationValue(positions[symbol], price) \in Int
      BY LiquidationCost, PositionTypes
    <2>3. cash >= MinCashBuffer
      BY <1>3 DEF Solvent
    <2>4. cash' >= 0
      BY <1>1, <2>1, <2>2, <2>3
    <2> QED
      BY <1>3, <2>1, <2>4 DEF Solvent
  <1>4. ASSUME NEW signal \in Signals, Signal(signal) PROVE Solvent'
    <2>1. UNCHANGED equity_curve /\ index > 0
      BY <1>4 DEF Signal, RunInv, Shape
    <2>2. CASE UNCHANGED vars
      BY <1>2, <2>1, <2>2 DEF vars
    <2>3. CASE ~UNCHANGED vars
      <3> DEFINE r == Order(signal, candle)
      <3>1. signal.symbol = symbol /\ signal.market = market /\ SubmitBuy(r)
        BY <1>4, <2>3 DEF Signal
      <3>2. r \in EntryOrder /\ r.symbol = symbol
        BY <2>1, <3>1, RunTypes DEF RunInv
      <3> HIDE DEF r
      <3>3. UNCHANGED <<cash, positions>> \/ cash' >= MinCashBuffer
        BY <3>1, <3>2, RunEntry
      <3>4. UNCHANGED <<cash, positions>> \/ (cash' >= MinCashBuffer /\ cash' >= 0)
        <4>1. cash' \in Int
          BY <3>1, <3>2, RunCalls, CallTypeOK DEF TypeOK, RunInv
        <4> QED
          BY <1>1, <3>3, <4>1
      <3> QED
        BY <2>1, <3>4 DEF Solvent
    <2> QED
      BY <2>2, <2>3
  <1>5. ASSUME Exit PROVE Solvent'
    <2>1. UNCHANGED equity_curve /\ index > 0
      BY <1>5 DEF Exit, RunInv, Shape
    <2>2. CASE UNCHANGED vars
      BY <1>2, <2>1, <2>2 DEF vars
    <2>3. CASE ~UNCHANGED vars
      <3>1. EvaluateExit(CurrentBar) /\ CurrentBar \in Bar /\ CurrentBar.symbol = symbol
        BY <1>5, <2>1, <2>3, RunTypes DEF Exit, RunInv
      <3>2. PICK price \in Nat \ {0} : CloseOpenPosition(CurrentBar, price)
        BY <3>1, ExitIsClose
      <3>3. positions[symbol] # None
        BY <3>1, ExitIsClose
      <3> QED
        BY <1>3, <2>1, <3>2, <3>3
    <2> QED
      BY <2>2, <2>3
  <1>6. ASSUME Mark PROVE Solvent'
    <2> DEFINE n == Len(equity_curve)
               point == EquityPoint(candle.close)
    <2>1. /\ index > 0 /\ equity_curve \in Seq(EquityCurvePoint)
          /\ equity_curve' = Append(equity_curve, point) /\ UNCHANGED <<cash, positions>>
      BY <1>6 DEF Mark, vars, RunInv, Shape
    <2>2. candle.close \in Nat \ {0}
      BY <2>1, RunTypes DEF RunInv
    <2>3. /\ point \in EquityCurvePoint
          /\ point.equity = cash + LiquidationValue(positions[symbol], candle.close)
      BY <2>2, PointTypes DEF RunInv
    <2>4. /\ LiquidationValue(positions[symbol], candle.close) >= -FlatCost
          /\ LiquidationValue(positions[symbol], candle.close) \in Int
          /\ (positions[symbol] = None => LiquidationValue(positions[symbol], candle.close) = 0)
      BY <2>2, LiquidationCost, PositionTypes
    <2>5. cash >= 0 /\ (positions[symbol] # None => cash >= MinCashBuffer)
      BY DEF Solvent
    <2>6. point.equity >= 0
      BY <1>1, <2>3, <2>4, <2>5
    <2> HIDE DEF point
    <2>7. /\ n \in Nat /\ DOMAIN equity_curve = 1..n /\ DOMAIN equity_curve' = 1..(n + 1)
          /\ \A i \in 1..n : equity_curve'[i] = equity_curve[i]
          /\ equity_curve'[n + 1] = point
      BY <2>1, <2>3
    <2>8. \A i \in DOMAIN equity_curve' : equity_curve'[i].equity >= 0
      BY <2>6, <2>7 DEF Solvent
    <2> QED
      BY <2>1, <2>5, <2>8 DEF Solvent
  <1>7. ASSUME FinalClose PROVE Solvent'
    <2>1. UNCHANGED equity_curve
      BY <1>7 DEF FinalClose
    <2>2. CASE close_open_positions_on_end /\ positions[symbol] # None
      <3>1. index > 0 /\ CloseOpenPosition(CurrentBar, candle.close)
        BY <1>7, <2>2 DEF FinalClose, RunInv, Traded
      <3>2. candle.close \in Nat \ {0}
        BY <3>1, RunTypes DEF RunInv
      <3> QED
        BY <1>3, <2>1, <2>2, <3>1, <3>2
    <2>3. CASE ~(close_open_positions_on_end /\ positions[symbol] # None)
      BY <1>2, <1>7, <2>1, <2>3 DEF FinalClose, vars
    <2> QED
      BY <2>2, <2>3
  <1>8. ASSUME NextCandle \/ NoSignal \/ UNCHANGED backtestVars PROVE Solvent'
    BY <1>2, <1>8 DEF NextCandle, NoSignal, backtestVars, vars
  <1> QED
    BY <1>4, <1>5, <1>6, <1>7, <1>8 DEF BacktestNext

\* The drawdown that is reported is the worst decline of the curve, for every history
\* and every strategy, when the flat fee is at most the cash buffer: with a larger one
\* a sale can leave a negative equity, and of a decline below zero from two peaks the
\* one from the lower peak is the larger part.
THEOREM DrawdownIsWorst ==
  ASSUME FeesAreCovered
  PROVE  BacktestSpec => []DrawdownIsWorstDecline
  <1>1. TypeOK /\ RunInv /\ Solvent => DrawdownIsWorstDecline
    <2> SUFFICES ASSUME TypeOK, RunInv, Solvent PROVE DrawdownIsWorstDecline
      OBVIOUS
    <2> DEFINE n == Len(equity_curve)
               equity(i) == equity_curve[i].equity
               spans == {span \in (DOMAIN equity_curve) \X (DOMAIN equity_curve) :
                           span[1] <= span[2] /\ equity(span[1]) > 0}
               decline(span) == [loss |-> equity(span[1]) - equity(span[2]),
                                 peak |-> equity(span[1])]
               worst == MaxDrawdown(equity_curve)
    <2>1. n \in Nat /\ DOMAIN equity_curve = 1..n /\ \A i \in 1..n : equity_curve[i] \in EquityCurvePoint
      BY DEF RunInv, Shape
    <2>2. \A i \in 1..n : equity_curve[i].equity \in Nat
      BY <2>1, SMTT(60) DEF Solvent, EquityCurvePoint
    <2>3. PICK seen : Knows(n, seen, equity_curve) /\ worst = seen.worst
      BY <2>1, <2>2, DrawdownOfCurve
    <2> HIDE DEF worst, n
    <2>4. worst.loss \in Nat /\ worst.peak \in Nat \ {0}
      BY <2>3 DEF Knows
    <2>5. ASSUME NEW span \in spans PROVE ~Deeper(decline(span), worst)
      <3> DEFINE i == span[1]
                 j == span[2]
      <3>1. j \in 1..n /\ i \in 1..j /\ equity_curve[i].equity > 0
        BY <2>1, <2>5
      <3>2. (equity_curve[i].equity - equity_curve[j].equity) * worst.peak
              <= worst.loss * equity_curve[i].equity
        BY <2>3, <3>1 DEF Knows
      <3>3. equity_curve[i].equity \in Int /\ equity_curve[j].equity \in Int
        <4>1. i \in 1..n
          BY <2>1, <3>1
        <4>2. equity_curve[i].equity \in Nat /\ equity_curve[j].equity \in Nat
          BY <2>2, <3>1, <4>1
        <4> QED
          BY <4>2
      <3>4. /\ (equity_curve[i].equity - equity_curve[j].equity) * worst.peak \in Int
            /\ worst.loss * equity_curve[i].equity \in Int
        BY <2>4, <3>3, ProductType
      <3>5. decline(span).loss = equity_curve[i].equity - equity_curve[j].equity
            /\ decline(span).peak = equity_curve[i].equity
        OBVIOUS
      <3> HIDE DEF i, j, decline
      <3> QED
        BY <3>2, <3>4, <3>5 DEF Deeper
    <2>6. ASSUME spans # {} PROVE \E span \in spans : ~Deeper(worst, decline(span))
      <3>1. CASE worst.loss = 0
        <4>1. PICK some \in spans : TRUE
          BY <2>6
        <4> DEFINE i == some[1]
        <4>2. i \in DOMAIN equity_curve /\ equity_curve[i].equity > 0 /\ equity_curve[i].equity \in Nat
              /\ i \in Nat
          BY <2>1, <2>2, <4>1
        <4> HIDE DEF i
        <4>3. <<i, i>> \in spans
          BY <4>2
        <4>4. decline(<<i, i>>).loss = 0 /\ decline(<<i, i>>).peak = equity_curve[i].equity
          BY <4>2
        <4>5. ~Deeper(worst, decline(<<i, i>>))
          <5> HIDE DEF decline
          <5>1. 0 * equity_curve[i].equity = 0 /\ 0 * worst.peak = 0
            BY <2>4, <4>2
          <5> QED
            BY <3>1, <4>4, <5>1 DEF Deeper
        <4> QED
          BY <4>3, <4>5
      <3>2. CASE worst.loss # 0
        <4>1. PICK j \in 1..n : \E i \in 1..j :
                 /\ equity_curve[i].equity > 0
                 /\ worst.loss = equity_curve[i].equity - equity_curve[j].equity
                 /\ worst.peak = equity_curve[i].equity
          BY <2>3, <3>2 DEF Knows
        <4>2. PICK i \in 1..j :
                 /\ equity_curve[i].equity > 0
                 /\ worst.loss = equity_curve[i].equity - equity_curve[j].equity
                 /\ worst.peak = equity_curve[i].equity
          BY <4>1
        <4>3. <<i, j>> \in spans
          BY <2>1, <4>1, <4>2
        <4>4. decline(<<i, j>>).loss = worst.loss /\ decline(<<i, j>>).peak = worst.peak
          BY <4>2
        <4>5. worst.loss * worst.peak \in Int
          BY <2>4, ProductType
        <4>6. ~Deeper(worst, decline(<<i, j>>))
          <5> HIDE DEF decline
          <5> QED
            BY <4>4, <4>5 DEF Deeper
        <4> QED
          BY <4>3, <4>6
      <3> QED
        BY <3>1, <3>2
    <2> QED
      BY <2>5, <2>6 DEF DrawdownIsWorstDecline, worst
  <1>2. TypeOK /\ RunInv /\ Solvent /\ [BacktestNext]_backtestVars => Solvent'
    BY SolventKept
  <1>3. BacktestInit => Solvent
    BY BacktestAssumption, PaperAssumption DEF BacktestInit, Init, Solvent
  <1> QED
    BY <1>1, <1>2, <1>3, RunIsInv, PTL DEF BacktestSpec
=============================================================================
