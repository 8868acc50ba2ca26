------------------------ MODULE ShadowTrainingProofs ------------------------
(***************************************************************************)
(* Theorems about ShadowTraining and ShadowReports: its types hold however *)
(* its processes overlap, and when the operator starts one at a time the   *)
(* book is in order, as committed and as the session that works would      *)
(* leave it; and the daily reviews that are kept of it stay true.          *)
(*                                                                         *)
(* The argument: a step of a session makes the book advance (open rows are *)
(* marked, closed with their exit, or flagged) or opens a row; both keep a *)
(* book in order, and what was last marked on an earlier day as it is; and *)
(* a commit makes the book of the session the committed one.               *)
(***************************************************************************)
EXTENDS ShadowReports, SumTheorems, SequenceTheorems

-----------------------------------------------------------------------------
(***************************************************************************)
(* Days, quantities, least and greatest numbers, rows and sequences.       *)
(***************************************************************************)
\* A time lies within its day.
LEMMA DayLaws ==
  ASSUME NEW t \in Nat
  PROVE  /\ DayStart(t) \in Nat /\ DayStart(t) <= t
         /\ t < DayStart(t) + TicksPerDay
         /\ t % TicksPerDay \in Nat
  BY ShadowAssumption DEF DayStart

\* A multiple of the length of a day that is smaller is smaller by a day.
LEMMA DayMultiple ==
  ASSUME NEW m \in Int, NEW n \in Int, NEW d \in Nat \ {0}, m < n
  PROVE  m * d + d <= n * d
  OBVIOUS

\* The day of a time before the start of a day ends by then.
LEMMA EarlierDay ==
  ASSUME NEW s \in Nat, NEW t \in Nat, s < DayStart(t)
  PROVE  DayStart(s) + TicksPerDay <= DayStart(t)
<1> DEFINE m == s \div TicksPerDay
           n == t \div TicksPerDay
<1>1. /\ TicksPerDay \in Nat \ {0}
      /\ m \in Nat /\ n \in Nat
  <2>1. TicksPerDay \in Nat \ {0}
    BY ShadowAssumption
  <2> QED
    BY <2>1
<1>2. DayStart(s) = m * TicksPerDay /\ DayStart(t) = n * TicksPerDay
  BY DEF DayStart
<1>3. m * TicksPerDay <= s
  BY <1>1, <1>2, DayLaws
<1> HIDE DEF m, n
<1>4. m < n
  BY <1>1, <1>2, <1>3
<1> QED
  BY <1>1, <1>2, <1>4, DayMultiple

\* The times of a day up to one of them share their day with it.
LEMMA SameDay ==
  ASSUME NEW s \in Nat, NEW t \in Nat, DayStart(t) <= s, s <= t
  PROVE  DayStart(s) = DayStart(t)
<1>1. /\ DayStart(t) \in Nat /\ DayStart(t) <= t /\ t < DayStart(t) + TicksPerDay
      /\ DayStart(s) \in Nat /\ DayStart(s) <= s /\ s < DayStart(s) + TicksPerDay
      /\ TicksPerDay \in Nat \ {0}
  BY DayLaws, ShadowAssumption
<1> DEFINE m == s \div TicksPerDay
           n == t \div TicksPerDay
<1>2. m \in Nat /\ n \in Nat
  BY ShadowAssumption
<1>3. DayStart(s) = m * TicksPerDay /\ DayStart(t) = n * TicksPerDay
  BY DEF DayStart
<1> HIDE DEF m, n
<1>4. ~(m < n) /\ ~(n < m)
  BY <1>1, <1>2, <1>3, DayMultiple
<1> QED
  BY <1>2, <1>3, <1>4

\* A tick that does not end a day stays in it.
LEMMA NoMidnight ==
  ASSUME NEW t \in Nat, (t + 1) % TicksPerDay # 0
  PROVE  DayStart(t + 1) = DayStart(t)
<1>1. TicksPerDay \in Nat \ {0}
  BY ShadowAssumption
<1>2. (t + 1) \div TicksPerDay = t \div TicksPerDay
  BY <1>1
<1> QED
  BY <1>2 DEF DayStart

\* A later time is of a day that is not earlier.
LEMMA DayGrows ==
  ASSUME NEW t \in Nat
  PROVE  DayStart(t) <= DayStart(t + 1)
<1>0. t + 1 \in Nat
  OBVIOUS
<1>1. DayStart(t) \in Nat /\ DayStart(t + 1) \in Nat /\ TicksPerDay \in Nat
  BY <1>0, DayLaws, ShadowAssumption
<1>2. CASE (t + 1) % TicksPerDay # 0
  BY <1>1, <1>2, NoMidnight
<1>3. CASE (t + 1) % TicksPerDay = 0
  <2>1. DayStart(t + 1) = t + 1
    BY <1>1, <1>3, ShadowAssumption DEF DayStart
  <2>2. DayStart(t) <= t
    BY DayLaws
  <2> QED
    BY <1>1, <2>1, <2>2
<1> QED
  BY <1>2, <1>3

\* A day that begins a number of days before another and holds a later time does not
\* begin after the day of that time.
LEMMA DaysBefore ==
  ASSUME NEW s \in Nat, NEW t \in Nat, NEW k \in Nat, DayStart(t) - k * TicksPerDay <= s
  PROVE  DayStart(t) - k * TicksPerDay <= DayStart(s)
<1>1. DayStart(s) \in Nat /\ s < DayStart(s) + TicksPerDay /\ TicksPerDay \in Nat \ {0}
  BY DayLaws, ShadowAssumption
<1> DEFINE m == s \div TicksPerDay
           n == t \div TicksPerDay
<1>2. m \in Nat /\ n \in Nat
  BY ShadowAssumption, SMTT(60)
<1>3. DayStart(s) = m * TicksPerDay /\ DayStart(t) = n * TicksPerDay
  BY DEF DayStart
<1> HIDE DEF m, n
<1>4. n * TicksPerDay - k * TicksPerDay = (n - k) * TicksPerDay
  BY <1>1, <1>2
<1> DEFINE e == n - k
<1>5. e \in Int
  BY <1>2
<1> HIDE DEF e
<1>6. e * TicksPerDay <= s
  BY <1>3, <1>4 DEF e
<1>7. m * TicksPerDay \in Int /\ e * TicksPerDay \in Int
  BY <1>1, <1>2, <1>5
<1>8. ~(m < e)
  BY <1>1, <1>2, <1>3, <1>5, <1>6, <1>7, DayMultiple
<1>9. e * TicksPerDay <= m * TicksPerDay
  <2>1. CASE e = m
    BY <2>1, <1>7
  <2>2. CASE e < m
    BY <2>2, <1>1, <1>2, <1>5, <1>7, DayMultiple
  <2> QED
    BY <2>1, <2>2, <1>8, <1>2, <1>5
<1> QED
  BY <1>3, <1>4, <1>9 DEF e

\* The product of natural numbers is one.
LEMMA ProductNat ==
  ASSUME NEW x \in Nat, NEW y \in Nat
  PROVE  x * y \in Nat
  OBVIOUS

\* The budget buys a number of shares.
LEMMA QuantityType ==
  ASSUME NEW budget \in Nat \ {0}, NEW price \in Nat \ {0}, NEW fx \in Nat \ {0}
  PROVE  /\ Quantity(budget, price, fx) \in Nat
         /\ Quantity(budget, price, fx) * price * fx \in Nat
<1>1. price * fx \in Nat \ {0}
  <2>1. price * fx \in Nat
    BY ProductNat
  <2>2. price * fx # 0
    OBVIOUS
  <2> QED
    BY <2>1, <2>2
<1>2. Quantity(budget, price, fx) \in Nat
  <2> DEFINE x == price * fx
  <2> HIDE DEF x
  <2>1. \A y \in Nat \ {0} : budget \div y \in Nat
    OBVIOUS
  <2>2. budget \div x \in Nat
    BY <2>1, <1>1 DEF x
  <2> QED
    BY <2>2 DEF Quantity, x
<1>3. Quantity(budget, price, fx) * price \in Nat
  BY <1>2, ProductNat
<1> QED
  BY <1>2, <1>3, ProductNat

\* The smaller of two numbers, as the set has it.
LEMMA MinOfTwo ==
  ASSUME NEW a \in Int, NEW b \in Int
  PROVE  Min({a, b}) = IF a <= b THEN a ELSE b
<1> DEFINE m == IF a <= b THEN a ELSE b
<1>1. m \in {a, b} /\ \A y \in {a, b} : m =< y
  OBVIOUS
<1>2. \A x \in {a, b} : (\A y \in {a, b} : x =< y) => x = m
  OBVIOUS
<1> QED
  BY <1>1, <1>2 DEF Min

\* A set of natural numbers that a number bounds has a greatest element.
LEMMA MaxOfBounded ==
  ASSUME NEW S \in SUBSET Nat, S # {}, NEW n \in Nat, \A x \in S : x <= n
  PROVE  Max(S) \in S /\ \A x \in S : x <= Max(S)
<1> DEFINE T == {m \in Nat : \A x \in S : x <= m}
<1>1. T \subseteq Nat /\ T # {}
  OBVIOUS
<1>2. PICK m \in T : \A y \in T : ~(<<y, m>> \in OpToRel(<, Nat))
  BY <1>1, NatLessThanWellFounded, WFMin
<1>3. \A y \in T : ~(y < m)
  BY <1>1, <1>2 DEF OpToRel
<1>4. m \in S
  <2>1. SUFFICES ASSUME m \notin S PROVE FALSE
    OBVIOUS
  <2>2. PICK s \in S : TRUE
    OBVIOUS
  <2>3. m \in Nat /\ \A x \in S : x \in Nat /\ x <= m /\ x # m
    BY <2>1
  <2>4. m - 1 \in T
    BY <2>2, <2>3
  <2> QED
    BY <2>3, <2>4, <1>3
<1>5. \A x \in S : m >= x
  OBVIOUS
<1>6. Max(S) \in S /\ \A y \in S : Max(S) >= y
  BY <1>4, <1>5 DEF Max
<1> QED
  BY <1>6

\* The sequence made of a finite set has its elements and no other.
LEMMA SetToSeqHasItsSet ==
  ASSUME NEW S, IsFiniteSet(S)
  PROVE  /\ SetToSeq(S) \in Seq(S)
         /\ Len(SetToSeq(S)) = Cardinality(S)
         /\ \A x \in S : \E i \in 1..Cardinality(S) : SetToSeq(S)[i] = x
         /\ \A i, j \in 1..Cardinality(S) : SetToSeq(S)[i] = SetToSeq(S)[j] => i = j
<1> DEFINE n == Cardinality(S)
<1>1. n \in Nat /\ ExistsBijection(1..n, S)
  BY FS_CardinalityType
<1>2. PICK f \in Bijection(1..n, S) : TRUE
  BY <1>1 DEF ExistsBijection
<1>3. f \in [1..n -> S] /\ IsInjective(f)
  BY <1>2 DEF Bijection, Injection, IsInjective
<1>4. SetToSeq(S) \in [1..n -> S] /\ IsInjective(SetToSeq(S))
  BY <1>3 DEF SetToSeq
<1>5. IsFiniteSet(1..n) /\ Cardinality(1..n) = n
  <2>1. 1 \in Int /\ n \in Int
    BY <1>1
  <2>2. IsFiniteSet(1..n) /\ Cardinality(1..n) = IF 1 > n THEN 0 ELSE n - 1 + 1
    BY <2>1, FS_Interval
  <2> QED
    BY <2>2, <1>1
<1>6. SetToSeq(S) \in Injection(1..n, S)
  BY <1>4 DEF Injection, IsInjective
<1>7. SetToSeq(S) \in Surjection(1..n, S)
  BY <1>5, <1>6, FS_Injection
<1>8. SetToSeq(S) \in Seq(S) /\ Len(SetToSeq(S)) = n
  BY <1>1, <1>4
<1> QED
  BY <1>4, <1>7, <1>8 DEF Surjection, IsInjective

\* What a sequence holds.
LEMMA ElementOf ==
  ASSUME NEW X, NEW s \in Seq(X), NEW i \in DOMAIN s
  PROVE  s[i] \in X /\ i \in Nat /\ i \in 1..Len(s) /\ Len(s) \in Nat
  OBVIOUS

\* What is appended follows what was there.
LEMMA Appended ==
  ASSUME NEW X, NEW s \in Seq(X), NEW t \in Seq(X)
  PROVE  /\ s \o t \in Seq(X)
         /\ Len(s \o t) = Len(s) + Len(t)
         /\ Len(s) \in Nat /\ Len(t) \in Nat
         /\ DOMAIN s = 1..Len(s) /\ DOMAIN t = 1..Len(t)
         /\ DOMAIN (s \o t) = 1..(Len(s) + Len(t))
         /\ \A i \in DOMAIN s : (s \o t)[i] = s[i]
         /\ \A i \in DOMAIN t : (s \o t)[Len(s) + i] = t[i]
<1>1. /\ s \o t \in Seq(X) /\ Len(s \o t) = Len(s) + Len(t)
      /\ Len(s) \in Nat /\ Len(t) \in Nat
      /\ DOMAIN s = 1..Len(s) /\ DOMAIN t = 1..Len(t)
      /\ DOMAIN (s \o t) = 1..(Len(s) + Len(t))
  OBVIOUS
<1>2. \A i \in 1..Len(s) : (s \o t)[i] = s[i]
  BY <1>1
<1>3. ASSUME NEW i \in 1..Len(t)
      PROVE  (s \o t)[Len(s) + i] = t[i]
  BY <1>1
<1> QED
  BY <1>1, <1>2, <1>3

-----------------------------------------------------------------------------
(***************************************************************************)
(* Types.                                                                  *)
(***************************************************************************)
\* Tables of observations, as committed, as read or as changed.
Rows == UNION {[D -> ShadowObservation] : D \in SUBSET Nat}

Session ==
  [markets: Seq(Markets), todo: Seq(Symbols), market: Markets, fx: Nat \ {0},
   budget: Nat \ {0}, loaded: Rows, rows: Rows, samples: Seq(ShadowTrainingSample)]

\* A session works on symbols of its market, and has read only rows that are there.
SessionOK(s, ids) ==
  /\ s \in Session
  /\ s.todo \in Seq(ToSet(Watchlist[s.market]))
  /\ DOMAIN s.loaded \subseteq DOMAIN s.rows
  /\ DOMAIN s.loaded \subseteq ids

\* Ids are bounded, so that there is a next one.
IdsBounded ==
  \E n \in Nat :
    /\ \A id \in DOMAIN observations : id <= n
    /\ \A p \in Processes : session[p] # None => \A id \in DOMAIN session[p].rows : id <= n

TypeInv ==
  /\ now \in Time
  /\ observations \in Rows
  /\ samples \in Seq(ShadowTrainingSample)
  /\ lock \in Loops \cup {None}
  /\ DOMAIN session = Processes
  /\ cycles \in 0..MaxCycles
  /\ \A p \in Processes : session[p] # None => SessionOK(session[p], DOMAIN observations)
  /\ IdsBounded

\* What a table of rows is.
LEMMA RowsHas ==
  ASSUME NEW f \in Rows
  PROVE  /\ DOMAIN f \subseteq Nat
         /\ \A id \in DOMAIN f : f[id] \in ShadowObservation
         /\ f = [id \in DOMAIN f |-> f[id]]
  BY DEF Rows

\* A function of rows on some ids is such a table.
LEMMA RowsIs ==
  ASSUME NEW D \in SUBSET Nat, NEW f, f = [id \in D |-> f[id]],
         \A id \in D : f[id] \in ShadowObservation
  PROVE  f \in Rows
<1>1. f \in [D -> ShadowObservation]
  OBVIOUS
<1> QED
  BY <1>1 DEF Rows

\* A table stays one with a row put into it.
LEMMA PutType ==
  ASSUME NEW f \in Rows, NEW id \in Nat, NEW row \in ShadowObservation
  PROVE  /\ Put(f, id, row) \in Rows
         /\ DOMAIN Put(f, id, row) = DOMAIN f \cup {id}
         /\ Put(f, id, row)[id] = row
         /\ \A k \in DOMAIN f : k # id => Put(f, id, row)[k] = f[k]
<1>1. DOMAIN f \subseteq Nat /\ \A k \in DOMAIN f : f[k] \in ShadowObservation
  BY RowsHas
<1> DEFINE D == DOMAIN f \cup {id}
<1>2. /\ Put(f, id, row) = [k \in D |-> Put(f, id, row)[k]]
      /\ \A k \in D : Put(f, id, row)[k] \in ShadowObservation
      /\ DOMAIN Put(f, id, row) = D
      /\ Put(f, id, row)[id] = row
      /\ \A k \in DOMAIN f : k # id => Put(f, id, row)[k] = f[k]
  BY <1>1 DEF Put
<1> QED
  BY <1>1, <1>2, RowsIs

\* Both markets have their symbols.
LEMMA SymbolsOfMarket ==
  ASSUME NEW market \in Markets
  PROVE  /\ ToSet(Watchlist[market]) \subseteq Symbols
         /\ Watchlist[market] \in Seq(Symbols)
         /\ Watchlist[market] \in Seq(ToSet(Watchlist[market]))
<1>1. Watchlist[market] \in Seq(STRING)
  BY ShadowAssumption
<1>2. \A i \in 1..Len(Watchlist[market]) : Watchlist[market][i] \in ToSet(Watchlist[market])
  BY <1>1 DEF ToSet
<1>3. ToSet(Watchlist[market]) \subseteq Symbols
  BY DEF Symbols
<1> QED
  BY <1>1, <1>2, <1>3

\* A marked observation is one.
LEMMA MarkedType ==
  ASSUME now \in Time, NEW o \in ShadowObservation, NEW quote \in Quotes, NEW fx \in Nat \ {0},
         NEW budget \in Nat \ {0}
  PROVE  /\ Marked(o, quote, fx, budget) \in ShadowObservation
         /\ Quantity(budget, o.entry_price, fx) \in Nat
         /\ quote.price \in Nat \ {0}
<1>1. /\ o.entry_price \in Nat \ {0} /\ quote.price \in Nat \ {0}
      /\ o.metadata \in Metadata
  BY ShadowAssumption DEF ShadowObservation, Quote
<1> DEFINE quantity == Quantity(budget, o.entry_price, fx)
<1>2. quantity \in Nat /\ quantity * o.entry_price * fx \in Nat
  BY <1>1, QuantityType
<1> HIDE DEF quantity
<1> DEFINE notional == quantity * o.entry_price * fx
           pnl == (quote.price - o.entry_price) * quantity * fx
<1>3. pnl \in Int /\ notional \in Nat
  BY <1>1, <1>2
<1>4. [o.metadata EXCEPT !.usd_inr = fx, !.latest = quote.price] \in Metadata
  BY <1>1 DEF Metadata
<1> HIDE DEF pnl, notional
<1>5. [o EXCEPT !.quantity = quantity, !.notional = notional, !.current_price = quote.price,
               !.last_marked_at = now, !.pnl = pnl, !.metadata.usd_inr = fx,
               !.metadata.latest = quote.price] \in ShadowObservation
  BY <1>1, <1>2, <1>3, <1>4 DEF ShadowObservation
<1> QED
  BY <1>1, <1>2, <1>5 DEF Marked, quantity, pnl, notional

\* A new observation is one.
LEMMA NewObservationType ==
  ASSUME now \in Time, NEW market \in Markets, NEW symbol \in ToSet(Watchlist[market]),
         NEW quote \in Quotes, NEW fx \in Nat \ {0}, NEW budget \in Nat \ {0}
  PROVE  NewObservation(market, symbol, quote, fx, budget) \in ShadowObservation
<1>1. quote.price \in Nat \ {0} /\ quote.stop_loss \in Nat /\ quote.take_profit \in Nat
  BY ShadowAssumption DEF Quote
<1> DEFINE quantity == Quantity(budget, quote.price, fx)
<1>2. quantity \in Nat /\ quantity * quote.price * fx \in Nat
  BY <1>1, QuantityType
<1> HIDE DEF quantity
<1>3. [stop_loss |-> quote.stop_loss, take_profit |-> quote.take_profit,
       usd_inr |-> fx, latest |-> quote.price, rescaled |-> FALSE,
       reentry_blocked_until |-> None] \in Metadata
  BY <1>1 DEF Metadata
<1>4. symbol \in Symbols
  BY SymbolsOfMarket
<1> QED
  BY <1>1, <1>2, <1>3, <1>4 DEF NewObservation, ShadowObservation, Status, quantity

\* A closed observation is one.
LEMMA ClosedType ==
  ASSUME NEW o \in ShadowObservation, NEW action \in ExitActions, NEW t \in Int
  PROVE  Closed(o, action, t) \in ShadowObservation
<1>1. t + Cooldown \in Int
  BY ShadowAssumption
<1>2. [o.metadata EXCEPT !.reentry_blocked_until = t + Cooldown] \in Metadata
  BY <1>1 DEF ShadowObservation, Metadata
<1> QED
  BY <1>2 DEF Closed, ShadowObservation, Status

\* So is a rescaled one.
LEMMA RescaledType ==
  ASSUME NEW o \in ShadowObservation, NEW budget \in Nat \ {0}
  PROVE  Rescaled(o, budget) \in ShadowObservation
<1>1. /\ o.entry_price \in Nat \ {0} /\ o.current_price \in Nat \ {0}
      /\ o.metadata \in Metadata /\ o.metadata.usd_inr \in Nat \ {0}
  BY DEF ShadowObservation, Metadata
<1> DEFINE fx == o.metadata.usd_inr
           quantity == Quantity(budget, o.entry_price, fx)
<1>2. quantity \in Nat /\ quantity * o.entry_price * fx \in Nat
  BY <1>1, QuantityType
<1> HIDE DEF quantity
<1> DEFINE notional == quantity * o.entry_price * fx
           pnl == (o.current_price - o.entry_price) * quantity * fx
<1>3. pnl \in Int /\ notional \in Nat
  BY <1>1, <1>2
<1>4. [o.metadata EXCEPT !.rescaled = TRUE] \in Metadata
  BY <1>1 DEF Metadata
<1> HIDE DEF pnl, notional
<1>5. [o EXCEPT !.quantity = quantity, !.notional = notional, !.pnl = pnl,
               !.metadata.rescaled = TRUE] \in ShadowObservation
  BY <1>1, <1>2, <1>3, <1>4 DEF ShadowObservation
<1> QED
  BY <1>5 DEF Rescaled, quantity, pnl, notional

\* The time of a stale exit is a number, and so the exit is an observation.
LEMMA StaleExitType ==
  ASSUME now \in Time, NEW o \in ShadowObservation
  PROVE  /\ Min({o.last_marked_at, DayStart(now) - 1}) \in Int
         /\ StaleExit(o) \in ShadowObservation
<1>1. now \in Nat /\ o.last_marked_at \in Nat
  BY ShadowAssumption DEF Time, ShadowObservation
<1>2. DayStart(now) - 1 \in Int
  BY <1>1, DayLaws
<1>3. Min({o.last_marked_at, DayStart(now) - 1}) \in Int
  BY <1>1, <1>2, MinOfTwo
<1> QED
  BY <1>3, ClosedType DEF StaleExit, ExitActions

\* A sample of an observation is one.
LEMMA SampleType ==
  ASSUME NEW id \in Nat, NEW o \in ShadowObservation, NEW t \in Int,
         NEW kind \in {"INTRADAY_MARK", "SHADOW_EXIT"}
  PROVE  Sample(id, o, kind, t) \in ShadowTrainingSample
  BY DEF Sample, ShadowObservation, ShadowTrainingSample

\* The exit policy answers with an exit action, or with none.
LEMMA ExitDueType ==
  ASSUME NEW o, NEW id, NEW known
  PROVE  ExitDue(o, id, known) \in ExitActions \cup {None}
<1>1. LevelExit(o) \in ExitActions \cup {None}
  BY DEF LevelExit, ExitActions
<1> QED
  BY <1>1 DEF ExitDue, ExitActions

\* The UPDATE writes a row from columns of rows.
LEMMA WriteType ==
  ASSUME NEW current \in ShadowObservation, NEW before \in ShadowObservation,
         NEW after \in ShadowObservation
  PROVE  Write(current, before, after) \in ShadowObservation
  BY DEF Write, ShadowObservation

\* The table a session leaves has the rows that were there and the rows it added.
LEMMA TableType ==
  ASSUME observations \in Rows, NEW s, SessionOK(s, DOMAIN observations)
  PROVE  /\ Table(s) \in Rows
         /\ DOMAIN Table(s) = DOMAIN observations \cup DOMAIN s.rows
<1>1. s.loaded \in Rows /\ s.rows \in Rows
  BY DEF SessionOK, Session
<1> DEFINE D == DOMAIN observations \cup DOMAIN s.rows
<1>2. D \subseteq Nat
  BY <1>1, RowsHas
<1>3. DOMAIN Table(s) = D /\ Table(s) = [id \in D |-> Table(s)[id]]
  BY DEF Table
<1>4. ASSUME NEW id \in D
      PROVE  Table(s)[id] \in ShadowObservation
  <2>1. Table(s)[id] = IF id \notin DOMAIN s.rows THEN observations[id]
                       ELSE IF id \notin DOMAIN s.loaded THEN s.rows[id]
                       ELSE Write(observations[id], s.loaded[id], s.rows[id])
    BY DEF Table
  <2>2. CASE id \notin DOMAIN s.rows
    BY <2>1, <2>2, RowsHas
  <2>3. CASE id \in DOMAIN s.rows /\ id \notin DOMAIN s.loaded
    BY <2>1, <2>3, <1>1, RowsHas
  <2>4. CASE id \in DOMAIN s.rows /\ id \in DOMAIN s.loaded
    <3>1. id \in DOMAIN observations
      BY <2>4 DEF SessionOK
    <3> QED
      BY <2>1, <2>4, <3>1, <1>1, RowsHas, WriteType
  <2> QED
    BY <2>2, <2>3, <2>4
<1> QED
  BY <1>2, <1>3, <1>4, RowsIs

-----------------------------------------------------------------------------
\* A session that changes keeps the types, when what it changed to is one.
LEMMA SessionStep ==
  ASSUME TypeInv, NEW p \in Processes, NEW s, SessionOK(s, DOMAIN observations),
         NEW n \in Nat, \A id \in DOMAIN s.rows : id <= n,
         session' = [session EXCEPT ![p] = s], cycles' \in 0..MaxCycles,
         UNCHANGED <<now, observations, samples, lock>>
  PROVE  TypeInv'
<1>1. \A q \in Processes : session'[q] = IF q = p THEN s ELSE session[q]
  BY DEF TypeInv
<1>2. \A q \in Processes : session'[q] # None => SessionOK(session'[q], DOMAIN observations)
  BY <1>1 DEF TypeInv
<1>3. IdsBounded'
  <2>1. PICK m \in Nat :
          /\ \A id \in DOMAIN observations : id <= m
          /\ \A q \in Processes : session[q] # None => \A id \in DOMAIN session[q].rows : id <= m
    BY DEF TypeInv, IdsBounded
  <2>2. PICK k \in Nat : n <= k /\ m <= k
    <3>1. CASE n <= m
      BY <3>1
    <3>2. CASE m <= n
      BY <3>2
    <3> QED
      BY <3>1, <3>2
  <2>3. \A id \in DOMAIN observations : id <= k
    BY <2>1, <2>2, RowsHas DEF TypeInv
  <2>4. \A id \in DOMAIN s.rows : id <= k
    <3>1. s.rows \in Rows
      BY DEF SessionOK, Session
    <3> QED
      BY <2>2, <3>1, RowsHas
  <2>5. ASSUME NEW q \in Processes, session[q] # None, NEW id \in DOMAIN session[q].rows
        PROVE  id <= k
    <3>1. session[q].rows \in Rows
      BY <2>5 DEF TypeInv, SessionOK, Session
    <3>2. id \in Nat /\ id <= m
      BY <2>1, <2>5, <3>1, RowsHas
    <3> QED
      BY <2>2, <3>2
  <2>6. ASSUME NEW q \in Processes, session'[q] # None, NEW id \in DOMAIN session'[q].rows
        PROVE  id <= k
    BY <1>1, <2>4, <2>5, <2>6
  <2> QED
    BY <2>2, <2>3, <2>6 DEF IdsBounded
<1> QED
  BY <1>2, <1>3 DEF TypeInv

\* A session that ends keeps the types.
LEMMA SessionEnds ==
  ASSUME TypeInv, NEW p \in Processes, session' = [session EXCEPT ![p] = None],
         lock' \in Loops \cup {None}, UNCHANGED <<now, observations, samples, cycles>>
  PROVE  TypeInv'
<1>1. \A q \in Processes : session'[q] = IF q = p THEN None ELSE session[q]
  BY DEF TypeInv
<1>2. IdsBounded'
  BY <1>1 DEF TypeInv, IdsBounded
<1> QED
  BY <1>1, <1>2 DEF TypeInv

\* The rows of an open session have bounded ids.
LEMMA SessionBounded ==
  ASSUME TypeInv, NEW p \in Processes, session[p] # None
  PROVE  /\ SessionOK(session[p], DOMAIN observations)
         /\ session[p] \in Session
         /\ \E n \in Nat : \A id \in DOMAIN session[p].rows : id <= n
  BY DEF TypeInv, IdsBounded, SessionOK

\* There is a next id, which no row has.
LEMMA NewIdIsNew ==
  ASSUME TypeInv
  PROVE  /\ NewId \in Nat /\ NewId \notin DOMAIN observations
         /\ \A p \in Processes : session[p] # None => NewId \notin DOMAIN session[p].rows
<1> DEFINE used == DOMAIN observations
                   \cup UNION {DOMAIN session[p].rows : p \in {q \in Processes : session[q] # None}}
           S == {0} \cup used
<1>1. PICK n \in Nat :
        /\ \A id \in DOMAIN observations : id <= n
        /\ \A p \in Processes : session[p] # None => \A id \in DOMAIN session[p].rows : id <= n
  BY DEF TypeInv, IdsBounded
<1>2. \A p \in Processes : session[p] # None => DOMAIN session[p].rows \subseteq Nat
  BY RowsHas DEF TypeInv, SessionOK, Session
<1>3. DOMAIN observations \subseteq Nat
  BY RowsHas DEF TypeInv
<1>4. S \in SUBSET Nat /\ S # {} /\ \A x \in S : x <= n
  BY <1>1, <1>2, <1>3
<1>5. \A p \in Processes : session[p] # None => DOMAIN session[p].rows \subseteq S
  OBVIOUS
<1>6. DOMAIN observations \subseteq S
  OBVIOUS
<1>7. NewId = 1 + Max(S)
  BY DEF NewId
<1> HIDE DEF S
<1>8. Max(S) \in S /\ \A x \in S : x <= Max(S)
  BY <1>4, MaxOfBounded
<1>9. NewId \in Nat /\ NewId \notin S
  <2>1. PICK m : m = Max(S)
    OBVIOUS
  <2>2. m \in Nat /\ NewId = 1 + m /\ \A x \in S : x \in Nat /\ x <= m
    BY <2>1, <1>4, <1>7, <1>8
  <2> QED
    BY <2>2
<1> QED
  BY <1>5, <1>6, <1>9

\* What is left of a sequence.
LEMMA TailType ==
  ASSUME NEW X, NEW s \in Seq(X), s # << >>
  PROVE  Tail(s) \in Seq(X) /\ Head(s) \in X /\ s[1] = Head(s) /\ Len(s) \in Nat \ {0}
  OBVIOUS

\* What a session is after a row was put in it and the symbol is done.
LEMMA WithRowType ==
  ASSUME TypeInv, NEW s, SessionOK(s, DOMAIN observations), s.todo # << >>,
         NEW id \in Nat, NEW row \in ShadowObservation, NEW recorded \in Seq(ShadowTrainingSample)
  PROVE  LET w == NextSymbol(WithRow(s, id, row, recorded))
         IN /\ SessionOK(w, DOMAIN observations)
            /\ w.rows = Put(s.rows, id, row)
            /\ w.loaded = IF id \in DOMAIN s.rows \/ id \notin DOMAIN observations THEN s.loaded
                          ELSE Put(s.loaded, id, observations[id])
            /\ w.samples = s.samples \o recorded
            /\ w.todo = Tail(s.todo) /\ w.markets = s.markets
            /\ w.market = s.market /\ w.fx = s.fx /\ w.budget = s.budget
            /\ DOMAIN w.rows = DOMAIN s.rows \cup {id}
<1> DEFINE v == WithRow(s, id, row, recorded)
           w == NextSymbol(v)
           loaded == IF id \in DOMAIN s.rows \/ id \notin DOMAIN observations THEN s.loaded
                     ELSE Put(s.loaded, id, observations[id])
<1>1. /\ s \in Session /\ s.loaded \in Rows /\ s.rows \in Rows
      /\ s.samples \in Seq(ShadowTrainingSample)
      /\ s.todo \in Seq(Symbols) /\ s.todo \in Seq(ToSet(Watchlist[s.market]))
      /\ observations \in Rows
      /\ DOMAIN s.loaded \subseteq DOMAIN s.rows /\ DOMAIN s.loaded \subseteq DOMAIN observations
  BY DEF SessionOK, Session, TypeInv
<1>2. /\ Put(s.rows, id, row) \in Rows
      /\ DOMAIN Put(s.rows, id, row) = DOMAIN s.rows \cup {id}
  BY <1>1, PutType, ZenonT(60)
<1>3. /\ loaded \in Rows
      /\ DOMAIN loaded \subseteq DOMAIN s.rows \cup {id}
      /\ DOMAIN loaded \subseteq DOMAIN observations
  <2>1. CASE id \in DOMAIN s.rows \/ id \notin DOMAIN observations
    BY <1>1, <2>1
  <2>2. CASE ~(id \in DOMAIN s.rows \/ id \notin DOMAIN observations)
    <3>1. observations[id] \in ShadowObservation
      BY <1>1, <2>2, RowsHas
    <3>2. loaded = Put(s.loaded, id, observations[id])
      BY <2>2
    <3> HIDE DEF loaded
    <3>3. loaded \in Rows /\ DOMAIN loaded = DOMAIN s.loaded \cup {id}
      BY <1>1, <3>1, <3>2, PutType, ZenonT(60)
    <3> QED
      BY <1>1, <2>2, <3>3
  <2> QED
    BY <2>1, <2>2
<1>4. s.samples \o recorded \in Seq(ShadowTrainingSample)
  BY <1>1
<1>5. /\ Tail(s.todo) \in Seq(Symbols)
      /\ Tail(s.todo) \in Seq(ToSet(Watchlist[s.market]))
  BY <1>1, TailType
<1>6. v = [s EXCEPT !.rows = Put(s.rows, id, row), !.loaded = loaded,
                    !.samples = s.samples \o recorded]
  BY DEF WithRow
<1> HIDE DEF loaded
<1>7. /\ v.rows = Put(s.rows, id, row) /\ v.loaded = loaded /\ v.samples = s.samples \o recorded
      /\ v.todo = s.todo /\ v.markets = s.markets /\ v.market = s.market /\ v.fx = s.fx
      /\ v.budget = s.budget /\ v \in Session
  BY <1>1, <1>2, <1>3, <1>4, <1>6 DEF Session
<1> HIDE DEF v
<1>8. w = [v EXCEPT !.todo = Tail(s.todo)]
  BY <1>7 DEF NextSymbol
<1>9. /\ w.rows = Put(s.rows, id, row) /\ w.loaded = loaded /\ w.samples = s.samples \o recorded
      /\ w.todo = Tail(s.todo) /\ w.markets = s.markets /\ w.market = s.market /\ w.fx = s.fx
      /\ w.budget = s.budget /\ w \in Session
  BY <1>5, <1>7, <1>8 DEF Session
<1>10. SessionOK(w, DOMAIN observations)
  BY <1>2, <1>3, <1>5, <1>9 DEF SessionOK
<1> QED
  BY <1>2, <1>9, <1>10 DEF loaded, v

\* What is recorded of a row: the row, closed when an exit is due, and its samples.
RowAfter(s, id, o) ==
  LET action == ExitDue(o, id, Samples(s))
  IN IF action = None THEN o ELSE Closed(o, action, now)

Recorded(s, id, o) ==
  LET mark == Sample(id, o, "INTRADAY_MARK", now)
  IN IF ExitDue(o, id, Samples(s)) = None THEN <<mark>>
     ELSE <<mark, Sample(id, o, "SHADOW_EXIT", now)>>

\* That is how a session records: with the row and the samples as they come out.
LEMMA RecordIsWithRow ==
  ASSUME NEW s, NEW id, NEW o
  PROVE  Record(s, id, o) = WithRow(s, id, RowAfter(s, id, o), Recorded(s, id, o))
  BY DEF Record, RowAfter, Recorded

\* Both are of their types.
LEMMA RecordedType ==
  ASSUME now \in Time, NEW s, NEW id \in Nat, NEW o \in ShadowObservation
  PROVE  /\ RowAfter(s, id, o) \in ShadowObservation
         /\ Recorded(s, id, o) \in Seq(ShadowTrainingSample)
<1> DEFINE action == ExitDue(o, id, Samples(s))
           mark == Sample(id, o, "INTRADAY_MARK", now)
           exit == Sample(id, o, "SHADOW_EXIT", now)
<1>1. now \in Int
  BY ShadowAssumption DEF Time
<1>2. action \in ExitActions \cup {None}
  BY ExitDueType
<1>3. mark \in ShadowTrainingSample /\ exit \in ShadowTrainingSample
  BY <1>1, SampleType
<1>4. action # None => Closed(o, action, now) \in ShadowObservation
  BY <1>1, <1>2, ClosedType
<1>5. /\ RowAfter(s, id, o) = IF action = None THEN o ELSE Closed(o, action, now)
      /\ Recorded(s, id, o) = IF action = None THEN <<mark>> ELSE <<mark, exit>>
  BY DEF RowAfter, Recorded
<1> HIDE DEF action, mark, exit
<1>6. <<mark>> \in Seq(ShadowTrainingSample) /\ <<mark, exit>> \in Seq(ShadowTrainingSample)
  BY <1>3
<1> QED
  BY <1>4, <1>5, <1>6

\* Recording a row keeps the types.
LEMMA RecordStep ==
  ASSUME TypeInv, NEW p \in Processes, session[p] # None, session[p].todo # << >>,
         NEW id \in Nat, NEW o \in ShadowObservation,
         session' = [session EXCEPT ![p] = NextSymbol(Record(session[p], id, o))],
         UNCHANGED <<now, observations, samples, lock, cycles>>
  PROVE  TypeInv'
<1> DEFINE s == session[p]
           row == RowAfter(s, id, o)
           recorded == Recorded(s, id, o)
           w == NextSymbol(WithRow(s, id, row, recorded))
<1>1. SessionOK(s, DOMAIN observations) /\ \E n \in Nat : \A k \in DOMAIN s.rows : k <= n
  BY SessionBounded
<1>2. now \in Time /\ cycles \in 0..MaxCycles
  BY DEF TypeInv
<1>3. row \in ShadowObservation /\ recorded \in Seq(ShadowTrainingSample)
  BY <1>2, RecordedType
<1>4. session' = [session EXCEPT ![p] = w]
  BY RecordIsWithRow
<1> HIDE DEF row, recorded
<1>5. SessionOK(w, DOMAIN observations) /\ DOMAIN w.rows = DOMAIN s.rows \cup {id}
  BY <1>1, <1>3, WithRowType
<1>6. PICK n \in Nat : \A k \in DOMAIN s.rows : k <= n
  BY <1>1
<1>7. DOMAIN s.rows \subseteq Nat
  BY <1>1, RowsHas DEF SessionOK, Session
<1>8. PICK m \in Nat : \A k \in DOMAIN w.rows : k <= m
  <2>1. CASE n <= id
    <3>1. \A k \in DOMAIN w.rows : k <= id
      BY <2>1, <1>5, <1>6, <1>7
    <3> QED
      BY <3>1
  <2>2. CASE id <= n
    <3>1. \A k \in DOMAIN w.rows : k <= n
      BY <2>2, <1>5, <1>6, <1>7
    <3> QED
      BY <3>1
  <2> QED
    BY <2>1, <2>2
<1> HIDE DEF w
<1> QED
  BY <1>2, <1>4, <1>5, <1>8, SessionStep

-----------------------------------------------------------------------------
\* The rows that a cycle finds stale, and their exits.
Stale == {id \in DOMAIN observations :
            IsOpen(observations[id]) /\ observations[id].opened_at < DayStart(now)}

StaleSample(id) ==
  Sample(id, observations[id], "SHADOW_EXIT",
         Min({observations[id].last_marked_at, DayStart(now) - 1}))

StaleSamples == {StaleSample(id) : id \in Stale}

\* There are finitely many committed rows, and so finitely many stale exits.
LEMMA StaleFinite ==
  ASSUME TypeInv
  PROVE  IsFiniteSet(Stale) /\ IsFiniteSet(StaleSamples)
<1>1. PICK n \in Nat : \A id \in DOMAIN observations : id <= n
  BY DEF TypeInv, IdsBounded
<1>2. Stale \in SUBSET Nat /\ \A id \in Stale : id <= n
  BY <1>1, RowsHas DEF Stale, TypeInv
<1>3. IsFiniteSet(Stale)
  BY <1>2, FS_BoundedSetOfNaturals
<1> DEFINE f == [id \in Stale |-> StaleSample(id)]
<1>4. f \in Surjection(Stale, StaleSamples)
  BY DEF Surjection, StaleSamples
<1> QED
  BY <1>3, <1>4, FS_Surjection

\* A session that closed the stale rows, and one that has done nothing yet.
LEMMA CloseStaleType ==
  ASSUME TypeInv, NEW budget \in Nat \ {0}
  PROVE  LET s == CloseStale(NewSession(<<"INDIA", "US">>, budget))
         IN /\ SessionOK(s, DOMAIN observations)
            /\ s.rows = [id \in Stale |-> StaleExit(observations[id])]
            /\ s.loaded = [id \in Stale |-> observations[id]]
            /\ s.samples = SetToSeq(StaleSamples)
            /\ s.todo = << >> /\ s.markets = <<"INDIA", "US">>
            /\ s.market = "INDIA" /\ s.fx = 1 /\ s.budget = budget
<1> DEFINE n == NewSession(<<"INDIA", "US">>, budget)
           s == CloseStale(n)
           rows == [id \in Stale |-> StaleExit(observations[id])]
           loaded == [id \in Stale |-> observations[id]]
<1>1. now \in Time /\ observations \in Rows
  BY DEF TypeInv
<1>2. Stale \subseteq DOMAIN observations /\ Stale \in SUBSET Nat
  BY <1>1, RowsHas DEF Stale
<1>3. \A id \in Stale : observations[id] \in ShadowObservation
  BY <1>1, <1>2, RowsHas
<1>4. rows \in Rows /\ DOMAIN rows = Stale
  <2>1. \A id \in Stale : rows[id] \in ShadowObservation
    BY <1>1, <1>3, StaleExitType
  <2> QED
    BY <1>2, <2>1, RowsIs
<1>5. loaded \in Rows /\ DOMAIN loaded = Stale
  BY <1>2, <1>3, RowsIs
<1>6. StaleSamples \subseteq ShadowTrainingSample
  <2>1. \A id \in Stale : StaleSample(id) \in ShadowTrainingSample
    BY <1>1, <1>2, <1>3, StaleExitType, SampleType DEF StaleSample
  <2> QED
    BY <2>1 DEF StaleSamples
<1>7. SetToSeq(StaleSamples) \in Seq(ShadowTrainingSample)
  BY <1>6, StaleFinite, SetToSeqHasItsSet
<1>8. s = [n EXCEPT !.loaded = loaded, !.rows = rows, !.samples = SetToSeq(StaleSamples)]
  BY DEF CloseStale, Stale, StaleSamples, StaleSample
<1> HIDE DEF rows, loaded
<1>9. /\ s.rows = rows /\ s.loaded = loaded /\ s.samples = SetToSeq(StaleSamples)
      /\ s.todo = << >> /\ s.markets = <<"INDIA", "US">> /\ s.market = "INDIA" /\ s.fx = 1
      /\ s.budget = budget
      /\ s = [markets |-> <<"INDIA", "US">>, todo |-> << >>, market |-> "INDIA", fx |-> 1,
              budget |-> budget, loaded |-> loaded, rows |-> rows, samples |-> SetToSeq(StaleSamples)]
  BY <1>8 DEF NewSession
<1>10. /\ <<"INDIA", "US">> \in Seq(Markets) /\ << >> \in Seq(Symbols)
       /\ << >> \in Seq(ToSet(Watchlist["INDIA"])) /\ "INDIA" \in Markets
  BY DEF Markets
<1> HIDE DEF s
<1>11. s \in Session
  BY <1>4, <1>5, <1>7, <1>9, <1>10 DEF Session
<1>12. SessionOK(s, DOMAIN observations)
  BY <1>2, <1>4, <1>5, <1>9, <1>10, <1>11 DEF SessionOK
<1> QED
  BY <1>9, <1>12 DEF s, rows, loaded

\* A rescale reads and computes every open row.
LEMMA RescaleType ==
  ASSUME TypeInv, NEW budget \in Nat \ {0}
  PROVE  LET open == {id \in DOMAIN observations : IsOpen(observations[id])}
             s == [NewSession(<< >>, budget) EXCEPT
                     !.loaded = [id \in open |-> observations[id]],
                     !.rows = [id \in open |-> Rescaled(observations[id], budget)]]
         IN /\ SessionOK(s, DOMAIN observations)
            /\ s.rows = [id \in open |-> Rescaled(observations[id], budget)]
            /\ s.loaded = [id \in open |-> observations[id]]
            /\ s.samples = << >> /\ s.todo = << >> /\ s.markets = << >>
<1> DEFINE open == {id \in DOMAIN observations : IsOpen(observations[id])}
           rows == [id \in open |-> Rescaled(observations[id], budget)]
           loaded == [id \in open |-> observations[id]]
           n == NewSession(<< >>, budget)
           s == [n EXCEPT !.loaded = loaded, !.rows = rows]
<1>1. observations \in Rows
  BY DEF TypeInv
<1>2. open \subseteq DOMAIN observations /\ open \in SUBSET Nat
  BY <1>1, RowsHas
<1>3. \A id \in open : observations[id] \in ShadowObservation
  BY <1>1, <1>2, RowsHas
<1>4. rows \in Rows /\ DOMAIN rows = open
  <2>1. \A id \in open : rows[id] \in ShadowObservation
    BY <1>3, RescaledType
  <2> QED
    BY <1>2, <2>1, RowsIs
<1>5. loaded \in Rows /\ DOMAIN loaded = open
  BY <1>2, <1>3, RowsIs
<1> HIDE DEF rows, loaded
<1>8. s = [n EXCEPT !.loaded = loaded, !.rows = rows]
  OBVIOUS
<1> HIDE DEF s
<1>9. /\ s.rows = rows /\ s.loaded = loaded /\ s.samples = << >>
      /\ s.todo = << >> /\ s.markets = << >> /\ s.market = "INDIA" /\ s.fx = 1
      /\ s.budget = budget
      /\ s = [markets |-> << >>, todo |-> << >>, market |-> "INDIA", fx |-> 1,
              budget |-> budget, loaded |-> loaded, rows |-> rows, samples |-> << >>]
  BY <1>8 DEF NewSession
<1>10. /\ << >> \in Seq(Markets) /\ << >> \in Seq(Symbols) /\ << >> \in Seq(ShadowTrainingSample)
       /\ << >> \in Seq(ToSet(Watchlist["INDIA"])) /\ "INDIA" \in Markets
  BY DEF Markets
<1>11. s \in Session
  BY <1>4, <1>5, <1>9, <1>10 DEF Session
<1> HIDE DEF open
<1>12. SessionOK(s, DOMAIN observations)
  BY <1>2, <1>4, <1>5, <1>9, <1>10, <1>11 DEF SessionOK
<1> QED
  BY <1>9, <1>12 DEF s, n, rows, loaded, open

\* The committed rows bound the ids of a session that only holds such rows.
LEMMA CommittedBounded ==
  ASSUME TypeInv
  PROVE  \E n \in Nat : \A id \in DOMAIN observations : id <= n
  BY DEF TypeInv, IdsBounded

\* The market a session starts next.
LEMMA StartedType ==
  ASSUME NEW s, NEW ids, SessionOK(s, ids), s.markets # << >>, NEW fx \in Nat \ {0}
  PROVE  LET market == Head(s.markets)
             w == [s EXCEPT !.markets = Tail(@), !.market = market, !.fx = fx,
                            !.todo = Watchlist[market]]
             v == [s EXCEPT !.markets = Tail(@)]
         IN /\ market \in Markets
            /\ SessionOK(w, ids) /\ w.rows = s.rows /\ w.loaded = s.loaded /\ w.samples = s.samples
            /\ SessionOK(v, ids) /\ v.rows = s.rows /\ v.loaded = s.loaded /\ v.samples = s.samples
            /\ v.todo = s.todo
<1> DEFINE market == Head(s.markets)
           w == [s EXCEPT !.markets = Tail(@), !.market = market, !.fx = fx,
                          !.todo = Watchlist[market]]
           v == [s EXCEPT !.markets = Tail(@)]
<1>1. s \in Session /\ s.markets \in Seq(Markets) /\ s.todo \in Seq(ToSet(Watchlist[s.market]))
  BY DEF SessionOK, Session
<1>2. market \in Markets /\ Tail(s.markets) \in Seq(Markets)
  BY <1>1, TailType
<1>3. Watchlist[market] \in Seq(Symbols) /\ Watchlist[market] \in Seq(ToSet(Watchlist[market]))
  BY <1>2, SymbolsOfMarket
<1>4. /\ w \in Session /\ w.rows = s.rows /\ w.loaded = s.loaded /\ w.samples = s.samples
      /\ w.todo = Watchlist[market] /\ w.market = market
      /\ v \in Session /\ v.rows = s.rows /\ v.loaded = s.loaded /\ v.samples = s.samples
      /\ v.todo = s.todo /\ v.market = s.market
  BY <1>1, <1>2, <1>3 DEF Session
<1> HIDE DEF w, v, market
<1> USE DEF SessionOK
<1>5. SessionOK(w, ids) /\ SessionOK(v, ids)
  BY <1>1, <1>3, <1>4
<1> QED
  BY <1>2, <1>4, <1>5 DEF w, v, market

\* A symbol that is done.
LEMMA NextSymbolType ==
  ASSUME NEW s, NEW ids, SessionOK(s, ids), s.todo # << >>
  PROVE  LET w == NextSymbol(s)
         IN /\ SessionOK(w, ids) /\ w.rows = s.rows /\ w.loaded = s.loaded
            /\ w.samples = s.samples /\ w.todo = Tail(s.todo) /\ w.markets = s.markets
            /\ w.market = s.market /\ w.budget = s.budget
<1> DEFINE w == NextSymbol(s)
<1>1. /\ s \in Session /\ s.todo \in Seq(Symbols)
      /\ s.todo \in Seq(ToSet(Watchlist[s.market]))
  BY DEF SessionOK, Session
<1>2. Tail(s.todo) \in Seq(Symbols) /\ Tail(s.todo) \in Seq(ToSet(Watchlist[s.market]))
  BY <1>1, TailType
<1>3. w = [s EXCEPT !.todo = Tail(s.todo)]
  BY DEF NextSymbol
<1> HIDE DEF w
<1>4. /\ w \in Session /\ w.rows = s.rows /\ w.loaded = s.loaded
      /\ w.samples = s.samples /\ w.todo = Tail(s.todo) /\ w.markets = s.markets
      /\ w.market = s.market /\ w.fx = s.fx /\ w.budget = s.budget
  BY <1>1, <1>2, <1>3 DEF Session
<1>5. SessionOK(w, ids)
  BY <1>2, <1>4 DEF SessionOK
<1> QED
  BY <1>4, <1>5 DEF w

\* The first symbol a session has to do.
LEMMA HeadSymbol ==
  ASSUME NEW s, NEW ids, SessionOK(s, ids), s.todo # << >>
  PROVE  /\ Head(s.todo) \in ToSet(Watchlist[s.market])
         /\ s.market \in Markets /\ s.fx \in Nat \ {0} /\ s.budget \in Nat \ {0}
  BY TailType DEF SessionOK, Session

-----------------------------------------------------------------------------
\* A cycle begins with sessions of their type.
LEMMA BeginCycleTypes ==
  ASSUME TypeInv, NEW p \in Processes, BeginCycle(p)
  PROVE  TypeInv'
<1>0. PICK budget \in Budgets :
        session' = [session EXCEPT ![p] = CloseStale(NewSession(<<"INDIA", "US">>, budget))]
  BY DEF BeginCycle
<1> DEFINE s == CloseStale(NewSession(<<"INDIA", "US">>, budget))
<1>1. /\ session' = [session EXCEPT ![p] = s] /\ cycles' = cycles + 1 /\ cycles < MaxCycles
      /\ UNCHANGED <<now, observations, samples, lock>>
      /\ budget \in Nat \ {0}
  BY <1>0, ShadowAssumption DEF BeginCycle, MayBegin
<1>2. cycles' \in 0..MaxCycles
  BY <1>1, ShadowAssumption DEF TypeInv
<1>3. SessionOK(s, DOMAIN observations) /\ DOMAIN s.rows = Stale
  BY <1>1, CloseStaleType
<1>4. PICK n \in Nat : \A id \in DOMAIN observations : id <= n
  BY CommittedBounded
<1> HIDE DEF s
<1>5. \A id \in DOMAIN s.rows : id <= n
  BY <1>3, <1>4 DEF Stale
<1> QED
  BY <1>1, <1>2, <1>3, <1>5, SessionStep

\* So does a rescale.
LEMMA RescaleTypes ==
  ASSUME TypeInv, NEW p \in Processes, Rescale(p)
  PROVE  TypeInv'
<1> DEFINE open == {id \in DOMAIN observations : IsOpen(observations[id])}
           after(budget) == [NewSession(<< >>, budget) EXCEPT
                               !.loaded = [id \in open |-> observations[id]],
                               !.rows = [id \in open |-> Rescaled(observations[id], budget)]]
<1>0. PICK budget \in Budgets : session' = [session EXCEPT ![p] = after(budget)]
  BY DEF Rescale
<1> DEFINE s == after(budget)
<1>1. /\ session' = [session EXCEPT ![p] = s] /\ cycles' = cycles + 1 /\ cycles < MaxCycles
      /\ UNCHANGED <<now, observations, samples, lock>>
      /\ budget \in Nat \ {0}
  BY <1>0, ShadowAssumption DEF Rescale, MayBegin
<1>2. cycles' \in 0..MaxCycles
  BY <1>1, ShadowAssumption, SMTT(60) DEF TypeInv
<1>3. SessionOK(s, DOMAIN observations) /\ DOMAIN s.rows = open
  BY <1>1, RescaleType
<1>4. PICK n \in Nat : \A id \in DOMAIN observations : id <= n
  BY CommittedBounded
<1> HIDE DEF s
<1>5. \A id \in DOMAIN s.rows : id <= n
  BY <1>3, <1>4
<1> QED
  BY <1>1, <1>2, <1>3, <1>5, SessionStep

\* The calendar and the exchange rate change what a session does next, not its rows.
LEMMA StartMarketTypes ==
  ASSUME TypeInv, NEW p \in Processes, StartMarket(p)
  PROVE  TypeInv'
<1> DEFINE s == session[p]
<1>1. /\ s # None /\ s.markets # << >>
      /\ UNCHANGED <<now, observations, samples, lock, cycles>>
  BY DEF StartMarket
<1>2. SessionOK(s, DOMAIN observations) /\ cycles \in 0..MaxCycles
  BY <1>1, SessionBounded DEF TypeInv
<1>3. PICK n \in Nat : \A id \in DOMAIN s.rows : id <= n
  BY <1>1, SessionBounded
<1>4. ASSUME NEW fx \in Nat \ {0},
             session' = [session EXCEPT ![p] =
               [s EXCEPT !.markets = Tail(@), !.market = Head(s.markets), !.fx = fx,
                         !.todo = Watchlist[Head(s.markets)]]]
      PROVE  TypeInv'
  <2> DEFINE w == [s EXCEPT !.markets = Tail(@), !.market = Head(s.markets), !.fx = fx,
                            !.todo = Watchlist[Head(s.markets)]]
  <2>1. SessionOK(w, DOMAIN observations) /\ w.rows = s.rows
    BY <1>1, <1>2, StartedType
  <2>2. session' = [session EXCEPT ![p] = w]
    BY <1>4
  <2> HIDE DEF w
  <2>3. \A id \in DOMAIN w.rows : id <= n
    BY <1>3, <2>1
  <2> QED
    BY <1>1, <1>2, <2>1, <2>2, <2>3, SessionStep
<1>5. ASSUME session' = [session EXCEPT ![p] = [s EXCEPT !.markets = Tail(@)]]
      PROVE  TypeInv'
  <2> DEFINE w == [s EXCEPT !.markets = Tail(@)]
  <2>0. 1 \in Nat \ {0}
    OBVIOUS
  <2>1. SessionOK(w, DOMAIN observations) /\ w.rows = s.rows
    BY <1>1, <1>2, <2>0, StartedType
  <2>2. session' = [session EXCEPT ![p] = w]
    BY <1>5
  <2> HIDE DEF w
  <2>3. \A id \in DOMAIN w.rows : id <= n
    BY <1>3, <2>1
  <2> QED
    BY <1>1, <1>2, <2>1, <2>2, <2>3, SessionStep
<1>6. \A market : (IF market = "US" THEN FxRates ELSE {1}) \subseteq Nat \ {0}
  BY ShadowAssumption
<1> QED
  BY <1>4, <1>5, <1>6 DEF StartMarket

\* Nor does a symbol that is left alone.
LEMMA SkippedTypes ==
  ASSUME TypeInv, NEW p \in Processes, SymbolBlocked(p) \/ EntryBlocked(p)
  PROVE  TypeInv'
<1> DEFINE s == session[p]
           w == NextSymbol(s)
<1>1. /\ s # None /\ s.todo # << >> /\ session' = [session EXCEPT ![p] = w]
      /\ UNCHANGED <<now, observations, samples, lock, cycles>>
  BY DEF SymbolBlocked, EntryBlocked
<1>2. SessionOK(s, DOMAIN observations) /\ cycles \in 0..MaxCycles
  BY <1>1, SessionBounded DEF TypeInv
<1>3. PICK n \in Nat : \A id \in DOMAIN s.rows : id <= n
  BY <1>1, SessionBounded
<1>4. SessionOK(w, DOMAIN observations) /\ w.rows = s.rows
  BY <1>1, <1>2, NextSymbolType
<1> HIDE DEF w
<1>5. \A id \in DOMAIN w.rows : id <= n
  BY <1>3, <1>4
<1> QED
  BY <1>1, <1>2, <1>4, <1>5, SessionStep

\* An open row is marked.
LEMMA MarkOpenTypes ==
  ASSUME TypeInv, NEW p \in Processes, NEW quote \in Quotes, MarkOpen(p, quote)
  PROVE  TypeInv'
<1> DEFINE s == session[p]
<1>1. /\ s # None /\ s.todo # << >>
      /\ UNCHANGED <<now, observations, samples, lock, cycles>>
  BY DEF MarkOpen
<1>2. PICK id \in OpenRows(s, Head(s.todo)) :
        session' = [session EXCEPT ![p] = NextSymbol(Record(s, id, Marked(Table(s)[id], quote, s.fx, s.budget)))]
  BY DEF MarkOpen
<1>3. SessionOK(s, DOMAIN observations)
  BY <1>1, SessionBounded
<1>4. /\ Table(s) \in Rows /\ now \in Time /\ id \in DOMAIN Table(s)
  BY <1>3, TableType DEF TypeInv, OpenRows
<1>5. id \in Nat /\ Table(s)[id] \in ShadowObservation
  BY <1>4, RowsHas
<1>6. s.fx \in Nat \ {0} /\ s.budget \in Nat \ {0}
  BY <1>1, <1>3, HeadSymbol
<1>7. PICK o \in ShadowObservation : o = Marked(Table(s)[id], quote, s.fx, s.budget)
  BY <1>4, <1>5, <1>6, MarkedType
<1> QED
  BY <1>1, <1>2, <1>5, <1>7, RecordStep

\* A new row is opened.
LEMMA OpenNewTypes ==
  ASSUME TypeInv, NEW p \in Processes, NEW quote \in Quotes, OpenNew(p, quote)
  PROVE  TypeInv'
<1> DEFINE s == session[p]
<1>1. /\ s # None /\ s.todo # << >>
      /\ UNCHANGED <<now, observations, samples, lock, cycles>>
      /\ session' = [session EXCEPT ![p] =
           NextSymbol(Record(s, NewId, NewObservation(s.market, Head(s.todo), quote, s.fx, s.budget)))]
  BY DEF OpenNew
<1>3. SessionOK(s, DOMAIN observations) /\ now \in Time
  BY <1>1, SessionBounded DEF TypeInv
<1>4. /\ Head(s.todo) \in ToSet(Watchlist[s.market])
      /\ s.market \in Markets /\ s.fx \in Nat \ {0} /\ s.budget \in Nat \ {0}
  BY <1>1, <1>3, HeadSymbol
<1>5. PICK id \in Nat : id = NewId
  BY NewIdIsNew
<1>6. PICK o \in ShadowObservation : o = NewObservation(s.market, Head(s.todo), quote, s.fx, s.budget)
  BY <1>3, <1>4, NewObservationType
<1> QED
  BY <1>1, <1>5, <1>6, RecordStep

\* A commit makes the table of the session the committed one.
LEMMA CommitTypes ==
  ASSUME TypeInv, NEW p \in Processes, Commit(p)
  PROVE  TypeInv'
<1> DEFINE s == session[p]
<1>1. /\ s # None /\ observations' = Table(s) /\ samples' = Samples(s)
      /\ session' = [session EXCEPT ![p] = None]
      /\ UNCHANGED <<now, lock, cycles>>
  BY DEF Commit
<1>2. SessionOK(s, DOMAIN observations)
  BY <1>1, SessionBounded
<1>3. /\ observations' \in Rows
      /\ DOMAIN observations' = DOMAIN observations \cup DOMAIN s.rows
  BY <1>1, <1>2, TableType DEF TypeInv
<1>4. samples' \in Seq(ShadowTrainingSample)
  BY <1>1, <1>2 DEF Samples, SessionOK, Session, TypeInv
<1>5. \A q \in Processes : session'[q] = IF q = p THEN None ELSE session[q]
  BY <1>1 DEF TypeInv
<1>6. IdsBounded'
  BY <1>1, <1>3, <1>5 DEF TypeInv, IdsBounded
<1>7. \A q \in Processes : session'[q] # None => SessionOK(session'[q], DOMAIN observations')
  BY <1>3, <1>5 DEF TypeInv, SessionOK
<1> QED
  BY <1>1, <1>3, <1>4, <1>6, <1>7 DEF TypeInv

\* The clock keeps to its bound.
LEMMA TickTypes ==
  ASSUME TypeInv, Tick
  PROVE  TypeInv'
<1>0. MaxTime \in Nat
  BY ShadowAssumption
<1>1. now' \in Time
  BY <1>0 DEF TypeInv, Tick, Time
<1>2. IdsBounded'
  BY DEF Tick, TypeInv, IdsBounded
<1> QED
  BY <1>1, <1>2 DEF TypeInv, Tick

\* Every step keeps the types.
LEMMA TypesStep ==
  ASSUME TypeInv, [Next]_vars
  PROVE  TypeInv'
<1>1. ASSUME NEW p \in Loops, LoopStarts(p)
      PROVE  TypeInv'
  <2>1. IdsBounded'
    BY <1>1 DEF LoopStarts, TypeInv, IdsBounded
  <2> QED
    BY <1>1, <2>1 DEF LoopStarts, TypeInv
<1>2. ASSUME NEW p \in Loops, LoopDies(p)
      PROVE  TypeInv'
  <2>1. p \in Processes /\ session' = [session EXCEPT ![p] = None]
        /\ lock' \in Loops \cup {None} /\ UNCHANGED <<now, observations, samples, cycles>>
    BY <1>2 DEF LoopDies, Processes
  <2> QED
    BY <2>1, SessionEnds
<1>3. ASSUME NEW p \in Loops \cup Callers, Cycle(p)
      PROVE  TypeInv'
  <2>1. p \in Processes
    BY DEF Processes
  <2> QED
    BY <1>3, <2>1, BeginCycleTypes, StartMarketTypes, SkippedTypes, MarkOpenTypes, OpenNewTypes
       DEF Cycle
<1>4. ASSUME NEW p \in Scripts, Rescale(p)
      PROVE  TypeInv'
  BY <1>4, RescaleTypes DEF Processes
<1>5. ASSUME NEW p \in Processes, Commit(p)
      PROVE  TypeInv'
  BY <1>5, CommitTypes
<1>6. ASSUME NEW p \in Processes, Rollback(p)
      PROVE  TypeInv'
  <2>1. session' = [session EXCEPT ![p] = None]
        /\ lock' \in Loops \cup {None} /\ UNCHANGED <<now, observations, samples, cycles>>
    BY <1>6 DEF Rollback, TypeInv
  <2> QED
    BY <2>1, SessionEnds
<1>7. CASE UNCHANGED vars
  <2>1. IdsBounded'
    BY <1>7 DEF vars, TypeInv, IdsBounded
  <2> QED
    BY <1>7, <2>1 DEF vars, TypeInv
<1> QED
  BY <1>1, <1>2, <1>3, <1>4, <1>5, <1>6, <1>7, TickTypes DEF Next

\* The book starts empty.
LEMMA TypesInit ==
  ASSUME Init
  PROVE  TypeInv
<1>1. Empty = [id \in {} |-> Empty[id]] /\ DOMAIN Empty = {}
  BY DEF Empty
<1>2. Empty \in Rows
  BY <1>1, RowsIs
<1>3. IdsBounded
  BY <1>1 DEF Init, IdsBounded
<1>4. now \in Time /\ cycles \in 0..MaxCycles
  BY ShadowAssumption DEF Init, Time
<1> QED
  BY <1>2, <1>3, <1>4 DEF Init, TypeInv

\* The types that TypeOK lists, in every state: whatever cycles and scripts overlap,
\* whichever columns their updates merge, and however they end.
THEOREM ShadowTypes == Spec => []TypeOK
<1>1. TypeInv => TypeOK
  BY RowsHas DEF TypeInv, TypeOK
<1> QED
  BY <1>1, TypesInit, TypesStep, PTL DEF Spec

-----------------------------------------------------------------------------
(***************************************************************************)
(* A book: a table of observations with the samples recorded of them, at a *)
(* time.                                                                   *)
(***************************************************************************)
\* The amounts of an observation are those of its shares at its rate.
Valued(o) ==
  /\ o.notional = o.quantity * o.entry_price * o.metadata.usd_inr
  /\ o.pnl = (o.current_price - o.entry_price) * o.quantity * o.metadata.usd_inr

\* A row is of one day, its amounts are its own and its target is above its entry; when it
\* is closed its cooldown runs from its last mark, and for the day only when that is over.
RowOK(o, t) ==
  /\ o.symbol \in ToSet(Watchlist[o.market])
  /\ o.opened_at <= o.last_marked_at /\ o.last_marked_at <= t
  /\ DayStart(o.last_marked_at) = DayStart(o.opened_at)
  /\ Valued(o) /\ o.entry_price < o.metadata.take_profit
  /\ ~IsOpen(o) => o.metadata.reentry_blocked_until = o.last_marked_at + Cooldown
  /\ o.status = "EXIT_SESSION_CLOSE" => o.last_marked_at < DayStart(t)

RowsOK(T, t) == \A id \in DOMAIN T : RowOK(T[id], t)

\* A sample was taken of its observation, between its opening and its last mark.
Fits(x, o) ==
  /\ x.market = o.market /\ x.symbol = o.symbol
  /\ o.opened_at <= x.sample_at /\ x.sample_at <= o.last_marked_at

SamplesFit(T, S) ==
  \A i \in DOMAIN S : S[i].observation \in DOMAIN T /\ Fits(S[i], T[S[i].observation])

\* The exit sample of a closed observation is its last and its only one.
IsExit(S, i, id, o) ==
  /\ S[i].observation = id /\ S[i].kind = "SHADOW_EXIT"
  /\ S[i].pnl = o.pnl /\ S[i].quantity = o.quantity /\ S[i].notional = o.notional
  /\ S[i].sample_at = o.last_marked_at
  /\ \A j \in DOMAIN S \ {i} : S[j].observation = id => j < i /\ S[j].kind # "SHADOW_EXIT"

ExitsOK(T, S) ==
  \A id \in DOMAIN T :
    IF IsOpen(T[id]) THEN \A i \in DOMAIN S : S[i].observation = id => S[i].kind # "SHADOW_EXIT"
    ELSE \E i \in DOMAIN S : IsExit(S, i, id, T[id])

\* One observation of a symbol is open.
OneOpen(T) ==
  \A a, b \in DOMAIN T : T[a].symbol = T[b].symbol /\ IsOpen(T[a]) /\ IsOpen(T[b]) => a = b

\* The open observation of a symbol is its latest, and each begins when the cooldown of
\* those before is over.
Spaced(T) ==
  \A a, b \in DOMAIN T :
    a # b /\ T[a].symbol = T[b].symbol =>
      /\ IsOpen(T[b]) => T[a].opened_at < T[b].opened_at
      /\ ~IsOpen(T[b]) /\ T[b].opened_at <= T[a].opened_at
           => T[a].opened_at >= T[b].last_marked_at + Cooldown

\* The closed observations of a symbol of the sessions before one that was opened at t.
Before(T, symbol, t) ==
  {b \in DOMAIN T :
     /\ T[b].symbol = symbol
     /\ T[b].opened_at \in DayStart(t) - PreviousDays * TicksPerDay .. DayStart(t) - 1
     /\ ~IsOpen(T[b])}

\* The last of those, if it had shares, did not end in the loss that pauses its symbol.
NoLoserBefore(T, symbol, t) ==
  \A b \in Before(T, symbol, t) :
    T[b].quantity > 0 /\ (\A c \in Before(T, symbol, t) : T[c].last_marked_at <= T[b].last_marked_at)
      => ~Lost(T[b].pnl, T[b].notional, PreviousLoss, PreviousLossPct)

LosersPaused(T) == \A a \in DOMAIN T : NoLoserBefore(T, T[a].symbol, T[a].opened_at)

\* The samples of an observation have a peak, of which the observation has not given
\* back what closes it; and the first of them had no profit.
PeakIs(S, id, i) ==
  /\ i \in DOMAIN S /\ S[i].observation = id
  /\ \A j \in DOMAIN S \ {i} : S[j].observation = id =>
       \/ S[j].pnl < S[i].pnl
       \/ S[j].pnl = S[i].pnl /\ i < j

\* The row is looked at as its last mark left it.
Watched(S, id, o) ==
  /\ LevelExit(o) = None
  /\ \E i \in DOMAIN S : PeakIs(S, id, i) /\ ~HasGivenBack(S[i], o.pnl)
  /\ \E i \in DOMAIN S : S[i].observation = id /\ S[i].pnl = 0

PathsWatched(T, S) == \A id \in DOMAIN T : IsOpen(T[id]) => Watched(S, id, AsMarked(T[id], id, S))

\* A sample shows a row as its last mark left it.
Shows(x, o) ==
  /\ x.price = o.current_price /\ x.pnl = o.pnl
  /\ x.quantity = o.quantity /\ x.notional = o.notional
  /\ x.sample_at = o.last_marked_at

\* A sample is within the levels of its observation, but for the exit that is for them.
Between(x, o) ==
  x.quantity > 0 =>
    /\ o.status # "EXIT_STOP_LOSS" => o.metadata.stop_loss < x.price
    /\ o.status # "EXIT_TAKE_PROFIT" => x.price < o.metadata.take_profit

\* An observation had shares at every sample.
Invested(S, id) == \A i \in DOMAIN S : S[i].observation = id => S[i].quantity > 0

\* Its exit has the amounts a cycle decided on: a rescale of a stale row changes them.
Judged(o) == ~(o.status = "EXIT_SESSION_CLOSE" /\ o.metadata.rescaled)

LevelExits == {"EXIT_STOP_LOSS", "EXIT_TAKE_PROFIT", "EXIT_PROFIT_BOOKING"}
PathExits == {"EXIT_PROFIT_GIVEBACK", "EXIT_SESSION_CLOSE"}

\* The exit the levels ask for is the one that was made, if that was for a level.
LevelsTold(o) == LevelExit(o) = IF o.status \in LevelExits THEN o.status ELSE None

\* The peak of the samples says whether a profit was given back.
PeakTold(S, id, o) ==
  o.status \in PathExits =>
    \E i \in DOMAIN S :
      PeakIs(S, id, i) /\ (HasGivenBack(S[i], o.pnl) <=> o.status = "EXIT_PROFIT_GIVEBACK")

LastIs(S, id, l) ==
  /\ l \in DOMAIN S /\ S[l].observation = id
  /\ \A j \in DOMAIN S \ {l} : S[j].observation = id => j < l

Ordered(S, id) ==
  \A i, j \in DOMAIN S :
    S[i].observation = id /\ S[j].observation = id /\ i < j => S[i].sample_at <= S[j].sample_at

\* What has no shares, or none that cost anything, has no profit and no loss.
Paid(o) == (o.quantity > 0 /\ o.notional > 0) \/ o.pnl = 0

\* The samples of an observation tell its history, and how it ended.
Told(S, id, o) ==
  /\ o.metadata.stop_loss < o.metadata.take_profit /\ Paid(o)
  /\ Judged(o) => LevelsTold(o) /\ PeakTold(S, id, o)
  /\ \E l : LastIs(S, id, l) /\ Shows(S[l], o)
  /\ Ordered(S, id)
  /\ Invested(S, id) => \A i \in DOMAIN S : S[i].observation = id => Between(S[i], o)

PathsTold(T, S) == \A id \in DOMAIN T : Told(S, id, AsMarked(T[id], id, S))

BookOK(T, S, t) ==
  /\ RowsOK(T, t) /\ SamplesFit(T, S) /\ ExitsOK(T, S) /\ OneOpen(T)
  /\ Cooldown > 0 => Spaced(T) /\ LosersPaused(T)
  /\ Giveback > 0 => PathsWatched(T, S) /\ PathsTold(T, S)

-----------------------------------------------------------------------------
(***************************************************************************)
(* With the operator's care, one session is open, and the book is in order *)
(* as it is committed and as that session would leave it.                  *)
(***************************************************************************)
Exclusive ==
  /\ \A p, q \in Processes : session[p] # None /\ session[q] # None => p = q
  /\ \A p \in Loops : session[p] # None => lock = p

\* The session knows the rows it touched as they are committed.
LoadedSound(s) ==
  /\ DOMAIN s.loaded = DOMAIN s.rows \cap DOMAIN observations
  /\ \A id \in DOMAIN s.loaded : s.loaded[id] = observations[id]

\* What was last marked before a day began keeps the time of its mark, and its result
\* unless it was rescaled late.
PastSame(o, o2, d) ==
  o.last_marked_at < d =>
    /\ o2.last_marked_at = o.last_marked_at
    /\ ~ResizedLate(o2) => ~ResizedLate(o) /\ o2.pnl = o.pnl /\ o2.notional = o.notional

\* A table differs from another in nothing that a review of the days before says, but for
\* what was rescaled late.
PastKept(T, T2, d) ==
  /\ DOMAIN T \subseteq DOMAIN T2
  /\ \A id \in DOMAIN T : /\ T2[id].market = T[id].market
                          /\ T[id].last_marked_at <= T2[id].last_marked_at
                          /\ PastSame(T[id], T2[id], d)
  /\ \A id \in DOMAIN T2 \ DOMAIN T : d <= T2[id].last_marked_at

\* While it marks, it has closed what was opened on another day.
OfToday(s) ==
  s.todo # << >> \/ s.markets # << >> =>
    \A id \in DOMAIN Table(s) : IsOpen(Table(s)[id]) => DayStart(now) <= Table(s)[id].opened_at

SessionInv(s) ==
  /\ LoadedSound(s)
  /\ OfToday(s)
  /\ PastKept(observations, Table(s), DayStart(now))
  /\ BookOK(Table(s), Samples(s), now)

ShadowInv ==
  /\ TypeInv
  /\ Exclusive
  /\ BookOK(observations, samples, now)
  /\ \A p \in Processes : session[p] # None => SessionInv(session[p])

-----------------------------------------------------------------------------
(***************************************************************************)
(* What a step may do to a book: the rows that are there advance, or a row *)
(* is opened.                                                              *)
(***************************************************************************)
\* Samples are appended.
Grown(S, S2) ==
  /\ DOMAIN S \subseteq DOMAIN S2
  /\ \A i \in DOMAIN S : S2[i] = S[i]
  /\ \A i \in DOMAIN S : \A j \in DOMAIN S2 \ DOMAIN S : i < j

New(S, S2, id) == {i \in DOMAIN S2 \ DOMAIN S : S2[i].observation = id}

\* An open row may be flagged, with other amounts.
Flagged(o, o2) ==
  /\ IsOpen(o) /\ Valued(o2) /\ o2 \in ShadowObservation
  /\ o2 = [o EXCEPT !.quantity = o2.quantity, !.notional = o2.notional, !.pnl = o2.pnl,
                    !.metadata.rescaled = TRUE]

\* A row as it was, or rescaled.
Untouched(o, o2) == o2 = o \/ Flagged(o, o2)

\* What is recorded of a row shows it, and its exit is the one that is due.
Explained(S, S2, id, o, o2) ==
  /\ New(S, S2, id) # {} /\ \A i \in New(S, S2, id) : Shows(S2[i], o2)
  /\ o2.metadata.stop_loss = o.metadata.stop_loss
  /\ o2.metadata.take_profit = o.metadata.take_profit
  /\ o2.status = "EXIT_PROFIT_GIVEBACK" => GaveBack(o2, id, S)
  /\ IF o2.status = "EXIT_SESSION_CLOSE"
     THEN /\ LevelExit(o2) = LevelExit(o) /\ o2.pnl = o.pnl
          /\ o2.current_price = o.current_price
          /\ o2.metadata.rescaled = o.metadata.rescaled
     ELSE LevelsTold(o2)

\* A row that was open is marked, and kept open with its sample or closed with its exit.
Touched(S, S2, id, o, o2, t) ==
  /\ IsOpen(o) /\ RowOK(o2, t)
  /\ o2.market = o.market /\ o2.symbol = o.symbol /\ o2.opened_at = o.opened_at
  /\ o.last_marked_at <= o2.last_marked_at /\ PastSame(o, o2, DayStart(t))
  /\ Explained(S, S2, id, o, o2)
  /\ \A i \in New(S, S2, id) : Fits(S2[i], o2)
  /\ IsOpen(o2) =>
       /\ LevelExit(o2) = None /\ ~GaveBack(o2, id, S)
       /\ \E m \in New(S, S2, id) :
            New(S, S2, id) = {m} /\ S2[m].kind # "SHADOW_EXIT" /\ S2[m].pnl = o2.pnl
  /\ ~IsOpen(o2) =>
       \E e \in New(S, S2, id) :
         /\ S2[e].kind = "SHADOW_EXIT"
         /\ S2[e].pnl = o2.pnl /\ S2[e].quantity = o2.quantity /\ S2[e].notional = o2.notional
         /\ S2[e].sample_at = o2.last_marked_at
         /\ \A j \in New(S, S2, id) \ {e} : j < e /\ S2[j].kind # "SHADOW_EXIT"

Advance(T, S, T2, S2, t) ==
  /\ DOMAIN T2 = DOMAIN T /\ Grown(S, S2)
  /\ \A i \in DOMAIN S2 \ DOMAIN S : S2[i].observation \in DOMAIN T
  /\ \A id \in DOMAIN T :
       \/ Untouched(T[id], T2[id]) /\ New(S, S2, id) = {}
       \/ Touched(S, S2, id, T[id], T2[id], t)

\* What the samples of a book hold.
LEMMA SampleFields ==
  ASSUME NEW S \in Seq(ShadowTrainingSample), NEW i \in DOMAIN S
  PROVE  /\ S[i] \in ShadowTrainingSample /\ i \in Nat
         /\ S[i].sample_at \in Int /\ S[i].pnl \in Int /\ S[i].quantity \in Nat
         /\ S[i].notional \in Nat /\ S[i].observation \in Nat
<1>1. S[i] \in ShadowTrainingSample /\ i \in Nat
  BY ElementOf
<1> QED
  BY <1>1 DEF ShadowTrainingSample

\* A rescale changes amounts, and nothing else that the rules look at.
LEMMA FlagOnly ==
  ASSUME NEW o \in ShadowObservation, NEW o2, Flagged(o, o2)
  PROVE  /\ o2.market = o.market /\ o2.symbol = o.symbol /\ o2.opened_at = o.opened_at
         /\ o2.last_marked_at = o.last_marked_at /\ o2.status = o.status
         /\ o2.current_price = o.current_price /\ o2.entry_price = o.entry_price
         /\ o2.metadata.stop_loss = o.metadata.stop_loss
         /\ o2.metadata.take_profit = o.metadata.take_profit
         /\ o2.metadata.rescaled = TRUE /\ IsOpen(o2) /\ ResizedLate(o2)
         /\ \A t : RowOK(o, t) => RowOK(o2, t)
<1>1. /\ o2.market = o.market /\ o2.symbol = o.symbol /\ o2.opened_at = o.opened_at
      /\ o2.last_marked_at = o.last_marked_at /\ o2.status = o.status
      /\ o2.entry_price = o.entry_price /\ o2.current_price = o.current_price
      /\ o2.metadata = [o.metadata EXCEPT !.rescaled = TRUE]
  BY DEF Flagged, ShadowObservation
<1>2. o.metadata \in Metadata
  BY DEF ShadowObservation
<1>3. /\ o2.metadata.stop_loss = o.metadata.stop_loss
      /\ o2.metadata.take_profit = o.metadata.take_profit
      /\ o2.metadata.reentry_blocked_until = o.metadata.reentry_blocked_until
      /\ o2.metadata.rescaled = TRUE
  BY <1>1, <1>2 DEF Metadata
<1>4. IsOpen(o) /\ IsOpen(o2) /\ ResizedLate(o2)
  BY <1>1, <1>3 DEF Flagged, IsOpen, ResizedLate
<1>5. Valued(o2)
  BY DEF Flagged
<1>6. \A t : RowOK(o, t) => RowOK(o2, t)
  BY <1>1, <1>3, <1>4, <1>5 DEF RowOK
<1> QED
  BY <1>1, <1>3, <1>4, <1>6

\* What every row keeps when a book advances.
LEMMA AdvanceKeeps ==
  ASSUME NEW T \in Rows, NEW S, NEW T2 \in Rows, NEW S2, NEW t, Advance(T, S, T2, S2, t),
         NEW id \in DOMAIN T
  PROVE  /\ T2[id].market = T[id].market /\ T2[id].symbol = T[id].symbol
         /\ T2[id].opened_at = T[id].opened_at
         /\ T[id].last_marked_at <= T2[id].last_marked_at
         /\ IsOpen(T2[id]) => IsOpen(T[id])
         /\ ~IsOpen(T[id]) => T2[id] = T[id] /\ New(S, S2, id) = {}
<1>1. T[id] \in ShadowObservation /\ T[id].last_marked_at \in Nat
  BY RowsHas DEF ShadowObservation, Time
<1>2. CASE T2[id] = T[id] /\ New(S, S2, id) = {}
  BY <1>1, <1>2
<1>3. CASE Flagged(T[id], T2[id])
  <2>1. PICK o, o2 : o = T[id] /\ o2 = T2[id]
    OBVIOUS
  <2>2. o \in ShadowObservation /\ Flagged(o, o2) /\ IsOpen(o)
    BY <1>1, <1>3, <2>1 DEF Flagged
  <2>3. /\ o2.market = o.market /\ o2.symbol = o.symbol /\ o2.opened_at = o.opened_at
        /\ o2.last_marked_at = o.last_marked_at
    BY <2>2, FlagOnly
  <2> QED
    BY <1>1, <2>1, <2>2, <2>3
<1>4. CASE Touched(S, S2, id, T[id], T2[id], t)
  BY <1>4 DEF Touched
<1> QED
  BY <1>2, <1>3, <1>4 DEF Advance, Untouched

\* Rows stay sound.
LEMMA AdvanceRows ==
  ASSUME NEW T \in Rows, NEW S, NEW T2 \in Rows, NEW S2, NEW t, Advance(T, S, T2, S2, t),
         RowsOK(T, t)
  PROVE  RowsOK(T2, t)
<1>1. ASSUME NEW id \in DOMAIN T
      PROVE  RowOK(T2[id], t)
  <2>1. T[id] \in ShadowObservation /\ RowOK(T[id], t)
    BY RowsHas DEF RowsOK
  <2>2. CASE T2[id] = T[id]
    BY <2>1, <2>2
  <2>3. CASE Flagged(T[id], T2[id])
    BY <2>1, <2>3, FlagOnly
  <2>4. CASE Touched(S, S2, id, T[id], T2[id], t)
    BY <2>4 DEF Touched
  <2> QED
    BY <2>2, <2>3, <2>4 DEF Advance, Untouched
<1> QED
  BY <1>1 DEF RowsOK, Advance

\* Samples fit their observations, which are marked later still.
LEMMA AdvanceSamples ==
  ASSUME NEW T \in Rows, NEW S \in Seq(ShadowTrainingSample), NEW T2 \in Rows, NEW S2, NEW t,
         Advance(T, S, T2, S2, t), SamplesFit(T, S)
  PROVE  SamplesFit(T2, S2)
<1>1. ASSUME NEW i \in DOMAIN S
      PROVE  S2[i].observation \in DOMAIN T2 /\ Fits(S2[i], T2[S2[i].observation])
  <2>1. S2[i] = S[i] /\ DOMAIN T2 = DOMAIN T
    BY DEF Advance, Grown
  <2>2. PICK id \in DOMAIN T : id = S[i].observation /\ Fits(S[i], T[id])
    BY DEF SamplesFit
  <2>3. /\ T2[id].market = T[id].market /\ T2[id].symbol = T[id].symbol
        /\ T2[id].opened_at = T[id].opened_at
        /\ T[id].last_marked_at <= T2[id].last_marked_at
    BY AdvanceKeeps, ZenonT(60)
  <2>4. S[i] \in ShadowTrainingSample /\ S[i].sample_at \in Int
    BY SampleFields
  <2>5. T[id].last_marked_at \in Nat /\ T2[id].last_marked_at \in Nat
    BY <2>1, RowsHas, SMTT(60) DEF ShadowObservation, Time
  <2> QED
    BY <2>1, <2>2, <2>3, <2>4, <2>5 DEF Fits
<1>2. ASSUME NEW i \in DOMAIN S2 \ DOMAIN S
      PROVE  S2[i].observation \in DOMAIN T2 /\ Fits(S2[i], T2[S2[i].observation])
  <2>1. PICK id \in DOMAIN T : id = S2[i].observation
    BY DEF Advance
  <2>2. i \in New(S, S2, id)
    BY <2>1 DEF New
  <2>3. Touched(S, S2, id, T[id], T2[id], t)
    BY <2>2 DEF Advance
  <2> QED
    BY <2>1, <2>2, <2>3 DEF Touched, Advance
<1> QED
  BY <1>1, <1>2 DEF SamplesFit

\* Exits stay the last sample of what they closed, and are made with what is closed.
LEMMA AdvanceExits ==
  ASSUME NEW T \in Rows, NEW S \in Seq(ShadowTrainingSample), NEW T2 \in Rows,
         NEW S2 \in Seq(ShadowTrainingSample), NEW t,
         Advance(T, S, T2, S2, t), ExitsOK(T, S)
  PROVE  ExitsOK(T2, S2)
<1>0. /\ DOMAIN T2 = DOMAIN T /\ Grown(S, S2)
      /\ DOMAIN S \subseteq DOMAIN S2 /\ \A i \in DOMAIN S : S2[i] = S[i]
      /\ \A i \in DOMAIN S : \A j \in DOMAIN S2 \ DOMAIN S : i < j
  BY DEF Advance, Grown
<1>1. ASSUME NEW id \in DOMAIN T, IsOpen(T2[id])
      PROVE  \A i \in DOMAIN S2 : S2[i].observation = id => S2[i].kind # "SHADOW_EXIT"
  <2>1. IsOpen(T[id])
    BY <1>1, AdvanceKeeps
  <2>2. \A i \in DOMAIN S : S2[i].observation = id => S2[i].kind # "SHADOW_EXIT"
    BY <1>0, <2>1 DEF ExitsOK
  <2>3. \A i \in New(S, S2, id) : S2[i].kind # "SHADOW_EXIT"
    <3>1. CASE New(S, S2, id) = {}
      BY <3>1
    <3>2. CASE Touched(S, S2, id, T[id], T2[id], t)
      BY <1>1, <3>2 DEF Touched
    <3> QED
      BY <3>1, <3>2 DEF Advance
  <2> QED
    BY <2>2, <2>3 DEF New
<1>2. ASSUME NEW id \in DOMAIN T, ~IsOpen(T2[id]), ~IsOpen(T[id])
      PROVE  \E i \in DOMAIN S2 : IsExit(S2, i, id, T2[id])
  <2>1. T2[id] = T[id] /\ New(S, S2, id) = {}
    BY <1>2, AdvanceKeeps, ZenonT(60)
  <2>2. PICK i \in DOMAIN S : IsExit(S, i, id, T[id])
    BY <1>2 DEF ExitsOK
  <2>3. \A j \in DOMAIN S2 : S2[j].observation = id => j \in DOMAIN S
    BY <2>1 DEF New
  <2>4. IsExit(S2, i, id, T2[id])
    BY <1>0, <2>1, <2>2, <2>3 DEF IsExit
  <2> QED
    BY <1>0, <2>4
<1>3. ASSUME NEW id \in DOMAIN T, ~IsOpen(T2[id]), IsOpen(T[id])
      PROVE  \E i \in DOMAIN S2 : IsExit(S2, i, id, T2[id])
  <2>1. Touched(S, S2, id, T[id], T2[id], t)
    <3>1. Untouched(T[id], T2[id]) => IsOpen(T2[id])
      BY <1>3, RowsHas, FlagOnly DEF Untouched
    <3> QED
      BY <1>3, <3>1 DEF Advance
  <2>2. PICK e \in New(S, S2, id) :
         /\ S2[e].kind = "SHADOW_EXIT"
         /\ S2[e].pnl = T2[id].pnl /\ S2[e].quantity = T2[id].quantity
         /\ S2[e].notional = T2[id].notional /\ S2[e].sample_at = T2[id].last_marked_at
         /\ \A j \in New(S, S2, id) \ {e} : j < e /\ S2[j].kind # "SHADOW_EXIT"
    BY <1>3, <2>1 DEF Touched
  <2>3. e \in DOMAIN S2 \ DOMAIN S /\ S2[e].observation = id
    BY <2>2 DEF New
  <2>4. \A j \in DOMAIN S : S2[j].observation = id => j < e /\ S2[j].kind # "SHADOW_EXIT"
    BY <1>0, <1>3, <2>3 DEF ExitsOK
  <2>5. \A j \in DOMAIN S2 \ {e} : S2[j].observation = id => j < e /\ S2[j].kind # "SHADOW_EXIT"
    BY <2>2, <2>4 DEF New
  <2>6. IsExit(S2, e, id, T2[id])
    BY <2>2, <2>3, <2>5 DEF IsExit
  <2> QED
    BY <2>3, <2>6
<1> QED
  BY <1>0, <1>1, <1>2, <1>3 DEF ExitsOK

\* Nothing is opened.
LEMMA AdvanceOpen ==
  ASSUME NEW T \in Rows, NEW S, NEW T2 \in Rows, NEW S2, NEW t, Advance(T, S, T2, S2, t),
         OneOpen(T)
  PROVE  OneOpen(T2)
<1>1. \A id \in DOMAIN T : T2[id].symbol = T[id].symbol /\ (IsOpen(T2[id]) => IsOpen(T[id]))
  BY AdvanceKeeps
<1>2. DOMAIN T2 = DOMAIN T
  BY DEF Advance
<1> QED
  BY <1>1, <1>2 DEF OneOpen

\* What is closed was the latest of its symbol, so it comes before none.
LEMMA AdvanceSpaced ==
  ASSUME NEW T \in Rows, NEW S, NEW T2 \in Rows, NEW S2, NEW t, Advance(T, S, T2, S2, t),
         Spaced(T)
  PROVE  Spaced(T2)
<1>1. \A id \in DOMAIN T :
        /\ T2[id].symbol = T[id].symbol /\ T2[id].opened_at = T[id].opened_at
        /\ IsOpen(T2[id]) => IsOpen(T[id])
        /\ ~IsOpen(T[id]) => T2[id] = T[id]
  BY AdvanceKeeps
<1>2. DOMAIN T2 = DOMAIN T
  BY DEF Advance
<1>3. \A id \in DOMAIN T : T[id].opened_at \in Nat
  BY RowsHas DEF ShadowObservation, Time
<1> QED
  BY <1>1, <1>2, <1>3 DEF Spaced

\* For the same reason no pause is missed afterwards.
LEMMA AdvanceLosers ==
  ASSUME NEW T \in Rows, NEW S, NEW T2 \in Rows, NEW S2, NEW t, Advance(T, S, T2, S2, t),
         Spaced(T), LosersPaused(T)
  PROVE  LosersPaused(T2)
<1>1. \A id \in DOMAIN T :
        /\ T2[id].symbol = T[id].symbol /\ T2[id].opened_at = T[id].opened_at
        /\ IsOpen(T2[id]) => IsOpen(T[id])
        /\ ~IsOpen(T[id]) => T2[id] = T[id]
  BY AdvanceKeeps
<1>2. DOMAIN T2 = DOMAIN T
  BY DEF Advance
<1>3. \A id \in DOMAIN T : T[id].opened_at \in Nat
  BY RowsHas DEF ShadowObservation, Time
<1>4. ASSUME NEW a \in DOMAIN T
      PROVE  NoLoserBefore(T2, T2[a].symbol, T2[a].opened_at)
  <2> DEFINE symbol == T[a].symbol
             at == T[a].opened_at
  <2>1. at \in Nat /\ DayStart(at) \in Nat /\ DayStart(at) <= at
    BY <1>3, DayLaws
  <2>2. Before(T2, symbol, at) = Before(T, symbol, at)
    <3>1. ASSUME NEW b \in DOMAIN T, T[b].symbol = symbol, T[b].opened_at <= DayStart(at) - 1
          PROVE  ~IsOpen(T[b])
      <4>1. T[b].opened_at < T[a].opened_at
        BY <1>3, <2>1, <3>1
      <4> QED
        BY <1>3, <3>1, <4>1 DEF Spaced
    <3>2. PreviousDays * TicksPerDay \in Nat
      BY ShadowAssumption
    <3>3. \A b \in Before(T2, symbol, at) : b \in Before(T, symbol, at)
      BY <1>1, <1>2, <1>3, <2>1, <3>1, <3>2 DEF Before
    <3>4. \A b \in Before(T, symbol, at) : b \in Before(T2, symbol, at)
      BY <1>1, <1>2 DEF Before
    <3> QED
      BY <3>3, <3>4 DEF Before
  <2>3. \A b \in Before(T, symbol, at) : b \in DOMAIN T /\ T2[b] = T[b]
    BY <1>1 DEF Before
  <2>4. NoLoserBefore(T, symbol, at)
    BY DEF LosersPaused
  <2>5. NoLoserBefore(T2, symbol, at)
    BY <2>2, <2>3, <2>4 DEF NoLoserBefore
  <2> QED
    BY <1>1, <2>5
<1> QED
  BY <1>2, <1>4 DEF LosersPaused

-----------------------------------------------------------------------------
\* A positive number of percent of a positive number is more than nothing.
LEMMA PositiveProduct ==
  ASSUME NEW x \in Nat \ {0}, NEW y \in Nat \ {0}
  PROVE  x * y > 0
  OBVIOUS

\* Nothing is given back of a peak without profit, nor at the peak.
LEMMA NothingGivenBack ==
  ASSUME NEW peak \in ShadowTrainingSample, NEW pnl \in Int
  PROVE  /\ peak.pnl = 0 => ~HasGivenBack(peak, pnl)
         /\ Giveback > 0 /\ peak.pnl = pnl => ~HasGivenBack(peak, pnl)
<1>0. Giveback \in Nat
  <2>1. Giveback \in 0..100
    BY ShadowAssumption
  <2> QED
    BY <2>1
<1>1. peak.pnl \in Int /\ Giveback \in Nat
  BY <1>0 DEF ShadowTrainingSample
<1>2. peak.pnl = 0 => ~HasGivenBack(peak, pnl)
  BY DEF HasGivenBack
<1>3. ASSUME Giveback > 0, peak.pnl = pnl, HasGivenBack(peak, pnl)
      PROVE  FALSE
  <2>1. peak.pnl \in Nat \ {0}
    BY <1>1, <1>3 DEF HasGivenBack
  <2>2. (peak.pnl - pnl) * 100 >= Giveback * peak.pnl
    BY <1>3 DEF HasGivenBack, AtLeast
  <2>3. (peak.pnl - pnl) * 100 = 0
    BY <1>1, <1>3
  <2>4. Giveback * peak.pnl > 0
    BY <1>1, <1>3, <2>1, PositiveProduct
  <2>5. Giveback * peak.pnl \in Int
    BY <1>1
  <2> QED
    BY <2>2, <2>3, <2>4, <2>5
<1> QED
  BY <1>2, <1>3

\* Two samples of an observation make a path of at least two.
LEMMA PathOfTwo ==
  ASSUME NEW S \in Seq(ShadowTrainingSample), NEW id,
         NEW i \in DOMAIN S, NEW k \in DOMAIN S, i # k,
         S[i].observation = id, S[k].observation = id
  PROVE  Cardinality({j \in DOMAIN S : S[j].observation = id}) >= 2
<1> DEFINE path == {j \in DOMAIN S : S[j].observation = id}
<1>1. path \in SUBSET Nat /\ \A j \in path : j <= Len(S)
  BY ElementOf
<1>2. Len(S) \in Nat
  BY ElementOf
<1>3. IsFiniteSet(path)
  BY <1>1, <1>2, FS_BoundedSetOfNaturals
<1>4. IsFiniteSet({i}) /\ Cardinality({i}) = 1
  BY FS_Singleton
<1>5. Cardinality({i} \cup {k}) = 2
  <2>1. k \notin {i}
    OBVIOUS
  <2>2. Cardinality({i} \cup {k}) = Cardinality({i}) + 1
    BY <1>4, <2>1, FS_AddElement
  <2> QED
    BY <1>4, <2>2
<1>6. {i} \cup {k} \in SUBSET path
  OBVIOUS
<1> HIDE DEF path
<1>7. Cardinality({i} \cup {k}) <= Cardinality(path)
  BY <1>3, <1>6, FS_Subset
<1> QED
  BY <1>5, <1>7 DEF path

\* The peak the exit policy chooses is the one there is.
LEMMA PeakIsChosen ==
  ASSUME NEW S \in Seq(ShadowTrainingSample), NEW id, NEW i, PeakIs(S, id, i)
  PROVE  Peak(S, {j \in DOMAIN S : S[j].observation = id}) = i
<1> DEFINE path == {j \in DOMAIN S : S[j].observation = id}
           Top(k) == \A j \in path \ {k} :
                       \/ S[j].pnl < S[k].pnl
                       \/ S[j].pnl = S[k].pnl /\ k < j
<1>1. \A j \in path : j \in Nat /\ S[j].pnl \in Int
  BY SampleFields
<1>2. i \in path /\ Top(i)
  BY DEF PeakIs
<1>3. \A k \in path : Top(k) => k = i
  BY <1>1, <1>2
<1>4. Peak(S, path) = CHOOSE k \in path : Top(k)
  BY DEF Peak
<1> HIDE DEF Top, path
<1>5. (CHOOSE k \in path : Top(k)) = i
  BY <1>2, <1>3
<1> QED
  BY <1>4, <1>5 DEF path

\* There is one last sample of an observation.
LEMMA LastIsMax ==
  ASSUME NEW S \in Seq(ShadowTrainingSample), NEW id, NEW l, LastIs(S, id, l)
  PROVE  Max({i \in DOMAIN S : S[i].observation = id}) = l
<1> DEFINE marks == {i \in DOMAIN S : S[i].observation = id}
<1>1. \A i \in marks : i \in Nat
  BY ElementOf
<1>2. l \in marks /\ \A i \in marks : l >= i
  BY <1>1 DEF LastIs
<1>3. \A k \in marks : (\A i \in marks : k >= i) => k = l
  BY <1>1, <1>2
<1>4. Max(marks) = CHOOSE k \in marks : \A i \in marks : k >= i
  BY DEF Max
<1> HIDE DEF marks
<1>5. (CHOOSE k \in marks : \A i \in marks : k >= i) = l
  BY <1>2, <1>3
<1> QED
  BY <1>4, <1>5 DEF marks

\* A row its last sample shows is as it was marked.
LEMMA ShownIsMarked ==
  ASSUME NEW S \in Seq(ShadowTrainingSample), NEW id, NEW o \in ShadowObservation,
         NEW l, LastIs(S, id, l), Shows(S[l], o)
  PROVE  AsMarked(o, id, S) = o
<1>1. S[Max({i \in DOMAIN S : S[i].observation = id})] = S[l]
  BY LastIsMax
<1>2. S[l].pnl = o.pnl /\ S[l].quantity = o.quantity /\ S[l].notional = o.notional
  BY DEF Shows
<1>3. [o EXCEPT !.quantity = o.quantity, !.notional = o.notional, !.pnl = o.pnl] = o
  BY DEF ShadowObservation
<1> QED
  BY <1>1, <1>2, <1>3 DEF AsMarked

\* What a row has as it was marked: the amounts differ, if it was rescaled and is open.
LEMMA MarkedHas ==
  ASSUME NEW S, NEW id, NEW o \in ShadowObservation, NEW m, m = AsMarked(o, id, S)
  PROVE  /\ m.market = o.market /\ m.symbol = o.symbol /\ m.opened_at = o.opened_at
         /\ m.last_marked_at = o.last_marked_at /\ m.status = o.status
         /\ m.entry_price = o.entry_price /\ m.current_price = o.current_price
         /\ m.metadata = o.metadata
         /\ (IsOpen(m) <=> IsOpen(o)) /\ (Judged(m) <=> Judged(o))
         /\ ~IsOpen(o) \/ ~o.metadata.rescaled => m = o
<1>1. /\ m.market = o.market /\ m.symbol = o.symbol /\ m.opened_at = o.opened_at
      /\ m.last_marked_at = o.last_marked_at /\ m.status = o.status
      /\ m.entry_price = o.entry_price /\ m.current_price = o.current_price
      /\ m.metadata = o.metadata
  BY DEF AsMarked, ShadowObservation
<1> QED
  BY <1>1 DEF AsMarked, IsOpen, Judged

\* A rescale does not change how a row was marked, but for the flag.
LEMMA FlaggedIsMarked ==
  ASSUME NEW S \in Seq(ShadowTrainingSample), NEW S2 \in Seq(ShadowTrainingSample),
         Grown(S, S2), NEW id, New(S, S2, id) = {},
         NEW o \in ShadowObservation, NEW o2 \in ShadowObservation,
         o2 = o \/ Flagged(o, o2), NEW m, m = AsMarked(o, id, S), Told(S, id, m),
         NEW m2, m2 = AsMarked(o2, id, S2)
  PROVE  /\ m2.status = m.status /\ m2.pnl = m.pnl /\ m2.quantity = m.quantity
         /\ m2.notional = m.notional /\ m2.current_price = m.current_price
         /\ m2.last_marked_at = m.last_marked_at
         /\ m2.metadata.stop_loss = m.metadata.stop_loss
         /\ m2.metadata.take_profit = m.metadata.take_profit
         /\ LevelExit(m2) = LevelExit(m) /\ (Judged(m2) => Judged(m))
<1>1. PICK l : LastIs(S, id, l) /\ Shows(S[l], m)
  BY DEF Told
<1>2. l \in DOMAIN S2 /\ S2[l] = S[l] /\ LastIs(S2, id, l)
  BY <1>1 DEF LastIs, Grown, New
<1>3. S2[Max({i \in DOMAIN S2 : S2[i].observation = id})] = S[l]
  BY <1>2, LastIsMax
<1>4. /\ S[l].pnl = m.pnl /\ S[l].quantity = m.quantity /\ S[l].notional = m.notional
  BY <1>1 DEF Shows
<1>5. CASE o2 = o
  <2>1. S[Max({i \in DOMAIN S : S[i].observation = id})] = S[l]
    BY <1>1, LastIsMax
  <2>2. m2 = m
    BY <1>3, <1>5, <2>1 DEF AsMarked
  <2> QED
    BY <2>2
<1>6. CASE Flagged(o, o2)
  <2>1. /\ o2.last_marked_at = o.last_marked_at /\ o2.status = o.status
        /\ o2.current_price = o.current_price /\ o2.entry_price = o.entry_price
        /\ o2.metadata.stop_loss = o.metadata.stop_loss
        /\ o2.metadata.take_profit = o.metadata.take_profit
        /\ o2.metadata.rescaled /\ IsOpen(o2)
    BY <1>6, FlagOnly, ZenonT(60)
  <2>2. m2 = [o2 EXCEPT !.quantity = m.quantity, !.notional = m.notional, !.pnl = m.pnl]
    BY <1>3, <1>4, <2>1 DEF AsMarked
  <2>3. m2.pnl = m.pnl /\ m2.quantity = m.quantity /\ m2.notional = m.notional
    BY <2>2 DEF ShadowObservation
  <2>4. /\ m2.status = o2.status /\ m2.current_price = o2.current_price
        /\ m2.entry_price = o2.entry_price /\ m2.last_marked_at = o2.last_marked_at
        /\ m2.metadata = o2.metadata
    BY MarkedHas
  <2>5. /\ m.status = o.status /\ m.current_price = o.current_price
        /\ m.entry_price = o.entry_price /\ m.last_marked_at = o.last_marked_at
        /\ m.metadata = o.metadata
    BY MarkedHas
  <2>6. LevelExit(m2) = LevelExit(m)
    BY <2>1, <2>3, <2>4, <2>5 DEF LevelExit
  <2>7. Judged(m)
    BY <2>1, <2>5 DEF Judged, IsOpen
  <2> QED
    BY <2>1, <2>3, <2>4, <2>5, <2>6, <2>7
<1> QED
  BY <1>5, <1>6

\* An observation whose samples and profit stay stays watched.
LEMMA WatchedSame ==
  ASSUME NEW S, NEW S2, Grown(S, S2), NEW id, New(S, S2, id) = {},
         NEW o, NEW o2, Watched(S, id, o), o2.pnl = o.pnl, LevelExit(o2) = LevelExit(o)
  PROVE  Watched(S2, id, o2)
<1>1. /\ DOMAIN S \subseteq DOMAIN S2 /\ \A i \in DOMAIN S : S2[i] = S[i]
      /\ \A j \in DOMAIN S2 : S2[j].observation = id => j \in DOMAIN S
  BY DEF Grown, New
<1>2. PICK i \in DOMAIN S : PeakIs(S, id, i) /\ ~HasGivenBack(S[i], o.pnl)
  BY DEF Watched
<1>3. PICK z \in DOMAIN S : S[z].observation = id /\ S[z].pnl = 0
  BY DEF Watched
<1>4. PeakIs(S2, id, i)
  BY <1>1, <1>2 DEF PeakIs
<1>5. ~HasGivenBack(S2[i], o2.pnl)
  BY <1>1, <1>2
<1>6. S2[z].observation = id /\ S2[z].pnl = 0 /\ z \in DOMAIN S2 /\ i \in DOMAIN S2
  BY <1>1, <1>2, <1>3
<1>7. LevelExit(o2) = None
  BY DEF Watched
<1> QED
  BY <1>4, <1>5, <1>6, <1>7 DEF Watched

\* One that is marked and kept is watched with its new sample: though the decision did
\* not look at that sample, its profit is the one the decision looked at.
LEMMA WatchedMarked ==
  ASSUME Giveback > 0,
         NEW S \in Seq(ShadowTrainingSample), NEW S2 \in Seq(ShadowTrainingSample),
         Grown(S, S2), NEW id, NEW m \in New(S, S2, id), New(S, S2, id) = {m},
         NEW o, Watched(S, id, o),
         NEW o2, S2[m].pnl = o2.pnl, LevelExit(o2) = None, ~GaveBack(o2, id, S)
  PROVE  Watched(S2, id, o2)
<1> DEFINE path == {j \in DOMAIN S : S[j].observation = id}
<1>1. /\ DOMAIN S \subseteq DOMAIN S2 /\ \A j \in DOMAIN S : S2[j] = S[j]
      /\ m \in DOMAIN S2 \ DOMAIN S /\ S2[m].observation = id
      /\ \A j \in DOMAIN S : j < m
      /\ \A j \in DOMAIN S2 : S2[j].observation = id => j \in DOMAIN S \/ j = m
  BY DEF Grown, New
<1>2. PICK i \in DOMAIN S : PeakIs(S, id, i)
  BY DEF Watched
<1>3. PICK z \in DOMAIN S : S[z].observation = id /\ S[z].pnl = 0
  BY DEF Watched
<1>4. S[i] \in ShadowTrainingSample /\ S2[m] \in ShadowTrainingSample
  BY <1>1, ElementOf
<1>5. S[i].pnl \in Int /\ o2.pnl \in Int
  BY <1>4 DEF ShadowTrainingSample
<1>6. S[i].observation = id
  BY <1>2 DEF PeakIs
<1>7. ~HasGivenBack(S[i], o2.pnl)
  <2>1. CASE z = i
    BY <1>3, <1>4, <1>5, <2>1, NothingGivenBack
  <2>2. CASE z # i
    <3>1. Cardinality(path) >= 2
      BY <1>3, <1>6, <2>2, PathOfTwo
    <3>2. Peak(S, path) = i
      BY <1>2, PeakIsChosen
    <3> QED
      BY <3>1, <3>2 DEF GaveBack
  <2> QED
    BY <2>1, <2>2
<1>8. \E k \in DOMAIN S2 : PeakIs(S2, id, k) /\ ~HasGivenBack(S2[k], o2.pnl)
  <2>1. \A j \in DOMAIN S : S[j].pnl \in Int
    BY SampleFields
  <2>2. CASE S[i].pnl < S2[m].pnl
    <3>0. \A j \in DOMAIN S : S[j].observation = id => S[j].pnl < S2[m].pnl
      <4>1. S2[m].pnl \in Int
        BY <1>4 DEF ShadowTrainingSample
      <4> QED
        BY <1>2, <1>5, <2>1, <2>2, <4>1 DEF PeakIs
    <3>1. PeakIs(S2, id, m)
      BY <1>1, <3>0 DEF PeakIs
    <3>2. ~HasGivenBack(S2[m], o2.pnl)
      BY <1>4, <1>5, NothingGivenBack
    <3> QED
      BY <1>1, <3>1, <3>2
  <2>3. CASE S2[m].pnl <= S[i].pnl
    <3>1. PeakIs(S2, id, i)
      BY <1>1, <1>2, <1>5, <2>3 DEF PeakIs
    <3> QED
      BY <1>1, <1>7, <3>1
  <2> QED
    BY <1>5, <2>2, <2>3
<1>9. S2[z].observation = id /\ S2[z].pnl = 0 /\ z \in DOMAIN S2
  BY <1>1, <1>3
<1> QED
  BY <1>8, <1>9 DEF Watched

\* What is watched has no exit due.
LEMMA WatchedIsKept ==
  ASSUME NEW S \in Seq(ShadowTrainingSample), NEW id, NEW o, Watched(S, id, o)
  PROVE  ExitDue(o, id, S) = None
<1>1. PICK i \in DOMAIN S : PeakIs(S, id, i) /\ ~HasGivenBack(S[i], o.pnl)
  BY DEF Watched
<1>2. Peak(S, {j \in DOMAIN S : S[j].observation = id}) = i
  BY <1>1, PeakIsChosen
<1>3. ~GaveBack(o, id, S)
  BY <1>1, <1>2 DEF GaveBack
<1>4. LevelExit(o) = None
  BY DEF Watched
<1> QED
  BY <1>3, <1>4 DEF ExitDue

\* What is recorded of a row ends with a sample that shows it, and so it is as marked.
LEMMA TouchedIsMarked ==
  ASSUME NEW S \in Seq(ShadowTrainingSample), NEW S2 \in Seq(ShadowTrainingSample),
         Grown(S, S2), NEW id, NEW o, NEW o2 \in ShadowObservation, NEW t,
         Touched(S, S2, id, o, o2, t)
  PROVE  /\ \E l : LastIs(S2, id, l) /\ Shows(S2[l], o2)
         /\ AsMarked(o2, id, S2) = o2
<1>1. /\ DOMAIN S \subseteq DOMAIN S2 /\ \A j \in DOMAIN S : S2[j] = S[j]
      /\ \A i \in DOMAIN S : \A j \in DOMAIN S2 \ DOMAIN S : i < j
  BY DEF Grown
<1>2. \A i \in New(S, S2, id) : Shows(S2[i], o2)
  BY DEF Touched, Explained
<1>3. PICK l \in New(S, S2, id) : \A j \in New(S, S2, id) \ {l} : j < l
  <2>1. CASE IsOpen(o2)
    BY <2>1 DEF Touched
  <2>2. CASE ~IsOpen(o2)
    BY <2>2 DEF Touched
  <2> QED
    BY <2>1, <2>2
<1>4. l \in DOMAIN S2 \ DOMAIN S /\ S2[l].observation = id
  BY DEF New
<1>5. \A j \in DOMAIN S2 \ {l} : S2[j].observation = id => j < l
  BY <1>1, <1>3, <1>4 DEF New
<1>6. LastIs(S2, id, l) /\ Shows(S2[l], o2)
  BY <1>2, <1>4, <1>5 DEF LastIs
<1> QED
  BY <1>6, ShownIsMarked

\* What stays open in a book that advances stays watched.
LEMMA AdvanceWatched ==
  ASSUME Giveback > 0,
         NEW T \in Rows, NEW S \in Seq(ShadowTrainingSample),
         NEW T2 \in Rows, NEW S2 \in Seq(ShadowTrainingSample), NEW t,
         Advance(T, S, T2, S2, t), PathsWatched(T, S), PathsTold(T, S)
  PROVE  PathsWatched(T2, S2)
<1>1. ASSUME NEW id \in DOMAIN T, IsOpen(T2[id])
      PROVE  Watched(S2, id, AsMarked(T2[id], id, S2))
  <2>1. IsOpen(T[id]) /\ T[id] \in ShadowObservation /\ T2[id] \in ShadowObservation
    BY <1>1, AdvanceKeeps, RowsHas DEF Advance
  <2>2. PICK m : m = AsMarked(T[id], id, S)
    OBVIOUS
  <2>3. PICK m2 : m2 = AsMarked(T2[id], id, S2)
    OBVIOUS
  <2>4. Watched(S, id, m) /\ Told(S, id, m) /\ Grown(S, S2)
    BY <2>1, <2>2 DEF PathsWatched, PathsTold, Advance
  <2>5. CASE Untouched(T[id], T2[id]) /\ New(S, S2, id) = {}
    <3>1. m2.pnl = m.pnl /\ LevelExit(m2) = LevelExit(m)
      BY <2>1, <2>2, <2>3, <2>4, <2>5, FlaggedIsMarked DEF Untouched
    <3>2. Watched(S2, id, m2)
      BY <2>4, <2>5, <3>1, WatchedSame
    <3> QED
      BY <2>3, <3>2
  <2>6. CASE Touched(S, S2, id, T[id], T2[id], t)
    <3>1. /\ LevelExit(T2[id]) = None /\ ~GaveBack(T2[id], id, S)
          /\ \E k \in New(S, S2, id) : New(S, S2, id) = {k} /\ S2[k].pnl = T2[id].pnl
      BY <1>1, <2>6 DEF Touched
    <3>2. PICK k \in New(S, S2, id) : New(S, S2, id) = {k} /\ S2[k].pnl = T2[id].pnl
      BY <3>1
    <3>3. Watched(S2, id, T2[id])
      BY <2>4, <3>1, <3>2, WatchedMarked
    <3>4. AsMarked(T2[id], id, S2) = T2[id]
      BY <2>1, <2>4, <2>6, TouchedIsMarked
    <3> QED
      BY <3>3, <3>4
  <2> QED
    BY <2>5, <2>6 DEF Advance
<1> QED
  BY <1>1 DEF PathsWatched, Advance

\* That follows from its amounts.
LEMMA ValuedIsPaid ==
  ASSUME NEW o \in ShadowObservation, Valued(o)
  PROVE  Paid(o)
<1>0. SUFFICES ASSUME ~(o.quantity > 0 /\ o.notional > 0)
               PROVE  o.pnl = 0
  BY DEF Paid
<1>1. PICK e, c, q, fx : /\ e = o.entry_price /\ c = o.current_price
                         /\ q = o.quantity /\ fx = o.metadata.usd_inr
  OBVIOUS
<1>2. e \in Nat \ {0} /\ c \in Nat \ {0} /\ q \in Nat /\ fx \in Nat \ {0}
  BY <1>1 DEF ShadowObservation, Metadata
<1>3. o.notional = q * e * fx /\ o.pnl = (c - e) * q * fx
  BY <1>1 DEF Valued
<1>4. q = 0
  <2>1. SUFFICES ASSUME q # 0
                 PROVE  FALSE
    OBVIOUS
  <2>2. q * e \in Nat \ {0}
    BY <1>2, <2>1, PositiveProduct, ProductNat
  <2>3. q * e * fx > 0
    BY <1>2, <2>2, PositiveProduct
  <2> QED
    BY <1>0, <1>1, <1>2, <1>3, <2>1, <2>3
<1>5. (c - e) * 0 = 0 /\ 0 * fx = 0
  BY <1>2
<1> QED
  BY <1>3, <1>4, <1>5

\* An observation whose samples, levels and outcome stay is told as before.
LEMMA ToldSame ==
  ASSUME NEW S, NEW S2, Grown(S, S2), NEW id, New(S, S2, id) = {},
         NEW o, NEW o2, Told(S, id, o), LevelExit(o2) = LevelExit(o),
         o2.status = o.status, o2.pnl = o.pnl, o2.quantity = o.quantity,
         o2.notional = o.notional, o2.current_price = o.current_price,
         o2.last_marked_at = o.last_marked_at,
         o2.metadata.stop_loss = o.metadata.stop_loss,
         o2.metadata.take_profit = o.metadata.take_profit, Judged(o2) => Judged(o)
  PROVE  Told(S2, id, o2)
<1>1. /\ DOMAIN S \subseteq DOMAIN S2 /\ \A i \in DOMAIN S : S2[i] = S[i]
      /\ \A j \in DOMAIN S2 : S2[j].observation = id => j \in DOMAIN S
  BY DEF Grown, New
<1>2. Judged(o2) => LevelsTold(o2)
  BY DEF Told, LevelsTold
<1>3. \A i \in DOMAIN S : PeakIs(S, id, i) => PeakIs(S2, id, i)
  BY <1>1 DEF PeakIs
<1>4. Judged(o2) => PeakTold(S2, id, o2)
  BY <1>1, <1>3 DEF Told, PeakTold
<1>5. \E l : LastIs(S2, id, l) /\ Shows(S2[l], o2)
  <2>1. PICK l : LastIs(S, id, l) /\ Shows(S[l], o)
    BY DEF Told
  <2>2. l \in DOMAIN S /\ S2[l] = S[l]
    BY <1>1, <2>1 DEF LastIs
  <2>3. LastIs(S2, id, l)
    BY <1>1, <2>1, <2>2 DEF LastIs
  <2>4. Shows(S2[l], o2)
    BY <2>1, <2>2 DEF Shows
  <2> QED
    BY <2>3, <2>4
<1>6. Ordered(S2, id)
  BY <1>1 DEF Told, Ordered
<1>7. Invested(S2, id) => \A i \in DOMAIN S2 : S2[i].observation = id => Between(S2[i], o2)
  <2>1. Invested(S2, id) => Invested(S, id)
    BY <1>1 DEF Invested
  <2> QED
    BY <1>1, <2>1 DEF Told, Between
<1>8. Paid(o2)
  BY DEF Told, Paid
<1> QED
  BY <1>2, <1>4, <1>5, <1>6, <1>7, <1>8 DEF Told

\* What is recorded of a row that is marked or closed is within its levels, but for the
\* exit that is for them.
LEMMA RecordedBetween ==
  ASSUME NEW o \in ShadowObservation, LevelsTold(o),
         o.metadata.stop_loss < o.metadata.take_profit, NEW x, Shows(x, o)
  PROVE  Between(x, o)
<1>1. SUFFICES ASSUME x.quantity > 0
               PROVE  /\ o.status # "EXIT_STOP_LOSS" => o.metadata.stop_loss < x.price
                      /\ o.status # "EXIT_TAKE_PROFIT" => x.price < o.metadata.take_profit
  BY DEF Between
<1>2. x.price = o.current_price /\ x.quantity = o.quantity
  BY DEF Shows
<1>3. /\ o.current_price \in Nat /\ o.quantity \in Nat
      /\ o.metadata.stop_loss \in Nat /\ o.metadata.take_profit \in Nat
  BY DEF ShadowObservation, Metadata
<1>4. CASE o.current_price <= o.metadata.stop_loss
  <2>1. LevelExit(o) = "EXIT_STOP_LOSS"
    BY <1>1, <1>2, <1>3, <1>4 DEF LevelExit
  <2>2. o.status = "EXIT_STOP_LOSS"
    BY <2>1, ShadowAssumption DEF LevelsTold, ExitActions
  <2> QED
    BY <1>2, <1>3, <1>4, <2>2
<1>5. CASE ~(o.current_price <= o.metadata.stop_loss) /\ o.current_price >= o.metadata.take_profit
  <2>1. LevelExit(o) = "EXIT_TAKE_PROFIT"
    BY <1>1, <1>2, <1>3, <1>5 DEF LevelExit
  <2>2. o.status = "EXIT_TAKE_PROFIT"
    BY <2>1, ShadowAssumption DEF LevelsTold, ExitActions
  <2> QED
    BY <1>2, <1>3, <1>5, <2>2
<1> QED
  BY <1>2, <1>3, <1>4, <1>5

\* A profit that was given back was above what is left of it.
LEMMA GivenBackIsBelow ==
  ASSUME Giveback > 0, NEW peak \in ShadowTrainingSample, NEW pnl \in Int,
         HasGivenBack(peak, pnl)
  PROVE  pnl < peak.pnl
<1>1. peak.pnl \in Int /\ Giveback \in Nat
  <2>1. Giveback \in 0..100
    BY ShadowAssumption
  <2> QED
    BY <2>1 DEF ShadowTrainingSample
<1>2. peak.pnl \in Nat \ {0}
  BY <1>1 DEF HasGivenBack
<1>3. (peak.pnl - pnl) * 100 >= Giveback * peak.pnl
  BY DEF HasGivenBack, AtLeast
<1>4. Giveback * peak.pnl > 0 /\ Giveback * peak.pnl \in Int
  BY <1>1, <1>2, PositiveProduct
<1>5. (peak.pnl - pnl) * 100 > 0
  BY <1>1, <1>3, <1>4
<1> QED
  BY <1>1, <1>5

\* How a row was closed for its path: for a profit that was given back, or with the day.
LEMMA PathToldAtClose ==
  ASSUME Giveback > 0, NEW S \in Seq(ShadowTrainingSample), NEW S2 \in Seq(ShadowTrainingSample),
         Grown(S, S2), NEW id, NEW o \in ShadowObservation, NEW o2 \in ShadowObservation,
         NEW m, m = AsMarked(o, id, S), Watched(S, id, m), Told(S, id, m),
         Explained(S, S2, id, o, o2), Judged(o2)
  PROVE  PeakTold(S2, id, o2)
<1>1. /\ DOMAIN S \subseteq DOMAIN S2 /\ \A j \in DOMAIN S : S2[j] = S[j]
      /\ \A i \in DOMAIN S : \A j \in DOMAIN S2 \ DOMAIN S : i < j
  BY DEF Grown
<1>2. \A j \in DOMAIN S2 \ DOMAIN S : S2[j].observation = id => S2[j].pnl = o2.pnl
  BY DEF Explained, New, Shows
<1>3. PICK i \in DOMAIN S : PeakIs(S, id, i) /\ ~HasGivenBack(S[i], m.pnl)
  BY DEF Watched
<1>3a. \A k \in DOMAIN S \ {i} : S[k].observation = id =>
         \/ S[k].pnl < S[i].pnl
         \/ S[k].pnl = S[i].pnl /\ i < k
  BY <1>3 DEF PeakIs
<1>4. \A j \in DOMAIN S : S[j] \in ShadowTrainingSample /\ S[j].pnl \in Int /\ j \in Nat
  BY SampleFields
<1>5. o2.pnl \in Int
  BY DEF ShadowObservation
<1>6. ASSUME o2.pnl <= S[i].pnl
      PROVE  PeakIs(S2, id, i)
  <2>1. i \in DOMAIN S2 /\ S2[i] = S[i] /\ S[i].observation = id
    BY <1>1, <1>3 DEF PeakIs
  <2>2. ASSUME NEW j \in DOMAIN S2 \ {i}, S2[j].observation = id
        PROVE  \/ S2[j].pnl < S2[i].pnl
               \/ S2[j].pnl = S2[i].pnl /\ i < j
    <3>1. CASE j \in DOMAIN S
      <4>1. S2[j] = S[j] /\ S[j].observation = id /\ j \in DOMAIN S \ {i}
        BY <1>1, <2>2, <3>1
      <4>2. \/ S[j].pnl < S[i].pnl
            \/ S[j].pnl = S[i].pnl /\ i < j
        BY <1>3a, <4>1
      <4> QED
        BY <2>1, <4>1, <4>2
    <3>2. CASE j \notin DOMAIN S
      <4>1. i < j /\ S2[j].pnl = o2.pnl
        BY <1>1, <1>2, <2>2, <3>2
      <4> QED
        BY <1>4, <1>5, <1>6, <2>1, <4>1
    <3> QED
      BY <3>1, <3>2
  <2> QED
    BY <2>1, <2>2 DEF PeakIs
<1>7. CASE o2.status = "EXIT_PROFIT_GIVEBACK"
  <2>1. GaveBack(o2, id, S)
    BY <1>7 DEF Explained
  <2>2. Peak(S, {j \in DOMAIN S : S[j].observation = id}) = i
    BY <1>3, PeakIsChosen
  <2>3. HasGivenBack(S[i], o2.pnl)
    BY <2>1, <2>2 DEF GaveBack
  <2>4. o2.pnl < S[i].pnl
    BY <1>4, <1>5, <2>3, GivenBackIsBelow
  <2>5. PeakIs(S2, id, i) /\ S2[i] = S[i] /\ i \in DOMAIN S2
    BY <1>1, <1>4, <1>5, <1>6, <2>4
  <2> QED
    BY <1>7, <2>3, <2>5 DEF PeakTold
<1>8. CASE o2.status = "EXIT_SESSION_CLOSE"
  <2>1. o2.pnl = m.pnl
    <3>1. o2.pnl = o.pnl /\ ~o.metadata.rescaled
      BY <1>8 DEF Explained, Judged
    <3> QED
      BY <3>1, MarkedHas
  <2>2. PICK l : LastIs(S, id, l) /\ Shows(S[l], m)
    BY DEF Told
  <2>3. l \in DOMAIN S /\ S[l].observation = id /\ S[l].pnl = o2.pnl
    BY <2>1, <2>2 DEF LastIs, Shows
  <2>4. o2.pnl <= S[i].pnl
    BY <1>3, <1>4, <2>3 DEF PeakIs
  <2>5. PeakIs(S2, id, i) /\ S2[i] = S[i] /\ i \in DOMAIN S2
    BY <1>1, <1>6, <2>4
  <2>6. ~HasGivenBack(S2[i], o2.pnl)
    BY <1>3, <2>1, <2>5
  <2> QED
    BY <1>8, <2>5, <2>6 DEF PeakTold
<1> QED
  BY <1>7, <1>8 DEF PeakTold, PathExits

\* The history of a row that is marked or closed goes on from what was told of it.
LEMMA ToldTouched ==
  ASSUME Giveback > 0, NEW S \in Seq(ShadowTrainingSample), NEW S2 \in Seq(ShadowTrainingSample),
         Grown(S, S2), NEW id, NEW o \in ShadowObservation, NEW o2 \in ShadowObservation, NEW t,
         Touched(S, S2, id, o, o2, t),
         NEW m, m = AsMarked(o, id, S), Watched(S, id, m), Told(S, id, m),
         \A i \in DOMAIN S : S[i].observation = id => Fits(S[i], o)
  PROVE  Told(S2, id, o2)
<1>1. /\ DOMAIN S \subseteq DOMAIN S2 /\ \A j \in DOMAIN S : S2[j] = S[j]
      /\ \A i \in DOMAIN S : \A j \in DOMAIN S2 \ DOMAIN S : i < j
  BY DEF Grown
<1>2. /\ Explained(S, S2, id, o, o2) /\ IsOpen(o)
      /\ o.last_marked_at <= o2.last_marked_at
  BY DEF Touched
<1>3. /\ o2.metadata.stop_loss = o.metadata.stop_loss
      /\ o2.metadata.take_profit = o.metadata.take_profit
      /\ o.metadata.stop_loss < o.metadata.take_profit
  BY <1>2, MarkedHas DEF Explained, Told
<1>4. \A i \in New(S, S2, id) : Shows(S2[i], o2)
  BY <1>2 DEF Explained
<1>5. /\ \A j \in DOMAIN S : j \in Nat /\ S[j].sample_at \in Int
      /\ \A j \in DOMAIN S2 : j \in Nat /\ S2[j].sample_at \in Int
  BY SampleFields
<1>6. ASSUME Judged(o2)
      PROVE  LevelsTold(o2)
  <2>1. CASE o2.status = "EXIT_SESSION_CLOSE"
    <3>0. m = o
      BY <1>2, <1>6, <2>1, MarkedHas DEF Explained, Judged
    <3>1. LevelExit(o2) = None
      BY <1>2, <2>1, <3>0 DEF Explained, Watched
    <3> QED
      BY <2>1, <3>1 DEF LevelsTold, LevelExits
  <2>2. CASE o2.status # "EXIT_SESSION_CLOSE"
    BY <1>2, <2>2 DEF Explained
  <2> QED
    BY <2>1, <2>2
<1>7. Judged(o2) => PeakTold(S2, id, o2)
  BY <1>2, PathToldAtClose
<1>8. \E l : LastIs(S2, id, l) /\ Shows(S2[l], o2)
  BY TouchedIsMarked
<1>9. Ordered(S2, id)
  <2> SUFFICES ASSUME NEW i \in DOMAIN S2, NEW j \in DOMAIN S2,
                      S2[i].observation = id, S2[j].observation = id, i < j
               PROVE  S2[i].sample_at <= S2[j].sample_at
    BY DEF Ordered
  <2>1. \A k \in DOMAIN S2 \ DOMAIN S :
          S2[k].observation = id => S2[k].sample_at = o2.last_marked_at
    BY <1>4 DEF New, Shows
  <2>2. o.last_marked_at \in Nat /\ o2.last_marked_at \in Nat
    BY DEF ShadowObservation, Time
  <2>3. CASE i \in DOMAIN S /\ j \in DOMAIN S
    BY <1>1, <2>3 DEF Told, Ordered
  <2>4. CASE i \in DOMAIN S /\ j \notin DOMAIN S
    <3>1. S2[i].sample_at <= o.last_marked_at
      BY <1>1, <2>4 DEF Fits
    <3> QED
      BY <1>2, <1>5, <2>1, <2>2, <2>4, <3>1
  <2>5. CASE i \notin DOMAIN S /\ j \notin DOMAIN S
    BY <1>5, <2>1, <2>2, <2>5
  <2>6. CASE i \notin DOMAIN S /\ j \in DOMAIN S
    BY <1>1, <1>5, <2>6
  <2> QED
    BY <2>3, <2>4, <2>5, <2>6
<1>10. ASSUME Invested(S2, id), NEW i \in DOMAIN S2, S2[i].observation = id
       PROVE  Between(S2[i], o2)
  <2>0. /\ Invested(S, id)
        /\ o.status # "EXIT_STOP_LOSS" /\ o.status # "EXIT_TAKE_PROFIT"
        /\ m.status = o.status /\ m.metadata = o.metadata /\ m.current_price = o.current_price
    <3>1. Invested(S, id)
      BY <1>1, <1>10 DEF Invested
    <3>2. o.status # "EXIT_STOP_LOSS" /\ o.status # "EXIT_TAKE_PROFIT"
      BY <1>2 DEF IsOpen
    <3>3. m.status = o.status /\ m.metadata = o.metadata /\ m.current_price = o.current_price
      BY MarkedHas
    <3> QED
      BY <3>1, <3>2, <3>3
  <2>1. CASE i \in DOMAIN S
    <3>1. Between(S[i], m) /\ S2[i] = S[i]
      BY <1>1, <1>10, <2>0, <2>1 DEF Told
    <3> QED
      BY <1>3, <2>0, <3>1 DEF Between
  <2>2. CASE i \notin DOMAIN S
    <3>1. Shows(S2[i], o2)
      BY <1>4, <1>10, <2>2 DEF New
    <3>2. CASE Judged(o2)
      BY <1>3, <1>6, <3>1, <3>2, RecordedBetween
    <3>3. CASE ~Judged(o2)
      <4>1. S2[i].price = o.current_price
        BY <1>2, <3>1, <3>3 DEF Judged, Explained, Shows
      <4>2. PICK l : LastIs(S, id, l) /\ Shows(S[l], m)
        BY DEF Told
      <4>3. S[l].price = o.current_price /\ S[l].quantity > 0 /\ Between(S[l], m)
        BY <2>0, <4>2 DEF Told, LastIs, Shows, Invested
      <4> QED
        BY <1>3, <2>0, <4>1, <4>3 DEF Between
    <3> QED
      BY <3>2, <3>3
  <2> QED
    BY <2>1, <2>2
<1>11. Paid(o2)
  BY ValuedIsPaid DEF Touched, RowOK
<1> QED
  BY <1>3, <1>6, <1>7, <1>8, <1>9, <1>10, <1>11 DEF Told

\* The histories of a book that advances go on.
LEMMA AdvanceTold ==
  ASSUME Giveback > 0,
         NEW T \in Rows, NEW S \in Seq(ShadowTrainingSample),
         NEW T2 \in Rows, NEW S2 \in Seq(ShadowTrainingSample), NEW t,
         Advance(T, S, T2, S2, t), SamplesFit(T, S), PathsWatched(T, S), PathsTold(T, S)
  PROVE  PathsTold(T2, S2)
<1>1. ASSUME NEW id \in DOMAIN T
      PROVE  Told(S2, id, AsMarked(T2[id], id, S2))
  <2>1. T[id] \in ShadowObservation /\ T2[id] \in ShadowObservation
    BY RowsHas DEF Advance
  <2>2. PICK m : m = AsMarked(T[id], id, S)
    OBVIOUS
  <2>3. PICK m2 : m2 = AsMarked(T2[id], id, S2)
    OBVIOUS
  <2>4. Told(S, id, m) /\ Grown(S, S2)
    BY <2>2 DEF PathsTold, Advance
  <2>5. CASE Untouched(T[id], T2[id]) /\ New(S, S2, id) = {}
    <3>1. /\ m2.status = m.status /\ m2.pnl = m.pnl /\ m2.quantity = m.quantity
          /\ m2.notional = m.notional /\ m2.current_price = m.current_price
          /\ m2.last_marked_at = m.last_marked_at
          /\ m2.metadata.stop_loss = m.metadata.stop_loss
          /\ m2.metadata.take_profit = m.metadata.take_profit
          /\ LevelExit(m2) = LevelExit(m) /\ (Judged(m2) => Judged(m))
      <4>1. PICK o, o2 : o = T[id] /\ o2 = T2[id]
        OBVIOUS
      <4>2. /\ o \in ShadowObservation /\ o2 \in ShadowObservation
            /\ m = AsMarked(o, id, S) /\ m2 = AsMarked(o2, id, S2)
        BY <2>1, <2>2, <2>3, <4>1
      <4>3. (o2 = o \/ Flagged(o, o2)) /\ New(S, S2, id) = {}
        BY <2>5, <4>1 DEF Untouched
      <4> QED
        BY <2>4, <4>2, <4>3, FlaggedIsMarked
    <3>2. Told(S2, id, m2)
      BY <2>4, <2>5, <3>1, ToldSame
    <3> QED
      BY <2>3, <3>2
  <2>6. CASE Touched(S, S2, id, T[id], T2[id], t)
    <3>1. Watched(S, id, m)
      BY <2>2, <2>6 DEF Touched, PathsWatched
    <3>2. \A i \in DOMAIN S : S[i].observation = id => Fits(S[i], T[id])
      BY DEF SamplesFit
    <3>3. Told(S2, id, T2[id])
      BY <2>1, <2>2, <2>4, <2>6, <3>1, <3>2, ToldTouched
    <3>4. AsMarked(T2[id], id, S2) = T2[id]
      BY <2>1, <2>4, <2>6, TouchedIsMarked
    <3> QED
      BY <3>3, <3>4
  <2> QED
    BY <2>5, <2>6 DEF Advance
<1> QED
  BY <1>1 DEF PathsTold, Advance

\* A book that advances stays in order.
LEMMA AdvanceOK ==
  ASSUME NEW T \in Rows, NEW S \in Seq(ShadowTrainingSample),
         NEW T2 \in Rows, NEW S2 \in Seq(ShadowTrainingSample), NEW t,
         Advance(T, S, T2, S2, t), BookOK(T, S, t)
  PROVE  BookOK(T2, S2, t)
<1>1. RowsOK(T2, t)
  BY AdvanceRows DEF BookOK
<1>2. SamplesFit(T2, S2)
  BY AdvanceSamples DEF BookOK
<1>3. ExitsOK(T2, S2)
  BY AdvanceExits DEF BookOK
<1>4. OneOpen(T2)
  BY AdvanceOpen DEF BookOK
<1>5. Cooldown > 0 => Spaced(T2) /\ LosersPaused(T2)
  BY AdvanceSpaced, AdvanceLosers DEF BookOK
<1>6. Giveback > 0 => PathsWatched(T2, S2) /\ PathsTold(T2, S2)
  BY AdvanceWatched, AdvanceTold DEF BookOK
<1> QED
  BY <1>1, <1>2, <1>3, <1>4, <1>5, <1>6 DEF BookOK

-----------------------------------------------------------------------------
\* A row is opened, with its first sample: when the symbol has none open, all cooldowns
\* are over and the last observation before today was no such loser.
Opens(T, S, T2, S2, id, t) ==
  /\ id \notin DOMAIN T /\ DOMAIN T2 = DOMAIN T \cup {id}
  /\ \A k \in DOMAIN T : T2[k] = T[k]
  /\ Grown(S, S2)
  /\ \E m \in DOMAIN S2 :
       /\ DOMAIN S2 \ DOMAIN S = {m}
       /\ S2[m].observation = id /\ S2[m].kind # "SHADOW_EXIT" /\ S2[m].pnl = 0
       /\ Fits(S2[m], T2[id]) /\ Shows(S2[m], T2[id])
  /\ IsOpen(T2[id]) /\ RowOK(T2[id], t)
  /\ T2[id].metadata.stop_loss < T2[id].metadata.take_profit
  /\ T2[id].opened_at = t /\ T2[id].pnl = 0 /\ LevelExit(T2[id]) = None
  /\ \A b \in DOMAIN T :
       T[b].symbol = T2[id].symbol => ~IsOpen(T[b]) /\ T[b].last_marked_at + Cooldown <= t
  /\ Cooldown > 0 => NoLoserBefore(T, T2[id].symbol, t)

\* Rows, samples and exits of the others stay, and the new row has its sample.
LEMMA OpensExits ==
  ASSUME NEW T \in Rows, NEW S \in Seq(ShadowTrainingSample), NEW T2 \in Rows,
         NEW S2 \in Seq(ShadowTrainingSample), NEW id, NEW t, Opens(T, S, T2, S2, id, t),
         RowsOK(T, t), SamplesFit(T, S), ExitsOK(T, S)
  PROVE  RowsOK(T2, t) /\ SamplesFit(T2, S2) /\ ExitsOK(T2, S2)
<1>1. PICK m \in DOMAIN S2 :
        /\ DOMAIN S2 \ DOMAIN S = {m}
        /\ S2[m].observation = id /\ S2[m].kind # "SHADOW_EXIT" /\ S2[m].pnl = 0
        /\ Fits(S2[m], T2[id])
  BY DEF Opens
<1>2. /\ id \notin DOMAIN T /\ DOMAIN T2 = DOMAIN T \cup {id}
      /\ \A k \in DOMAIN T : T2[k] = T[k]
      /\ DOMAIN S \subseteq DOMAIN S2 /\ \A i \in DOMAIN S : S2[i] = S[i]
      /\ \A i \in DOMAIN S2 : i \in DOMAIN S \/ i = m
      /\ IsOpen(T2[id]) /\ RowOK(T2[id], t)
  BY <1>1 DEF Opens, Grown
<1>3. \A i \in DOMAIN S : S[i].observation \in DOMAIN T
  BY DEF SamplesFit
<1>4. RowsOK(T2, t)
  BY <1>2 DEF RowsOK
<1>5. SamplesFit(T2, S2)
  BY <1>1, <1>2 DEF SamplesFit
<1>6. ASSUME NEW k \in DOMAIN T, ~IsOpen(T[k])
      PROVE  \E i \in DOMAIN S2 : IsExit(S2, i, k, T2[k])
  <2>1. PICK i \in DOMAIN S : IsExit(S, i, k, T[k])
    BY <1>6 DEF ExitsOK
  <2>2. k # id /\ T2[k] = T[k]
    BY <1>2
  <2>3. IsExit(S2, i, k, T2[k])
    BY <1>1, <1>2, <2>1, <2>2 DEF IsExit
  <2> QED
    BY <1>2, <2>3
<1>7. ASSUME NEW k \in DOMAIN T, IsOpen(T[k])
      PROVE  \A i \in DOMAIN S2 : S2[i].observation = k => S2[i].kind # "SHADOW_EXIT"
  BY <1>1, <1>2, <1>7 DEF ExitsOK
<1>8. \A i \in DOMAIN S2 : S2[i].observation = id => S2[i].kind # "SHADOW_EXIT"
  BY <1>1, <1>2, <1>3
<1>9. ExitsOK(T2, S2)
  BY <1>2, <1>6, <1>7, <1>8 DEF ExitsOK
<1> QED
  BY <1>4, <1>5, <1>9

\* The new row is the latest of its symbol, and after the cooldown of each.
LEMMA OpensSpaced ==
  ASSUME NEW T \in Rows, NEW S, NEW T2 \in Rows, NEW S2, NEW id, NEW t \in Nat,
         Opens(T, S, T2, S2, id, t), RowsOK(T, t), Cooldown > 0, Spaced(T), LosersPaused(T)
  PROVE  Spaced(T2) /\ LosersPaused(T2)
<1>0. Cooldown \in Nat
  BY ShadowAssumption
<1>1. /\ id \notin DOMAIN T /\ DOMAIN T2 = DOMAIN T \cup {id}
      /\ \A k \in DOMAIN T : T2[k] = T[k]
      /\ IsOpen(T2[id]) /\ T2[id].opened_at = t
      /\ \A b \in DOMAIN T :
           T[b].symbol = T2[id].symbol => ~IsOpen(T[b]) /\ T[b].last_marked_at + Cooldown <= t
      /\ NoLoserBefore(T, T2[id].symbol, t)
  BY DEF Opens
<1>2. \A b \in DOMAIN T : /\ T[b].opened_at \in Nat /\ T[b].last_marked_at \in Nat
                          /\ T[b].opened_at <= T[b].last_marked_at
  BY RowsHas DEF ShadowObservation, Time, RowsOK, RowOK
<1>3. Spaced(T2)
  <2>1. ASSUME NEW a \in DOMAIN T, T[a].symbol = T2[id].symbol
        PROVE  T[a].opened_at < t /\ ~IsOpen(T[a]) /\ t >= T[a].last_marked_at + Cooldown
    BY <1>0, <1>1, <1>2, <2>1
  <2>2. ASSUME NEW a \in DOMAIN T2, NEW b \in DOMAIN T2, a # b, T2[a].symbol = T2[b].symbol
        PROVE  /\ IsOpen(T2[b]) => T2[a].opened_at < T2[b].opened_at
               /\ ~IsOpen(T2[b]) /\ T2[b].opened_at <= T2[a].opened_at
                    => T2[a].opened_at >= T2[b].last_marked_at + Cooldown
    <3>1. CASE a \in DOMAIN T /\ b \in DOMAIN T
      BY <1>1, <2>2, <3>1 DEF Spaced
    <3>2. CASE a = id /\ b \in DOMAIN T
      BY <1>1, <2>1, <2>2, <3>2
    <3>3. CASE b = id /\ a \in DOMAIN T
      BY <1>1, <2>1, <2>2, <3>3
    <3> QED
      BY <1>1, <2>2, <3>1, <3>2, <3>3
  <2> QED
    BY <2>2 DEF Spaced
<1>4. \A symbol, at : Before(T2, symbol, at) = Before(T, symbol, at)
  BY <1>1 DEF Before
<1>5. ASSUME NEW symbol, NEW at, NoLoserBefore(T, symbol, at)
      PROVE  NoLoserBefore(T2, symbol, at)
  <2>1. \A b \in Before(T, symbol, at) : T2[b] = T[b]
    BY <1>1 DEF Before
  <2> QED
    BY <1>4, <1>5, <2>1 DEF NoLoserBefore
<1>6. LosersPaused(T2)
  BY <1>1, <1>5 DEF LosersPaused
<1> QED
  BY <1>3, <1>6

\* Nothing is given back of the first sample.
LEMMA OpensWatched ==
  ASSUME NEW T \in Rows, NEW S \in Seq(ShadowTrainingSample), NEW T2 \in Rows,
         NEW S2 \in Seq(ShadowTrainingSample), NEW id, NEW t, Opens(T, S, T2, S2, id, t),
         SamplesFit(T, S), PathsWatched(T, S), PathsTold(T, S)
  PROVE  PathsWatched(T2, S2)
<1>1. PICK m \in DOMAIN S2 :
        /\ DOMAIN S2 \ DOMAIN S = {m}
        /\ S2[m].observation = id /\ S2[m].pnl = 0 /\ Shows(S2[m], T2[id])
  BY DEF Opens
<1>2. /\ id \notin DOMAIN T /\ DOMAIN T2 = DOMAIN T \cup {id}
      /\ \A k \in DOMAIN T : T2[k] = T[k]
      /\ Grown(S, S2)
      /\ T2[id].pnl = 0 /\ LevelExit(T2[id]) = None
  BY DEF Opens
<1>3. \A j \in DOMAIN S2 : S2[j].observation = id => j = m
  BY <1>1, <1>2 DEF SamplesFit, Grown
<1>4. Watched(S2, id, AsMarked(T2[id], id, S2))
  <2>0. AsMarked(T2[id], id, S2) = T2[id]
    <3>1. LastIs(S2, id, m)
      BY <1>1, <1>3 DEF LastIs
    <3>2. T2[id] \in ShadowObservation
      BY <1>2, RowsHas
    <3> QED
      BY <1>1, <3>1, <3>2, ShownIsMarked
  <2>1. PeakIs(S2, id, m)
    BY <1>1, <1>3 DEF PeakIs
  <2>2. S2[m] \in ShadowTrainingSample /\ 0 \in Int
    BY SampleFields
  <2>3. ~HasGivenBack(S2[m], 0)
    BY <1>1, <2>2, NothingGivenBack
  <2> QED
    BY <1>1, <1>2, <2>0, <2>1, <2>3 DEF Watched
<1>5. ASSUME NEW k \in DOMAIN T, IsOpen(T[k])
      PROVE  Watched(S2, k, AsMarked(T2[k], k, S2))
  <2>1. New(S, S2, k) = {} /\ T2[k] = T[k] /\ T[k] \in ShadowObservation
    BY <1>1, <1>2, RowsHas DEF New
  <2>2. PICK o : o = AsMarked(T[k], k, S)
    OBVIOUS
  <2>3. PICK o2 : o2 = AsMarked(T2[k], k, S2)
    OBVIOUS
  <2>4. Watched(S, k, o) /\ Told(S, k, o)
    BY <1>5, <2>2 DEF PathsWatched, PathsTold
  <2>5. o2.pnl = o.pnl /\ LevelExit(o2) = LevelExit(o)
    BY <1>2, <2>1, <2>2, <2>3, <2>4, FlaggedIsMarked
  <2>6. Watched(S2, k, o2)
    BY <1>2, <2>1, <2>4, <2>5, WatchedSame
  <2> QED
    BY <2>3, <2>6
<1> QED
  BY <1>2, <1>4, <1>5 DEF PathsWatched

\* The history of a new row begins with its first sample.
LEMMA OpensTold ==
  ASSUME NEW T \in Rows, NEW S \in Seq(ShadowTrainingSample), NEW T2 \in Rows,
         NEW S2 \in Seq(ShadowTrainingSample), NEW id, NEW t, Opens(T, S, T2, S2, id, t),
         SamplesFit(T, S), PathsTold(T, S)
  PROVE  PathsTold(T2, S2)
<1>1. PICK m \in DOMAIN S2 :
        /\ DOMAIN S2 \ DOMAIN S = {m}
        /\ S2[m].observation = id /\ Shows(S2[m], T2[id])
  BY DEF Opens
<1>2. /\ id \notin DOMAIN T /\ DOMAIN T2 = DOMAIN T \cup {id}
      /\ \A k \in DOMAIN T : T2[k] = T[k]
      /\ Grown(S, S2) /\ LevelExit(T2[id]) = None /\ IsOpen(T2[id])
      /\ T2[id].metadata.stop_loss < T2[id].metadata.take_profit /\ Paid(T2[id])
  BY DEF Opens, Paid
<1>3. \A j \in DOMAIN S2 : S2[j].observation = id => j = m
  BY <1>1, <1>2 DEF SamplesFit, Grown
<1>4. Told(S2, id, AsMarked(T2[id], id, S2))
  <2>0. T2[id] \in ShadowObservation
    BY <1>2, RowsHas
  <2>1. LevelsTold(T2[id]) /\ PeakTold(S2, id, T2[id])
    BY <1>2 DEF IsOpen, LevelsTold, LevelExits, PeakTold, PathExits
  <2>2. LastIs(S2, id, m)
    BY <1>1, <1>3 DEF LastIs
  <2>3. m \in Nat
    BY ElementOf
  <2>4. Ordered(S2, id)
    BY <1>3, <2>3 DEF Ordered
  <2>5. Between(S2[m], T2[id])
    BY <1>1, <1>2, <2>0, <2>1, RecordedBetween
  <2>6. Told(S2, id, T2[id])
    BY <1>1, <1>2, <1>3, <2>1, <2>2, <2>4, <2>5 DEF Told
  <2> QED
    BY <1>1, <2>0, <2>2, <2>6, ShownIsMarked
<1>5. ASSUME NEW k \in DOMAIN T
      PROVE  Told(S2, k, AsMarked(T2[k], k, S2))
  <2>1. New(S, S2, k) = {} /\ T2[k] = T[k] /\ T[k] \in ShadowObservation
    BY <1>1, <1>2, RowsHas DEF New
  <2>2. PICK o : o = AsMarked(T[k], k, S)
    OBVIOUS
  <2>3. PICK o2 : o2 = AsMarked(T2[k], k, S2)
    OBVIOUS
  <2>4. Told(S, k, o)
    BY <2>2 DEF PathsTold
  <2>5. /\ o2.status = o.status /\ o2.pnl = o.pnl /\ o2.quantity = o.quantity
        /\ o2.notional = o.notional /\ o2.current_price = o.current_price
        /\ o2.last_marked_at = o.last_marked_at
        /\ o2.metadata.stop_loss = o.metadata.stop_loss
        /\ o2.metadata.take_profit = o.metadata.take_profit
        /\ LevelExit(o2) = LevelExit(o) /\ (Judged(o2) => Judged(o))
    <3>1. PICK row : row = T[k]
      OBVIOUS
    <3>2. /\ row \in ShadowObservation /\ New(S, S2, k) = {}
          /\ o = AsMarked(row, k, S) /\ o2 = AsMarked(row, k, S2)
      BY <2>1, <2>2, <2>3, <3>1
    <3> QED
      BY <1>2, <2>4, <3>2, FlaggedIsMarked
  <2>6. Told(S2, k, o2)
    BY <1>2, <2>1, <2>4, <2>5, ToldSame
  <2> QED
    BY <2>3, <2>6
<1> QED
  BY <1>2, <1>4, <1>5 DEF PathsTold

\* A book in which a row is opened stays in order.
LEMMA OpensOK ==
  ASSUME NEW T \in Rows, NEW S \in Seq(ShadowTrainingSample),
         NEW T2 \in Rows, NEW S2 \in Seq(ShadowTrainingSample), NEW id, NEW t \in Nat,
         Opens(T, S, T2, S2, id, t), BookOK(T, S, t)
  PROVE  BookOK(T2, S2, t)
<1>1. RowsOK(T2, t) /\ SamplesFit(T2, S2) /\ ExitsOK(T2, S2)
  BY OpensExits DEF BookOK
<1>2. OneOpen(T2)
  BY DEF BookOK, OneOpen, Opens
<1>3. Cooldown > 0 => Spaced(T2) /\ LosersPaused(T2)
  BY OpensSpaced DEF BookOK
<1>4. Giveback > 0 => PathsWatched(T2, S2) /\ PathsTold(T2, S2)
  BY OpensWatched, OpensTold DEF BookOK
<1> QED
  BY <1>1, <1>2, <1>3, <1>4 DEF BookOK

\* A book stays in order while time passes.
LEMMA LaterOK ==
  ASSUME NEW T \in Rows, NEW S, NEW t \in Nat, BookOK(T, S, t)
  PROVE  BookOK(T, S, t + 1)
<1>1. \A id \in DOMAIN T : T[id].last_marked_at \in Nat
  BY RowsHas DEF ShadowObservation, Time
<1>2. DayStart(t) \in Nat /\ DayStart(t + 1) \in Nat /\ DayStart(t) <= DayStart(t + 1)
  <2>1. t + 1 \in Nat
    OBVIOUS
  <2> QED
    BY <2>1, DayLaws, DayGrows
<1>3. RowsOK(T, t + 1)
  BY <1>1, <1>2 DEF BookOK, RowsOK, RowOK
<1> QED
  BY <1>3 DEF BookOK

-----------------------------------------------------------------------------
(***************************************************************************)
(* The entry rules.                                                        *)
(***************************************************************************)
\* Both markets have symbols of their own.
LEMMA OneMarket ==
  ASSUME NEW m \in Markets, NEW n \in Markets, NEW symbol,
         symbol \in ToSet(Watchlist[m]), symbol \in ToSet(Watchlist[n])
  PROVE  m = n
<1>1. ToSet(Watchlist["INDIA"]) \cap ToSet(Watchlist["US"]) = {}
  BY ShadowAssumption
<1> QED
  BY <1>1 DEF Markets

\* Of an empty set there is no later sample.
LEMMA LatestOne ==
  ASSUME NEW S, NEW P, NEW i \in P,
         \A j \in P : ~(\/ S[j].sample_at > S[i].sample_at
                        \/ S[j].sample_at = S[i].sample_at /\ j > i)
  PROVE  i \in Latest(S, P, 1)
<1>1. {j \in P : \/ S[j].sample_at > S[i].sample_at
                 \/ S[j].sample_at = S[i].sample_at /\ j > i} = {}
  OBVIOUS
<1>2. Cardinality({}) < 1
  BY FS_EmptySet
<1> QED
  BY <1>1, <1>2 DEF Latest

\* The pause looks at the latest sample of the sessions before; it is the exit of the
\* observation that ended last in them.
LEMMA LoserIsSeen ==
  ASSUME NEW T \in Rows, NEW S \in Seq(ShadowTrainingSample), now \in Nat,
         BookOK(T, S, now), Cooldown > 0,
         NEW market \in Markets, NEW symbol \in ToSet(Watchlist[market]),
         \A b \in DOMAIN T : T[b].symbol = symbol => ~IsOpen(T[b]),
         ~PreviousSessionPaused(S, market, symbol)
  PROVE  NoLoserBefore(T, symbol, now)
<1> DEFINE first == DayStart(now) - PreviousDays * TicksPerDay
           previous == {i \in Sized(S, market) : /\ S[i].symbol = symbol
                                                 /\ S[i].sample_at >= first
                                                 /\ S[i].sample_at < DayStart(now)}
<1>0. Cooldown \in Nat /\ PreviousDays \in Nat /\ TicksPerDay \in Nat
  BY ShadowAssumption
<1>1. DayStart(now) \in Nat /\ first \in Int
  BY <1>0, DayLaws
<1>2. \A id \in DOMAIN T : /\ T[id].opened_at \in Nat /\ T[id].last_marked_at \in Nat
                           /\ T[id].market \in Markets
                           /\ T[id].opened_at <= T[id].last_marked_at
                           /\ DayStart(T[id].last_marked_at) = DayStart(T[id].opened_at)
                           /\ T[id].symbol \in ToSet(Watchlist[T[id].market])
  BY RowsHas DEF ShadowObservation, Time, BookOK, RowsOK, RowOK
<1>3. SUFFICES ASSUME NEW b \in Before(T, symbol, now), T[b].quantity > 0,
                      \A c \in Before(T, symbol, now) : T[c].last_marked_at <= T[b].last_marked_at
               PROVE  ~Lost(T[b].pnl, T[b].notional, PreviousLoss, PreviousLossPct)
  BY DEF NoLoserBefore
<1>4. /\ b \in DOMAIN T /\ T[b].symbol = symbol /\ ~IsOpen(T[b])
      /\ first <= T[b].opened_at /\ T[b].opened_at < DayStart(now)
  BY <1>1, <1>2 DEF Before
<1>5. PICK i \in DOMAIN S : IsExit(S, i, b, T[b])
  BY <1>4 DEF BookOK, ExitsOK
<1>6. /\ S[i].observation = b /\ S[i].pnl = T[b].pnl /\ S[i].quantity = T[b].quantity
      /\ S[i].notional = T[b].notional /\ S[i].sample_at = T[b].last_marked_at
      /\ \A j \in DOMAIN S : S[j].observation = b => j <= i
  BY <1>5, SampleFields DEF IsExit
<1>7. S[i].market = market /\ S[i].symbol = symbol
  <2>1. S[i].market = T[b].market /\ S[i].symbol = T[b].symbol
    BY <1>6 DEF BookOK, SamplesFit, Fits
  <2>2. T[b].market = market
    BY <1>2, <1>4, OneMarket
  <2> QED
    BY <1>4, <2>1, <2>2
<1>8. first <= S[i].sample_at /\ S[i].sample_at < DayStart(now)
  <2>1. first <= T[b].last_marked_at
    BY <1>1, <1>2, <1>4
  <2>2. DayStart(T[b].opened_at) + TicksPerDay <= DayStart(now)
    BY <1>2, <1>4, EarlierDay
  <2>3. T[b].last_marked_at < DayStart(T[b].opened_at) + TicksPerDay
    BY <1>2, <1>4, DayLaws
  <2>4. DayStart(T[b].opened_at) \in Nat
    BY <1>2, <1>4, DayLaws
  <2> QED
    BY <1>0, <1>1, <1>2, <1>4, <1>6, <2>1, <2>2, <2>3, <2>4
<1>9. i \in previous
  BY <1>3, <1>6, <1>7, <1>8 DEF Sized
<1>10. ASSUME NEW j \in previous,
              \/ S[j].sample_at > S[i].sample_at
              \/ S[j].sample_at = S[i].sample_at /\ j > i
       PROVE  FALSE
  <2>1. /\ j \in DOMAIN S /\ S[j].symbol = symbol /\ first <= S[j].sample_at
        /\ S[j].sample_at < DayStart(now) /\ S[j].sample_at \in Int /\ j \in Nat /\ i \in Nat
    BY <1>1, SampleFields DEF Sized
  <2>2. PICK c \in DOMAIN T : c = S[j].observation /\ Fits(S[j], T[c])
    BY <2>1 DEF BookOK, SamplesFit
  <2>3. /\ T[c].symbol = symbol /\ T[c].opened_at <= S[j].sample_at
        /\ S[j].sample_at <= T[c].last_marked_at /\ ~IsOpen(T[c])
    BY <2>1, <2>2 DEF Fits
  <2>4. T[c].opened_at \in Nat /\ T[c].last_marked_at \in Nat /\ T[b].last_marked_at \in Nat
    BY <1>2, <1>4
  <2>5. DayStart(S[j].sample_at) = DayStart(T[c].opened_at) /\ S[j].sample_at \in Nat
    <3>1. S[j].sample_at \in Nat
      BY <2>1, <2>3, <2>4
    <3>2. DayStart(T[c].last_marked_at) <= S[j].sample_at
      <4>1. /\ DayStart(T[c].last_marked_at) = DayStart(T[c].opened_at)
            /\ DayStart(T[c].opened_at) <= T[c].opened_at /\ DayStart(T[c].opened_at) \in Nat
        BY <1>2, <2>4, DayLaws
      <4> QED
        BY <2>3, <2>4, <3>1, <4>1
    <3>3. DayStart(S[j].sample_at) = DayStart(T[c].last_marked_at)
      BY <3>1, <3>2, <2>3, <2>4, SameDay
    <3> QED
      BY <1>2, <3>1, <3>3
  <2>6. first <= T[c].opened_at
    <3>1. first <= DayStart(S[j].sample_at)
      BY <1>0, <2>1, <2>5, DaysBefore
    <3>2. DayStart(T[c].opened_at) <= T[c].opened_at /\ DayStart(T[c].opened_at) \in Nat
      BY <2>4, DayLaws
    <3> QED
      BY <1>1, <2>4, <2>5, <3>1, <3>2
  <2>7. c \in Before(T, symbol, now)
    BY <1>1, <2>1, <2>3, <2>4, <2>6 DEF Before
  <2>8. T[c].last_marked_at <= T[b].last_marked_at
    BY <1>3, <2>7
  <2>9. S[j].sample_at = S[i].sample_at /\ j > i /\ T[c].last_marked_at = T[b].last_marked_at
    BY <1>6, <1>10, <2>1, <2>3, <2>4, <2>8
  <2>10. c # b
    BY <1>6, <2>1, <2>2, <2>9
  <2>11. Spaced(T)
    BY DEF BookOK
  <2>12. /\ T[b].opened_at <= T[b].last_marked_at /\ T[c].opened_at <= T[c].last_marked_at
         /\ T[b].opened_at \in Nat
    BY <1>2, <1>4
  <2>13. CASE T[b].opened_at <= T[c].opened_at
    <3>1. T[c].opened_at >= T[b].last_marked_at + Cooldown
      BY <1>4, <2>3, <2>10, <2>11, <2>13 DEF Spaced
    <3> QED
      BY <1>0, <2>4, <2>9, <2>12, <3>1
  <2>14. CASE T[c].opened_at <= T[b].opened_at
    <3>1. T[b].opened_at >= T[c].last_marked_at + Cooldown
      BY <1>4, <2>3, <2>10, <2>11, <2>14 DEF Spaced
    <3> QED
      BY <1>0, <2>4, <2>9, <2>12, <3>1
  <2> QED
    BY <2>4, <2>12, <2>13, <2>14
<1>11. i \in Latest(S, previous, 1)
  BY <1>9, <1>10, LatestOne
<1>12. ~Lost(S[i].pnl, S[i].notional, PreviousLoss, PreviousLossPct)
  BY <1>11 DEF PreviousSessionPaused
<1> QED
  BY <1>6, <1>12

-----------------------------------------------------------------------------
(***************************************************************************)
(* What the steps of a session do to its book.                             *)
(***************************************************************************)
\* A table with the rows of another in place of its own, or added.
Merged(T2, T, rows) ==
  /\ DOMAIN T2 = DOMAIN T \cup DOMAIN rows
  /\ \A id \in DOMAIN rows : T2[id] = rows[id]
  /\ \A id \in DOMAIN T \ DOMAIN rows : T2[id] = T[id]

\* What a session changed is what the table has, when nobody else wrote.
LEMMA TableIs ==
  ASSUME observations \in Rows, NEW s, SessionOK(s, DOMAIN observations), LoadedSound(s)
  PROVE  Table(s) \in Rows /\ Merged(Table(s), observations, s.rows)
<1>1. /\ Table(s) \in Rows
      /\ DOMAIN Table(s) = DOMAIN observations \cup DOMAIN s.rows
  BY TableType
<1>2. s.rows \in Rows
  BY DEF SessionOK, Session
<1>3. \A current, after \in ShadowObservation : Write(current, current, after) = after
  BY DEF Write, ShadowObservation
<1>4. ASSUME NEW id \in DOMAIN s.rows
      PROVE  Table(s)[id] = s.rows[id]
  <2>1. Table(s)[id] = IF id \notin DOMAIN s.loaded THEN s.rows[id]
                       ELSE Write(observations[id], s.loaded[id], s.rows[id])
    BY DEF Table
  <2>2. CASE id \in DOMAIN s.loaded
    <3>1. id \in DOMAIN observations /\ s.loaded[id] = observations[id]
      BY <2>2 DEF LoadedSound
    <3>2. observations[id] \in ShadowObservation /\ s.rows[id] \in ShadowObservation
      BY <1>2, <3>1, RowsHas
    <3> QED
      BY <1>3, <2>1, <2>2, <3>1, <3>2
  <2> QED
    BY <2>1, <2>2
<1>5. \A id \in DOMAIN observations \ DOMAIN s.rows : Table(s)[id] = observations[id]
  BY DEF Table
<1> QED
  BY <1>1, <1>4, <1>5 DEF Merged

\* The samples of a session are of their type.
LEMMA SamplesType ==
  ASSUME TypeInv, NEW s, SessionOK(s, DOMAIN observations)
  PROVE  Samples(s) \in Seq(ShadowTrainingSample)
<1>1. s.samples \in Seq(ShadowTrainingSample) /\ samples \in Seq(ShadowTrainingSample)
  BY DEF SessionOK, Session, TypeInv
<1> QED
  BY <1>1 DEF Samples

\* What is appended to what was appended is appended.
LEMMA Associative ==
  ASSUME NEW x \in Seq(ShadowTrainingSample), NEW y \in Seq(ShadowTrainingSample),
         NEW z \in Seq(ShadowTrainingSample)
  PROVE  (x \o y) \o z = x \o (y \o z)
  BY ConcatAssociative

\* A table that has a row changed, or added.
HasRow(T, T2, id, row) ==
  /\ DOMAIN T2 = DOMAIN T \cup {id}
  /\ T2[id] = row
  /\ \A k \in DOMAIN T : k # id => T2[k] = T[k]

\* A session that has a row changed, or added, and samples recorded.
Adds(s, w, id, row, recorded) ==
  /\ HasRow(Table(s), Table(w), id, row)
  /\ Samples(w) = Samples(s) \o recorded

\* A row put into a session is put into its table, with its samples at the end.
LEMMA WithRowView ==
  ASSUME TypeInv, NEW s, SessionOK(s, DOMAIN observations), LoadedSound(s), s.todo # << >>,
         NEW w, NEW id \in Nat, NEW row \in ShadowObservation,
         NEW recorded \in Seq(ShadowTrainingSample),
         w = NextSymbol(WithRow(s, id, row, recorded))
  PROVE  /\ SessionOK(w, DOMAIN observations) /\ LoadedSound(w)
         /\ Adds(s, w, id, row, recorded)
<1>1. /\ SessionOK(w, DOMAIN observations)
      /\ w.rows = Put(s.rows, id, row)
      /\ w.loaded = IF id \in DOMAIN s.rows \/ id \notin DOMAIN observations THEN s.loaded
                    ELSE Put(s.loaded, id, observations[id])
      /\ w.samples = s.samples \o recorded
      /\ DOMAIN w.rows = DOMAIN s.rows \cup {id}
  BY WithRowType
<1>2. /\ observations \in Rows /\ s.rows \in Rows /\ s.loaded \in Rows
      /\ s.samples \in Seq(ShadowTrainingSample) /\ samples \in Seq(ShadowTrainingSample)
  BY DEF TypeInv, SessionOK, Session
<1>3. w.rows[id] = row /\ \A k \in DOMAIN s.rows : k # id => w.rows[k] = s.rows[k]
  <2>1. PICK f \in Rows : f = s.rows
    BY <1>2
  <2>2. Put(f, id, row)[id] = row /\ \A k \in DOMAIN f : k # id => Put(f, id, row)[k] = f[k]
    BY PutType, ZenonT(60)
  <2> QED
    BY <1>1, <2>1, <2>2
<1>4. LoadedSound(w)
  <2>1. CASE id \in DOMAIN s.rows \/ id \notin DOMAIN observations
    BY <1>1, <2>1 DEF LoadedSound
  <2>2. CASE id \notin DOMAIN s.rows /\ id \in DOMAIN observations
    <3>1. PICK current \in ShadowObservation : current = observations[id]
      BY <1>2, <2>2, RowsHas
    <3>2. PICK f \in Rows : f = s.loaded /\ w.loaded = Put(f, id, current)
      BY <1>1, <1>2, <2>2, <3>1
    <3>2a. /\ DOMAIN Put(f, id, current) = DOMAIN f \cup {id}
           /\ Put(f, id, current)[id] = current
           /\ \A k \in DOMAIN f : k # id => Put(f, id, current)[k] = f[k]
      BY PutType, ZenonT(60)
    <3>3. /\ DOMAIN w.loaded = DOMAIN s.loaded \cup {id}
          /\ w.loaded[id] = current
          /\ \A k \in DOMAIN s.loaded : k # id => w.loaded[k] = s.loaded[k]
      BY <3>2, <3>2a
    <3> QED
      BY <1>1, <2>2, <3>1, <3>3 DEF LoadedSound
  <2> QED
    BY <2>1, <2>2
<1>5. /\ DOMAIN Table(s) = DOMAIN observations \cup DOMAIN s.rows
      /\ \A k \in DOMAIN s.rows : Table(s)[k] = s.rows[k]
      /\ \A k \in DOMAIN observations \ DOMAIN s.rows : Table(s)[k] = observations[k]
  BY <1>2, TableIs DEF Merged
<1>6. /\ DOMAIN Table(w) = DOMAIN observations \cup DOMAIN w.rows
      /\ \A k \in DOMAIN w.rows : Table(w)[k] = w.rows[k]
      /\ \A k \in DOMAIN observations \ DOMAIN w.rows : Table(w)[k] = observations[k]
  BY <1>1, <1>2, <1>4, TableIs DEF Merged
<1>7. Samples(w) = Samples(s) \o recorded
  <2>1. (samples \o s.samples) \o recorded = samples \o (s.samples \o recorded)
    BY <1>2, Associative
  <2> QED
    BY <1>1, <2>1 DEF Samples
<1>8. HasRow(Table(s), Table(w), id, row)
  BY <1>1, <1>3, <1>5, <1>6 DEF HasRow
<1> QED
  BY <1>1, <1>4, <1>7, <1>8 DEF Adds

\* One sample is appended.
LEMMA AppendOne ==
  ASSUME NEW X, NEW S \in Seq(X), NEW x \in X
  PROVE  /\ Grown(S, S \o <<x>>)
         /\ DOMAIN (S \o <<x>>) \ DOMAIN S = {Len(S) + 1}
         /\ (S \o <<x>>)[Len(S) + 1] = x
         /\ S \o <<x>> \in Seq(X)
<1>1. Len(S) \in Nat /\ DOMAIN S = 1..Len(S)
  OBVIOUS
<1>2. /\ DOMAIN (S \o <<x>>) = 1..(Len(S) + 1)
      /\ (S \o <<x>>)[Len(S) + 1] = x
      /\ \A i \in 1..Len(S) : (S \o <<x>>)[i] = S[i]
      /\ S \o <<x>> \in Seq(X)
  OBVIOUS
<1> QED
  BY <1>1, <1>2 DEF Grown

\* Two are appended likewise.
LEMMA AppendTwo ==
  ASSUME NEW X, NEW S \in Seq(X), NEW x \in X, NEW y \in X
  PROVE  /\ Grown(S, S \o <<x, y>>)
         /\ DOMAIN (S \o <<x, y>>) \ DOMAIN S = {Len(S) + 1, Len(S) + 2}
         /\ (S \o <<x, y>>)[Len(S) + 1] = x /\ (S \o <<x, y>>)[Len(S) + 2] = y
         /\ S \o <<x, y>> \in Seq(X)
<1>1. Len(S) \in Nat /\ DOMAIN S = 1..Len(S)
  OBVIOUS
<1>2. /\ DOMAIN (S \o <<x, y>>) = 1..(Len(S) + 2)
      /\ (S \o <<x, y>>)[Len(S) + 1] = x /\ (S \o <<x, y>>)[Len(S) + 2] = y
      /\ \A i \in 1..Len(S) : (S \o <<x, y>>)[i] = S[i]
      /\ S \o <<x, y>> \in Seq(X)
  OBVIOUS
<1> QED
  BY <1>1, <1>2 DEF Grown

\* What marking changes, and what it keeps.
LEMMA MarkedFields ==
  ASSUME NEW o \in ShadowObservation, NEW quote, NEW fx, NEW budget, NEW o2,
         o2 = Marked(o, quote, fx, budget)
  PROVE  /\ o2.market = o.market /\ o2.symbol = o.symbol /\ o2.opened_at = o.opened_at
         /\ o2.status = o.status /\ o2.last_marked_at = now
         /\ o2.metadata.stop_loss = o.metadata.stop_loss
         /\ o2.metadata.take_profit = o.metadata.take_profit
         /\ o2.entry_price = o.entry_price /\ Valued(o2)
<1> DEFINE quantity == Quantity(budget, o.entry_price, fx)
<1>1. o2 = [o EXCEPT !.quantity = quantity,
               !.notional = quantity * o.entry_price * fx,
               !.current_price = quote.price,
               !.last_marked_at = now,
               !.pnl = (quote.price - o.entry_price) * quantity * fx,
               !.metadata.usd_inr = fx,
               !.metadata.latest = quote.price]
  BY DEF Marked
<1> HIDE DEF quantity
<1>2. /\ o2.market = o.market /\ o2.symbol = o.symbol /\ o2.opened_at = o.opened_at
      /\ o2.status = o.status /\ o2.last_marked_at = now
      /\ o2.entry_price = o.entry_price /\ o2.current_price = quote.price
      /\ o2.quantity = quantity /\ o2.notional = quantity * o.entry_price * fx
      /\ o2.pnl = (quote.price - o.entry_price) * quantity * fx
      /\ o2.metadata = [[o.metadata EXCEPT !.usd_inr = fx] EXCEPT !.latest = quote.price]
  BY <1>1 DEF ShadowObservation
<1>3. o.metadata \in Metadata
  BY DEF ShadowObservation
<1>4. /\ o2.metadata.usd_inr = fx
      /\ o2.metadata.stop_loss = o.metadata.stop_loss
      /\ o2.metadata.take_profit = o.metadata.take_profit
  BY <1>2, <1>3 DEF Metadata
<1>5. Valued(o2)
  BY <1>2, <1>4 DEF Valued, quantity
<1> QED
  BY <1>2, <1>4, <1>5

\* What closing changes, and what it keeps.
LEMMA ClosedFields ==
  ASSUME NEW o \in ShadowObservation, NEW action \in ExitActions, NEW t,
         NEW o2, o2 = Closed(o, action, t)
  PROVE  /\ o2.market = o.market /\ o2.symbol = o.symbol /\ o2.opened_at = o.opened_at
         /\ o2.last_marked_at = o.last_marked_at
         /\ o2.pnl = o.pnl /\ o2.quantity = o.quantity /\ o2.notional = o.notional
         /\ o2.current_price = o.current_price /\ o2.status = action
         /\ o2.metadata.stop_loss = o.metadata.stop_loss
         /\ o2.metadata.take_profit = o.metadata.take_profit
         /\ o2.entry_price = o.entry_price /\ (Valued(o) => Valued(o2))
         /\ o2.metadata.rescaled = o.metadata.rescaled
         /\ LevelExit(o2) = LevelExit(o)
         /\ ~IsOpen(o2)
         /\ o2.metadata.reentry_blocked_until = t + Cooldown
<1>1. /\ o2.market = o.market /\ o2.symbol = o.symbol /\ o2.opened_at = o.opened_at
      /\ o2.last_marked_at = o.last_marked_at
      /\ o2.pnl = o.pnl /\ o2.quantity = o.quantity /\ o2.notional = o.notional
      /\ o2.current_price = o.current_price /\ o2.entry_price = o.entry_price
      /\ o2.status = action
      /\ o2.metadata = [o.metadata EXCEPT !.reentry_blocked_until = t + Cooldown]
  BY DEF Closed, ShadowObservation
<1>2. o.metadata \in Metadata
  BY DEF ShadowObservation
<1>3. /\ o2.metadata.reentry_blocked_until = t + Cooldown
      /\ o2.metadata.stop_loss = o.metadata.stop_loss
      /\ o2.metadata.take_profit = o.metadata.take_profit
      /\ o2.metadata.usd_inr = o.metadata.usd_inr
      /\ o2.metadata.rescaled = o.metadata.rescaled
  BY <1>1, <1>2 DEF Metadata
<1>4. ~IsOpen(o2)
  BY <1>1 DEF IsOpen, ExitActions
<1>5. LevelExit(o2) = LevelExit(o)
  BY <1>1, <1>3 DEF LevelExit
<1>6. Valued(o) => Valued(o2)
  BY <1>1, <1>3 DEF Valued
<1> QED
  BY <1>1, <1>3, <1>4, <1>5, <1>6

\* The samples of a row.
LEMMA SampleIs ==
  ASSUME NEW id, NEW o, NEW kind, NEW t
  PROVE  LET x == Sample(id, o, kind, t)
         IN /\ x.observation = id /\ x.market = o.market /\ x.symbol = o.symbol
            /\ x.sample_at = t /\ x.pnl = o.pnl /\ x.quantity = o.quantity
            /\ x.notional = o.notional /\ x.kind = kind /\ x.price = o.current_price
  BY DEF Sample

\* A row that stays open after its mark.
LEMMA TouchedOpen ==
  ASSUME NEW S, NEW S2, NEW id, NEW o, NEW o2, NEW t, NEW m,
         DOMAIN S2 \ DOMAIN S = {m}, S2[m].observation = id,
         S2[m].kind # "SHADOW_EXIT", S2[m].pnl = o2.pnl, Fits(S2[m], o2),
         IsOpen(o), IsOpen(o2), RowOK(o2, t), o.last_marked_at <= o2.last_marked_at,
         PastSame(o, o2, DayStart(t)), Explained(S, S2, id, o, o2),
         o2.market = o.market, o2.symbol = o.symbol, o2.opened_at = o.opened_at,
         LevelExit(o2) = None, ~GaveBack(o2, id, S)
  PROVE  /\ Touched(S, S2, id, o, o2, t)
         /\ \A i \in DOMAIN S2 \ DOMAIN S : S2[i].observation = id
<1>1. New(S, S2, id) = {m}
  BY DEF New
<1> QED
  BY <1>1 DEF Touched

\* The exit is the last of what is recorded of a row.
ExitLast(S, S2, id, e, o) ==
  /\ e \in New(S, S2, id)
  /\ \A j \in New(S, S2, id) \ {e} : j < e /\ S2[j].kind # "SHADOW_EXIT" /\ Fits(S2[j], o)
  /\ S2[e].kind = "SHADOW_EXIT" /\ S2[e].pnl = o.pnl /\ S2[e].quantity = o.quantity
  /\ S2[e].notional = o.notional /\ S2[e].sample_at = o.last_marked_at
  /\ Fits(S2[e], o)

\* A row that is closed with its exit, after its mark if it has one.
LEMMA TouchedClosed ==
  ASSUME NEW S, NEW S2, NEW id, NEW o, NEW o2, NEW t, NEW e, ExitLast(S, S2, id, e, o2),
         IsOpen(o), ~IsOpen(o2), RowOK(o2, t), o.last_marked_at <= o2.last_marked_at,
         PastSame(o, o2, DayStart(t)), Explained(S, S2, id, o, o2),
         o2.market = o.market, o2.symbol = o.symbol, o2.opened_at = o.opened_at
  PROVE  Touched(S, S2, id, o, o2, t)
  BY DEF Touched, ExitLast

\* A book in which one open row is marked, and closed when an exit is due.
LEMMA MarkAdvance ==
  ASSUME NEW T \in Rows, NEW S \in Seq(ShadowTrainingSample), NEW T2, NEW S2,
         now \in Time, NEW id \in DOMAIN T, IsOpen(T[id]), RowOK(T[id], now),
         DayStart(now) <= T[id].opened_at,
         NEW quote \in Quotes, NEW fx \in Nat \ {0}, NEW budget \in Nat \ {0},
         NEW o \in ShadowObservation, o = Marked(T[id], quote, fx, budget),
         NEW action \in ExitActions \cup {None}, action = ExitDue(o, id, S),
         NEW row, row = IF action = None THEN o ELSE Closed(o, action, now),
         NEW mark, mark = Sample(id, o, "INTRADAY_MARK", now),
         NEW exit, exit = Sample(id, o, "SHADOW_EXIT", now),
         DOMAIN T2 = DOMAIN T, T2[id] = row, \A k \in DOMAIN T : k # id => T2[k] = T[k],
         S2 = S \o IF action = None THEN <<mark>> ELSE <<mark, exit>>
  PROVE  Advance(T, S, T2, S2, now)
<1>2. id \in Nat /\ T[id] \in ShadowObservation /\ now \in Nat
  BY RowsHas, ShadowAssumption DEF Time
<1>5. /\ o.market = T[id].market /\ o.symbol = T[id].symbol /\ o.opened_at = T[id].opened_at
      /\ IsOpen(o) /\ o.last_marked_at = now /\ Valued(o)
  BY <1>2, MarkedFields DEF IsOpen
<1>7. /\ T[id].opened_at \in Nat /\ T[id].last_marked_at \in Nat
      /\ T[id].opened_at <= T[id].last_marked_at /\ T[id].last_marked_at <= now
      /\ T[id].symbol \in ToSet(Watchlist[T[id].market])
  BY <1>2 DEF RowOK, ShadowObservation, Time
<1>8. DayStart(T[id].opened_at) = DayStart(now) /\ T[id].opened_at <= now
  <2>1. T[id].opened_at <= now
    BY <1>2, <1>7
  <2> QED
    BY <1>2, <1>7, <2>1, SameDay
<1>9. \A o2 : PastSame(T[id], o2, DayStart(now))
  <2>1. DayStart(now) \in Nat
    BY <1>2, DayLaws
  <2>2. ~(T[id].last_marked_at < DayStart(now))
    BY <1>7, <2>1
  <2> QED
    BY <2>2 DEF PastSame
<1>12. mark \in ShadowTrainingSample /\ exit \in ShadowTrainingSample
  BY <1>2, SampleType
<1>13. /\ mark.observation = id /\ mark.kind = "INTRADAY_MARK" /\ mark.pnl = o.pnl
       /\ Fits(mark, o)
       /\ exit.observation = id /\ exit.kind = "SHADOW_EXIT" /\ exit.pnl = o.pnl
       /\ exit.quantity = o.quantity /\ exit.notional = o.notional /\ exit.sample_at = now
       /\ Fits(exit, o)
  BY <1>2, <1>5, <1>8, SampleIs DEF Fits
<1>16. Valued(o) /\ o.entry_price < o.metadata.take_profit
  BY <1>2, MarkedFields DEF RowOK
<1>17. RowOK(o, now)
  BY <1>2, <1>5, <1>7, <1>8, <1>16 DEF RowOK, IsOpen
<1>17a. /\ o.metadata.stop_loss = T[id].metadata.stop_loss
        /\ o.metadata.take_profit = T[id].metadata.take_profit
        /\ Shows(mark, o) /\ Shows(exit, o)
  <2>1. /\ o.metadata.stop_loss = T[id].metadata.stop_loss
        /\ o.metadata.take_profit = T[id].metadata.take_profit
    BY <1>2, MarkedFields
  <2>2. Shows(mark, o) /\ Shows(exit, o)
    BY <1>5, SampleIs DEF Shows
  <2> QED
    BY <2>1, <2>2
<1>18. /\ Grown(S, S2)
       /\ \A i \in DOMAIN S2 \ DOMAIN S : S2[i].observation = id
       /\ Touched(S, S2, id, T[id], T2[id], now)
  <2>1. CASE action = None
    <3>1. S2 = S \o <<mark>> /\ T2[id] = o
      BY <2>1
    <3>2. PICK m : m = Len(S) + 1
      OBVIOUS
    <3>3. /\ Grown(S, S2) /\ DOMAIN S2 \ DOMAIN S = {m} /\ S2[m] = mark
      BY <1>12, <3>1, <3>2, AppendOne
    <3>5. LevelExit(o) = None /\ ~GaveBack(o, id, S)
      BY <2>1, ShadowAssumption DEF ExitDue, ExitActions
    <3>6. "INTRADAY_MARK" # "SHADOW_EXIT"
      OBVIOUS
    <3>7. /\ S2[m].observation = id /\ S2[m].kind # "SHADOW_EXIT" /\ S2[m].pnl = o.pnl
          /\ Fits(S2[m], o)
      BY <1>13, <3>3, <3>6
    <3>8. T[id].last_marked_at <= o.last_marked_at
      BY <1>5, <1>7
    <3>8a. PastSame(T[id], o, DayStart(now))
      BY <1>9
    <3>8b. Explained(S, S2, id, T[id], o)
      <4>1. New(S, S2, id) = {m}
        BY <3>3, <3>7 DEF New
      <4>2. Shows(S2[m], o)
        BY <1>17a, <3>3
      <4>3. o.status = "OPEN_OBSERVATION"
        BY <1>5 DEF IsOpen
      <4>4. LevelsTold(o)
        BY <3>5, <4>3 DEF LevelsTold, LevelExits
      <4> QED
        BY <1>17a, <4>1, <4>2, <4>3, <4>4 DEF Explained
    <3>8c. IsOpen(T[id])
      BY <1>2
    <3>9. /\ Touched(S, S2, id, T[id], o, now)
          /\ \A i \in DOMAIN S2 \ DOMAIN S : S2[i].observation = id
      <4>1. DOMAIN S2 \ DOMAIN S = {m}
        BY <3>3
      <4> QED
        BY <1>5, <1>17, <3>5, <3>7, <3>8, <3>8a, <3>8b, <3>8c, <4>1, TouchedOpen, ZenonT(60)
    <3> QED
      BY <3>1, <3>3, <3>9
  <2>2. CASE action # None
    <3>1. S2 = S \o <<mark, exit>> /\ T2[id] = Closed(o, action, now) /\ action \in ExitActions
      BY <2>2
    <3>2. PICK o2 : o2 = Closed(o, action, now) /\ o2 = T2[id]
      BY <3>1
    <3>3. /\ o2.market = o.market /\ o2.symbol = o.symbol /\ o2.opened_at = o.opened_at
          /\ o2.last_marked_at = now
          /\ o2.pnl = o.pnl /\ o2.quantity = o.quantity /\ o2.notional = o.notional
          /\ o2.current_price = o.current_price /\ o2.status = action
          /\ o2.metadata.stop_loss = o.metadata.stop_loss
          /\ o2.metadata.take_profit = o.metadata.take_profit
          /\ o2.entry_price = o.entry_price /\ (Valued(o) => Valued(o2))
          /\ LevelExit(o2) = LevelExit(o)
          /\ ~IsOpen(o2)
          /\ o2.metadata.reentry_blocked_until = now + Cooldown
      BY <1>5, <3>1, <3>2, ClosedFields
    <3>4. PICK m, e : m = Len(S) + 1 /\ e = Len(S) + 2
      OBVIOUS
    <3>5. /\ Grown(S, S2) /\ DOMAIN S2 \ DOMAIN S = {m, e} /\ S2[m] = mark /\ S2[e] = exit
      BY <1>12, <3>1, <3>4, AppendTwo
    <3>6. m < e
      <4>1. Len(S) \in Nat
        OBVIOUS
      <4> QED
        BY <3>4, <4>1
    <3>7. /\ e \in New(S, S2, id)
          /\ \A j \in New(S, S2, id) \ {e} : j = m
          /\ \A i \in DOMAIN S2 \ DOMAIN S : S2[i].observation = id
      <4>1. e \in DOMAIN S2 \ DOMAIN S /\ S2[e].observation = id
        BY <1>13, <3>5
      <4>2. \A i \in DOMAIN S2 \ DOMAIN S : i = m \/ i = e
        BY <3>5
      <4>3. S2[m].observation = id
        BY <1>13, <3>5
      <4> QED
        BY <4>1, <4>2, <4>3 DEF New
    <3>7a. o2.status # "EXIT_SESSION_CLOSE"
      BY <2>2, <3>3 DEF ExitDue, LevelExit
    <3>8. RowOK(o2, now)
      BY <1>2, <1>5, <1>7, <1>8, <1>16, <3>3, <3>7a DEF RowOK
    <3>9. Fits(mark, o2) /\ Fits(exit, o2)
      BY <1>5, <1>13, <3>3 DEF Fits
    <3>10. "INTRADAY_MARK" # "SHADOW_EXIT"
      OBVIOUS
    <3>11. \A j \in New(S, S2, id) \ {e} : j < e /\ S2[j].kind # "SHADOW_EXIT" /\ Fits(S2[j], o2)
      BY <1>13, <3>5, <3>6, <3>7, <3>9, <3>10, ZenonT(60)
    <3>12. /\ S2[e].kind = "SHADOW_EXIT" /\ S2[e].pnl = o2.pnl /\ S2[e].quantity = o2.quantity
           /\ S2[e].notional = o2.notional /\ S2[e].sample_at = o2.last_marked_at
           /\ Fits(S2[e], o2)
      BY <1>13, <3>3, <3>5, <3>9, ZenonT(60)
    <3>13. /\ o2.market = T[id].market /\ o2.symbol = T[id].symbol
           /\ o2.opened_at = T[id].opened_at /\ T[id].last_marked_at <= o2.last_marked_at
      BY <1>5, <1>7, <3>3
    <3>14. ExitLast(S, S2, id, e, o2)
      BY <3>7, <3>11, <3>12 DEF ExitLast
    <3>14a. PastSame(T[id], o2, DayStart(now))
      BY <1>9
    <3>14b. Explained(S, S2, id, T[id], o2)
      <4>1. Shows(S2[m], o2) /\ Shows(S2[e], o2)
        BY <1>5, <1>17a, <3>3, <3>5, ZenonT(60) DEF Shows
      <4>2. New(S, S2, id) # {} /\ \A i \in New(S, S2, id) : Shows(S2[i], o2)
        BY <3>7, <4>1
      <4>3. CASE LevelExit(o) # None
        <5>1. action = LevelExit(o) /\ action \in LevelExits
          BY <4>3 DEF ExitDue, LevelExit, LevelExits
        <5>2. LevelsTold(o2)
          BY <3>3, <5>1 DEF LevelsTold
        <5>3. action # "EXIT_SESSION_CLOSE" /\ action # "EXIT_PROFIT_GIVEBACK"
          BY <5>1 DEF LevelExits
        <5> QED
          BY <1>17a, <3>3, <4>2, <5>2, <5>3 DEF Explained
      <4>4. CASE LevelExit(o) = None
        <5>1. action = "EXIT_PROFIT_GIVEBACK" /\ GaveBack(o, id, S)
          BY <2>2, <4>4 DEF ExitDue
        <5>2. GaveBack(o2, id, S)
          BY <3>3, <5>1 DEF GaveBack
        <5>3. LevelsTold(o2) /\ action # "EXIT_SESSION_CLOSE"
          BY <3>3, <4>4, <5>1 DEF LevelsTold, LevelExits
        <5> QED
          BY <1>17a, <3>3, <4>2, <5>2, <5>3 DEF Explained
      <4> QED
        BY <4>3, <4>4
    <3>15. Touched(S, S2, id, T[id], o2, now)
      BY <3>3, <3>8, <3>13, <3>14, <3>14a, <3>14b, TouchedClosed
    <3> QED
      BY <3>2, <3>5, <3>7, <3>15
  <2> QED
    BY <2>1, <2>2
<1>20. \A k \in DOMAIN T : k # id => New(S, S2, k) = {}
  BY <1>18 DEF New
<1> QED
  BY <1>18, <1>20 DEF Advance, Untouched

\* A row that a session records is put into its table, with its samples.
LEMMA RecordView ==
  ASSUME TypeInv, NEW s, SessionOK(s, DOMAIN observations), LoadedSound(s), s.todo # << >>,
         NEW id \in Nat, NEW o \in ShadowObservation,
         NEW w, w = NextSymbol(Record(s, id, o))
  PROVE  /\ SessionOK(w, DOMAIN observations) /\ LoadedSound(w)
         /\ Adds(s, w, id, RowAfter(s, id, o), Recorded(s, id, o))
<1>1. now \in Time
  BY DEF TypeInv
<1>2. PICK row \in ShadowObservation : row = RowAfter(s, id, o)
  BY <1>1, RecordedType
<1>3. PICK recorded \in Seq(ShadowTrainingSample) : recorded = Recorded(s, id, o)
  BY <1>1, RecordedType
<1>4. w = NextSymbol(WithRow(s, id, row, recorded))
  BY <1>2, <1>3, RecordIsWithRow
<1>5. SessionOK(w, DOMAIN observations) /\ LoadedSound(w) /\ Adds(s, w, id, row, recorded)
  BY <1>4, WithRowView
<1> QED
  BY <1>2, <1>3, <1>5

\* Marking an open row advances the book.
LEMMA MarkAdvances ==
  ASSUME TypeInv, NEW s, SessionOK(s, DOMAIN observations), SessionInv(s), s.todo # << >>,
         NEW quote \in Quotes, NEW id \in DOMAIN Table(s), IsOpen(Table(s)[id]),
         NEW w, w = NextSymbol(Record(s, id, Marked(Table(s)[id], quote, s.fx, s.budget)))
  PROVE  /\ SessionOK(w, DOMAIN observations) /\ LoadedSound(w)
         /\ Advance(Table(s), Samples(s), Table(w), Samples(w), now)
<1>1. PICK T \in Rows, S \in Seq(ShadowTrainingSample) : T = Table(s) /\ S = Samples(s)
  BY TableType, SamplesType DEF TypeInv
<1>2. id \in DOMAIN T /\ id \in Nat /\ T[id] \in ShadowObservation /\ IsOpen(T[id]) /\ now \in Time
  BY <1>1, RowsHas DEF TypeInv
<1>3. PICK fx \in Nat \ {0}, budget \in Nat \ {0} : fx = s.fx /\ budget = s.budget
  BY HeadSymbol
<1>4. PICK o \in ShadowObservation : o = Marked(T[id], quote, fx, budget)
  BY <1>2, <1>3, MarkedType
<1>5. w = NextSymbol(Record(s, id, o)) /\ LoadedSound(s)
  BY <1>1, <1>3, <1>4 DEF SessionInv
<1>6. RowOK(T[id], now) /\ DayStart(now) <= T[id].opened_at
  BY <1>1, <1>2 DEF SessionInv, OfToday, BookOK, RowsOK
<1>7. PICK action \in ExitActions \cup {None} : action = ExitDue(o, id, S)
  BY ExitDueType
<1>8. PICK T2, S2 : T2 = Table(w) /\ S2 = Samples(w)
  OBVIOUS
<1>9. PICK mark, exit : /\ mark = Sample(id, o, "INTRADAY_MARK", now)
                       /\ exit = Sample(id, o, "SHADOW_EXIT", now)
  OBVIOUS
<1>10. PICK row : row = IF action = None THEN o ELSE Closed(o, action, now)
  OBVIOUS
<1>11. /\ SessionOK(w, DOMAIN observations) /\ LoadedSound(w)
       /\ Adds(s, w, id, RowAfter(s, id, o), Recorded(s, id, o))
  BY <1>2, <1>5, RecordView
<1>12. /\ RowAfter(s, id, o) = row
       /\ Recorded(s, id, o) = IF action = None THEN <<mark>> ELSE <<mark, exit>>
  BY <1>1, <1>7, <1>9, <1>10 DEF RowAfter, Recorded
<1>12a. HasRow(T, T2, id, row)
  BY <1>1, <1>8, <1>11, <1>12 DEF Adds
<1>13. /\ DOMAIN T2 = DOMAIN T /\ T2[id] = row /\ \A k \in DOMAIN T : k # id => T2[k] = T[k]
       /\ S2 = S \o IF action = None THEN <<mark>> ELSE <<mark, exit>>
  BY <1>1, <1>2, <1>8, <1>11, <1>12, <1>12a DEF HasRow, Adds
<1>14. Advance(T, S, T2, S2, now)
  BY <1>2, <1>4, <1>6, <1>7, <1>9, <1>10, <1>13, MarkAdvance, ZenonT(60)
<1> QED
  BY <1>1, <1>8, <1>11, <1>14

-----------------------------------------------------------------------------
\* What is appended is new, and nothing else is.
LEMMA AppendMany ==
  ASSUME NEW S \in Seq(ShadowTrainingSample), NEW q \in Seq(ShadowTrainingSample),
         NEW S2, S2 = S \o q
  PROVE  /\ S2 \in Seq(ShadowTrainingSample) /\ Grown(S, S2)
         /\ \A j \in DOMAIN S2 \ DOMAIN S :
              j - Len(S) \in 1..Len(q) /\ S2[j] = q[j - Len(S)]
         /\ \A i \in 1..Len(q) :
              Len(S) + i \in DOMAIN S2 \ DOMAIN S /\ S2[Len(S) + i] = q[i]
<1>1. /\ S2 \in Seq(ShadowTrainingSample) /\ Len(S) \in Nat /\ Len(q) \in Nat
      /\ DOMAIN S = 1..Len(S) /\ DOMAIN q = 1..Len(q)
      /\ DOMAIN S2 = 1..(Len(S) + Len(q))
      /\ \A i \in DOMAIN S : S2[i] = S[i]
      /\ \A i \in DOMAIN q : S2[Len(S) + i] = q[i]
  BY Appended
<1>2. Grown(S, S2)
  BY <1>1 DEF Grown
<1>3. ASSUME NEW i \in 1..Len(q)
      PROVE  Len(S) + i \in DOMAIN S2 \ DOMAIN S /\ S2[Len(S) + i] = q[i]
  BY <1>1
<1>4. ASSUME NEW j \in DOMAIN S2 \ DOMAIN S
      PROVE  j - Len(S) \in 1..Len(q) /\ S2[j] = q[j - Len(S)]
  <2>1. j \in Int /\ j - Len(S) \in 1..Len(q)
    BY <1>1
  <2>2. PICK i \in 1..Len(q) : i = j - Len(S)
    BY <2>1
  <2>3. j = Len(S) + i
    BY <1>1, <2>1, <2>2
  <2> QED
    BY <1>3, <2>1, <2>2, <2>3
<1> QED
  BY <1>1, <1>2, <1>3, <1>4

\* The last mark of a stale row was on its day, and so the exit is at the time of it.
LEMMA StaleAtLastMark ==
  ASSUME now \in Nat, NEW o \in ShadowObservation, RowOK(o, now), o.opened_at < DayStart(now)
  PROVE  /\ Min({o.last_marked_at, DayStart(now) - 1}) = o.last_marked_at
         /\ o.last_marked_at < DayStart(now)
<1>1. o.opened_at \in Nat /\ o.last_marked_at \in Nat /\ DayStart(now) \in Nat /\ TicksPerDay \in Nat
  BY DayLaws, ShadowAssumption DEF ShadowObservation, Time
<1>2. DayStart(o.last_marked_at) = DayStart(o.opened_at)
  BY DEF RowOK
<1>3. DayStart(o.opened_at) + TicksPerDay <= DayStart(now)
  BY <1>1, EarlierDay
<1>4. /\ o.last_marked_at < DayStart(o.last_marked_at) + TicksPerDay
      /\ DayStart(o.last_marked_at) \in Nat
  BY <1>1, DayLaws
<1>5. o.last_marked_at <= DayStart(now) - 1
  BY <1>1, <1>2, <1>3, <1>4
<1> QED
  BY <1>1, <1>5, MinOfTwo

\* The exit of a stale row closes it as its last mark left it.
LEMMA StaleExitFields ==
  ASSUME now \in Nat, NEW o \in ShadowObservation, RowOK(o, now), o.opened_at < DayStart(now),
         NEW id, NEW o2, o2 = StaleExit(o),
         NEW x, x = Sample(id, o, "SHADOW_EXIT", Min({o.last_marked_at, DayStart(now) - 1}))
  PROVE  /\ o2.market = o.market /\ o2.symbol = o.symbol /\ o2.opened_at = o.opened_at
         /\ o2.last_marked_at = o.last_marked_at /\ ~IsOpen(o2) /\ RowOK(o2, now)
         /\ o2.pnl = o.pnl /\ o2.notional = o.notional /\ o2.status = "EXIT_SESSION_CLOSE"
         /\ o2.current_price = o.current_price /\ o2.metadata.rescaled = o.metadata.rescaled
         /\ o2.metadata.stop_loss = o.metadata.stop_loss
         /\ o2.metadata.take_profit = o.metadata.take_profit
         /\ LevelExit(o2) = LevelExit(o) /\ Shows(x, o2)
         /\ x.observation = id /\ x.kind = "SHADOW_EXIT"
         /\ x.pnl = o2.pnl /\ x.quantity = o2.quantity /\ x.notional = o2.notional
         /\ x.sample_at = o2.last_marked_at /\ Fits(x, o2)
<1>1. o2 = Closed(o, "EXIT_SESSION_CLOSE", o.last_marked_at)
  BY StaleAtLastMark DEF StaleExit
<1>2. x = Sample(id, o, "SHADOW_EXIT", o.last_marked_at)
  BY StaleAtLastMark
<1>3. /\ o2.market = o.market /\ o2.symbol = o.symbol /\ o2.opened_at = o.opened_at
      /\ o2.last_marked_at = o.last_marked_at
      /\ o2.pnl = o.pnl /\ o2.quantity = o.quantity /\ o2.notional = o.notional
      /\ o2.current_price = o.current_price /\ o2.status = "EXIT_SESSION_CLOSE"
      /\ o2.metadata.stop_loss = o.metadata.stop_loss
      /\ o2.metadata.take_profit = o.metadata.take_profit
      /\ o2.entry_price = o.entry_price /\ (Valued(o) => Valued(o2))
      /\ o2.metadata.rescaled = o.metadata.rescaled
      /\ LevelExit(o2) = LevelExit(o)
      /\ ~IsOpen(o2)
      /\ o2.metadata.reentry_blocked_until = o.last_marked_at + Cooldown
  BY <1>1, ClosedFields DEF ExitActions
<1>4. /\ x.observation = id /\ x.market = o.market /\ x.symbol = o.symbol
      /\ x.sample_at = o.last_marked_at /\ x.pnl = o.pnl /\ x.quantity = o.quantity
      /\ x.notional = o.notional /\ x.kind = "SHADOW_EXIT" /\ x.price = o.current_price
  BY <1>2, SampleIs
<1>5. o.last_marked_at \in Nat
  BY DEF ShadowObservation, Time
<1>5a. o.last_marked_at < DayStart(now)
  BY StaleAtLastMark
<1>6. RowOK(o2, now)
  BY <1>3, <1>5a DEF RowOK
<1>7. Fits(x, o2)
  BY <1>3, <1>4, <1>5 DEF Fits, RowOK
<1>8. Shows(x, o2)
  BY <1>3, <1>4 DEF Shows
<1> QED
  BY <1>3, <1>4, <1>6, <1>7, <1>8

\* A cycle begins by closing what is stale, which advances the book.
LEMMA CloseStaleAdvances ==
  ASSUME TypeInv, BookOK(observations, samples, now), NEW budget \in Nat \ {0},
         NEW w, w = CloseStale(NewSession(<<"INDIA", "US">>, budget))
  PROVE  /\ SessionOK(w, DOMAIN observations) /\ LoadedSound(w) /\ OfToday(w)
         /\ Advance(observations, samples, Table(w), Samples(w), now)
<1>1. /\ SessionOK(w, DOMAIN observations)
      /\ w.rows = [id \in Stale |-> StaleExit(observations[id])]
      /\ w.loaded = [id \in Stale |-> observations[id]]
      /\ w.samples = SetToSeq(StaleSamples)
  BY CloseStaleType
<1>2. observations \in Rows /\ samples \in Seq(ShadowTrainingSample) /\ now \in Nat
  BY ShadowAssumption DEF TypeInv, Time
<1>3. /\ Stale \subseteq DOMAIN observations
      /\ DOMAIN w.rows = Stale /\ DOMAIN w.loaded = Stale
      /\ \A id \in Stale : w.rows[id] = StaleExit(observations[id]) /\ w.loaded[id] = observations[id]
  BY <1>1 DEF Stale
<1>4. LoadedSound(w)
  BY <1>3 DEF LoadedSound
<1>5. PICK T \in Rows : T = observations
  BY <1>2
<1>6. PICK T2 \in Rows : T2 = Table(w)
  BY <1>1, <1>2, TableType
<1>7. /\ DOMAIN T2 = DOMAIN T
      /\ \A id \in Stale : T2[id] = StaleExit(T[id])
      /\ \A id \in DOMAIN T \ Stale : T2[id] = T[id]
  <2>1. /\ DOMAIN Table(w) = DOMAIN observations \cup DOMAIN w.rows
        /\ \A id \in DOMAIN w.rows : Table(w)[id] = w.rows[id]
        /\ \A id \in DOMAIN observations \ DOMAIN w.rows : Table(w)[id] = observations[id]
    BY <1>1, <1>2, <1>4, TableIs DEF Merged
  <2> QED
    BY <1>3, <1>5, <1>6, <2>1
<1>8. /\ \A id \in Stale : /\ id \in DOMAIN T /\ T[id] \in ShadowObservation /\ IsOpen(T[id])
                           /\ T[id].opened_at < DayStart(now) /\ RowOK(T[id], now)
      /\ \A id \in DOMAIN T \ Stale : IsOpen(T[id]) => ~(T[id].opened_at < DayStart(now))
  BY <1>5, RowsHas DEF Stale, BookOK, RowsOK
<1>9. PICK q \in Seq(ShadowTrainingSample) : q = SetToSeq(StaleSamples) /\ q = w.samples
  BY <1>1 DEF SessionOK, Session
<1>10. /\ \A x \in StaleSamples : \E i \in 1..Len(q) : q[i] = x
       /\ \A i, j \in 1..Len(q) : q[i] = q[j] => i = j
       /\ \A i \in 1..Len(q) : q[i] \in StaleSamples
  <2>1. IsFiniteSet(StaleSamples)
    BY StaleFinite
  <2>2. /\ SetToSeq(StaleSamples) \in Seq(StaleSamples)
        /\ Len(SetToSeq(StaleSamples)) = Cardinality(StaleSamples)
        /\ \A x \in StaleSamples : \E i \in 1..Cardinality(StaleSamples) : SetToSeq(StaleSamples)[i] = x
        /\ \A i, j \in 1..Cardinality(StaleSamples) :
             SetToSeq(StaleSamples)[i] = SetToSeq(StaleSamples)[j] => i = j
    BY <2>1, SetToSeqHasItsSet
  <2>3. q \in Seq(StaleSamples)
    BY <1>9, <2>2
  <2>4. \A i \in 1..Len(q) : q[i] \in StaleSamples
    BY <2>3
  <2> QED
    BY <1>9, <2>2, <2>4
<1>11. PICK S \in Seq(ShadowTrainingSample) : S = samples
  BY <1>2
<1>12. PICK S2 : S2 = S \o q /\ S2 = Samples(w)
  BY <1>9, <1>11 DEF Samples
<1>13. /\ S2 \in Seq(ShadowTrainingSample) /\ Grown(S, S2)
       /\ \A j \in DOMAIN S2 \ DOMAIN S :
            j - Len(S) \in 1..Len(q) /\ S2[j] = q[j - Len(S)]
       /\ \A i \in 1..Len(q) :
            Len(S) + i \in DOMAIN S2 \ DOMAIN S /\ S2[Len(S) + i] = q[i]
  BY <1>12, AppendMany, ZenonT(60)
<1>14. \A id \in Stale : StaleSample(id).observation = id
  BY DEF StaleSample, Sample
<1>15. ASSUME NEW j \in DOMAIN S2 \ DOMAIN S
       PROVE  \E id \in Stale : S2[j] = StaleSample(id) /\ S2[j].observation = id
  <2>1. S2[j] \in StaleSamples
    BY <1>10, <1>13
  <2> QED
    BY <1>14, <2>1 DEF StaleSamples
<1>16. ASSUME NEW id \in DOMAIN T \ Stale
       PROVE  Untouched(T[id], T2[id]) /\ New(S, S2, id) = {}
  <2>1. T2[id] = T[id]
    BY <1>7
  <2>2. \A j \in DOMAIN S2 \ DOMAIN S : S2[j].observation # id
    BY <1>15
  <2> QED
    BY <2>1, <2>2 DEF Untouched, New
<1>17. ASSUME NEW id \in Stale
       PROVE  Touched(S, S2, id, T[id], T2[id], now)
  <2>1. PICK x : x = StaleSample(id)
    OBVIOUS
  <2>2. x \in StaleSamples
    BY <2>1 DEF StaleSamples
  <2>3. PICK i \in 1..Len(q) : q[i] = x
    BY <1>10, <2>2
  <2>4. PICK e : e = Len(S) + i
    OBVIOUS
  <2>5. e \in DOMAIN S2 \ DOMAIN S /\ S2[e] = x
    BY <1>13, <2>3, <2>4
  <2>6. PICK o \in ShadowObservation : o = T[id]
    BY <1>8
  <2>7. PICK o2 : o2 = T2[id]
    OBVIOUS
  <2>8. /\ o2 = StaleExit(o) /\ RowOK(o, now) /\ o.opened_at < DayStart(now) /\ IsOpen(o)
        /\ x = Sample(id, o, "SHADOW_EXIT", Min({o.last_marked_at, DayStart(now) - 1}))
    BY <1>5, <1>7, <1>8, <2>1, <2>6, <2>7 DEF StaleSample
  <2>9. /\ o2.market = o.market /\ o2.symbol = o.symbol /\ o2.opened_at = o.opened_at
        /\ o2.last_marked_at = o.last_marked_at /\ ~IsOpen(o2) /\ RowOK(o2, now)
        /\ o2.pnl = o.pnl /\ o2.notional = o.notional /\ o2.status = "EXIT_SESSION_CLOSE"
        /\ o2.current_price = o.current_price /\ o2.metadata.rescaled = o.metadata.rescaled
        /\ o2.metadata.stop_loss = o.metadata.stop_loss
        /\ o2.metadata.take_profit = o.metadata.take_profit
        /\ LevelExit(o2) = LevelExit(o) /\ Shows(x, o2)
        /\ x.observation = id /\ x.kind = "SHADOW_EXIT"
        /\ x.pnl = o2.pnl /\ x.quantity = o2.quantity /\ x.notional = o2.notional
        /\ x.sample_at = o2.last_marked_at /\ Fits(x, o2)
    BY <1>2, <2>8, StaleExitFields
  <2>10. e \in New(S, S2, id)
    BY <2>5, <2>9 DEF New
  <2>11. ASSUME NEW j \in New(S, S2, id)
         PROVE  j = e
    <3>1. j \in DOMAIN S2 \ DOMAIN S /\ S2[j].observation = id
      BY <2>11 DEF New
    <3>2. S2[j] = x
      BY <1>15, <2>1, <3>1
    <3>3. j - Len(S) \in 1..Len(q) /\ q[j - Len(S)] = x
      BY <1>13, <3>1, <3>2
    <3>4. j - Len(S) = i
      BY <1>10, <2>3, <3>3
    <3>5. j \in DOMAIN S2 /\ Len(S) \in Nat
      BY <3>1
    <3>6. S2 \in Seq(ShadowTrainingSample)
      BY <1>13
    <3>7. j \in Nat
      BY <3>5, <3>6, ElementOf
    <3> QED
      BY <2>4, <3>4, <3>5, <3>7
  <2>12. ExitLast(S, S2, id, e, o2)
    BY <2>5, <2>9, <2>10, <2>11 DEF ExitLast
  <2>13. o.last_marked_at <= o2.last_marked_at
    BY <2>9 DEF ShadowObservation, Time
  <2>14. PastSame(o, o2, DayStart(now))
    <3>1. ResizedLate(o) => ResizedLate(o2)
      BY <2>9 DEF ResizedLate
    <3> QED
      BY <2>9, <3>1 DEF PastSame
  <2>15. Explained(S, S2, id, o, o2)
    <3>1. New(S, S2, id) = {e}
      BY <2>10, <2>11
    <3>2. Shows(S2[e], o2)
      BY <2>5, <2>9
    <3> QED
      BY <2>9, <3>1, <3>2 DEF Explained
  <2> QED
    BY <2>6, <2>7, <2>8, <2>9, <2>12, <2>13, <2>14, <2>15, TouchedClosed
<1>18. Advance(T, S, T2, S2, now)
  <2>1. \A i \in DOMAIN S2 \ DOMAIN S : S2[i].observation \in DOMAIN T
    BY <1>8, <1>15
  <2> QED
    BY <1>7, <1>13, <1>16, <1>17, <2>1 DEF Advance
<1>19. OfToday(w)
  <2>1. ASSUME NEW id \in DOMAIN T2, IsOpen(T2[id])
        PROVE  DayStart(now) <= T2[id].opened_at
    <3>1. id \notin Stale
      <4>1. ASSUME id \in Stale
            PROVE  FALSE
        <5>1. T[id].last_marked_at \in Int /\ StaleExit(T[id]).status = "EXIT_SESSION_CLOSE"
          BY <1>8, <4>1 DEF ShadowObservation, Time, StaleExit, Closed
        <5> QED
          BY <1>7, <2>1, <4>1, <5>1 DEF IsOpen
      <4> QED
        BY <4>1
    <3>2. id \in DOMAIN T /\ T2[id] = T[id] /\ ~(T[id].opened_at < DayStart(now))
      BY <1>7, <1>8, <2>1, <3>1
    <3>3. T[id].opened_at \in Nat /\ DayStart(now) \in Nat
      BY <1>2, <3>2, RowsHas, DayLaws DEF ShadowObservation, Time
    <3> QED
      BY <3>2, <3>3
  <2> QED
    BY <1>6, <2>1 DEF OfToday
<1> QED
  BY <1>1, <1>4, <1>5, <1>6, <1>11, <1>12, <1>18, <1>19

-----------------------------------------------------------------------------
\* The rescale computes the amounts of an open row anew, and flags it.
LEMMA RescaledFlags ==
  ASSUME NEW o \in ShadowObservation, IsOpen(o), NEW budget \in Nat \ {0}
  PROVE  Flagged(o, Rescaled(o, budget))
<1>1. PICK o2 \in ShadowObservation : o2 = Rescaled(o, budget)
  BY RescaledType
<1> DEFINE quantity == Quantity(budget, o.entry_price, o.metadata.usd_inr)
<1>2. o2 = [o EXCEPT !.quantity = quantity,
                     !.notional = quantity * o.entry_price * o.metadata.usd_inr,
                     !.pnl = (o.current_price - o.entry_price) * quantity * o.metadata.usd_inr,
                     !.metadata.rescaled = TRUE]
  BY <1>1 DEF Rescaled
<1> HIDE DEF quantity
<1>3. /\ o2.quantity = quantity /\ o2.notional = quantity * o.entry_price * o.metadata.usd_inr
      /\ o2.pnl = (o.current_price - o.entry_price) * quantity * o.metadata.usd_inr
      /\ o2.entry_price = o.entry_price /\ o2.current_price = o.current_price
      /\ o2.metadata = [o.metadata EXCEPT !.rescaled = TRUE]
  BY <1>2 DEF ShadowObservation
<1>4. o2.metadata.usd_inr = o.metadata.usd_inr
  <2>1. o.metadata \in Metadata
    BY DEF ShadowObservation
  <2> QED
    BY <1>3, <2>1 DEF Metadata
<1>5. Valued(o2)
  BY <1>3, <1>4 DEF Valued
<1>6. o2 = [o EXCEPT !.quantity = o2.quantity, !.notional = o2.notional, !.pnl = o2.pnl,
                     !.metadata.rescaled = TRUE]
  BY <1>2, <1>3
<1> QED
  BY <1>1, <1>5, <1>6 DEF Flagged

\* So a rescale advances the book.
LEMMA RescaleAdvances ==
  ASSUME TypeInv, BookOK(observations, samples, now),
         NEW open, open = {id \in DOMAIN observations : IsOpen(observations[id])},
         NEW budget \in Nat \ {0},
         NEW w, w = [NewSession(<< >>, budget) EXCEPT
                       !.loaded = [id \in open |-> observations[id]],
                       !.rows = [id \in open |-> Rescaled(observations[id], budget)]]
  PROVE  /\ SessionOK(w, DOMAIN observations) /\ LoadedSound(w) /\ OfToday(w)
         /\ Advance(observations, samples, Table(w), Samples(w), now)
<1>1. /\ SessionOK(w, DOMAIN observations)
      /\ w.rows = [id \in open |-> Rescaled(observations[id], budget)]
      /\ w.loaded = [id \in open |-> observations[id]]
      /\ w.samples = << >> /\ w.todo = << >> /\ w.markets = << >>
  BY RescaleType
<1>2. observations \in Rows /\ samples \in Seq(ShadowTrainingSample)
  BY DEF TypeInv
<1>3. /\ open \subseteq DOMAIN observations
      /\ DOMAIN w.rows = open /\ DOMAIN w.loaded = open
      /\ \A id \in open : w.rows[id] = Rescaled(observations[id], budget) /\ w.loaded[id] = observations[id]
  BY <1>1
<1>4. LoadedSound(w)
  BY <1>3 DEF LoadedSound
<1>5. /\ DOMAIN Table(w) = DOMAIN observations
      /\ \A id \in open : Table(w)[id] = Rescaled(observations[id], budget)
      /\ \A id \in DOMAIN observations \ open : Table(w)[id] = observations[id]
  <2>1. Merged(Table(w), observations, w.rows)
    BY <1>1, <1>2, <1>4, TableIs
  <2> QED
    BY <1>3, <2>1 DEF Merged
<1>6. Samples(w) = samples
  BY <1>1, <1>2, ConcatEmptySeq DEF Samples
<1>7. Grown(samples, samples) /\ \A id : New(samples, samples, id) = {}
  BY DEF Grown, New
<1>8. ASSUME NEW id \in DOMAIN observations
      PROVE  Untouched(observations[id], Table(w)[id])
  <2>1. CASE id \in open
    <3>1. PICK o \in ShadowObservation : o = observations[id] /\ IsOpen(o)
      BY <1>2, <2>1, RowsHas
    <3>2. Flagged(o, Table(w)[id])
      BY <1>5, <2>1, <3>1, RescaledFlags
    <3> QED
      BY <3>1, <3>2 DEF Untouched
  <2>2. CASE id \notin open
    BY <1>5, <2>2, ZenonT(60) DEF Untouched
  <2> QED
    BY <2>1, <2>2
<1>9. Advance(observations, samples, Table(w), Samples(w), now)
  <2>1. DOMAIN samples \ DOMAIN samples = {}
    OBVIOUS
  <2> QED
    BY <1>5, <1>6, <1>7, <1>8, <2>1 DEF Advance
<1>10. OfToday(w)
  BY <1>1 DEF OfToday
<1> QED
  BY <1>1, <1>4, <1>9, <1>10

\* A new row has no exit due, and is sound.
LEMMA NewRowFields ==
  ASSUME now \in Time, NEW market \in Markets, NEW symbol \in ToSet(Watchlist[market]),
         NEW quote \in Quotes, quote.action = "BUY", NEW fx \in Nat \ {0},
         NEW budget \in Nat \ {0}, NEW o, o = NewObservation(market, symbol, quote, fx, budget)
  PROVE  /\ o.symbol = symbol /\ o.market = market
         /\ o.opened_at = now /\ o.last_marked_at = now /\ o.pnl = 0
         /\ IsOpen(o) /\ RowOK(o, now) /\ LevelExit(o) = None
         /\ o.metadata.stop_loss < o.metadata.take_profit
<1> DEFINE quantity == Quantity(budget, quote.price, fx)
<1>1. /\ quote.price \in Nat \ {0} /\ quote.stop_loss \in Nat /\ quote.take_profit \in Nat
      /\ quote.stop_loss < quote.price /\ quote.price < quote.take_profit
  BY ShadowAssumption DEF Quote
<1>2. quantity \in Nat
  BY <1>1, QuantityType
<1>3. /\ o.market = market /\ o.symbol = symbol
      /\ o.opened_at = now /\ o.last_marked_at = now /\ o.pnl = 0
      /\ o.entry_price = quote.price /\ o.current_price = quote.price
      /\ o.quantity = quantity /\ o.notional = quantity * quote.price * fx
      /\ o.status = "OPEN_OBSERVATION"
      /\ o.metadata.stop_loss = quote.stop_loss /\ o.metadata.take_profit = quote.take_profit
      /\ o.metadata.usd_inr = fx
  BY DEF NewObservation
<1>4. Valued(o)
  <2>1. quote.price - quote.price = 0
    BY <1>1
  <2> HIDE DEF quantity
  <2>3. 0 * quantity = 0 /\ 0 * fx = 0
    BY <1>2
  <2>4. (quote.price - quote.price) * quantity * fx = 0
    BY <2>1, <2>3
  <2> QED
    BY <1>3, <2>4 DEF Valued
<1> HIDE DEF quantity
<1>5. IsOpen(o)
  BY <1>3 DEF IsOpen
<1>6. LevelExit(o) = None
  BY <1>1, <1>2, <1>3 DEF LevelExit
<1>7. now \in Nat
  BY ShadowAssumption DEF Time
<1>8. RowOK(o, now)
  BY <1>1, <1>3, <1>4, <1>5, <1>7 DEF RowOK
<1>9. o.metadata.stop_loss < o.metadata.take_profit
  BY <1>1, <1>3
<1> QED
  BY <1>3, <1>5, <1>6, <1>8, <1>9

\* Of a row that has no sample nothing is given back.
LEMMA NoPath ==
  ASSUME NEW T, NEW S, SamplesFit(T, S), NEW id, id \notin DOMAIN T, NEW o
  PROVE  ~GaveBack(o, id, S)
<1>1. {i \in DOMAIN S : S[i].observation = id} = {}
  BY DEF SamplesFit
<1>2. ~(Cardinality({}) >= 2)
  BY FS_EmptySet
<1> QED
  BY <1>1, <1>2 DEF GaveBack

\* The cooldown of the closed row that was marked last is that of all of the symbol.
LEMMA AllCooledDown ==
  ASSUME now \in Nat, NEW T \in Rows, RowsOK(T, now), NEW symbol,
         NEW latest \in LatestClosed(T, symbol), ~CoolingDown(T, latest),
         NEW b \in DOMAIN T, T[b].symbol = symbol, ~IsOpen(T[b])
  PROVE  T[b].last_marked_at + Cooldown <= now
<1>1. /\ latest \in DOMAIN T /\ ~IsOpen(T[latest])
      /\ T[b].last_marked_at <= T[latest].last_marked_at
  BY DEF LatestClosed
<1>2. /\ T[b].last_marked_at \in Nat /\ T[latest].last_marked_at \in Nat
      /\ latest \in Nat /\ Cooldown \in Nat
  BY <1>1, RowsHas, ShadowAssumption DEF ShadowObservation, Time
<1>3. T[latest].metadata.reentry_blocked_until = T[latest].last_marked_at + Cooldown
  BY <1>1 DEF RowsOK, RowOK
<1>4. None \notin Int
  BY ShadowAssumption
<1>5. latest # None /\ T[latest].metadata.reentry_blocked_until # None
  BY <1>2, <1>3, <1>4
<1>6. ~(T[latest].last_marked_at + Cooldown > now)
  BY <1>3, <1>5 DEF CoolingDown
<1> QED
  BY <1>1, <1>2, <1>6

\* The rules of an entry hold of the row that is opened.
LEMMA EntryRules ==
  ASSUME TypeInv, NEW s, SessionOK(s, DOMAIN observations), SessionInv(s), s.todo # << >>,
         NEW symbol, symbol = Head(s.todo), NEW quote, MayEnter(s, symbol, quote),
         NEW T \in Rows, T = Table(s)
  PROVE  /\ \A b \in DOMAIN T :
              T[b].symbol = symbol => ~IsOpen(T[b]) /\ T[b].last_marked_at + Cooldown <= now
         /\ Cooldown > 0 => NoLoserBefore(T, symbol, now)
<1>1. PICK S \in Seq(ShadowTrainingSample) : S = Samples(s)
  BY SamplesType
<1>2. now \in Nat /\ BookOK(T, S, now)
  BY <1>1, ShadowAssumption DEF TypeInv, Time, SessionInv
<1>3. ASSUME NEW b \in DOMAIN T, T[b].symbol = symbol
      PROVE  ~IsOpen(T[b])
  BY <1>3 DEF MayEnter, OpenRows
<1>4. ASSUME NEW b \in DOMAIN T, T[b].symbol = symbol
      PROVE  T[b].last_marked_at + Cooldown <= now
  <2>1. PICK latest \in LatestClosed(T, symbol) : ~CoolingDown(T, latest)
    BY DEF MayEnter
  <2>2. RowsOK(T, now)
    BY <1>2 DEF BookOK
  <2> QED
    BY <1>2, <1>3, <1>4, <2>1, <2>2, AllCooledDown
<1>5. ASSUME Cooldown > 0
      PROVE  NoLoserBefore(T, symbol, now)
  <2>1. PICK market \in Markets : market = s.market /\ symbol \in ToSet(Watchlist[market])
    BY HeadSymbol
  <2>2. ~PreviousSessionPaused(S, market, symbol)
    BY <1>1, <2>1 DEF MayEnter, LossPaused
  <2> QED
    BY <1>2, <1>3, <1>5, <2>1, <2>2, LoserIsSeen
<1> QED
  BY <1>3, <1>4, <1>5

-----------------------------------------------------------------------------
\* Entering a symbol opens a row of the book.
LEMMA EntryOpens ==
  ASSUME TypeInv, NEW s, SessionOK(s, DOMAIN observations), SessionInv(s), s.todo # << >>,
         NEW quote \in Quotes, MayEnter(s, Head(s.todo), quote),
         NEW id \in Nat, id \notin DOMAIN Table(s),
         NEW w, w = NextSymbol(Record(s, id, NewObservation(s.market, Head(s.todo), quote, s.fx, s.budget)))
  PROVE  /\ SessionOK(w, DOMAIN observations) /\ LoadedSound(w)
         /\ Opens(Table(s), Samples(s), Table(w), Samples(w), id, now)
<1>1. PICK T \in Rows, S \in Seq(ShadowTrainingSample) : T = Table(s) /\ S = Samples(s)
  BY TableType, SamplesType DEF TypeInv
<1>2. now \in Time /\ now \in Nat
  BY ShadowAssumption DEF TypeInv, Time
<1>3. PICK market \in Markets, fx \in Nat \ {0}, budget \in Nat \ {0} :
        market = s.market /\ fx = s.fx /\ budget = s.budget
  BY HeadSymbol
<1>4. PICK symbol \in ToSet(Watchlist[market]) : symbol = Head(s.todo)
  BY <1>3, HeadSymbol
<1>5. PICK o \in ShadowObservation : o = NewObservation(market, symbol, quote, fx, budget)
  BY <1>2, NewObservationType
<1>6. quote.action = "BUY"
  BY DEF MayEnter
<1>7. /\ o.symbol = symbol /\ o.market = market
      /\ o.opened_at = now /\ o.last_marked_at = now /\ o.pnl = 0
      /\ IsOpen(o) /\ RowOK(o, now) /\ LevelExit(o) = None
      /\ o.metadata.stop_loss < o.metadata.take_profit
  BY <1>2, <1>5, <1>6, NewRowFields
<1>8. LoadedSound(s) /\ BookOK(T, S, now)
  BY <1>1 DEF SessionInv
<1>9. ExitDue(o, id, S) = None
  <2>1. ~GaveBack(o, id, S)
    BY <1>1, <1>8, NoPath DEF BookOK
  <2> QED
    BY <1>7, <2>1 DEF ExitDue
<1>10. w = NextSymbol(Record(s, id, o))
  BY <1>3, <1>4, <1>5
<1>11. PICK mark : mark = Sample(id, o, "INTRADAY_MARK", now)
  OBVIOUS
<1>12. RowAfter(s, id, o) = o /\ Recorded(s, id, o) = <<mark>>
  BY <1>1, <1>9, <1>11 DEF RowAfter, Recorded
<1>13. /\ SessionOK(w, DOMAIN observations) /\ LoadedSound(w)
       /\ Adds(s, w, id, RowAfter(s, id, o), Recorded(s, id, o))
  BY <1>8, <1>10, RecordView
<1>14. PICK T2, S2 : T2 = Table(w) /\ S2 = Samples(w)
  OBVIOUS
<1>15. HasRow(T, T2, id, o) /\ S2 = S \o <<mark>>
  BY <1>1, <1>12, <1>13, <1>14 DEF Adds
<1>16. /\ mark \in ShadowTrainingSample
       /\ mark.observation = id /\ mark.kind = "INTRADAY_MARK" /\ mark.pnl = 0
       /\ Fits(mark, o) /\ Shows(mark, o)
  BY <1>2, <1>7, <1>11, SampleType, SampleIs DEF Fits, Shows
<1>17. PICK m : m = Len(S) + 1
  OBVIOUS
<1>18. /\ Grown(S, S2) /\ DOMAIN S2 \ DOMAIN S = {m} /\ S2[m] = mark
  BY <1>15, <1>16, <1>17, AppendOne
<1>19. /\ \A b \in DOMAIN T :
            T[b].symbol = symbol => ~IsOpen(T[b]) /\ T[b].last_marked_at + Cooldown <= now
       /\ Cooldown > 0 => NoLoserBefore(T, symbol, now)
  BY <1>1, <1>4, EntryRules
<1>20. Opens(T, S, T2, S2, id, now)
  <2>1. /\ id \notin DOMAIN T /\ DOMAIN T2 = DOMAIN T \cup {id} /\ T2[id] = o
        /\ \A k \in DOMAIN T : T2[k] = T[k]
    BY <1>1, <1>15 DEF HasRow
  <2>2. m \in DOMAIN S2 /\ S2[m].kind # "SHADOW_EXIT" /\ S2[m].observation = id
        /\ S2[m].pnl = 0 /\ Fits(S2[m], o) /\ Shows(S2[m], o)
    <3>1. "INTRADAY_MARK" # "SHADOW_EXIT"
      OBVIOUS
    <3> QED
      BY <1>16, <1>18, <3>1
  <2>3. \E k \in DOMAIN S2 :
          /\ DOMAIN S2 \ DOMAIN S = {k}
          /\ S2[k].observation = id /\ S2[k].kind # "SHADOW_EXIT" /\ S2[k].pnl = 0
          /\ Fits(S2[k], T2[id]) /\ Shows(S2[k], T2[id])
    BY <1>18, <2>1, <2>2
  <2> QED
    BY <1>7, <1>18, <1>19, <2>1, <2>3 DEF Opens
<1> QED
  BY <1>1, <1>13, <1>14, <1>20

-----------------------------------------------------------------------------
(***************************************************************************)
(* The invariant.                                                          *)
(***************************************************************************)
\* A table is kept by itself.
LEMMA PastKeptSelf ==
  ASSUME NEW T \in Rows, NEW d
  PROVE  PastKept(T, T, d)
<1>1. \A id \in DOMAIN T : T[id].last_marked_at \in Nat
  BY RowsHas DEF ShadowObservation, Time
<1> QED
  BY <1>1 DEF PastKept, PastSame

\* What keeps a table that keeps another keeps that other.
LEMMA PastKeptOn ==
  ASSUME NEW T \in Rows, NEW T2 \in Rows, NEW T3 \in Rows, NEW d \in Nat,
         PastKept(T, T2, d), PastKept(T2, T3, d)
  PROVE  PastKept(T, T3, d)
<1>1. /\ \A id \in DOMAIN T : T[id].last_marked_at \in Nat
      /\ \A id \in DOMAIN T2 : T2[id].last_marked_at \in Nat
      /\ \A id \in DOMAIN T3 : T3[id].last_marked_at \in Nat
  BY RowsHas DEF ShadowObservation, Time
<1>2. DOMAIN T \subseteq DOMAIN T2 /\ DOMAIN T2 \subseteq DOMAIN T3
  BY DEF PastKept
<1>3. ASSUME NEW id \in DOMAIN T
      PROVE  /\ T3[id].market = T[id].market
             /\ T[id].last_marked_at <= T3[id].last_marked_at
             /\ PastSame(T[id], T3[id], d)
  <2>1. /\ id \in DOMAIN T2 /\ id \in DOMAIN T3
        /\ T2[id].market = T[id].market /\ T[id].last_marked_at <= T2[id].last_marked_at
        /\ PastSame(T[id], T2[id], d)
        /\ T3[id].market = T2[id].market /\ T2[id].last_marked_at <= T3[id].last_marked_at
        /\ PastSame(T2[id], T3[id], d)
    BY <1>2 DEF PastKept
  <2>2. T[id].last_marked_at <= T3[id].last_marked_at
    BY <1>1, <2>1
  <2> QED
    BY <2>1, <2>2 DEF PastSame
<1>4. ASSUME NEW id \in DOMAIN T3 \ DOMAIN T
      PROVE  d <= T3[id].last_marked_at
  <2>1. CASE id \in DOMAIN T2
    <3>1. d <= T2[id].last_marked_at /\ T2[id].last_marked_at <= T3[id].last_marked_at
      BY <1>4, <2>1 DEF PastKept
    <3> QED
      BY <1>1, <1>4, <2>1, <3>1
  <2>2. CASE id \notin DOMAIN T2
    BY <1>4, <2>2 DEF PastKept
  <2> QED
    BY <2>1, <2>2
<1> QED
  BY <1>2, <1>3, <1>4 DEF PastKept

\* What advances a book marks nothing that was not marked today, but for its exit.
LEMMA AdvancePast ==
  ASSUME NEW T \in Rows, NEW S, NEW T2 \in Rows, NEW S2, NEW t, Advance(T, S, T2, S2, t)
  PROVE  PastKept(T, T2, DayStart(t))
<1>1. DOMAIN T2 = DOMAIN T
  BY DEF Advance
<1>2. ASSUME NEW id \in DOMAIN T
      PROVE  PastSame(T[id], T2[id], DayStart(t))
  <2>1. CASE T2[id] = T[id]
    BY <2>1 DEF PastSame
  <2>2. CASE Flagged(T[id], T2[id])
    <3>1. T[id] \in ShadowObservation
      BY RowsHas
    <3>2. T2[id].last_marked_at = T[id].last_marked_at /\ ResizedLate(T2[id])
      BY <2>2, <3>1, FlagOnly
    <3> QED
      BY <3>2 DEF PastSame
  <2>3. CASE Touched(S, S2, id, T[id], T2[id], t)
    BY <2>3 DEF Touched
  <2> QED
    BY <2>1, <2>2, <2>3 DEF Advance, Untouched
<1>3. \A id \in DOMAIN T : /\ T2[id].market = T[id].market
                          /\ T[id].last_marked_at <= T2[id].last_marked_at
  BY AdvanceKeeps
<1> QED
  BY <1>1, <1>2, <1>3 DEF PastKept

\* What is opened is marked today.
LEMMA OpensPast ==
  ASSUME NEW T \in Rows, NEW S, NEW T2 \in Rows, NEW S2, NEW id, NEW t \in Nat,
         Opens(T, S, T2, S2, id, t)
  PROVE  PastKept(T, T2, DayStart(t))
<1>1. /\ id \notin DOMAIN T /\ DOMAIN T2 = DOMAIN T \cup {id}
      /\ \A k \in DOMAIN T : T2[k] = T[k]
      /\ t <= T2[id].last_marked_at
  BY DEF Opens, RowOK
<1>2. /\ \A k \in DOMAIN T : T[k].last_marked_at \in Nat
      /\ \A k \in DOMAIN T2 : T2[k].last_marked_at \in Nat
  BY RowsHas DEF ShadowObservation, Time
<1>3. DayStart(t) \in Nat /\ DayStart(t) <= t
  BY DayLaws
<1>4. DayStart(t) <= T2[id].last_marked_at
  BY <1>1, <1>2, <1>3
<1> QED
  BY <1>1, <1>2, <1>4 DEF PastKept, PastSame

\* A session that advances the book of another state leaves it in order.
LEMMA AdvanceInv ==
  ASSUME TypeInv, NEW T \in Rows, NEW S \in Seq(ShadowTrainingSample), BookOK(T, S, now),
         PastKept(observations, T, DayStart(now)),
         NEW w, SessionOK(w, DOMAIN observations), LoadedSound(w), OfToday(w),
         Advance(T, S, Table(w), Samples(w), now)
  PROVE  SessionInv(w)
<1>1. PICK T2 \in Rows, S2 \in Seq(ShadowTrainingSample) : T2 = Table(w) /\ S2 = Samples(w)
  BY TableType, SamplesType DEF TypeInv
<1>2. BookOK(T2, S2, now)
  BY <1>1, AdvanceOK
<1>3. observations \in Rows /\ DayStart(now) \in Nat
  BY DayLaws, ShadowAssumption, SMTT(60) DEF TypeInv, Time
<1>4. PastKept(T, T2, DayStart(now))
  BY <1>1, AdvancePast
<1>5. PastKept(observations, T2, DayStart(now))
  BY <1>3, <1>4, PastKeptOn
<1> QED
  BY <1>1, <1>2, <1>5 DEF SessionInv

\* The sessions of the others are as they were.
LEMMA SameBook ==
  ASSUME NEW s, UNCHANGED <<now, observations, samples>>
  PROVE  SessionInv(s)' <=> SessionInv(s)
<1>1. Table(s)' = Table(s) /\ Samples(s)' = Samples(s)
  BY DEF Table, Samples
<1>2. LoadedSound(s)' <=> LoadedSound(s)
  BY DEF LoadedSound
<1>3. OfToday(s)' <=> OfToday(s)
  BY <1>1 DEF OfToday, DayStart
<1>4. BookOK(Table(s), Samples(s), now)' <=> BookOK(Table(s), Samples(s), now)
  BY <1>1
<1>5. PastKept(observations, Table(s), DayStart(now))'
        <=> PastKept(observations, Table(s), DayStart(now))
  BY <1>1 DEF DayStart
<1> QED
  BY <1>2, <1>3, <1>4, <1>5 DEF SessionInv

\* Nobody else is at work.
Only(p) == \A q \in Processes : q # p => session[q] = None

\* A session that works is the only one.
LEMMA WorksAlone ==
  ASSUME Exclusive, NEW p \in Processes, session[p] # None
  PROVE  Only(p) /\ (p \in Loops => lock = p)
  BY DEF Exclusive, Only

\* A session may begin only when it is the only one.
LEMMA BeginsAlone ==
  ASSUME Alone, Exclusive, NEW p \in Processes, MayBegin(p)
  PROVE  Only(p) /\ (p \in Loops => lock = p)
<1>1. ASSUME NEW q \in Processes, q # p, session[q] # None
      PROVE  FALSE
  <2>1. p \in Loops /\ q \in Loops
    BY <1>1 DEF MayBegin
  <2> QED
    BY <1>1, <2>1 DEF MayBegin, Exclusive
<1> QED
  BY <1>1 DEF Only, MayBegin

\* The only session changes what it would leave.
LEMMA WorkStep ==
  ASSUME ShadowInv, TypeInv', NEW p \in Processes, Only(p), p \in Loops => lock = p,
         NEW w, SessionInv(w), session' = [session EXCEPT ![p] = w],
         UNCHANGED <<now, observations, samples, lock>>
  PROVE  ShadowInv'
<1>1. \A q \in Processes : session'[q] = IF q = p THEN w ELSE None
  BY DEF ShadowInv, TypeInv, Only
<1>2. Exclusive'
  <2>1. \A q \in Processes : session'[q] # None => q = p
    BY <1>1
  <2>2. \A q \in Loops : session'[q] # None => lock' = q
    BY <2>1 DEF Processes
  <2> QED
    BY <2>1, <2>2 DEF Exclusive
<1>3. BookOK(observations, samples, now)'
  BY DEF ShadowInv
<1>4. SessionInv(w)'
  BY SameBook
<1>5. ASSUME NEW q \in Processes, session'[q] # None
      PROVE  SessionInv(session[q])'
  <2>1. q = p /\ session'[q] = w
    BY <1>1, <1>5
  <2> QED
    BY <1>4, <2>1
<1> QED
  BY <1>2, <1>3, <1>5 DEF ShadowInv

\* A session ends without a trace.
LEMMA EndStep ==
  ASSUME ShadowInv, TypeInv', NEW p \in Processes, Exclusive',
         session' = [session EXCEPT ![p] = None], UNCHANGED <<now, observations, samples>>
  PROVE  ShadowInv'
<1>1. \A q \in Processes : session'[q] = IF q = p THEN None ELSE session[q]
  BY DEF ShadowInv, TypeInv
<1>2. BookOK(observations, samples, now)'
  BY DEF ShadowInv
<1>3. ASSUME NEW q \in Processes, session'[q] # None
      PROVE  SessionInv(session[q])'
  <2>1. PICK s : s = session[q] /\ s = session'[q] /\ SessionInv(s)
    BY <1>1, <1>3 DEF ShadowInv
  <2>2. SessionInv(s)'
    BY <2>1, SameBook
  <2> QED
    BY <2>1, <2>2
<1> QED
  BY <1>2, <1>3 DEF ShadowInv

-----------------------------------------------------------------------------
\* A session that touches no row leaves the same book.
LEMMA SameRows ==
  ASSUME NEW s, SessionInv(s), s.todo # << >> \/ s.markets # << >>,
         NEW w, w.rows = s.rows, w.loaded = s.loaded, w.samples = s.samples
  PROVE  SessionInv(w)
<1>1. Table(w) = Table(s) /\ Samples(w) = Samples(s)
  BY DEF Table, Samples
<1>2. LoadedSound(w)
  BY DEF SessionInv, LoadedSound
<1>3. OfToday(w)
  BY <1>1 DEF SessionInv, OfToday
<1> QED
  BY <1>1, <1>2, <1>3 DEF SessionInv

\* A cycle begins with the book in order.
LEMMA BeginCycleKeeps ==
  ASSUME Alone, ShadowInv, TypeInv', NEW p \in Processes, BeginCycle(p)
  PROVE  ShadowInv'
<1>0. PICK budget \in Budgets :
        session' = [session EXCEPT ![p] = CloseStale(NewSession(<<"INDIA", "US">>, budget))]
  BY DEF BeginCycle
<1>1. PICK w : w = CloseStale(NewSession(<<"INDIA", "US">>, budget))
  OBVIOUS
<1>2. /\ session' = [session EXCEPT ![p] = w]
      /\ UNCHANGED <<now, observations, samples, lock>>
      /\ budget \in Nat \ {0}
  BY <1>0, <1>1, ShadowAssumption DEF BeginCycle
<1>3. Only(p) /\ (p \in Loops => lock = p)
  BY BeginsAlone DEF BeginCycle, ShadowInv
<1>4. SessionInv(w)
  <2>1. TypeInv /\ BookOK(observations, samples, now)
    BY DEF ShadowInv
  <2>2. /\ SessionOK(w, DOMAIN observations) /\ LoadedSound(w) /\ OfToday(w)
        /\ Advance(observations, samples, Table(w), Samples(w), now)
    BY <1>1, <1>2, <2>1, CloseStaleAdvances
  <2>3. observations \in Rows /\ samples \in Seq(ShadowTrainingSample)
    BY <2>1 DEF TypeInv
  <2>4. PastKept(observations, observations, DayStart(now))
    BY <2>3, PastKeptSelf
  <2> QED
    BY <2>1, <2>2, <2>3, <2>4, AdvanceInv
<1> QED
  BY <1>2, <1>3, <1>4, WorkStep

\* So does a rescale.
LEMMA RescaleKeeps ==
  ASSUME Alone, ShadowInv, TypeInv', NEW p \in Processes, Rescale(p)
  PROVE  ShadowInv'
<1>1. PICK open : open = {id \in DOMAIN observations : IsOpen(observations[id])}
  OBVIOUS
<1>0. PICK budget \in Budgets :
        session' = [session EXCEPT ![p] =
          [NewSession(<< >>, budget) EXCEPT
             !.loaded = [id \in open |-> observations[id]],
             !.rows = [id \in open |-> Rescaled(observations[id], budget)]]]
  BY <1>1 DEF Rescale
<1>2. PICK w : w = [NewSession(<< >>, budget) EXCEPT
                      !.loaded = [id \in open |-> observations[id]],
                      !.rows = [id \in open |-> Rescaled(observations[id], budget)]]
  OBVIOUS
<1>3. /\ session' = [session EXCEPT ![p] = w]
      /\ UNCHANGED <<now, observations, samples, lock>>
      /\ budget \in Nat \ {0}
  BY <1>0, <1>2, ShadowAssumption DEF Rescale
<1>4. Only(p) /\ (p \in Loops => lock = p)
  BY BeginsAlone DEF Rescale, ShadowInv
<1>5. SessionInv(w)
  <2>1. TypeInv /\ BookOK(observations, samples, now)
    BY DEF ShadowInv
  <2>2. /\ SessionOK(w, DOMAIN observations) /\ LoadedSound(w) /\ OfToday(w)
        /\ Advance(observations, samples, Table(w), Samples(w), now)
    BY <1>1, <1>2, <1>3, <2>1, RescaleAdvances
  <2>3. observations \in Rows /\ samples \in Seq(ShadowTrainingSample)
    BY <2>1 DEF TypeInv
  <2>4. PastKept(observations, observations, DayStart(now))
    BY <2>3, PastKeptSelf
  <2> QED
    BY <2>1, <2>2, <2>3, <2>4, AdvanceInv
<1> QED
  BY <1>3, <1>4, <1>5, WorkStep

\* The calendar and the exchange rate leave the book of the session as it is.
LEMMA StartMarketKeeps ==
  ASSUME ShadowInv, TypeInv', NEW p \in Processes, StartMarket(p)
  PROVE  ShadowInv'
<1>1. PICK s : s = session[p]
  OBVIOUS
<1>2. /\ s # None /\ s.markets # << >> /\ SessionInv(s) /\ s \in Session
      /\ UNCHANGED <<now, observations, samples, lock>>
  BY <1>1, SessionBounded DEF StartMarket, ShadowInv
<1>3. Only(p) /\ (p \in Loops => lock = p)
  BY <1>1, <1>2, WorksAlone, SMTT(60) DEF ShadowInv
<1>4. PICK w : /\ session' = [session EXCEPT ![p] = w]
               /\ \/ \E fx : w = [s EXCEPT !.markets = Tail(@), !.market = Head(s.markets),
                                           !.fx = fx, !.todo = Watchlist[Head(s.markets)]]
                  \/ w = [s EXCEPT !.markets = Tail(@)]
  BY <1>1 DEF StartMarket
<1>5. w.rows = s.rows /\ w.loaded = s.loaded /\ w.samples = s.samples
  BY <1>2, <1>4 DEF Session
<1>6. SessionInv(w)
  BY <1>2, <1>5, SameRows
<1> QED
  BY <1>2, <1>3, <1>4, <1>6, WorkStep

\* So does a symbol that is left alone.
LEMMA SkippedKeeps ==
  ASSUME ShadowInv, TypeInv', NEW p \in Processes, SymbolBlocked(p) \/ EntryBlocked(p)
  PROVE  ShadowInv'
<1>1. PICK s : s = session[p]
  OBVIOUS
<1>2. PICK w : w = NextSymbol(s)
  OBVIOUS
<1>3. /\ s # None /\ s.todo # << >> /\ SessionInv(s) /\ s \in Session
      /\ session' = [session EXCEPT ![p] = w]
      /\ UNCHANGED <<now, observations, samples, lock>>
  BY <1>1, <1>2, SessionBounded DEF SymbolBlocked, EntryBlocked, ShadowInv
<1>4. Only(p) /\ (p \in Loops => lock = p)
  BY <1>1, <1>3, WorksAlone DEF ShadowInv
<1>5. w.rows = s.rows /\ w.loaded = s.loaded /\ w.samples = s.samples
  BY <1>2, <1>3 DEF NextSymbol, Session
<1>6. SessionInv(w)
  BY <1>3, <1>5, SameRows
<1> QED
  BY <1>3, <1>4, <1>6, WorkStep

\* A marked row is of today, as it was.
LEMMA MarkOpenKeeps ==
  ASSUME ShadowInv, TypeInv', NEW p \in Processes, NEW quote \in Quotes, MarkOpen(p, quote)
  PROVE  ShadowInv'
<1>1. PICK s : s = session[p]
  OBVIOUS
<1>2. /\ s # None /\ s.todo # << >> /\ SessionInv(s) /\ SessionOK(s, DOMAIN observations)
      /\ UNCHANGED <<now, observations, samples, lock>> /\ TypeInv
  BY <1>1, SessionBounded DEF MarkOpen, ShadowInv
<1>3. Only(p) /\ (p \in Loops => lock = p)
  BY <1>1, <1>2, WorksAlone DEF ShadowInv
<1>4. PICK id \in OpenRows(s, Head(s.todo)) :
        session' = [session EXCEPT ![p] = NextSymbol(Record(s, id, Marked(Table(s)[id], quote, s.fx, s.budget)))]
  BY <1>1 DEF MarkOpen
<1>5. PICK w : w = NextSymbol(Record(s, id, Marked(Table(s)[id], quote, s.fx, s.budget)))
  OBVIOUS
<1>6. id \in DOMAIN Table(s) /\ IsOpen(Table(s)[id])
  BY <1>4 DEF OpenRows
<1>7. /\ SessionOK(w, DOMAIN observations) /\ LoadedSound(w)
      /\ Advance(Table(s), Samples(s), Table(w), Samples(w), now)
  BY <1>2, <1>5, <1>6, MarkAdvances
<1>8. PICK T \in Rows, T2 \in Rows, S \in Seq(ShadowTrainingSample) :
        T = Table(s) /\ T2 = Table(w) /\ S = Samples(s)
  BY <1>2, <1>7, TableType, SamplesType DEF TypeInv
<1>9. OfToday(w)
  <2>1. \A k \in DOMAIN T : IsOpen(T[k]) => DayStart(now) <= T[k].opened_at
    BY <1>2, <1>8 DEF SessionInv, OfToday
  <2>2. PICK S2 : Advance(T, S, T2, S2, now)
    BY <1>7, <1>8
  <2>3. DOMAIN T2 = DOMAIN T
    BY <2>2 DEF Advance
  <2>4. \A k \in DOMAIN T : T2[k].opened_at = T[k].opened_at /\ (IsOpen(T2[k]) => IsOpen(T[k]))
    BY <2>2, AdvanceKeeps, ZenonT(60)
  <2> QED
    BY <1>8, <2>1, <2>3, <2>4 DEF OfToday
<1>10. SessionInv(w)
  <2>1. BookOK(T, S, now) /\ PastKept(observations, T, DayStart(now))
    BY <1>2, <1>8 DEF SessionInv
  <2> QED
    BY <1>2, <1>7, <1>8, <1>9, <2>1, AdvanceInv
<1> QED
  BY <1>2, <1>3, <1>4, <1>5, <1>10, WorkStep

\* A new row is of today.
LEMMA OpenNewKeeps ==
  ASSUME ShadowInv, TypeInv', NEW p \in Processes, NEW quote \in Quotes, OpenNew(p, quote)
  PROVE  ShadowInv'
<1>1. PICK s : s = session[p]
  OBVIOUS
<1>2. /\ s # None /\ s.todo # << >> /\ SessionInv(s) /\ SessionOK(s, DOMAIN observations)
      /\ UNCHANGED <<now, observations, samples, lock>> /\ TypeInv
      /\ MayEnter(s, Head(s.todo), quote)
  BY <1>1, SessionBounded DEF OpenNew, ShadowInv
<1>3. Only(p) /\ (p \in Loops => lock = p)
  BY <1>1, <1>2, WorksAlone DEF ShadowInv
<1>4. PICK id \in Nat : id = NewId /\ id \notin DOMAIN Table(s)
  <2>1. /\ NewId \in Nat /\ NewId \notin DOMAIN observations /\ NewId \notin DOMAIN s.rows
    BY <1>1, <1>2, NewIdIsNew
  <2>2. DOMAIN Table(s) = DOMAIN observations \cup DOMAIN s.rows
    BY DEF Table
  <2> QED
    BY <2>1, <2>2
<1>5. PICK w : w = NextSymbol(Record(s, id, NewObservation(s.market, Head(s.todo), quote, s.fx, s.budget)))
  OBVIOUS
<1>6. session' = [session EXCEPT ![p] = w]
  BY <1>1, <1>4, <1>5 DEF OpenNew
<1>7. /\ SessionOK(w, DOMAIN observations) /\ LoadedSound(w)
      /\ Opens(Table(s), Samples(s), Table(w), Samples(w), id, now)
  BY <1>2, <1>4, <1>5, EntryOpens
<1>8. PICK T \in Rows, T2 \in Rows, S \in Seq(ShadowTrainingSample), S2 \in Seq(ShadowTrainingSample) :
        T = Table(s) /\ T2 = Table(w) /\ S = Samples(s) /\ S2 = Samples(w)
  BY <1>2, <1>7, TableType, SamplesType DEF TypeInv
<1>9. now \in Nat /\ Opens(T, S, T2, S2, id, now) /\ BookOK(T, S, now)
  BY <1>2, <1>7, <1>8, ShadowAssumption DEF TypeInv, Time, SessionInv
<1>10. BookOK(T2, S2, now)
  BY <1>9, OpensOK
<1>11. OfToday(w)
  <2>1. \A k \in DOMAIN T : IsOpen(T[k]) => DayStart(now) <= T[k].opened_at
    BY <1>2, <1>8 DEF SessionInv, OfToday
  <2>2. /\ DOMAIN T2 = DOMAIN T \cup {id} /\ \A k \in DOMAIN T : T2[k] = T[k]
        /\ T2[id].opened_at = now
    BY <1>9 DEF Opens
  <2>3. DayStart(now) <= now
    BY <1>9, DayLaws
  <2>4. \A k \in DOMAIN T2 : IsOpen(T2[k]) => DayStart(now) <= T2[k].opened_at
    BY <2>1, <2>2, <2>3
  <2> QED
    BY <1>8, <2>4 DEF OfToday
<1>12. PastKept(observations, T2, DayStart(now))
  <2>1. /\ observations \in Rows /\ DayStart(now) \in Nat
        /\ PastKept(observations, T, DayStart(now))
    BY <1>2, <1>8, <1>9, DayLaws DEF TypeInv, SessionInv
  <2>2. PastKept(T, T2, DayStart(now))
    BY <1>9, OpensPast
  <2> QED
    BY <2>1, <2>2, PastKeptOn
<1>13. SessionInv(w)
  BY <1>7, <1>8, <1>10, <1>11, <1>12 DEF SessionInv
<1> QED
  BY <1>2, <1>3, <1>6, <1>13, WorkStep

\* A commit makes the book that the session would leave the committed one.
LEMMA CommitKeeps ==
  ASSUME ShadowInv, TypeInv', NEW p \in Processes, Commit(p)
  PROVE  ShadowInv'
<1>1. PICK s : s = session[p]
  OBVIOUS
<1>2. /\ s # None /\ SessionInv(s)
      /\ observations' = Table(s) /\ samples' = Samples(s) /\ now' = now /\ lock' = lock
      /\ session' = [session EXCEPT ![p] = None]
  BY <1>1 DEF Commit, ShadowInv
<1>3. Only(p)
  BY <1>1, <1>2, WorksAlone DEF ShadowInv
<1>4. \A q \in Processes : session'[q] = None
  BY <1>2, <1>3 DEF ShadowInv, TypeInv, Only
<1>5. Exclusive'
  BY <1>4 DEF Exclusive, Processes
<1>6. BookOK(observations', samples', now')
  BY <1>2 DEF SessionInv
<1> QED
  BY <1>4, <1>5, <1>6 DEF ShadowInv

-----------------------------------------------------------------------------
\* A loop takes the lock, and no other loop has a session then.
LEMMA LoopStartsKeeps ==
  ASSUME ShadowInv, TypeInv', NEW p \in Loops, LoopStarts(p)
  PROVE  ShadowInv'
<1>1. /\ lock = None /\ UNCHANGED <<now, observations, samples, session>>
  BY DEF LoopStarts
<1>2. None \notin Processes
  BY ShadowAssumption
<1>3. \A q \in Loops : session[q] = None
  BY <1>1, <1>2 DEF ShadowInv, Exclusive, Processes
<1>4. Exclusive'
  BY <1>1, <1>3 DEF ShadowInv, Exclusive
<1>5. BookOK(observations, samples, now)'
  BY <1>1 DEF ShadowInv
<1>6. ASSUME NEW q \in Processes, session'[q] # None
      PROVE  SessionInv(session[q])'
  <2>1. PICK s : s = session[q] /\ s = session'[q] /\ SessionInv(s)
    BY <1>1, <1>6 DEF ShadowInv
  <2>2. SessionInv(s)'
    BY <1>1, <2>1, SameBook
  <2> QED
    BY <2>1, <2>2
<1> QED
  BY <1>4, <1>5, <1>6 DEF ShadowInv

\* A session that ends with its loop, or is rolled back, leaves the book as committed.
LEMMA EndsKeep ==
  ASSUME ShadowInv, TypeInv', NEW p \in Processes, LoopDies(p) \/ Rollback(p)
  PROVE  ShadowInv'
<1>1. /\ session' = [session EXCEPT ![p] = None] /\ UNCHANGED <<now, observations, samples>>
      /\ lock' = lock \/ lock = p
  BY DEF LoopDies, Rollback
<1>2. \A q \in Processes : session'[q] = IF q = p THEN None ELSE session[q]
  BY <1>1 DEF ShadowInv, TypeInv
<1>3. Exclusive'
  <2>1. \A q \in Loops : session'[q] # None => lock = q /\ q # p
    BY <1>2 DEF ShadowInv, Exclusive, Processes
  <2>2. \A q, r \in Processes : session'[q] # None /\ session'[r] # None => q = r
    BY <1>2 DEF ShadowInv, Exclusive
  <2> QED
    BY <1>1, <2>1, <2>2 DEF Exclusive
<1> QED
  BY <1>1, <1>3, EndStep

\* Time passes, and a session does not see midnight.
LEMMA TickKeeps ==
  ASSUME ShadowInv, TypeInv', Tick
  PROVE  ShadowInv'
<1>1. /\ now' = now + 1 /\ UNCHANGED <<observations, samples, lock, session>>
      /\ (now + 1) % TicksPerDay = 0 => \A p \in Processes : session[p] = None
  BY DEF Tick
<1>2. PICK t \in Nat : t = now
  BY ShadowAssumption DEF ShadowInv, TypeInv, Time
<1>3. Exclusive'
  BY <1>1 DEF ShadowInv, Exclusive
<1>4. BookOK(observations, samples, now)'
  <2>1. observations \in Rows /\ BookOK(observations, samples, t)
    BY <1>2 DEF ShadowInv, TypeInv
  <2>2. BookOK(observations, samples, t + 1)
    BY <2>1, LaterOK
  <2> QED
    BY <1>1, <1>2, <2>2
<1>5. ASSUME NEW q \in Processes, session'[q] # None
      PROVE  SessionInv(session[q])'
  <2>1. PICK s : s = session[q] /\ s = session'[q]
    BY <1>1
  <2>2. /\ s # None /\ SessionInv(s) /\ SessionOK(s, DOMAIN observations)
    BY <1>5, <2>1 DEF ShadowInv, TypeInv
  <2>3. DayStart(t + 1) = DayStart(t)
    BY <1>1, <1>2, <2>1, <2>2, NoMidnight
  <2>4. Table(s)' = Table(s) /\ Samples(s)' = Samples(s) /\ (LoadedSound(s)' <=> LoadedSound(s))
    BY <1>1 DEF Table, Samples, LoadedSound
  <2>5. OfToday(s)'
    <3>1. DayStart(now)' = DayStart(now)
      BY <1>1, <1>2, <2>3 DEF DayStart
    <3> QED
      BY <2>2, <2>4, <3>1 DEF OfToday, SessionInv
  <2>6. BookOK(Table(s), Samples(s), now)'
    <3>1. Table(s) \in Rows /\ BookOK(Table(s), Samples(s), t)
      BY <1>2, <2>2, TableType DEF ShadowInv, TypeInv, SessionInv
    <3>2. BookOK(Table(s), Samples(s), t + 1)
      BY <3>1, LaterOK
    <3> QED
      BY <1>1, <1>2, <2>4, <3>2
  <2>7. PastKept(observations, Table(s), DayStart(now))'
    <3>1. DayStart(now)' = DayStart(now)
      BY <1>1, <1>2, <2>3 DEF DayStart
    <3>2. PastKept(observations, Table(s), DayStart(now))
      BY <2>2 DEF SessionInv
    <3> QED
      BY <1>1, <2>4, <3>1, <3>2
  <2>8. SessionInv(s)'
    BY <2>2, <2>4, <2>5, <2>6, <2>7 DEF SessionInv
  <2> QED
    BY <2>1, <2>8
<1> QED
  BY <1>3, <1>4, <1>5 DEF ShadowInv

\* Nothing happens.
LEMMA StutterKeeps ==
  ASSUME ShadowInv, TypeInv', UNCHANGED vars
  PROVE  ShadowInv'
<1>1. UNCHANGED <<now, observations, samples, lock, session>>
  BY DEF vars
<1>2. Exclusive' /\ BookOK(observations, samples, now)'
  BY <1>1 DEF ShadowInv, Exclusive
<1>3. ASSUME NEW q \in Processes, session'[q] # None
      PROVE  SessionInv(session[q])'
  <2>1. PICK s : s = session[q] /\ s = session'[q] /\ SessionInv(s)
    BY <1>1, <1>3 DEF ShadowInv
  <2>2. SessionInv(s)'
    BY <1>1, <2>1, SameBook
  <2> QED
    BY <2>1, <2>2
<1> QED
  BY <1>2, <1>3 DEF ShadowInv

\* The empty book is in order.
LEMMA ShadowInvInit ==
  ASSUME Init
  PROVE  ShadowInv
<1>1. DOMAIN observations = {} /\ DOMAIN samples = {}
  BY DEF Init, Empty
<1>2. BookOK(observations, samples, now)
  BY <1>1 DEF BookOK, RowsOK, SamplesFit, ExitsOK, OneOpen, Spaced, LosersPaused, PathsWatched, PathsTold
<1>3. \A p \in Processes : session[p] = None
  BY DEF Init
<1>4. Exclusive
  BY <1>3 DEF Exclusive, Processes
<1> QED
  BY <1>2, <1>3, <1>4, TypesInit DEF ShadowInv

\* Every step keeps the book in order.
LEMMA ShadowInvStep ==
  ASSUME Alone, ShadowInv, [Next]_vars
  PROVE  ShadowInv'
<1>0. TypeInv'
  BY TypesStep DEF ShadowInv
<1>1. ASSUME NEW p \in Loops \cup Callers, Cycle(p)
      PROVE  ShadowInv'
  <2>1. p \in Processes
    BY DEF Processes
  <2> QED
    BY <1>0, <1>1, <2>1, BeginCycleKeeps, StartMarketKeeps, SkippedKeeps, MarkOpenKeeps, OpenNewKeeps
       DEF Cycle
<1>2. ASSUME NEW p \in Scripts, Rescale(p)
      PROVE  ShadowInv'
  BY <1>0, <1>2, RescaleKeeps DEF Processes
<1>3. ASSUME NEW p \in Processes, Commit(p) \/ Rollback(p)
      PROVE  ShadowInv'
  BY <1>0, <1>3, CommitKeeps, EndsKeep
<1>4. ASSUME NEW p \in Loops, LoopStarts(p) \/ LoopDies(p)
      PROVE  ShadowInv'
  BY <1>0, <1>4, LoopStartsKeeps, EndsKeep DEF Processes
<1> QED
  BY <1>0, <1>1, <1>2, <1>3, <1>4, TickKeeps, StutterKeeps DEF Next

\* With the operator's care the book is in order, as it is committed and as the session
\* that works would leave it: one observation of a symbol, one exit of each, in time.
THEOREM ShadowIsInv == ASSUME Alone PROVE Spec => []ShadowInv
<1>1. Init => ShadowInv
  BY ShadowInvInit
<1>2. ShadowInv /\ [Next]_vars => ShadowInv'
  BY ShadowInvStep
<1> QED
  BY <1>1, <1>2, PTL DEF Spec

\* A symbol has at most one open observation, though no constraint of the table says
\* so: a cycle looks at the table as its own changes leave it, and is alone.
THEOREM OneIsOpen == ASSUME Alone PROVE Spec => []OneOpenObservation
<1>1. ShadowInv => OneOpenObservation
  BY DEF ShadowInv, BookOK, OneOpen, OneOpenObservation
<1> QED
  BY <1>1, ShadowIsInv, PTL

\* Every closed observation has one exit sample, with its final profit, whichever of
\* mark, giveback, stale close, crash and rescale came to it.
THEOREM ExitsAreRecorded == ASSUME Alone PROVE Spec => []ExitRecordedOnce
<1>1. ASSUME ShadowInv
      PROVE  ExitRecordedOnce
  <2>1. ASSUME NEW id \in DOMAIN observations
        PROVE  IF IsOpen(observations[id]) THEN Exits(id) = {}
               ELSE \E i \in Exits(id) : Exits(id) = {i} /\ samples[i].pnl = observations[id].pnl
    <3>1. ExitsOK(observations, samples)
      BY <1>1 DEF ShadowInv, BookOK
    <3>2. CASE IsOpen(observations[id])
      BY <3>1, <3>2 DEF ExitsOK, Exits
    <3>3. CASE ~IsOpen(observations[id])
      <4>1. PICK i \in DOMAIN samples : IsExit(samples, i, id, observations[id])
        BY <3>1, <3>3 DEF ExitsOK
      <4>2. Exits(id) = {i} /\ samples[i].pnl = observations[id].pnl
        BY <4>1 DEF IsExit, Exits
      <4> QED
        BY <3>3, <4>2
    <3> QED
      BY <3>2, <3>3
  <2> QED
    BY <2>1 DEF ExitRecordedOnce
<1> QED
  BY <1>1, ShadowIsInv, PTL

\* A sample was taken on the day its observation was opened on.
LEMMA SampleDay ==
  ASSUME ShadowInv, NEW i \in DOMAIN samples
  PROVE  DayStart(samples[i].sample_at) = DayStart(observations[samples[i].observation].opened_at)
<1>1. observations \in Rows /\ samples \in Seq(ShadowTrainingSample)
  BY DEF ShadowInv, TypeInv
<1>2. PICK o \in ShadowObservation :
        o = observations[samples[i].observation] /\ Fits(samples[i], o) /\ RowOK(o, now)
  BY <1>1, RowsHas DEF ShadowInv, BookOK, SamplesFit, RowsOK
<1>3. o.opened_at \in Nat /\ o.last_marked_at \in Nat /\ samples[i].sample_at \in Int
  BY <1>1, SampleFields DEF ShadowObservation, Time
<1>4. /\ o.opened_at <= samples[i].sample_at /\ samples[i].sample_at <= o.last_marked_at
      /\ DayStart(o.last_marked_at) = DayStart(o.opened_at)
  BY <1>2 DEF Fits, RowOK
<1>5. samples[i].sample_at \in Nat
  BY <1>3, <1>4
<1>6. DayStart(o.last_marked_at) <= samples[i].sample_at
  <2>1. DayStart(o.opened_at) <= o.opened_at /\ DayStart(o.opened_at) \in Nat
    BY <1>3, DayLaws
  <2> QED
    BY <1>3, <1>4, <1>5, <2>1
<1>7. DayStart(samples[i].sample_at) = DayStart(o.last_marked_at)
  BY <1>3, <1>4, <1>5, <1>6, SameDay
<1> QED
  BY <1>2, <1>4, <1>7

\* No observation is marked on another day than that of its opening.
THEOREM MarksStayOnTheirDay == ASSUME Alone PROVE Spec => []MarkedOnItsDay
<1>1. ShadowInv => MarkedOnItsDay
  BY SampleDay DEF MarkedOnItsDay
<1> QED
  BY <1>1, ShadowIsInv, PTL

\* The time of its exit is that of the last mark of a closed observation.
LEMMA ExitTimeIs ==
  ASSUME ShadowInv, NEW id \in DOMAIN observations, ~IsOpen(observations[id])
  PROVE  ExitTime(id) = observations[id].last_marked_at
<1>1. PICK i \in DOMAIN samples : IsExit(samples, i, id, observations[id])
  BY DEF ShadowInv, BookOK, ExitsOK
<1>2. Exits(id) = {i} /\ samples[i].sample_at = observations[id].last_marked_at
  BY <1>1 DEF IsExit, Exits
<1>3. observations[id].last_marked_at \in Int
  BY RowsHas DEF ShadowInv, TypeInv, ShadowObservation, Time
<1>4. PICK lm \in Int : lm = observations[id].last_marked_at
  BY <1>3
<1>5. {samples[k].sample_at : k \in Exits(id)} = {lm, lm}
  BY <1>2, <1>4
<1>6. Min({lm, lm}) = lm
  BY MinOfTwo
<1> QED
  BY <1>4, <1>5, <1>6 DEF ExitTime

\* A symbol is entered again when the cooldown of each of its earlier exits is over,
\* though the code looks at the one that was marked last: each began after the others.
THEOREM CooldownIsKept == ASSUME Alone, Cooldown > 0 PROVE Spec => []CooldownKept
<1>1. ASSUME ShadowInv
      PROVE  CooldownKept
  <2>1. Spaced(observations)
    BY <1>1 DEF ShadowInv, BookOK
  <2>2. ASSUME NEW a \in DOMAIN observations, NEW b \in DOMAIN observations,
               a # b, observations[a].symbol = observations[b].symbol,
               ~IsOpen(observations[b]), observations[b].opened_at <= observations[a].opened_at
        PROVE  observations[a].opened_at >= ExitTime(b) + Cooldown
    <3>1. ExitTime(b) = observations[b].last_marked_at
      BY <1>1, <2>2, ExitTimeIs
    <3> QED
      BY <2>1, <2>2, <3>1 DEF Spaced
  <2> QED
    BY <2>2 DEF CooldownKept
<1> QED
  BY <1>1, ShadowIsInv, PTL

\* A symbol whose last observation of the sessions before lost what pauses it is not
\* entered: the pause looks at the last sample of the symbol, and that is its exit.
THEOREM LosersAreNotRetried == ASSUME Alone, Cooldown > 0 PROVE Spec => []LoserNotRetried
<1>1. ASSUME ShadowInv
      PROVE  LoserNotRetried
  <2>1. LosersPaused(observations)
    BY <1>1 DEF ShadowInv, BookOK
  <2>2. ASSUME NEW a \in DOMAIN observations
        PROVE  LET before == Before(observations, observations[a].symbol, observations[a].opened_at)
               IN \A b \in before :
                    observations[b].quantity > 0 /\ (\A c \in before : ExitTime(c) <= ExitTime(b)) =>
                      ~Lost(observations[b].pnl, observations[b].notional, PreviousLoss, PreviousLossPct)
    <3>1. PICK before : before = Before(observations, observations[a].symbol, observations[a].opened_at)
      OBVIOUS
    <3>2. \A b \in before : b \in DOMAIN observations /\ ~IsOpen(observations[b])
      BY <3>1 DEF Before
    <3>3. \A b \in before : ExitTime(b) = observations[b].last_marked_at
      BY <1>1, <3>2, ExitTimeIs
    <3>4. NoLoserBefore(observations, observations[a].symbol, observations[a].opened_at)
      BY <2>1 DEF LosersPaused
    <3> QED
      BY <3>1, <3>3, <3>4 DEF NoLoserBefore
  <2> QED
    BY <2>2 DEF LoserNotRetried, Before
<1> QED
  BY <1>1, ShadowIsInv, PTL

\* An open observation as committed, with the amounts of its last mark, leaves no exit due,
\* though each cycle looks for one before its own sample is flushed: that sample only could
\* be a new peak.  Rescales that change the amounts in between, and the budget of the next
\* cycle, do not let one be missed.
THEOREM NoExitMissed == ASSUME Alone, Giveback > 0 PROVE Spec => []NoExitIsMissed
<1>1. ASSUME ShadowInv
      PROVE  NoExitIsMissed
  <2>1. PathsWatched(observations, samples) /\ samples \in Seq(ShadowTrainingSample)
    BY <1>1 DEF ShadowInv, BookOK, TypeInv
  <2>2. ASSUME NEW id \in DOMAIN observations, IsOpen(observations[id])
        PROVE  ExitDue(AsMarked(observations[id], id, samples), id, samples) = None
    <3>1. Watched(samples, id, AsMarked(observations[id], id, samples))
      BY <2>1, <2>2 DEF PathsWatched
    <3> QED
      BY <2>1, <3>1, WatchedIsKept
  <2> QED
    BY <2>2 DEF NoExitIsMissed
<1> QED
  BY <1>1, ShadowIsInv, PTL

-----------------------------------------------------------------------------
(***************************************************************************)
(* The reviews that are kept.                                              *)
(***************************************************************************)
\* The day before a day is one.
LEMMA DayBefore ==
  ASSUME NEW t \in Nat, 0 <= DayStart(t) - TicksPerDay
  PROVE  /\ DayStart(t) - TicksPerDay \in Nat /\ DayStart(t) - TicksPerDay <= t
         /\ DayStart(t) - TicksPerDay < DayStart(t)
         /\ DayStart(DayStart(t) - TicksPerDay) = DayStart(t) - TicksPerDay
<1>1. /\ TicksPerDay \in Nat \ {0} /\ DayStart(t) \in Nat /\ DayStart(t) <= t
  BY DayLaws, ShadowAssumption
<1>2. PICK s \in Nat : s = DayStart(t) - TicksPerDay
  BY <1>1
<1> DEFINE n == t \div TicksPerDay
           k == s \div TicksPerDay
<1>3. n \in Nat /\ k \in Nat /\ DayStart(t) = n * TicksPerDay /\ DayStart(s) = k * TicksPerDay
  BY <1>1 DEF DayStart
<1>4. DayStart(s) <= s /\ s < DayStart(s) + TicksPerDay
  BY DayLaws
<1> HIDE DEF n, k
<1>5. n * TicksPerDay \in Nat /\ k * TicksPerDay \in Nat
  BY <1>1, <1>3
<1>6. ~(n <= k)
  <2>1. ASSUME n <= k
        PROVE  FALSE
    <3>1. CASE n = k
      BY <1>1, <1>2, <1>3, <1>4, <3>1
    <3>2. CASE n < k
      <4>1. n * TicksPerDay + TicksPerDay <= k * TicksPerDay
        BY <1>1, <1>3, <3>2, DayMultiple
      <4> QED
        BY <1>1, <1>2, <1>3, <1>4, <1>5, <4>1
    <3> QED
      BY <1>3, <2>1, <3>1, <3>2
  <2> QED
    BY <2>1
<1>7. ~(k + 1 < n)
  <2>1. ASSUME k + 1 < n
        PROVE  FALSE
    <3>1. (k + 1) * TicksPerDay + TicksPerDay <= n * TicksPerDay
      BY <1>1, <1>3, <2>1, DayMultiple
    <3>2. k * TicksPerDay + TicksPerDay <= (k + 1) * TicksPerDay
      BY <1>1, <1>3, DayMultiple
    <3>3. (k + 1) * TicksPerDay \in Int
      BY <1>1, <1>3
    <3> QED
      BY <1>1, <1>2, <1>3, <1>4, <1>5, <3>1, <3>2, <3>3
  <2> QED
    BY <2>1
<1>8. n = k + 1
  BY <1>3, <1>6, <1>7
<1>9. n * TicksPerDay = k * TicksPerDay + TicksPerDay
  BY <1>1, <1>3, <1>8
<1> QED
  BY <1>1, <1>2, <1>3, <1>5, <1>9

\* What a review of a day looks at in a table, and what it says of it.
Seen(T, market, day) ==
  {id \in DOMAIN T : T[id].market = market /\ DayStart(T[id].last_marked_at) = day}

Results(T, S) == [id \in S |-> T[id].pnl]
Notionals(T, S) == [id \in S |-> T[id].notional]

ReviewOf(T, S) ==
  [shadow_hypotheses |-> Cardinality(S),
   hypothetical_notional_inr |-> SumFunctionOnSet(Notionals(T, S), S),
   hypothetical_pnl_inr |-> SumFunctionOnSet(Results(T, S), S),
   winners |-> Cardinality({id \in S : Results(T, S)[id] > 0}),
   losers |-> Cardinality({id \in S : Results(T, S)[id] < 0})]

\* It is the review of the committed table.
LEMMA ReviewIs ==
  ASSUME NEW market, NEW day
  PROVE  Review(market, day) = ReviewOf(observations, Seen(observations, market, day))
<1> DEFINE S == Seen(observations, market, day)
<1>1. \A id \in S : Results(observations, S)[id] = observations[id].pnl
  BY DEF Results
<1>2. Winners(S) = {id \in S : Results(observations, S)[id] > 0}
  BY <1>1 DEF Winners
<1>3. Losers(S) = {id \in S : Results(observations, S)[id] < 0}
  BY <1>1 DEF Losers
<1>4. Review(market, day) =
        [shadow_hypotheses |-> Cardinality(S),
         hypothetical_notional_inr |-> BookNotional(S),
         hypothetical_pnl_inr |-> BookPnl(S),
         winners |-> Cardinality(Winners(S)),
         losers |-> Cardinality(Losers(S))]
  BY Zenon DEF Review, Seen
<1> HIDE DEF S
<1>5. BookNotional(S) = SumFunctionOnSet(Notionals(observations, S), S)
  BY Zenon DEF BookNotional, Notionals
<1>6. BookPnl(S) = SumFunctionOnSet(Results(observations, S), S)
  BY Zenon DEF BookPnl, Results
<1>7. Review(market, day) = ReviewOf(observations, S)
  BY Zenon, <1>2, <1>3, <1>4, <1>5, <1>6 DEF ReviewOf
<1> QED
  BY <1>7 DEF S

\* A review is of its type.
LEMMA ReviewType ==
  ASSUME TypeInv, NEW market, NEW day
  PROVE  Review(market, day) \in DailyMarketReviewSnapshot
<1> DEFINE S == Seen(observations, market, day)
           W == {id \in S : Results(observations, S)[id] > 0}
           L == {id \in S : Results(observations, S)[id] < 0}
<1>1. PICK n \in Nat : \A id \in DOMAIN observations : id <= n
  BY DEF TypeInv, IdsBounded
<1>2. S \subseteq DOMAIN observations /\ DOMAIN observations \subseteq Nat
  BY RowsHas DEF TypeInv, Seen
<1>3. IsFiniteSet(0..n)
  BY FS_Interval
<1>4. S \subseteq 0..n
  BY <1>1, <1>2
<1>5. IsFiniteSet(S)
  BY <1>3, <1>4, FS_Subset
<1>6. \A id \in S : observations[id].pnl \in Int /\ observations[id].notional \in Nat
  BY <1>2, RowsHas DEF TypeInv, ShadowObservation
<1>7. W \subseteq S /\ L \subseteq S
  OBVIOUS
<1> HIDE DEF S, W, L
<1>8. IsFiniteSet(W) /\ IsFiniteSet(L)
  BY <1>5, <1>7, FS_Subset
<1>9. Cardinality(S) \in Nat /\ Cardinality(W) \in Nat /\ Cardinality(L) \in Nat
  BY <1>5, <1>8, FS_CardinalityType
<1>10. /\ \A id \in S : Results(observations, S)[id] \in Int
       /\ \A id \in S : Notionals(observations, S)[id] \in Nat
  BY <1>6 DEF Results, Notionals
<1>11. SumFunctionOnSet(Results(observations, S), S) \in Int
  BY <1>5, <1>10, SumType
<1>12. SumFunctionOnSet(Notionals(observations, S), S) \in Nat
  BY <1>5, <1>10, SumOfNaturals
<1>13. ReviewOf(observations, S) =
         [shadow_hypotheses |-> Cardinality(S),
          hypothetical_notional_inr |-> SumFunctionOnSet(Notionals(observations, S), S),
          hypothetical_pnl_inr |-> SumFunctionOnSet(Results(observations, S), S),
          winners |-> Cardinality(W), losers |-> Cardinality(L)]
  BY Zenon DEF ReviewOf, W, L
<1>14. ReviewOf(observations, S) \in DailyMarketReviewSnapshot
  BY <1>9, <1>11, <1>12, <1>13 DEF DailyMarketReviewSnapshot
<1> QED
  BY <1>14, ReviewIs DEF S

\* What keeps a table keeps what a review of an earlier day looks at.
LEMMA SeenKept ==
  ASSUME NEW t \in Nat, NEW T \in Rows, NEW T2 \in Rows, RowsOK(T, t), RowsOK(T2, t),
         PastKept(T, T2, DayStart(t)), NEW market, NEW day \in Nat, day < DayStart(t)
  PROVE  /\ Seen(T2, market, day) = Seen(T, market, day)
         /\ \A id \in Seen(T, market, day) :
              ~ResizedLate(T2[id]) =>
                ~ResizedLate(T[id]) /\ T2[id].pnl = T[id].pnl /\ T2[id].notional = T[id].notional
<1>0. DayStart(t) \in Nat
  BY DayLaws
<1>1. \A id \in DOMAIN T : T[id].last_marked_at \in Nat /\ T[id].last_marked_at <= t
  BY RowsHas DEF ShadowObservation, Time, RowsOK, RowOK
<1>2. \A id \in DOMAIN T2 : T2[id].last_marked_at \in Nat /\ T2[id].last_marked_at <= t
  BY RowsHas DEF ShadowObservation, Time, RowsOK, RowOK
<1>3. ASSUME NEW x \in Nat, x <= t, DayStart(x) = day
      PROVE  x < DayStart(t)
  <2>1. ASSUME DayStart(t) <= x
        PROVE  FALSE
    <3>1. DayStart(x) = DayStart(t)
      BY <1>3, <2>1, SameDay
    <3> QED
      BY <1>0, <1>3, <3>1
  <2> QED
    BY <1>0, <1>3, <2>1
<1>4. ASSUME NEW id \in Seen(T, market, day)
      PROVE  /\ id \in Seen(T2, market, day)
             /\ ~ResizedLate(T2[id]) =>
                  ~ResizedLate(T[id]) /\ T2[id].pnl = T[id].pnl /\ T2[id].notional = T[id].notional
  <2>1. /\ id \in DOMAIN T /\ T[id].market = market /\ DayStart(T[id].last_marked_at) = day
    BY DEF Seen
  <2>2. T[id].last_marked_at < DayStart(t)
    BY <1>1, <1>3, <2>1
  <2>3. /\ id \in DOMAIN T2 /\ T2[id].market = T[id].market
        /\ T2[id].last_marked_at = T[id].last_marked_at
        /\ ~ResizedLate(T2[id]) =>
             ~ResizedLate(T[id]) /\ T2[id].pnl = T[id].pnl /\ T2[id].notional = T[id].notional
    BY <2>1, <2>2 DEF PastKept, PastSame
  <2> QED
    BY <2>1, <2>3 DEF Seen
<1>5. ASSUME NEW id \in Seen(T2, market, day)
      PROVE  id \in Seen(T, market, day)
  <2>1. /\ id \in DOMAIN T2 /\ T2[id].market = market /\ DayStart(T2[id].last_marked_at) = day
    BY DEF Seen
  <2>2. T2[id].last_marked_at < DayStart(t)
    BY <1>2, <1>3, <2>1
  <2>3. id \in DOMAIN T
    BY <1>0, <1>2, <2>1, <2>2 DEF PastKept
  <2>4. /\ T2[id].market = T[id].market /\ T[id].last_marked_at <= T2[id].last_marked_at
        /\ PastSame(T[id], T2[id], DayStart(t))
    BY <2>3 DEF PastKept
  <2>5. T[id].last_marked_at < DayStart(t)
    BY <1>0, <1>1, <1>2, <2>1, <2>2, <2>3, <2>4
  <2>6. T2[id].last_marked_at = T[id].last_marked_at
    BY <2>4, <2>5 DEF PastSame
  <2> QED
    BY <2>1, <2>3, <2>4, <2>6 DEF Seen
<1> QED
  BY <1>4, <1>5

\* Of a day that is over, the review has the observations of the day, and all of the
\* review that can be had when none of them was rescaled late.
Said(x, market, day) ==
  /\ x \in DailyMarketReviewSnapshot
  /\ x.shadow_hypotheses = Review(market, day).shadow_hypotheses
  /\ ~Resized(market, day) => x = Review(market, day)

\* So what was said of an earlier day is still so when a session is committed.
LEMMA ReviewKept ==
  ASSUME ShadowInv, ShadowInv', now' = now,
         PastKept(observations, observations', DayStart(now)),
         NEW market, NEW day \in Nat, day < DayStart(now), NEW x, Said(x, market, day)
  PROVE  Said(x, market, day)'
<1>1. PICK t \in Nat, T \in Rows, T2 \in Rows : t = now /\ T = observations /\ T2 = observations'
  BY ShadowAssumption DEF ShadowInv, TypeInv, Time
<1>2. RowsOK(T, t) /\ RowsOK(T2, t)
  BY <1>1 DEF ShadowInv, BookOK
<1>3. PastKept(T, T2, DayStart(t)) /\ day < DayStart(t)
  BY <1>1
<1>4. PICK S : S = Seen(T, market, day)
  OBVIOUS
<1>5. /\ Seen(T2, market, day) = S
      /\ \A id \in S : ~ResizedLate(T2[id]) =>
           ~ResizedLate(T[id]) /\ T2[id].pnl = T[id].pnl /\ T2[id].notional = T[id].notional
  BY <1>2, <1>3, <1>4, SeenKept
<1>6. /\ Resized(market, day) <=> \E id \in S : ResizedLate(T[id])
      /\ Resized(market, day)' <=> \E id \in S : ResizedLate(T2[id])
  <2>1. Resized(market, day) <=> \E id \in S : ResizedLate(T[id])
    BY <1>1, <1>4 DEF Resized, Seen
  <2>2. Resized(market, day)' <=> \E id \in Seen(T2, market, day) : ResizedLate(T2[id])
    BY <1>1 DEF Resized, Seen, DayStart
  <2> QED
    BY <1>5, <2>1, <2>2
<1>7. Review(market, day) = ReviewOf(T, S)
  BY <1>1, <1>4, ReviewIs
<1>8. Review(market, day)' = ReviewOf(T2, S)
  <2>1. (Review(market, day) = ReviewOf(observations, Seen(observations, market, day)))'
    BY ReviewIs, PTL
  <2> QED
    BY <1>1, <1>5, <2>1
<1>9. x.shadow_hypotheses = Review(market, day)'.shadow_hypotheses
  <2>1. /\ ReviewOf(T, S).shadow_hypotheses = Cardinality(S)
        /\ ReviewOf(T2, S).shadow_hypotheses = Cardinality(S)
    BY DEF ReviewOf
  <2> QED
    BY <1>7, <1>8, <2>1 DEF Said
<1>10. ASSUME ~Resized(market, day)'
       PROVE  x = Review(market, day)'
  <2>1. \A id \in S : T2[id].pnl = T[id].pnl /\ T2[id].notional = T[id].notional
    BY <1>5, <1>6, <1>10
  <2>2. ~Resized(market, day)
    BY <1>5, <1>6, <1>10
  <2>3. Results(T2, S) = Results(T, S) /\ Notionals(T2, S) = Notionals(T, S)
    BY <2>1 DEF Results, Notionals
  <2>4. ReviewOf(T2, S) = ReviewOf(T, S)
    BY Zenon, <2>3 DEF ReviewOf
  <2>5. x = Review(market, day)
    BY <2>2 DEF Said
  <2> QED
    BY <1>7, <1>8, <2>4, <2>5
<1>11. x \in DailyMarketReviewSnapshot
  BY DEF Said
<1> QED
  BY <1>9, <1>10, <1>11 DEF Said, DailyMarketReviewSnapshot

\* What an open request has read is still so.
Pending(q) ==
  /\ q.day \in Days /\ q.day < DayStart(now) /\ q.new \subseteq Markets
  /\ \A m \in Markets : Said(q.reviews[m], m, q.day)

ReportsInv ==
  /\ DOMAIN snapshots \subseteq Markets \X {day \in Days : day < DayStart(now)}
  /\ \A key \in DOMAIN snapshots : Said(snapshots[key], key[1], key[2])
  /\ DOMAIN request = Readers
  /\ \A r \in Readers : request[r] # None => Pending(request[r])

\* A book that is as it was says what it said.
LEMMA SaidSame ==
  ASSUME UNCHANGED observations
  PROVE  \A x, m, day : Said(x, m, day)' <=> Said(x, m, day)
<1>1. \A m, day : Review(m, day)' = Review(m, day)
  BY DEF Review, Winners, Losers, BookPnl, BookNotional, DayStart
<1>2. \A m, day : Resized(m, day)' <=> Resized(m, day)
  BY DEF Resized, DayStart
<1> QED
  BY <1>1, <1>2 DEF Said, DailyMarketReviewSnapshot

\* What the reports hold of earlier days stays true when those days stay earlier, and
\* their reviews the same.
LEMMA DaysOver ==
  ASSUME ReportsInv, UNCHANGED reportVars, DayStart(now) \in Nat, DayStart(now') \in Nat,
         DayStart(now) <= DayStart(now'),
         \A m \in Markets, day \in Days : \A x :
           day < DayStart(now) /\ Said(x, m, day) => Said(x, m, day)'
  PROVE  ReportsInv'
<1>1. Days \subseteq Nat
  BY DayLaws, ShadowAssumption, SMTT(60) DEF Days, Time
<1>2. snapshots' = snapshots /\ request' = request
  BY DEF reportVars
<1>3. \A day \in Days : day < DayStart(now) => day < DayStart(now')
  BY <1>1
<1>4. ASSUME NEW key \in DOMAIN snapshots
      PROVE  /\ key \in Markets \X {day \in Days : day < DayStart(now')}
             /\ Said(snapshots[key], key[1], key[2])'
  <2>1. PICK m \in Markets, day \in Days : key = <<m, day>> /\ day < DayStart(now)
    BY DEF ReportsInv
  <2>2. PICK x : x = snapshots[key] /\ x = snapshots'[key]
    BY <1>2
  <2>3. key[1] = m /\ key[2] = day
    BY <2>1
  <2>4. Said(x, m, day)
    BY <2>2, <2>3 DEF ReportsInv
  <2>5. Said(x, m, day)'
    BY <2>1, <2>4
  <2> QED
    BY <1>3, <2>1, <2>2, <2>3, <2>5
<1>5. ASSUME NEW r \in Readers, request[r] # None
      PROVE  Pending(request[r])'
  <2>1. PICK q : q = request[r] /\ q = request'[r] /\ Pending(q)
    BY <1>2, <1>5 DEF ReportsInv
  <2>2. q.day \in Days /\ q.day < DayStart(now)
    BY <2>1 DEF Pending
  <2>3. q.day < DayStart(now')
    BY <1>3, <2>2
  <2>4. \A m \in Markets : Said(q.reviews[m], m, q.day)'
    <3>1. \A m \in Markets : Said(q.reviews[m], m, q.day)
      BY <2>1 DEF Pending
    <3> QED
      BY <2>2, <3>1
  <2>5. Pending(q)'
    <3>1. (DayStart(now))' = DayStart(now')
      BY DEF DayStart
    <3>2. Days' = Days
      BY DEF Days, DayStart
    <3> QED
      BY <2>1, <2>3, <2>4, <3>1, <3>2 DEF Pending
  <2> QED
    BY <2>1, <2>5
<1> QED
  <2>1. (DayStart(now))' = DayStart(now') /\ Days' = Days
    BY DEF DayStart, Days
  <2>2. DOMAIN snapshots' \subseteq Markets \X {day \in Days : day < DayStart(now')}
    BY <1>2, <1>4
  <2>3. \A key \in DOMAIN snapshots' : Said(snapshots[key], key[1], key[2])'
    BY <1>2, <1>4
  <2>4. DOMAIN request' = Readers
    BY <1>2 DEF ReportsInv
  <2>5. \A r \in Readers : request'[r] # None => Pending(request[r])'
    BY <1>2, <1>5
  <2> QED
    BY <2>1, <2>2, <2>3, <2>4, <2>5 DEF ReportsInv

\* A commit leaves the days before as they were.
LEMMA CommitReports ==
  ASSUME ShadowInv, ShadowInv', ReportsInv, UNCHANGED reportVars, NEW p \in Processes, Commit(p)
  PROVE  ReportsInv'
<1>1. /\ session[p] # None /\ observations' = Table(session[p]) /\ now' = now
  BY DEF Commit
<1>2. SessionInv(session[p])
  BY <1>1 DEF ShadowInv
<1>3. PastKept(observations, observations', DayStart(now))
  BY <1>1, <1>2 DEF SessionInv
<1>4. DayStart(now) \in Nat /\ DayStart(now') \in Nat /\ DayStart(now) <= DayStart(now')
  <2>1. PICK t \in Nat : t = now
    BY ShadowAssumption DEF ShadowInv, TypeInv, Time
  <2>2. DayStart(t) \in Nat
    BY <2>1, DayLaws
  <2> QED
    BY <1>1, <2>1, <2>2
<1>5. Days \subseteq Nat
  BY DayLaws, ShadowAssumption DEF Days, Time
<1>6. \A m \in Markets, day \in Days : \A x :
        day < DayStart(now) /\ Said(x, m, day) => Said(x, m, day)'
  BY <1>1, <1>3, <1>5, ReviewKept
<1> QED
  BY <1>4, <1>6, DaysOver

\* What leaves the book as it is keeps the reports, while time passes.
LEMMA SameReports ==
  ASSUME ShadowInv, ReportsInv, UNCHANGED <<observations, snapshots, request>>,
         now' = now \/ now' = now + 1
  PROVE  ReportsInv'
<1>1. PICK t \in Nat : t = now
  BY ShadowAssumption DEF ShadowInv, TypeInv, Time
<1>2. DayStart(now) \in Nat /\ DayStart(now') \in Nat /\ DayStart(now) <= DayStart(now')
  BY <1>1, DayLaws, DayGrows
<1>3. \A m \in Markets, day \in Days : \A x : Said(x, m, day) => Said(x, m, day)'
  BY SaidSame
<1> QED
  BY <1>2, <1>3, DaysOver DEF reportVars

\* A request reads reviews of a day that is over.
LEMMA ReadReports ==
  ASSUME ShadowInv, ReportsInv, NEW r \in Readers, Read(r)
  PROVE  ReportsInv'
<1> DEFINE q == [day |-> Yesterday,
                 reviews |-> [m \in Markets |-> Review(m, Yesterday)],
                 new |-> {m \in Markets : <<m, Yesterday>> \notin DOMAIN snapshots}]
<1>1. /\ Yesterday >= 0 /\ request' = [request EXCEPT ![r] = q]
      /\ UNCHANGED <<now, observations, snapshots>>
  BY DEF Read
<1>2. PICK t \in Nat : t = now /\ t \in Time
  BY ShadowAssumption DEF ShadowInv, TypeInv, Time
<1>3. PICK y : y = Yesterday /\ y = DayStart(t) - TicksPerDay
  BY <1>2 DEF Yesterday
<1>4. y \in Days /\ y < DayStart(now)
  <2>1. 0 <= DayStart(t) - TicksPerDay
    <3>1. DayStart(t) \in Nat /\ TicksPerDay \in Nat
      BY DayLaws, ShadowAssumption
    <3> QED
      BY <1>1, <1>3, <3>1
  <2>2. y \in Nat /\ y <= t /\ y < DayStart(t) /\ DayStart(y) = y
    BY <1>3, <2>1, DayBefore
  <2>3. y \in Time
    BY <1>2, <2>2, ShadowAssumption DEF Time
  <2> QED
    BY <1>2, <2>2, <2>3 DEF Days
<1>5. Pending(q)
  <2>1. q.day = y /\ q.new \subseteq Markets /\ \A m \in Markets : q.reviews[m] = Review(m, y)
    BY <1>3
  <2>2. \A m \in Markets : Review(m, y) \in DailyMarketReviewSnapshot
    BY ReviewType DEF ShadowInv
  <2> HIDE DEF q
  <2> QED
    BY <1>4, <2>1, <2>2 DEF Pending, Said
<1>6. PICK x : x = q /\ Pending(x) /\ request' = [request EXCEPT ![r] = x]
  BY <1>1, <1>5
<1>7. \A review, m, day : Said(review, m, day)' <=> Said(review, m, day)
  BY <1>1, SaidSame
<1>8. (DayStart(now))' = DayStart(now) /\ Days' = Days
  BY <1>1 DEF DayStart, Days
<1>9. \A z : Pending(z) => Pending(z)'
  BY <1>7, <1>8 DEF Pending
<1>10. DOMAIN request' = Readers /\ \A k \in Readers : request'[k] = IF k = r THEN x ELSE request[k]
  BY <1>6 DEF ReportsInv
<1>11. ASSUME NEW k \in Readers, request'[k] # None
       PROVE  Pending(request[k])'
  <2>1. PICK z : z = request'[k] /\ Pending(z)
    BY <1>6, <1>10, <1>11 DEF ReportsInv
  <2>2. Pending(z)'
    BY <1>9, <2>1
  <2> QED
    BY <2>1, <2>2
<1>12. DOMAIN snapshots' \subseteq Markets \X {day \in Days' : day < (DayStart(now))'}
  BY <1>1, <1>8 DEF ReportsInv
<1>13. \A key \in DOMAIN snapshots' : Said(snapshots[key], key[1], key[2])'
  BY <1>1, <1>7 DEF ReportsInv
<1> QED
  BY <1>10, <1>11, <1>12, <1>13 DEF ReportsInv

\* What it stores is true, since what it has read still is.
LEMMA StoreReports ==
  ASSUME ShadowInv, ReportsInv, NEW r \in Readers, Store(r) \/ Fail(r)
  PROVE  ReportsInv'
<1>1. /\ request[r] # None /\ request' = [request EXCEPT ![r] = None]
      /\ UNCHANGED <<now, observations>>
  BY DEF Store, Fail
<1>2. PICK q : q = request[r] /\ Pending(q)
  BY <1>1 DEF ReportsInv
<1>7. \A x, m, day : Said(x, m, day)' <=> Said(x, m, day)
  BY <1>1, SaidSame
<1>8. (DayStart(now))' = DayStart(now) /\ Days' = Days
  BY <1>1 DEF DayStart, Days
<1>9. \A z : Pending(z) => Pending(z)'
  BY <1>7, <1>8 DEF Pending
<1>10. DOMAIN request' = Readers /\ \A k \in Readers : request'[k] = IF k = r THEN None ELSE request[k]
  BY <1>1 DEF ReportsInv
<1>11. ASSUME NEW k \in Readers, request'[k] # None
       PROVE  Pending(request[k])'
  <2>1. PICK z : z = request'[k] /\ Pending(z)
    BY <1>10, <1>11 DEF ReportsInv
  <2>2. Pending(z)'
    BY <1>9, <2>1
  <2> QED
    BY <2>1, <2>2
<1>12. /\ DOMAIN snapshots' \subseteq Markets \X {day \in Days : day < DayStart(now)}
       /\ \A key \in DOMAIN snapshots' : Said(snapshots'[key], key[1], key[2])
  <2>1. CASE Fail(r)
    BY <2>1 DEF Fail, ReportsInv
  <2>2. CASE Store(r)
    <3>1. snapshots' = [key \in DOMAIN snapshots \cup (Markets \X {q.day}) |->
                          IF key[2] = q.day THEN q.reviews[key[1]] ELSE snapshots[key]]
      BY <1>2, <2>2 DEF Store
    <3>2. q.day \in Days /\ q.day < DayStart(now) /\ \A m \in Markets : Said(q.reviews[m], m, q.day)
      BY <1>2 DEF Pending
    <3>3. DOMAIN snapshots' = DOMAIN snapshots \cup (Markets \X {q.day})
      BY <3>1
    <3>4. DOMAIN snapshots' \subseteq Markets \X {day \in Days : day < DayStart(now)}
      BY <3>2, <3>3 DEF ReportsInv
    <3>5. ASSUME NEW key \in DOMAIN snapshots'
          PROVE  Said(snapshots'[key], key[1], key[2])
      <4>1. PICK m \in Markets, day \in Days : key = <<m, day>>
        BY <3>4
      <4>2. key[1] = m /\ key[2] = day
        BY <4>1
      <4>3. CASE day = q.day
        BY <3>1, <3>2, <3>3, <4>2, <4>3
      <4>4. CASE day # q.day
        <5>1. key \in DOMAIN snapshots
          BY <3>3, <4>2, <4>4
        <5>2. snapshots'[key] = snapshots[key]
          BY <3>1, <4>2, <4>4, <5>1
        <5> QED
          BY <5>1, <5>2 DEF ReportsInv
      <4> QED
        BY <4>3, <4>4
    <3> QED
      BY <3>4, <3>5
  <2> QED
    BY <2>1, <2>2
<1>13. /\ DOMAIN snapshots' \subseteq Markets \X {day \in Days' : day < (DayStart(now))'}
       /\ \A key \in DOMAIN snapshots' : Said(snapshots[key], key[1], key[2])'
  BY <1>7, <1>8, <1>12
<1> QED
  BY <1>10, <1>11, <1>13 DEF ReportsInv

\* Every step of a cycle or a request keeps the reports.
LEMMA ReportsStep ==
  ASSUME ShadowInv, ShadowInv', ReportsInv, [ReportsNext]_allVars
  PROVE  ReportsInv'
<1>1. ASSUME Next, UNCHANGED reportVars
      PROVE  ReportsInv'
  <2>0. UNCHANGED <<snapshots, request>>
    BY <1>1 DEF reportVars
  <2>1. ASSUME NEW p \in Processes, Commit(p)
        PROVE  ReportsInv'
    BY <1>1, <2>1, CommitReports
  <2>2. ASSUME NEW p \in Processes, Rollback(p)
        PROVE  ReportsInv'
    BY <2>0, <2>2, SameReports DEF Rollback
  <2>3. ASSUME NEW p \in Loops, LoopStarts(p) \/ LoopDies(p)
        PROVE  ReportsInv'
    BY <2>0, <2>3, SameReports DEF LoopStarts, LoopDies
  <2>4. ASSUME NEW p \in Loops \cup Callers, Cycle(p)
        PROVE  ReportsInv'
    <3>1. UNCHANGED <<now, observations>>
      BY <2>4 DEF Cycle, BeginCycle, StartMarket, SymbolBlocked, EntryBlocked, MarkOpen, OpenNew
    <3> QED
      BY <2>0, <3>1, SameReports, SMTT(60)
  <2>5. ASSUME NEW p \in Scripts, Rescale(p)
        PROVE  ReportsInv'
    BY <2>0, <2>5, SameReports DEF Rescale
  <2>6. CASE Tick
    BY <2>0, <2>6, SameReports DEF Tick
  <2> QED
    BY <1>1, <2>1, <2>2, <2>3, <2>4, <2>5, <2>6 DEF Next
<1>2. ASSUME NEW r \in Readers, Read(r) \/ Store(r) \/ Fail(r)
      PROVE  ReportsInv'
  BY <1>2, ReadReports, StoreReports
<1>3. CASE UNCHANGED allVars
  BY <1>3, SameReports DEF allVars
<1> QED
  BY <1>1, <1>2, <1>3 DEF ReportsNext

\* There is no review at first.
LEMMA ReportsInvInit ==
  ASSUME ReportsInit
  PROVE  ShadowInv /\ ReportsInv
<1>1. ShadowInv
  BY ShadowInvInit DEF ReportsInit
<1>2. DOMAIN snapshots = {} /\ DOMAIN request = Readers /\ \A r \in Readers : request[r] = None
  BY DEF ReportsInit
<1> QED
  BY <1>1, <1>2 DEF ReportsInv

\* The requests of the dashboard leave the book alone.
LEMMA BookSteps == [ReportsNext]_allVars => [Next]_vars
  BY DEF ReportsNext, Read, Store, Fail, allVars, vars

\* The book stays in order next to the requests, and what the reviews they keep say of a
\* day stays so.
THEOREM ReviewsAreInv == ASSUME Alone PROVE ReportsSpec => [](ShadowInv /\ ReportsInv)
<1>1. ReportsInit => ShadowInv /\ ReportsInv
  BY ReportsInvInit
<1>2. ShadowInv /\ ReportsInv /\ [ReportsNext]_allVars => (ShadowInv /\ ReportsInv)'
  <2>1. ASSUME ShadowInv, ReportsInv, [ReportsNext]_allVars
        PROVE  ShadowInv'
    BY <2>1, BookSteps, ShadowInvStep
  <2>2. ASSUME ShadowInv, ReportsInv, [ReportsNext]_allVars
        PROVE  ReportsInv'
    BY <2>1, <2>2, ReportsStep
  <2> QED
    BY <2>1, <2>2
<1> QED
  BY <1>1, <1>2, PTL DEF ReportsSpec

\* A review once stored is final: neither a late mark, nor the close of a stale
\* observation, which keeps the time of its last mark, nor a request that was slower
\* than the cycles makes it differ from what the book says of that day.  A rescale of a row
\* that was left open over night may change the amounts of its day, not its observations.
THEOREM SnapshotsAreFinal == ASSUME Alone PROVE ReportsSpec => []SnapshotIsFinal
<1>1. ReportsInv => SnapshotIsFinal
  BY DEF ReportsInv, Said, SnapshotIsFinal
<1> QED
  BY <1>1, ReviewsAreInv, PTL

\* What is stored is of the type of its row, and of a day that is over.
THEOREM ReportsTypeCorrect == ASSUME Alone PROVE ReportsSpec => []ReportsTypeOK
<1>1. ASSUME ShadowInv, ReportsInv
      PROVE  ReportsTypeOK
  <2>1. \A key \in DOMAIN snapshots : snapshots[key] \in DailyMarketReviewSnapshot
    BY <1>1 DEF ReportsInv, Said
  <2>2. \A r \in Readers :
          request[r] # None => request[r].day \in Days /\ request[r].new \subseteq Markets
    BY <1>1 DEF ReportsInv, Pending
  <2> QED
    BY <1>1, <2>1, <2>2 DEF ReportsInv, ReportsTypeOK
<1> QED
  BY <1>1, ReviewsAreInv, PTL
-----------------------------------------------------------------------------
(***************************************************************************)
(* The reports on samples tell how the cycles ended an observation.        *)
(***************************************************************************)
Path(S, id) == {i \in DOMAIN S : S[i].observation = id}

StopSeen(S, id, o) == \E i \in Path(S, id) : S[i].price <= o.metadata.stop_loss
TargetSeen(S, id, o) == \E i \in Path(S, id) : S[i].price >= o.metadata.take_profit

\* The profit is one to be booked, if neither stop nor target was reached.
Bookable(o) ==
  LET distance == o.metadata.take_profit - o.entry_price
  IN /\ o.pnl > 0 /\ distance > 0
     /\ o.pnl >= BookingPnl \/ AtLeast(o.pnl, BookingPct, o.notional)
     /\ AtLeast(o.current_price - o.entry_price, BookingProgress, distance)

\* What the samples tell of an observation, they tell of it as its last mark left it.
LEMMA RowIsTold ==
  ASSUME ShadowInv, Giveback > 0, NEW id \in DOMAIN observations,
         NEW row \in ShadowObservation, row = observations[id],
         NEW o, o = AsMarked(row, id, samples)
  PROVE  /\ o \in ShadowObservation /\ Told(samples, id, o)
         /\ o.symbol = row.symbol /\ o.opened_at = row.opened_at /\ o.status = row.status
         /\ o.entry_price = row.entry_price /\ o.current_price = row.current_price
         /\ o.metadata = row.metadata /\ o.last_marked_at = row.last_marked_at
         /\ ~IsOpen(row) => o = row
<1>1. Told(samples, id, o) /\ samples \in Seq(ShadowTrainingSample)
  BY DEF ShadowInv, TypeInv, BookOK, PathsTold
<1>2. PICK l : LastIs(samples, id, l) /\ Shows(samples[l], o)
  BY <1>1 DEF Told
<1>3. o.quantity \in Nat /\ o.notional \in Nat /\ o.pnl \in Int
  BY <1>1, <1>2, SampleFields DEF LastIs, Shows
<1>4. o = [row EXCEPT !.quantity = o.quantity, !.notional = o.notional, !.pnl = o.pnl]
  BY <1>3 DEF AsMarked, ShadowObservation
<1>5. o \in ShadowObservation
  BY <1>3, <1>4 DEF ShadowObservation
<1> QED
  BY <1>1, <1>5, MarkedHas

\* The samples of a symbol that was entered once on a day are those of its observation.
LEMMA GroupIsPath ==
  ASSUME ShadowInv, NEW id \in DOMAIN observations, NEW o, o = observations[id],
         EnteredOnce(o.symbol, DayStart(o.opened_at)), NEW m, Told(samples, id, m)
  PROVE  Group(o.symbol, DayStart(o.opened_at)) = Path(samples, id)
<1> DEFINE group == Group(o.symbol, DayStart(o.opened_at))
           seen == {samples[i].observation : i \in group}
           f == [i \in group |-> samples[i].observation]
<1>1. samples \in Seq(ShadowTrainingSample)
  BY DEF ShadowInv, TypeInv
<1>2. \A i \in DOMAIN samples :
        samples[i].observation = id => i \in group
  <2>1. \A i \in DOMAIN samples : samples[i].observation = id => samples[i].symbol = o.symbol
    BY DEF ShadowInv, BookOK, SamplesFit, Fits
  <2>2. \A i \in DOMAIN samples :
          samples[i].observation = id => DayStart(samples[i].sample_at) = DayStart(o.opened_at)
    BY SampleDay
  <2> QED
    BY <2>1, <2>2 DEF Group
<1>3. IsFiniteSet(group)
  <2>1. group \in SUBSET Nat /\ \A j \in group : j <= Len(samples)
    BY <1>1, ElementOf DEF Group
  <2>2. Len(samples) \in Nat
    BY <1>1, ElementOf
  <2> QED
    BY <2>1, <2>2, FS_BoundedSetOfNaturals
<1>4. Cardinality(seen) = 1
  BY DEF EnteredOnce
<1>5. IsFiniteSet(seen)
  <2>1. f \in Surjection(group, seen)
    BY DEF Surjection
  <2> HIDE DEF f, seen, group
  <2> QED
    BY <1>3, <2>1, FS_Surjection
<1>6. PICK x : seen = {x}
  <2> HIDE DEF seen
  <2> QED
    BY <1>4, <1>5, FS_Singleton
<1>7. PICK l \in DOMAIN samples : samples[l].observation = id
  BY DEF Told, LastIs
<1>8. x = id
  <2>1. samples[l].observation \in seen
    BY <1>2, <1>7
  <2> QED
    BY <1>6, <1>7, <2>1
<1>9. \A i \in group : samples[i].observation = id
  <2>1. \A i \in group : samples[i].observation \in seen
    OBVIOUS
  <2> QED
    BY <1>6, <1>8, <2>1
<1>10. \A i \in group : i \in DOMAIN samples
  BY DEF Group
<1> HIDE DEF group
<1>11. group = Path(samples, id)
  BY <1>2, <1>9, <1>10 DEF Path
<1> QED
  BY <1>11 DEF group

\* Of samples of an observation there is one that is first, by time and by insertion.
LEMMA FirstIsOne ==
  ASSUME samples \in Seq(ShadowTrainingSample), NEW id, Ordered(samples, id),
         NEW R \in SUBSET Path(samples, id), R # {}
  PROVE  FirstOf(R) \in R
<1>1. \A i \in DOMAIN samples : i \in Nat /\ samples[i].sample_at \in Int
  BY SampleFields
<1>2. \A i \in R : i \in DOMAIN samples /\ samples[i].observation = id
  BY DEF Path
<1>3. R \in SUBSET Nat
  BY <1>1, <1>2
<1>4. PICK x \in R : \A y \in R : x <= y
  BY <1>3, Smallest
<1>5. ASSUME NEW j \in R \ {x}
      PROVE  Earlier(x, j)
  <2>1. x < j /\ samples[x].sample_at \in Int /\ samples[j].sample_at \in Int
    BY <1>1, <1>2, <1>4
  <2>2. samples[x].sample_at <= samples[j].sample_at
    BY <1>2, <2>1 DEF Ordered
  <2> QED
    BY <2>1, <2>2 DEF Earlier
<1>6. \E i \in R : \A j \in R \ {i} : Earlier(i, j)
  BY <1>5
<1> QED
  BY <1>6 DEF FirstOf

\* The last of them is the last that was inserted.
LEMMA LastIsOne ==
  ASSUME samples \in Seq(ShadowTrainingSample), NEW id, Ordered(samples, id),
         NEW l, LastIs(samples, id, l)
  PROVE  LastOf(Path(samples, id)) = l
<1> DEFINE Final(i) == \A j \in Path(samples, id) \ {i} : Earlier(j, i)
<1>1. \A i \in DOMAIN samples : i \in Nat /\ samples[i].sample_at \in Int
  BY SampleFields
<1>2. \A i \in Path(samples, id) : i \in DOMAIN samples /\ samples[i].observation = id
  BY DEF Path
<1>3. l \in Path(samples, id) /\ \A j \in Path(samples, id) \ {l} : j < l
  BY DEF LastIs, Path
<1>4. \A j \in Path(samples, id) \ {l} : samples[j].sample_at <= samples[l].sample_at
  BY <1>2, <1>3 DEF Ordered
<1>5. Final(l)
  BY <1>1, <1>2, <1>3, <1>4 DEF Earlier
<1>6. ASSUME NEW k \in Path(samples, id), Final(k)
      PROVE  k = l
  <2>1. SUFFICES ASSUME k # l
                 PROVE  FALSE
    OBVIOUS
  <2>2. Earlier(l, k)
    BY <1>3, <1>6, <2>1
  <2>3. k < l /\ samples[k].sample_at <= samples[l].sample_at
    BY <1>3, <1>4, <2>1
  <2>4. /\ k \in Nat /\ l \in Nat
        /\ samples[k].sample_at \in Int /\ samples[l].sample_at \in Int
    BY <1>1, <1>2, <1>3
  <2> QED
    BY <2>2, <2>3, <2>4 DEF Earlier
<1>7. LastOf(Path(samples, id)) = CHOOSE i \in Path(samples, id) : Final(i)
  BY DEF LastOf
<1> HIDE DEF Final
<1> QED
  BY <1>3, <1>5, <1>6, <1>7

\* What the profit protection looks at comes first to last.
LEMMA ActionOf ==
  ASSUME NEW stop \in BOOLEAN, NEW target \in BOOLEAN, NEW booking \in BOOLEAN,
         NEW giveback \in BOOLEAN, NEW can_lock, NEW pnl, NEW peak_pnl,
         NEW a, a = Action(stop, target, booking, giveback, can_lock, pnl, peak_pnl)
  PROVE  /\ stop => a = "EXIT_STOP_LOSS"
         /\ ~stop /\ target => a = "EXIT_TAKE_PROFIT"
         /\ ~stop /\ ~target /\ booking => a = "EXIT_PROFIT_BOOKING"
         /\ ~stop /\ ~target /\ ~booking /\ giveback => a = "EXIT_PROFIT_GIVEBACK"
         /\ ~stop /\ ~target /\ ~booking /\ ~giveback => a \notin ExitActions
  BY DEF Action, ExitActions

\* The recommendation of the profit protection, by the observation of its samples.
LEMMA RecommendedIs ==
  ASSUME samples \in Seq(ShadowTrainingSample), NEW id \in DOMAIN observations,
         NEW o, Told(samples, id, o), o.metadata = observations[id].metadata,
         o.entry_price = observations[id].entry_price, NEW symbol, NEW day,
         Group(symbol, day) = Path(samples, id), NEW i, i = Peak(samples, Path(samples, id)),
         NEW a, a = RecommendedExit(symbol, day)
  PROVE  /\ StopSeen(samples, id, o) => a = "EXIT_STOP_LOSS"
         /\ ~StopSeen(samples, id, o) =>
              /\ TargetSeen(samples, id, o) => a = "EXIT_TAKE_PROFIT"
              /\ ~TargetSeen(samples, id, o) =>
                   /\ Bookable(o) => a = "EXIT_PROFIT_BOOKING"
                   /\ ~Bookable(o) =>
                        IF HasGivenBack(samples[i], o.pnl) THEN a = "EXIT_PROFIT_GIVEBACK"
                        ELSE a \notin ExitActions
<1> DEFINE path == Path(samples, id)
           first == FirstOf(path)
<1>1. PICK l : LastIs(samples, id, l) /\ Shows(samples[l], o)
  BY DEF Told
<1>2. LastOf(path) = l
  BY <1>1, LastIsOne DEF Told
<1>3. l \in path
  BY <1>1 DEF LastIs, Path
<1>4. first \in path
  BY <1>3, FirstIsOne DEF Told
<1>5. Levels(l) = o.metadata /\ EntryPrice(first) = o.entry_price
  BY <1>3, <1>4 DEF Path, Levels, EntryPrice
<1>6. Peak(samples, path) = i
  OBVIOUS
<1>7. BookingTriggered(samples[l], o.entry_price, o.metadata.take_profit) <=> Bookable(o)
  BY <1>1 DEF BookingTriggered, Bookable, Shows
<1> DEFINE stop == \E k \in path : samples[k].price <= Levels(l).stop_loss
           target == \E k \in path : samples[k].price >= Levels(l).take_profit
           booking == BookingTriggered(samples[l], EntryPrice(first), Levels(l).take_profit)
           giveback == HasGivenBack(samples[i], samples[l].pnl)
           can_lock == CanLockProfit(samples[i])
<1>8. a = Action(stop, target, booking, giveback, can_lock, samples[l].pnl, samples[i].pnl)
  BY <1>2, <1>6 DEF RecommendedExit
<1>9. /\ stop \in BOOLEAN /\ target \in BOOLEAN
      /\ booking \in BOOLEAN /\ giveback \in BOOLEAN
  BY DEF BookingTriggered, HasGivenBack
<1>10. /\ stop <=> StopSeen(samples, id, o)
       /\ target <=> TargetSeen(samples, id, o)
  BY <1>5 DEF StopSeen, TargetSeen
<1>11. booking <=> Bookable(o)
  BY <1>5, <1>7
<1>12. giveback <=> HasGivenBack(samples[i], o.pnl)
  BY <1>1 DEF Shows
<1> HIDE DEF stop, target, booking, giveback, can_lock
<1> QED
  BY <1>8, <1>9, <1>10, <1>11, <1>12, ActionOf

\* The outcome in the training report, by the observation of its samples.
LEMMA OutcomeIs ==
  ASSUME samples \in Seq(ShadowTrainingSample), NEW id \in DOMAIN observations,
         NEW o, Told(samples, id, o), o.metadata = observations[id].metadata,
         o.entry_price = observations[id].entry_price, NEW symbol, NEW day,
         Group(symbol, day) = Path(samples, id)
  PROVE  /\ ~StopSeen(samples, id, o) /\ ~TargetSeen(samples, id, o)
              => Outcome(symbol, day) = "TIME_EXIT"
         /\ StopSeen(samples, id, o) /\ ~TargetSeen(samples, id, o)
              => Outcome(symbol, day) = "STOP_TOUCHED"
         /\ ~StopSeen(samples, id, o) /\ TargetSeen(samples, id, o)
              => Outcome(symbol, day) = "TARGET_TOUCHED"
<1> DEFINE path == Path(samples, id)
           stopped(i) == samples[i].price <= Levels(i).stop_loss
           touched == {i \in path : stopped(i) \/ samples[i].price >= Levels(i).take_profit}
<1>1. \A i \in path : Levels(i) = o.metadata
  BY DEF Path, Levels
<1>2. Outcome(symbol, day) =
        IF touched = {} THEN "TIME_EXIT"
        ELSE IF stopped(FirstOf(touched)) THEN "STOP_TOUCHED" ELSE "TARGET_TOUCHED"
  BY DEF Outcome
<1>3. /\ \A i \in path : stopped(i) <=> samples[i].price <= o.metadata.stop_loss
      /\ \A i \in path : i \in touched <=>
           stopped(i) \/ samples[i].price >= o.metadata.take_profit
  BY <1>1
<1>4. touched \subseteq path
  OBVIOUS
<1> HIDE DEF stopped, touched
<1>5. touched # {} => FirstOf(touched) \in touched
  BY <1>4, FirstIsOne DEF Told
<1>6. touched # {} <=> StopSeen(samples, id, o) \/ TargetSeen(samples, id, o)
  BY <1>3, <1>4 DEF StopSeen, TargetSeen
<1>7. ASSUME StopSeen(samples, id, o), ~TargetSeen(samples, id, o)
      PROVE  stopped(FirstOf(touched))
  BY <1>3, <1>4, <1>5, <1>6, <1>7 DEF TargetSeen
<1>8. ASSUME ~StopSeen(samples, id, o), TargetSeen(samples, id, o)
      PROVE  ~stopped(FirstOf(touched))
  BY <1>3, <1>4, <1>5, <1>6, <1>8 DEF StopSeen
<1> QED
  BY <1>2, <1>6, <1>7, <1>8

\* The level an observation is closed for is on its last sample; no other sample reached
\* a level; and what was closed for its path, or is open, reached none.  A stale exit with
\* other amounts than those of the last mark may show a profit to be booked.
LEMMA LevelsSeen ==
  ASSUME samples \in Seq(ShadowTrainingSample), NEW id, NEW o \in ShadowObservation,
         Told(samples, id, o), Invested(samples, id)
  PROVE  /\ StopSeen(samples, id, o) <=> o.status = "EXIT_STOP_LOSS"
         /\ TargetSeen(samples, id, o) <=> o.status = "EXIT_TAKE_PROFIT"
         /\ o.status \notin {"EXIT_STOP_LOSS", "EXIT_TAKE_PROFIT"} /\ Judged(o)
              => (Bookable(o) <=> o.status = "EXIT_PROFIT_BOOKING")
<1>1. PICK l : LastIs(samples, id, l) /\ Shows(samples[l], o)
  BY DEF Told
<1>2. /\ l \in Path(samples, id) /\ samples[l].price = o.current_price
      /\ samples[l].quantity = o.quantity
  BY <1>1 DEF LastIs, Path, Shows
<1>3. o.quantity > 0
  BY <1>2 DEF Invested, Path
<1>4. /\ o.current_price \in Nat /\ o.quantity \in Nat
      /\ o.metadata.stop_loss \in Nat /\ o.metadata.take_profit \in Nat
  BY DEF ShadowObservation, Metadata
<1>5. \A i \in Path(samples, id) :
        /\ o.status # "EXIT_STOP_LOSS" => o.metadata.stop_loss < samples[i].price
        /\ o.status # "EXIT_TAKE_PROFIT" => samples[i].price < o.metadata.take_profit
  BY DEF Told, Between, Invested, Path
<1>6. \A i \in Path(samples, id) : samples[i].price \in Nat
  <2>1. \A i \in DOMAIN samples : samples[i] \in ShadowTrainingSample
    BY SampleFields
  <2> QED
    BY <2>1 DEF Path, ShadowTrainingSample
<1>7. Judged(o) => LevelExit(o) = IF o.status \in LevelExits THEN o.status ELSE None
  BY DEF Told, LevelsTold
<1>7a. o.status = "EXIT_STOP_LOSS" \/ o.status = "EXIT_TAKE_PROFIT" => Judged(o)
  BY DEF Judged
<1>8. LevelExit(o) = IF o.current_price <= o.metadata.stop_loss THEN "EXIT_STOP_LOSS"
                     ELSE IF o.current_price >= o.metadata.take_profit THEN "EXIT_TAKE_PROFIT"
                     ELSE IF Bookable(o) THEN "EXIT_PROFIT_BOOKING"
                     ELSE None
  BY <1>3, <1>4 DEF LevelExit, Bookable
<1>9. None \notin LevelExits
  BY ShadowAssumption DEF LevelExits, ExitActions
<1>10. StopSeen(samples, id, o) <=> o.status = "EXIT_STOP_LOSS"
  <2>1. ASSUME o.status = "EXIT_STOP_LOSS"
        PROVE  StopSeen(samples, id, o)
    <3>1. LevelExit(o) = "EXIT_STOP_LOSS"
      BY <1>7, <1>7a, <2>1 DEF LevelExits
    <3>2. o.current_price <= o.metadata.stop_loss
      BY <1>8, <1>9, <3>1 DEF LevelExits
    <3> QED
      BY <1>2, <3>2 DEF StopSeen
  <2>2. ASSUME o.status # "EXIT_STOP_LOSS"
        PROVE  ~StopSeen(samples, id, o)
    BY <1>4, <1>5, <1>6, <2>2 DEF StopSeen
  <2> QED
    BY <2>1, <2>2
<1>11. TargetSeen(samples, id, o) <=> o.status = "EXIT_TAKE_PROFIT"
  <2>1. ASSUME o.status = "EXIT_TAKE_PROFIT"
        PROVE  TargetSeen(samples, id, o)
    <3>1. LevelExit(o) = "EXIT_TAKE_PROFIT"
      BY <1>7, <1>7a, <2>1 DEF LevelExits
    <3>2. o.current_price >= o.metadata.take_profit
      BY <1>8, <1>9, <3>1 DEF LevelExits
    <3> QED
      BY <1>2, <3>2 DEF TargetSeen
  <2>2. ASSUME o.status # "EXIT_TAKE_PROFIT"
        PROVE  ~TargetSeen(samples, id, o)
    BY <1>4, <1>5, <1>6, <2>2 DEF TargetSeen
  <2> QED
    BY <2>1, <2>2
<1>12. ASSUME o.status # "EXIT_STOP_LOSS", o.status # "EXIT_TAKE_PROFIT", Judged(o)
       PROVE  Bookable(o) <=> o.status = "EXIT_PROFIT_BOOKING"
  <2>1. LevelExit(o) # "EXIT_STOP_LOSS" /\ LevelExit(o) # "EXIT_TAKE_PROFIT"
    BY <1>7, <1>9, <1>12 DEF LevelExits
  <2>2. LevelExit(o) = IF Bookable(o) THEN "EXIT_PROFIT_BOOKING" ELSE None
    BY <1>8, <2>1
  <2>3. LevelExit(o) = "EXIT_PROFIT_BOOKING" <=> o.status = "EXIT_PROFIT_BOOKING"
    BY <1>7, <1>9, <1>12 DEF LevelExits
  <2> QED
    BY <1>9, <2>2, <2>3 DEF LevelExits
<1> QED
  BY <1>10, <1>11, <1>12

\* Unless an observation was closed for a level, the peak of its samples was given back
\* if that is what it was closed for.
LEMMA PeakSeen ==
  ASSUME ShadowInv, Giveback > 0, NEW id \in DOMAIN observations,
         NEW o, o = AsMarked(observations[id], id, samples), o.status \notin LevelExits,
         Judged(o)
  PROVE  HasGivenBack(samples[Peak(samples, Path(samples, id))], o.pnl)
           <=> o.status = "EXIT_PROFIT_GIVEBACK"
<1>1. o \in ShadowObservation /\ Told(samples, id, o) /\ samples \in Seq(ShadowTrainingSample)
  BY RowsHas, RowIsTold DEF ShadowInv, TypeInv
<1>1a. IsOpen(o) => IsOpen(observations[id])
  BY RowsHas, MarkedHas DEF ShadowInv, TypeInv
<1>2. \E i : PeakIs(samples, id, i)
              /\ (HasGivenBack(samples[i], o.pnl) <=> o.status = "EXIT_PROFIT_GIVEBACK")
  <2>1. CASE IsOpen(o)
    BY <1>1a, <2>1 DEF ShadowInv, BookOK, PathsWatched, Watched, IsOpen
  <2>2. CASE o.status \in PathExits
    BY <1>1, <2>2 DEF Told, PeakTold
  <2>3. o.status \in Status
    BY <1>1 DEF ShadowObservation
  <2> QED
    BY <2>1, <2>2, <2>3 DEF Status, ExitActions, IsOpen, PathExits, LevelExits
<1>3. PICK i : PeakIs(samples, id, i)
              /\ (HasGivenBack(samples[i], o.pnl) <=> o.status = "EXIT_PROFIT_GIVEBACK")
  BY <1>2
<1>4. Peak(samples, Path(samples, id)) = i
  BY <1>1, <1>3, PeakIsChosen DEF Path
<1> QED
  BY <1>3, <1>4

\* A book in order is one the reports agree with.
LEMMA OrderIsTold ==
  ASSUME ShadowInv, Giveback > 0
  PROVE  ReportsAgreeWithTheBook
<1> SUFFICES ASSUME NEW id \in DOMAIN observations, NEW row, row = observations[id],
                    NEW day, day = DayStart(row.opened_at), EnteredOnce(row.symbol, day),
                    NEW a, a = RecommendedExit(row.symbol, day)
             PROVE  /\ IF row.status = "EXIT_SESSION_CLOSE" /\ row.metadata.rescaled
                       THEN a \notin {"EXIT_STOP_LOSS", "EXIT_TAKE_PROFIT"}
                       ELSE IF row.status \in {"OPEN_OBSERVATION", "EXIT_SESSION_CLOSE"}
                       THEN a \notin ExitActions
                       ELSE a = row.status
                    /\ Outcome(row.symbol, day) =
                         CASE row.status = "EXIT_STOP_LOSS" -> "STOP_TOUCHED"
                           [] row.status = "EXIT_TAKE_PROFIT" -> "TARGET_TOUCHED"
                           [] OTHER -> "TIME_EXIT"
  BY DEF ReportsAgreeWithTheBook
<1>0. samples \in Seq(ShadowTrainingSample) /\ row \in ShadowObservation
  BY RowsHas DEF ShadowInv, TypeInv
<1>1. PICK o : o = AsMarked(row, id, samples)
  OBVIOUS
<1>1a. /\ o \in ShadowObservation /\ Told(samples, id, o)
       /\ o.status = row.status /\ o.metadata = row.metadata
       /\ o.entry_price = row.entry_price
  BY <1>0, <1>1, RowIsTold
<1>2. Group(row.symbol, day) = Path(samples, id)
  BY <1>1a, GroupIsPath
<1>3. Invested(samples, id)
  BY <1>2 DEF EnteredOnce, Invested, Path
<1>4. /\ StopSeen(samples, id, o) <=> o.status = "EXIT_STOP_LOSS"
      /\ TargetSeen(samples, id, o) <=> o.status = "EXIT_TAKE_PROFIT"
      /\ o.status \notin {"EXIT_STOP_LOSS", "EXIT_TAKE_PROFIT"} /\ Judged(o)
           => (Bookable(o) <=> o.status = "EXIT_PROFIT_BOOKING")
  BY <1>0, <1>1a, <1>3, LevelsSeen
<1>5. PICK i : i = Peak(samples, Path(samples, id))
  OBVIOUS
<1>5a. o.status \notin LevelExits /\ Judged(o) =>
         (HasGivenBack(samples[i], o.pnl) <=> o.status = "EXIT_PROFIT_GIVEBACK")
  BY <1>1, <1>5, PeakSeen
<1>6. o.status \in {"OPEN_OBSERVATION", "EXIT_STOP_LOSS", "EXIT_TAKE_PROFIT",
                    "EXIT_PROFIT_BOOKING", "EXIT_PROFIT_GIVEBACK", "EXIT_SESSION_CLOSE"}
  BY <1>1a DEF ShadowObservation, Status, ExitActions
<1>7. Judged(o) <=> ~(row.status = "EXIT_SESSION_CLOSE" /\ row.metadata.rescaled)
  BY <1>1a DEF Judged
<1>8. /\ StopSeen(samples, id, o) => a = "EXIT_STOP_LOSS"
      /\ ~StopSeen(samples, id, o) =>
           /\ TargetSeen(samples, id, o) => a = "EXIT_TAKE_PROFIT"
           /\ ~TargetSeen(samples, id, o) =>
                /\ Bookable(o) => a = "EXIT_PROFIT_BOOKING"
                /\ ~Bookable(o) =>
                     IF HasGivenBack(samples[i], o.pnl) THEN a = "EXIT_PROFIT_GIVEBACK"
                     ELSE a \notin ExitActions
  BY <1>0, <1>1a, <1>2, <1>5, RecommendedIs
<1>9. /\ ~StopSeen(samples, id, o) /\ ~TargetSeen(samples, id, o)
           => Outcome(row.symbol, day) = "TIME_EXIT"
      /\ StopSeen(samples, id, o) /\ ~TargetSeen(samples, id, o)
           => Outcome(row.symbol, day) = "STOP_TOUCHED"
      /\ ~StopSeen(samples, id, o) /\ TargetSeen(samples, id, o)
           => Outcome(row.symbol, day) = "TARGET_TOUCHED"
  BY <1>0, <1>1a, <1>2, OutcomeIs
<1>10. CASE Judged(o)
  <2>1. IF o.status \in {"OPEN_OBSERVATION", "EXIT_SESSION_CLOSE"} THEN a \notin ExitActions
        ELSE a = o.status
    BY <1>4, <1>5a, <1>6, <1>8, <1>10 DEF LevelExits
  <2>2. /\ ~(row.status = "EXIT_SESSION_CLOSE" /\ row.metadata.rescaled)
        /\ row.status \in {"OPEN_OBSERVATION", "EXIT_SESSION_CLOSE"} => a \notin ExitActions
        /\ row.status \notin {"OPEN_OBSERVATION", "EXIT_SESSION_CLOSE"} => a = row.status
    BY <1>1a, <1>7, <1>10, <2>1
  <2>3. Outcome(row.symbol, day) =
          CASE row.status = "EXIT_STOP_LOSS" -> "STOP_TOUCHED"
            [] row.status = "EXIT_TAKE_PROFIT" -> "TARGET_TOUCHED"
            [] OTHER -> "TIME_EXIT"
    BY <1>1a, <1>4, <1>6, <1>9
  <2> QED
    BY <2>2, <2>3
<1>11. CASE ~Judged(o)
  <2>1. row.status = "EXIT_SESSION_CLOSE" /\ row.metadata.rescaled
    BY <1>7, <1>11
  <2>2. ~StopSeen(samples, id, o) /\ ~TargetSeen(samples, id, o)
    BY <1>1a, <1>4, <2>1
  <2>3. a \notin {"EXIT_STOP_LOSS", "EXIT_TAKE_PROFIT"}
    BY <1>8, <2>2 DEF ExitActions
  <2>4. Outcome(row.symbol, day) = "TIME_EXIT"
    BY <1>9, <2>2
  <2>5. Outcome(row.symbol, day) =
          CASE row.status = "EXIT_STOP_LOSS" -> "STOP_TOUCHED"
            [] row.status = "EXIT_TAKE_PROFIT" -> "TARGET_TOUCHED"
            [] OTHER -> "TIME_EXIT"
    BY <2>1, <2>4
  <2> QED
    BY <2>1, <2>3, <2>5
<1> QED
  BY <1>10, <1>11

\* The reports tell of every observation of a symbol entered once on its day how the
\* cycle ended it, though they derive it from other rows, in another order, and the
\* cycle decided before its own sample was there; of a stale one that was rescaled they
\* tell that no level was reached.
THEOREM ReportsAgree ==
  ASSUME Alone, Giveback > 0
  PROVE  ReportsSpec => []ReportsAgreeWithTheBook
<1>1. ShadowInv => ReportsAgreeWithTheBook
  BY OrderIsTold
<1> QED
  BY <1>1, ReviewsAreInv, PTL

-----------------------------------------------------------------------------
(***************************************************************************)
(* The totals of the reports: each is the result of some observations.     *)
(***************************************************************************)
\* An observation as its last mark left it.
MarkedRow(id) == AsMarked(observations[id], id, samples)

\* The profit of some samples is the sum over them.
LEMMA PnlIsSum ==
  ASSUME NEW known, NEW S
  PROVE  Pnl(known, S) = SumFunctionOnSet([i \in S |-> known[i].pnl], S)
<1> DEFINE f == [i \in S |-> known[i].pnl]
<1>1. Pnl(known, S) = (CHOOSE g : g = [s \in SUBSET S |->
        IF s = {} THEN 0 ELSE known[AnyOf(s)].pnl + g[s \ {AnyOf(s)}]])[S]
  BY Zenon DEF Pnl, MapThenSumSet, MapThenFoldSet, AnyOf
<1>2. \A g : IsSums(g, f, S) <=> g = [s \in SUBSET S |->
        IF s = {} THEN 0 ELSE known[AnyOf(s)].pnl + g[s \ {AnyOf(s)}]]
  <2>1. \A s \in SUBSET S : s # {} => f[AnyOf(s)] = known[AnyOf(s)].pnl
    BY AnyElement
  <2> HIDE DEF f
  <2> QED
    BY <2>1 DEF IsSums
<1>3. SumFunctionOnSet(f, S) = (CHOOSE g : IsSums(g, f, S))[S]
  BY SumDefinition
<1> HIDE DEF f
<1>4. (CHOOSE g : IsSums(g, f, S)) = CHOOSE g : g = [s \in SUBSET S |->
        IF s = {} THEN 0 ELSE known[AnyOf(s)].pnl + g[s \ {AnyOf(s)}]]
  BY <1>2
<1> QED
  BY <1>1, <1>3, <1>4 DEF f

\* Of any samples there is one that is last, by time and by insertion.
LEMMA LastExists ==
  ASSUME samples \in Seq(ShadowTrainingSample), NEW R \in SUBSET DOMAIN samples, R # {}
  PROVE  LastOf(R) \in R /\ \A j \in R \ {LastOf(R)} : Earlier(j, LastOf(R))
<1> DEFINE Final(T, i) == \A j \in T \ {i} : Earlier(j, i)
           Good == {T \in SUBSET R : T # {} => \E i \in T : Final(T, i)}
<1>1. \A i \in DOMAIN samples :
        i \in Nat /\ samples[i].sample_at \in Int /\ i <= Len(samples) /\ Len(samples) \in Nat
  BY SampleFields, ElementOf
<1>2. IsFiniteSet(R)
  <2>1. R \in SUBSET Nat /\ Len(samples) \in Nat /\ \A i \in R : i <= Len(samples)
    BY <1>1
  <2> QED
    BY <2>1, FS_BoundedSetOfNaturals
<1>3. \A i, j \in R : i # j => Earlier(i, j) \/ Earlier(j, i)
  BY <1>1 DEF Earlier
<1>4. \A i, j, k \in R : Earlier(i, j) /\ Earlier(j, k) => Earlier(i, k)
  BY <1>1 DEF Earlier
<1>5. {} \in Good
  OBVIOUS
<1>6. ASSUME NEW T \in SUBSET R, T # {}, \A x \in T : T \ {x} \in Good
      PROVE  T \in Good
  <2>1. PICK a : a \in T
    BY <1>6
  <2>2. CASE T \ {a} = {}
    BY <2>1, <2>2
  <2>3. CASE T \ {a} # {}
    <3>1. PICK i \in T \ {a} : Final(T \ {a}, i)
      BY <1>6, <2>1, <2>3
    <3>2. CASE Earlier(a, i)
      <4>1. Final(T, i)
        BY <3>1, <3>2
      <4> QED
        BY <3>1, <4>1
    <3>3. CASE Earlier(i, a)
      <4>1. ASSUME NEW j \in T \ {a} PROVE Earlier(j, a)
        <5>1. CASE j = i
          BY <3>3, <5>1
        <5>2. CASE j # i
          <6>1. Earlier(j, i)
            BY <3>1, <5>2
          <6>2. j \in R /\ i \in R /\ a \in R
            BY <2>1
          <6> QED
            BY <1>4, <3>3, <6>1, <6>2
        <5> QED
          BY <5>1, <5>2
      <4> QED
        BY <2>1, <4>1
    <3>4. a \in R /\ i \in R /\ a # i
      BY <2>1
    <3> QED
      BY <1>3, <3>2, <3>3, <3>4
  <2> QED
    BY <2>2, <2>3
<1>7. \A T \in SUBSET R : T # {} /\ (\A x \in T : T \ {x} \in Good) => T \in Good
  BY <1>6
<1>8. R \in Good
  <2> HIDE DEF Good
  <2> QED
    BY <1>2, <1>5, <1>7, FiniteInduction
<1>9. \E i \in R : \A j \in R \ {i} : Earlier(j, i)
  BY <1>8
<1> QED
  BY <1>9 DEF LastOf

\* The last sample of a symbol on a day is the last of an observation of that day, and
\* shows it as it was marked.
LEMMA LastOfGroup ==
  ASSUME ShadowInv, Giveback > 0, NEW symbol, NEW day, Group(symbol, day) # {},
         NEW i, i = LastOf(Group(symbol, day))
  PROVE  /\ i \in Group(symbol, day) /\ i \in DOMAIN samples /\ samples[i].symbol = symbol
         /\ samples[i].observation \in DOMAIN observations
         /\ observations[samples[i].observation].symbol = symbol
         /\ DayStart(observations[samples[i].observation].opened_at) = day
         /\ Shows(samples[i], MarkedRow(samples[i].observation))
<1>1. samples \in Seq(ShadowTrainingSample) /\ SamplesFit(observations, samples)
  BY DEF ShadowInv, TypeInv, BookOK
<1>2. Group(symbol, day) \in SUBSET DOMAIN samples
  BY DEF Group
<1>3. i \in Group(symbol, day) /\ \A j \in Group(symbol, day) \ {i} : Earlier(j, i)
  BY <1>1, <1>2, LastExists
<1>4. i \in DOMAIN samples /\ samples[i].symbol = symbol /\ DayStart(samples[i].sample_at) = day
  BY <1>3 DEF Group
<1>5. PICK id : id = samples[i].observation
  OBVIOUS
<1>6. id \in DOMAIN observations /\ observations[id].symbol = symbol
  BY <1>1, <1>4, <1>5 DEF SamplesFit, Fits
<1>7. DayStart(observations[id].opened_at) = day
  BY <1>4, <1>5, SampleDay
<1>8. Told(samples, id, MarkedRow(id))
  BY <1>6 DEF ShadowInv, BookOK, PathsTold, MarkedRow
<1>9. PICK l : LastIs(samples, id, l) /\ Shows(samples[l], MarkedRow(id))
  BY <1>8 DEF Told
<1>10. l \in Group(symbol, day)
  <2>1. l \in DOMAIN samples /\ samples[l].observation = id
    BY <1>9 DEF LastIs
  <2>2. samples[l].symbol = symbol
    BY <1>1, <1>6, <2>1 DEF SamplesFit, Fits
  <2>3. DayStart(samples[l].sample_at) = day
    BY <1>7, <2>1, SampleDay
  <2> QED
    BY <2>1, <2>2, <2>3 DEF Group
<1>11. i = l
  <2>1. SUFFICES ASSUME i # l
                 PROVE  FALSE
    OBVIOUS
  <2>2. Earlier(l, i)
    BY <1>3, <1>10, <2>1
  <2>3. i < l /\ l \in DOMAIN samples /\ samples[l].observation = id
    BY <1>4, <1>5, <1>9, <2>1 DEF LastIs
  <2>4. samples[i].sample_at <= samples[l].sample_at
    BY <1>4, <1>5, <1>8, <2>3 DEF Told, Ordered
  <2>5. i \in Nat /\ l \in Nat /\ samples[i].sample_at \in Int /\ samples[l].sample_at \in Int
    BY <1>1, <1>4, <2>3, SampleFields
  <2> QED
    BY <2>2, <2>3, <2>4, <2>5 DEF Earlier
<1> QED
  BY <1>3, <1>4, <1>5, <1>6, <1>7, <1>9, <1>11

\* The symbols with samples on a day, and the last samples of some of them.
StudiedOn(day) == UNION {Studied(m, day) : m \in Markets}

Lasts(A, day) == {LastOf(Group(s, day)) : s \in A}

Behind(M) == {samples[i].observation : i \in M}

\* The result of every observation at its last mark.
AllResults == [id \in DOMAIN observations |-> MarkedRow(id).pnl]

\* They are samples of those symbols, one of each, and each shows an observation of
\* the day of its own.
LEMMA LastsAre ==
  ASSUME ShadowInv, Giveback > 0, NEW day, NEW A, \A s \in A : Group(s, day) # {},
         NEW M, M = Lasts(A, day)
  PROVE  /\ M \subseteq DOMAIN samples
         /\ \A i \in M :
              /\ samples[i].symbol \in A /\ i = LastOf(Group(samples[i].symbol, day))
              /\ samples[i].observation \in DOMAIN observations
              /\ observations[samples[i].observation].symbol = samples[i].symbol
              /\ DayStart(observations[samples[i].observation].opened_at) = day
              /\ Shows(samples[i], MarkedRow(samples[i].observation))
         /\ \A i, j \in M : samples[i].observation = samples[j].observation => i = j
<1>1. ASSUME NEW i \in M
      PROVE  /\ i \in DOMAIN samples
             /\ samples[i].symbol \in A /\ i = LastOf(Group(samples[i].symbol, day))
             /\ samples[i].observation \in DOMAIN observations
             /\ observations[samples[i].observation].symbol = samples[i].symbol
             /\ DayStart(observations[samples[i].observation].opened_at) = day
             /\ Shows(samples[i], MarkedRow(samples[i].observation))
  <2>1. PICK s \in A : i = LastOf(Group(s, day))
    BY DEF Lasts
  <2>2. Group(s, day) # {}
    OBVIOUS
  <2>3. /\ i \in Group(s, day) /\ i \in DOMAIN samples /\ samples[i].symbol = s
        /\ samples[i].observation \in DOMAIN observations
        /\ observations[samples[i].observation].symbol = s
        /\ DayStart(observations[samples[i].observation].opened_at) = day
        /\ Shows(samples[i], MarkedRow(samples[i].observation))
    BY <2>1, <2>2, LastOfGroup
  <2> QED
    BY <2>1, <2>3
<1>2. ASSUME NEW i \in M, NEW j \in M, samples[i].observation = samples[j].observation
      PROVE  i = j
  <2>1. samples[i].symbol = samples[j].symbol
    BY <1>1, <1>2
  <2>2. i = LastOf(Group(samples[i].symbol, day)) /\ j = LastOf(Group(samples[j].symbol, day))
    BY <1>1
  <2> QED
    BY <2>1, <2>2
<1> QED
  BY <1>1, <1>2

\* There are finitely many samples and observations, and their results are numbers: that
\* of the last mark is the observation's own, unless it was rescaled late.
LEMMA ResultsType ==
  ASSUME ShadowInv, Giveback > 0
  PROVE  /\ IsFiniteSet(DOMAIN samples) /\ IsFiniteSet(DOMAIN observations)
         /\ \A i \in DOMAIN samples : samples[i].pnl \in Int
         /\ \A id \in DOMAIN observations :
              /\ observations[id].pnl \in Int
              /\ AllResults[id] \in Int /\ AllResults[id] = MarkedRow(id).pnl
              /\ ~ResizedLate(observations[id]) => AllResults[id] = observations[id].pnl
<1>1. samples \in Seq(ShadowTrainingSample) /\ observations \in Rows /\ TypeInv
  BY DEF ShadowInv, TypeInv
<1>2. IsFiniteSet(DOMAIN samples)
  <2>1. DOMAIN samples \in SUBSET Nat /\ Len(samples) \in Nat /\ \A i \in DOMAIN samples : i <= Len(samples)
    BY <1>1, ElementOf
  <2> QED
    BY <2>1, FS_BoundedSetOfNaturals
<1>3. IsFiniteSet(DOMAIN observations)
  <2>1. PICK n \in Nat : \A id \in DOMAIN observations : id <= n
    BY <1>1, CommittedBounded
  <2>2. DOMAIN observations \in SUBSET Nat
    BY <1>1, RowsHas
  <2> QED
    BY <2>1, <2>2, FS_BoundedSetOfNaturals
<1>4. \A i \in DOMAIN samples : samples[i].pnl \in Int
  BY <1>1, SampleFields
<1>5. ASSUME NEW id \in DOMAIN observations
      PROVE  /\ observations[id].pnl \in Int
             /\ AllResults[id] \in Int /\ AllResults[id] = MarkedRow(id).pnl
             /\ ~ResizedLate(observations[id]) => AllResults[id] = observations[id].pnl
  <2>1. PICK row, o : row = observations[id] /\ o = MarkedRow(id)
    OBVIOUS
  <2>2. row \in ShadowObservation
    BY <1>1, <2>1, RowsHas
  <2>3. o \in ShadowObservation
    BY <2>1, <2>2, RowIsTold DEF MarkedRow
  <2>4. ~ResizedLate(row) => o = row
    BY <2>1, <2>2, MarkedHas DEF MarkedRow, ResizedLate, IsOpen
  <2>5. AllResults[id] = o.pnl /\ o.pnl \in Int /\ row.pnl \in Int
    BY <2>1, <2>2, <2>3 DEF AllResults, ShadowObservation
  <2> QED
    BY <2>1, <2>4, <2>5
<1> QED
  BY <1>2, <1>3, <1>4, <1>5

\* The profit of such samples is the result of the observations behind them.
LEMMA PnlOfLasts ==
  ASSUME ShadowInv, Giveback > 0, NEW day, NEW A, \A s \in A : Group(s, day) # {},
         NEW M, M \subseteq Lasts(A, day)
  PROVE  Pnl(samples, M) = SumFunctionOnSet(AllResults, Behind(M))
<1>1. PICK L : L = Lasts(A, day)
  OBVIOUS
<1>2. /\ L \subseteq DOMAIN samples
      /\ \A i \in L :
           /\ samples[i].symbol \in A /\ i = LastOf(Group(samples[i].symbol, day))
           /\ samples[i].observation \in DOMAIN observations
           /\ observations[samples[i].observation].symbol = samples[i].symbol
           /\ DayStart(observations[samples[i].observation].opened_at) = day
           /\ Shows(samples[i], MarkedRow(samples[i].observation))
      /\ \A i, j \in L : samples[i].observation = samples[j].observation => i = j
  BY <1>1, LastsAre
<1>3. M \subseteq L
  BY <1>1
<1>4. IsFiniteSet(M)
  BY <1>2, <1>3, ResultsType, FS_Subset
<1>5. PICK f : f = [i \in M |-> samples[i].pnl]
  OBVIOUS
<1>6. PICK g : g = [i \in M |-> samples[i].observation]
  OBVIOUS
<1>7. \A i \in M : f[i] \in Int /\ AllResults[g[i]] = f[i]
  <2>1. ASSUME NEW i \in M
        PROVE  f[i] \in Int /\ AllResults[g[i]] = f[i]
    <3>1. /\ i \in DOMAIN samples /\ samples[i].observation \in DOMAIN observations
          /\ samples[i].pnl = MarkedRow(samples[i].observation).pnl
      BY <1>2, <1>3 DEF Shows
    <3> QED
      BY <1>5, <1>6, <3>1, ResultsType
  <2> QED
    BY <2>1
<1>8. \A i, j \in M : g[i] = g[j] => i = j
  BY <1>2, <1>3, <1>6
<1>9. SumFunctionOnSet(AllResults, {g[i] : i \in M}) = SumFunctionOnSet(f, M)
  BY <1>4, <1>7, <1>8, SumReindex
<1>10. {g[i] : i \in M} = Behind(M)
  BY <1>6 DEF Behind
<1>11. Pnl(samples, M) = SumFunctionOnSet(f, M)
  BY <1>5, PnlIsSum
<1> QED
  BY <1>9, <1>10, <1>11

\* The day-wise row of a market leaves out what has no result.
LEMMA MarketRow ==
  ASSUME ShadowInv, Giveback > 0, NEW market, NEW day
  PROVE  DayRow(market, day) = SumFunctionOnSet(AllResults, Behind(Lasts(Studied(market, day), day)))
<1>1. PICK A : A = Studied(market, day)
  OBVIOUS
<1>2. \A s \in A : Group(s, day) # {}
  BY <1>1 DEF Studied
<1>3. PICK M : M = Lasts(A, day)
  OBVIOUS
<1>4. /\ M \subseteq DOMAIN samples
      /\ \A i \in M :
           /\ samples[i].symbol \in A /\ i = LastOf(Group(samples[i].symbol, day))
           /\ samples[i].observation \in DOMAIN observations
           /\ observations[samples[i].observation].symbol = samples[i].symbol
           /\ DayStart(observations[samples[i].observation].opened_at) = day
           /\ Shows(samples[i], MarkedRow(samples[i].observation))
      /\ \A i, j \in M : samples[i].observation = samples[j].observation => i = j
  BY <1>2, <1>3, LastsAre
<1>5. PICK R : R = {i \in M : samples[i].quantity > 0 /\ samples[i].notional > 0}
  OBVIOUS
<1>6. DayRow(market, day) = Pnl(samples, R)
  BY <1>1, <1>3, <1>5 DEF DayRow, MarketDayRow, Lasts
<1>7. \A i \in M \ R : samples[i].pnl = 0
  <2>1. SUFFICES ASSUME NEW i \in M \ R
                 PROVE  samples[i].pnl = 0
    OBVIOUS
  <2>2. PICK o : o = MarkedRow(samples[i].observation)
    OBVIOUS
  <2>3. Paid(o)
    BY <1>4, <2>2 DEF ShadowInv, BookOK, PathsTold, Told, MarkedRow
  <2>4. Shows(samples[i], o)
    BY <1>4, <2>2
  <2>5. ~(o.quantity > 0 /\ o.notional > 0)
    BY <1>5, <2>4 DEF Shows
  <2>6. o.pnl = 0
    BY <2>3, <2>5 DEF Paid
  <2> QED
    BY <2>4, <2>6 DEF Shows
<1>8. PICK f : f = [i \in M |-> samples[i].pnl]
  OBVIOUS
<1>9. PICK h : h = [i \in R |-> samples[i].pnl]
  OBVIOUS
<1>10. R \in SUBSET M /\ IsFiniteSet(M) /\ IsFiniteSet(R)
  BY <1>4, <1>5, ResultsType, FS_Subset
<1>11. /\ \A i \in M : f[i] \in Int
       /\ \A i \in M \ R : f[i] = 0
       /\ \A i \in R : h[i] = f[i]
  BY <1>4, <1>7, <1>8, <1>9, <1>10, ResultsType
<1>12. SumFunctionOnSet(f, M) = SumFunctionOnSet(f, R)
  BY <1>10, <1>11, SumOfPart
<1>13. SumFunctionOnSet(h, R) = SumFunctionOnSet(f, R)
  BY <1>10, <1>11, SumCongruence
<1>14. Pnl(samples, M) = SumFunctionOnSet(f, M) /\ Pnl(samples, R) = SumFunctionOnSet(h, R)
  BY <1>8, <1>9, PnlIsSum
<1>15. Pnl(samples, M) = SumFunctionOnSet(AllResults, Behind(M))
  BY <1>2, <1>3, PnlOfLasts
<1> QED
  BY <1>1, <1>3, <1>6, <1>12, <1>13, <1>14, <1>15

\* Both rows of a day are the results of the observations behind its last samples.
LEMMA BothRows ==
  ASSUME ShadowInv, Giveback > 0, NEW day
  PROVE  DayRow("INDIA", day) + DayRow("US", day)
           = SumFunctionOnSet(AllResults, Behind(Lasts(StudiedOn(day), day)))
<1>1. PICK I, U : I = Studied("INDIA", day) /\ U = Studied("US", day)
  OBVIOUS
<1>2. StudiedOn(day) = I \cup U
  BY <1>1 DEF StudiedOn, Markets
<1>3. I \cap U = {}
  BY <1>1, ShadowAssumption DEF Studied
<1>4. (\A s \in I : Group(s, day) # {}) /\ (\A s \in U : Group(s, day) # {})
  BY <1>1 DEF Studied
<1>5. PICK M, N : M = Lasts(I, day) /\ N = Lasts(U, day)
  OBVIOUS
<1>6. /\ M \subseteq DOMAIN samples /\ N \subseteq DOMAIN samples
      /\ \A i \in M : /\ samples[i].symbol \in I
                      /\ samples[i].observation \in DOMAIN observations
                      /\ observations[samples[i].observation].symbol = samples[i].symbol
      /\ \A i \in N : /\ samples[i].symbol \in U
                      /\ samples[i].observation \in DOMAIN observations
                      /\ observations[samples[i].observation].symbol = samples[i].symbol
  BY <1>4, <1>5, LastsAre
<1>7. Lasts(StudiedOn(day), day) = M \cup N
  BY <1>2, <1>5 DEF Lasts
<1>8. Behind(M \cup N) = Behind(M) \cup Behind(N)
  BY DEF Behind
<1>9. PICK X, Y : X = Behind(M) /\ Y = Behind(N)
  OBVIOUS
<1>10. X \cap Y = {} /\ X \subseteq DOMAIN observations /\ Y \subseteq DOMAIN observations
  <2>1. \A id \in X : id \in DOMAIN observations /\ observations[id].symbol \in I
    BY <1>6, <1>9 DEF Behind
  <2>2. \A id \in Y : id \in DOMAIN observations /\ observations[id].symbol \in U
    BY <1>6, <1>9 DEF Behind
  <2> QED
    BY <1>3, <2>1, <2>2
<1>11. IsFiniteSet(X) /\ IsFiniteSet(Y) /\ \A id \in X \cup Y : AllResults[id] \in Int
  BY <1>10, ResultsType, FS_Subset
<1>12. SumFunctionOnSet(AllResults, X \cup Y)
         = SumFunctionOnSet(AllResults, X) + SumFunctionOnSet(AllResults, Y)
  BY <1>10, <1>11, SumUnion
<1>13. /\ DayRow("INDIA", day) = SumFunctionOnSet(AllResults, X)
       /\ DayRow("US", day) = SumFunctionOnSet(AllResults, Y)
  BY <1>1, <1>5, <1>9, MarketRow
<1> QED
  BY <1>7, <1>8, <1>9, <1>12, <1>13

\* The profit protection totals its latest day as the day-wise rows do.
LEMMA CurrentIsBothRows ==
  ASSUME ShadowInv, Giveback > 0
  PROVE  CurrentTotal = DayRow("INDIA", LatestDay) + DayRow("US", LatestDay)
<1>1. PICK day : day = LatestDay
  OBVIOUS
<1>2. DecisionsToday = StudiedOn(day)
  BY <1>1 DEF DecisionsToday, StudiedOn
<1>3. \A s \in StudiedOn(day) : Group(s, day) # {}
  BY DEF StudiedOn, Studied
<1>4. CurrentTotal = Pnl(samples, Lasts(StudiedOn(day), day))
  BY <1>1, <1>2 DEF CurrentTotal, Lasts
<1>5. Pnl(samples, Lasts(StudiedOn(day), day))
        = SumFunctionOnSet(AllResults, Behind(Lasts(StudiedOn(day), day)))
  BY <1>3, PnlOfLasts
<1> QED
  BY <1>1, <1>4, <1>5, BothRows

\* The total of a day in the history is the sum over its rows.
LEMMA HistoryIsSum ==
  ASSUME NEW day, NEW K, K = {key \in DOMAIN snapshots : key[2] = day}
  PROVE  HistoryTotal(day)
           = SumFunctionOnSet([key \in K |-> snapshots[key].hypothetical_pnl_inr], K)
<1> DEFINE f == [key \in K |-> snapshots[key].hypothetical_pnl_inr]
<1>1. HistoryTotal(day) = (CHOOSE g : g = [s \in SUBSET K |->
        IF s = {} THEN 0 ELSE snapshots[AnyOf(s)].hypothetical_pnl_inr + g[s \ {AnyOf(s)}]])[K]
  BY Zenon DEF HistoryTotal, MapThenSumSet, MapThenFoldSet, AnyOf
<1>2. \A g : IsSums(g, f, K) <=> g = [s \in SUBSET K |->
        IF s = {} THEN 0 ELSE snapshots[AnyOf(s)].hypothetical_pnl_inr + g[s \ {AnyOf(s)}]]
  <2>1. \A s \in SUBSET K : s # {} => f[AnyOf(s)] = snapshots[AnyOf(s)].hypothetical_pnl_inr
    BY AnyElement
  <2> HIDE DEF f
  <2> QED
    BY <2>1 DEF IsSums
<1>3. SumFunctionOnSet(f, K) = (CHOOSE g : IsSums(g, f, K))[K]
  BY SumDefinition
<1> HIDE DEF f
<1>4. (CHOOSE g : IsSums(g, f, K)) = CHOOSE g : g = [s \in SUBSET K |->
        IF s = {} THEN 0 ELSE snapshots[AnyOf(s)].hypothetical_pnl_inr + g[s \ {AnyOf(s)}]]
  BY <1>2
<1> QED
  BY <1>1, <1>3, <1>4 DEF f

\* The observations of a day: it is that of their opening, and of their last mark.
OfDay(day) == {id \in DOMAIN observations : DayStart(observations[id].opened_at) = day}

\* A review of each market looks at its part of them.
LEMMA SeenIsOfDay ==
  ASSUME ShadowInv, NEW day
  PROVE  /\ OfDay(day) = Seen(observations, "INDIA", day) \cup Seen(observations, "US", day)
         /\ Seen(observations, "INDIA", day) \cap Seen(observations, "US", day) = {}
<1>1. \A id \in DOMAIN observations :
        /\ observations[id].market \in {"INDIA", "US"}
        /\ DayStart(observations[id].last_marked_at) = DayStart(observations[id].opened_at)
  BY RowsHas DEF ShadowInv, TypeInv, BookOK, RowsOK, RowOK, ShadowObservation, Markets
<1>2. "INDIA" # "US"
  OBVIOUS
<1> QED
  BY <1>1, <1>2 DEF OfDay, Seen

\* No observation of a day without late rescales was rescaled late.
LEMMA NoneResized ==
  ASSUME ShadowInv, NEW day, \A m \in Markets : ~Resized(m, day), NEW id \in OfDay(day)
  PROVE  ~ResizedLate(observations[id])
<1>1. id \in DOMAIN observations /\ observations[id].market \in Markets
  BY RowsHas DEF OfDay, ShadowInv, TypeInv, ShadowObservation
<1>2. DayStart(observations[id].last_marked_at) = day
  BY <1>1 DEF OfDay, ShadowInv, BookOK, RowsOK, RowOK
<1> QED
  BY <1>1, <1>2 DEF Resized

\* When the reviews of both markets are kept, the history of a day is the result of its
\* observations, if none was rescaled late.
LEMMA HistoryIsReviews ==
  ASSUME ShadowInv, ReportsInv, Giveback > 0, NEW day,
         \A m \in Markets : <<m, day>> \in DOMAIN snapshots /\ ~Resized(m, day)
  PROVE  HistoryTotal(day) = SumFunctionOnSet(AllResults, OfDay(day))
<1>1. PICK a, b : a = <<"INDIA", day>> /\ b = <<"US", day>>
  OBVIOUS
<1>2. PICK K : K = {key \in DOMAIN snapshots : key[2] = day}
  OBVIOUS
<1>3. K = {a} \cup {b} /\ a # b /\ a \in DOMAIN snapshots /\ b \in DOMAIN snapshots
  <2>1. a \in DOMAIN snapshots /\ b \in DOMAIN snapshots /\ a[2] = day /\ b[2] = day /\ a # b
    BY <1>1 DEF Markets
  <2>2. ASSUME NEW key \in K PROVE key = a \/ key = b
    <3>1. key \in Markets \X {d \in Days : d < DayStart(now)} /\ key[2] = day
      BY <1>2 DEF ReportsInv
    <3> QED
      BY <1>1, <3>1 DEF Markets
  <2> QED
    BY <1>2, <2>1, <2>2
<1>4. PICK f : f = [key \in K |-> snapshots[key].hypothetical_pnl_inr]
  OBVIOUS
<1>5. PICK I, U : I = Seen(observations, "INDIA", day) /\ U = Seen(observations, "US", day)
  OBVIOUS
<1>6. /\ I \subseteq DOMAIN observations /\ U \subseteq DOMAIN observations
      /\ IsFiniteSet(I) /\ IsFiniteSet(U)
      /\ \A id \in I \cup U : AllResults[id] \in Int
  <2>1. I \subseteq DOMAIN observations /\ U \subseteq DOMAIN observations
    BY <1>5 DEF Seen
  <2> QED
    BY <2>1, ResultsType, FS_Subset
<1>7. /\ SumFunctionOnSet(Results(observations, I), I) = SumFunctionOnSet(AllResults, I)
      /\ SumFunctionOnSet(Results(observations, U), U) = SumFunctionOnSet(AllResults, U)
  <2>1. /\ \A id \in I : Results(observations, I)[id] = AllResults[id]
        /\ \A id \in U : Results(observations, U)[id] = AllResults[id]
    <3>1. I \subseteq OfDay(day) /\ U \subseteq OfDay(day)
      BY <1>5, SeenIsOfDay
    <3>2. \A id \in I \cup U : AllResults[id] = observations[id].pnl
      BY <1>6, <3>1, NoneResized, ResultsType
    <3> QED
      BY <3>2 DEF Results
  <2> QED
    BY <1>6, <2>1, SumCongruence
<1>8. /\ f[a] = SumFunctionOnSet(AllResults, I)
      /\ f[b] = SumFunctionOnSet(AllResults, U)
  <2>1. snapshots[a] = Review("INDIA", day) /\ snapshots[b] = Review("US", day)
    BY <1>1, <1>3 DEF ReportsInv, Said, Markets
  <2>2. snapshots[a] = ReviewOf(observations, I) /\ snapshots[b] = ReviewOf(observations, U)
    BY <1>5, <2>1, ReviewIs
  <2>3. /\ snapshots[a].hypothetical_pnl_inr = SumFunctionOnSet(Results(observations, I), I)
        /\ snapshots[b].hypothetical_pnl_inr = SumFunctionOnSet(Results(observations, U), U)
    BY <2>2 DEF ReviewOf
  <2> QED
    BY <1>3, <1>4, <1>7, <2>3
<1>9. f[a] \in Int /\ f[b] \in Int
  BY <1>6, <1>8, SumType
<1>10. SumFunctionOnSet(f, {a}) = f[a]
  <2>1. {} \cup {a} = {a} /\ IsFiniteSet({}) /\ a \notin {}
    BY FS_EmptySet
  <2>2. SumFunctionOnSet(f, {} \cup {a}) = SumFunctionOnSet(f, {}) + f[a]
    BY <1>9, <2>1, SumAdd
  <2>3. SumFunctionOnSet(f, {a}) = SumFunctionOnSet(f, {}) + f[a]
    BY <2>1, <2>2, Zenon
  <2> QED
    BY <1>9, <2>3, SumOfNone
<1>11. SumFunctionOnSet(f, {a} \cup {b}) = SumFunctionOnSet(f, {a}) + f[b]
  <2>1. IsFiniteSet({a}) /\ b \notin {a} /\ \A y \in {a} \cup {b} : f[y] \in Int
    BY <1>3, <1>9, FS_Singleton
  <2> QED
    BY <2>1, SumAdd
<1>12. HistoryTotal(day) = SumFunctionOnSet(f, K)
  BY <1>2, <1>4, HistoryIsSum
<1>13. SumFunctionOnSet(AllResults, I \cup U)
         = SumFunctionOnSet(AllResults, I) + SumFunctionOnSet(AllResults, U)
  <2>1. I \cap U = {}
    BY <1>5, SeenIsOfDay
  <2> QED
    BY <1>6, <2>1, SumUnion
<1>14. OfDay(day) = I \cup U
  BY <1>5, SeenIsOfDay
<1>15. HistoryTotal(day) = SumFunctionOnSet(f, {a} \cup {b})
  BY <1>3, <1>12, Zenon
<1> QED
  BY <1>8, <1>10, <1>11, <1>13, <1>14, <1>15

\* The symbol of an observation has samples on its day.
LEMMA IsStudied ==
  ASSUME ShadowInv, Giveback > 0, NEW id \in DOMAIN observations,
         NEW o, o = observations[id], NEW day, day = DayStart(o.opened_at)
  PROVE  /\ Group(o.symbol, day) # {} /\ o.symbol \in StudiedOn(day)
         /\ o \in ShadowObservation /\ RowOK(o, now) /\ Told(samples, id, MarkedRow(id))
         /\ ~IsOpen(o) => MarkedRow(id) = o
<1>1. /\ o \in ShadowObservation /\ RowOK(o, now) /\ Told(samples, id, MarkedRow(id))
      /\ ~IsOpen(o) => MarkedRow(id) = o
  BY RowsHas DEF ShadowInv, TypeInv, BookOK, RowsOK, PathsTold, MarkedRow, AsMarked
<1>2. PICK l \in DOMAIN samples : samples[l].observation = id
  BY <1>1 DEF Told, LastIs
<1>3. samples[l].symbol = o.symbol
  BY <1>2 DEF ShadowInv, BookOK, SamplesFit, Fits
<1>4. DayStart(samples[l].sample_at) = day
  BY <1>2, SampleDay
<1>5. l \in Group(o.symbol, day)
  BY <1>2, <1>3, <1>4 DEF Group
<1>6. o.market \in Markets /\ o.symbol \in ToSet(Watchlist[o.market])
  BY <1>1 DEF RowOK, ShadowObservation
<1>7. o.symbol \in Studied(o.market, day)
  BY <1>5, <1>6 DEF Studied
<1> QED
  BY <1>1, <1>5, <1>6, <1>7 DEF StudiedOn

\* The observations of a day are those behind its last samples and those that were
\* replaced by another entry of their symbol.
LEMMA ReplacedOrLast ==
  ASSUME ShadowInv, Giveback > 0, NEW day, NEW B, B = Behind(Lasts(StudiedOn(day), day))
  PROVE  B \cup Replaced(day) = OfDay(day) /\ B \cap Replaced(day) = {}
<1>1. PICK M : M = Lasts(StudiedOn(day), day)
  OBVIOUS
<1>2. \A s \in StudiedOn(day) : Group(s, day) # {}
  BY DEF StudiedOn, Studied
<1>3. \A i \in M :
        /\ i = LastOf(Group(samples[i].symbol, day))
        /\ samples[i].observation \in DOMAIN observations
        /\ observations[samples[i].observation].symbol = samples[i].symbol
        /\ DayStart(observations[samples[i].observation].opened_at) = day
  BY <1>1, <1>2, LastsAre
<1>4. \A id \in B : /\ id \in DOMAIN observations
                    /\ DayStart(observations[id].opened_at) = day
                    /\ samples[LastOf(Group(observations[id].symbol, day))].observation = id
  BY <1>1, <1>3 DEF Behind
<1>5. B \cap Replaced(day) = {}
  BY <1>4 DEF Replaced
<1>6. B \cup Replaced(day) \subseteq OfDay(day)
  BY <1>4 DEF Replaced, OfDay
<1>7. ASSUME NEW id \in OfDay(day), id \notin Replaced(day)
      PROVE  id \in B
  <2>1. PICK o : o = observations[id]
    OBVIOUS
  <2>2. id \in DOMAIN observations /\ DayStart(o.opened_at) = day
    BY <2>1 DEF OfDay
  <2>3. Group(o.symbol, day) # {} /\ o.symbol \in StudiedOn(day)
    BY <2>1, <2>2, IsStudied
  <2>4. PICK i : i = LastOf(Group(o.symbol, day))
    OBVIOUS
  <2>5. i \in M
    BY <1>1, <2>3, <2>4 DEF Lasts
  <2>6. /\ samples[i].symbol = o.symbol /\ samples[i].observation \in DOMAIN observations
        /\ observations[samples[i].observation].symbol = o.symbol
        /\ DayStart(observations[samples[i].observation].opened_at) = day
    BY <2>3, <2>4, LastOfGroup
  <2>7. samples[i].observation = id
    BY <1>7, <2>1, <2>2, <2>4, <2>6 DEF Replaced
  <2> QED
    BY <1>1, <2>5, <2>7 DEF Behind
<1> QED
  BY <1>5, <1>6, <1>7

\* The result of some observations, none of them rescaled late.
LEMMA BookPnlIs ==
  ASSUME ShadowInv, Giveback > 0, NEW S, S \subseteq DOMAIN observations,
         \A id \in S : ~ResizedLate(observations[id])
  PROVE  BookPnl(S) = SumFunctionOnSet(AllResults, S)
<1>1. PICK f : f = [id \in S |-> observations[id].pnl]
  OBVIOUS
<1>2. IsFiniteSet(S)
  BY ResultsType, FS_Subset
<1>3. \A id \in S : f[id] = AllResults[id]
  BY <1>1, ResultsType
<1>4. SumFunctionOnSet(f, S) = SumFunctionOnSet(AllResults, S)
  BY <1>2, <1>3, SumCongruence
<1> QED
  BY <1>1, <1>4 DEF BookPnl

\* The history of a day without late rescales is what its rows say, and what they leave
\* out.
LEMMA HistoryIsExplained ==
  ASSUME ShadowInv, ReportsInv, Giveback > 0, NEW day,
         \A m \in Markets : <<m, day>> \in DOMAIN snapshots /\ ~Resized(m, day)
  PROVE  HistoryTotal(day) = DayRow("INDIA", day) + DayRow("US", day) + BookPnl(Replaced(day))
<1>1. PICK B : B = Behind(Lasts(StudiedOn(day), day))
  OBVIOUS
<1>2. B \cup Replaced(day) = OfDay(day) /\ B \cap Replaced(day) = {}
  BY <1>1, ReplacedOrLast
<1>3. OfDay(day) \subseteq DOMAIN observations
  BY DEF OfDay
<1>4. PICK R : R = Replaced(day)
  OBVIOUS
<1>5. /\ IsFiniteSet(B) /\ IsFiniteSet(R) /\ R \subseteq DOMAIN observations
      /\ \A id \in B \cup R : AllResults[id] \in Int
  BY <1>2, <1>3, <1>4, ResultsType, FS_Subset
<1>6. SumFunctionOnSet(AllResults, B \cup R)
        = SumFunctionOnSet(AllResults, B) + SumFunctionOnSet(AllResults, R)
  BY <1>2, <1>4, <1>5, SumUnion
<1>7. HistoryTotal(day) = SumFunctionOnSet(AllResults, B \cup R)
  BY <1>2, <1>4, HistoryIsReviews
<1>8. BookPnl(R) = SumFunctionOnSet(AllResults, R)
  <2>1. \A id \in R : ~ResizedLate(observations[id])
    BY <1>2, <1>4, NoneResized
  <2> QED
    BY <1>5, <2>1, BookPnlIs
<1> QED
  BY <1>1, <1>4, <1>6, <1>7, <1>8, BothRows

\* What was closed at its target, or for a profit to be booked, has a profit.
LEMMA TargetIsProfit ==
  ASSUME NEW o \in ShadowObservation, RowOK(o, now), LevelsTold(o),
         o.status \in {"EXIT_TAKE_PROFIT", "EXIT_PROFIT_BOOKING"}
  PROVE  o.pnl > 0
<1>1. LevelExit(o) = o.status
  BY DEF LevelsTold, LevelExits
<1>2. CASE o.status = "EXIT_PROFIT_BOOKING"
  BY <1>1, <1>2, ShadowAssumption DEF LevelExit, ExitActions
<1>3. CASE o.status = "EXIT_TAKE_PROFIT"
  <2>1. PICK e, c, q, fx, t : /\ e = o.entry_price /\ c = o.current_price /\ q = o.quantity
                              /\ fx = o.metadata.usd_inr /\ t = o.metadata.take_profit
    OBVIOUS
  <2>2. e \in Nat /\ c \in Nat /\ q \in Nat /\ fx \in Nat \ {0} /\ t \in Nat
    BY <2>1 DEF ShadowObservation, Metadata
  <2>3. e < t /\ o.pnl = (c - e) * q * fx
    BY <2>1 DEF RowOK, Valued
  <2>4. q > 0 /\ t <= c
    <3>1. None # "EXIT_TAKE_PROFIT"
      BY ShadowAssumption DEF ExitActions
    <3>2. ~(q <= 0)
      BY <1>1, <1>3, <2>1, <3>1 DEF LevelExit
    <3>3. ~(c <= o.metadata.stop_loss)
      BY <1>1, <1>3, <2>1, <3>2 DEF LevelExit
    <3>4. c >= t
      BY <1>1, <1>3, <2>1, <3>1, <3>2, <3>3 DEF LevelExit
    <3> QED
      BY <2>2, <3>2, <3>4
  <2>5. PICK x : x = c - e
    OBVIOUS
  <2>6. x \in Nat \ {0} /\ q \in Nat \ {0}
    BY <2>2, <2>3, <2>4, <2>5
  <2>7. x * q \in Nat \ {0}
    BY <2>6, PositiveProduct, ProductNat
  <2>8. x * q * fx > 0
    BY <2>2, <2>7, PositiveProduct
  <2> QED
    BY <2>3, <2>5, <2>8
<1> QED
  BY <1>2, <1>3

\* The exits that a cycle makes while the day lasts.
DayExits == {"EXIT_STOP_LOSS", "EXIT_TAKE_PROFIT", "EXIT_PROFIT_BOOKING", "EXIT_PROFIT_GIVEBACK"}

\* Every symbol of the latest day was entered once on it, and it is today.
Settled ==
  /\ LatestDay = DayStart(now)
  /\ \A s \in DecisionsToday : EnteredOnce(s, LatestDay)

\* The exit that is recommended of a symbol is that of its observation.
LEMMA DecidedIsClosed ==
  ASSUME ShadowInv, Giveback > 0, Settled, NEW actions, actions \subseteq DayExits,
         NEW i \in Decided(actions)
  PROVE  /\ i \in Lasts(StudiedOn(LatestDay), LatestDay)
         /\ samples[i].observation \in ClosedToday
         /\ observations[samples[i].observation].status \in actions
         /\ RecommendedExit(samples[i].symbol, LatestDay)
              = observations[samples[i].observation].status
<1>1. PICK day : day = LatestDay
  OBVIOUS
<1>2. DecisionsToday = StudiedOn(day) /\ day = DayStart(now)
  BY <1>1 DEF DecisionsToday, StudiedOn, Settled
<1>3. PICK s \in StudiedOn(day) : /\ RecommendedExit(s, day) \in actions
                                  /\ i = LastOf(Group(s, day))
  BY <1>1, <1>2 DEF Decided
<1>4. Group(s, day) # {}
  BY DEF StudiedOn, Studied
<1>5. PICK id, o : id = samples[i].observation /\ o = observations[id]
  OBVIOUS
<1>6. /\ samples[i].symbol = s /\ id \in DOMAIN observations /\ o.symbol = s
      /\ DayStart(o.opened_at) = day
  BY <1>3, <1>4, <1>5, LastOfGroup
<1>7. EnteredOnce(s, day)
  BY <1>1, <1>2 DEF Settled
<1>8. o \in ShadowObservation /\ RowOK(o, now)
  BY <1>5, <1>6, IsStudied
<1>9. PICK a : a = RecommendedExit(s, day)
  OBVIOUS
<1>9a. o.status # "EXIT_SESSION_CLOSE"
  <2>1. o.opened_at \in Nat /\ o.last_marked_at \in Nat /\ o.opened_at <= o.last_marked_at
    BY <1>8 DEF RowOK, ShadowObservation, Time
  <2>2. DayStart(o.opened_at) <= o.opened_at /\ DayStart(o.opened_at) \in Nat
    BY <2>1, DayLaws
  <2>3. ~(o.last_marked_at < DayStart(now))
    BY <1>2, <1>6, <2>1, <2>2
  <2> QED
    BY <1>8, <2>3 DEF RowOK
<1>10. IF o.status \in {"OPEN_OBSERVATION", "EXIT_SESSION_CLOSE"} THEN a \notin ExitActions
       ELSE a = o.status
  <2>1. ReportsAgreeWithTheBook
    BY OrderIsTold
  <2> QED
    BY <1>5, <1>6, <1>7, <1>9, <1>9a, <2>1 DEF ReportsAgreeWithTheBook
<1>11. a \in actions /\ a \in ExitActions /\ a \in DayExits
  BY <1>3, <1>9 DEF DayExits, ExitActions
<1>12. o.status = a /\ ~IsOpen(o)
  BY <1>10, <1>11 DEF IsOpen, DayExits
<1>13. o.last_marked_at >= DayStart(now)
  <2>1. o.opened_at \in Nat /\ o.last_marked_at \in Nat /\ o.opened_at <= o.last_marked_at
    BY <1>8 DEF RowOK, ShadowObservation, Time
  <2>2. DayStart(o.opened_at) <= o.opened_at /\ DayStart(o.opened_at) \in Nat
    BY <2>1, DayLaws
  <2> QED
    BY <1>2, <1>6, <2>1, <2>2
<1>14. id \in ClosedToday
  BY <1>5, <1>6, <1>12, <1>13 DEF ClosedToday
<1>15. i \in Lasts(StudiedOn(day), day)
  BY <1>3 DEF Lasts
<1> QED
  BY <1>1, <1>5, <1>6, <1>9, <1>11, <1>12, <1>14, <1>15

\* What was closed today was closed for an exit that is recommended of its symbol, and
\* with a profit if it was for one.
LEMMA ClosedIsDecided ==
  ASSUME ShadowInv, Giveback > 0, Settled, NEW id \in ClosedToday,
         NEW o, o = observations[id]
  PROVE  /\ o.status \in DayExits
         /\ o.status \in {"EXIT_TAKE_PROFIT", "EXIT_PROFIT_BOOKING"} => o.pnl > 0
         /\ \E i : /\ \A actions : o.status \in actions => i \in Decided(actions)
                   /\ samples[i].observation = id /\ samples[i].pnl = o.pnl
<1>1. id \in DOMAIN observations /\ ~IsOpen(o) /\ o.last_marked_at >= DayStart(now)
  BY DEF ClosedToday
<1>2. PICK day : day = DayStart(o.opened_at)
  OBVIOUS
<1>3. /\ Group(o.symbol, day) # {} /\ o.symbol \in StudiedOn(day)
      /\ o \in ShadowObservation /\ RowOK(o, now)
      /\ Told(samples, id, o) /\ MarkedRow(id) = o
  BY <1>1, <1>2, IsStudied
<1>4. now \in Nat /\ o.last_marked_at \in Nat
  BY <1>3, ShadowAssumption DEF ShadowInv, TypeInv, ShadowObservation, Time
<1>5. day = DayStart(now)
  <2>1. o.last_marked_at <= now /\ DayStart(o.last_marked_at) = day
    BY <1>2, <1>3 DEF RowOK
  <2>2. DayStart(now) \in Nat /\ DayStart(now) <= o.last_marked_at
    BY <1>1, <1>4, DayLaws
  <2>3. DayStart(o.last_marked_at) = DayStart(now)
    BY <1>4, <2>1, <2>2, SameDay
  <2> QED
    BY <2>1, <2>3
<1>6. day = LatestDay /\ o.symbol \in DecisionsToday
  BY <1>3, <1>5 DEF Settled, DecisionsToday, StudiedOn
<1>7. EnteredOnce(o.symbol, day)
  BY <1>6 DEF Settled
<1>8. o.status \in DayExits
  <2>1. o.status \in {"OPEN_OBSERVATION", "EXIT_STOP_LOSS", "EXIT_TAKE_PROFIT",
                      "EXIT_PROFIT_BOOKING", "EXIT_PROFIT_GIVEBACK", "EXIT_SESSION_CLOSE"}
    BY <1>3 DEF ShadowObservation, Status, ExitActions
  <2>2. o.status # "OPEN_OBSERVATION"
    BY <1>1 DEF IsOpen
  <2>3. o.status # "EXIT_SESSION_CLOSE"
    <3>1. DayStart(now) \in Nat
      BY <1>4, DayLaws
    <3>2. o.status = "EXIT_SESSION_CLOSE" => o.last_marked_at < DayStart(now)
      BY <1>3 DEF RowOK
    <3> QED
      BY <1>1, <1>4, <3>1, <3>2
  <2> QED
    BY <2>1, <2>2, <2>3 DEF DayExits
<1>9. RecommendedExit(o.symbol, day) = o.status
  <2>1. ReportsAgreeWithTheBook
    BY OrderIsTold
  <2>2. o.status \notin {"OPEN_OBSERVATION", "EXIT_SESSION_CLOSE"}
    BY <1>8 DEF DayExits
  <2> QED
    BY <1>1, <1>2, <1>7, <2>1, <2>2 DEF ReportsAgreeWithTheBook
<1>10. PICK i : i = LastOf(Group(o.symbol, day))
  OBVIOUS
<1>11. samples[i].observation = id
  <2>1. Group(o.symbol, day) = Path(samples, id)
    BY <1>1, <1>2, <1>3, <1>7, GroupIsPath
  <2>2. i \in Group(o.symbol, day)
    BY <1>3, <1>10, LastOfGroup
  <2> QED
    BY <2>1, <2>2 DEF Path
<1>12. samples[i].pnl = o.pnl
  <2>1. Shows(samples[i], MarkedRow(samples[i].observation))
    BY <1>3, <1>10, LastOfGroup
  <2> QED
    BY <1>3, <1>11, <2>1 DEF Shows
<1>13. \A actions : o.status \in actions => i \in Decided(actions)
  BY <1>6, <1>9, <1>10 DEF Decided
<1>14. o.status \in {"EXIT_TAKE_PROFIT", "EXIT_PROFIT_BOOKING"} => o.pnl > 0
  <2>1. SUFFICES ASSUME o.status \in {"EXIT_TAKE_PROFIT", "EXIT_PROFIT_BOOKING"}
                 PROVE  o.pnl > 0
    OBVIOUS
  <2>2. LevelsTold(o)
    BY <1>3, <2>1 DEF Told, Judged
  <2> QED
    BY <1>3, <2>1, <2>2, TargetIsProfit
<1> QED
  BY <1>8, <1>11, <1>12, <1>13, <1>14

\* What the profit protection calls booked is what was closed today, but for the exits
\* whose profit was given back to the last rupee.
LEMMA BookedIsClosed ==
  ASSUME ShadowInv, Giveback > 0, Settled
  PROVE  BookPnl(ClosedToday) =
           Pnl(samples, BookedProfit \cup BookedLoss)
           + Pnl(samples, {i \in Decided({"EXIT_PROFIT_GIVEBACK"}) : samples[i].pnl <= 0})
<1> DEFINE gains == {"EXIT_TAKE_PROFIT", "EXIT_PROFIT_GIVEBACK", "EXIT_PROFIT_BOOKING"}
           stops == {"EXIT_STOP_LOSS"}
           back == {"EXIT_PROFIT_GIVEBACK"}
<1>1. PICK M, N : /\ M = BookedProfit \cup BookedLoss
                  /\ N = {i \in Decided(back) : samples[i].pnl <= 0}
  OBVIOUS
<1>2. PICK L : L = Lasts(StudiedOn(LatestDay), LatestDay)
  OBVIOUS
<1>3. \A s \in StudiedOn(LatestDay) : Group(s, LatestDay) # {}
  BY DEF StudiedOn, Studied
<1>4. L \subseteq DOMAIN samples /\ \A i, j \in L : samples[i].observation = samples[j].observation => i = j
  BY <1>2, <1>3, LastsAre
<1>5. /\ BookedProfit = {i \in Decided(gains) : samples[i].pnl > 0}
      /\ BookedLoss = Decided(stops)
  BY DEF BookedProfit, BookedLoss
<1>6. gains \subseteq DayExits /\ stops \subseteq DayExits /\ back \subseteq DayExits
  BY DEF DayExits
<1> HIDE DEF gains, stops, back
<1>7. \A actions : actions \subseteq DayExits => \A i \in Decided(actions) :
        /\ i \in L /\ samples[i].observation \in ClosedToday
        /\ observations[samples[i].observation].status \in actions
  BY <1>2, DecidedIsClosed
<1>8. /\ \A i \in M : i \in L /\ samples[i].observation \in ClosedToday
      /\ \A i \in N : i \in L /\ samples[i].observation \in ClosedToday
  BY <1>1, <1>5, <1>6, <1>7
<1>9. M \cap N = {}
  <2>1. SUFFICES ASSUME NEW i \in M, i \in N
                 PROVE  FALSE
    OBVIOUS
  <2>2. samples[i].pnl \in Int /\ samples[i].pnl <= 0
    BY <1>1, <1>4, <1>8, <2>1, ResultsType
  <2>3. i \notin BookedProfit
    BY <1>5, <2>2
  <2>4. i \in Decided(stops) /\ i \in Decided(back)
    BY <1>1, <1>5, <2>1, <2>3
  <2>5. /\ observations[samples[i].observation].status \in stops
        /\ observations[samples[i].observation].status \in back
    BY <1>6, <1>7, <2>4
  <2> QED
    BY <2>5 DEF stops, back
<1>10. PICK X, Y : X = Behind(M) /\ Y = Behind(N)
  OBVIOUS
<1>11. X \cap Y = {}
  BY <1>4, <1>8, <1>9, <1>10 DEF Behind
<1>12. X \cup Y = ClosedToday
  <2>1. X \subseteq ClosedToday /\ Y \subseteq ClosedToday
    BY <1>8, <1>10 DEF Behind
  <2>2. ASSUME NEW id \in ClosedToday PROVE id \in X \cup Y
    <3>1. PICK o : o = observations[id]
      OBVIOUS
    <3>2. /\ o.status \in DayExits
          /\ o.status \in {"EXIT_TAKE_PROFIT", "EXIT_PROFIT_BOOKING"} => o.pnl > 0
          /\ \E i : /\ \A actions : o.status \in actions => i \in Decided(actions)
                    /\ samples[i].observation = id /\ samples[i].pnl = o.pnl
      BY <3>1, ClosedIsDecided
    <3>3. PICK i : /\ \A actions : o.status \in actions => i \in Decided(actions)
                   /\ samples[i].observation = id /\ samples[i].pnl = o.pnl
      BY <3>2
    <3>4. o.pnl \in Int
      BY <3>1, ResultsType DEF ClosedToday
    <3>5. CASE o.status = "EXIT_STOP_LOSS"
      <4>1. i \in BookedLoss
        BY <1>5, <3>3, <3>5 DEF stops
      <4> QED
        BY <1>1, <1>10, <3>3, <4>1 DEF Behind
    <3>6. CASE o.status \in gains /\ o.pnl > 0
      <4>1. i \in BookedProfit
        BY <1>5, <3>3, <3>6
      <4> QED
        BY <1>1, <1>10, <3>3, <4>1 DEF Behind
    <3>7. CASE o.status \in back /\ o.pnl <= 0
      <4>1. i \in N
        BY <1>1, <3>3, <3>7
      <4> QED
        BY <1>10, <3>3, <4>1 DEF Behind
    <3> QED
      BY <3>2, <3>4, <3>5, <3>6, <3>7 DEF DayExits, gains, back
  <2> QED
    BY <2>1, <2>2
<1>13. /\ ClosedToday \subseteq DOMAIN observations
       /\ IsFiniteSet(X) /\ IsFiniteSet(Y) /\ \A id \in X \cup Y : AllResults[id] \in Int
  <2>1. ClosedToday \subseteq DOMAIN observations
    BY DEF ClosedToday
  <2> QED
    BY <1>12, <2>1, ResultsType, FS_Subset
<1>14. SumFunctionOnSet(AllResults, X \cup Y)
         = SumFunctionOnSet(AllResults, X) + SumFunctionOnSet(AllResults, Y)
  BY <1>11, <1>13, SumUnion
<1>15. BookPnl(ClosedToday) = SumFunctionOnSet(AllResults, ClosedToday)
  <2>1. \A id \in ClosedToday : ~ResizedLate(observations[id])
    <3>1. \A id \in ClosedToday : observations[id].status \in DayExits
      BY ClosedIsDecided
    <3> QED
      BY <3>1 DEF DayExits, ResizedLate
  <2> QED
    BY <1>13, <2>1, BookPnlIs
<1>16. /\ Pnl(samples, M) = SumFunctionOnSet(AllResults, X)
       /\ Pnl(samples, N) = SumFunctionOnSet(AllResults, Y)
  <2>1. M \subseteq L /\ N \subseteq L
    BY <1>8
  <2> QED
    BY <1>2, <1>3, <1>10, <2>1, PnlOfLasts
<1> QED
  BY <1>1, <1>12, <1>14, <1>15, <1>16 DEF back

\* The totals of a book in order agree.
LEMMA OrderAgrees ==
  ASSUME ShadowInv, ReportsInv, Giveback > 0
  PROVE  TotalsAgree
<1>1. \A day \in Days :
        (\A m \in Markets : <<m, day>> \in DOMAIN snapshots /\ ~Resized(m, day)) =>
          HistoryTotal(day) = DayRow("INDIA", day) + DayRow("US", day) + BookPnl(Replaced(day))
  BY HistoryIsExplained
<1>2. CurrentTotal = DayRow("INDIA", LatestDay) + DayRow("US", LatestDay)
  BY CurrentIsBothRows
<1>3. LatestDay = DayStart(now) /\ (\A s \in DecisionsToday : EnteredOnce(s, LatestDay)) =>
        BookPnl(ClosedToday) =
          Pnl(samples, BookedProfit \cup BookedLoss)
          + Pnl(samples, {i \in Decided({"EXIT_PROFIT_GIVEBACK"}) : samples[i].pnl <= 0})
  BY BookedIsClosed DEF Settled
<1> QED
  BY <1>1, <1>2, <1>3 DEF TotalsAgree

\* The totals that the reports give of a day, from the reviews kept, from its samples and
\* from its exits, explain each other, whatever cycles, crashes and requests came between;
\* the reviews kept and the samples do so for the days without a late rescale, the others
\* whatever was rescaled.
THEOREM TotalsAreExplained ==
  ASSUME Alone, Giveback > 0
  PROVE  ReportsSpec => []TotalsAgree
<1>1. ShadowInv /\ ReportsInv => TotalsAgree
  BY OrderAgrees
<1> QED
  BY <1>1, ReviewsAreInv, PTL
=============================================================================
