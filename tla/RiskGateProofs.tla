--------------------------- MODULE RiskGateProofs ---------------------------
(***************************************************************************)
(* What the runs of RiskGate show on a small instance, for every one: any  *)
(* number of symbols and threads, any prices, limits and timeouts.         *)
(***************************************************************************)
EXTENDS RiskGate, FiniteSetTheorems, TLAPS

\* A floor times its divisor does not exceed the dividend.
LEMMA Floor ==
  ASSUME NEW a \in Nat, NEW b \in Nat \ {0}
  PROVE  /\ a \div b \in Nat
         /\ (a \div b) * b <= a
  OBVIOUS

\* A smaller number of shares costs no more.
LEMMA Fewer ==
  ASSUME NEW q \in Nat, NEW n \in Nat, q <= n, NEW x \in Nat
  PROVE  q * x <= n * x
  OBVIOUS

\* A quantity that a floor bounds, at a price that divides the dividend.
LEMMA FloorBound ==
  ASSUME NEW q \in Nat, NEW a \in Nat, NEW x \in Nat \ {0}, q <= a \div (Scale * x)
  PROVE  q * x * Scale <= a
  <1>1. Scale * x \in Nat \ {0}
    BY RiskGateAssumption
  <1>2. q * (Scale * x) <= (a \div (Scale * x)) * (Scale * x)
    BY <1>1, Floor, Fewer
  <1>3. q * (Scale * x) <= a
    BY <1>1, <1>2, Floor
  <1> QED BY <1>3, RiskGateAssumption

\* What position sizing promises of a quantity, for either side of the market.
LEMMA QuantityBounds ==
  ASSUME NEW c \in Candidates, NEW p \in PortfolioSnapshot,
         NEW entry_inr \in Nat \ {0}, NEW stop_inr \in Nat \ {0},
         c.action \in {"BUY", "SELL"}, held \in [Symbols -> Nat]
  PROVE  LET q == Quantity(c, p, entry_inr, stop_inr)
         IN /\ q \in Nat
            /\ c.action = "BUY" => q * entry_inr <= p.cash
            /\ c.action = "SELL" => q <= held[c.symbol]
            /\ q * stop_inr * Scale <= p.total * RiskConfig.max_risk_per_trade
            /\ q * entry_inr * Scale <= p.total * RiskConfig.max_position[c.asset_class]
  <1> DEFINE q == Quantity(c, p, entry_inr, stop_inr)
             risked == p.total * RiskConfig.max_risk_per_trade
             placed == p.total * RiskConfig.max_position[c.asset_class]
             room == AtLeastZero(p.total * RiskConfig.max_exposure[c.market]
                                   - p.exposure[c.market] * Scale)
             by_risk == risked \div (Scale * stop_inr)
             by_position == placed \div (Scale * entry_inr)
             by_cash == IF c.action = "BUY" THEN p.cash \div entry_inr ELSE by_risk
             by_exposure == room \div (Scale * entry_inr)
  <1>1. /\ p.cash \in Nat /\ p.total \in Nat
        /\ p.exposure[c.market] \in Nat /\ RiskConfig.max_exposure[c.market] \in Nat
        /\ RiskConfig.max_position[c.asset_class] \in Nat /\ held[c.symbol] \in Nat
    BY RiskGateAssumption, CandidateAssumption, RiskConfigAssumption DEF PortfolioSnapshot, Markets
  <1>2. risked \in Nat /\ placed \in Nat
    BY <1>1, RiskConfigAssumption
  <1>3. room \in Nat
    BY <1>1, RiskGateAssumption DEF AtLeastZero
  <1>4. Scale * stop_inr \in Nat \ {0} /\ Scale * entry_inr \in Nat \ {0}
    BY RiskGateAssumption
  <1>5. by_risk \in Nat /\ by_position \in Nat /\ by_cash \in Nat /\ by_exposure \in Nat
    <2> HIDE DEF risked, placed, room
    <2> QED BY <1>1, <1>2, <1>3, <1>4, Floor
  <1>6. /\ q \in Nat /\ q <= by_risk /\ q <= by_position
        /\ c.action = "BUY" => q <= by_cash
        /\ c.action = "SELL" => q <= held[c.symbol]
    <2>1. CapQuantity(c, p, QuantityByRisk(p.total, stop_inr), entry_inr)
            = AtMost(AtMost(by_risk, by_position), AtMost(by_cash, by_exposure))
      BY DEF CapQuantity, QuantityByRisk
    <2>2. q = LET capped == AtLeastZero(AtMost(AtMost(by_risk, by_position),
                                               AtMost(by_cash, by_exposure)))
              IN IF c.action = "SELL" THEN AtMost(capped, held[c.symbol]) ELSE capped
      BY <2>1 DEF Quantity
    <2> HIDE DEF q, by_risk, by_position, by_cash, by_exposure
    <2> QED BY <1>1, <1>5, <2>2 DEF AtMost, AtLeastZero
  <1> HIDE DEF q
  <1>7. c.action = "BUY" => q * entry_inr <= p.cash
    <2> SUFFICES ASSUME c.action = "BUY" PROVE q * entry_inr <= p.cash
      OBVIOUS
    <2> DEFINE n == p.cash \div entry_inr
    <2>1. q <= n
      BY <1>6
    <2>2. n \in Nat /\ n * entry_inr <= p.cash
      BY <1>1, Floor
    <2> HIDE DEF n
    <2>3. q * entry_inr <= n * entry_inr
      BY <1>6, <2>1, <2>2, Fewer
    <2> QED BY <1>1, <1>6, <2>2, <2>3
  <1>8. q * stop_inr * Scale <= risked /\ q * entry_inr * Scale <= placed
    <2> HIDE DEF risked, placed
    <2>1. q <= risked \div (Scale * stop_inr) /\ q <= placed \div (Scale * entry_inr)
      BY <1>6
    <2> HIDE DEF by_risk, by_position
    <2>2. q * stop_inr * Scale <= risked
      BY <1>2, <1>6, <2>1, FloorBound
    <2>3. q * entry_inr * Scale <= placed
      BY <1>2, <1>6, <2>1, FloorBound
    <2> QED BY <2>2, <2>3
  <1> QED BY <1>6, <1>7, <1>8 DEF q

-----------------------------------------------------------------------------
(* The inductive invariant.  An order that waits for its fill is covered by the
   account at what it was worth when it was approved; nothing but the fill changes
   the account, and the fill may find another price. *)

Covered ==
  decision # None =>
    /\ cash \in Nat
    /\ decision.action = "BUY" => decision.quantity * decision.worth <= cash
    /\ decision.action = "SELL" => decision.quantity <= held[decision.symbol]

\* A record is stored within MaxProbe of its sample, so the time stamp next to it
\* is at most that much newer, whichever thread wrote it.
Sampled(r) == r.sampled \in Nat /\ r.sampled <= clock

CacheInv ==
  /\ cache # None => Sampled(cache)
  /\ cache_at # None => cache_at \in Nat /\ cache_at <= clock
  /\ cache # None /\ cache_at # None => cache_at <= cache.sampled + MaxProbe

ThreadInv(t) ==
  /\ asked[t] \in Nat /\ asked[t] <= clock
  /\ pc[t] = "store" => Sampled(probed[t]) /\ clock <= probed[t].sampled + MaxProbe
  /\ pc[t] = "stamp" => Sampled(cache) /\ clock <= cache.sampled + MaxProbe
  /\ pc[t] = "serve" => Sampled(cache) /\ clock <= cache.sampled + CacheTtl + MaxProbe

ServiceInv ==
  /\ pc \in [Threads -> {"idle", "probe", "store", "stamp", "serve"}]
  /\ DOMAIN asked = Threads /\ DOMAIN probed = Threads
  /\ CacheInv /\ \A t \in Threads : ThreadInv(t)

IInv == TypeOK /\ Covered /\ HealthIsRecent /\ ServiceInv

\* One position more than there are: the limit on their number was not reached.
LEMMA OneMore ==
  ASSUME NEW S \in SUBSET Symbols, NEW s \in Symbols, NEW limit \in Nat, Cardinality(S) < limit
  PROVE  Cardinality(S \cup {s}) <= limit
  <1>1. IsFiniteSet(S)
    BY FS_Subset, RiskGateAssumption
  <1>2. Cardinality(S) \in Nat
    BY <1>1, FS_CardinalityType
  <1>3. Cardinality(S \cup {s}) \in {Cardinality(S), Cardinality(S) + 1}
    BY <1>1, FS_AddElement
  <1> QED BY <1>2, <1>3

\* What evaluate approves.
LEMMA ApprovalFits ==
  ASSUME TypeOK, NEW c \in Candidates, NEW in,
         Approves(c, Portfolio, in)
  PROVE  LET d == Approval(c, Portfolio, in)
         IN /\ d.symbol = c.symbol /\ d.action \in {"BUY", "SELL"}
            /\ d.asset_class \in {"STOCK", "ETF"}
            /\ d.quantity \in Nat \ {0} /\ d.worth \in Nat \ {0}
            /\ d.capital \in Nat /\ d.risk \in Nat /\ cash \in Nat
            /\ d.action = "BUY" => d.quantity * d.worth <= cash
            /\ OrderFits(d)
  <1> DEFINE p == Portfolio
             d == Approval(c, p, in)
             entry_inr == price[c.symbol] * RateUsed(c, in)
             stop_inr == c.stop * RateUsed(c, in)
             q == Quantity(c, p, entry_inr, stop_inr)
  <1>0. /\ c.action \in {"BUY", "SELL"} /\ c.symbol \in Symbols /\ c.market = Market[c.symbol]
        /\ c.market \in Markets /\ c.asset_class \in {"STOCK", "ETF"}
        /\ p \in PortfolioSnapshot /\ p.cash = cash /\ cash \in Nat
        /\ held \in [Symbols -> Nat]
    BY CandidateAssumption, RiskGateAssumption
    DEF Approves, Trades, Portfolio, PortfolioSnapshot, TypeOK
  <1>1. /\ FxAllows(c.market, in) /\ StopAllows(c) /\ OpenPositionsAllow(c)
        /\ d.quantity > 0 /\ ExposureAllows(c, d.capital, p)
    BY DEF Approves, Allows
  <1>2. RateUsed(c, in) \in Nat \ {0}
    BY <1>0, <1>1, RiskGateAssumption DEF RateUsed, FxAllows, FxFresh, TypeOK
  <1>3. entry_inr \in Nat \ {0} /\ stop_inr \in Nat \ {0}
    <2>1. price[c.symbol] \in Nat \ {0} /\ c.stop \in Nat \ {0}
      BY <1>0, <1>1, CandidateAssumption DEF TypeOK, StopAllows
    <2> QED BY <1>2, <2>1
  <1>4. /\ d.symbol = c.symbol /\ d.action = c.action /\ d.quantity = q
        /\ d.worth = entry_inr /\ d.capital = q * entry_inr /\ d.risk = q * stop_inr
        /\ d.asset_class = c.asset_class
    BY <1>0, <1>1 DEF Approval, Worth, Rate, RateUsed, FxAllows, FxFresh
  <1> HIDE DEF p, d, entry_inr, stop_inr
  <1>5. /\ q \in Nat
        /\ c.action = "BUY" => q * entry_inr <= p.cash
        /\ c.action = "SELL" => q <= held[c.symbol]
        /\ q * stop_inr * Scale <= p.total * RiskConfig.max_risk_per_trade
        /\ q * entry_inr * Scale <= p.total * RiskConfig.max_position[c.asset_class]
    BY <1>0, <1>3, QuantityBounds DEF p
  <1> HIDE DEF q
  <1>6. q \in Nat \ {0} /\ q * entry_inr \in Nat /\ q * stop_inr \in Nat
    BY <1>1, <1>3, <1>4, <1>5
  <1>7. p.total \in Nat
    BY <1>0 DEF PortfolioSnapshot
  <1>8. c.action = "BUY" =>
          /\ Within(p.equity + d.capital, RiskConfig.max_total_exposure, p.total)
          /\ Within(p.exposure[c.market] + d.capital, RiskConfig.max_exposure[c.market], p.total)
    <2>1. RiskConfig.max_exposure[c.market] \in Nat /\ RiskConfig.max_total_exposure \in Nat
      BY <1>0, RiskConfigAssumption
    <2> QED BY <1>0, <1>1, <1>7, <2>1 DEF ExposureAllows, Within
  <1>9. c.action = "BUY" =>
          /\ Cardinality({s \in Symbols : held[s] > 0} \cup {c.symbol}) <= RiskConfig.max_open_total
          /\ Cardinality(Open(c.market) \cup {c.symbol}) <= RiskConfig.max_open[c.market]
    <2>1. Open("INDIA") \cup Open("US") = {s \in Symbols : held[s] > 0}
      BY RiskGateAssumption DEF Open, Markets
    <2>2. Open(c.market) \in SUBSET Symbols
      BY DEF Open
    <2>3. RiskConfig.max_open_total \in Nat /\ RiskConfig.max_open[c.market] \in Nat
      BY <1>0, RiskConfigAssumption
    <2> QED BY <1>0, <1>1, <2>1, <2>2, <2>3, OneMore DEF OpenPositionsAllow
  <1>10. /\ Within(d.risk, RiskConfig.max_risk_per_trade, p.total)
         /\ Within(d.capital, RiskConfig.max_position[c.asset_class], p.total)
    <2>1. /\ RiskConfig.max_risk_per_trade \in Nat
          /\ RiskConfig.max_position[c.asset_class] \in Nat
      BY <1>0, RiskConfigAssumption
    <2> QED BY <1>4, <1>5, <1>6, <1>7, <2>1 DEF Within
  <1>11. OrderFits(d)
    BY <1>0, <1>4, <1>5, <1>8, <1>9, <1>10 DEF OrderFits, p
  <1> QED BY <1>0, <1>3, <1>4, <1>5, <1>6, <1>11 DEF d, p

-----------------------------------------------------------------------------
\* Initially nothing is held, decided or cached.
LEMMA InitInv == Init => IInv
  <1> SUFFICES ASSUME Init PROVE IInv
    OBVIOUS
  <1>1. TypeOK
    BY RiskGateAssumption DEF Init, TypeOK, LastPrices
  <1>2. Covered /\ HealthIsRecent
    BY DEF Init, Covered, HealthIsRecent
  <1>3. ServiceInv
    BY DEF Init, ServiceInv, CacheInv, ThreadInv
  <1> QED BY <1>1, <1>2, <1>3 DEF IInv

\* The steps of BrokerService touch neither the account nor the decision.
LEMMA AccountKept ==
  ASSUME TypeOK, Covered, HealthIsRecent, UNCHANGED <<book, market, decision, orders>>,
         clock' \in Nat
  PROVE  TypeOK' /\ Covered' /\ HealthIsRecent'
  BY DEF TypeOK, Covered, HealthIsRecent, book, market, Approved

\* What leaves the clock, the cache and its threads alone keeps their invariant.
LEMMA ServiceKept ==
  ASSUME ServiceInv, UNCHANGED <<clock, service>>
  PROVE  ServiceInv'
  BY DEF ServiceInv, CacheInv, ThreadInv, Sampled, service

\* No step of `statuses`, by any thread, dates a sample more than a probe's time late.
LEMMA StatusesInv ==
  ASSUME TypeOK, ServiceInv, NEW t \in Threads,
         Ask(t) \/ Probe(t) \/ Store(t) \/ Stamp(t) \/ Show(t)
  PROVE  ServiceInv'
  <1> USE RiskGateAssumption
  <1>0. clock \in Nat /\ clock' = clock
    BY DEF TypeOK, Ask, Probe, Store, Stamp, Show
  <1>1. CASE Ask(t)
    BY <1>0, <1>1 DEF Ask, At, CacheIsFresh, ServiceInv, CacheInv, ThreadInv, Sampled
  <1>2. CASE Probe(t)
    <2>1. probed'[t].sampled = clock
      BY <1>2 DEF Probe, ServiceInv
    <2> QED
      BY <1>0, <1>2, <2>1 DEF Probe, At, ServiceInv, CacheInv, ThreadInv, Sampled
  <1>3. CASE Store(t)
    <2>1. Sampled(cache)' /\ clock' <= cache'.sampled + MaxProbe
      BY <1>0, <1>3 DEF Store, ServiceInv, ThreadInv, Sampled
    <2>2. CacheInv'
      BY <1>0, <1>3, <2>1 DEF Store, ServiceInv, CacheInv, Sampled
    <2>3. \A u \in Threads : ThreadInv(u)'
      BY <1>0, <1>3, <2>1 DEF Store, At, ServiceInv, ThreadInv, Sampled
    <2> QED BY <1>3, <2>2, <2>3 DEF Store, At, ServiceInv
  <1>4. CASE Stamp(t)
    <2>1. CacheInv'
      BY <1>0, <1>4 DEF Stamp, ServiceInv, CacheInv, ThreadInv, Sampled
    <2>2. \A u \in Threads : ThreadInv(u)'
      BY <1>0, <1>4 DEF Stamp, At, ServiceInv, CacheInv, ThreadInv, Sampled
    <2> QED BY <1>4, <2>1, <2>2 DEF Stamp, At, ServiceInv
  <1>5. CASE Show(t)
    BY <1>0, <1>5 DEF Show, At, ServiceInv, CacheInv, ThreadInv, Sampled
  <1> QED BY <1>1, <1>2, <1>3, <1>4, <1>5

\* Time passes no further than a thread that holds a sample may take to store it.
LEMMA TickInv ==
  ASSUME TypeOK, ServiceInv, Tick
  PROVE  ServiceInv'
  <1>1. clock \in Nat /\ clock' = clock + 1 /\ UNCHANGED service
    BY DEF TypeOK, Tick
  <1>2. \A t \in Threads : \/ pc[t] = "idle"
                           \/ pc[t] = "store" /\ clock < probed[t].sampled + MaxProbe
    BY DEF Tick
  <1> QED
    BY <1>1, <1>2, RiskGateAssumption
    DEF ServiceInv, CacheInv, ThreadInv, Sampled, service

\* A decision that approves is covered by the account it was made for.
LEMMA EvaluateInv ==
  ASSUME IInv, Evaluate
  PROVE  IInv'
  <1> USE DEF IInv
  <1>1. PICK c \in Candidates, in \in Inputs :
          \/ Approves(c, Portfolio, in) /\ decision' = Approval(c, Portfolio, in)
          \/ ~Approves(c, Portfolio, in) /\ decision' = None
    BY DEF Evaluate, Decisions
  <1>2. /\ UNCHANGED <<book, market, orders, clock, cache, cache_at, asked, probed>>
        /\ pc' = [pc EXCEPT ![TradingThread] = "idle"]
        /\ pc[TradingThread] = "serve"
    BY DEF Evaluate, At
  <1>3. ServiceInv'
    BY <1>2 DEF ServiceInv, CacheInv, ThreadInv, Sampled
  <1>4. CASE decision' = None
    BY <1>2, <1>3, <1>4 DEF TypeOK, Covered, HealthIsRecent, book, market
  <1>5. CASE Approves(c, Portfolio, in) /\ decision' = Approval(c, Portfolio, in)
    <2> DEFINE d == Approval(c, Portfolio, in)
    <2>1. d.health_age \in Int /\ d.health_age <= CacheTtl + MaxProbe
      <3>1. d.health_age = clock - cache.sampled
        BY DEF Approval
      <3>2. Sampled(cache) /\ clock <= cache.sampled + CacheTtl + MaxProbe
        BY <1>2, RiskGateAssumption DEF ServiceInv, ThreadInv
      <3> QED BY <3>1, <3>2, RiskGateAssumption DEF TypeOK, Sampled
    <2>2. /\ d.symbol \in Symbols /\ d.action \in {"BUY", "SELL"}
          /\ d.asset_class \in {"STOCK", "ETF"}
          /\ d.quantity \in Nat \ {0} /\ d.worth \in Nat \ {0}
          /\ d.capital \in Nat /\ d.risk \in Nat /\ cash \in Nat
          /\ d.action = "BUY" => d.quantity * d.worth <= cash
          /\ d.action = "SELL" => d.quantity <= held[d.symbol]
      BY <1>2, <1>5, ApprovalFits, CandidateAssumption DEF OrderFits
    <2>3. d \in Approved
      BY <2>1, <2>2 DEF Approval, Approved
    <2> HIDE DEF d
    <2>4. TypeOK'
      BY <1>2, <1>5, <2>3 DEF d, TypeOK, book, market
    <2>5. Covered'
      BY <1>2, <1>5, <2>2 DEF d, Covered, book
    <2>6. HealthIsRecent'
      BY <1>5, <2>1 DEF d, HealthIsRecent
    <2> QED BY <1>3, <2>4, <2>5, <2>6
  <1> QED BY <1>1, <1>4, <1>5

\* What an order costs at its fill: the holding covers a sale, and a purchase that
\* overdraws the account does so by the move since its approval.
LEMMA FillCost ==
  ASSUME IInv, Fill
  PROVE  /\ cash \in Nat /\ cash' \in Int /\ held' \in [Symbols -> Nat]
         /\ cash' < 0 =>
              /\ decision.action = "BUY"
              /\ -cash' <= decision.quantity * (Worth(decision.symbol) - decision.worth)
  <1> USE DEF IInv
  <1> DEFINE now == Worth(decision.symbol)
  <1>1. PICK q \in 0..decision.quantity :
          \/ /\ decision.action = "BUY"
             /\ cash' = cash - q * now
             /\ held' = [held EXCEPT ![decision.symbol] = @ + q]
          \/ /\ decision.action = "SELL"
             /\ cash' = cash + q * now
             /\ held' = [held EXCEPT ![decision.symbol] = @ - q]
    BY DEF Fill
  <1>2. decision \in Approved /\ decision # None
    BY DEF Fill, TypeOK
  <1>3. /\ decision.symbol \in Symbols /\ decision.action \in {"BUY", "SELL"}
        /\ decision.quantity \in Nat /\ decision.worth \in Nat
        /\ held[decision.symbol] \in Nat /\ cash \in Nat
    BY <1>2 DEF Approved, TypeOK, Covered
  <1>4. q \in Nat /\ q <= decision.quantity
    BY <1>3
  <1>5. now \in Nat
    BY <1>3, RiskGateAssumption DEF TypeOK, Worth, Rate
  <1>6. /\ decision.action = "BUY" => decision.quantity * decision.worth <= cash
        /\ decision.action = "SELL" => decision.quantity <= held[decision.symbol]
    BY <1>2 DEF Covered
  <1> HIDE DEF now
  <1>7. q * now \in Nat /\ decision.quantity * now \in Nat /\ q * now <= decision.quantity * now
    BY <1>3, <1>4, <1>5, Fewer
  <1>8. cash' \in Int
    BY <1>1, <1>3, <1>7
  <1>9. held' \in [Symbols -> Nat]
    <2>1. CASE decision.action = "BUY"
      BY <1>1, <1>3, <1>4, <2>1 DEF TypeOK
    <2>2. CASE decision.action = "SELL"
      <3>1. held[decision.symbol] - q \in Nat
        BY <1>3, <1>4, <1>6, <2>2
      <3> QED BY <1>1, <1>3, <2>2, <3>1 DEF TypeOK
    <2> QED BY <1>3, <2>1, <2>2
  <1>10. ASSUME cash' < 0
         PROVE  /\ decision.action = "BUY"
                /\ -cash' <= decision.quantity * (now - decision.worth)
    <2>1. decision.action = "BUY" /\ cash' = cash - q * now
      BY <1>1, <1>3, <1>7, <1>10
    <2>2. -cash' <= decision.quantity * now - decision.quantity * decision.worth
      <3> DEFINE paid == q * now
                 most == decision.quantity * now
                 approved == decision.quantity * decision.worth
      <3>1. paid \in Nat /\ most \in Nat /\ approved \in Nat /\ paid <= most
        BY <1>3, <1>7
      <3>2. cash' = cash - paid /\ approved <= cash
        BY <1>6, <2>1
      <3> HIDE DEF paid, most, approved
      <3>3. -cash' <= most - approved
        BY <1>3, <3>1, <3>2
      <3> QED BY <3>3 DEF most, approved
    <2>3. decision.quantity * (now - decision.worth)
            = decision.quantity * now - decision.quantity * decision.worth
      BY <1>3, <1>5
    <2> QED BY <2>1, <2>2, <2>3
  <1> QED BY <1>3, <1>8, <1>9, <1>10 DEF now

\* A fill ends the decision and changes nothing but the account.
LEMMA FillInv ==
  ASSUME IInv, Fill
  PROVE  IInv'
  <1>1. /\ decision' = None /\ orders' = orders + 1
        /\ UNCHANGED <<market, clock, service>>
    BY DEF Fill
  <1>2. TypeOK'
    BY <1>1, FillCost DEF IInv, TypeOK, market
  <1>3. Covered' /\ HealthIsRecent'
    BY <1>1 DEF Covered, HealthIsRecent
  <1> QED BY <1>1, <1>2, <1>3, ServiceKept DEF IInv

\* The invariant is inductive.
LEMMA NextInv ==
  ASSUME IInv, [Next]_vars
  PROVE  IInv'
  <1>1. ASSUME NEW t \in Threads, Ask(t) \/ Probe(t) \/ Store(t) \/ Stamp(t) \/ Show(t)
        PROVE  IInv'
    <2>1. UNCHANGED <<book, market, decision, orders, clock>>
      BY <1>1 DEF Ask, Probe, Store, Stamp, Show
    <2> QED BY <1>1, <2>1, StatusesInv, AccountKept DEF IInv, TypeOK
  <1>2. CASE Evaluate
    BY <1>2, EvaluateInv
  <1>3. CASE Fill
    BY <1>3, FillInv
  <1>4. CASE PriceMoves
    <2>1. UNCHANGED <<book, decision, orders, clock, service>>
      BY <1>4 DEF PriceMoves
    <2>2. price' \in [Symbols -> Nat \ {0}] /\ fx' \in FxRates
      BY <1>4, RiskGateAssumption DEF PriceMoves, IInv, TypeOK
    <2>3. TypeOK' /\ Covered' /\ HealthIsRecent'
      BY <2>1, <2>2 DEF IInv, TypeOK, Covered, HealthIsRecent, book
    <2> QED BY <2>1, <2>3, ServiceKept DEF IInv
  <1>5. CASE Tick
    <2>1. UNCHANGED <<book, market, decision, orders>> /\ clock' \in Nat
      BY <1>5 DEF Tick, IInv, TypeOK
    <2> QED BY <1>5, <2>1, TickInv, AccountKept DEF IInv
  <1>6. CASE UNCHANGED vars
    <2>1. UNCHANGED <<book, market, decision, orders, clock>> /\ UNCHANGED service
      BY <1>6 DEF vars
    <2> QED BY <2>1, AccountKept, ServiceKept DEF IInv, TypeOK
  <1> QED BY <1>1, <1>2, <1>3, <1>4, <1>5, <1>6 DEF Next

-----------------------------------------------------------------------------
\* Every variable keeps its type: no approved order sells shares that are not held.
THEOREM TypeCorrect == Spec => []TypeOK
  <1>1. Spec => []IInv
    BY InitInv, NextInv, PTL DEF Spec
  <1> QED BY <1>1, PTL DEF IInv

\* No approval rests on a health record older than a serving time and a check.
THEOREM HealthIsBounded == Spec => []HealthIsRecent
  <1>1. Spec => []IInv
    BY InitInv, NextInv, PTL DEF Spec
  <1> QED BY <1>1, PTL DEF IInv

\* An account is overdrawn by what the price and the rate moved since the approval, on
\* the approved quantity, and by nothing else.
THEOREM OverdraftIsBounded == Spec => OverdraftIsTheMove
  <1> DEFINE Step ==
        cash' # cash /\ cash' < 0 =>
          /\ cash >= 0
          /\ decision.action = "BUY"
          /\ -cash' <= decision.quantity * (Worth(decision.symbol) - decision.worth)
  <1>1. IInv /\ [Next]_vars => [Step]_vars
    <2> SUFFICES ASSUME IInv, Next, cash' # cash, cash' < 0
                 PROVE  /\ cash >= 0
                        /\ decision.action = "BUY"
                        /\ -cash' <= decision.quantity * (Worth(decision.symbol) - decision.worth)
      OBVIOUS
    <2>1. Fill
      BY DEF Next, Ask, Probe, Store, Stamp, Show, Evaluate, PriceMoves, Tick, book
    <2> QED BY <2>1, FillCost
  <1>2. Spec => []IInv
    BY InitInv, NextInv, PTL DEF Spec
  <1>3. Spec => [][Step]_vars
    BY <1>1, <1>2, PTL DEF Spec
  <1> QED BY <1>3 DEF OverdraftIsTheMove

\* Every approved order leaves the portfolio within the limits.
THEOREM OrdersFit == Spec => ApprovedOrdersFit
  <1> DEFINE Step == decision' # decision /\ decision' # None => OrderFits(decision')
  <1>1. TypeOK /\ [Next]_vars => [Step]_vars
    <2> SUFFICES ASSUME TypeOK, Next, decision' # decision, decision' # None
                 PROVE  OrderFits(decision')
      OBVIOUS
    <2>1. Evaluate
      BY DEF Next, Ask, Probe, Store, Stamp, Show, Fill, PriceMoves, Tick
    <2>2. \E c \in Candidates, in \in Inputs :
            decision' = IF Approves(c, Portfolio, in) THEN Approval(c, Portfolio, in) ELSE None
      BY <2>1 DEF Evaluate, Decisions
    <2>3. PICK c \in Candidates, in \in Inputs :
            Approves(c, Portfolio, in) /\ decision' = Approval(c, Portfolio, in)
      BY <2>2
    <2> QED BY <2>1, <2>3, ApprovalFits DEF Evaluate
  <1>2. Spec => [][Step]_vars
    BY <1>1, TypeCorrect, PTL DEF Spec
  <1> QED BY <1>2 DEF ApprovedOrdersFit
=============================================================================
