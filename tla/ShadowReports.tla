---------------------------- MODULE ShadowReports ----------------------------
(***************************************************************************)
(* What the dashboard, the mail and the training report say of the shadow  *)
(* book, next to the cycles that write it:                                 *)
(*   - the daily review of yesterday, kept as one row per market and day,  *)
(*   - the day-wise profit and loss, from the samples,                     *)
(*   - the exits that the profit protection recommends, from the samples,  *)
(*   - the outcome of each idea in the training report, from the samples.  *)
(* Each derives from its own rows what the cycle decided on others.        *)
(*                                                                         *)
(* The windows of the reports (21 days, 5 days, 4000 samples) are longer   *)
(* than an instance, and left out.                                         *)
(***************************************************************************)
EXTENDS ShadowTraining

CONSTANT Readers  \* requests of the dashboard, its stream and the mail

VARIABLES
  snapshots,  \* the rows of daily_market_review_snapshots, by market and day
  request     \* request[r]: what an open daily_summary has read, or None

reportVars == <<snapshots, request>>
allVars == <<now, observations, samples, lock, session, cycles, snapshots, request>>

-----------------------------------------------------------------------------
\* A day is named by the tick it starts with.
Days == {DayStart(t) : t \in Time}

Winners(S) == {id \in S : observations[id].pnl > 0}
Losers(S) == {id \in S : observations[id].pnl < 0}
BookPnl(S) == SumFunctionOnSet([id \in S |-> observations[id].pnl], S)
BookNotional(S) == SumFunctionOnSet([id \in S |-> observations[id].notional], S)

(***************************************************************************)
(* The daily review.                                                       *)
(***************************************************************************)
\* _daily_market_review, of the observations that were last marked on the day.
Review(market, day) ==
  LET seen == {id \in DOMAIN observations :
                 /\ observations[id].market = market
                 /\ DayStart(observations[id].last_marked_at) = day}
  IN [shadow_hypotheses |-> Cardinality(seen),
      hypothetical_notional_inr |-> BookNotional(seen),
      hypothetical_pnl_inr |-> BookPnl(seen),
      winners |-> Cardinality(Winners(seen)),
      losers |-> Cardinality(Losers(seen))]

DailyMarketReviewSnapshot ==
  [shadow_hypotheses: Nat, hypothetical_notional_inr: Nat, hypothetical_pnl_inr: Int,
   winners: Nat, losers: Nat]

\* Mutant: the review is that of the day that has begun.
Today == DayStart(now)

Yesterday == DayStart(now) - TicksPerDay

\* daily_summary up to the flush of its snapshots: the reviews, and the markets of
\* which no row is there yet.
Read(r) ==
  /\ request[r] = None
  /\ Yesterday >= 0
  /\ request' = [request EXCEPT ![r] =
       [day |-> Yesterday,
        reviews |-> [m \in Markets |-> Review(m, Yesterday)],
        new |-> {m \in Markets : <<m, Yesterday>> \notin DOMAIN snapshots}]]
  /\ UNCHANGED <<now, observations, samples, lock, session, cycles, snapshots>>

\* The flush and the commit: new rows are inserted, the others updated.
Store(r) ==
  LET q == request[r]
  IN /\ q # None
     /\ \A m \in q.new : <<m, q.day>> \notin DOMAIN snapshots
     /\ snapshots' = [key \in DOMAIN snapshots \cup (Markets \X {q.day}) |->
                        IF key[2] = q.day THEN q.reviews[key[1]] ELSE snapshots[key]]
     /\ request' = [request EXCEPT ![r] = None]
     /\ UNCHANGED <<now, observations, samples, lock, session, cycles>>

\* An INSERT that another request was faster with breaks uq_daily_market_review_market_date;
\* or the request fails otherwise.
Fail(r) ==
  /\ request[r] # None
  /\ request' = [request EXCEPT ![r] = None]
  /\ UNCHANGED <<now, observations, samples, lock, session, cycles, snapshots>>

\* _daily_review_history: the total of a day.
HistoryTotal(day) ==
  MapThenSumSet(LAMBDA key : snapshots[key].hypothetical_pnl_inr,
                {key \in DOMAIN snapshots : key[2] = day})

-----------------------------------------------------------------------------
(***************************************************************************)
(* The reports on samples.                                                 *)
(***************************************************************************)
Earlier(i, j) ==
  \/ samples[i].sample_at < samples[j].sample_at
  \/ samples[i].sample_at = samples[j].sample_at /\ i < j

FirstOf(S) == CHOOSE i \in S : \A j \in S \ {i} : Earlier(i, j)
LastOf(S) == CHOOSE i \in S : \A j \in S \ {i} : Earlier(j, i)

\* The samples of a symbol of a day, which all three reports group by.
Group(symbol, day) ==
  {i \in DOMAIN samples : samples[i].symbol = symbol /\ DayStart(samples[i].sample_at) = day}

Studied(market, day) == {s \in ToSet(Watchlist[market]) : Group(s, day) # {}}

\* _market_day_profit_loss_row: what the samples add, as far as they are invested.
MarketDayRow(S) == Pnl(samples, {i \in S : samples[i].quantity > 0 /\ samples[i].notional > 0})

\* Mutant: every sample of the day is counted.
DayRowOfAll(market, day) == MarketDayRow(UNION {Group(s, day) : s \in Studied(market, day)})

\* _day_wise_profit_loss_summary: of the latest sample of every symbol.
DayRow(market, day) == MarketDayRow({LastOf(Group(s, day)) : s \in Studied(market, day)})

\* The levels a sample carries are those of the entry of its observation.
Levels(i) == observations[samples[i].observation].metadata
EntryPrice(i) == observations[samples[i].observation].entry_price

\* _profit_booking_triggered, with _target_progress.
BookingTriggered(latest, entry_price, take_profit) ==
  LET distance == take_profit - entry_price
  IN /\ latest.pnl > 0 /\ distance > 0
     /\ latest.pnl >= BookingPnl \/ AtLeast(latest.pnl, BookingPct, latest.notional)
     /\ AtLeast(latest.price - entry_price, BookingProgress, distance)

\* A profit worth to be locked in (can_lock_profit).
CanLockProfit(peak) == peak.pnl >= LockPnl \/ AtLeast(peak.pnl, LockPct, peak.notional)

\* Mutant: the profit is booked before the target is looked at.
ActionBookingFirst(stop, target, booking, giveback, can_lock, pnl, peak_pnl) ==
  IF stop THEN "EXIT_STOP_LOSS"
  ELSE IF booking THEN "EXIT_PROFIT_BOOKING"
  ELSE IF target THEN "EXIT_TAKE_PROFIT"
  ELSE IF giveback THEN "EXIT_PROFIT_GIVEBACK"
  ELSE "WAIT"

\* _recommended_exit
Action(stop, target, booking, giveback, can_lock, pnl, peak_pnl) ==
  IF stop THEN "EXIT_STOP_LOSS"
  ELSE IF target THEN "EXIT_TAKE_PROFIT"
  ELSE IF booking THEN "EXIT_PROFIT_BOOKING"
  ELSE IF giveback THEN "EXIT_PROFIT_GIVEBACK"
  ELSE IF can_lock /\ pnl > 0 THEN "PROTECT_PROFIT"
  ELSE IF peak_pnl > 0 /\ pnl <= 0 THEN "MISSED_PROFIT_REVIEW"
  ELSE IF pnl > 0 THEN "HOLD_WINNER"
  ELSE IF pnl < 0 THEN "WATCH_LOSER"
  ELSE "WAIT"

\* _decision_from_group
RecommendedExit(symbol, day) ==
  LET group == Group(symbol, day)
      latest == samples[LastOf(group)]
      peak == samples[Peak(samples, group)]
      levels == Levels(LastOf(group))
  IN Action(\E i \in group : samples[i].price <= levels.stop_loss,
            \E i \in group : samples[i].price >= levels.take_profit,
            BookingTriggered(latest, EntryPrice(FirstOf(group)), levels.take_profit),
            HasGivenBack(peak, latest.pnl), CanLockProfit(peak), latest.pnl, peak.pnl)

\* _summary_from_decisions: of the latest day with samples, the latest sample of every
\* symbol, and of those with a recommendation out of some.
LatestDay == Max({DayStart(samples[i].sample_at) : i \in DOMAIN samples})
DecisionsToday == UNION {Studied(m, LatestDay) : m \in Markets}
Decided(actions) ==
  {LastOf(Group(s, LatestDay)) : s \in {s \in DecisionsToday : RecommendedExit(s, LatestDay) \in actions}}

CurrentTotal == Pnl(samples, {LastOf(Group(s, LatestDay)) : s \in DecisionsToday})
BookedProfit ==
  {i \in Decided({"EXIT_TAKE_PROFIT", "EXIT_PROFIT_GIVEBACK", "EXIT_PROFIT_BOOKING"}) : samples[i].pnl > 0}
BookedLoss == Decided({"EXIT_STOP_LOSS"})

\* daily_summary: the result of what was closed today, by the observations.
ClosedToday ==
  {id \in DOMAIN observations : /\ ~IsOpen(observations[id])
                                /\ observations[id].last_marked_at >= DayStart(now)}

\* _group_outcome of the training report.
Outcome(symbol, day) ==
  LET group == Group(symbol, day)
      stopped(i) == samples[i].price <= Levels(i).stop_loss
      touched == {i \in group : stopped(i) \/ samples[i].price >= Levels(i).take_profit}
  IN IF touched = {} THEN "TIME_EXIT"
     ELSE IF stopped(FirstOf(touched)) THEN "STOP_TOUCHED" ELSE "TARGET_TOUCHED"

-----------------------------------------------------------------------------
ReportsInit ==
  /\ Init
  /\ snapshots = [key \in {} |-> None]
  /\ request = [r \in Readers |-> None]

ReportsNext ==
  \/ Next /\ UNCHANGED reportVars
  \/ \E r \in Readers : Read(r) \/ Store(r) \/ Fail(r)

ReportsSpec == ReportsInit /\ [][ReportsNext]_allVars

-----------------------------------------------------------------------------
(***************************************************************************)
(* What makes them correct.                                                *)
(***************************************************************************)
\* Every variable stays in its type; no review is kept of a day that is not over.
ReportsTypeOK ==
  /\ DOMAIN snapshots \subseteq Markets \X {day \in Days : day < DayStart(now)}
  /\ \A key \in DOMAIN snapshots : snapshots[key] \in DailyMarketReviewSnapshot
  /\ \A r \in Readers :
       request[r] # None => request[r].day \in Days /\ request[r].new \subseteq Markets

\* A row may have been rescaled after its day was over: rescale_shadow_book rewrites the
\* amounts of every row it finds open, also of one that was left open over night and waits
\* for its stale close.
ResizedLate(o) ==
  o.metadata.rescaled /\ o.status \in {"OPEN_OBSERVATION", "EXIT_SESSION_CLOSE"}

Resized(market, day) ==
  \E id \in DOMAIN observations :
    /\ observations[id].market = market
    /\ DayStart(observations[id].last_marked_at) = day
    /\ ResizedLate(observations[id])

\* A stored review says what a review of that day would say now: neither a late mark,
\* nor the close of a stale observation, nor a request that was slower than the cycles
\* makes the history of the dashboard differ from the book.  Of a day with a row that
\* was rescaled late only the number of observations is final.
SnapshotIsFinal ==
  \A key \in DOMAIN snapshots :
    LET review == Review(key[1], key[2])
    IN /\ snapshots[key].shadow_hypotheses = review.shadow_hypotheses
       /\ ~Resized(key[1], key[2]) => snapshots[key] = review

\* The observations of a day after which the symbol was entered again that day.
Replaced(day) ==
  {a \in DOMAIN observations : \E b \in DOMAIN observations :
     /\ a # b /\ observations[a].symbol = observations[b].symbol
     /\ DayStart(observations[a].opened_at) = day /\ DayStart(observations[b].opened_at) = day
     /\ samples[LastOf(Group(observations[a].symbol, day))].observation = b}

\* The symbol was entered once on the day, with a share or more at every mark.
EnteredOnce(symbol, day) ==
  LET group == Group(symbol, day)
  IN /\ \A i \in group : samples[i].quantity > 0
     /\ Cardinality({samples[i].observation : i \in group}) = 1

\* The totals of a day explain each other: the history, from observations, is the
\* day-wise row, from samples, and the results the row leaves out because the symbol
\* was entered again, unless a row was rescaled late; the profit protection totals its
\* latest day as the row does, which "uses the latest shadow mark per stock per market
\* day" (performance_service.py:959); and what it calls booked is what the dashboard
\* calls booked, but for the exits whose profit was given back to the last rupee: those
\* are neither a booked profit nor a booked loss.
TotalsAgree ==
  /\ \A day \in Days :
       (\A m \in Markets : <<m, day>> \in DOMAIN snapshots /\ ~Resized(m, day)) =>
         HistoryTotal(day) = DayRow("INDIA", day) + DayRow("US", day) + BookPnl(Replaced(day))
  /\ samples # << >> => CurrentTotal = DayRow("INDIA", LatestDay) + DayRow("US", LatestDay)
  /\ (samples # << >> /\ LatestDay = DayStart(now) /\ \A s \in DecisionsToday : EnteredOnce(s, LatestDay)) =>
       BookPnl(ClosedToday) =
         Pnl(samples, BookedProfit \cup BookedLoss)
         + Pnl(samples, {i \in Decided({"EXIT_PROFIT_GIVEBACK"}) : samples[i].pnl <= 0})

\* Of a symbol entered once on a day, the profit protection recommends an exit if and
\* only if the cycle made it, and the same; and the training report counts a touched
\* stop or target if and only if the cycle closed the observation for it.  Of a stale
\* observation that was rescaled, the exit sample has amounts that no cycle decided on:
\* it may show a profit booked or given back, but no level.
ReportsAgreeWithTheBook ==
  \A id \in DOMAIN observations :
    LET o == observations[id]
        day == DayStart(o.opened_at)
        recommended == RecommendedExit(o.symbol, day)
    IN EnteredOnce(o.symbol, day) =>
         /\ IF o.status = "EXIT_SESSION_CLOSE" /\ o.metadata.rescaled
            THEN recommended \notin {"EXIT_STOP_LOSS", "EXIT_TAKE_PROFIT"}
            ELSE IF o.status \in {"OPEN_OBSERVATION", "EXIT_SESSION_CLOSE"}
            THEN recommended \notin ExitActions
            ELSE recommended = o.status
         /\ Outcome(o.symbol, day) =
              CASE o.status = "EXIT_STOP_LOSS" -> "STOP_TOUCHED"
                [] o.status = "EXIT_TAKE_PROFIT" -> "TARGET_TOUCHED"
                [] OTHER -> "TIME_EXIT"
=============================================================================
