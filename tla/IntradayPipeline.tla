--------------------------- MODULE IntradayPipeline ---------------------------
(***************************************************************************)
(* IntradayShadowPipeline.process_snapshot: a snapshot of one symbol goes  *)
(* through data quality, kill switch, universe, regime, strategies,        *)
(* scoring, risk manager and fill simulation, with review agents between,  *)
(* and may open virtual positions.  The pipeline is one object per         *)
(* operating-system process (the API server, the loop), shared by the      *)
(* threads of the server without a lock; the journal is a file they all    *)
(* append to.                                                              *)
(*                                                                         *)
(* Snapshots are those from_zerodha_quote builds: they carry no bid, ask,  *)
(* index or sector trend.  The caller passes no risk state, so profit and  *)
(* trade counts are zero, and nothing closes a position.                   *)
(***************************************************************************)
EXTENDS Integers, SequencesExt, FiniteSetsExt

CONSTANTS
  Processes, Threads,
  RunsIn,             \* RunsIn[t]: the process of thread t
  Snapshots,          \* the snapshots the provider may answer with
  Universe,           \* NIFTY_50_SYMBOLS
  AllowedRisk,        \* capital * risk_per_trade_percent
  HardCap,            \* capital * 0.005, of the risk auditor
  Slippage,           \* entry_price * slippage_bps, the same for every entry
  MaxOpenPositions, MinRewardRisk,    \* the latter in tenths
  MinScore,           \* min_signal_score
  AllowShorts, AllowHighVolatility, AgenticEnabled,
  MaxCalls, MaxStarts,                \* bounds of this model
  None

VARIABLES
  call,       \* call[t]: what the call of thread t has computed so far, or None
  triggered,  \* triggered[p]: the kill switch of process p
  positions,  \* positions[p]: the open virtual positions of process p
  journal,    \* the rows of the journal
  decisions,  \* the rows of the agents' journal
  calls,      \* calls begun so far
  starts      \* starts[p]: how often process p was restarted

vars == <<call, triggered, positions, journal, decisions, calls, starts>>

-----------------------------------------------------------------------------
Strategies ==
  {"VWAP_TREND_LONG", "VWAP_TREND_SHORT", "OPENING_RANGE_BREAKOUT_BREAKDOWN"}

Bullish == {"STRONG_BULLISH", "WEAK_BULLISH"}
Bearish == {"STRONG_BEARISH", "WEAK_BEARISH"}
Regimes == Bullish \cup Bearish \cup {"SIDEWAYS", "HIGH_VOLATILITY", "LOW_LIQUIDITY"}

\* A price of 0 is one that is missing; gap_pct is in tenths of a percent.
MarketDataSnapshot ==
  [symbol: STRING, last_price: Nat, vwap: Nat, volume: Nat, gap_pct: Int,
   candles: {"WHOLE", "GAPS", "MISSING"},     \* of the three intervals
   latest_close: Nat, previous_low: Nat, previous_high: Nat,
   range_high: Nat, range_low: Nat,           \* of the first fifteen minutes
   structure: {"HIGHER", "LOWER", "MIXED"},   \* of the last three candles
   volume_confirmed: BOOLEAN,
   panic: BOOLEAN,                            \* atr_pct > 0.025
   after_0920: BOOLEAN]                       \* timestamp.time() >= 09:20

Signal ==
  [strategy: Strategies, direction: {"LONG", "SHORT"}, regime: Regimes,
   entry_price: Nat, stop_loss: Nat, target_price: Int]

Events == {"DATA_OR_UNIVERSE_BLOCK", "AGENTIC_REGIME_BLOCK", "SIGNAL_REJECTED",
           "SIGNAL_ACCEPTED", "SHADOW_ORDER_FILLED"}

ASSUME PipelineAssumption ==
  /\ RunsIn \in [Threads -> Processes]
  /\ IsFiniteSet(Threads)
  /\ Snapshots # {} /\ Snapshots \subseteq MarketDataSnapshot
  /\ {AllowedRisk, HardCap, MaxOpenPositions, MinRewardRisk} \subseteq Nat \ {0}
  /\ {Slippage, MinScore, MaxCalls, MaxStarts} \subseteq Nat
  /\ {AllowShorts, AllowHighVolatility, AgenticEnabled} \subseteq BOOLEAN
  /\ None \notin Signal

\* DataQualityMonitor.check
DataOk(s) == s.last_price > 0 /\ s.volume > 0 /\ s.candles = "WHOLE"

\* UniverseFilter.check
InUniverse(s) == s.symbol \in Universe /\ DataOk(s) /\ s.gap_pct \in -50..50

Votes(conditions) == Cardinality({i \in DOMAIN conditions : conditions[i]})

\* MarketRegimeClassifier.classify
Regime(s) ==
  LET bullish == Votes(<<s.vwap > 0 /\ s.last_price > s.vwap,
                         s.range_high > 0 /\ s.last_price > s.range_high,
                         s.gap_pct > 4>>)
      bearish == Votes(<<s.vwap > 0 /\ s.last_price < s.vwap,
                         s.range_low > 0 /\ s.last_price < s.range_low,
                         s.gap_pct < -4>>)
  IN CASE s.volume = 0 -> "LOW_LIQUIDITY"
       [] s.volume > 0 /\ s.panic /\ ~AllowHighVolatility -> "HIGH_VOLATILITY"
       [] OTHER ->
            IF bullish >= 3 /\ bearish = 0 THEN "STRONG_BULLISH"
            ELSE IF bearish >= 3 /\ bullish = 0 THEN "STRONG_BEARISH"
            ELSE IF bullish > bearish THEN "WEAK_BULLISH"
            ELSE IF bearish > bullish THEN "WEAK_BEARISH"
            ELSE "SIDEWAYS"

\* _near_level, with max_pct = 0.008
NearVwap(s) == Max({s.last_price - s.vwap, s.vwap - s.last_price}) * 1000 <= 8 * s.last_price

-----------------------------------------------------------------------------
(***************************************************************************)
(* Strategies.                                                             *)
(***************************************************************************)
\* The signal of a strategy with its stop, when that leaves a risk.  The target is
\* at twice the risk.
SignalOf(strategy, direction, s, stop) ==
  LET sign == IF direction = "LONG" THEN 1 ELSE -1
      risk == sign * (s.last_price - stop)
  IN IF risk <= 0 THEN << >>
     ELSE <<[strategy |-> strategy, direction |-> direction, regime |-> Regime(s),
             entry_price |-> s.last_price, stop_loss |-> stop,
             target_price |-> s.last_price + sign * 2 * risk]>>

VwapTrendLong(s) ==
  IF /\ Regime(s) \in Bullish
     /\ s.vwap > 0 /\ s.last_price > s.vwap
     /\ s.structure = "HIGHER" /\ s.volume_confirmed /\ NearVwap(s)
  THEN SignalOf("VWAP_TREND_LONG", "LONG", s, Min({s.vwap, s.previous_low}))
  ELSE << >>

VwapTrendShort(s) ==
  IF /\ Regime(s) \in Bearish
     /\ s.vwap > 0 /\ s.last_price < s.vwap
     /\ s.structure = "LOWER" /\ s.volume_confirmed /\ NearVwap(s)
  THEN SignalOf("VWAP_TREND_SHORT", "SHORT", s, Max({s.vwap, s.previous_high}))
  ELSE << >>

\* Snapshots have UTC timestamps, so 09:20 is the early afternoon in India.
OpeningRange(s) ==
  IF ~s.after_0920 \/ ~s.volume_confirmed THEN << >>
  ELSE IF s.range_high > 0 /\ s.last_price > s.range_high /\ Regime(s) \in Bullish
  THEN SignalOf("OPENING_RANGE_BREAKOUT_BREAKDOWN", "LONG", s, s.range_low)
  ELSE IF s.range_low > 0 /\ s.last_price < s.range_low /\ Regime(s) \in Bearish
  THEN SignalOf("OPENING_RANGE_BREAKOUT_BREAKDOWN", "SHORT", s, s.range_high)
  ELSE << >>

\* The signals of a snapshot, in the order of the strategies.
Signals(s) == VwapTrendLong(s) \o VwapTrendShort(s) \o OpeningRange(s)

StopDistance(signal) ==
  Max({signal.entry_price - signal.stop_loss, signal.stop_loss - signal.entry_price})

Reward(signal) ==
  Max({signal.entry_price - signal.target_price, signal.target_price - signal.entry_price})

RewardAtLeast(signal, tenths) == Reward(signal) * 10 >= tenths * StopDistance(signal)

\* SignalScoringEngine.score.  No regime a strategy fires in caps it.
RawScore(signal) ==
  LET vwap == IF signal.strategy = "OPENING_RANGE_BREAKOUT_BREAKDOWN" THEN 0 ELSE 15
      reward == IF RewardAtLeast(signal, MinRewardRisk) THEN 10 ELSE 0
  IN 25 + vwap + 8 + 15 + 15 + reward + 5

-----------------------------------------------------------------------------
(***************************************************************************)
(* Risk and review.                                                        *)
(***************************************************************************)
ApprovedQuantity(signal) == AllowedRisk \div StopDistance(signal)

\* Mutant: one position more than the limit is approved.
ApprovedPastLimit(open_positions, signal) ==
  /\ signal.stop_loss > 0
  /\ RewardAtLeast(signal, MinRewardRisk)
  /\ open_positions <= MaxOpenPositions
  /\ signal.direction = "SHORT" => AllowShorts
  /\ ApprovedQuantity(signal) > 0

\* RiskManager.approve
Approved(open_positions, signal) ==
  /\ signal.stop_loss > 0
  /\ RewardAtLeast(signal, MinRewardRisk)
  /\ open_positions < MaxOpenPositions
  /\ signal.direction = "SHORT" => AllowShorts
  /\ ApprovedQuantity(signal) > 0

\* The severity an agent arrives at, or FAILED for a timeout, an error or an output
\* that does not validate; the policy adds nothing for these severities.
Reviews(severity) == IF AgenticEnabled THEN {severity, "FAILED"} ELSE {"NONE"}

\* Mutant: an agent that fails does not block.
BlocksWhenHigh(review) == review = "HIGH"

\* _result_from_record
Blocks(review) == review \in {"HIGH", "FAILED"}

\* SignalCriticAgent
CriticSeverity(s, signal) ==
  IF \/ ~RewardAtLeast(signal, 15)
     \/ signal.stop_loss = 0 \/ signal.stop_loss = signal.entry_price
     \/ signal.direction = "LONG" /\ signal.regime \in Bearish
     \/ signal.direction = "SHORT" /\ signal.regime \in Bullish
  THEN "HIGH"
  ELSE IF s.latest_close > 0
          /\ Max({s.latest_close - signal.entry_price, signal.entry_price - s.latest_close}) * 100
               > signal.entry_price
  THEN "MEDIUM" ELSE "LOW"

\* RiskAuditorAgent
AuditSeverity(signal) ==
  IF \/ ApprovedQuantity(signal) <= 0
     \/ ~RewardAtLeast(signal, 15)
     \/ ApprovedQuantity(signal) * StopDistance(signal) > HardCap
  THEN "HIGH" ELSE "LOW"

\* The score after the critic: int(score * 0.8) when it is in doubt.
Score(signal, review) ==
  IF review = "MEDIUM" THEN (RawScore(signal) * 8) \div 10 ELSE RawScore(signal)

\* Mutant: the decision is not taken anew for the reduced score.
ValidAsScored(signal, review) == RawScore(signal) >= MinScore

\* The decision is VALID.
Valid(signal, review) == Score(signal, review) >= MinScore

-----------------------------------------------------------------------------
(***************************************************************************)
(* A call.                                                                 *)
(***************************************************************************)
Init ==
  /\ call = [t \in Threads |-> None]
  /\ triggered = [p \in Processes |-> FALSE]
  /\ positions = [p \in Processes |-> {}]
  /\ journal = {}
  /\ decisions = {}
  /\ calls = 0
  /\ starts = [p \in Processes |-> 0]

At(t, pc) == call[t] # None /\ call[t].pc = pc

Row(t, event, signal, score, quantity) ==
  [call |-> call[t].id, process |-> RunsIn[t], event |-> event, signal |-> signal,
   score |-> score, quantity |-> quantity]

Record(row) == journal' = journal \cup {row}

\* A review is kept; there is none when the agents are switched off.
Decision(t, agent, signal, review) ==
  IF review = "NONE" THEN {}
  ELSE {[call |-> call[t].id, agent |-> agent, signal |-> signal, review |-> review]}

Decided(records) == decisions' = decisions \cup records

Goto(t, pc) == call' = [call EXCEPT ![t].pc = pc]

Returns(t) == call' = [call EXCEPT ![t] = None]

\* On to the next signal.
Continue(t) ==
  call' = [call EXCEPT ![t] = IF Len(call[t].todo) = 1 THEN None
                              ELSE [call[t] EXCEPT !.pc = "SIGNAL",
                                                   !.todo = Tail(call[t].todo)]]

\* The call takes the list of open positions, and reads the reasons the kill switch
\* was triggered for.
Begin(t, s) ==
  /\ call[t] = None
  /\ calls < MaxCalls
  /\ calls' = calls + 1
  /\ call' = [call EXCEPT ![t] =
       [id |-> calls + 1, pc |-> "KILL_SWITCH", snapshot |-> s, todo |-> Signals(s),
        open_positions |-> Cardinality(positions[RunsIn[t]]),
        triggered |-> triggered[RunsIn[t]], score |-> 0, quantity |-> 0]]
  /\ UNCHANGED <<triggered, positions, journal, decisions, starts>>

\* Mutant: earlier reasons are forgotten.
EvaluateKillSwitchAnew(t) ==
  /\ At(t, "KILL_SWITCH")
  /\ triggered' = [triggered EXCEPT ![RunsIn[t]] = ~DataOk(call[t].snapshot)]
  /\ call' = [call EXCEPT ![t].pc = "SCREEN", ![t].triggered = ~DataOk(call[t].snapshot)]
  /\ UNCHANGED <<positions, journal, decisions, calls, starts>>

\* KillSwitchManager.evaluate: the reasons it had read, and those of this snapshot.
EvaluateKillSwitch(t) ==
  LET now == call[t].triggered \/ ~DataOk(call[t].snapshot)
  IN /\ At(t, "KILL_SWITCH")
     /\ triggered' = [triggered EXCEPT ![RunsIn[t]] = now]
     /\ call' = [call EXCEPT ![t].pc = "SCREEN", ![t].triggered = now]
     /\ UNCHANGED <<positions, journal, decisions, calls, starts>>

DataOrUniverseBlock(t) ==
  /\ At(t, "SCREEN")
  /\ call[t].triggered \/ ~InUniverse(call[t].snapshot)
  /\ Record(Row(t, "DATA_OR_UNIVERSE_BLOCK", None, 0, 0))
  /\ Returns(t)
  /\ UNCHANGED <<triggered, positions, decisions, calls, starts>>

\* The regime agent looks for prices where a Zerodha quote has none, so it agrees
\* with every regime; it blocks only when it fails.
AgenticRegimeBlock(t) ==
  /\ At(t, "SCREEN")
  /\ ~call[t].triggered /\ InUniverse(call[t].snapshot)
  /\ \E review \in Reviews("LOW") :
       Blocks(review) /\ Decided(Decision(t, "RegimeReviewAgent", None, review))
  /\ Record(Row(t, "AGENTIC_REGIME_BLOCK", None, 0, 0))
  /\ Returns(t)
  /\ UNCHANGED <<triggered, positions, calls, starts>>

Screened(t) ==
  /\ At(t, "SCREEN")
  /\ ~call[t].triggered /\ InUniverse(call[t].snapshot)
  /\ \E review \in Reviews("LOW") :
       ~Blocks(review) /\ Decided(Decision(t, "RegimeReviewAgent", None, review))
  /\ IF call[t].todo = << >> THEN Returns(t) ELSE Goto(t, "SIGNAL")
  /\ UNCHANGED <<triggered, positions, journal, calls, starts>>

\* The signal gets past the critic with a valid score, and the risk manager approves.
Passes(t, signal, critic) ==
  /\ ~Blocks(critic)
  /\ Valid(signal, critic)
  /\ Approved(call[t].open_positions, signal)

Critics(t) == Reviews(CriticSeverity(call[t].snapshot, Head(call[t].todo)))

Audits(t) == Reviews(AuditSeverity(Head(call[t].todo)))

\* By the critic, the score or the risk manager.
SignalRejected(t) ==
  /\ At(t, "SIGNAL")
  /\ LET signal == Head(call[t].todo)
     IN \E critic \in Critics(t) :
          /\ ~Passes(t, signal, critic)
          /\ Decided(Decision(t, "SignalCriticAgent", signal, critic))
          /\ Record(Row(t, "SIGNAL_REJECTED", signal, Score(signal, critic), 0))
  /\ Continue(t)
  /\ UNCHANGED <<triggered, positions, calls, starts>>

\* By the risk auditor.
SignalBlocked(t) ==
  /\ At(t, "SIGNAL")
  /\ LET signal == Head(call[t].todo)
     IN \E critic \in Critics(t), audit \in Audits(t) :
          /\ Passes(t, signal, critic) /\ Blocks(audit)
          /\ Decided(Decision(t, "SignalCriticAgent", signal, critic)
                     \cup Decision(t, "RiskAuditorAgent", signal, audit))
          /\ Record(Row(t, "SIGNAL_REJECTED", signal, Score(signal, critic), 0))
  /\ Continue(t)
  /\ UNCHANGED <<triggered, positions, calls, starts>>

\* Mutant: the approved quantity is not handed on to the order.
SignalAcceptedWithoutQuantity(t) ==
  /\ At(t, "SIGNAL")
  /\ LET signal == Head(call[t].todo)
     IN \E critic \in Critics(t), audit \in Audits(t) :
          /\ Passes(t, signal, critic) /\ ~Blocks(audit)
          /\ Decided(Decision(t, "SignalCriticAgent", signal, critic)
                     \cup Decision(t, "RiskAuditorAgent", signal, audit))
          /\ Record(Row(t, "SIGNAL_ACCEPTED", signal, Score(signal, critic),
                        ApprovedQuantity(signal)))
  /\ Goto(t, "ORDER")
  /\ UNCHANGED <<triggered, positions, calls, starts>>

SignalAccepted(t) ==
  /\ At(t, "SIGNAL")
  /\ LET signal == Head(call[t].todo)
     IN \E critic \in Critics(t), audit \in Audits(t) :
          /\ Passes(t, signal, critic) /\ ~Blocks(audit)
          /\ Decided(Decision(t, "SignalCriticAgent", signal, critic)
                     \cup Decision(t, "RiskAuditorAgent", signal, audit))
          /\ Record(Row(t, "SIGNAL_ACCEPTED", signal, Score(signal, critic),
                        ApprovedQuantity(signal)))
          /\ call' = [call EXCEPT ![t] =
               [call[t] EXCEPT !.pc = "ORDER", !.score = Score(signal, critic),
                               !.quantity = ApprovedQuantity(signal)]]
  /\ UNCHANGED <<triggered, positions, calls, starts>>

Fill(signal) ==
  signal.entry_price + (IF signal.direction = "LONG" THEN Slippage ELSE -Slippage)

Position(t) ==
  [call |-> call[t].id, signal |-> Head(call[t].todo), entry_price |-> Fill(Head(call[t].todo)),
   quantity |-> call[t].quantity]

\* Mutant: the position is opened before its order is in the journal.
SimulateOrderLate(t) ==
  /\ At(t, "ORDER")
  /\ positions' = [positions EXCEPT ![RunsIn[t]] = @ \cup {Position(t)}]
  /\ Goto(t, "OPEN")
  /\ UNCHANGED <<triggered, journal, decisions, calls, starts>>

\* ShadowExecutionSimulator.simulate: the entry is the last price, so the price has
\* not moved and the order is filled.  The execution agent comes too late to block.
SimulateOrder(t) ==
  /\ At(t, "ORDER")
  /\ \E review \in Reviews("LOW") :
       Decided(Decision(t, "ExecutionSimulationAgent", Head(call[t].todo), review))
  /\ Record(Row(t, "SHADOW_ORDER_FILLED", Head(call[t].todo), call[t].score, call[t].quantity))
  /\ Goto(t, "OPEN")
  /\ UNCHANGED <<triggered, positions, calls, starts>>

\* VirtualPositionManager.open_position
OpenPosition(t) ==
  /\ At(t, "OPEN")
  /\ positions' = [positions EXCEPT ![RunsIn[t]] = @ \cup {Position(t)}]
  /\ Continue(t)
  /\ UNCHANGED <<triggered, journal, decisions, calls, starts>>

\* The journal cannot be written, or anything else raises: run_india_once notes the
\* symbol as blocked and goes on to the next.
Fails(t) ==
  /\ call[t] # None
  /\ Returns(t)
  /\ UNCHANGED <<triggered, positions, journal, decisions, calls, starts>>

\* The process ends and starts again: what it had in memory is gone.
Restart(p) ==
  /\ starts[p] < MaxStarts
  /\ starts' = [starts EXCEPT ![p] = @ + 1]
  /\ triggered' = [triggered EXCEPT ![p] = FALSE]
  /\ positions' = [positions EXCEPT ![p] = {}]
  /\ call' = [t \in Threads |-> IF RunsIn[t] = p THEN None ELSE call[t]]
  /\ UNCHANGED <<journal, decisions, calls>>

Step(t) ==
  \/ EvaluateKillSwitch(t) \/ DataOrUniverseBlock(t) \/ AgenticRegimeBlock(t) \/ Screened(t)
  \/ SignalRejected(t) \/ SignalBlocked(t) \/ SignalAccepted(t)
  \/ SimulateOrder(t) \/ OpenPosition(t) \/ Fails(t)

Next ==
  \/ \E t \in Threads : Step(t) \/ \E s \in Snapshots : Begin(t, s)
  \/ \E p \in Processes : Restart(p)

Spec == Init /\ [][Next]_vars

-----------------------------------------------------------------------------
(***************************************************************************)
(* What makes it correct.                                                  *)
(***************************************************************************)
Call ==
  [id: 1..MaxCalls, pc: {"KILL_SWITCH", "SCREEN", "SIGNAL", "ORDER", "OPEN"},
   snapshot: Snapshots, todo: Seq(Signal), open_positions: Nat, triggered: BOOLEAN,
   score: Nat, quantity: Nat]

JournalEntry ==
  [call: 1..MaxCalls, process: Processes, event: Events, signal: Signal \cup {None},
   score: Nat, quantity: Nat]

AgentDecisionRecord ==
  [call: 1..MaxCalls,
   agent: {"RegimeReviewAgent", "SignalCriticAgent", "RiskAuditorAgent", "ExecutionSimulationAgent"},
   signal: Signal \cup {None}, review: {"LOW", "MEDIUM", "HIGH", "FAILED"}]

VirtualPosition == [call: 1..MaxCalls, signal: Signal, entry_price: Int, quantity: Nat \ {0}]

\* Every variable stays in its type, and no position is opened with quantity zero.
TypeOK ==
  /\ \A t \in Threads : call[t] = None \/ call[t] \in Call
  /\ triggered \in [Processes -> BOOLEAN]
  /\ \A p \in Processes : positions[p] \subseteq VirtualPosition
  /\ journal \subseteq JournalEntry
  /\ decisions \subseteq AgentDecisionRecord
  /\ calls \in 0..MaxCalls
  /\ starts \in [Processes -> 0..MaxStarts]

Recorded(id, signal, event) ==
  {r \in journal : r.call = id /\ r.signal = signal /\ r.event = event}

\* A position in memory has its accepted signal and its filled order in the journal,
\* for the same quantity and once each; a filled order has its accepted signal, and
\* no signal is both accepted and rejected, whatever failed or restarted.
JournalExplainsPositions ==
  /\ \A p \in Processes : \A position \in positions[p] :
       \E r \in Recorded(position.call, position.signal, "SHADOW_ORDER_FILLED") :
         r.process = p /\ r.quantity = position.quantity
  /\ \A r \in journal : r.event = "SHADOW_ORDER_FILLED" =>
       /\ \E a \in Recorded(r.call, r.signal, "SIGNAL_ACCEPTED") : a.quantity = r.quantity
       /\ Recorded(r.call, r.signal, "SIGNAL_REJECTED") = {}

\* How many positions one snapshot can open.
MostSignals == Max({Len(Signals(s)) : s \in Snapshots})

ThreadsOf(p) == {t \in Threads : RunsIn[t] = p}

\* The limit on open positions is looked at once per snapshot and per thread: it is
\* exceeded by what one snapshot opens, once for each thread, and by no more.
OpenPositionsBounded ==
  \A p \in Processes :
    Cardinality(positions[p]) <= MaxOpenPositions - 1 + Cardinality(ThreadsOf(p)) * MostSignals

\* The agents force no trade and raise no size: an accepted signal has a valid score
\* that is at most the one of the scoring engine, and the quantity that the risk
\* manager alone gives it; no signal that an agent failed on or found too risky before
\* the fill is accepted.
AgentsOnlyNarrow ==
  \A r \in journal : r.event = "SIGNAL_ACCEPTED" =>
    /\ MinScore <= r.score /\ r.score <= RawScore(r.signal)
    /\ r.quantity = ApprovedQuantity(r.signal)
    /\ \A d \in decisions :
         /\ d.call = r.call /\ d.signal \in {r.signal, None}
         /\ d.agent # "ExecutionSimulationAgent"
         => ~Blocks(d.review)
    /\ AgenticEnabled => r.quantity * StopDistance(r.signal) <= HardCap

OneThread(p) == \E t \in Threads : ThreadsOf(p) = {t}

\* In a process of one thread, as the loop is, a triggered kill switch stays triggered
\* and lets nothing be accepted, until the process is started again.
KillSwitchLatches ==
  [][\A p \in Processes :
       OneThread(p) /\ triggered[p] /\ starts'[p] = starts[p] =>
         /\ triggered'[p]
         /\ \A r \in journal' \ journal : r.process = p => r.event = "DATA_OR_UNIVERSE_BLOCK"]_vars
=============================================================================
