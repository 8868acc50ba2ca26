----------------------------- MODULE MCRiskGate -----------------------------
(* A small instance of RiskGate: one stock in India, one ETF in the US, and for
   every rule an argument that breaks it and no other. *)
EXTENDS RiskGate

MCMarket == [i1 |-> "INDIA", u1 |-> "US"]

MCPrices == [i1 |-> {3, 4}, u1 |-> {2}]

MCRiskConfig ==
  [max_risk_per_trade |-> 4, max_daily_loss |-> 1, max_weekly_loss |-> 2,
   max_monthly_drawdown |-> 3, max_total_drawdown |-> 4,
   max_position |-> [STOCK |-> 10, ETF |-> 6], max_total_exposure |-> 8,
   max_exposure |-> [INDIA |-> 8, US |-> 7],
   max_open_total |-> 2, max_open |-> [INDIA |-> 1, US |-> 1], min_reward_risk |-> 1]

MCQuoteLimits ==
  [min_volume |-> 1, min_average_volume |-> 1, min_notional |-> 2, max_spread |-> 1, max_slippage |-> 1]

Good == [symbol |-> "i1", market |-> "INDIA", action |-> "BUY", asset_class |-> "STOCK",
         stop |-> 1, reward_risk |-> 1, risk_flags |-> {}]
GoodUS == [Good EXCEPT !.symbol = "u1", !.market = "US", !.asset_class = "ETF"]

MCCandidates ==
  {Good, GoodUS, [Good EXCEPT !.action = "SELL"], [GoodUS EXCEPT !.action = "SELL"],
   [Good EXCEPT !.action = "HOLD"], [Good EXCEPT !.stop = 2],
   [Good EXCEPT !.stop = None], [Good EXCEPT !.stop = 0],
   [Good EXCEPT !.reward_risk = 0], [Good EXCEPT !.risk_flags = {"illiquid"}],
   [Good EXCEPT !.risk_flags = {"high_slippage"}]}

State == [kill_switch |-> FALSE, live_capable |-> TRUE, live_trading_enabled |-> TRUE,
          settings_safe |-> TRUE, quotes_required |-> TRUE]
Quote == [volume |-> 1, average_volume |-> 2, notional |-> None, spread |-> 1, slippage |-> 1]

Weekday == [config_valid |-> TRUE, holidays_known |-> TRUE, weekend |-> FALSE, holiday |-> FALSE,
            special_open |-> FALSE, early_close |-> None]
Fx == [freshness |-> "FRESH", has_rate |-> TRUE, age |-> 60, stale_after |-> 60]
Check == [credentials |-> TRUE, raises |-> FALSE, healthy |-> TRUE]

Arguments(m) ==
  [state |-> State, broker |-> m,
   compliance |-> [market |-> m, can_place_live_orders |-> TRUE, algo_compliance_required |-> TRUE,
                   strategy_registered |-> TRUE, broker_approved |-> TRUE, has_identifier |-> TRUE],
   providers |-> {[market |-> m, check |-> Check]},
   calendar |-> [market |-> m, day |-> Weekday, minute |-> 600], fx |-> Fx, quote |-> Quote,
   daily_pnl |-> 0, weekly_pnl |-> 0, monthly_drawdown |-> 0, total_drawdown |-> 0]

US == Arguments("US")
India == Arguments("INDIA")

MCInputs ==
  {US, India,
   [India EXCEPT !.state.kill_switch = TRUE], [India EXCEPT !.state.settings_safe = FALSE],
   [India EXCEPT !.compliance.has_identifier = FALSE], [India EXCEPT !.broker = None],
   [India EXCEPT !.providers = {[market |-> "INDIA", check |-> [Check EXCEPT !.raises = TRUE]]}],
   [India EXCEPT !.calendar = None], [India EXCEPT !.calendar.minute = 930],
   [India EXCEPT !.calendar.day.early_close = 540],
   [US EXCEPT !.calendar.day.holiday = TRUE, !.calendar.day.special_open = TRUE],
   [US EXCEPT !.fx = None], [US EXCEPT !.fx.age = 61], [US EXCEPT !.fx.has_rate = FALSE],
   [India EXCEPT !.daily_pnl = -2], [India EXCEPT !.total_drawdown = 5],
   [India EXCEPT !.quote.spread = 2], [India EXCEPT !.quote.average_volume = None],
   [India EXCEPT !.state.quotes_required = FALSE, !.quote = None]}

Answer == [credentials |-> TRUE, raises |-> FALSE, session_valid |-> TRUE,
           active |-> TRUE, trading_enabled |-> TRUE]

MCAnswers == {Answer, [Answer EXCEPT !.raises = TRUE]}
=============================================================================
