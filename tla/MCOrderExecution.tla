-------------------------- MODULE MCOrderExecution --------------------------
(***************************************************************************)
(* Small instances of OrderExecution for TLC.                              *)
(***************************************************************************)
EXTENDS OrderExecution

\* A call whose guards all hold, for a key of the Indian market.
GoodRequest(k) ==
  [key |-> k, market |-> "INDIA", source |-> "database", linked |-> TRUE,
   decision |-> "APPROVED", health_market |-> "INDIA", healthy |-> TRUE,
   compliance |-> "approved", compliance_market |-> "INDIA", routable |-> TRUE]

USRequest(k) ==
  [GoodRequest(k) EXCEPT !.market = "US", !.health_market = "US",
                         !.decision = "REDUCE_SIZE", !.compliance = "none"]

\* Each key asked for in both markets: by a call that reads the persisted state,
\* by one that reads the environment, by one whose intent names the wrong adapter.
MCRequests ==
  UNION {{GoodRequest(k),
          [USRequest(k) EXCEPT !.source = "settings"],
          [USRequest(k) EXCEPT !.routable = FALSE]} : k \in Keys}

SettingsRequests == {[GoodRequest(k) EXCEPT !.source = "settings"] : k \in Keys}

\* An environment configured for live trading.
LiveSettings ==
  [live_mode |-> TRUE, live_trading |-> TRUE, kill_switch |-> FALSE, live_orders |-> TRUE]

AllFaults == {"crash", "database", "broker"}
BrokerFaults == {"broker"}
=============================================================================
