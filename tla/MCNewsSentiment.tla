-------------------------- MODULE MCNewsSentiment --------------------------
(***************************************************************************)
(* A small instance of NewsSentiment for TLC.                              *)
(***************************************************************************)
EXTENDS NewsSentiment, TLC

CONSTANTS loop, api, crash, rally

MCMarketOf == [t \in {"TITAN", "SPY", "TITAN.BSE"} |-> IF t = "SPY" THEN "US" ELSE "INDIA"]

Headline == [ticker |-> None, negative |-> FALSE, alarming |-> FALSE, gold |-> FALSE,
             names |-> {}, dated |-> TRUE]

\* Bad news for the whole market; and news of the Indian listing, which is nobody's
\* symbol, whose time cannot be parsed.
MCAbout ==
  (crash :> [Headline EXCEPT !.negative = TRUE]) @@
  (rally :> [Headline EXCEPT !.ticker = "TITAN.BSE", !.dated = FALSE])
=============================================================================
