-------------------------- MODULE MCIntradayPipeline --------------------------
(***************************************************************************)
(* A small instance of IntradayPipeline for TLC.                           *)
(***************************************************************************)
EXTENDS IntradayPipeline

CONSTANTS server, loop, w1, w2, main

Owners == (w1 :> server) @@ (w2 :> server) @@ (main :> loop)

\* Above its VWAP and its opening range, late enough for both long strategies.
Rising ==
  [symbol |-> "TCS", last_price |-> 1000, vwap |-> 996, volume |-> 1, gap_pct |-> 0,
   candles |-> "WHOLE", latest_close |-> 1000, previous_low |-> 995, previous_high |-> 1001,
   range_high |-> 998, range_low |-> 990, structure |-> "HIGHER", volume_confirmed |-> TRUE,
   panic |-> FALSE, after_0920 |-> TRUE]

\* The same far from the latest candle, early in the day with a stop that makes the
\* risk too large for the auditor, with a hole in the candles, and below its VWAP.
MCSnapshots ==
  {Rising,
   [Rising EXCEPT !.latest_close = 980],
   [Rising EXCEPT !.after_0920 = FALSE, !.previous_low = 984],
   [Rising EXCEPT !.candles = "GAPS"],
   [Rising EXCEPT !.last_price = 994, !.structure = "LOWER"]}
=============================================================================
