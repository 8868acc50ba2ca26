-------------------------- MODULE MCShadowReports --------------------------
(***************************************************************************)
(* A small instance of ShadowReports for TLC.                              *)
(***************************************************************************)
EXTENDS ShadowReports

CONSTANTS l1, script, r1, r2

OneSymbol == [m \in {"INDIA", "US"} |-> IF m = "US" THEN <<"SPY">> ELSE << >>]

Of(price, action) ==
  [price |-> price, action |-> action, stop_loss |-> price - 1, take_profit |-> price + 4]

\* Prices around entries at 5 and at 4: a stop, gains below the booking zone of which some is
\* given back, a gain in it and a target.
MCQuotes == {Of(5, "BUY"), Of(4, "BUY"), Of(6, "NO_TRADE"), Of(8, "NO_TRADE")}

Symmetry == Permutations(Readers)
=============================================================================
