-------------------------- MODULE MCShadowTraining --------------------------
(***************************************************************************)
(* Small instances of ShadowTraining for TLC.                              *)
(***************************************************************************)
EXTENDS ShadowTraining

CONSTANTS l1, l2, api, script

OneSymbol == [m \in {"INDIA", "US"} |-> IF m = "US" THEN <<"SPY">> ELSE << >>]
AlsoUS == [m \in {"INDIA", "US"} |-> IF m = "INDIA" THEN <<"TCS">> ELSE <<"SPY">>]

Of(price, action) ==
  [price |-> price, action |-> action, stop_loss |-> price - 1, take_profit |-> price + 3]

\* Prices around entries at 5 and at 4: a stop, a gain below the booking zone, gains in it
\* and a target.
MCQuotes == {Of(5, "BUY"), Of(4, "BUY"), Of(6, "NO_TRADE"), Of(7, "NO_TRADE")}

Symmetry == Permutations(Loops)
=============================================================================
