---------------------------- MODULE MCSystemState ----------------------------
(***************************************************************************)
(* Small instances of SystemState for TLC.                                 *)
(***************************************************************************)
EXTENDS SystemState

CONSTANTS api, script

\* An API process configured for live trading, and a script run with the
\* defaults: its environment satisfies no safety flag.
MCEnvironment ==
  [s \in {api, script} |->
     IF s = api
     THEN [mode |-> "LIVE_AUTONOMOUS", live_trading |-> TRUE, kill_switch |-> FALSE,
           flags |-> TRUE]
     ELSE [mode |-> "SHADOW_LIVE", live_trading |-> FALSE, kill_switch |-> TRUE,
           flags |-> FALSE]]
=============================================================================
