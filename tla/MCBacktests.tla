---------------------------- MODULE MCBacktests ----------------------------
(***************************************************************************)
(* Model-checking instances of Backtests.                                  *)
(***************************************************************************)
EXTENDS Backtests

CONSTANTS r1, r2, serve

TwoRuns   == {r1, r2}
OneProc   == {serve}
AllFaults == {"db", "stop", "timeout", "cancel"}
=============================================================================
