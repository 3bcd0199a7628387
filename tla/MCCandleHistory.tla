-------------------------- MODULE MCCandleHistory --------------------------
(***************************************************************************)
(* Model-checking instances of CandleHistory.                              *)
(***************************************************************************)
EXTENDS CandleHistory

CONSTANTS hourly, added, manual

OneBackfill  == {hourly}
TwoBackfills == {hourly, added}   \* of the loop and of an asset just added
OneImport    == {manual}
NoImport     == {}
=============================================================================
