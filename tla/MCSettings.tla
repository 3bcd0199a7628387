----------------------------- MODULE MCSettings -----------------------------
(***************************************************************************)
(* Model-checking instance of Settings.                                    *)
(***************************************************************************)
EXTENDS Settings

CONSTANTS serve, k1, e1, e2

OneProc   == {serve}
OneClient == {k1}
TwoEdits  == {e1, e2}
PutFaults == {"refused", "lost"}
=============================================================================
