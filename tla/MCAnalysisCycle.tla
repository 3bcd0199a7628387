-------------------------- MODULE MCAnalysisCycle --------------------------
(***************************************************************************)
(* Model-checking instances of AnalysisCycle.                              *)
(***************************************************************************)
EXTENDS AnalysisCycle

CONSTANTS x, y, c, d, p

TwoAssets   == {x, y}
TwoCallers  == {c, d}
OnePosition == {p}
BothX       == [q \in Callers |-> {x}]
OfX         == [q \in Positions |-> x]
Every       == {1}
=============================================================================
