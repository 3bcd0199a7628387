---------------------------- MODULE MCPositions ----------------------------
(***************************************************************************)
(* Model-checking instances of Positions.  MCPositions.cfg lets two        *)
(* requests overlap; MCPositionsSerial.cfg has a single one.               *)
(***************************************************************************)
EXTENDS PositionsRefinement, TLC

CONSTANTS c1, c2, p1, r1, planA, planB

TwoClients == {c1, c2}
OneClient  == {c1}
OneId      == {p1}
OneRec     == {r1}
TwoPlans   == {planA, planB}
OnePlan    == {planA}
ZeroAndThree == {0, 3}

Symmetric == Permutations(TwoClients)
=============================================================================
