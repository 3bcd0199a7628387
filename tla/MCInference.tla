---------------------------- MODULE MCInference ----------------------------
(***************************************************************************)
(* Model-checking instances of Inference.                                  *)
(***************************************************************************)
EXTENDS Inference

CONSTANTS a, b, m1

TwoCallers == {a, b}
OneModel   == {m1}
OneOrTwo   == {1, 2}
=============================================================================
