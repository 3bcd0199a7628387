----------------------------- MODULE MCImporter -----------------------------
(***************************************************************************)
(* Model-checking instances of Importer.                                   *)
(***************************************************************************)
EXTENDS Importer

CONSTANTS j1, j2

TwoJobs == {j1, j2}
=============================================================================
