------------------------ MODULE PositionsRefinement ------------------------
(***************************************************************************)
(* Positions seen as a PositionLedger.  The mapping reads the cached row   *)
(* and the total of the closing fills; a size that was rounded to zero or  *)
(* is unknown has no quantity to account for.                              *)
(***************************************************************************)
EXTENDS Positions

StateOf(r) ==
  CASE r.status = "none"    -> "none"
    [] r.status = "deleted" -> "deleted"
    [] r.status = "CLOSED"  -> "closed"
    [] OTHER                -> "open"

BookOf(r, h) ==
  [state |-> StateOf(r), size |-> r.initial, open |-> r.remaining,
   sold |-> IF r.initial > 0 THEN h.sold ELSE 0, plan |-> r.plan]

Ledger == INSTANCE PositionLedger WITH book <- [p \in Ids |-> BookOf(row[p], hist[p])]

\* Handled one at a time, the requests of positions/service.go keep the books
\* of PositionLedger: what is closed was open, a closed position stays closed,
\* and a close changes nothing but the quantities.
KeepsLedger == Ledger!BookSpec
=============================================================================
