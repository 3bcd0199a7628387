--------------------------- MODULE MCTradeReplay ---------------------------
(***************************************************************************)
(* Model-checking instance of TradeReplay.                                 *)
(***************************************************************************)
EXTENDS TradeReplay

FewPrices == 11..15

Step(at, pct) == [at |-> at, pct |-> pct]

\* A long whose second stop lies beyond its liquidation, and a short whose
\* targets, rounded, leave one unit open.
TwoPlans ==
  {[dir |-> 1, stops |-> {Step(1, 50), Step(3, 100)}, targets |-> {Step(1, 30), Step(2, 0)},
    atr |-> 1, margin |-> 3],
   [dir |-> -1, stops |-> {Step(2, 100)}, targets |-> {Step(1, 33), Step(2, 33), Step(3, 34)},
    atr |-> 1, margin |-> 3]}

Base == [mode |-> "signal", breakEven |-> FALSE, pullback |-> 0, trail |-> 2, interval |-> 1,
         profit |-> {}, loss |-> {}]

FourRuns ==
  {[Base EXCEPT !.breakEven = TRUE],
   [Base EXCEPT !.pullback = 1, !.interval = 2],
   [Base EXCEPT !.mode = "pnl_ladder", !.profit = {Step(50, 50), Step(100, 50)},
                !.loss = {Step(50, 60)}, !.breakEven = TRUE],
   [Base EXCEPT !.mode = "trailing_atr"]}
=============================================================================
