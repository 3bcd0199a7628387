----------------------------- MODULE Divergences -----------------------------
(***************************************************************************)
(* Where the swings of the price and an oscillator disagree                *)
(* (analysis/divergences).  osc gives the oscillator at every candle.      *)
(***************************************************************************)
EXTENDS Integers, SequencesExt, FiniteSetsExt, Readings

CONSTANTS DivergenceLookback, MinBarsApart, MaxBarsApart

MinDelta == 15     \* hundredths of a percent

\* How the move of the price and of the oscillator disagree at two swings.
Disagreement(high, up, oscUp) ==
  CASE high /\ up /\ ~oscUp   -> [type |-> "regular", direction |-> "bearish"]
    [] high /\ ~up /\ oscUp   -> [type |-> "hidden", direction |-> "bearish"]
    [] ~high /\ ~up /\ oscUp  -> [type |-> "regular", direction |-> "bullish"]
    [] ~high /\ up /\ ~oscUp  -> [type |-> "hidden", direction |-> "bullish"]
    [] OTHER -> [type |-> "none", direction |-> "neutral"]

\* priceDelta in hundredths of a percent, oscDelta in the oscillator's units.
StrengthOf(priceDelta, oscDelta, age) ==
  LET size      == Clamp((1000 * Absolute(priceDelta)) \div 300, 0, 1000)
      agreement == Clamp(100 * Absolute(oscDelta), 0, 1000)
      magnitude == IF size * agreement = 0 THEN (4 * size) \div 10 ELSE (size * agreement) \div 1000
  IN Decayed(Clamp(350 + magnitude, 100, 1000), age, 25)

\* The last four pairs of consecutive swings of a kind.
Scan(pivots, osc, high, last) ==
  {d \in {LET p == pivots[i - 1]
              q == pivots[i]
              delta == IF p.price = 0 THEN 0 ELSE Over(10000 * (q.price - p.price), p.price)
              move  == osc[q.index] - osc[p.index]
              kind  == Disagreement(high, delta > 0, move > 0)
          IN [type |-> IF \/ q.index - p.index \notin MinBarsApart..MaxBarsApart
                          \/ p.price = 0 \/ Absolute(delta) < MinDelta \/ move = 0
                         THEN "none" ELSE kind.type,
              direction |-> kind.direction, name |-> i,
              strength |-> StrengthOf(delta, move, last - q.index), age |-> last - q.index] :
            i \in Max({2, Len(pivots) - 3})..Len(pivots)} : d.type # "none"}

DetectDivergences(swings, osc) ==
  LET last == Len(osc)
      Of(high) == SelectSeq(swings, LAMBDA s : /\ s.high = high
                                               /\ s.index >= last - DivergenceLookback
                                               /\ Has(osc[s.index]))
  IN IF Len(swings) < 2 THEN {} ELSE Scan(Of(TRUE), osc, TRUE, last) \cup Scan(Of(FALSE), osc, FALSE, last)
=============================================================================
