---------------------------- MODULE ChartPatterns ----------------------------
(***************************************************************************)
(* The chart formations (patterns.DetectChart): those of the last swings,  *)
(* and those of the price against its own range.  Strengths are            *)
(* thousandths, tolerances hundredths of a percent.  Targets and notes are *)
(* left out: no strategy reads them.                                       *)
(***************************************************************************)
EXTENDS Integers, SequencesExt, FiniteSetsExt

CONSTANTS
  EqualTolerance,   \* ChartOptions: when two pivots are one level
  RangeLookback,
  MaxAge

Chart(name, direction, strength, age) ==
  {[name |-> name, direction |-> direction, strength |-> strength, age |-> age]}

\* The n-th swing of a kind from the end, of those given.
FromEnd(swings, n) == swings[Len(swings) - n + 1]
OfKind(swings, high) == SelectSeq(swings, LAMBDA s : s.high = high)

Off(p, q) == IF p < q THEN q - p ELSE p - q
NearLevel(p, q, tolerance) == p # 0 /\ 10000 * Off(p, q) <= tolerance * p

(***************************************************************************)
(* Repeated tests of one extreme, and the head between two shoulders.  A   *)
(* mirrored formation is read off the lows.                                *)
(***************************************************************************)
DoubleOrTriple(pivots, triple, double, direction, last) ==
  IF Len(pivots) < 2 THEN {}
  ELSE LET newest == FromEnd(pivots, 1)
           Same(n) == NearLevel(FromEnd(pivots, n).price, newest.price, EqualTolerance)
           age == last - newest.index
       IN IF age > MaxAge \/ ~Same(2) THEN {}
          ELSE IF Len(pivots) >= 3 /\ Same(3) THEN Chart(triple, direction, 800, age)
          ELSE Chart(double, direction, 700, age)

DetectDoubleAndTriple(highs, lows, last) ==
  DoubleOrTriple(highs, "triple_top", "double_top", "bearish", last)
    \cup DoubleOrTriple(lows, "triple_bottom", "double_bottom", "bullish", last)

Shoulders(pivots, last) ==
  /\ Len(pivots) >= 3
  /\ last - FromEnd(pivots, 1).index <= MaxAge
  /\ NearLevel(FromEnd(pivots, 3).price, FromEnd(pivots, 1).price, 2 * EqualTolerance)

DetectHeadAndShoulders(highs, lows, last) ==
  (IF /\ Shoulders(highs, last)
      /\ FromEnd(highs, 2).price > FromEnd(highs, 3).price
      /\ FromEnd(highs, 2).price > FromEnd(highs, 1).price
     THEN Chart("head_and_shoulders", "bearish", 800, last - FromEnd(highs, 1).index) ELSE {})
  \cup
  (IF /\ Shoulders(lows, last)
      /\ FromEnd(lows, 2).price < FromEnd(lows, 3).price
      /\ FromEnd(lows, 2).price < FromEnd(lows, 1).price
     THEN Chart("inverse_head_and_shoulders", "bullish", 800, last - FromEnd(lows, 1).index) ELSE {})

(***************************************************************************)
(* The geometry of the last two highs and the last two lows.               *)
(***************************************************************************)
\* "up", "down" or "flat" beyond the tolerance.
Slope(p, q) ==
  IF p = 0 \/ 10000 * Off(p, q) <= EqualTolerance * p THEN "flat" ELSE IF q > p THEN "up" ELSE "down"

Converging(h1, h2, l1, l2) == 10 * Off(h2, l2) < 8 * Off(h1, l1)

Geometry(upper, lower, narrows, age) ==
  CASE upper = "flat" /\ lower = "up"   -> Chart("ascending_triangle", "bullish", 700, age)
    [] upper = "down" /\ lower = "flat" -> Chart("descending_triangle", "bearish", 700, age)
    [] upper = "down" /\ lower = "up"   -> Chart("symmetrical_triangle", "neutral", 600, age)
    [] upper = "flat" /\ lower = "flat" -> Chart("rectangle_range", "neutral", 600, age)
    [] upper = "up" /\ lower = "up"     ->
         IF narrows THEN Chart("rising_wedge", "bearish", 650, age)
         ELSE Chart("ascending_channel", "bullish", 600, age)
    [] upper = "down" /\ lower = "down" ->
         IF narrows THEN Chart("falling_wedge", "bullish", 650, age)
         ELSE Chart("descending_channel", "bearish", 600, age)
    [] OTHER -> {}

DetectTrendlineFormations(highs, lows, last) ==
  IF Len(highs) < 2 \/ Len(lows) < 2 THEN {}
  ELSE LET h1 == FromEnd(highs, 2)  h2 == FromEnd(highs, 1)
           l1 == FromEnd(lows, 2)   l2 == FromEnd(lows, 1)
           age == last - Max({h2.index, l2.index})
       IN IF age > MaxAge THEN {}
          ELSE Geometry(Slope(h1.price, h2.price), Slope(l1.price, l2.price),
                        Converging(h1.price, h2.price, l1.price, l2.price), age)

(***************************************************************************)
(* An impulse, then a tight consolidation.                                 *)
(***************************************************************************)
ImpulseLength == 8
ConsolidationLength == 6

Top(candles)     == Max({x.h : x \in ToSet(candles)})
Bottom(candles)  == Min({x.l : x \in ToSet(candles)})
Height(candles)  == Top(candles) - Bottom(candles)

DetectFlagsAndPennants(series) ==
  IF Len(series) < ImpulseLength + ConsolidationLength + 2 THEN {}
  ELSE LET start   == Len(series) - (ImpulseLength + ConsolidationLength) + 1
           impulse == SubSeq(series, start, start + ImpulseLength - 1)
           rest    == SubSeq(series, start + ImpulseLength, Len(series))
           half    == ConsolidationLength \div 2
           from    == impulse[1].c
           to      == Last(impulse).c
           \* in hundredths of the close the impulse started from
           move    == 100 * (to - from)
           narrows == 10 * Height(SubSeq(rest, half + 1, ConsolidationLength))
                        < 8 * Height(SubSeq(rest, 1, half))
       IN IF from = 0 \/ to = 0 \/ Height(impulse) = 0 \/ 2 * Height(rest) >= Height(impulse) THEN {}
          ELSE IF move >= 3 * from
            THEN IF narrows THEN Chart("pennant", "bullish", 600, 0) ELSE Chart("bull_flag", "bullish", 650, 0)
          ELSE IF move <= -3 * from
            THEN IF narrows THEN Chart("pennant", "bearish", 600, 0) ELSE Chart("bear_flag", "bearish", 650, 0)
          ELSE {}

(***************************************************************************)
(* The last candles against the range before them.                         *)
(***************************************************************************)
Lookback(n) == IF n < RangeLookback + 5 THEN n - 5 ELSE RangeLookback

\* Candles since the first recent one that closed beyond the range, -1 without.
SinceBreak(recent, at) == IF at = 0 THEN -1 ELSE Len(recent) - at

DetectBreakouts(series) ==
  LET refEnd == Len(series) - 3
      before == SubSeq(series, Max({1, refEnd - Lookback(Len(series)) + 1}), refEnd)
      recent == SubSeq(series, refEnd + 1, Len(series))
      now    == Last(series)
      high   == Top(before)
      low    == Bottom(before)
      up     == SinceBreak(recent, SelectInSeq(recent, LAMBDA x : x.c > high))
      down   == SinceBreak(recent, SelectInSeq(recent, LAMBDA x : x.c < low))
  IN IF Lookback(Len(series)) < 15 \/ high <= low THEN {}
     ELSE IF up >= 0 /\ now.c > high
       THEN IF up >= 1 /\ now.l <= high THEN Chart("breakout_retest", "bullish", 750, up)
            ELSE Chart("breakout", "bullish", 700, up)
     ELSE IF up >= 0 /\ now.c < high THEN Chart("failed_breakout", "bearish", 700, up)
     ELSE IF down >= 0 /\ now.c < low
       THEN IF down >= 1 /\ now.h >= low THEN Chart("breakdown_retest", "bearish", 750, down)
            ELSE Chart("breakdown", "bearish", 700, down)
     ELSE IF down >= 0 /\ now.c > low THEN Chart("failed_breakdown", "bullish", 700, down)
     ELSE {}

DetectChart(series, swings) ==
  IF Len(series) < 20 THEN {}
  ELSE LET highs == OfKind(swings, TRUE)
           lows  == OfKind(swings, FALSE)
           last  == Len(series)
       IN UNION {DetectDoubleAndTriple(highs, lows, last), DetectHeadAndShoulders(highs, lows, last),
                 DetectTrendlineFormations(highs, lows, last),
                 DetectFlagsAndPennants(series), DetectBreakouts(series)}
=============================================================================
