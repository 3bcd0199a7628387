---------------------------- MODULE Candlesticks ----------------------------
(***************************************************************************)
(* The catalogue of candlestick formations (patterns.DetectCandlestick).   *)
(* A candle is [o, h, l, c].  Series are numbered from 1 here, from 0 in   *)
(* the code.  Strengths are thousandths.  What makes a candle "long" or    *)
(* "small" is its size against the last twenty candles of the series, so   *)
(* the measure k carries their sums; k.trend is the trend into the candle  *)
(* that is looked at.                                                      *)
(***************************************************************************)
EXTENDS Integers, SequencesExt, FiniteSetsExt

Magnitude(x)   == IF x < 0 THEN -x ELSE x
Smaller(x, y)  == IF x < y THEN x ELSE y
Larger(x, y)   == IF x < y THEN y ELSE x

Spread(x)      == x.h - x.l
Body(x)        == Magnitude(x.c - x.o)
UpperShadow(x) == x.h - Larger(x.o, x.c)
LowerShadow(x) == Smaller(x.o, x.c) - x.l
Bullish(x)     == x.c > x.o
Bearish(x)     == x.c < x.o

(***************************************************************************)
(* The measure.                                                            *)
(***************************************************************************)
Window == 20
TrendWindow == 8

Summed(series, F(_)) == FoldLeft(LAMBDA sum, x : sum + F(x), 0, series)
Recent(series, n) == SubSeq(series, Larger(1, Len(series) - n + 1), Len(series))

NewContext(series) ==
  LET recent == Recent(series, Window) IN
  [n |-> Len(recent), bodies |-> Summed(recent, Body), spreads |-> Summed(recent, Spread), trend |-> 0]

\* The move of the closes over the eight bars before, beyond 0.4 percent.
TrendAt(series, i) ==
  IF i <= TrendWindow \/ series[i - TrendWindow].c = 0 THEN 0
  ELSE LET first  == series[i - TrendWindow].c
           change == series[i - 1].c - first
       IN IF 1000 * change > 4 * first THEN 1 ELSE IF 1000 * change < -4 * first THEN -1 ELSE 0

\* body against range and against the average, without division.
AtMostOfRange(x, percent)   == 100 * Body(x) <= percent * Spread(x)
AtLeastOfRange(x, percent)  == Spread(x) > 0 /\ 100 * Body(x) >= percent * Spread(x)
AtMostOfBody(part, x, percent) == 100 * part <= percent * Body(x)
OfAverage(part, percent, sum, k) == 100 * part * k.n - percent * sum

IsDoji(x)         == AtMostOfRange(x, 10)
IsLongBody(x, k)  == OfAverage(Body(x), 120, k.bodies, k) >= 0 /\ AtLeastOfRange(x, 60)
IsSmallBody(x, k) == OfAverage(Body(x), 70, k.bodies, k) <= 0 \/ AtMostOfRange(x, 30)
TinyShadow(part, x) == 100 * part <= 8 * Spread(x)
NearEqual(p, q, k) ==
  IF k.spreads <= 0 THEN p = q ELSE OfAverage(Magnitude(p - q), 1, k.spreads, k) <= 0
BeyondMiddle(p, x) == 2 * p - (x.o + x.c)      \* > 0 above the middle of the body

SizeStrength(x, base, k) ==
  IF k.bodies <= 0 THEN base
  ELSE (base * (750 + Smaller(500, (250 * Body(x) * k.n) \div k.bodies))) \div 1000
TrendBonus(wanted, base, k) ==
  (base * (IF k.trend = wanted THEN 1150 ELSE IF k.trend = 0 THEN 900 ELSE 700)) \div 1000

(***************************************************************************)
(* The detectors, in the order of the catalogue.                           *)
(***************************************************************************)
When(holds, name, direction, strength) ==
  IF holds THEN {[name |-> name, direction |-> direction, strength |-> Larger(0, Smaller(1000, strength))]}
  ELSE {}

PinDown(x) == /\ Body(x) # 0 /\ AtMostOfRange(x, 30)
              /\ LowerShadow(x) >= 2 * Body(x) /\ AtMostOfBody(UpperShadow(x), x, 80)
PinUp(x)   == /\ Body(x) # 0 /\ AtMostOfRange(x, 30)
              /\ UpperShadow(x) >= 2 * Body(x) /\ AtMostOfBody(LowerShadow(x), x, 80)

Lone(x, k) == UNION
  {When(IsDoji(x) /\ OfAverage(Spread(x), 40, k.spreads, k) >= 0, "doji", "neutral", 400),
   When(/\ IsDoji(x) /\ Spread(x) # 0
        /\ 10 * LowerShadow(x) >= 6 * Spread(x) /\ 100 * UpperShadow(x) <= 15 * Spread(x),
        "dragonfly_doji", "bullish", TrendBonus(-1, 600, k)),
   When(/\ IsDoji(x) /\ Spread(x) # 0
        /\ 10 * UpperShadow(x) >= 6 * Spread(x) /\ 100 * LowerShadow(x) <= 15 * Spread(x),
        "gravestone_doji", "bearish", TrendBonus(1, 600, k)),
   When(/\ Spread(x) # 0 /\ ~IsDoji(x) /\ AtMostOfRange(x, 30)
        /\ UpperShadow(x) >= Body(x) /\ LowerShadow(x) >= Body(x),
        "spinning_top", "neutral", 350),
   When(AtLeastOfRange(x, 90) /\ TinyShadow(UpperShadow(x), x) /\ TinyShadow(LowerShadow(x), x),
        "marubozu", IF Bullish(x) THEN "bullish" ELSE "bearish", SizeStrength(x, 650, k)),
   When(PinDown(x) /\ k.trend <= 0, "hammer", "bullish", TrendBonus(-1, 700, k)),
   When(PinDown(x) /\ k.trend > 0, "hanging_man", "bearish", 650),
   When(PinUp(x) /\ k.trend <= 0, "inverted_hammer", "bullish", TrendBonus(-1, 600, k)),
   When(PinUp(x) /\ k.trend > 0, "shooting_star", "bearish", 700)}

Against(p, x) == Bearish(p) /\ Bullish(x)
Reversed(p, x) == Bullish(p) /\ Bearish(x)

Engulfed(p, x, k) == UNION
  {When(Against(p, x) /\ x.o <= p.c /\ x.c >= p.o /\ Body(x) > Body(p),
        "bullish_engulfing", "bullish", TrendBonus(-1, SizeStrength(x, 750, k), k)),
   When(Reversed(p, x) /\ x.o >= p.c /\ x.c <= p.o /\ Body(x) > Body(p),
        "bearish_engulfing", "bearish", TrendBonus(1, SizeStrength(x, 750, k), k)),
   When(Against(p, x) /\ ~IsDoji(x) /\ IsLongBody(p, k) /\ x.o > p.c /\ x.c < p.o,
        "bullish_harami", "bullish", TrendBonus(-1, 600, k)),
   When(Reversed(p, x) /\ ~IsDoji(x) /\ IsLongBody(p, k) /\ x.o < p.c /\ x.c > p.o,
        "bearish_harami", "bearish", TrendBonus(1, 600, k)),
   When(/\ IsDoji(x) /\ IsLongBody(p, k)
        /\ x.h <= Larger(p.o, p.c) /\ x.l >= Smaller(p.o, p.c),
        "harami_cross", IF Bearish(p) THEN "bullish" ELSE "bearish", 650),
   When(/\ Against(p, x) /\ IsLongBody(p, k) /\ x.o < p.c
        /\ BeyondMiddle(x.c, p) > 0 /\ x.c < p.o,
        "piercing_line", "bullish", TrendBonus(-1, 700, k)),
   When(/\ Reversed(p, x) /\ IsLongBody(p, k) /\ x.o > p.c
        /\ BeyondMiddle(x.c, p) < 0 /\ x.c > p.o,
        "dark_cloud_cover", "bearish", TrendBonus(1, 700, k))}

RisingStar(a, b, x, k) ==
  Against(a, x) /\ IsLongBody(a, k) /\ Larger(b.o, b.c) < a.c /\ BeyondMiddle(x.c, a) > 0
FallingStarUnclosed(a, b, x, k) ==
  Reversed(a, x) /\ IsLongBody(a, k) /\ Smaller(b.o, b.c) > a.c
FallingStar(a, b, x, k) ==
  Reversed(a, x) /\ IsLongBody(a, k) /\ Smaller(b.o, b.c) > a.c /\ BeyondMiddle(x.c, a) < 0

Stars(a, b, x, k) == UNION
  {When(RisingStar(a, b, x, k) /\ IsSmallBody(b, k) /\ ~IsDoji(b),
        "morning_star", "bullish", TrendBonus(-1, 800, k)),
   When(FallingStar(a, b, x, k) /\ IsSmallBody(b, k) /\ ~IsDoji(b),
        "evening_star", "bearish", TrendBonus(1, 800, k)),
   When(RisingStar(a, b, x, k) /\ IsDoji(b), "morning_doji_star", "bullish", TrendBonus(-1, 850, k)),
   When(FallingStar(a, b, x, k) /\ IsDoji(b), "evening_doji_star", "bearish", TrendBonus(1, 850, k)),
   When(Against(a, x) /\ IsDoji(b) /\ b.h < a.l /\ b.h < x.l, "abandoned_baby_bullish", "bullish", 900),
   When(Reversed(a, x) /\ IsDoji(b) /\ b.l > a.h /\ b.l > x.h, "abandoned_baby_bearish", "bearish", 900)}

Solid(x, k) == OfAverage(Body(x), 60, k.bodies, k) >= 0

Marches(a, b, x, k) == UNION
  {When(/\ Bullish(a) /\ Bullish(b) /\ Bullish(x) /\ a.c < b.c /\ b.c < x.c
        /\ a.o <= b.o /\ b.o <= a.c /\ b.o <= x.o /\ x.o <= b.c
        /\ Solid(b, k) /\ Solid(x, k)
        /\ AtMostOfBody(UpperShadow(b), b, 60) /\ AtMostOfBody(UpperShadow(x), x, 60),
        "three_white_soldiers", "bullish", 850),
   When(/\ Bearish(a) /\ Bearish(b) /\ Bearish(x) /\ a.c > b.c /\ b.c > x.c
        /\ a.o >= b.o /\ b.o >= a.c /\ b.o >= x.o /\ x.o >= b.c
        /\ Solid(b, k) /\ Solid(x, k)
        /\ AtMostOfBody(LowerShadow(b), b, 60) /\ AtMostOfBody(LowerShadow(x), x, 60),
        "three_black_crows", "bearish", 850),
   When(k.trend > 0 /\ NearEqual(b.h, x.h, k) /\ Reversed(b, x), "tweezer_top", "bearish", 600),
   When(k.trend < 0 /\ NearEqual(b.l, x.l, k) /\ Against(b, x), "tweezer_bottom", "bullish", 600)}

Confirmed(a, b, x) == UNION
  {When(Against(a, b) /\ Bullish(x) /\ b.o > a.c /\ b.c < a.o /\ x.c > b.c,
        "three_inside_up", "bullish", 750),
   When(Reversed(a, b) /\ Bearish(x) /\ b.o < a.c /\ b.c > a.o /\ x.c < b.c,
        "three_inside_down", "bearish", 750),
   When(Against(a, b) /\ Bullish(x) /\ b.o <= a.c /\ b.c >= a.o /\ x.c > b.c,
        "three_outside_up", "bullish", 800),
   When(Reversed(a, b) /\ Bearish(x) /\ b.o >= a.c /\ b.c <= a.o /\ x.c < b.c,
        "three_outside_down", "bearish", 800)}

Kick(p, x) == AtLeastOfRange(p, 90) /\ AtLeastOfRange(x, 90)

Openings(p, x, k) == UNION
  {When(Bullish(x) /\ IsLongBody(x, k) /\ TinyShadow(LowerShadow(x), x),
        "belt_hold_bullish", "bullish", TrendBonus(-1, 600, k)),
   When(Bearish(x) /\ IsLongBody(x, k) /\ TinyShadow(UpperShadow(x), x),
        "belt_hold_bearish", "bearish", TrendBonus(1, 600, k)),
   When(Against(p, x) /\ Kick(p, x) /\ x.l > p.h, "kicking_bullish", "bullish", 850),
   When(Reversed(p, x) /\ Kick(p, x) /\ x.h < p.l, "kicking_bearish", "bearish", 850),
   When(Bearish(p) /\ Bearish(x) /\ NearEqual(p.c, x.c, k),
        "matching_low", "bullish", TrendBonus(-1, 500, k)),
   When(k.trend > 0 /\ Against(p, x) /\ NearEqual(p.o, x.o, k) /\ IsLongBody(x, k),
        "separating_lines_bullish", "bullish", 600),
   When(k.trend < 0 /\ Reversed(p, x) /\ NearEqual(p.o, x.o, k) /\ IsLongBody(x, k),
        "separating_lines_bearish", "bearish", 600),
   When(/\ Against(p, x) /\ IsLongBody(p, k) /\ x.o < p.l
        /\ x.c > p.c /\ BeyondMiddle(x.c, p) < 0,
        "thrusting", "bearish", 450)}

Exhaustion(z, a, b, x, k) == UNION
  {When(/\ Bullish(a) /\ Bullish(b) /\ Bullish(x) /\ a.c < b.c /\ b.c < x.c
        /\ Body(b) < Body(a) /\ Body(x) < Body(b) /\ UpperShadow(x) > Body(x),
        "advance_block", "bearish", 600),
   When(/\ Bullish(a) /\ Bullish(b) /\ Bullish(x) /\ IsLongBody(a, k) /\ IsLongBody(b, k)
        /\ IsSmallBody(x, k) /\ x.o >= b.c,
        "stalled_pattern", "bearish", 550),
   When(/\ Bearish(a) /\ Bearish(b) /\ Bearish(x)
        /\ IsLongBody(a, k) /\ 2 * LowerShadow(a) >= Body(a)
        /\ b.l > a.l /\ Body(b) < Body(a) /\ b.o <= a.o
        /\ Body(x) < Body(b) /\ x.h <= b.h /\ x.l >= b.l,
        "three_stars_in_the_south", "bullish", 700),
   When(/\ Bullish(a) /\ IsLongBody(a, k) /\ Bearish(b) /\ Bearish(x)
        /\ b.c > a.c /\ x.o > b.o /\ x.c < b.c /\ x.c > a.c,
        "upside_gap_two_crows", "bearish", 700),
   When(/\ Bearish(z) /\ Bearish(a) /\ Bearish(b) /\ Bearish(x)
        /\ AtLeastOfRange(z, 90) /\ AtLeastOfRange(a, 90)
        /\ b.o < a.c /\ b.h > b.o /\ x.h >= b.h /\ x.l <= b.l,
        "concealing_baby_swallow", "bullish", 700)}

Returns(y, z, a, b, x, k) == UNION
  {When(Against(b, x) /\ x.o < b.c /\ NearEqual(b.c, x.c, k), "counterattack_bullish", "bullish", 600),
   When(Reversed(b, x) /\ x.o > b.c /\ NearEqual(b.c, x.c, k), "counterattack_bearish", "bearish", 600),
   When(Against(a, b) /\ Bearish(x) /\ NearEqual(a.c, x.c, k), "stick_sandwich", "bullish", 600),
   When(/\ Bearish(y) /\ Bearish(z) /\ Bearish(a) /\ Bearish(b) /\ Bullish(x)
        /\ z.c < y.c /\ a.c < z.c /\ 2 * UpperShadow(b) >= Body(b) /\ x.o > b.o,
        "ladder_bottom", "bullish", 700),
   When(/\ Bullish(y) /\ IsLongBody(y, k) /\ Bearish(x) /\ IsLongBody(x, k)
        /\ \A m \in {z, a, b} : IsSmallBody(m, k)
        /\ x.c <= y.o,
        "tower_top", "bearish", 700),
   When(/\ Bearish(y) /\ IsLongBody(y, k) /\ Bullish(x) /\ IsLongBody(x, k)
        /\ \A m \in {z, a, b} : IsSmallBody(m, k)
        /\ x.c >= y.o,
        "tower_bottom", "bullish", 700)}

FormationsAt(series, i, context) ==
  LET k == [context EXCEPT !.trend = TrendAt(series, i)]
      y == series[i - 4]  z == series[i - 3]  a == series[i - 2]  b == series[i - 1]  x == series[i]
  IN UNION {Lone(x, k), Engulfed(b, x, k), Stars(a, b, x, k), Marches(a, b, x, k), Confirmed(a, b, x),
            Openings(b, x, k), Exhaustion(z, a, b, x, k), Returns(y, z, a, b, x, k)}

\* Every formation of the last candles, with the number of candles since.
DetectCandlestick(series, lookback) ==
  IF Len(series) < 6 THEN {}
  ELSE LET context == NewContext(series) IN
       UNION {{[name |-> f.name, direction |-> f.direction, strength |-> f.strength,
                age |-> Len(series) - i] : f \in FormationsAt(series, i, context)} :
                i \in Larger(6, Len(series) - lookback + 1)..Len(series)}
=============================================================================
