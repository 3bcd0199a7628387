------------------------------- MODULE Opinions -------------------------------
(***************************************************************************)
(* What each strategy of the catalog makes of a market (analysis/          *)
(* strategies): which side it speaks for or blocks, and how strongly, in   *)
(* thousandths.  The input in is                                           *)
(*   [series, price, ind, structure, candles, chart, divs, regime, net,    *)
(*    slower, levels, alignment, news, market, rank, limits]               *)
(* with percents in hundredths.  slower holds the analyses of the slower   *)
(* timeframes, the next one first, levels the key levels of the snapshot.  *)
(***************************************************************************)
EXTENDS Readings, FiniteSetsExt

CONSTANTS
  FastChannel, SlowChannel,       \* the channels of donchianBreakout
  AtrPeriod,                      \* of superTrend
  TrendPeriod,                    \* the long average of rsi2Reversion
  TrailingMoveLookback, Yardstick

Says(side, strength) == [says |-> side, strength |-> strength]
NoOpinion == Says("none", 0)

SideOf(value) == IF value >= 0 THEN "long" ELSE "short"
\* A value under the threshold is not an opinion.
Leaning(value, threshold) ==
  IF Absolute(value) < threshold THEN NoOpinion ELSE Says(SideOf(value), Clamp(Absolute(value), 0, 1000))

(***************************************************************************)
(* Scores and trends.                                                      *)
(***************************************************************************)
CompositeScore(in) == Leaning(in.net, 150)

HigherTimeframe(in) == IF in.slower = <<>> THEN NoOpinion ELSE Leaning(Head(in.slower).net, 150)

\* gap is the distance of the two averages from one another.
EmaTrend(in) ==
  IF ~Has(in.ind.vsFast) /\ ~Has(in.ind.vsSlow) THEN NoOpinion
  ELSE Leaning(Blend(<<Part(in.ind.vsSlow, 400, 12), Part(in.ind.vsFast, 250, 10),
                       Part(in.ind.gap, 200, 13)>>), 150)

AdxStrength(adx, plus, minus) ==
  LET apart == (1000 * Absolute(plus - minus)) \div (IF plus + minus > 1 THEN plus + minus ELSE 1)
  IN Clamp((Clamp((1000 * adx) \div 40, 0, 1000) * (400 + (6 * apart) \div 10)) \div 1000, 0, 1000)

AdxDirectional(in) ==
  IF ~(Has(in.ind.adx) /\ Has(in.ind.plus) /\ Has(in.ind.minus)) THEN NoOpinion
  ELSE LET strength == AdxStrength(in.ind.adx, in.ind.plus, in.ind.minus) IN
       IF in.ind.adx < 20 \/ strength < 150 THEN NoOpinion
       ELSE Says(IF in.ind.minus > in.ind.plus THEN "short" ELSE "long", strength)

\* hist is the histogram in two-thousandths of the price; a line on its
\* signal counts as below it.
SideOfSignal(ind) ==
  IF ~Has(ind.macd) \/ ~Has(ind.signal) THEN NoReading ELSE IF ind.macd > ind.signal THEN 1 ELSE -1
MacdStrategy(in) ==
  Leaning(Blend(<<Part(in.ind.hist, 1, 10), Part(SideOfSignal(in.ind), 1, 8)>>), 200)

MomentumOpinion(in) ==
  Leaning(Blend(<<Part(in.ind.roc, 300, 10), Part(in.ind.cci, 150, 8),
                  Part(Centred(in.ind.stochK, 50), 40, 6), Part(in.ind.rsiSlope, 3, 5)>>), 200)

\* obvSlope and the money flow cmf are in hundredths.
VolumeConfirmation(in) ==
  Leaning(Blend(<<Part(in.ind.obvSlope, 100, 10), Part(in.ind.cmf, 20, 8),
                  Part(Centred(in.ind.mfi, 50), 30, 6)>>), 200)

VwapPosition(in) ==
  IF Has(in.ind.vsVwap) THEN Leaning(Scaled(in.ind.vsVwap, 150), 200) ELSE NoOpinion

(***************************************************************************)
(* Structure and formations.                                               *)
(***************************************************************************)
\* Only the first event that is recent enough adds to the state.
StructureLean(structure) ==
  LET base   == CASE structure.state = "bullish" -> 700 [] structure.state = "bearish" -> -700 [] OTHER -> 0
      recent == SelectSeq(structure.events, LAMBDA e : e.age <= 10)
      push   == IF recent = <<>> THEN 0
                ELSE (IF Head(recent).direction = "short" THEN -1 ELSE 1) * Decayed(400, Head(recent).age, 5)
  IN Clamp(base + push, -1000, 1000)

MarketStructureOpinion(in) == Leaning(StructureLean(in.structure), 200)

PatternOpinion(found, maxAge, halfLife) ==
  LET counted == {p \in found : p.age <= maxAge /\ p.direction # "neutral"}
      score   == MapThenSumSet(LAMBDA p : Signed(p.direction, Decayed(p.strength, p.age, halfLife)), counted)
  IN IF counted = {} THEN NoOpinion
     ELSE Leaning(Clamp(Over(score, Cardinality(counted)), -1000, 1000), 150)

ChartOpinion(in)      == PatternOpinion(in.chart, 30, 10)
CandleOpinion(in)     == PatternOpinion(in.candles, 3, 2)
DivergenceOpinion(in) == PatternOpinion(in.divs, 15, 8)

\* Stretched momentum argues for the way back; outside the band (percentB,
\* in hundredths) the argument is stronger.
Stretch(rsi) ==
  IF rsi <= 30 THEN (1000 * (30 - rsi)) \div 30
  ELSE IF rsi >= 70 THEN -((1000 * (rsi - 70)) \div 30) ELSE 0
Banded(score, percentB) ==
  IF ~Has(percentB) THEN score
  ELSE IF (percentB < 0 /\ score > 0) \/ (percentB > 100 /\ score < 0)
    THEN Clamp(Over(14 * score, 10), -1000, 1000)
  ELSE Over(7 * score, 10)

RsiReversion(in) ==
  IF ~Has(in.ind.rsi) THEN NoOpinion ELSE Leaning(Banded(Stretch(in.ind.rsi), in.ind.percentB), 150)

\* At the edge of the recent range, and more so when volume agrees.
VolumeFactor(relative) ==
  IF ~Has(relative) THEN 10 ELSE IF relative >= 150 THEN 12 ELSE IF relative < 80 THEN 6 ELSE 10
BreakoutOpinion(in) ==
  LET strength == Clamp(80 * VolumeFactor(in.ind.relativeVolume), 0, 1000) IN
  IF in.regime # "breakout" \/ ~Has(in.ind.fromHigh) \/ ~Has(in.ind.fromLow) THEN NoOpinion
  ELSE IF Absolute(in.ind.fromHigh) <= 50 THEN Says("long", strength)
  ELSE IF Absolute(in.ind.fromLow) <= 50 THEN Says("short", strength)
  ELSE NoOpinion

(***************************************************************************)
(* The published systems, computed from the candles themselves.            *)
(***************************************************************************)
Latest(in) == in.series[Len(in.series)]

\* The candles before the last one: an extreme is never one's own.
Channel(series, period) == SubSeq(series, Len(series) - period, Len(series) - 1)
HighOf(candles) == Max({x.h : x \in ToSet(candles)})
LowOf(candles)  == Min({x.l : x \in ToSet(candles)})

Beyond(in, period, side) ==
  /\ Len(in.series) > period
  /\ IF side = "long" THEN Latest(in).c > HighOf(Channel(in.series, period))
     ELSE Latest(in).c < LowOf(Channel(in.series, period))

DonchianBreakout(in) ==
  LET broken == {side \in {"long", "short"} : Beyond(in, FastChannel, side)} IN
  IF broken = {} THEN NoOpinion
  ELSE LET side == CHOOSE s \in broken : TRUE IN
       Says(side, IF Beyond(in, SlowChannel, side) THEN 1000 ELSE 700)

\* True ranges and their running average, in thousandths of the price unit.
TrueRange(x, before) ==
  Max({x.h - x.l, Absolute(x.h - before.c), Absolute(x.l - before.c)})
FirstAtr(series) ==
  (1000 * FoldLeft(LAMBDA s, i : s + TrueRange(series[i + 1], series[i]), 0, [i \in 1..AtrPeriod |-> i]))
    \div AtrPeriod
NextAtr(atr, x, before) == (atr * (AtrPeriod - 1) + 1000 * TrueRange(x, before)) \div AtrPeriod

\* The bands follow the trend and never give way until it flips.
Banding(s, x, before, atr) ==
  LET basicUpper == 500 * (x.h + x.l) + 3 * atr
      basicLower == 500 * (x.h + x.l) - 3 * atr
      upper == IF s.fresh \/ basicUpper < s.upper \/ 1000 * before.c > s.upper THEN basicUpper ELSE s.upper
      lower == IF s.fresh \/ basicLower > s.lower \/ 1000 * before.c < s.lower THEN basicLower ELSE s.lower
  IN [fresh |-> FALSE, atr |-> atr, upper |-> upper, lower |-> lower,
      trend |-> IF 1000 * x.c > upper THEN "long" ELSE IF 1000 * x.c < lower THEN "short" ELSE s.trend]

Bands(series) ==
  LET start == Banding([fresh |-> TRUE, trend |-> "long"], series[AtrPeriod + 1], series[AtrPeriod],
                       FirstAtr(series))
  IN FoldLeft(LAMBDA s, i : Banding(s, series[i], series[i - 1], NextAtr(s.atr, series[i], series[i - 1])),
              start, [k \in 1..(Len(series) - AtrPeriod - 1) |-> AtrPeriod + 1 + k])

SuperTrend(in) ==
  IF Len(in.series) < AtrPeriod + 2 THEN NoOpinion
  ELSE LET bands == Bands(in.series)
           band  == IF bands.trend = "short" THEN bands.upper ELSE bands.lower
           now   == Latest(in).c
       IN IF band <= 0 \/ now <= 0 THEN NoOpinion
          ELSE Says(bands.trend, Clamp((50 * Absolute(1000 * now - band)) \div now, 300, 1000))

\* The two-period RSI is 100 gain / (gain + loss), both in thousandths of the
\* price unit: under 10 when the gain is, over 90 when the loss is, less than
\* a tenth of the movement.
Rise(x, before) == IF x.c > before.c THEN 1000 * (x.c - before.c) ELSE 0
Swing(series) ==
  FoldLeft(LAMBDA s, i : [gain |-> (s.gain + Rise(series[i], series[i - 1])) \div 2,
                          loss |-> (s.loss + Rise(series[i - 1], series[i])) \div 2],
           [gain |-> (Rise(series[2], series[1]) + Rise(series[3], series[2])) \div 2,
            loss |-> (Rise(series[1], series[2]) + Rise(series[2], series[3])) \div 2],
           [k \in 1..(Len(series) - 3) |-> 3 + k])
ClosesOf(series, period) ==
  FoldLeft(LAMBDA s, x : s + x.c, 0, SubSeq(series, Len(series) - period + 1, Len(series)))

\* Panic is bought above the long average only, euphoria sold below it only.
Rsi2Reversion(in) ==
  IF Len(in.series) < TrendPeriod + 2 THEN NoOpinion
  ELSE LET average == ClosesOf(in.series, TrendPeriod)
           now     == TrendPeriod * Latest(in).c
           swing   == Swing(in.series)
           moved   == swing.gain + swing.loss
       IN IF average > 0 /\ now > average /\ 10 * swing.gain < moved
            THEN Says("long", Clamp(1000 - (10000 * swing.gain) \div moved, 400, 1000))
          ELSE IF average > 0 /\ now < average /\ 10 * swing.loss < moved
            THEN Says("short", Clamp(1000 - (10000 * swing.loss) \div moved, 400, 1000))
          ELSE NoOpinion

(***************************************************************************)
(* The rules of the market regime.  A move is measured against the average *)
(* range of the candles before it, in thousandths of that range.           *)
(***************************************************************************)
Moved(series) ==
  LET from == Len(series) - TrailingMoveLookback
      span == FoldLeft(LAMBDA s, x : s + x.h - x.l, 0, SubSeq(series, from - Yardstick, from - 1))
  IN IF from <= Yardstick \/ span <= 0 THEN NoReading
     ELSE Over(1000 * Yardstick * (series[Len(series)].c - series[from].c), span)

MarketBand == 100

MarketRising(market) ==
  /\ market.known /\ Has(market.distance) /\ market.distance >= MarketBand
  /\ Has(market.slope) /\ market.slope > 0
MarketFalling(market) ==
  /\ market.known /\ Has(market.distance)
  /\ market.distance <= -MarketBand \/ (Has(market.slope) /\ market.slope < 0)

RegimeMomentum(in) ==
  LET move == Moved(in.series) IN
  IF MarketRising(in.market) /\ Has(move) /\ move >= 2000
    THEN Says("long", Clamp((move - 2000) \div 4, 300, 1000)) ELSE NoOpinion

CapitulationLong(in) ==
  LET move == Moved(in.series) IN
  IF Has(move) /\ move <= -4000 THEN Says("long", Clamp((-move - 4000) \div 4, 400, 1000)) ELSE NoOpinion

BearRallyFade(in) ==
  LET move == Moved(in.series) IN
  IF MarketFalling(in.market) /\ Has(move) /\ move >= 1000
    THEN Says("short", Clamp((move - 1000) \div 3, 300, 1000)) ELSE NoOpinion

(***************************************************************************)
(* The filters: which side they argue against.                             *)
(***************************************************************************)
\* How far the nearest strong level on a side is.
InFront(level, side, price) ==
  /\ level.strength >= 400
  /\ IF side = "above" THEN level.type = "resistance" /\ level.price > price
     ELSE level.type = "support" /\ level.price < price
Nearest(in, side) ==
  LET strong == {l \in ToSet(in.levels) : InFront(l, side, in.price)} IN
  IF strong = {} THEN NoReading ELSE Min({l.distance : l \in strong})
Reach(ind) == IF Has(ind.atrPct) /\ ind.atrPct > 0 THEN Clamp((75 * ind.atrPct) \div 100, 10, 150) ELSE 100

\* One percent is far on a fast chart: the reach follows the average range.
OpposingLevel(in) ==
  LET above == Nearest(in, "above")
      below == Nearest(in, "below")
      reach == Reach(in.ind)
      Close(distance) == Has(distance) /\ distance <= reach
      Weight(distance) == Clamp(1000 - (1000 * distance) \div reach, 300, 1000)
  IN IF in.price <= 0 \/ ~(Close(above) \/ Close(below)) THEN NoOpinion
     ELSE IF Close(above) /\ Close(below) THEN Says("both", 1000)
     ELSE IF Close(above) THEN Says("long", Weight(above)) ELSE Says("short", Weight(below))

\* alignment is [frames, score], the score in thousandths.
TimeframeConflict(in) ==
  LET score == Absolute(in.alignment.score) IN
  IF in.alignment.frames < 2 \/ score >= 150 THEN NoOpinion
  ELSE Says("both", Clamp(1000 - (1000 * score) \div 150, 300, 1000))

VolatilityGuard(in) ==
  LET p == in.ind.atrPercentile IN
  IF Has(p) THEN IF p >= 95 THEN Says("both", Clamp(200 * (p - 95), 400, 1000))
                 ELSE IF p <= 3 THEN Says("both", 500) ELSE NoOpinion
  ELSE IF Has(in.ind.atrPct) /\ (in.ind.atrPct >= 800 \/ in.ind.atrPct <= 1) THEN Says("both", 600)
  ELSE NoOpinion

RegimeGuard(in) ==
  IF in.regime = "uncertain" THEN Says("both", 800)
  ELSE IF in.regime = "compression" THEN Says("both", 500) ELSE NoOpinion

\* Two average ranges have to pay for a number of round trips.
CostFloor(in) ==
  LET multiple == IF in.limits.costMultiple > 0 THEN in.limits.costMultiple ELSE 3
      required == multiple * in.limits.cost
  IN IF in.limits.cost <= 0 \/ ~Has(in.ind.atrPct) THEN NoOpinion
     ELSE IF in.ind.atrPct <= 0 \/ 2 * in.ind.atrPct >= required THEN NoOpinion
     ELSE Says("both", Clamp(1000 - (2000 * in.ind.atrPct) \div required, 300, 1000))

\* Too far from the average of twenty bars, measured in average ranges.
ExtensionGuard(in) ==
  IF ~(Has(in.ind.atr) /\ Has(in.ind.anchor)) \/ in.price <= 0 THEN NoOpinion
  ELSE IF in.ind.atr <= 0 \/ in.ind.anchor <= 0 THEN NoOpinion
  ELSE LET extension == Over(1000 * (in.price - in.ind.anchor), in.ind.atr) IN
       IF Absolute(extension) < 1200 THEN NoOpinion
       ELSE Says(SideOf(extension), Clamp((1000 * (Absolute(extension) - 1200)) \div 1200, 400, 1000))

\* The slowest timeframe on screen, the own one without a slower.
SlowestAnalysis(in) ==
  IF in.slower # <<>> THEN in.slower[Len(in.slower)]
  ELSE [vsSlow |-> in.ind.vsSlow, vsFast |-> in.ind.vsFast, atrPct |-> in.ind.atrPct]

TrendGate(in) ==
  LET slowest == SlowestAnalysis(in)
      value   == IF Has(slowest.vsSlow) THEN slowest.vsSlow ELSE slowest.vsFast
      band    == IF Has(slowest.atrPct) /\ slowest.atrPct > 0 THEN Clamp(slowest.atrPct, 20, 300) ELSE 100
  IN IF ~Has(value) THEN NoOpinion
     ELSE IF Absolute(value) < band THEN NoOpinion
     ELSE Says(IF value < 0 THEN "long" ELSE "short", Clamp((250 * Absolute(value)) \div band, 300, 1000))

\* An unknown benchmark never blocks.
MarketGate(in) ==
  LET distance == IF Has(in.market.distance) THEN in.market.distance ELSE 0
      rising   == Has(in.market.slope) /\ in.market.slope > 0
      falling  == Has(in.market.slope) /\ in.market.slope < 0
      strength == Clamp((1000 * Absolute(distance)) \div 1500, 500, 1000)
  IN IF ~in.market.known THEN NoOpinion
     ELSE IF \/ distance <= -MarketBand
             \/ in.limits.longBuffer > 0 /\ distance < in.limits.longBuffer
             \/ ~in.limits.allowFalling /\ falling
       THEN Says("long", strength)
     ELSE IF distance >= MarketBand /\ (in.limits.allowFalling \/ rising) THEN Says("short", strength)
     ELSE NoOpinion

\* rank is [members, percent]; an unranked universe never blocks.
RelativeStrengthGate(in) ==
  LET threshold == IF in.limits.minStrength > 0 THEN in.limits.minStrength ELSE 50
      lagging   == in.rank.percent < threshold
      leading   == in.rank.percent > 100 - threshold
      Weight(by) == Clamp((1000 * by) \div threshold, 300, 1000)
  IN IF in.rank.members < 2 \/ ~(lagging \/ leading) THEN NoOpinion
     ELSE IF lagging /\ leading THEN Says("both", 500)
     ELSE IF lagging THEN Says("long", Weight(threshold - in.rank.percent))
     ELSE Says("short", Weight(in.rank.percent - (100 - threshold)))

\* news holds the ages of the critical items, in minutes.
CriticalNews(in) ==
  LET maxAge == IF in.limits.newsAge > 0 THEN in.limits.newsAge ELSE 120 IN
  IF \E age \in in.news : age <= maxAge THEN Says("both", 1000) ELSE NoOpinion

EvaluateOne(id, in) ==
  CASE id = "composite_score"        -> CompositeScore(in)
    [] id = "higher_timeframe"       -> HigherTimeframe(in)
    [] id = "donchian_breakout"      -> DonchianBreakout(in)
    [] id = "supertrend"             -> SuperTrend(in)
    [] id = "rsi2_reversion"         -> Rsi2Reversion(in)
    [] id = "regime_momentum"        -> RegimeMomentum(in)
    [] id = "capitulation_long"      -> CapitulationLong(in)
    [] id = "bear_rally_fade"        -> BearRallyFade(in)
    [] id = "ema_trend"              -> EmaTrend(in)
    [] id = "adx_di"                 -> AdxDirectional(in)
    [] id = "macd"                   -> MacdStrategy(in)
    [] id = "market_structure"       -> MarketStructureOpinion(in)
    [] id = "chart_patterns"         -> ChartOpinion(in)
    [] id = "candle_patterns"        -> CandleOpinion(in)
    [] id = "divergences"            -> DivergenceOpinion(in)
    [] id = "rsi_reversion"          -> RsiReversion(in)
    [] id = "breakout"               -> BreakoutOpinion(in)
    [] id = "momentum"               -> MomentumOpinion(in)
    [] id = "volume_confirmation"    -> VolumeConfirmation(in)
    [] id = "vwap"                   -> VwapPosition(in)
    [] id = "opposing_level"         -> OpposingLevel(in)
    [] id = "timeframe_conflict"     -> TimeframeConflict(in)
    [] id = "volatility_guard"       -> VolatilityGuard(in)
    [] id = "regime_guard"           -> RegimeGuard(in)
    [] id = "critical_news"          -> CriticalNews(in)
    [] id = "cost_floor"             -> CostFloor(in)
    [] id = "extension_guard"        -> ExtensionGuard(in)
    [] id = "trend_gate"             -> TrendGate(in)
    [] id = "market_gate"            -> MarketGate(in)
    [] id = "relative_strength_gate" -> RelativeStrengthGate(in)
    [] OTHER                         -> NoOpinion
=============================================================================
