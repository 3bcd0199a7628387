-------------------------------- MODULE Regime --------------------------------
(***************************************************************************)
(* The label of the market and the deterministic score of one timeframe    *)
(* (analysis/regime).  ind is the record of indicator readings: percents   *)
(* in hundredths, oscillators in their own units.  The other tags  *)
(* and the bull and bear halves of the score are left out: nothing that is *)
(* modelled reads them.                                                    *)
(***************************************************************************)
EXTENDS Readings, FiniteSetsExt

ByAdx(ind) ==
  LET bullish == Has(ind.plus) /\ Has(ind.minus) /\ ind.plus > ind.minus IN
  IF ~Has(ind.adx) THEN "uncertain"
  ELSE IF ind.adx >= 40 THEN (IF bullish THEN "strong_uptrend" ELSE "strong_downtrend")
  ELSE IF ind.adx >= 25 THEN (IF bullish THEN "weak_uptrend" ELSE "weak_downtrend")
  ELSE IF ind.adx < 20 THEN "range" ELSE "uncertain"

\* Structure decides where the ADX is mute, a fresh break over both, and a
\* narrow band makes what is still undecided a compression.
Promoted(label, state) ==
  IF label \in {"range", "uncertain"} /\ state = "bullish" THEN "weak_uptrend"
  ELSE IF label \in {"range", "uncertain"} /\ state = "bearish" THEN "weak_downtrend"
  ELSE label

Breaks == {"breakout", "breakdown", "breakout_retest", "breakdown_retest"}

ClassifyRegime(ind, structure, chart) ==
  LET label == Promoted(ByAdx(ind), structure.state) IN
  IF \E p \in chart : p.name \in Breaks /\ p.age <= 3 THEN "breakout"
  ELSE IF label \in {"range", "uncertain"} /\ Has(ind.bbWidth) /\ ind.bbWidth < 200 THEN "compression"
  ELSE label

\* The one tag a reader of the snapshot looks for.
HighVolatility(ind) ==
  IF Has(ind.atrPercentile) THEN ind.atrPercentile >= 80 ELSE Has(ind.atrPct) /\ ind.atrPct >= 200

(***************************************************************************)
(* Score.                                                                  *)
(***************************************************************************)
AdxLean(ind) ==
  IF ~Has(ind.adx) THEN NoReading
  ELSE IF ~Has(ind.plus) \/ ~Has(ind.minus) THEN 0
  ELSE IF ind.plus > ind.minus THEN ind.adx ELSE -ind.adx

StateLean(state) ==
  CASE state = "bullish" -> Part(1, 1, 10)
    [] state = "bearish" -> Part(-1, 1, 10)
    [] state \in {"range", "transition"} -> Part(0, 1, 5)
    [] OTHER -> Part(NoReading, 1, 10)

TrendScore(ind, structure) ==
  Blend(<<Part(AdxLean(ind), 40, 15), Part(ind.vsSlow, 500, 10), Part(ind.vsFast, 300, 7),
          Part(IF Has(ind.hist) THEN SignOf(ind.hist) ELSE NoReading, 1, 5),
          StateLean(structure.state)>>)

MomentumScore(ind) ==
  Blend(<<Part(Centred(ind.rsi, 50), 25, 10), Part(Centred(ind.stochK, 50), 40, 6),
          Part(ind.roc, 300, 8), Part(ind.cci, 150, 6), Part(Centred(ind.mfi, 50), 30, 5),
          Part(ind.rsiSlope, 3, 4)>>)

\* The weighted mean of all formations, each worth less the older it is; a
\* neutral one weighs without pulling.
Pull(fs, halfLife, weight) ==
  MapThenSumSet(LAMBDA f : weight * Signed(f.direction, Decayed(f.strength, f.age, halfLife)), fs)

PatternsScore(candles, chart, divs) ==
  LET fresh  == {f \in candles : f.age <= 3}
      recent == {d \in divs : d.age <= 15}
      weight == 10 * Cardinality(fresh) + 14 * Cardinality(chart) + 12 * Cardinality(recent)
  IN IF weight = 0 THEN 0
     ELSE Clamp(Over(Pull(fresh, 2, 10) + Pull(chart, 10, 14) + Pull(recent, 10, 12), weight), -1000, 1000)

\* Rounded to hundredths, as the score is stored.
ToHundredths(x) == SignOf(x) * 10 * ((Absolute(x) + 5) \div 10)

NetScore(ind, structure, candles, chart, divs) ==
  ToHundredths(Over(4 * TrendScore(ind, structure) + 3 * MomentumScore(ind)
                      + 3 * PatternsScore(candles, chart, divs), 10))
=============================================================================
