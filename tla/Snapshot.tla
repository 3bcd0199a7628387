------------------------------- MODULE Snapshot -------------------------------
(***************************************************************************)
(* What features.BuildSnapshot makes of the analyses of several timeframes *)
(* of one asset, and which of them the readers of the snapshot look at.    *)
(* A snapshot is a function from the timeframes that were analysed to      *)
(*   [net, bias, regime, highVol, levels, atrPct, atrPercentile, ...],     *)
(* a level is [price, type, strength, distance], its strength in           *)
(* thousandths and its distance in hundredths of a percent.                *)
(***************************************************************************)
EXTENDS Readings, FiniteSetsExt

\* Fast to slow, with their weights in tenths.
Timeframes == <<"1m", "5m", "15m", "1h", "4h", "1d">>
Weights    == <<4, 7, 10, 15, 20, 25>>

Slowness(tf) == SelectInSeq(Timeframes, LAMBDA t : t = tf)
WeightOf(tf) == Weights[Slowness(tf)]
Analysed(frames, order) == SelectSeq(order, LAMBDA tf : tf \in DOMAIN frames)

\* The first of an order that was analysed and has what is looked for.
FirstOf(frames, order, Wanted(_)) ==
  LET found == SelectSeq(Analysed(frames, order), LAMBDA tf : Wanted(frames[tf])) IN
  IF found = <<>> THEN NoReading ELSE Head(found)

\* The timeframe the decision is taken on: fast series are context only.
PrimaryTimeframe(frames) ==
  FirstOf(frames, <<"4h", "1d", "1h", "15m", "5m", "1m">>, LAMBDA a : TRUE)

SlowerThan(frames, tf) ==
  LET slower == SelectSeq(Analysed(frames, Timeframes), LAMBDA t : Slowness(t) > Slowness(tf)) IN
  [n \in DOMAIN slower |-> frames[slower[n]]]

(***************************************************************************)
(* How far the timeframes agree, and the regime of the asset.              *)
(***************************************************************************)
BiasOf(net) == IF net >= 250 THEN "bullish" ELSE IF net <= -250 THEN "bearish" ELSE "neutral"

SumOver(frames, Value(_)) == MapThenSumSet(LAMBDA tf : Value(tf), DOMAIN frames)

\* In thousandths, rounded to hundredths.
Alignment(frames) ==
  LET total == SumOver(frames, WeightOf)
      lean  == SumOver(frames, LAMBDA tf : Signed(frames[tf].bias, WeightOf(tf)))
  IN [frames |-> Cardinality(DOMAIN frames),
      score |-> SignOf(lean) * 10 * ((200 * Absolute(lean) + total) \div (2 * total))]

\* One hour first, then whatever comes next in this order.
AggregateRegime(frames) ==
  frames[FirstOf(frames, <<"1h", "4h", "15m", "1d", "5m", "1m">>, LAMBDA a : TRUE)].regime

\* A tag has to show on two timeframes, if there are two.
AggregateHighVol(frames) ==
  Cardinality({tf \in DOMAIN frames : frames[tf].highVol}) >= Min({2, Cardinality(DOMAIN frames)})

(***************************************************************************)
(* The key levels: those of all timeframes, stronger the slower it is, the *)
(* most relevant ten that are not next to a better one.                    *)
(***************************************************************************)
Weighty(level, tf) == [level EXCEPT !.strength = Min({1000, (@ * (600 + 20 * WeightOf(tf))) \div 1000})]
Relevance(level) == (400 * level.strength) \div (400 + level.distance)
Beside(kept, level) == kept.price # 0 /\ 1000 * Absolute(kept.price - level.price) < 3 * kept.price

AllLevels(frames) ==
  FoldLeft(LAMBDA all, tf : all \o [n \in DOMAIN frames[tf].levels |-> Weighty(frames[tf].levels[n], tf)],
           <<>>, Analysed(frames, Timeframes))

KeyLevels(frames) ==
  FoldLeft(LAMBDA out, level :
             IF Len(out) >= 10 \/ \E n \in DOMAIN out : Beside(out[n], level) THEN out
             ELSE Append(out, level),
           <<>>, SortSeq(AllLevels(frames), LAMBDA p, q : Relevance(p) > Relevance(q)))

(***************************************************************************)
(* What the risk engine reads: of the first timeframe of an order of its   *)
(* own that knows.                                                         *)
(***************************************************************************)
PrimaryAtrPct(frames) ==
  LET tf == FirstOf(frames, <<"1h", "15m", "4h", "5m", "1d">>, LAMBDA a : Has(a.atrPct)) IN
  IF Has(tf) THEN frames[tf].atrPct ELSE NoReading

VolatilityPercentile(frames) ==
  LET tf == FirstOf(frames, <<"1h", "4h", "15m">>, LAMBDA a : Has(a.atrPercentile)) IN
  IF Has(tf) THEN frames[tf].atrPercentile ELSE NoReading
=============================================================================
