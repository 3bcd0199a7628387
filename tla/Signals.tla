------------------------------- MODULE Signals -------------------------------
(***************************************************************************)
(* From closed candles to the deterministic decision: one candle closes,   *)
(* features.AnalyzeTimeframe analyses the whole series again, and          *)
(* strategies.Evaluate decides under the policy of that moment             *)
(* (recommendations.Service.analyze, and the same in a replay).            *)
(*                                                                         *)
(* A candle is [o, h, l, c, osc]; osc is the oscillator the divergences    *)
(* are looked for in, one of the three the code computes.  What the        *)
(* indicators, the levels, the other timeframes, the news, the benchmark   *)
(* and the universe say is the outlook, an input.                          *)
(***************************************************************************)
EXTENDS Candlesticks, MarketStructure, ChartPatterns, Divergences, Regime, Snapshot, Opinions, Votes

CONSTANTS
  Starts,        \* bound: where to start, and the outlook and strategies of
                 \* a behaviour: [series, outlook, strategies], the outlook
                 \* [ind, levels, others, news, market, rank, limits]
  Shapes(_),     \* the candles that may follow a series
  MinCandles,    \* a shorter series is not analysed
  MaxSeries      \* bound: candles

\* The code asks for thirty; swings are looked for in nine.
ASSUME StartsAreLong == \A start \in Starts :
         /\ start.series \in Seq(ToSet(start.series))
         /\ Len(start.series) >= 2 * DefaultDepth + 3

\* Stored policies are decoded into these types.
ASSUME StrategiesAreDecoded == \A start \in Starts : LET policy == start.strategies IN
         /\ policy \in [minSignal: Int, sides: STRING, adaptive: BOOLEAN,
                        items: Seq(ToSet(policy.items))]
         /\ \A item \in ToSet(policy.items) :
              item.weight \in Int /\ {item.enabled, item.veto} \subseteq BOOLEAN

VARIABLES
  series,        \* the closed candles, oldest first
  outlook,
  strategies,    \* the strategy set in force
  decision       \* what is stored with the run: votes, climate, verdict, snapshot

signalVars == <<series, outlook, strategies, decision>>

(***************************************************************************)
(* The analysis of the series.                                             *)
(***************************************************************************)
\* The timeframe of the series, the first that primaryTimeframe looks for.
OwnTimeframe == "4h"

Unread == [state |-> "uncertain", swings |-> <<>>, events |-> <<>>]
Nothing(ind) == [reading \in DOMAIN ind |-> NoReading]

Detected(candles) ==
  IF Len(candles) < MinCandles
    THEN [structure |-> Unread, candles |-> {}, chart |-> {}, divs |-> {}]
    ELSE [structure |-> Analyze(candles, DefaultDepth), candles |-> DetectCandlestick(candles, 5),
          chart |-> DetectChart(candles, FindSwings(candles, DefaultDepth)),
          divs |-> DetectDivergences(FindSwings(candles, DefaultDepth),
                                     [i \in DOMAIN candles |-> candles[i].osc])]

FrameOf(ind, regime, net, levels) ==
  [net |-> net, bias |-> BiasOf(net), regime |-> regime, highVol |-> HighVolatility(ind),
   levels |-> levels, atrPct |-> ind.atrPct, atrPercentile |-> ind.atrPercentile,
   vsSlow |-> ind.vsSlow, vsFast |-> ind.vsFast, ind |-> ind]

OwnFrame(candles, seen, found) ==
  IF Len(candles) < MinCandles THEN FrameOf(Nothing(seen.ind), "uncertain", 0, <<>>)
  ELSE FrameOf(seen.ind, ClassifyRegime(seen.ind, found.structure, found.chart),
               NetScore(seen.ind, found.structure, found.candles, found.chart, found.divs), seen.levels)

\* What the strategies are shown of it.
InputOf(candles, seen, found, frames) ==
  found @@
  [series |-> candles, price |-> candles[Len(candles)].c, ind |-> frames[OwnTimeframe].ind,
   regime |-> frames[OwnTimeframe].regime, net |-> frames[OwnTimeframe].net,
   slower |-> SlowerThan(frames, PrimaryTimeframe(frames)),
   levels |-> KeyLevels(frames), alignment |-> Alignment(frames), frames |-> frames,
   news |-> seen.news, market |-> seen.market, rank |-> seen.rank, limits |-> seen.limits]

AnalysisOf(candles, seen, found) ==
  InputOf(candles, seen, found, seen.others @@ (OwnTimeframe :> OwnFrame(candles, seen, found)))
Analysis(candles, seen) == AnalysisOf(candles, seen, Detected(candles))

\* What the risk engine will read of the snapshot.
RiskReading(frames) ==
  [regime |-> AggregateRegime(frames), highVolTag |-> AggregateHighVol(frames),
   alignment |-> Absolute(Alignment(frames).score) \div 10, levels |-> ToSet(KeyLevels(frames)),
   atr |-> PrimaryAtrPct(frames), percentile |-> VolatilityPercentile(frames)]

(***************************************************************************)
(* Evaluate: every enabled strategy is asked, then the votes are folded.   *)
(***************************************************************************)
Stating(item, opinion) ==
  [id |-> item.id, kind |-> item.kind, style |-> item.style, weight |-> item.weight,
   enabled |-> item.enabled, veto |-> item.veto, says |-> opinion.says, strength |-> opinion.strength]
Consulted(item, in) == Stating(item, IF Enabled(item) THEN EvaluateOne(item.id, in) ELSE NoOpinion)

Climate(in) == [label |-> in.regime, adx |-> IF Has(in.ind.adx) THEN in.ind.adx ELSE -1]

Concluded(in, repaired, votes) ==
  [votes |-> votes, climate |-> Climate(in), snapshot |-> RiskReading(in.frames),
   verdict |-> Decide([repaired EXCEPT !.items = votes], Climate(in))]
Polled(in, repaired) ==
  Concluded(in, repaired, [n \in DOMAIN repaired.items |-> Consulted(repaired.items[n], in)])
EvaluateStrategies(in, policy) == Polled(in, Normalize(policy))

DecisionOn(candles, seen, policy) == EvaluateStrategies(Analysis(candles, seen), policy)

(***************************************************************************)
(* The steps.                                                              *)
(***************************************************************************)
SignalInit ==
  /\ \E start \in Starts : /\ series = start.series
                           /\ outlook = start.outlook
                           /\ strategies = start.strategies
  /\ decision = DecisionOn(series, outlook, strategies)

\* A candle closes, and the next cycle analyses the longer series.
CandleCloses(x) ==
  /\ Len(series) < MaxSeries
  /\ series' = Append(series, x)
  /\ decision' = DecisionOn(series', outlook, strategies)
  /\ UNCHANGED <<outlook, strategies>>

SignalStep == \E x \in Shapes(series) : CandleCloses(x)

(***************************************************************************)
(* What the analysis has once reported stays.                              *)
(***************************************************************************)
Swings(candles) == Analyze(candles, DefaultDepth).swings
EventsOf(found, high) ==
  {e \in ToSet(found.events) : e.direction = IF high THEN "long" ELSE "short"}

\* Every swing is reported again, at the same candle and with the same label;
\* a new one exactly when the third candle after it has closed; and while the
\* last swing of a kind stays the last, the break of it stays.
Kept(before, after) ==
     /\ IsPrefix(before.swings, after.swings)
     /\ \A n \in DOMAIN after.swings \ DOMAIN before.swings :
          after.swings[n].index = Len(series') - DefaultDepth
     /\ \A high \in BOOLEAN : LastSwing(before.swings, high) = LastSwing(after.swings, high) =>
          \A e \in EventsOf(before, high) :
            \E f \in EventsOf(after, high) : f.at = e.at /\ f.price = e.price
KeepsReported == Kept(Analyze(series, DefaultDepth), Analyze(series', DefaultDepth))

(***************************************************************************)
(* Support never hurts.                                                    *)
(***************************************************************************)
Redecided(items) ==
  Decide([Normalize(strategies) EXCEPT !.items = items], decision.climate)

\* The opinion that makes an item of the policy vote for a side.
For(item, side) ==
  Says(IF (item.weight > 0) = (side = "long") THEN "long" ELSE "short", 1000)
Silenced(item) == [item EXCEPT !.says = "none", !.strength = 0]
Speaking(item, side) == [item EXCEPT !.says = For(item, side).says, !.strength = 1000]

TakenSide == IF decision.verdict.action = "OPEN_LONG" THEN "long" ELSE "short"

NoWorse(verdict) ==
  verdict.action = decision.verdict.action /\ verdict.confidence >= decision.verdict.confidence

\* If an entry is taken, it is also taken when one more strategy joins it or an
\* opponent changes sides, with no less confidence; and when a filter falls
\* silent, with the same confidence: filters only refuse, and a vote is only
\* ever worth something for its own side.
SupportNeverHurts ==
  decision.verdict.reason = "entry" =>
    \A n \in {m \in DOMAIN decision.votes : Enabled(decision.votes[m])} :
      IF Directional(decision.votes[n])
        THEN NoWorse(Redecided([decision.votes EXCEPT ![n] = Speaking(@, TakenSide)]))
        ELSE Redecided([decision.votes EXCEPT ![n] = Silenced(@)]) = decision.verdict

(***************************************************************************)
(* The market seen in a mirror: prices turned over at Pivot, and every     *)
(* reading that has a side turned with them.                               *)
(***************************************************************************)
Pivot == 100
Mirrored(p) == IF Has(p) THEN 2 * Pivot - p ELSE p
Turned(x) == IF Has(x) THEN -x ELSE x
Turned100(x) == IF Has(x) THEN 100 - x ELSE x

FlippedCandle(x) ==
  [x EXCEPT !.o = Mirrored(x.o), !.h = Mirrored(x.l), !.l = Mirrored(x.h), !.c = Mirrored(x.c),
            !.osc = Turned(x.osc)]
FlippedSeries(candles) == [i \in DOMAIN candles |-> FlippedCandle(candles[i])]

FlippedReadings(ind) ==
  [reading \in DOMAIN ind |->
     CASE reading = "plus" -> ind.minus
       [] reading = "minus" -> ind.plus
       [] reading = "fromHigh" -> Turned(ind.fromLow)
       [] reading = "fromLow" -> Turned(ind.fromHigh)
       [] reading \in {"rsi", "stochK", "mfi", "percentB"} -> Turned100(ind[reading])
       [] reading = "anchor" -> Mirrored(ind.anchor)
       [] reading \in {"adx", "atr", "atrPct", "atrPercentile", "bbWidth", "relativeVolume"} -> ind[reading]
       [] OTHER -> Turned(ind[reading])]

Opposite(direction) ==
  CASE direction = "bullish" -> "bearish" [] direction = "bearish" -> "bullish" [] OTHER -> "neutral"

FlippedLevels(levels) ==
  [n \in DOMAIN levels |->
     [levels[n] EXCEPT !.price = Mirrored(@), !.type = IF @ = "support" THEN "resistance" ELSE "support"]]

FlippedFrame(a) ==
  [a EXCEPT !.net = -@, !.bias = Opposite(@), !.levels = FlippedLevels(@),
            !.vsSlow = Turned(@), !.vsFast = Turned(@)]

FlippedOutlook(seen) ==
  [seen EXCEPT
     !.ind = FlippedReadings(seen.ind),
     !.others = [tf \in DOMAIN @ |-> FlippedFrame(@[tf])],
     !.levels = FlippedLevels(@),
     !.market = [@ EXCEPT !.distance = Turned(@), !.slope = Turned(@)],
     !.rank = [@ EXCEPT !.percent = 100 - @]]

Twins ==
  {<<"dragonfly_doji", "gravestone_doji">>, <<"bullish_engulfing", "bearish_engulfing">>,
   <<"bullish_harami", "bearish_harami">>, <<"piercing_line", "dark_cloud_cover">>,
   <<"morning_star", "evening_star">>, <<"morning_doji_star", "evening_doji_star">>,
   <<"abandoned_baby_bullish", "abandoned_baby_bearish">>,
   <<"three_white_soldiers", "three_black_crows">>, <<"tweezer_bottom", "tweezer_top">>,
   <<"three_inside_up", "three_inside_down">>, <<"three_outside_up", "three_outside_down">>,
   <<"belt_hold_bullish", "belt_hold_bearish">>, <<"kicking_bullish", "kicking_bearish">>,
   <<"separating_lines_bullish", "separating_lines_bearish">>,
   <<"counterattack_bullish", "counterattack_bearish">>, <<"tower_bottom", "tower_top">>}
OwnTwins == {"doji", "spinning_top", "marubozu", "harami_cross"}
Paired == OwnTwins \cup {t[1] : t \in Twins} \cup {t[2] : t \in Twins}

TwinOf(name) ==
  IF name \in OwnTwins THEN name
  ELSE (CHOOSE t \in Twins : name \in {t[1], t[2]})[IF \E t \in Twins : t[1] = name THEN 2 ELSE 1]
Candles(candles) == {f \in DetectCandlestick(candles, 5) : f.name \in Paired}

\* The rules that are meant for one side only, and the one whose trailing band
\* starts on the long side.
OneSided == {"regime_momentum", "capitulation_long", "bear_rally_fade", "market_gate", "supertrend"}

\* No oddity of the code is in play: only formations that have a twin,
\* the lines of an indicator not on one another, no two swings of a kind at the
\* same price, where the later one counts as the lower, and not both last swings
\* broken within ten candles, where the break upwards hides the other.
Balanced ==
  /\ strategies.sides = "both"
  /\ \A n \in DOMAIN decision.votes : Enabled(decision.votes[n]) => decision.votes[n].id \notin OneSided
  /\ \A f \in DetectCandlestick(series, 5) \cup DetectCandlestick(FlippedSeries(series), 5) :
       f.name \in Paired
  /\ \A s, t \in ToSet(Swings(series)) : s.high = t.high /\ s.price = t.price => s = t
  /\ Quantify(ToSet(Analyze(series, DefaultDepth).events), LAMBDA e : e.age <= 10) <= 1
  /\ Has(outlook.ind.macd) /\ Has(outlook.ind.signal) => outlook.ind.macd # outlook.ind.signal
  /\ Has(outlook.ind.plus) /\ Has(outlook.ind.minus) => outlook.ind.plus # outlook.ind.minus

OtherAction(action) ==
  CASE action = "OPEN_LONG" -> "OPEN_SHORT" [] action = "OPEN_SHORT" -> "OPEN_LONG" [] OTHER -> action

\* The analysis has no side of its own.  On the chart turned upside down the
\* catalog finds the twin of every formation that has one, at the same candle
\* and as strong; and where none of its deliberate oddities is in play, the
\* whole way from the candles to the decision ends with the opposite side, the
\* same confidence and the same reason.
MirrorFair ==
  /\ Candles(FlippedSeries(series)) =
       {[f EXCEPT !.name = TwinOf(@), !.direction = Opposite(@)] : f \in Candles(series)}
  /\ Balanced =>
       DecisionOn(FlippedSeries(series), FlippedOutlook(outlook), strategies).verdict
         = [decision.verdict EXCEPT !.action = OtherAction(@)]
=============================================================================
