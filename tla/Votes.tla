-------------------------------- MODULE Votes --------------------------------
(***************************************************************************)
(* How strategies.Evaluate folds the enabled strategies into one decision. *)
(* An item of the policy is                                                *)
(*   [id, kind, style, enabled, weight, veto, says, strength]              *)
(* where says and strength are what the strategy makes of the market: a    *)
(* directional one says "long", "short" or "none", a filter which side it  *)
(* blocks, "long", "short", "both" or "none".  Weights, strengths and      *)
(* scores are thousandths.  The policies themselves are below.             *)
(***************************************************************************)
EXTENDS Integers, SequencesExt, FiniteSetsExt

Directional(item) == item.kind = "directional"
Enabled(item) == item.enabled /\ item.weight # 0
Size(x) == IF x < 0 THEN -x ELSE x
Times(x, y) == LET z == (Size(x) * Size(y) + 500) \div 1000 IN IF (x < 0) = (y < 0) THEN z ELSE -z

(***************************************************************************)
(* The regime: a trend is an argument for those who follow it, a range for *)
(* those who fade it; a clear ADX overrides the label.                     *)
(***************************************************************************)
Trend(regime) ==
  IF regime.adx >= 25 THEN "trending"
  ELSE IF regime.adx >= 0 /\ regime.adx < 18 THEN "ranging"
  ELSE IF regime.label \in {"strong_uptrend", "strong_downtrend", "breakout"} THEN "trending"
  ELSE IF regime.label \in {"range", "compression"} THEN "ranging"
  ELSE "neither"

\* adx is -1 when it could not be computed.
Multiplier(item, regime, adaptive) ==
  IF ~adaptive \/ item.style = "neutral" \/ Trend(regime) = "neither" THEN 1000
  ELSE IF (item.style = "trend") = (Trend(regime) = "trending") THEN 1150
  ELSE 850

(***************************************************************************)
(* The two sides.                                                          *)
(***************************************************************************)
Weighted(item, regime, adaptive) == Times(item.weight, Multiplier(item, regime, adaptive))

\* A negative weight makes a strategy vote for the other side.
BallotUnsigned(item, regime, adaptive) ==
  Size(Times(Weighted(item, regime, adaptive), item.strength))
    * IF item.says = "short" THEN -1 ELSE 1
Ballot(item, regime, adaptive) ==
  IF item.says = "none" \/ item.strength <= 0 THEN 0
  ELSE Times(Weighted(item, regime, adaptive), item.strength)
         * IF item.says = "short" THEN -1 ELSE 1

AtMost(x, bound) == IF x < bound THEN x ELSE bound
AtLeast(x, bound) == IF x > bound THEN x ELSE bound
Total(amounts) == MapThenSumSet(LAMBDA n : amounts[n], DOMAIN amounts)

\* What an item is worth for a side, and at most.
Support(item, side, regime, adaptive) ==
  LET ballot == Ballot(item, regime, adaptive) IN
  IF Enabled(item) /\ Directional(item) THEN AtLeast(IF side = "long" THEN ballot ELSE -ballot, 0) ELSE 0
Voice(item, regime, adaptive) ==
  IF Enabled(item) /\ Directional(item) THEN Size(Weighted(item, regime, adaptive)) ELSE 0

Arguing(item) == Enabled(item) /\ ~Directional(item) /\ item.says # "none" /\ item.strength > 0
Applies(filter, side) == filter.says \in {"both", side}
Blocking(item, side) ==
  IF Arguing(item) /\ Applies(item, side) THEN Times(Size(item.weight), item.strength) ELSE 0

Allows(sides, side) == sides \in {"both", side}

(***************************************************************************)
(* Confidence: how one-sided the vote was and how much of the policy spoke *)
(* at all, multiplied.                                                     *)
(***************************************************************************)
ConfidenceOf(winning, losing, total) ==
  IF winning <= 0 THEN 50
  ELSE LET agreement == (1000 * (winning - losing)) \div (winning + losing)
           coverage  == IF total > 0 THEN AtMost((2000 * winning) \div total, 1000) ELSE 0
       IN (50000000 + 45 * agreement * coverage + 500000) \div 1000000

(***************************************************************************)
(* Decide is the fold of Evaluate.                                         *)
(***************************************************************************)
No(reason) == [action |-> "NO_ACTION", confidence |-> 0, reason |-> reason]

Tally(items, regime, adaptive) ==
  [long  |-> Total([n \in DOMAIN items |-> Support(items[n], "long", regime, adaptive)]),
   short |-> Total([n \in DOMAIN items |-> Support(items[n], "short", regime, adaptive)]),
   total |-> Total([n \in DOMAIN items |-> Voice(items[n], regime, adaptive)])]

Concluding(policy, side, winning, losing, total) ==
  LET net     == winning - losing
      filters == {f \in ToSet(policy.items) : Arguing(f)}
      against == Total([n \in DOMAIN policy.items |-> Blocking(policy.items[n], side)])
      vetoed  == \E f \in filters : f.veto /\ Applies(f, side)
  IN IF total = 0 /\ filters = {} THEN No("no_strategies")
     ELSE IF net = 0 THEN No("no_direction")
     ELSE IF ~Allows(policy.sides, side) THEN No("side_disabled")
     ELSE IF vetoed THEN No("vetoed")
     ELSE IF net < policy.minSignal THEN No("below_min_signal")
     ELSE IF net <= against THEN No("blocked")
     ELSE [action |-> IF side = "long" THEN "OPEN_LONG" ELSE "OPEN_SHORT", reason |-> "entry",
           confidence |-> ConfidenceOf(winning, losing, total)]

Counted(policy, tally) ==
  IF tally.long < tally.short
    THEN Concluding(policy, "short", tally.short, tally.long, tally.total)
    ELSE Concluding(policy, "long", tally.long, tally.short, tally.total)
Decide(policy, regime) == Counted(policy, Tally(policy.items, regime, policy.adaptive))

(***************************************************************************)
(* The catalog, in its order, and the policies built from it.              *)
(***************************************************************************)
Strategy(id, style, weight, enabled) ==
  [id |-> id, kind |-> "directional", style |-> style, weight |-> weight, enabled |-> enabled,
   veto |-> FALSE]
Filter(id, weight, enabled, veto) ==
  [id |-> id, kind |-> "filter", style |-> "neutral", weight |-> weight, enabled |-> enabled,
   veto |-> veto]

Catalog ==
  <<Strategy("macd", "trend", 1000, TRUE), Strategy("market_structure", "trend", 900, TRUE),
    Strategy("momentum", "trend", 800, TRUE), Strategy("ema_trend", "trend", 800, TRUE),
    Strategy("rsi_reversion", "reversion", 800, TRUE), Strategy("adx_di", "trend", 700, TRUE),
    Strategy("composite_score", "trend", 600, TRUE), Strategy("vwap", "trend", 600, TRUE),
    Strategy("chart_patterns", "neutral", 600, TRUE), Strategy("candle_patterns", "neutral", 600, TRUE),
    Strategy("breakout", "trend", 500, TRUE), Strategy("volume_confirmation", "neutral", 300, TRUE),
    Strategy("divergences", "reversion", 300, TRUE), Strategy("rsi2_reversion", "reversion", 1000, TRUE),
    Strategy("higher_timeframe", "trend", 900, FALSE), Strategy("donchian_breakout", "trend", 1000, FALSE),
    Strategy("supertrend", "trend", 1000, FALSE), Strategy("regime_momentum", "trend", 1000, FALSE),
    Strategy("capitulation_long", "reversion", 1000, FALSE),
    Strategy("bear_rally_fade", "reversion", 1000, FALSE),
    Filter("critical_news", 2000, TRUE, TRUE), Filter("cost_floor", 2000, TRUE, TRUE),
    Filter("extension_guard", 1200, FALSE, FALSE), Filter("trend_gate", 1500, TRUE, TRUE),
    Filter("market_gate", 2000, TRUE, TRUE), Filter("relative_strength_gate", 1500, FALSE, FALSE),
    Filter("timeframe_conflict", 1400, TRUE, FALSE), Filter("opposing_level", 1000, TRUE, FALSE),
    Filter("volatility_guard", 1000, TRUE, FALSE), Filter("regime_guard", 1000, FALSE, FALSE)>>

\* A preset enables the strategies it weighs and leaves the filters alone.
PresetWeights(minSignal, weights) ==
  LET Weighed(item) == IF item.id \in DOMAIN weights
                         THEN [item EXCEPT !.enabled = TRUE, !.weight = weights[item.id]]
                         ELSE [item EXCEPT !.enabled = FALSE, !.weight = 0]
  IN [minSignal |-> minSignal, sides |-> "long", adaptive |-> FALSE,
      items |-> [n \in DOMAIN Catalog |->
                   IF Directional(Catalog[n]) THEN Weighed(Catalog[n]) ELSE Catalog[n]]]

RegimeMomentumPair == PresetWeights(1400, [regime_momentum |-> 1500, supertrend |-> 1000])
BroadEnsemble ==
  PresetWeights(1800, [macd |-> 1000, market_structure |-> 900, momentum |-> 800, ema_trend |-> 800,
                       rsi_reversion |-> 800, adx_di |-> 700, composite_score |-> 600, vwap |-> 600,
                       chart_patterns |-> 600, candle_patterns |-> 600, breakout |-> 500,
                       volume_confirmation |-> 300, divergences |-> 300, rsi2_reversion |-> 1000])
CoreTrio == PresetWeights(1600, [macd |-> 1000, vwap |-> 1000, supertrend |-> 1000])
MomentumSolo == PresetWeights(300, [regime_momentum |-> 1000])

(***************************************************************************)
(* Normalize, which Evaluate applies first: an item the catalog does not   *)
(* know is dropped, one that is missing gets its default, and what makes   *)
(* no sense is replaced.                                                   *)
(***************************************************************************)
Repaired(item, default) ==
  [default EXCEPT !.enabled = item.enabled,
                  !.weight = IF Size(item.weight) <= 100000 THEN item.weight ELSE default.weight,
                  !.veto = item.veto /\ ~Directional(default)]

Normalize(policy) ==
  LET Stored(id) == SelectLastInSeq(policy.items, LAMBDA item : item.id = id)
  IN [policy EXCEPT
        !.minSignal = IF @ <= 0 \/ @ > 100000 THEN 1800 ELSE @,
        !.sides = IF @ \in {"both", "long", "short"} THEN @ ELSE "long",
        !.items = [n \in DOMAIN Catalog |->
                     IF Stored(Catalog[n].id) = 0 THEN Catalog[n]
                     ELSE Repaired(policy.items[Stored(Catalog[n].id)], Catalog[n])]]
=============================================================================
