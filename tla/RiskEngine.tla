------------------------------ MODULE RiskEngine ------------------------------
(***************************************************************************)
(* risk.Engine.Evaluate: from a validated proposal and the situation of    *)
(* the market to leverage, size and risk level.  The policy may be swapped *)
(* by SetConfig while an evaluation is under way, and every access reads   *)
(* it anew: P[i] is the policy the i-th access sees.                       *)
(*                                                                         *)
(* A leverage under computation is a number of Units, volatility and       *)
(* distances hundredths of a percent, allocations and risk hundredths of a *)
(* percent of capital.                                                     *)
(***************************************************************************)
EXTENDS Integers, FiniteSetsExt

CONSTANT Unknown     \* a reading that is missing

Unit == 100000
Reads == 28
MaxLossOnMarginPct == 35
MinRiskSizedAllocation == 50

Lower(x, y)  == IF x < y THEN x ELSE y
Higher(x, y) == IF x < y THEN y ELSE x
Share(x, percent) == (x * percent) \div 100
Known(x) == x # Unknown
Gap(p, q) == IF p < q THEN q - p ELSE p - q

(***************************************************************************)
(* The stop farthest from the price; distances are kept as price           *)
(* differences, so that they stay exact.                                   *)
(***************************************************************************)
FarthestStop(in) == IF in.stops = {} THEN 0 ELSE Max({Gap(s, in.price) : s \in in.stops})
HasStop(in) == in.price > 0 /\ FarthestStop(in) > 0

StopCapNearest(in) == (MaxLossOnMarginPct * (Unit \div 100) * in.price)
                        \div Min({Gap(s, in.price) : s \in in.stops})
StopCap(in) == (MaxLossOnMarginPct * (Unit \div 100) * in.price) \div FarthestStop(in)

(***************************************************************************)
(* The caps and factors of Evaluate, in its order.  Each takes the maximum *)
(* so far, x.                                                              *)
(***************************************************************************)
FreshCritical(in, p) == \E age \in in.criticalNews : age <= p.criticalAge

NewsLeverageCap(in, P) ==
  IF ~FreshCritical(in, P[2]) THEN P[3].max
  ELSE IF in.highVolTag \/ (Known(in.atr) /\ in.atr >= P[3].highAtr)
    THEN P[4].criticalHighVolMax
    ELSE P[4].criticalMax

AfterNews(in, P) == Lower(P[1].max, NewsLeverageCap(in, P)) * Unit

AfterStop(x, in, P) == Lower(x, IF HasStop(in) THEN StopCap(in) ELSE 2 * P[5].min * Unit)

Extreme(in, P)  == Known(in.atr) /\ in.atr >= P[6].extremeAtr
Elevated(in, P) == Known(in.atr) /\ ~Extreme(in, P) /\ in.atr >= P[7].highAtr
AfterAtr(x, in, P) ==
  IF ~Known(in.atr) THEN Share(x, 60)
  ELSE IF Extreme(in, P) THEN Lower(x, Higher(P[7].min, 8) * Unit)
  ELSE IF Elevated(in, P) THEN Lower(x, Higher(P[8].min, 15) * Unit)
  ELSE x

Stretched(in) == Known(in.percentile) /\ in.percentile >= 85

RegimeShare(in) == CASE in.regime = "uncertain" -> 60
                     [] in.regime = "range"     -> 80
                     [] in.regime = "breakout"  -> 90
                     [] OTHER                   -> 100

AfterRegime(x, in) ==
  LET stretched == IF Stretched(in) THEN Share(x, 80) ELSE x
      regime    == Share(stretched, RegimeShare(in))
  IN IF in.highVolTag THEN Share(regime, 85) ELSE regime

Unsure(in, P) == in.confidence < P[9].minConfidence
AfterConfidence(x, in, P) ==
  IF Unsure(in, P) THEN Lower(x, P[10].min * Unit)
  ELSE IF in.confidence < 70 THEN Lower(x, 20 * Unit)
  ELSE x

\* alignment is the absolute score in hundredths.
Disagree(in) == in.alignment < 20
Opposes(level, action, price) ==
  IF action = "OPEN_LONG" THEN level.type = "resistance" /\ level.price > price
  ELSE level.type = "support" /\ level.price < price
InTheWay(in) ==
  /\ in.price > 0
  /\ \E l \in in.levels : l.strength >= 400 /\ Opposes(l, in.action, in.price) /\ l.distance <= 100

AfterMarket(x, in) ==
  LET agreed == IF Disagree(in) THEN Share(x, 80) ELSE x
      free   == IF InTheWay(in) THEN Share(agreed, 85) ELSE agreed
  IN IF in.dataOK THEN free ELSE Share(free, 70)

RiskMaximum(x, P) ==
  LET floor   == x \div Unit
      atLeast == IF floor < P[11].min THEN P[12].min ELSE floor
  IN IF atLeast > P[13].max THEN P[14].max ELSE atLeast

Asked(in, P) == IF in.leverage <= 0 THEN P[15].min ELSE in.leverage

Recommended(in, riskMax, P) ==
  LET allowed == Lower(Asked(in, P), riskMax) IN
  IF allowed < P[16].min THEN P[17].min ELSE allowed

(***************************************************************************)
(* The size, in thousandths of the hundredths it is rounded to.            *)
(***************************************************************************)
Fine == 1000
Round2(x) == ((x + Fine \div 2) \div Fine) * Fine
RoundedShare(x, percent) == Round2(Share(x, percent))

RiskSized(in, lever, P) == (P[18].riskPerTrade * Fine * in.price) \div (lever * FarthestStop(in))

Sized(in, lever, P) ==
  IF P[18].riskPerTrade > 0 /\ HasStop(in) THEN RiskSized(in, lever, P) ELSE in.allocation * Fine

Allocation(in, lever, riskMax, P) ==
  LET capped  == Lower(Sized(in, lever, P), P[19].maxAllocation * Fine)
      sure    == IF in.confidence < 65 THEN RoundedShare(capped, 70) ELSE capped
      allowed == IF riskMax <= P[20].min THEN RoundedShare(sure, 80) ELSE sure
      reduced == IF in.dataOK THEN allowed ELSE RoundedShare(allowed, 70)
      floored == IF P[21].riskPerTrade > 0 THEN Higher(reduced, MinRiskSizedAllocation * Fine)
                 ELSE reduced
  IN IF in.allocation <= 0 THEN 0 ELSE Round2(floored) \div Fine

(***************************************************************************)
(* The label, from a score in thousandths.  The number of notes counts.    *)
(***************************************************************************)
HowMany(truths) == Cardinality({i \in DOMAIN truths : truths[i]})

Notes(in, lever, riskMax, P) ==
  HowMany(<<NewsLeverageCap(in, P) < P[1].max,
            HasStop(in) => StopCap(in) < AfterNews(in, P),
            ~Known(in.atr) \/ Extreme(in, P) \/ Elevated(in, P),
            Stretched(in), RegimeShare(in) < 100, in.highVolTag,
            Unsure(in, P) \/ in.confidence < 70,
            Disagree(in), InTheWay(in), ~in.dataOK,
            Asked(in, P) > riskMax>>)
  + IF in.allocation <= 0 THEN 0
    ELSE HowMany(<<P[18].riskPerTrade > 0 /\ HasStop(in),
                   Sized(in, lever, P) > P[19].maxAllocation * Fine,
                   in.confidence < 65, riskMax <= P[20].min>>)

Cut(riskMax, P) ==
  IF P[24].max <= P[25].min THEN 0
  ELSE Higher(0, 1500 - (1500 * (riskMax - P[26].min)) \div (P[27].max - P[28].min))

Score(in, lever, riskMax, P) ==
  (IF Known(in.atr) THEN Lower(2000, (1000 * in.atr) \div P[22].highAtr) ELSE 1000)
  + (IF Stretched(in) THEN 1000 + (1000 * (in.percentile - 85)) \div 30 ELSE 0)
  + (2000 * lever) \div P[23].max
  + Cut(riskMax, P)
  + (IF Notes(in, lever, riskMax, P) >= 4 THEN 500 ELSE 0)
  + (IF in.confidence < 60 THEN 1000 ELSE 0)
  + (IF in.dataOK THEN 0 ELSE 500)
  + in.volatilityRisk

RiskLevel(score) ==
  IF score >= 5000 THEN "extreme" ELSE IF score >= 3400 THEN "high"
  ELSE IF score >= 1800 THEN "medium" ELSE "low"

\* What carries no new exposure is not sized.
Evaluate(in, P) ==
  LET stop    == AfterStop(AfterNews(in, P), in, P)
      regime  == AfterRegime(AfterAtr(stop, in, P), in)
      riskMax == RiskMaximum(AfterMarket(AfterConfidence(regime, in, P), in), P)
      lever   == Recommended(in, riskMax, P)
  IN IF in.action \notin {"OPEN_LONG", "OPEN_SHORT"}
       THEN [riskMaximum |-> 0, leverage |-> 0, allocation |-> 0, risk |-> in.risk]
       ELSE [riskMaximum |-> riskMax, leverage |-> lever,
             allocation |-> Allocation(in, lever, riskMax, P),
             risk |-> RiskLevel(Score(in, lever, riskMax, P))]
=============================================================================
