-------------------------------- MODULE Advice --------------------------------
(***************************************************************************)
(* The way of one recommendation, after the deterministic analysis:        *)
(* recommendations.Service.Analyze asks the model, llm.Validate checks the *)
(* answer, risk.Engine sizes what is left, the result is stored, and       *)
(* EvaluateOutcomes grades it while candles come in.  The user may change  *)
(* the risk policy at any moment, also between two accesses of one         *)
(* evaluation.  What a stage no longer needs is dropped.                   *)
(***************************************************************************)
EXTENDS Answers, RiskEngine, Grading

CONSTANTS
  Replies,        \* what the model may answer
  Situations,     \* what the risk engine reads besides the snapshot's analyses
  Price,          \* snapshot.Price
  Policies,       \* the risk settings the user may choose
  OpenPositions, ShownClusters,
  Followed(_, _), \* bound: the proposals that are taken further, by plan and situation
  Watched(_),     \* bound: how many fine bars a recommendation is followed
  Bars            \* the shapes of a fine bar: [low, high, close]

\* What settings.validate accepts (settings/service.go:340-357).
ASSUME PoliciesAreValid == \A p \in Policies :
         /\ {p.min, p.max, p.criticalMax, p.criticalHighVolMax} \subseteq 1..125
         /\ p.min <= p.criticalHighVolMax /\ p.criticalHighVolMax <= p.criticalMax
         /\ p.criticalMax <= p.max
         /\ {p.riskPerTrade, p.maxAllocation} \subseteq Nat
ASSUME RepliesAreDecoded == \A a \in Replies : Decoded(a)
ASSUME SituationsAreRecords == \A s \in Situations :
         {"action", "confidence", "leverage", "allocation", "risk", "price", "stops"} \subseteq DOMAIN s
ASSUME BarsArePrices == Bars \subseteq [low: Int, high: Int, close: Int]
ASSUME PositivePrice == Price \in Nat \ {0}
ASSUME MissingIsNoNumber == Missing \notin Int

VARIABLES
  stage,     \* "idle", "answered", "proposed", "assessed", "stored"
  policy,    \* the risk settings, from the moment they are first read
  work,      \* what the stage works on
  path,      \* the fine bars of the market since the recommendation
  early,     \* how many of them are over when the coarse series begins
  have,      \* the numbers of the bars stored of each series: [fine, coarse]
  read,      \* EvaluateOutcomes between its queries: [fine, age] or Missing
  outcome,   \* recommendation_outcomes
  evidence   \* the fine bars read, and those inside the bars used: [fine, used]

adviceVars == <<stage, policy, work, path, early, have, read, outcome, evidence>>
market == <<path, have, read, outcome, evidence>>

AdviceInit ==
  /\ stage = "idle"
  /\ policy = Missing
  /\ work = Missing
  /\ path = <<>> /\ early = 0 /\ have = [fine |-> {}, coarse |-> {}]
  /\ read = Missing /\ outcome = Missing
  /\ evidence = [fine |-> {}, used |-> {}]

(***************************************************************************)
(* The inference.                                                          *)
(***************************************************************************)
\* The bounds the answer is checked against are read before the inference.
Facts(situation, current) ==
  [price |-> Price, minLeverage |-> current.min,
   maxLeverage |-> NewsLeverageCap(situation, [i \in 1..Reads |-> current]),
   positions |-> OpenPositions, clusters |-> ShownClusters]

AskModel(situation, answer, current) ==
  /\ stage = "idle"
  /\ stage' = "answered"
  /\ policy' = current
  /\ work' = [answer |-> answer, facts |-> Facts(situation, current), seen |-> situation]
  /\ UNCHANGED <<early, market>>

Validate ==
  /\ stage = "answered"
  /\ IF Accepted(work.answer, work.facts)
       THEN /\ stage' = "proposed"
            /\ work' = [plan |-> Validated(work.answer, work.facts), seen |-> work.seen]
       ELSE stage' = "refused" /\ work' = Missing
  /\ UNCHANGED <<policy, early, market>>

(***************************************************************************)
(* buildRecommendation.                                                    *)
(***************************************************************************)
Proposal(plan, situation) ==
  [situation EXCEPT !.action = plan.action, !.confidence = plan.confidence,
                    !.leverage = plan.leverage, !.allocation = plan.allocation,
                    !.risk = plan.risk, !.price = Price,
                    !.stops = {plan.stops[i].price : i \in DOMAIN plan.stops}]

\* Up to the cut an evaluation sees the policy of its start, then the one
\* SetConfig has put there.
Seen(before, after, cut) == [i \in 1..Reads |-> IF i <= cut THEN before ELSE after]

\* The situation is that of the snapshot the model was shown.
Assess(after, cut) ==
  /\ stage = "proposed"
  /\ Followed(work.plan, work.seen)
  /\ cut = Reads <=> after = policy
  /\ stage' = "assessed"
  /\ policy' = after
  /\ LET in == Proposal(work.plan, work.seen) IN
     work' = [in |-> in, given |-> Evaluate(in, Seen(policy, after, cut)),
              under |-> {policy, after}, plan |-> work.plan]
  /\ UNCHANGED <<early, market>>

\* The moment of creation falls anywhere within a coarse bar.  The policy is
\* dropped: nothing reads it any more.
Insert(fineBefore) ==
  /\ stage = "assessed"
  /\ stage' = "stored"
  /\ work' = [action |-> work.plan.action, price |-> Price,
              profits |-> [i \in DOMAIN work.plan.profits |-> work.plan.profits[i].price],
              stops |-> [i \in DOMAIN work.plan.stops |-> work.plan.stops[i].price]]
  /\ policy' = Missing
  /\ early' = fineBefore
  /\ UNCHANGED market

EditPolicy(after) ==
  /\ stage \in {"answered", "proposed"}
  /\ policy' = after
  /\ UNCHANGED <<stage, work, early, market>>

(***************************************************************************)
(* The market goes on, and the collector stores the closed candles of each *)
(* series with whatever delay, after an outage not in order, or never.     *)
(***************************************************************************)
Trade(bar) ==
  /\ stage = "stored" /\ Len(path) < Watched(work)
  /\ path' = Append(path, bar)
  /\ UNCHANGED <<stage, policy, work, early, have, read, outcome, evidence>>

StoreFine(i) ==
  /\ i \notin have.fine
  /\ have' = [have EXCEPT !.fine = @ \cup {i}]
  /\ UNCHANGED <<stage, policy, work, path, early, read, outcome, evidence>>

StoreCoarse(j) ==
  /\ j \notin have.coarse /\ Minutes(early, j) \subseteq DOMAIN path
  /\ have' = [have EXCEPT !.coarse = @ \cup {j}]
  /\ UNCHANGED <<stage, policy, work, path, early, read, outcome, evidence>>

FineBars(stored) == {FineBar(path, i) : i \in stored}
CoarseBars(stored, now) ==
  {CoarseBar(path, early, j) : j \in {n \in stored : early + (n - 1) * PerCoarse <= now}}

(***************************************************************************)
(* EvaluateOutcomes.  The list holds what is not final; the clock and the  *)
(* fine candles are read first, the coarse ones after that, up to the same *)
(* moment by their opening.                                                *)
(***************************************************************************)
Pending == ~(outcome # Missing /\ outcome.final)

ReadFine ==
  /\ stage = "stored" /\ read = Missing /\ Pending
  /\ read' = [fine |-> have.fine, age |-> Len(path)]
  /\ UNCHANGED <<stage, policy, work, path, early, have, outcome, evidence>>

\* The minutes that the bars of a series are made of.
Within(series) == UNION {(b.from + 1)..b.to : b \in series}

Grade ==
  /\ read # Missing
  /\ LET fine == FineBars(read.fine)
         coarse == CoarseBars(have.coarse, read.age)
     IN /\ outcome' = Merged(outcome, Evaluated(work, fine, coarse, read.age))
        /\ evidence' = [fine |-> read.fine, used |-> Within(Chosen(fine, coarse))]
  /\ read' = Missing
  /\ UNCHANGED <<stage, policy, work, path, early, have>>

AdviceStep ==
  \/ Validate
  \/ \E p \in Policies, cut \in 0..Reads : Assess(p, cut)
  \/ \E n \in 0..(PerCoarse - 1) : Insert(n)
  \/ \E p \in Policies : EditPolicy(p)
  \/ \E b \in Bars : Trade(b)
  \/ \E i \in DOMAIN path : StoreFine(i) \/ StoreCoarse(i)
  \/ ReadFine \/ Grade

(***************************************************************************)
(* Properties.                                                             *)
(***************************************************************************)
\* An accepted entry is a bracket around the far end of its entry zone, or
\* the price if it has none: every take profit on one side, every stop on the other; each list is
\* in the order the price will meet it, and the shares to close make up the
\* whole up to the rounding of each, whatever the order and the sums the
\* model gave (llm/validate.go:303-466).
InOrder(levels, above) ==
  \A i, j \in DOMAIN levels : i < j => IF above THEN levels[i].price <= levels[j].price
                                       ELSE levels[i].price >= levels[j].price
AddsUp(levels) == Away(SumOf(levels), Whole) <= 5 * Len(levels)

FarEnd(plan) ==
  LET end == IF plan.action = "OPEN_LONG" THEN plan.zone.max ELSE plan.zone.min IN
  IF end = Absent THEN Price ELSE end
PlanIsBracket ==
  (stage = "proposed" /\ work.plan.action \in Entries) =>
    LET plan == work.plan
        long == plan.action = "OPEN_LONG"
        from == FarEnd(plan)
    IN /\ plan.profits # <<>> /\ plan.stops # <<>>
       /\ \A i \in DOMAIN plan.profits : OnItsSide(plan.profits[i].price, from, long)
       /\ \A i \in DOMAIN plan.stops : OnItsSide(plan.stops[i].price, from, ~long)
       /\ InOrder(plan.profits, long) /\ InOrder(plan.stops, ~long)
       /\ AddsUp(plan.profits) /\ AddsUp(plan.stops)

\* "A stop-out may not erase the position", and it may not cost more than the
\* risk budget: whatever the model asked for and whenever the policy was
\* swapped, leverage times stop distance stays within 35 % unless the user's
\* own lower bound is higher, a fresh critical event caps the leverage
\* likewise, and the size is within the budget and the configured maximum of
\* one of the policies, up to rounding and the smallest size
\* (risk/engine.go:65-311).
Floor(ps) == Max({p.min : p \in ps})
ExposureBounded ==
  stage = "assessed" =>
    LET in == work.in
        given == work.given
        lever == given.leverage
        cost == given.allocation * lever * FarthestStop(in)
    IN IF in.action \notin Entries THEN lever = 0 /\ given.allocation = 0
       ELSE /\ lever \in Min({p.min : p \in work.under})..Max({p.max : p \in work.under})
            /\ lever > Floor(work.under) =>
                 /\ lever * FarthestStop(in) * 100 <= MaxLossOnMarginPct * in.price
                 /\ (\A p \in work.under : FreshCritical(in, p)) =>
                      lever <= Max({p.criticalMax : p \in work.under})
            /\ given.allocation > MinRiskSizedAllocation =>
                 /\ given.allocation <= Max({p.maxAllocation : p \in work.under})
                 /\ (\A p \in work.under : p.riskPerTrade > 0) =>
                      cost <= Max({p.riskPerTrade : p \in work.under}) * in.price
                                + lever * FarthestStop(in)

\* What is recorded as reached first was reached first, as far as the stored
\* candles told: a win means that some minute reached a take profit, and that
\* every earlier one that reached anything lay outside the candles used (not
\* stored, or before the first whole coarse one), or inside the same coarse
\* candle with no fine candle of its own; and that either the fine candle of
\* that minute or its whole coarse candle went one way only.  A loss likewise.
\* What is left undecided went both ways within one candle, and the earliest
\* fine candle in it that reached anything, if there is one, did so too.  With
\* "neither", no candle used reached a level (recommendations/outcomes.go:46-210).
ProfitMinutes == {k \in DOMAIN path : ProfitOf(FineBar(path, k), work) # Missing}
StopMinutes == {k \in DOMAIN path : StopOf(FineBar(path, k), work) # Missing}
HitMinutes == ProfitMinutes \cup StopMinutes
SameCandle(i) == Minutes(early, 1 + (i - 1 - early) \div PerCoarse)

ReachedFirst(i) ==
  /\ i \in evidence.used \cap HitMinutes
  /\ \A k \in evidence.used \cap HitMinutes : k < i => k \in SameCandle(i) \ evidence.fine

Won(i, mine, theirs) ==
  /\ ReachedFirst(i) /\ i \in mine
  /\ \/ i \in evidence.fine \ theirs
     \/ SameCandle(i) \subseteq evidence.used \ theirs

LeftOpen(i) ==
  LET told == SameCandle(i) \cap evidence.fine \cap HitMinutes IN
  /\ ReachedFirst(i)
  /\ SameCandle(i) \cap ProfitMinutes # {} /\ SameCandle(i) \cap StopMinutes # {}
  /\ \A k \in told : k \in ProfitMinutes \cap StopMinutes \/ \E f \in told : f < k

VerdictIsTrue ==
  (outcome # Missing /\ outcome.final /\ Directed(work)) =>
    /\ outcome.status = "tp_hit" => \E i \in DOMAIN path : Won(i, ProfitMinutes, StopMinutes)
    /\ outcome.status = "sl_hit" => \E i \in DOMAIN path : Won(i, StopMinutes, ProfitMinutes)
    /\ outcome.status = "ambiguous" => \E i \in DOMAIN path : LeftOpen(i)
    /\ outcome.status = "neither" => evidence.used \cap HitMinutes = {}

=============================================================================
