------------------------------- MODULE Grading -------------------------------
(***************************************************************************)
(* How the market outcome of a recommendation is read off the candles      *)
(* stored since (recommendations/outcomes.go).  A bar is                   *)
(* [from, to, low, high, close], and a series is the set of those that are *)
(* stored, which the queries return in the order of from.  Time 0 is the   *)
(* start of the first whole fine bar after the recommendation.  A          *)
(* recommendation is [action, price, profits, stops], the levels in the    *)
(* order they are listed.                                                  *)
(***************************************************************************)
EXTENDS Integers, FiniteSetsExt

CONSTANTS
  Day,       \* OutcomeHorizon
  PerCoarse, \* fine bars in a coarse one
  Offsets,   \* the moments a price is recorded at
  Missing    \* no price, no level

ASSUME SomeFineBars == PerCoarse \in Nat \ {0}

(***************************************************************************)
(* The bars of a market, given by what happened in each fine one.  Both    *)
(* series are cut by open time, so the coarse one begins with the first    *)
(* coarse bar that opens after the recommendation, early fine bars later.  *)
(***************************************************************************)
FineBar(bars, i) ==
  [from |-> i - 1, to |-> i, low |-> bars[i].low, high |-> bars[i].high, close |-> bars[i].close]

Minutes(early, j) == (early + (j - 1) * PerCoarse + 1)..(early + j * PerCoarse)
CoarseBar(bars, early, j) ==
  [from |-> early + (j - 1) * PerCoarse, to |-> early + j * PerCoarse,
   low |-> Min({bars[i].low : i \in Minutes(early, j)}),
   high |-> Max({bars[i].high : i \in Minutes(early, j)}),
   close |-> bars[early + j * PerCoarse].close]

Earliest(series) == CHOOSE b \in series : \A o \in series : b.from <= o.from

Directed(rec) == rec.action \in {"OPEN_LONG", "OPEN_SHORT"}
Sign(rec) == IF rec.action = "OPEN_SHORT" THEN -1 ELSE 1

\* The first listed level the bar reached; a long takes profit above.
FirstTouched(bar, prices, above) ==
  LET touched == {i \in DOMAIN prices : IF above THEN bar.high >= prices[i] ELSE bar.low <= prices[i]}
  IN IF touched = {} THEN Missing ELSE Min(touched)

ProfitOf(bar, rec) == FirstTouched(bar, rec.profits, Sign(rec) = 1)
StopOf(bar, rec)   == FirstTouched(bar, rec.stops, Sign(rec) = -1)
Touches(bar, rec)  == ProfitOf(bar, rec) # Missing \/ StopOf(bar, rec) # Missing
Both(bar, rec)     == ProfitOf(bar, rec) # Missing /\ StopOf(bar, rec) # Missing

Hit(bar, rec, ambiguous) ==
  [tp |-> ProfitOf(bar, rec), sl |-> StopOf(bar, rec), ambiguous |-> ambiguous]
NoHit == [tp |-> Missing, sl |-> Missing, ambiguous |-> FALSE]

Touching(series, rec) == {b \in series : Touches(b, rec)}

\* A bar that touched both sides is replayed on what is stored of the finer
\* series, which may not be all of it.
DetectHitsStopsFirst(series, fine, rec) ==
  IF Touching(series, rec) = {} THEN NoHit ELSE Hit(Earliest(Touching(series, rec)), rec, FALSE)
DetectHits(series, fine, rec) ==
  LET bar == Earliest(Touching(series, rec))
      inside == Touching({b \in fine : bar.from <= b.from /\ b.from < bar.to}, rec)
  IN IF Touching(series, rec) = {} THEN NoHit
     ELSE IF ~Both(bar, rec) THEN Hit(bar, rec, FALSE)
     ELSE IF inside # {} /\ ~Both(Earliest(inside), rec) THEN Hit(Earliest(inside), rec, FALSE)
     ELSE Hit(bar, rec, TRUE)

PriceAfter(series, t) ==
  LET covering == {b \in series : b.to >= t} IN
  IF covering = {} THEN Missing ELSE Earliest(covering).close

\* The largest moves with and against the direction.
Favourable(series, rec) ==
  Max({0} \cup UNION {{Sign(rec) * (b.high - rec.price), Sign(rec) * (b.low - rec.price)} : b \in series})
Adverse(series, rec) ==
  Min({0} \cup UNION {{Sign(rec) * (b.high - rec.price), Sign(rec) * (b.low - rec.price)} : b \in series})

\* Where neither level was reached, the price a day later decides.
Reading(rec, after) ==
  IF after = Missing THEN "none"
  ELSE LET change == Sign(rec) * (after - rec.price) IN
       IF change > 0 THEN "win" ELSE IF change < 0 THEN "loss" ELSE "breakeven"

(***************************************************************************)
(* evaluateOne: the outcome of rec as seen at a moment, or Missing when    *)
(* there is nothing to say yet.  The finer series is used if it has more   *)
(* bars.                                                                   *)
(***************************************************************************)
EvaluatedOn(series, rec, hit, age) ==
  LET late   == age > Day
      base   == [status |-> "pending", final |-> FALSE, result |-> "none",
                 after |-> [t \in Offsets |-> PriceAfter(series, t)],
                 tp |-> Missing, sl |-> Missing,
                 mfe |-> Favourable(series, rec), mae |-> Adverse(series, rec)]
      graded == [base EXCEPT !.tp = hit.tp, !.sl = hit.sl]
  IN IF series = {}
       THEN IF late THEN [base EXCEPT !.status = "neither", !.final = TRUE] ELSE Missing
     ELSE IF ~Directed(rec) THEN [base EXCEPT !.status = "no_trade", !.final = late]
     ELSE IF hit.ambiguous THEN [graded EXCEPT !.status = "ambiguous", !.final = TRUE]
     ELSE IF hit.sl # Missing
       THEN [graded EXCEPT !.status = "sl_hit", !.final = TRUE, !.result = "loss"]
     ELSE IF hit.tp # Missing
       THEN [graded EXCEPT !.status = "tp_hit", !.final = TRUE, !.result = "win"]
     ELSE IF late
       THEN [graded EXCEPT !.status = "neither", !.final = TRUE,
                           !.result = Reading(rec, graded.after[Day])]
     ELSE graded
Chosen(fine, coarse) == IF Cardinality(fine) > Cardinality(coarse) THEN fine ELSE coarse
EvaluatedBy(series, fine, rec, age) == EvaluatedOn(series, rec, DetectHits(series, fine, rec), age)
Evaluated(rec, fine, coarse, age) == EvaluatedBy(Chosen(fine, coarse), fine, rec, age)

\* UpsertOutcome, with nothing to store without an outcome: a price once
\* recorded is replaced, never erased.
Merged(old, new) ==
  IF new = Missing THEN old
  ELSE IF old = Missing THEN new
  ELSE [new EXCEPT !.after = [t \in Offsets |-> IF @[t] = Missing THEN old.after[t] ELSE @[t]]]
=============================================================================
