------------------------------- MODULE Answers -------------------------------
(***************************************************************************)
(* What llm.Validate makes of a parsed answer of the model: the answer is  *)
(* refused, or it becomes the plan a recommendation is built from.  Prices *)
(* are whole numbers, confidence and leverage tenths, allocations and      *)
(* shares to close thousandths of a percent; a field the model left out is *)
(* Absent.  Texts are left out, except that there is a   *)
(* summary, and so is the wording of the problems: any of them refuses the *)
(* whole answer.                                                           *)
(*                                                                         *)
(* The facts an answer is checked against are a record                     *)
(* [price, minLeverage, maxLeverage, positions, clusters].                 *)
(***************************************************************************)
EXTENDS Integers, SequencesExt, FiniteSetsExt

CONSTANT Absent

ASSUME AbsentIsNoNumber == Absent \notin Int

Whole == 100000     \* 100 %
Tolerance == 5000
MaxLevels == 6

Entries == {"OPEN_LONG", "OPEN_SHORT"}
Actions == Entries \cup {"NO_ACTION", "MANAGE_POSITION"}
RiskLevels == {"low", "medium", "high", "extreme"}

\* What the decoder makes of an answer: numbers, or nothing.
Numbers == Int \cup {Absent}
LevelLists == Seq([price: Numbers, close: Numbers])
Decoded(answer) ==
  /\ {answer.confidence, answer.allocation, answer.leverage} \subseteq Numbers
  /\ {answer.zone.min, answer.zone.max} \subseteq Numbers
  /\ {answer.profits, answer.stops} \subseteq LevelLists

Given(x) == x # Absent
Usable(p) == Given(p) /\ p > 0
Between(x, lo, hi) == Given(x) /\ lo <= x /\ x <= hi
Away(p, q) == IF p < q THEN q - p ELSE p - q
Rounded(x, unit) == (2 * x + unit) \div (2 * unit)   \* math.Round of x/unit, x >= 0

(***************************************************************************)
(* Size: confidence, allocation and leverage.                              *)
(***************************************************************************)
AllocationOK(x, entry) == IF Given(x) THEN 0 <= x /\ x <= Whole /\ (entry => x > 0) ELSE ~entry
LeverageOK(x, facts, entry) ==
  IF Given(x) THEN facts.minLeverage * 10 <= x /\ x <= facts.maxLeverage * 10 ELSE ~entry

(***************************************************************************)
(* The entry zone and the price the levels are compared with.              *)
(***************************************************************************)
ZoneOK(zone, facts) ==
  /\ \A p \in {zone.min, zone.max} : Given(p) =>
       /\ p > 0
       /\ facts.price > 0 => Away(p, facts.price) * 100 <= 15 * facts.price
  /\ Given(zone.min) /\ Given(zone.max) => zone.min <= zone.max

Reference(answer, facts) ==
  IF answer.action = "OPEN_LONG" /\ Usable(answer.zone.max) THEN answer.zone.max
  ELSE IF answer.action = "OPEN_SHORT" /\ Usable(answer.zone.min) THEN answer.zone.min
  ELSE facts.price

(***************************************************************************)
(* Take profits and stop losses.                                           *)
(***************************************************************************)
\* A long takes profit above and stops below, a short the other way round.
Above(long, profit) == long = profit
OnItsSide(price, reference, above) == IF above THEN price > reference ELSE price < reference

SumOf(levels) == FoldLeft(LAMBDA sum, l : sum + l.close, 0, levels)

LevelsOK(levels, reference, above) ==
  /\ Len(levels) \in 1..MaxLevels
  /\ \A i \in DOMAIN levels :
       /\ Usable(levels[i].price)
       /\ Between(levels[i].close, 1, Whole)
       /\ reference > 0 => OnItsSide(levels[i].price, reference, above)
  /\ Away(SumOf(levels), Whole) <= Tolerance

\* Shares that do not add up are scaled, each rounded to a hundredth.
Normalised(levels) ==
  IF SumOf(levels) = Whole THEN levels
  ELSE [i \in DOMAIN levels |->
          [levels[i] EXCEPT !.close = Rounded(@ * (Whole \div 10), SumOf(levels)) * 10]]

\* In the order they will be hit, equal prices in the order given.
SortedAscending(levels, above) ==
  SortSeq(levels, LAMBDA l, m : l.price < m.price)
Sorted(levels, above) ==
  LET Sooner(i, j) ==
        IF levels[i].price = levels[j].price THEN i < j
        ELSE above <=> (levels[i].price < levels[j].price)
      Rank(k) == 1 + Cardinality({j \in DOMAIN levels : Sooner(j, k)})
  IN [i \in DOMAIN levels |-> levels[CHOOSE k \in DOMAIN levels : Rank(k) = i]]

Levels(levels, above) == Sorted(Normalised(levels), above)

(***************************************************************************)
(* Management of an open position.                                         *)
(***************************************************************************)
Simple == {"HOLD", "CLOSE_FULL", "MULTIPLE_CHANGES"}
ActionOK(a) ==
  CASE a.type = "MOVE_STOP_LOSS"     -> Usable(a.price)
    [] a.type = "CLOSE_PARTIAL"      -> Between(a.close, 1, Whole - 1)
    [] a.type = "UPDATE_TAKE_PROFIT" -> /\ a.levels # <<>>
                                        /\ \A i \in DOMAIN a.levels : Usable(a.levels[i].price)
    [] OTHER                         -> a.type \in Simple

ManagementOK(m, facts) ==
  /\ m # Absent
  /\ m.position \in facts.positions
  /\ m.actions # <<>>
  /\ \A i \in DOMAIN m.actions : ActionOK(m.actions[i])

\* A level of an updated take profit may come without a share: it is 0 then.
Managed(m) ==
  [m EXCEPT !.actions = [i \in DOMAIN @ |->
     IF @[i].type # "UPDATE_TAKE_PROFIT" THEN @[i]
     ELSE [@[i] EXCEPT !.levels = [j \in DOMAIN @ |->
             [@[j] EXCEPT !.close = IF Given(@) THEN @ ELSE 0]]]]]

(***************************************************************************)
(* The assessment of the news: it may only point at clusters it was shown, *)
(* each is kept once.                                                      *)
(***************************************************************************)
NewsOK(n, facts) ==
  n # Absent => /\ n.labelsKnown /\ n.reasonsGiven
                /\ Between(n.confidence, 0, 1000)
                /\ ToSet(n.clusters) \subseteq facts.clusters
Assessed(n) == IF n = Absent THEN Absent
               ELSE [confidence |-> Rounded(n.confidence, 10),
                     clusters |-> FoldLeft(LAMBDA kept, c : IF Contains(kept, c) THEN kept
                                                            ELSE Append(kept, c), <<>>, n.clusters)]

(***************************************************************************)
(* Validate.                                                               *)
(***************************************************************************)
EntryOK(answer, facts) ==
  LET long == answer.action = "OPEN_LONG"
      reference == Reference(answer, facts)
  IN /\ ZoneOK(answer.zone, facts)
     /\ LevelsOK(answer.profits, reference, Above(long, TRUE))
     /\ LevelsOK(answer.stops, reference, Above(long, FALSE))

Accepted(answer, facts) ==
  LET entry == answer.action \in Entries IN
  /\ answer.action \in Actions
  /\ Between(answer.confidence, 0, 1000)
  /\ answer.risk \in RiskLevels
  /\ AllocationOK(answer.allocation, entry)
  /\ LeverageOK(answer.leverage, facts, entry)
  /\ entry => EntryOK(answer, facts)
  /\ answer.action = "MANAGE_POSITION" => ManagementOK(answer.management, facts)
  /\ NewsOK(answer.news, facts)
  /\ answer.summary

\* What is not an entry carries no levels, whatever the answer contained.
Validated(answer, facts) ==
  LET long == answer.action = "OPEN_LONG"
      entry == answer.action \in Entries
  IN [action     |-> answer.action,
      confidence |-> Rounded(answer.confidence, 10),
      risk       |-> answer.risk,
      allocation |-> IF Given(answer.allocation) THEN Rounded(answer.allocation, 10) ELSE 0,
      leverage   |-> IF Given(answer.leverage) THEN Rounded(answer.leverage, 10) ELSE 0,
      zone       |-> IF entry THEN answer.zone ELSE Absent,
      profits    |-> IF entry THEN Levels(answer.profits, Above(long, TRUE)) ELSE <<>>,
      stops      |-> IF entry THEN Levels(answer.stops, Above(long, FALSE)) ELSE <<>>,
      management |-> IF answer.action = "MANAGE_POSITION" THEN Managed(answer.management) ELSE Absent,
      news       |-> Assessed(answer.news)]
=============================================================================
