--------------------------- MODULE MarketStructure ---------------------------
(***************************************************************************)
(* Swings, their labels, the state they make up, and the breaks of the     *)
(* last swings (analysis/marketstructure).  A series holds closed candles  *)
(* [o, h, l, c], numbered from 1.                                          *)
(***************************************************************************)
EXTENDS Integers, SequencesExt, FiniteSetsExt

DefaultDepth == 3

Around(i, depth) == ((i - depth)..(i + depth)) \ {i}
IsPivotHigh(series, i, depth) == \A j \in Around(i, depth) : series[j].h < series[i].h
IsPivotLow(series, i, depth)  == \A j \in Around(i, depth) : series[j].l > series[i].l

\* The position of the last swing of a kind, 0 without one.
LastSwing(swings, high) == SelectLastInSeq(swings, LAMBDA s : s.high = high)

\* Each swing against the one of its kind before it.
Label(swings, high, price) ==
  LET before == LastSwing(swings, high) IN
  IF before = 0 THEN "none"
  ELSE IF price > swings[before].price THEN (IF high THEN "HH" ELSE "HL")
  ELSE (IF high THEN "LH" ELSE "LL")

WithSwing(swings, i, high, price) ==
  Append(swings, [index |-> i, high |-> high, price |-> price, label |-> Label(swings, high, price)])

\* A pivot needs depth candles on its right: they are what confirms it.
FindSwingsUnconfirmed(series, depth) ==
  FoldLeft(LAMBDA swings, i :
             IF \A j \in Around(i, depth) \cap DOMAIN series : series[j].h < series[i].h
               THEN WithSwing(swings, i, TRUE, series[i].h) ELSE swings,
           <<>>, [k \in 1..(Len(series) - depth - 1) |-> depth + k])
FindSwings(series, depth) ==
  FoldLeft(LAMBDA swings, i :
             LET tops == IF IsPivotHigh(series, i, depth)
                           THEN WithSwing(swings, i, TRUE, series[i].h) ELSE swings
             IN IF IsPivotLow(series, i, depth) THEN WithSwing(tops, i, FALSE, series[i].l) ELSE tops,
           <<>>, [k \in 1..(Len(series) - 2 * depth) |-> depth + k])

\* The last four labels decide.
Classify(swings) ==
  LET labels == SelectSeq([k \in DOMAIN swings |-> swings[k].label], LAMBDA l : l # "none")
      recent == SubSeq(labels, IF Len(labels) > 4 THEN Len(labels) - 3 ELSE 1, Len(labels))
      bull == Quantify(DOMAIN recent, LAMBDA k : recent[k] \in {"HH", "HL"})
      bear == Len(recent) - bull
  IN IF Len(recent) < 2 THEN "uncertain"
     ELSE IF bull = bear THEN "range"
     ELSE IF bull > 0 /\ bear > 0 THEN "transition"
     ELSE IF bull > bear THEN "bullish" ELSE "bearish"

(***************************************************************************)
(* The first close beyond the last swing of each kind, once that swing was *)
(* confirmed.  Against the state it is a change of character.              *)
(***************************************************************************)
Break(series, swing, state, depth) ==
  LET beyond == {i \in (swing.index + depth)..Len(series) :
                   IF swing.high THEN series[i].c > swing.price ELSE series[i].c < swing.price}
      against == IF swing.high THEN "bearish" ELSE "bullish"
  IN IF beyond = {} THEN <<>>
     ELSE <<[type |-> IF state = against THEN "CHoCH" ELSE "BOS", at |-> Min(beyond),
             direction |-> IF swing.high THEN "long" ELSE "short",
             price |-> swing.price, age |-> Len(series) - Min(beyond)]>>

BreakOfLast(series, swings, high, state, depth) ==
  IF LastSwing(swings, high) = 0 THEN <<>>
  ELSE Break(series, swings[LastSwing(swings, high)], state, depth)

DetectEvents(series, swings, state, depth) ==
  BreakOfLast(series, swings, TRUE, state, depth) \o BreakOfLast(series, swings, FALSE, state, depth)

Analyze(series, depth) ==
  LET swings == IF Len(series) < 2 * depth + 3 THEN <<>> ELSE FindSwings(series, depth)
      state  == Classify(swings)
  IN [swings |-> swings, state |-> state, events |-> DetectEvents(series, swings, state, depth)]
=============================================================================
