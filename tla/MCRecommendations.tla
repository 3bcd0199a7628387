--------------------------- MODULE MCRecommendations ---------------------------
EXTENDS Recommendations

\* The shadow is longer on the side of the close.
Candle(before, close, osc) ==
  [o |-> before, c |-> close, osc |-> osc,
   h |-> IF close > before THEN close + 2 ELSE before + 1,
   l |-> IF close > before THEN before - 1 ELSE close - 2]

\* A series from its closes, in percents around the pivot; the oscillator is
\* the move of three candles.
FromCloses(offsets) ==
  LET p(i) == Pivot + offsets[i] IN
  [i \in 1..(Len(offsets) - 3) |->
     Candle(p(i + 2), p(i + 3), offsets[i + 3] - offsets[i])]

Rising == <<-14, -13, -12, -11, -9, -7, -5, -8, -10, -11, -9, -7, -4, -1, -3, -5, -7, -4, -1, 2, 5, 3, 1, -1, 2, 5, 8, 11, 9, 6, 4, 7, 9, 13>>
Uneven == <<0, 2, 4, 6, 3, 1, -2, -5, -3, 0, 3, 5, 3, 1, -2, -4, -2, 0, 3, 6, 4, 1, -2, -6, -2, 1, 3, 7, 3, 0, -2, -5, -1, 0>>
Impulse == <<0, 1, 0, -1, 0, 1, 0, -1, 0, 1, 0, 1, 0, -1, 0, 1, 0, 1, 0, -1, 0, 1, 3, 6, 9, 12, 13, 12, 11, 12, 11, 12, 11, 14>>
Wave == <<0, 3, 6, 9, 12, 9, 6, 3, 0, 3, 6, 9, 13, 9, 5, 1, -3, 1, 5, 8, 11, 8, 5, 2, -1, 2, 5, 8, 10, 7, 4, 2, 0, 3>>

Crash == <<15, 14, 13, 14, 15, 14, 13, 14, 15, 14, 13, 14, 13, 14, 15, 14, 13, 14, 15, 14, 13, 14, 15, 14, 11, 8, 5, 2, -1, -4, -7, -10, -13, -16>>
Panic == <<-16, -15, -14, -13, -11, -12, -10, -9, -8, -6, -7, -5, -4, -3, -1, -2, 0, 1, 2, 4, 3, 5, 6, 7, 9, 8, 10, 12, 14, 16, 14, 12, 10, 8>>

Turn(offsets) == [i \in DOMAIN offsets |-> -offsets[i]]
MCShapes(candles) ==
  LET last == candles[Len(candles)].c
      osc  == last - candles[Len(candles) - 2].c
      S(o, h, l, c) == [o |-> last + o, h |-> last + h, l |-> last + l, c |-> last + c, osc |-> osc]
      Sides(o, h, l, c) == {S(o, h, l, c), S(-o, -l, -h, -c)}
  IN IF Len(candles) <= MinCandles THEN {S(0, 5, -1, 4)} ELSE
     UNION {Sides(0, 5, -1, 4), Sides(0, 2, -2, 0), Sides(0, 1, -5, 1), Sides(2, 3, -7, -6),
            Sides(5, 9, 5, 9), Sides(3, 5, 2, 4), Sides(4, 6, 3, 4), Sides(1, 3, 0, 2), Sides(-5, 1, -6, 0),
            Sides(-2, 4, -3, 3), Sides(0, 0, -4, 0)}

Read(vsSlow, vsFast, gap, adx, plus, hist, roc, rsi, volume, p) ==
  [vsSlow |-> vsSlow, vsFast |-> vsFast, gap |-> gap, adx |-> adx, plus |-> plus, minus |-> 50 - plus,
   hist |-> hist, macd |-> hist, signal |-> 0, roc |-> roc, cci |-> roc, stochK |-> rsi,
   rsiSlope |-> SignOf(roc), rsi |-> rsi, mfi |-> rsi, percentB |-> rsi, obvSlope |-> volume, cmf |-> volume,
   vsVwap |-> vsFast, fromHigh |-> -40, fromLow |-> 300, relativeVolume |-> 160, atr |-> 4, atrPct |-> 200,
   atrPercentile |-> p, bbWidth |-> 150, anchor |-> 100]

Up    == Read(300, 200, 100, 30, 35, 1, 200, 65, 60, 50)
Flat  == [Read(20, -10, 5, 15, 24, -1, -10, 48, 0, 50) EXCEPT !.atrPct = 120]
Blank == [r \in DOMAIN Up |-> NoReading]
Spent == [Read(-200, -300, -50, 22, 15, 1, -250, 12, -40, 97) EXCEPT !.atrPct = 400]

Quiet == [others |-> <<>>, levels |-> <<>>, news |-> {},
          market |-> [known |-> TRUE, distance |-> 200, slope |-> 1], rank |-> [members |-> 10, percent |-> 60],
          limits |-> [cost |-> 20, costMultiple |-> 3, longBuffer |-> 0, allowFalling |-> FALSE,
                      minStrength |-> 50, newsAge |-> 120]]
Frame(net, regime, levels) ==
  [net |-> net, bias |-> BiasOf(net), regime |-> regime, highVol |-> net < 0, levels |-> levels,
   vsSlow |-> net, vsFast |-> net, atrPct |-> 100, atrPercentile |-> NoReading]
Level(price, strength) ==
  [price |-> price, strength |-> strength, type |-> IF price > Pivot THEN "resistance" ELSE "support",
   distance |-> 100 * Absolute(price - Pivot)]
With(ind, q) == q @@ [ind |-> ind]
Busy == [Quiet EXCEPT
           !.others = "1d" :> Frame(300, "weak_uptrend", <<Level(101, 500), Level(120, 900)>>)
                        @@ "1h" :> Frame(-400, "range", <<Level(99, 380)>>),
           !.levels = <<Level(101, 400), Level(103, 600), Level(98, 300)>>,
           !.market.slope = -1, !.rank.percent = 35]
Stopped == [Quiet EXCEPT !.news = {100}, !.market = [known |-> FALSE, distance |-> NoReading, slope |-> NoReading],
                         !.limits.cost = 200, !.levels = <<Level(99, 700)>>]
Falling == [Quiet EXCEPT !.market = [known |-> TRUE, distance |-> -200, slope |-> -1], !.rank.members = 1,
                         !.others = "1d" :> Frame(-300, "weak_downtrend", <<>>)]
MCOutlooks == {With(Up, Quiet), With(Flat, Busy), With(Spent, Falling), With(Blank, Quiet), With(Up, Stopped)}

\* Every strategy and filter that has no side of its own.
Everything ==
  [minSignal |-> 300, sides |-> "both", adaptive |-> TRUE,
   items |-> [n \in DOMAIN Catalog |->
     IF Catalog[n].id \in OneSided THEN [Catalog[n] EXCEPT !.enabled = FALSE]
     ELSE [Catalog[n] EXCEPT !.enabled = TRUE, !.veto = FALSE,
                             !.weight = IF Directional(Catalog[n]) THEN @ ELSE 100]]]
Only(ids, weight) ==
  [minSignal |-> 100, sides |-> "both", adaptive |-> TRUE,
   items |-> [n \in DOMAIN Catalog |->
     IF Catalog[n].id \in ids THEN [Catalog[n] EXCEPT !.enabled = TRUE, !.weight = weight]
     ELSE [Catalog[n] EXCEPT !.enabled = FALSE]]]
Shapely == Only({"candle_patterns", "chart_patterns", "divergences", "market_structure", "donchian_breakout"}, 1000)
Contrary == Only({"rsi2_reversion", "rsi_reversion", "breakout", "donchian_breakout", "opposing_level"}, -1000)
Classics == [Only(OneSided \cup {"trend_gate"}, 1000) EXCEPT !.minSignal = -5]

Start(closes, seen, rules) == [series |-> FromCloses(closes), outlook |-> seen, strategies |-> rules]
Longer(closes) == Append(closes, closes[Len(closes)] + (closes[Len(closes)] - closes[Len(closes) - 1]) \div 2)

\* Every pair of candles under the formations alone, one candle under every
\* outlook, and the presets in a few.
MCStarts ==
  {Start(x, With(Blank, Quiet), Shapely) : x \in {Rising, Uneven, Turn(Impulse)}}
  \cup {Start(SubSeq(Wave, 1, MinCandles + 2), With(Blank, Quiet), Shapely)}
  \cup {Start(Longer(x), seen, rules) :
          x \in {Rising, Turn(Rising), Uneven, Impulse, Crash, Panic, Turn(Panic)}, seen \in MCOutlooks,
          rules \in {Everything, Contrary, Classics}}
  \cup {Start(Longer(x), seen, rules) :
          x \in {Rising, Crash, Panic}, seen \in {With(Up, Quiet), With(Spent, Falling)},
          rules \in {BroadEnsemble, RegimeMomentumPair, CoreTrio, MomentumSolo}}

MCDiscussed(candles, rules) == candles = FromCloses(Longer(Uneven)) /\ rules = Everything

(***************************************************************************)
(* The model's half.                                                       *)
(***************************************************************************)
CONSTANTS p1, p2, c1, c2

L(price, close) == [price |-> price, close |-> close]
Profits ==
  {<<L(110, 100000)>>, <<L(120, 40000), L(110, 60000)>>, <<L(110, 33000), L(120, 33000), L(130, 33000)>>,
   <<L(110, 50000), L(110, 54000)>>, <<L(110, 50000), L(120, 56000)>>, <<L(120, 50000), L(94, 50000)>>,
   <<L(110, Absent)>>, <<>>, [i \in 1..7 |-> L(110 + i, 14000)]}
Stops ==
  {<<L(90, 100000)>>, <<L(85, 50000), L(90, 50000)>>, <<L(96, 30000), L(70, 69000)>>,
   <<L(102, 100000)>>, <<L(Absent, 100000)>>, <<L(90, 100001)>>, <<>>}
Zones == {[min |-> Absent, max |-> Absent], [min |-> 95, max |-> 98], [min |-> Absent, max |-> 105],
          [min |-> 98, max |-> 95], [min |-> 80, max |-> 98], [min |-> 0, max |-> 98]}

\* The same market seen by a short: prices mirrored at the reference.
Flip(p) == IF p = Absent THEN Absent ELSE 2 * Price - p
Flipped(a) ==
  [a EXCEPT !.action = "OPEN_SHORT",
            !.profits = [i \in DOMAIN @ |-> [@[i] EXCEPT !.price = Flip(@)]],
            !.stops = [i \in DOMAIN @ |-> [@[i] EXCEPT !.price = Flip(@)]],
            !.zone = [min |-> Flip(a.zone.max), max |-> Flip(a.zone.min)]]

Long == [action |-> "OPEN_LONG", confidence |-> 800, risk |-> "low", allocation |-> 10004,
         leverage |-> 300, zone |-> [min |-> Absent, max |-> Absent],
         profits |-> <<L(110, 60000), L(120, 40000)>>, stops |-> <<L(90, 100000)>>,
         management |-> Absent, news |-> Absent, summary |-> TRUE]

Shaped == {[Long EXCEPT !.profits = ps, !.stops = ss, !.zone = z] :
             ps \in Profits, ss \in Stops, z \in Zones}
Sizes == {[Long EXCEPT !.confidence = c, !.leverage = v, !.allocation = n, !.stops = s] :
            c \in {545, 695, 900}, v \in {50, 300, 503}, n \in {5, 30000},
            s \in {<<L(90, 100000)>>, <<L(98, 50000), L(97, 50000)>>}}
Odd == {[Long EXCEPT !.confidence = Absent], [Long EXCEPT !.confidence = 1001],
        [Long EXCEPT !.leverage = Absent], [Long EXCEPT !.allocation = 0],
        [Long EXCEPT !.risk = "none"], [Long EXCEPT !.action = "BUY"], [Long EXCEPT !.summary = FALSE]}

Managing(p, as) == [Long EXCEPT !.action = "MANAGE_POSITION", !.leverage = Absent,
                                !.management = [position |-> p, actions |-> as]]
Hold == [type |-> "HOLD"]
Moves == {[type |-> "MOVE_STOP_LOSS", price |-> x] : x \in {Absent, 95}}
Parts == {[type |-> "CLOSE_PARTIAL", close |-> x] : x \in {Absent, 50000, 100000}}
Updates == {[type |-> "UPDATE_TAKE_PROFIT", levels |-> x] : x \in {<<>>, <<L(120, Absent)>>, <<L(0, 100)>>}}
Managements == {Managing(p, <<Hold, a>>) : p \in {p1, p2}, a \in Moves \cup Parts \cup Updates}
                 \cup {Managing(p1, <<>>), [Managing(p1, <<>>) EXCEPT !.management = Absent]}

Notes_ == {[labelsKnown |-> TRUE, reasonsGiven |-> TRUE, confidence |-> 505, clusters |-> x] :
            x \in {<<>>, <<c1, c1>>, <<c2>>}}
Waiting == {[Long EXCEPT !.action = "NO_ACTION", !.news = n] : n \in Notes_ \cup {Absent}}

Longs == Shaped \cup Sizes \cup Odd
\* The whole variety is answered in one situation, and the proposals that ask
\* for the most in every other.
Calm(situation) ==
  situation.criticalNews = {} /\ situation.dataOK /\ situation.atr = Up.atrPct /\ situation.levels = {}
Most == {a \in Sizes : a.leverage = 503 /\ a.allocation = 30000}
MCReplies == Longs \cup {Flipped(a) : a \in Shaped \cup Sizes} \cup Managements \cup Waiting
MCOffered(answer, situation) ==
  Calm(situation) \/ answer \in Most \cup {Flipped(a) : a \in Most}

\* The proposals of Sizes, and one that is no entry.
Prices(levels) == {levels[i].price : i \in DOMAIN levels}
MCFollowed(plan, situation) ==
  \/ Prices(plan.profits) \in {{110, 120}, {90, 80}} /\ plan.confidence # 80 /\ plan.confidence # 70
  \/ plan.action = "NO_ACTION" /\ plan.news = Absent

MCWatched(rec) == CASE ToSet(rec.stops) = {90} -> 4
                    [] ToSet(rec.stops) = {110} \/ rec.action = "NO_ACTION" -> 3
                    [] OTHER -> 0

MCSituations ==
  {[action |-> "", confidence |-> 0, leverage |-> 0, allocation |-> 0, risk |-> "", price |-> 0,
    stops |-> {}, atr |-> Unknown, percentile |-> Unknown, regime |-> "", highVolTag |-> FALSE,
    alignment |-> 0, levels |-> {}, criticalNews |-> n, dataOK |-> ok, volatilityRisk |-> 300] :
     n \in {{}, {30}, {300}}, ok \in BOOLEAN}

MCPolicies ==
  {[min |-> 5, max |-> 50, highAtr |-> 150, extremeAtr |-> 300, minConfidence |-> 55, criticalMax |-> 15,
    criticalHighVolMax |-> 8, criticalAge |-> 120, riskPerTrade |-> 75, maxAllocation |-> 1500],
   [min |-> 2, max |-> 20, highAtr |-> 100, extremeAtr |-> 200, minConfidence |-> 60, criticalMax |-> 10,
    criticalHighVolMax |-> 5, criticalAge |-> 400, riskPerTrade |-> 200, maxAllocation |-> 500]}

MCBars == {[low |-> 100, high |-> 100, close |-> 100], [low |-> 100, high |-> 111, close |-> 111],
           [low |-> 80, high |-> 100, close |-> 89], [low |-> 85, high |-> 120, close |-> 100]}
=============================================================================
