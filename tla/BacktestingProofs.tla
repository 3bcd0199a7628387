------------------------- MODULE BacktestingProofs --------------------------
(***************************************************************************)
(* Proofs about TradeReplay, for every period, size, set of plans and set  *)
(* of run parameters, and about Backtests, for any runs, processes and     *)
(* faults.                                                                 *)
(***************************************************************************)
EXTENDS TradeReplay, Backtests, TLAPS

\* What makes NothingSoldTwice inductive: exits happen to an open trade.
Ledger ==
  /\ TypeOK
  /\ NothingSoldTwice
  /\ phase = "exits" => Open

\* Two records of a trade that has sold the same.
Alike(s, t) ==
  s.status = t.status /\ s.remaining = t.remaining /\ s.exited = t.exited

-----------------------------------------------------------------------------
(* The operators return what their names promise *)

\* The number of settlements is a number: the loop of applyFunding ends.
LEMMA QuotientIsNat ==
  ASSUME NEW a \in Nat, NEW b \in Nat \ {0}
  PROVE  a \div b \in Nat
  OBVIOUS

\* Changing fields of a trade within their types leaves the other fields alone.
LEMMA ClockSet ==
  ASSUME NEW t \in Trades, NEW x \in Nat, NEW y \in Nat
  PROVE  LET s == [t EXCEPT !.charged = x, !.next = y]
         IN  Alike(s, t) /\ s \in Trades
  BY DEF Trades, Alike

LEMMA ProtectionSet ==
  ASSUME NEW t \in Trades, NEW x \in BOOLEAN, NEW y \in SUBSET Levels
  PROVE  LET s == [t EXCEPT !.breakEven = x, !.stops = y]
         IN  Alike(s, t) /\ s \in Trades
  BY DEF Trades, Alike

LEMMA TrailSet ==
  ASSUME NEW t \in Trades, NEW x \in Int, NEW y \in SUBSET Levels
  PROVE  LET s == [t EXCEPT !.peak = x, !.stops = y]
         IN  Alike(s, t) /\ s \in Trades
  BY DEF Trades, Alike

\* Funding touches only the clock and the count of a trade (applyFunding).
LEMMA FundedKeeps ==
  ASSUME NEW t \in Trades, NEW now \in Nat
  PROVE  Funded(t, now) \in Trades /\ Alike(Funded(t, now), t)
<1>1. CASE t.next > now
  BY <1>1 DEF Funded, Alike
<1>2. CASE ~(t.next > now)
  <2> DEFINE n == (now - t.next) \div FundingPeriod + 1
  <2>1. now - t.next \in Nat /\ FundingPeriod \in Nat \ {0}
    BY <1>2, NumbersAreTyped DEF Trades
  <2>2. n \in Nat
    BY <2>1, QuotientIsNat
  <2>3. Funded(t, now) = [t EXCEPT !.charged = @ + n, !.next = @ + n * FundingPeriod]
    BY <1>2 DEF Funded
  <2> HIDE DEF n
  <2>4. t.charged + n \in Nat /\ t.next + n * FundingPeriod \in Nat
    BY <2>1, <2>2 DEF Trades
  <2> DEFINE x == t.charged + n
             y == t.next + n * FundingPeriod
  <2>5. Funded(t, now) = [t EXCEPT !.charged = x, !.next = y]
    BY <2>3
  <2>6. x \in Nat /\ y \in Nat
    BY <2>4
  <2> HIDE DEF x, y
  <2>7. LET s == [t EXCEPT !.charged = x, !.next = y] IN Alike(s, t) /\ s \in Trades
    BY <2>6, ClockSet
  <2> QED
    BY <2>5, <2>7
<1> QED
  BY <1>1, <1>2

\* An exit moves a quantity from what remains to what was sold, never more than
\* there is; one for all of it leaves nothing (executeExit).
LEMMA ExitConserves ==
  ASSUME NEW t \in Trades, NEW pct \in Int, t.remaining + t.exited = Size
  PROVE  /\ Exit(t, pct) \in Trades
         /\ Exit(t, pct).status = t.status
         /\ Exit(t, pct).remaining + Exit(t, pct).exited = Size
         /\ pct >= 100 => Exit(t, pct).remaining = 0
<1> DEFINE share == (Size * pct + 50) \div 100
           qty == IF pct >= 100 \/ share > t.remaining THEN t.remaining ELSE share
<1>1. Size \in Nat /\ t.remaining \in 0..Size /\ t.exited \in 0..Size
  BY NumbersAreTyped DEF Trades
<1>2. share \in Int
  BY <1>1
<1> HIDE DEF share
<1>3. qty \in Int /\ qty <= t.remaining /\ (pct >= 100 => qty = t.remaining)
  BY <1>1, <1>2
<1>4. Exit(t, pct) = IF qty <= 0 THEN t
                     ELSE [t EXCEPT !.exited = @ + qty, !.remaining = Floored(@ - qty)]
  BY DEF Exit, share
<1> HIDE DEF qty
<1>5. CASE qty <= 0
  BY <1>1, <1>3, <1>4, <1>5
<1>6. CASE ~(qty <= 0)
  <2>1. /\ Floored(t.remaining - qty) = t.remaining - qty
        /\ t.remaining - qty \in 0..Size
        /\ t.exited + qty \in 0..Size
        /\ t.remaining - qty + (t.exited + qty) = Size
    BY <1>1, <1>3, <1>6 DEF Floored
  <2>2. Exit(t, pct) = [t EXCEPT !.exited = t.exited + qty, !.remaining = t.remaining - qty]
    BY <1>4, <1>6, <2>1
  <2> DEFINE x == t.exited + qty
             y == t.remaining - qty
  <2>3. /\ Exit(t, pct) = [t EXCEPT !.exited = x, !.remaining = y]
        /\ x \in 0..Size /\ y \in 0..Size /\ y + x = Size
        /\ pct >= 100 => y = 0
    BY <1>1, <1>3, <2>1, <2>2
  <2> HIDE DEF x, y
  <2>4. LET s == [t EXCEPT !.exited = x, !.remaining = y]
        IN  s \in Trades /\ s.status = t.status /\ s.remaining = y /\ s.exited = x
    <3>1. x \in 0..Size /\ y \in 0..Size
      BY <2>3
    <3> QED
      BY <3>1 DEF Trades
  <2> QED
    BY <2>3, <2>4
<1> QED
  BY <1>5, <1>6

\* Moving a stop sells nothing (break-even, trailStop).
LEMMA SurvivorKeeps ==
  ASSUME NEW t \in Trades, NEW c \in Candles, TypeOK
  PROVE  LET s == Trailed(Protected(t, c), c)
         IN  s \in Trades /\ Alike(s, t)
<1> DEFINE p == Protected(t, c)
<1>1. p \in Trades /\ Alike(p, t)
  <2> DEFINE rest == {[price |-> t.entry, pct |-> 100]}
  <2>1. rest \in SUBSET Levels
    BY DEF Trades, Levels
  <2>2. p = t \/ p = [t EXCEPT !.breakEven = TRUE, !.stops = rest]
    BY DEF Protected
  <2> HIDE DEF rest
  <2>3. LET s == [t EXCEPT !.breakEven = TRUE, !.stops = rest] IN Alike(s, t) /\ s \in Trades
    BY <2>1, ProtectionSet
  <2> QED
    BY <2>2, <2>3 DEF Alike
<1> HIDE DEF p
<1>2. CASE p.trail = 0
  BY <1>1, <1>2 DEF Trailed, p
<1>3. CASE p.trail # 0
  <2> DEFINE peak == Better(p.dir, p.peak, Best(c, p.dir))
             level == peak - p.dir * p.trail
             stops == IF \A l \in p.stops : p.dir * (level - l.price) > 0
                      THEN {[price |-> level, pct |-> 100]} ELSE p.stops
  <2>1. peak \in Int
    BY <1>1, PricesAreInts DEF Better, Best, Candles, Trades
  <2> HIDE DEF peak
  <2>2. level \in Int
    BY <1>1, <2>1 DEF Trades
  <2> HIDE DEF level
  <2>3. stops \in SUBSET Levels
    BY <1>1, <2>2 DEF Trades, Levels
  <2>4. Trailed(p, c) = [p EXCEPT !.peak = peak, !.stops = stops]
    BY <1>3 DEF Trailed, peak, level
  <2> HIDE DEF stops
  <2>5. LET s == [p EXCEPT !.peak = peak, !.stops = stops] IN Alike(s, p) /\ s \in Trades
    BY <1>1, <2>1, <2>3, TrailSet
  <2> QED
    BY <1>1, <2>4, <2>5 DEF p, Alike
<1> QED
  BY <1>2, <1>3

\* A new trade holds its whole size (openTradeAt).
LEMMA OpenedIsWhole ==
  ASSUME NEW p \in PlanType, NEW base \in Int, NEW entry \in Int, TypeOK
  PROVE  /\ Opened(p, base, entry) \in Trades
         /\ Opened(p, base, entry).status = "open"
         /\ Opened(p, base, entry).remaining = Size
         /\ Opened(p, base, entry).exited = 0
<1>1. run \in RunType
  BY RunsAreTyped DEF TypeOK
<1>2. ASSUME NEW steps \in SUBSET Steps, NEW b \in Int, NEW side \in {1, -1}
      PROVE  At(steps, b, side) \in SUBSET Levels
  BY <1>2 DEF At, Steps, Levels
<1>3. ASSUME NEW steps \in SUBSET Steps, NEW side \in {1, -1}
      PROVE  LadderTargets(steps, entry, side, p.margin) \in SUBSET Levels
  <2>1. ASSUME NEW s \in Steps
        PROVE  [price |-> entry + side * ((s.at * p.margin) \div 100), pct |-> s.pct] \in Levels
    <3>1. s.at * p.margin \in Nat
      BY DEF Steps, PlanType
    <3>2. (s.at * p.margin) \div 100 \in Nat
      BY <3>1, QuotientIsNat
    <3> QED
      BY <3>2, <1>3 DEF Steps, Levels
  <2> QED
    BY <2>1 DEF LadderTargets
<1>4. p.dir \in {1, -1} /\ -p.dir \in {1, -1} /\ p.atr \in Nat /\ p.margin \in Nat
  BY DEF PlanType
<1>5. p.atr * run.trail \in Nat
  BY <1>1, <1>4 DEF RunType
<1>6. {[price |-> entry - p.dir * p.atr * run.trail, pct |-> 100]} \in SUBSET Levels
  <2>1. run.trail \in Nat
    BY <1>1 DEF RunType
  <2>2. entry - p.dir * p.atr * run.trail \in Int
    BY <1>4, <2>1
  <2> QED
    BY <2>2 DEF Levels
<1>7. /\ p.stops \in SUBSET Steps /\ p.targets \in SUBSET Steps
      /\ run.loss \in SUBSET Steps /\ run.profit \in SUBSET Steps
      /\ run.mode \in {"signal", "pnl_ladder", "trailing_atr"}
  BY <1>1 DEF PlanType, RunType
<1>8. Stops(p, base, entry) \in SUBSET Levels
  BY <1>2, <1>3, <1>4, <1>6, <1>7 DEF Stops
<1>9. Targets(p, base, entry) \in SUBSET Levels
  BY <1>2, <1>3, <1>4, <1>7 DEF Targets
<1>10. NextFundingAfter(bar * BarLength) \in Nat
  <2>1. bar * BarLength \in Nat /\ FundingPeriod \in Nat \ {0}
    BY NumbersAreTyped DEF TypeOK
  <2>2. (bar * BarLength) \div FundingPeriod \in Nat
    BY <2>1, QuotientIsNat
  <2> QED
    BY <2>1, <2>2 DEF NextFundingAfter
<1>11. bar \in Nat /\ Size \in Nat \ {0}
  BY NumbersAreTyped DEF TypeOK
<1> QED
  BY <1>4, <1>5, <1>8, <1>9, <1>10, <1>11 DEF Opened, Trades

-----------------------------------------------------------------------------
(* The invariant *)

LEMMA InitLedger == Init => Ledger
<1> SUFFICES ASSUME Init PROVE Ledger
  OBVIOUS
<1> USE DEF Init
<1>1. run \in RunType /\ 1 \in 1..LastBar /\ Size \in Nat
  BY RunsAreTyped, NumbersAreTyped
<1>2. trade \in Trades
  BY <1>1 DEF NoTrade, Trades
<1>3. lastSignal \in Int
  BY <1>1 DEF RunType
<1>4. standing \in [stops: SUBSET Levels, targets: SUBSET Levels]
  BY DEF NoLevels
<1>5. TypeOK
  BY <1>1, <1>2, <1>3, <1>4 DEF TypeOK
<1>6. NothingSoldTwice /\ phase # "exits"
  BY DEF NothingSoldTwice, NoTrade, Open
<1> QED
  BY <1>5, <1>6 DEF Ledger

\* A candle is made of prices.
LEMMA CandleIsTyped ==
  ASSUME TypeOK
  PROVE  /\ candle.open \in Int /\ candle.high \in Int
         /\ candle.low \in Int /\ candle.close \in Int
  BY PricesAreInts DEF TypeOK, Candles

LEMMA StopFillIsTyped ==
  ASSUME TypeOK, NEW level \in Int, NEW dir \in {1, -1}
  PROVE  StopFill(level, candle, dir) \in Int
  BY CandleIsTyped DEF StopFill, Worse

LEMMA SlippedIsTyped ==
  ASSUME NEW price \in Int, NEW dir \in {1, -1}
  PROVE  /\ Slipped(price, dir) \in Int /\ Slipped(price, dir) + dir * Slippage = price
         /\ dir * (Slipped(price, dir) - price) <= 0
  BY NumbersAreTyped DEF Slipped

LEMMA NextBarLedger ==
  ASSUME Ledger, NEW c \in Candles, NextBar(c)
  PROVE  Ledger'
<1> USE DEF Ledger, NextBar
<1>1. bar' \in 1..LastBar /\ (bar + 1) * BarLength \in Nat
  BY NumbersAreTyped DEF TypeOK
<1>2. trade' \in Trades /\ Alike(trade', trade)
  BY <1>1, FundedKeeps DEF TypeOK, Alike
<1>3. queue' \subseteq Levels /\ standing' \in [stops: SUBSET Levels, targets: SUBSET Levels]
  BY DEF TypeOK, Trades, Due, StopsTouched, TargetsTouched, NoLevels
<1>4. TypeOK'
  BY <1>1, <1>2, <1>3 DEF TypeOK
<1>5. NothingSoldTwice' /\ (phase' = "exits" => Open')
  BY <1>2 DEF Alike, NothingSoldTwice, Open
<1> QED
  BY <1>4, <1>5

\* Taking a level off a trade's list sells nothing yet.
LEMMA LevelTaken ==
  ASSUME NEW t \in Trades, NEW l
  PROVE  /\ LET s == [t EXCEPT !.stops = @ \ {l}] IN Alike(s, t) /\ s \in Trades
         /\ LET s == [t EXCEPT !.targets = @ \ {l}, !.banked = TRUE]
            IN  Alike(s, t) /\ s \in Trades
  BY DEF Trades, Alike

LEMMA ExecuteLedger ==
  ASSUME Ledger, phase = "exits", NEW l \in queue, NEW t \in Trades, Alike(t, trade),
         NEW kind \in {"stop_loss", "take_profit"}, NEW levelFill \in Int,
         ExecuteLevel(kind, l, levelFill, Exit(t, ClosePct(l)))
  PROVE  Ledger'
<1> USE DEF Ledger, ExecuteLevel
<1>1. l \in Levels /\ l.price \in Int
  BY DEF TypeOK, Levels
<1>2. ClosePct(l) \in Int
  BY <1>1 DEF ClosePct, Levels
<1>3. Open /\ t.status = "open" /\ t.remaining + t.exited = Size
  BY DEF Alike, Open, NothingSoldTwice
<1>4. /\ trade' \in Trades
      /\ trade'.status = "open"
      /\ trade'.remaining + trade'.exited = Size
  BY <1>2, <1>3, ExitConserves
<1>5. filled' \subseteq Fills
  BY <1>1 DEF TypeOK, Fills
<1>6. queue' \subseteq Levels
  BY DEF TypeOK
<1>7. TypeOK'
  BY <1>4, <1>5, <1>6 DEF TypeOK
<1>8. NothingSoldTwice' /\ Open'
  BY <1>4 DEF NothingSoldTwice, Open
<1> QED
  BY <1>7, <1>8

LEMMA ExecuteStopLedger ==
  ASSUME Ledger, NEW l \in queue, ExecuteStop(l)
  PROVE  Ledger'
<1> DEFINE t == [trade EXCEPT !.stops = @ \ {l}]
<1>1. trade \in Trades /\ l \in Levels
  BY DEF Ledger, TypeOK
<1>2. t \in Trades /\ Alike(t, trade)
  BY <1>1, LevelTaken
<1>3. l.price \in Int /\ trade.dir \in {1, -1}
  BY <1>1 DEF Levels, Trades
<1>4. Slipped(StopFill(l.price, candle, trade.dir), trade.dir) \in Int
  BY <1>3, StopFillIsTyped, SlippedIsTyped DEF Ledger
<1>5. /\ phase = "exits"
      /\ ExecuteLevel("stop_loss", l, Slipped(StopFill(l.price, candle, trade.dir), trade.dir),
                      Exit(t, ClosePct(l)))
  BY DEF ExecuteStop
<1> HIDE DEF t
<1> QED
  BY <1>2, <1>4, <1>5, ExecuteLedger

LEMMA ExecuteTargetLedger ==
  ASSUME Ledger, NEW l \in queue, ExecuteTarget(l)
  PROVE  Ledger'
<1> DEFINE t == [trade EXCEPT !.targets = @ \ {l}, !.banked = TRUE]
<1>1. trade \in Trades /\ l \in Levels
  BY DEF Ledger, TypeOK
<1>2. t \in Trades /\ Alike(t, trade)
  BY <1>1, LevelTaken
<1>3. l.price \in Int
  BY <1>1 DEF Levels
<1>4. /\ phase = "exits"
      /\ ExecuteLevel("take_profit", l, l.price, Exit(t, ClosePct(l)))
  BY DEF ExecuteTarget
<1> HIDE DEF t
<1> QED
  BY <1>2, <1>3, <1>4, ExecuteLedger

\* A trade that has nothing left is closed with its books intact.
LEMMA ClosedLedger ==
  ASSUME Ledger, NEW t \in Trades, t.remaining = 0, t.remaining + t.exited = Size,
         trade' = [t EXCEPT !.status = "closed"], phase' \in {"order", "done"},
         filled' \subseteq Fills,
         UNCHANGED <<run, bar, candle, order, queue, standing, lastSignal>>
  PROVE  Ledger'
<1>1. /\ trade' \in Trades /\ trade'.status = "closed"
      /\ trade'.remaining = t.remaining /\ trade'.exited = t.exited
  BY DEF Trades
<1>2. TypeOK'
  BY <1>1 DEF Ledger, TypeOK
<1>3. NothingSoldTwice' /\ phase' # "exits"
  BY <1>1 DEF NothingSoldTwice, Open
<1> QED
  BY <1>2, <1>3 DEF Ledger

LEMMA FinalizeLedger ==
  ASSUME Ledger, FinalizeTrade
  PROVE  Ledger'
<1>1. trade \in Trades /\ filled \subseteq Fills /\ trade.remaining + trade.exited = Size
  BY DEF Ledger, TypeOK, NothingSoldTwice, Open, FinalizeTrade
<1> QED
  BY <1>1, ClosedLedger DEF FinalizeTrade

LEMMA LiquidateLedger ==
  ASSUME Ledger, Liquidate
  PROVE  Ledger'
<1>1. trade \in Trades /\ trade.remaining + trade.exited = Size
  BY DEF Ledger, TypeOK, NothingSoldTwice, Open, Liquidate
<1>2. /\ Exit(trade, 100) \in Trades
      /\ Exit(trade, 100).remaining = 0
      /\ Exit(trade, 100).remaining + Exit(trade, 100).exited = Size
  BY <1>1, ExitConserves
<1>3. trade.entry \in Int /\ trade.margin \in Nat /\ trade.dir \in {1, -1}
  BY <1>1 DEF Trades
<1>4. LiquidationPrice(trade) \in Int
  BY <1>3, NumbersAreTyped DEF LiquidationPrice, Floored
<1>5. StopFill(LiquidationPrice(trade), candle, trade.dir) \in Int
  BY <1>3, <1>4, StopFillIsTyped DEF Ledger
<1>6. LiquidationFill(trade, candle) \in Int
  BY <1>3, <1>5 DEF LiquidationFill, Better
<1>7. Slipped(LiquidationFill(trade, candle), trade.dir) \in Int
  BY <1>3, <1>6, SlippedIsTyped
<1>8. filled' \subseteq Fills
  BY <1>4, <1>7 DEF Liquidate, Fills, Ledger, TypeOK
<1> QED
  BY <1>2, <1>8, ClosedLedger DEF Liquidate

LEMMA SurviveLedger ==
  ASSUME Ledger, Survive
  PROVE  Ledger'
<1>1. trade \in Trades /\ candle \in Candles /\ TypeOK
  BY DEF Ledger, TypeOK
<1>2. trade' \in Trades /\ Alike(trade', trade)
  BY <1>1, SurvivorKeeps DEF Survive
<1>3. TypeOK'
  BY <1>1, <1>2 DEF TypeOK, Survive
<1>4. NothingSoldTwice' /\ phase' # "exits"
  BY <1>2 DEF NothingSoldTwice, Open, Alike, Survive, Ledger
<1> QED
  BY <1>3, <1>4 DEF Ledger

\* Steps between the exits of one bar and the next that open no trade.
LEMMA QuietLedger ==
  ASSUME Ledger, phase # "exits", phase' \in {"order", "signal", "next", "done"},
         order' \in Orders \cup {NoOrder}, lastSignal' \in Int,
         UNCHANGED <<run, bar, candle, trade, queue, standing, filled>>
  PROVE  Ledger'
<1>1. TypeOK'
  BY DEF Ledger, TypeOK
<1>2. NothingSoldTwice' /\ phase' # "exits"
  BY DEF NothingSoldTwice, Open, Ledger
<1> QED
  BY <1>1, <1>2 DEF Ledger

LEMMA OpenLedger ==
  ASSUME Ledger, NEW p \in PlanType, NEW base \in Int, NEW entry \in Int,
         OpenTrade(p, base, entry), phase' \in {"signal", "next"},
         order' \in Orders \cup {NoOrder}, lastSignal' \in Int,
         UNCHANGED <<run, bar, candle, queue>>
  PROVE  Ledger'
<1>1. /\ trade' \in Trades /\ trade'.status = "open"
      /\ trade'.remaining = Size /\ trade'.exited = 0
  BY OpenedIsWhole DEF OpenTrade, Ledger
<1>2. Size \in Nat \ {0}
  BY NumbersAreTyped
<1>3. standing' \in [stops: SUBSET Levels, targets: SUBSET Levels] /\ filled' \subseteq Fills
  BY DEF OpenTrade, NoLevels
<1>4. TypeOK'
  BY <1>1, <1>3 DEF Ledger, TypeOK
<1>5. NothingSoldTwice' /\ phase' # "exits"
  BY <1>1, <1>2 DEF NothingSoldTwice, Open
<1> QED
  BY <1>4, <1>5 DEF Ledger

LEMMA OrderLedger ==
  ASSUME Ledger, KeepOrder \/ LapseOrder \/ \E granted \in BOOLEAN : FillOrder(granted)
  PROVE  Ledger'
<1>1. order \in Orders \cup {NoOrder} /\ lastSignal \in Int
  BY DEF Ledger, TypeOK
<1>2. CASE KeepOrder
  BY <1>1, <1>2, QuietLedger DEF KeepOrder
<1>3. CASE LapseOrder
  BY <1>1, <1>3, QuietLedger DEF LapseOrder
<1>4. ASSUME FillOrder(TRUE) PROVE Ledger'
  <2>1. order.plan \in PlanType /\ order.limit \in Int
    BY <1>1, <1>4 DEF FillOrder, Orders
  <2> QED
    BY <1>1, <1>4, <2>1, OpenLedger DEF FillOrder
<1>5. ASSUME FillOrder(FALSE) PROVE Ledger'
  BY <1>1, <1>5, QuietLedger DEF FillOrder
<1> QED
  BY <1>2, <1>3, <1>4, <1>5

LEMMA SignalLedger ==
  ASSUME Ledger, SkipAnalysis \/ NoEntry \/ \E p \in Plans : PlaceOrder(p) \/ EnterMarket(p)
  PROVE  Ledger'
<1>1. /\ order \in Orders \cup {NoOrder} /\ lastSignal \in Int
      /\ bar \in Nat /\ bar \in Int /\ run \in RunType
  BY RunsAreTyped DEF Ledger, TypeOK
<1>2. CASE SkipAnalysis
  BY <1>1, <1>2, QuietLedger DEF SkipAnalysis
<1>3. CASE NoEntry
  BY <1>1, <1>3, QuietLedger DEF NoEntry, Analyse
<1>4. ASSUME NEW p \in Plans PROVE p \in PlanType /\ p.dir \in {1, -1} /\ p.atr \in Nat
  BY PlansAreTyped DEF PlanType
<1>5. candle.close \in Int
  BY CandleIsTyped DEF Ledger
<1>6. ASSUME NEW p \in Plans, PlaceOrder(p) PROVE Ledger'
  <2>1. Limit(p) \in Int
    <3>1. run.pullback \in Nat
      BY <1>1 DEF RunType
    <3> QED
      BY <1>4, <1>5, <3>1 DEF Limit
  <2>2. bar + ValidBars \in Nat
    BY <1>1, NumbersAreTyped
  <2>3. order' \in Orders
    BY <1>4, <1>6, <2>1, <2>2 DEF PlaceOrder, Orders
  <2> QED
    BY <1>1, <1>6, <2>3, QuietLedger DEF PlaceOrder, Analyse
<1>7. ASSUME NEW p \in Plans, EnterMarket(p) PROVE Ledger'
  <2>1. candle.close + p.dir * Slippage \in Int
    BY <1>4, <1>5, NumbersAreTyped
  <2> QED
    BY <1>1, <1>4, <1>5, <1>7, <2>1, OpenLedger DEF EnterMarket, Analyse
<1> QED
  BY <1>2, <1>3, <1>6, <1>7

LEMMA ForceCloseLedger ==
  ASSUME Ledger, ForceClose
  PROVE  Ledger'
<1>1. CASE ~Open
  <2>1. order \in Orders \cup {NoOrder} /\ lastSignal \in Int
    BY DEF Ledger, TypeOK
  <2> QED
    BY <1>1, <2>1, QuietLedger DEF ForceClose
<1>2. CASE Open
  <2> DEFINE t == Funded(trade, bar * BarLength)
  <2>1. trade \in Trades /\ bar * BarLength \in Nat
    BY NumbersAreTyped DEF Ledger, TypeOK
  <2>2. t \in Trades /\ t.remaining + t.exited = Size
    BY <1>2, <2>1, FundedKeeps DEF Alike, Ledger, NothingSoldTwice, Open
  <2>3. trade' = [Exit(t, 100) EXCEPT !.status = "closed"] /\ phase' = "done"
    BY <1>2 DEF ForceClose
  <2> HIDE DEF t
  <2>4. /\ Exit(t, 100) \in Trades
        /\ Exit(t, 100).remaining = 0
        /\ Exit(t, 100).remaining + Exit(t, 100).exited = Size
    BY <2>2, ExitConserves
  <2>5. candle.close \in Int /\ trade.dir \in {1, -1}
    BY <2>1, CandleIsTyped DEF Ledger, Trades
  <2>6. Slipped(candle.close, trade.dir) \in Int
    BY <2>5, SlippedIsTyped
  <2>7. filled' \subseteq Fills
    BY <1>2, <2>5, <2>6 DEF ForceClose, Fills, Ledger, TypeOK
  <2> QED
    BY <2>3, <2>4, <2>7, ClosedLedger DEF ForceClose
<1> QED
  BY <1>1, <1>2

LEMMA NextLedger == Ledger /\ [Next]_vars => Ledger'
<1> SUFFICES ASSUME Ledger, [Next]_vars PROVE Ledger'
  OBVIOUS
<1>1. CASE UNCHANGED vars
  BY <1>1 DEF vars, Ledger, TypeOK, NothingSoldTwice, Open
<1>2. CASE Next
  BY <1>2, NextBarLedger, ExecuteStopLedger, ExecuteTargetLedger, FinalizeLedger,
     LiquidateLedger, SurviveLedger, OrderLedger, SignalLedger, ForceCloseLedger DEF Next
<1> QED
  BY <1>1, <1>2

LEMMA LedgerHolds == Spec => []Ledger
  BY InitLedger, NextLedger, PTL DEF Spec

\* Every variable keeps its type, whatever the plans, the parameters and the candles.
THEOREM ReplayTypes == Spec => []TypeOK
<1>1. Ledger => TypeOK
  BY DEF Ledger
<1> QED
  BY <1>1, LedgerHolds, PTL

\* However a trade of any size is taken apart, by shares that may be rounded and by
\* any number of levels, its exits sum to its entry (executeExit, finalizeTrade).
THEOREM NothingSoldTwiceHolds == Spec => []NothingSoldTwice
<1>1. Ledger => NothingSoldTwice
  BY DEF Ledger
<1> QED
  BY <1>1, LedgerHolds, PTL

-----------------------------------------------------------------------------
(* The funding clock *)

LEMMA DivBounds ==
  ASSUME NEW a \in Nat, NEW f \in Nat \ {0}
  PROVE  a \div f \in Nat /\ (a \div f) * f <= a /\ a < (a \div f + 1) * f
  OBVIOUS

LEMMA Squeeze ==
  ASSUME NEW f \in Nat \ {0}, NEW p \in Int, NEW q \in Int, p < q
  PROVE  (p + 1) * f <= q * f
  OBVIOUS

\* A quotient is known by its bounds.
LEMMA DivUnique ==
  ASSUME NEW a \in Nat, NEW f \in Nat \ {0}, NEW q \in Nat, q * f <= a, a < (q + 1) * f
  PROVE  a \div f = q
<1> DEFINE d == a \div f
<1>1. d \in Nat /\ d * f <= a /\ a < (d + 1) * f
  BY DivBounds
<1> HIDE DEF d
<1>2. ~(d < q)
  <2> SUFFICES ASSUME d < q PROVE FALSE
    OBVIOUS
  <2>1. (d + 1) * f <= q * f
    BY <1>1, Squeeze
  <2>2. d * f \in Int /\ q * f \in Int /\ (d + 1) * f \in Int
    BY <1>1
  <2> QED
    BY <1>1, <2>1, <2>2
<1>3. ~(q < d)
  <2> SUFFICES ASSUME q < d PROVE FALSE
    OBVIOUS
  <2>1. (q + 1) * f <= d * f
    BY <1>1, Squeeze
  <2>2. d * f \in Int /\ q * f \in Int /\ (q + 1) * f \in Int
    BY <1>1
  <2> QED
    BY <1>1, <2>1, <2>2
<1> QED
  BY <1>1, <1>2, <1>3 DEF d

\* Counting from a multiple of f counts that many fewer.
LEMMA DivShift ==
  ASSUME NEW a \in Nat, NEW f \in Nat \ {0}, NEW k \in Nat, k * f <= a
  PROVE  (a - k * f) \div f = a \div f - k
<1> DEFINE d == a \div f
<1>1. d \in Nat /\ d * f <= a /\ a < (d + 1) * f
  BY DivBounds
<1> HIDE DEF d
<1>2. k <= d
  <2> SUFFICES ASSUME d < k PROVE FALSE
    BY <1>1
  <2>1. (d + 1) * f <= k * f
    BY <1>1, Squeeze
  <2>2. (d + 1) * f \in Int /\ k * f \in Int
    BY <1>1
  <2> QED
    BY <1>1, <2>1, <2>2
<1>3. d - k \in Nat /\ a - k * f \in Nat
  BY <1>1, <1>2
<1>4. (d - k) * f <= a - k * f /\ a - k * f < (d - k + 1) * f
  BY <1>1
<1>5. (a - k * f) \div f = d - k
  BY <1>3, <1>4, DivUnique
<1> QED
  BY <1>5 DEF d

\* now is the end of the current bar.  The clock of an open trade stands at the
\* first settlement after it, so nothing is charged twice.
Clock ==
  /\ Open => trade.next = NextFundingAfter(bar * BarLength)
  /\ FundingOncePerSettlement

LEMMA NextIsLater ==
  ASSUME NEW now \in Nat
  PROVE  /\ now \div FundingPeriod \in Nat
         /\ NextFundingAfter(now) \in Nat
         /\ now < NextFundingAfter(now)
<1>1. FundingPeriod \in Nat \ {0}
  BY NumbersAreTyped
<1>2. /\ now \div FundingPeriod \in Nat
      /\ now < (now \div FundingPeriod + 1) * FundingPeriod
  BY <1>1, DivBounds
<1> QED
  BY <1>1, <1>2 DEF NextFundingAfter

\* One candle charges the settlements it spans and moves the clock past its end.
LEMMA FundedCounts ==
  ASSUME NEW t \in Trades, NEW old \in Nat, NEW now \in Nat, old <= now,
         t.next = NextFundingAfter(old)
  PROVE  /\ Funded(t, now).next = NextFundingAfter(now)
         /\ Funded(t, now).charged
              = t.charged + (now \div FundingPeriod - old \div FundingPeriod)
<1> DEFINE f == FundingPeriod
           d == old \div f
           e == now \div f
<1>1. f \in Nat \ {0}
  BY NumbersAreTyped
<1>2. d \in Nat /\ d * f <= old /\ old < (d + 1) * f
  BY <1>1, DivBounds
<1>3. e \in Nat /\ e * f <= now /\ now < (e + 1) * f
  BY <1>1, DivBounds
<1>4. t.next = (d + 1) * f /\ NextFundingAfter(now) = (e + 1) * f
  BY DEF NextFundingAfter
<1>5. t.charged \in Nat
  BY DEF Trades
<1>6. CASE t.next > now
  <2>1. d * f <= now /\ now < (d + 1) * f
    BY <1>1, <1>2, <1>4, <1>6
  <2>2. e = d
    BY <1>1, <1>2, <2>1, DivUnique
  <2>3. Funded(t, now) = t
    BY <1>6 DEF Funded
  <2> HIDE DEF d, e, f
  <2> QED
    BY <1>2, <1>4, <1>5, <2>2, <2>3 DEF d, e, f
<1>7. CASE ~(t.next > now)
  <2> DEFINE n == (now - t.next) \div f + 1
  <2>1. (d + 1) * f <= now /\ d + 1 \in Nat
    BY <1>1, <1>2, <1>4, <1>7
  <2>2. (now - (d + 1) * f) \div f = now \div f - (d + 1)
    BY <1>1, <2>1, DivShift
  <2>3. n = e - d
    BY <1>2, <1>3, <1>4, <2>2
  <2>4. Funded(t, now) = [t EXCEPT !.charged = @ + n, !.next = @ + n * f]
    BY <1>7 DEF Funded
  <2> HIDE DEF n, d, e, f
  <2>5. (d + 1) * f + (e - d) * f = (e + 1) * f
    BY <1>1, <1>2, <1>3
  <2>6. Funded(t, now).charged = t.charged + n /\ Funded(t, now).next = t.next + n * f
    BY <2>4 DEF Trades
  <2> QED
    BY <1>4, <2>3, <2>5, <2>6 DEF d, e, f
<1> QED
  BY <1>6, <1>7

\* A step that does not touch the clock of the trade keeps it right.
LEMMA StillClock ==
  ASSUME Clock, UNCHANGED bar, trade'.next = trade.next, trade'.charged = trade.charged,
         trade'.opened = trade.opened, Open,
         trade'.status \in {"open", "closed"}
  PROVE  Clock'
  BY DEF Clock, FundingOncePerSettlement, Open, NextFundingAfter

\* Selling, protecting and trailing leave the clock alone.
LEMMA ExitKeepsClock ==
  ASSUME NEW t \in Trades, NEW pct \in Int
  PROVE  LET s == Exit(t, pct)
         IN  s.next = t.next /\ s.charged = t.charged /\ s.opened = t.opened
  BY DEF Exit, Trades

LEMMA SurvivorKeepsClock ==
  ASSUME NEW t \in Trades, NEW c \in Candles
  PROVE  LET s == Trailed(Protected(t, c), c)
         IN  s.next = t.next /\ s.charged = t.charged /\ s.opened = t.opened
  BY DEF Trailed, Protected, Trades

LEMMA ExecuteClock ==
  ASSUME Ledger, Clock, phase = "exits", NEW l \in queue, NEW t \in Trades,
         t.next = trade.next, t.charged = trade.charged, t.opened = trade.opened,
         t.status = trade.status, t.remaining = trade.remaining, t.exited = trade.exited,
         NEW kind, NEW levelFill,
         ExecuteLevel(kind, l, levelFill, Exit(t, ClosePct(l)))
  PROVE  Clock'
<1>1. ClosePct(l) \in Int
  BY DEF ClosePct, Levels, Ledger, TypeOK
<1>2. Open /\ t.status = "open" /\ t.remaining + t.exited = Size
  BY DEF Ledger, Open, NothingSoldTwice
<1>3. trade'.status = "open"
  BY <1>1, <1>2, ExitConserves DEF ExecuteLevel
<1>4. /\ trade'.next = trade.next /\ trade'.charged = trade.charged
      /\ trade'.opened = trade.opened
  BY <1>1, ExitKeepsClock DEF ExecuteLevel
<1> QED
  BY <1>2, <1>3, <1>4, StillClock DEF ExecuteLevel

LEMMA NextClock ==
  ASSUME Ledger, Clock, [Next]_vars
  PROVE  Clock'
<1>1. /\ trade \in Trades /\ candle \in Candles /\ bar \in Nat
      /\ bar * BarLength \in Nat /\ (bar + 1) * BarLength \in Nat
      /\ bar * BarLength <= (bar + 1) * BarLength
  BY NumbersAreTyped DEF Ledger, TypeOK
<1>2. CASE UNCHANGED vars
  BY <1>2 DEF vars, Clock, FundingOncePerSettlement, Open, NextFundingAfter
<1>3. ASSUME NEW c \in Candles, NextBar(c) PROVE Clock'
  <2>1. CASE Open
    <3>1. /\ trade' = Funded(trade, (bar + 1) * BarLength) /\ bar' = bar + 1
          /\ trade.next = NextFundingAfter(bar * BarLength)
          /\ trade.charged = (bar * BarLength) \div FundingPeriod
                               - (trade.opened * BarLength) \div FundingPeriod
      BY <1>3, <2>1 DEF NextBar, Clock, FundingOncePerSettlement
    <3>2. /\ trade'.next = NextFundingAfter((bar + 1) * BarLength)
          /\ trade'.charged = trade.charged + (((bar + 1) * BarLength) \div FundingPeriod
                                                 - (bar * BarLength) \div FundingPeriod)
      BY <1>1, <3>1, FundedCounts
    <3>3. trade'.opened = trade.opened /\ trade.opened \in Nat
      BY <1>1, <3>1 DEF Funded, Trades
    <3>4. trade.opened * BarLength \in Nat /\ FundingPeriod \in Nat \ {0}
      BY <3>3, NumbersAreTyped
    <3>5. /\ (trade.opened * BarLength) \div FundingPeriod \in Nat
          /\ (bar * BarLength) \div FundingPeriod \in Nat
          /\ ((bar + 1) * BarLength) \div FundingPeriod \in Nat
      BY <1>1, <3>4, QuotientIsNat
    <3>6. trade'.charged = ((bar + 1) * BarLength) \div FundingPeriod
                             - (trade.opened * BarLength) \div FundingPeriod
      BY <3>1, <3>2, <3>5
    <3> QED
      BY <3>1, <3>2, <3>3, <3>6 DEF Clock, FundingOncePerSettlement, NextFundingAfter
  <2>2. CASE ~Open
    BY <1>3, <2>2 DEF NextBar, Clock, FundingOncePerSettlement, Open
  <2> QED
    BY <2>1, <2>2
<1>4. ASSUME NEW l \in queue, ExecuteStop(l) PROVE Clock'
  <2> DEFINE t == [trade EXCEPT !.stops = @ \ {l}]
  <2>1. /\ t \in Trades /\ t.next = trade.next /\ t.charged = trade.charged
        /\ t.opened = trade.opened /\ t.status = trade.status
        /\ t.remaining = trade.remaining /\ t.exited = trade.exited
    BY <1>1 DEF Trades
  <2>2. /\ phase = "exits"
        /\ ExecuteLevel("stop_loss", l, Slipped(StopFill(l.price, candle, trade.dir), trade.dir),
                        Exit(t, ClosePct(l)))
    BY <1>4 DEF ExecuteStop
  <2> HIDE DEF t
  <2> QED
    BY <2>1, <2>2, ExecuteClock
<1>5. ASSUME NEW l \in queue, ExecuteTarget(l) PROVE Clock'
  <2> DEFINE t == [trade EXCEPT !.targets = @ \ {l}, !.banked = TRUE]
  <2>1. /\ t \in Trades /\ t.next = trade.next /\ t.charged = trade.charged
        /\ t.opened = trade.opened /\ t.status = trade.status
        /\ t.remaining = trade.remaining /\ t.exited = trade.exited
    BY <1>1 DEF Trades
  <2>2. /\ phase = "exits"
        /\ ExecuteLevel("take_profit", l, l.price, Exit(t, ClosePct(l)))
    BY <1>5 DEF ExecuteTarget
  <2> HIDE DEF t
  <2> QED
    BY <2>1, <2>2, ExecuteClock
<1>6. CASE FinalizeTrade
  <2>1. /\ trade'.next = trade.next /\ trade'.charged = trade.charged
        /\ trade'.opened = trade.opened /\ trade'.status = "closed"
    BY <1>1, <1>6 DEF FinalizeTrade, Trades
  <2> QED
    BY <1>6, <2>1, StillClock DEF FinalizeTrade, Ledger
<1>7. CASE Liquidate
  <2>1. Exit(trade, 100) \in Trades
    BY <1>1, <1>7, ExitConserves DEF Liquidate, Ledger, NothingSoldTwice, Open
  <2>2. LET s == Exit(trade, 100)
        IN  s.next = trade.next /\ s.charged = trade.charged /\ s.opened = trade.opened
    BY <1>1, ExitKeepsClock
  <2>3. /\ trade'.next = trade.next /\ trade'.charged = trade.charged
        /\ trade'.opened = trade.opened /\ trade'.status = "closed"
    BY <1>7, <2>1, <2>2 DEF Liquidate, Trades
  <2> QED
    BY <1>7, <2>3, StillClock DEF Liquidate, Ledger
<1>8. CASE Survive
  <2>1. /\ trade'.next = trade.next /\ trade'.charged = trade.charged
        /\ trade'.opened = trade.opened
    BY <1>1, <1>8, SurvivorKeepsClock DEF Survive
  <2>2. trade'.status = trade.status
    BY <1>1, <1>8, SurvivorKeeps DEF Survive, Alike, Ledger
  <2> QED
    BY <1>8, <2>1, <2>2, StillClock DEF Survive, Ledger, Open
<1>9. ASSUME UNCHANGED <<bar, trade, filled>> PROVE Clock'
  BY <1>9 DEF Clock, FundingOncePerSettlement, Open, NextFundingAfter
<1>10. ASSUME NEW p, NEW base, NEW entry, OpenTrade(p, base, entry), UNCHANGED bar
       PROVE  Clock'
  <2>1. /\ trade'.status = "open" /\ trade'.next = NextFundingAfter(bar * BarLength)
        /\ trade'.charged = 0 /\ trade'.opened = bar
    BY <1>10 DEF OpenTrade, Opened
  <2>2. (bar * BarLength) \div FundingPeriod \in Nat
    BY <1>1, NumbersAreTyped, QuotientIsNat
  <2>3. trade'.charged = (bar * BarLength) \div FundingPeriod
                           - (trade'.opened * BarLength) \div FundingPeriod
    BY <2>1, <2>2
  <2> QED
    BY <1>10, <2>1, <2>3 DEF Clock, FundingOncePerSettlement, Open, NextFundingAfter
<1>11. CASE KeepOrder \/ LapseOrder
  BY <1>9, <1>11 DEF KeepOrder, LapseOrder
<1>12. ASSUME NEW granted \in BOOLEAN, FillOrder(granted) PROVE Clock'
  <2>1. CASE granted
    <3>1. OpenTrade(order.plan, order.limit, order.limit) /\ UNCHANGED bar
      BY <1>12, <2>1 DEF FillOrder
    <3> QED
      BY <3>1, <1>10
  <2>2. CASE ~granted
    BY <1>9, <1>12, <2>2 DEF FillOrder
  <2> QED
    BY <2>1, <2>2
<1>13. CASE SkipAnalysis \/ NoEntry
  BY <1>9, <1>13 DEF SkipAnalysis, NoEntry, Analyse
<1>14. ASSUME NEW p \in Plans, PlaceOrder(p) PROVE Clock'
  BY <1>9, <1>14 DEF PlaceOrder, Analyse
<1>15. ASSUME NEW p \in Plans, EnterMarket(p) PROVE Clock'
  <2>1. OpenTrade(p, candle.close, candle.close + p.dir * Slippage) /\ UNCHANGED bar
    BY <1>15 DEF EnterMarket, Analyse
  <2> QED
    BY <2>1, <1>10
<1>16. CASE ForceClose
  <2>1. CASE ~Open
    BY <1>9, <1>16, <2>1 DEF ForceClose
  <2>2. CASE Open
    <3>1. trade.next > bar * BarLength
      BY <1>1, <2>2, NextIsLater DEF Clock
    <3>2. Funded(trade, bar * BarLength) = trade
      BY <3>1 DEF Funded
    <3>3. Exit(trade, 100) \in Trades
      BY <1>1, <2>2, ExitConserves DEF Ledger, NothingSoldTwice, Open
    <3>4. LET s == Exit(trade, 100)
          IN  s.next = trade.next /\ s.charged = trade.charged /\ s.opened = trade.opened
      BY <1>1, ExitKeepsClock
    <3>5. /\ trade'.next = trade.next /\ trade'.charged = trade.charged
          /\ trade'.opened = trade.opened /\ trade'.status = "closed"
      BY <1>16, <2>2, <3>2, <3>3, <3>4 DEF ForceClose, Trades
    <3> QED
      BY <1>16, <2>2, <3>5, StillClock DEF ForceClose
  <2> QED
    BY <2>1, <2>2
<1> QED
  BY <1>2, <1>3, <1>4, <1>5, <1>6, <1>7, <1>8, <1>11, <1>12, <1>13, <1>14, <1>15, <1>16 DEF Next

LEMMA InitClock == Init => Clock
  BY DEF Init, Clock, FundingOncePerSettlement, Open, NoTrade

\* Whatever the length of a candle and the time between settlements, a trade pays each
\* settlement between its opening and now once (applyFunding, nextFundingAfter).
THEOREM FundingOnceHolds == Spec => []FundingOncePerSettlement
<1>1. Clock => FundingOncePerSettlement
  BY DEF Clock
<1>2. Ledger /\ Clock /\ [Next]_vars => Clock'
  BY NextClock
<1> QED
  BY <1>1, <1>2, InitClock, LedgerHolds, PTL DEF Spec

-----------------------------------------------------------------------------
(* The order of events within a bar *)

\* In the middle of the exits a bar is one of three kinds.
AtLevel(f, levels) == \E l \in levels : l.price = f.price
Near(l) == trade.dir * (l.price - LiquidationPrice(trade)) > 0
TargetsReached == TargetsTouched(trade, candle, standing.targets)

\* What FillsWerePossible says of one fill.
WasPossible(f) ==
  /\ trade.dir * (f.fill - f.price) <= 0
  /\ f.kind = "stop_loss" =>
       /\ candle.low <= f.fill + trade.dir * Slippage
       /\ f.fill + trade.dir * Slippage <= candle.high

\* It executes stops: each was reached, and each that is not due any more was executed.
StopBar ==
  /\ Reached # {} /\ queue \subseteq Reached
  /\ \A f \in filled : f.kind = "stop_loss" /\ AtLevel(f, Reached) /\ WasPossible(f)
  /\ trade.remaining > 0 =>
       \A l \in Reached \ queue : \E f \in filled : f.kind = "stop_loss" /\ f.price = l.price

\* It executes targets: it reached no stop, and not the liquidation price.
TargetBar ==
  /\ Reached = {} /\ ~Liquidated(trade, candle) /\ queue \subseteq TargetsReached
  /\ \A f \in filled : f.kind = "take_profit" /\ AtLevel(f, standing.targets) /\ WasPossible(f)

\* It liquidates the trade before any stop.
LiquidationBar ==
  /\ Liquidated(trade, candle) /\ queue = {} /\ filled = {}
  /\ \A l \in Reached : ~Near(l)

Honest == IF phase = "exits" THEN StopBar \/ TargetBar \/ LiquidationBar ELSE BarIsHonest

\* What an exit, funding or a moved stop leaves alone.
Fixed(s, t) == s.dir = t.dir /\ s.entry = t.entry /\ s.margin = t.margin

\* Selling leaves everything but the quantities alone, and never adds to the trade.
LEMMA ExitSteady ==
  ASSUME NEW t \in Trades, NEW pct \in Int
  PROVE  LET s == Exit(t, pct)
         IN  /\ Fixed(s, t) /\ s.stops = t.stops /\ s.targets = t.targets /\ s.trail = t.trail
             /\ s.breakEven = t.breakEven /\ s.banked = t.banked /\ s.status = t.status
             /\ s.remaining > 0 => t.remaining > 0
<1>1. /\ Fixed(Exit(t, pct), t)
      /\ Exit(t, pct).stops = t.stops /\ Exit(t, pct).targets = t.targets
      /\ Exit(t, pct).trail = t.trail /\ Exit(t, pct).breakEven = t.breakEven
      /\ Exit(t, pct).banked = t.banked /\ Exit(t, pct).status = t.status
  BY DEF Exit, Trades, Fixed
<1>2. Exit(t, pct).remaining > 0 => t.remaining > 0
  <2> DEFINE share == (Size * pct + 50) \div 100
             qty == IF pct >= 100 \/ share > t.remaining THEN t.remaining ELSE share
  <2>1. Size \in Nat /\ t.remaining \in 0..Size
    BY NumbersAreTyped DEF Trades
  <2>2. share \in Int
    BY <2>1
  <2> HIDE DEF share
  <2>3. qty \in Int /\ qty <= t.remaining
    BY <2>1, <2>2
  <2>4. Exit(t, pct) = IF qty <= 0 THEN t
                       ELSE [t EXCEPT !.exited = @ + qty, !.remaining = Floored(@ - qty)]
    BY DEF Exit, share
  <2> HIDE DEF qty
  <2>5. CASE qty <= 0
    BY <2>4, <2>5
  <2>6. CASE ~(qty <= 0)
    BY <2>1, <2>3, <2>6
  <2> QED
    BY <2>5, <2>6
<1> QED
  BY <1>1, <1>2

LEMMA FundedSteady ==
  ASSUME NEW t \in Trades, NEW now \in Nat
  PROVE  LET s == Funded(t, now)
         IN  /\ Fixed(s, t) /\ s.stops = t.stops /\ s.targets = t.targets /\ s.trail = t.trail
             /\ s.breakEven = t.breakEven /\ s.banked = t.banked /\ s.status = t.status
  BY DEF Funded, Trades, Fixed

LEMMA SurvivorSteady ==
  ASSUME NEW t \in Trades, NEW c \in Candles
  PROVE  LET s == Trailed(Protected(t, c), c)
         IN  /\ Fixed(s, t) /\ s.targets = t.targets /\ s.trail = t.trail
             /\ s.banked = t.banked /\ s.status = t.status
  BY DEF Trailed, Protected, Trades, Fixed

\* A stop the candle reached gets a price of the candle, behind a gap too (stopFill).
LEMMA StopFillIsTraded ==
  ASSUME NEW c \in Candles, NEW dir \in {1, -1}, NEW price \in Int, TouchesStop(c, dir, price)
  PROVE  /\ c.low <= StopFill(price, c, dir) /\ StopFill(price, c, dir) <= c.high
         /\ dir * (StopFill(price, c, dir) - price) <= 0
<1>1. /\ c.open \in Int /\ c.high \in Int /\ c.low \in Int
      /\ c.low <= c.open /\ c.open <= c.high
  BY PricesAreInts DEF Candles
<1>2. CASE dir = 1
  BY <1>1, <1>2 DEF TouchesStop, Worst, StopFill, Worse
<1>3. CASE dir = -1
  BY <1>1, <1>3 DEF TouchesStop, Worst, StopFill, Worse
<1> QED
  BY <1>2, <1>3

\* The liquidation fill is no better than the liquidation price, for all that it is capped.
LEMMA LiquidationFillIsNoBetter ==
  ASSUME NEW c \in Candles, NEW t \in Trades
  PROVE  LiquidationPrice(t) \in Int /\ LiquidationFill(t, c) \in Int
         /\ t.dir * (LiquidationFill(t, c) - LiquidationPrice(t)) <= 0
<1>1. c.open \in Int /\ t.entry \in Int /\ t.margin \in Nat /\ t.dir \in {1, -1}
  BY PricesAreInts DEF Candles, Trades
<1>2. PICK kept : kept = Floored(t.margin - Maintenance)
  OBVIOUS
<1>3. kept \in Nat /\ kept <= t.margin
  BY <1>1, <1>2, NumbersAreTyped DEF Floored
<1>4. LiquidationPrice(t) = t.entry - t.dir * kept
  BY <1>2 DEF LiquidationPrice
<1>5. PICK liquidation : liquidation = LiquidationPrice(t)
  OBVIOUS
<1>6. PICK bankruptcy : bankruptcy = t.entry - t.dir * t.margin
  OBVIOUS
<1>7. /\ liquidation \in Int /\ bankruptcy \in Int
      /\ t.dir * (bankruptcy - liquidation) <= 0
  BY <1>1, <1>3, <1>4, <1>5, <1>6
<1>8. LiquidationFill(t, c) = Better(t.dir, Worse(t.dir, liquidation, c.open), bankruptcy)
  BY <1>5, <1>6 DEF LiquidationFill, StopFill
<1>9. PICK fill : fill = Worse(t.dir, liquidation, c.open)
  OBVIOUS
<1>10. fill \in Int /\ t.dir * (fill - liquidation) <= 0
  BY <1>1, <1>7, <1>9 DEF Worse
<1> QED
  BY <1>1, <1>5, <1>7, <1>8, <1>9, <1>10 DEF Better

LEMMA PossibleIsEach == FillsWerePossible <=> \A f \in filled : WasPossible(f)
  BY DEF FillsWerePossible, WasPossible

LEMMA PossibleStays ==
  ASSUME UNCHANGED candle, trade'.dir = trade.dir, NEW f, WasPossible(f)
  PROVE  WasPossible(f)'
  BY DEF WasPossible

LEMMA HonestKept ==
  ASSUME BarIsHonest, UNCHANGED <<candle, standing, filled>>, trade'.dir = trade.dir
  PROVE  BarIsHonest'
  BY DEF BarIsHonest, StopsFirst, OnlyStandingLevels, StopsBeforeLiquidation, FillsWerePossible

LEMMA NothingFilled ==
  ASSUME filled' = {}
  PROVE  BarIsHonest'
  BY DEF BarIsHonest, StopsFirst, OnlyStandingLevels, StopsBeforeLiquidation, FillsWerePossible

\* Each kind of bar is honest at any moment of it.
LEMMA BarsAreHonest ==
  ASSUME Honest
  PROVE  BarIsHonest
<1>1. CASE phase # "exits"
  BY <1>1 DEF Honest
<1>2. CASE phase = "exits"
  <2> USE PossibleIsEach DEF BarIsHonest, StopsFirst, OnlyStandingLevels,
              StopsBeforeLiquidation, AtLevel
  <2>1. CASE StopBar
    BY <2>1 DEF StopBar, Reached, StopsTouched
  <2>2. CASE TargetBar
    BY <2>2 DEF TargetBar, Reached, StopsTouched
  <2>3. CASE LiquidationBar
    BY <2>3 DEF LiquidationBar
  <2> QED
    BY <1>2, <2>1, <2>2, <2>3 DEF Honest
<1> QED
  BY <1>1, <1>2

\* How a bar begins: Due tells the three kinds apart.
LEMMA NextBarHonest ==
  ASSUME Ledger, NEW c \in Candles, NextBar(c)
  PROVE  Honest'
<1>1. filled' = {} /\ candle' = c
  BY DEF NextBar
<1>2. CASE ~Open
  BY <1>1, <1>2, NothingFilled DEF NextBar, Honest
<1>3. CASE Open
  <2>1. /\ trade' = Funded(trade, (bar + 1) * BarLength) /\ queue' = Due(trade, c)
        /\ standing' = [stops |-> trade.stops, targets |-> trade.targets] /\ phase' = "exits"
    BY <1>3 DEF NextBar
  <2>2. Fixed(trade', trade)
    <3>1. trade \in Trades /\ (bar + 1) * BarLength \in Nat
      BY NumbersAreTyped DEF Ledger, TypeOK
    <3> QED
      BY <2>1, <3>1, FundedSteady
  <2>3. /\ Reached' = StopsTouched(trade, c, trade.stops)
        /\ TargetsReached' = TargetsTouched(trade, c, trade.targets)
    BY <1>1, <2>1, <2>2 DEF Fixed, Reached, TargetsReached, StopsTouched, TargetsTouched
  <2>4. LiquidationPrice(trade)' = LiquidationPrice(trade)
    BY <2>2 DEF Fixed, LiquidationPrice
  <2>5. Liquidated(trade, candle)' <=> Liquidated(trade, c)
    BY <1>1, <2>2, <2>4 DEF Liquidated, Fixed
  <2>6. CASE Liquidated(trade, c) /\ ~StopPrecedes(trade, c)
    <3>1. \A l \in Reached' : ~Near(l)'
      BY <2>2, <2>3, <2>4, <2>6 DEF StopPrecedes, Near, Fixed
    <3>2. LiquidationBar'
      BY <1>1, <2>1, <2>5, <2>6, <3>1 DEF LiquidationBar, Due
    <3> QED
      BY <2>1, <3>2 DEF Honest
  <2>7. CASE ~(Liquidated(trade, c) /\ ~StopPrecedes(trade, c)) /\ Reached' # {}
    <3>1. queue' = Reached'
      BY <2>1, <2>3, <2>7 DEF Due
    <3>2. StopBar'
      BY <1>1, <2>7, <3>1 DEF StopBar
    <3> QED
      BY <2>1, <3>2 DEF Honest
  <2>8. CASE ~(Liquidated(trade, c) /\ ~StopPrecedes(trade, c)) /\ Reached' = {}
    <3>1. queue' = TargetsReached'
      BY <2>1, <2>3, <2>8 DEF Due
    <3>2. ~Liquidated(trade, c)
      BY <2>3, <2>8 DEF StopPrecedes
    <3>3. TargetBar'
      BY <1>1, <2>5, <2>8, <3>1, <3>2 DEF TargetBar
    <3> QED
      BY <2>1, <3>3 DEF Honest
  <2> QED
    BY <2>6, <2>7, <2>8
<1> QED
  BY <1>2, <1>3

\* What the execution of a level does to the trade.
LEMMA StopExecuted ==
  ASSUME Ledger, NEW l \in queue, ExecuteStop(l)
  PROVE  /\ Fixed(trade', trade) /\ trade'.targets = trade.targets /\ trade'.trail = trade.trail
         /\ trade'.breakEven = trade.breakEven /\ trade'.banked = trade.banked
         /\ trade'.status = trade.status /\ trade'.stops = trade.stops \ {l}
         /\ trade'.remaining > 0 => trade.remaining > 0
<1>1. trade \in Trades /\ ClosePct(l) \in Int
  BY DEF Ledger, TypeOK, ClosePct, Levels
<1> DEFINE t == [trade EXCEPT !.stops = @ \ {l}]
<1>2. /\ t \in Trades /\ Fixed(t, trade) /\ t.targets = trade.targets /\ t.trail = trade.trail
      /\ t.breakEven = trade.breakEven /\ t.banked = trade.banked /\ t.status = trade.status
      /\ t.stops = trade.stops \ {l} /\ t.remaining = trade.remaining
  BY <1>1 DEF Trades, Fixed
<1>3. trade' = Exit(t, ClosePct(l))
  BY DEF ExecuteStop, ExecuteLevel
<1> HIDE DEF t
<1> QED
  BY <1>1, <1>2, <1>3, ExitSteady DEF Fixed

LEMMA TargetExecuted ==
  ASSUME Ledger, NEW l \in queue, ExecuteTarget(l)
  PROVE  /\ Fixed(trade', trade) /\ trade'.stops = trade.stops /\ trade'.trail = trade.trail
         /\ trade'.breakEven = trade.breakEven /\ trade'.banked = TRUE
         /\ trade'.status = trade.status /\ trade'.targets = trade.targets \ {l}
         /\ trade'.remaining > 0 => trade.remaining > 0
<1>1. trade \in Trades /\ ClosePct(l) \in Int
  BY DEF Ledger, TypeOK, ClosePct, Levels
<1> DEFINE t == [trade EXCEPT !.targets = @ \ {l}, !.banked = TRUE]
<1>2. /\ t \in Trades /\ Fixed(t, trade) /\ t.stops = trade.stops /\ t.trail = trade.trail
      /\ t.breakEven = trade.breakEven /\ t.banked = TRUE /\ t.status = trade.status
      /\ t.targets = trade.targets \ {l} /\ t.remaining = trade.remaining
  BY <1>1 DEF Trades, Fixed
<1>3. trade' = Exit(t, ClosePct(l))
  BY DEF ExecuteTarget, ExecuteLevel
<1> HIDE DEF t
<1> QED
  BY <1>1, <1>2, <1>3, ExitSteady DEF Fixed

\* While the candle and the trade's direction stay, so does what the candle reached.
LEMMA SameReach ==
  ASSUME UNCHANGED <<candle, standing>>, Fixed(trade', trade)
  PROVE  /\ Reached' = Reached /\ TargetsReached' = TargetsReached
         /\ Liquidated(trade, candle)' <=> Liquidated(trade, candle)
  BY DEF Fixed, Reached, TargetsReached, StopsTouched, TargetsTouched, Liquidated, LiquidationPrice

LEMMA ExecuteStopHonest ==
  ASSUME Ledger, Honest, NEW l \in queue, ExecuteStop(l)
  PROVE  Honest'
<1>1. /\ phase = "exits" /\ phase' = "exits" /\ l \in Reached
      /\ UNCHANGED <<candle, standing>>
      /\ filled' = filled \cup {[kind |-> "stop_loss", price |-> l.price,
                        fill |-> Slipped(StopFill(l.price, candle, trade.dir), trade.dir)]}
      /\ queue' = IF trade'.remaining = 0 THEN {} ELSE queue \ {l}
  BY Zenon DEF ExecuteStop, ExecuteLevel
<1>2. Fixed(trade', trade) /\ (trade'.remaining > 0 => trade.remaining > 0)
  BY StopExecuted
<1>3. Reached' = Reached
  BY <1>1, <1>2, SameReach
<1>4. StopBar
  BY <1>1 DEF Honest, TargetBar, LiquidationBar
<1> DEFINE level == StopFill(l.price, candle, trade.dir)
           new == [kind |-> "stop_loss", price |-> l.price, fill |-> Slipped(level, trade.dir)]
<1>5. candle \in Candles /\ trade.dir \in {1, -1} /\ l.price \in Int
  BY DEF Ledger, TypeOK, Trades, Levels
<1>6. /\ new.kind = "stop_loss" /\ new.price = l.price
      /\ WasPossible(new)
  <2>1. TouchesStop(candle, trade.dir, l.price)
    BY <1>1 DEF Reached, StopsTouched
  <2>2. /\ level \in Int /\ candle.low <= level /\ level <= candle.high
        /\ trade.dir * (level - l.price) <= 0
    BY <1>5, <2>1, StopFillIsTraded, StopFillIsTyped DEF Ledger
  <2> HIDE DEF level
  <2>3. PICK fill : fill = Slipped(level, trade.dir)
    OBVIOUS
  <2>4. /\ fill \in Int /\ fill + trade.dir * Slippage = level
        /\ trade.dir * (fill - level) <= 0
    BY <1>5, <2>2, <2>3, SlippedIsTyped
  <2>5. trade.dir * (fill - l.price) <= 0
    BY <1>5, <2>2, <2>4
  <2> QED
    BY <2>2, <2>3, <2>4, <2>5 DEF WasPossible
<1>7. filled' = filled \cup {new}
  BY <1>1
<1> HIDE DEF new, level
<1>8. \A f \in filled' : f.kind = "stop_loss" /\ AtLevel(f, Reached) /\ WasPossible(f)
  BY <1>1, <1>4, <1>6, <1>7 DEF StopBar, AtLevel
<1>9. ASSUME trade'.remaining > 0, NEW m \in Reached \ queue'
      PROVE  \E f \in filled' : f.kind = "stop_loss" /\ f.price = m.price
  <2>1. CASE m = l
    BY <1>6, <1>7, <2>1
  <2>2. CASE m # l
    BY <1>1, <1>2, <1>4, <1>7, <1>9, <2>2 DEF StopBar
  <2> QED
    BY <2>1, <2>2
<1>10. Reached # {} /\ queue' \subseteq Reached
  BY <1>1, <1>4 DEF StopBar
<1>11. \A f \in filled' : WasPossible(f)'
  BY <1>1, <1>2, <1>8, PossibleStays DEF Fixed
<1>12. StopBar'
  BY <1>1, <1>3, <1>8, <1>9, <1>10, <1>11 DEF StopBar, AtLevel
<1> QED
  BY <1>1, <1>12 DEF Honest

LEMMA ExecuteTargetHonest ==
  ASSUME Ledger, Honest, NEW l \in queue, ExecuteTarget(l)
  PROVE  Honest'
<1>1. /\ phase = "exits" /\ phase' = "exits" /\ l \notin Reached
      /\ UNCHANGED <<candle, standing>>
      /\ filled' = filled \cup {[kind |-> "take_profit", price |-> l.price, fill |-> l.price]}
      /\ queue' \subseteq queue
  BY DEF ExecuteTarget, ExecuteLevel
<1>2. Fixed(trade', trade)
  BY TargetExecuted
<1>3. /\ Reached' = Reached /\ TargetsReached' = TargetsReached
      /\ Liquidated(trade, candle)' <=> Liquidated(trade, candle)
  BY <1>1, <1>2, SameReach
<1>4. TargetBar
  BY <1>1 DEF Honest, StopBar, LiquidationBar
<1>5. l \in standing.targets
  BY <1>4 DEF TargetBar, TargetsReached, TargetsTouched
<1> DEFINE new == [kind |-> "take_profit", price |-> l.price, fill |-> l.price]
<1>6. new.kind = "take_profit" /\ new.price = l.price /\ WasPossible(new)
  <2>1. trade.dir \in {1, -1} /\ l.price \in Int
    BY DEF Ledger, TypeOK, Trades, Levels
  <2> QED
    BY <2>1 DEF WasPossible
<1>7. filled' = filled \cup {new}
  BY <1>1
<1> HIDE DEF new
<1>8. \A f \in filled' : f.kind = "take_profit" /\ AtLevel(f, standing.targets) /\ WasPossible(f)
  BY <1>4, <1>5, <1>6, <1>7 DEF TargetBar, AtLevel
<1>9. \A f \in filled' : WasPossible(f)'
  BY <1>1, <1>2, <1>8, PossibleStays DEF Fixed
<1>10. TargetBar'
  BY <1>1, <1>3, <1>4, <1>8, <1>9 DEF TargetBar, AtLevel
<1> QED
  BY <1>1, <1>10 DEF Honest

LEMMA LiquidateHonest ==
  ASSUME Ledger, Honest, Liquidate
  PROVE  Honest'
<1>1. /\ phase = "exits" /\ phase' = "order" /\ queue = {} /\ trade.remaining > 0
      /\ Liquidated(trade, candle) /\ UNCHANGED <<candle, standing>>
      /\ filled' = filled \cup {[kind |-> "liquidation", price |-> LiquidationPrice(trade),
                        fill |-> Slipped(LiquidationFill(trade, candle), trade.dir)]}
      /\ trade' = [Exit(trade, 100) EXCEPT !.status = "closed"]
  BY DEF Liquidate
<1>2. trade'.dir = trade.dir
  <2>1. trade \in Trades /\ trade.remaining + trade.exited = Size
    BY <1>1 DEF Ledger, TypeOK, NothingSoldTwice, Open
  <2>2. Exit(trade, 100) \in Trades
    BY <2>1, ExitConserves
  <2>3. Fixed(Exit(trade, 100), trade)
    BY <2>1, ExitSteady
  <2> QED
    BY <1>1, <2>2, <2>3 DEF Fixed, Trades
<1>3. BarIsHonest
  BY BarsAreHonest
<1> DEFINE new == [kind |-> "liquidation", price |-> LiquidationPrice(trade),
                   fill |-> Slipped(LiquidationFill(trade, candle), trade.dir)]
<1>4. /\ new.kind = "liquidation" /\ new.price = LiquidationPrice(trade)
      /\ WasPossible(new)
  <2>1. trade \in Trades /\ candle \in Candles /\ trade.dir \in {1, -1}
    BY DEF Ledger, TypeOK, Trades
  <2>2. PICK price : price = LiquidationPrice(trade)
    OBVIOUS
  <2>3. PICK level : level = LiquidationFill(trade, candle)
    OBVIOUS
  <2>4. price \in Int /\ level \in Int /\ trade.dir * (level - price) <= 0
    BY <2>1, <2>2, <2>3, LiquidationFillIsNoBetter
  <2>5. PICK fill : fill = Slipped(level, trade.dir)
    OBVIOUS
  <2>6. fill \in Int /\ trade.dir * (fill - level) <= 0
    BY <2>1, <2>4, <2>5, SlippedIsTyped
  <2>7. trade.dir * (fill - price) <= 0
    BY <2>1, <2>4, <2>6
  <2> QED
    BY <2>2, <2>3, <2>5, <2>7 DEF WasPossible
<1>5. filled' = filled \cup {new}
  BY <1>1
<1> HIDE DEF new
<1>6. ASSUME NEW l \in standing.stops, TouchesStop(candle, trade.dir, l.price), Near(l)
      PROVE  \E g \in filled : g.kind = "stop_loss" /\ g.price = l.price
  <2>1. l \in Reached
    BY <1>6 DEF Reached, StopsTouched
  <2>2. StopBar
    BY <1>1, <1>6, <2>1 DEF Honest, TargetBar, LiquidationBar
  <2> QED
    BY <1>1, <2>1, <2>2 DEF StopBar
<1>7. StopsFirst'
  BY <1>1, <1>2, <1>3, <1>4, <1>5 DEF BarIsHonest, StopsFirst
<1>8. OnlyStandingLevels'
  BY <1>1, <1>3, <1>4, <1>5 DEF BarIsHonest, OnlyStandingLevels
<1>9. ASSUME NEW f \in filled', f.kind = "liquidation", NEW l \in standing.stops,
             TouchesStop(candle, trade.dir, l.price), trade.dir * (l.price - f.price) > 0
      PROVE  \E g \in filled' : g.kind = "stop_loss" /\ g.price = l.price
  <2>1. CASE f = new
    <3>1. Near(l)
      BY <1>4, <1>9, <2>1 DEF Near
    <3> QED
      BY <1>5, <1>6, <1>9, <3>1
  <2>2. CASE f \in filled
    BY <1>3, <1>5, <1>9, <2>2 DEF BarIsHonest, StopsBeforeLiquidation
  <2> QED
    BY <1>5, <1>9, <2>1, <2>2
<1>10. StopsBeforeLiquidation'
  BY <1>1, <1>2, <1>9 DEF StopsBeforeLiquidation
<1>11. FillsWerePossible'
  <2>1. \A f \in filled' : WasPossible(f)
    BY <1>3, <1>4, <1>5, PossibleIsEach DEF BarIsHonest
  <2>2. \A f \in filled' : WasPossible(f)'
    BY <1>1, <1>2, <2>1, PossibleStays
  <2> QED
    BY <2>2 DEF FillsWerePossible, WasPossible
<1> QED
  BY <1>1, <1>7, <1>8, <1>10, <1>11 DEF Honest, BarIsHonest

LEMMA ForceCloseHonest ==
  ASSUME Ledger, Honest, ForceClose
  PROVE  Honest'
<1>1. BarIsHonest /\ phase' # "exits"
  BY BarsAreHonest DEF ForceClose
<1>2. CASE ~Open
  <2>1. UNCHANGED <<candle, standing, filled, trade>>
    BY <1>2 DEF ForceClose
  <2> QED
    BY <1>1, <2>1, HonestKept DEF Honest
<1>3. CASE Open
  <2> DEFINE now == bar * BarLength
             new == [kind |-> "end_of_period", price |-> candle.close,
                     fill |-> Slipped(candle.close, trade.dir)]
  <2>1. trade \in Trades /\ now \in Nat /\ trade.remaining + trade.exited = Size
    BY <1>3, NumbersAreTyped DEF Ledger, TypeOK, NothingSoldTwice, Open
  <2>2. /\ trade' = [Exit(Funded(trade, now), 100) EXCEPT !.status = "closed"]
        /\ filled' = filled \cup {new} /\ UNCHANGED <<candle, standing>>
    BY <1>3 DEF ForceClose
  <2>3. new.kind = "end_of_period" /\ WasPossible(new)
    <3>1. candle.close \in Int /\ trade.dir \in {1, -1}
      BY <2>1, CandleIsTyped DEF Ledger, Trades
    <3> QED
      BY <3>1, SlippedIsTyped DEF WasPossible
  <2> HIDE DEF now, new
  <2>4. /\ Funded(trade, now) \in Trades /\ Alike(Funded(trade, now), trade)
        /\ Fixed(Funded(trade, now), trade)
    BY <2>1, FundedKeeps, FundedSteady
  <2>5. PICK t \in Trades : t = Funded(trade, now)
    BY <2>4
  <2>6. Exit(t, 100) \in Trades /\ Fixed(Exit(t, 100), t)
    BY <2>1, <2>4, <2>5, ExitConserves, ExitSteady DEF Alike
  <2>7. trade'.dir = trade.dir
    BY <2>2, <2>4, <2>5, <2>6 DEF Fixed, Trades
  <2>8. StopsFirst' /\ OnlyStandingLevels' /\ StopsBeforeLiquidation'
    BY <1>1, <2>2, <2>3, <2>7
       DEF BarIsHonest, StopsFirst, OnlyStandingLevels, StopsBeforeLiquidation
  <2>9. \A f \in filled' : WasPossible(f)
    BY <1>1, <2>2, <2>3, PossibleIsEach DEF BarIsHonest
  <2>10. \A f \in filled' : WasPossible(f)'
    BY <2>2, <2>7, <2>9, PossibleStays
  <2>11. FillsWerePossible'
    BY <2>10 DEF FillsWerePossible, WasPossible
  <2> QED
    BY <1>1, <2>8, <2>11 DEF Honest, BarIsHonest
<1> QED
  BY <1>2, <1>3

LEMMA NextHonest == Ledger /\ Honest /\ [Next]_vars => Honest'
<1>1. SUFFICES ASSUME Ledger, Honest, [Next]_vars PROVE Honest'
  OBVIOUS
<1>2. ASSUME UNCHANGED <<candle, standing, filled>>, trade'.dir = trade.dir, phase' # "exits"
      PROVE  Honest'
  BY <1>1, <1>2, BarsAreHonest, HonestKept DEF Honest
<1>3. ASSUME NEW p, NEW base, NEW entry, OpenTrade(p, base, entry), phase' # "exits"
      PROVE  Honest'
  BY <1>3, NothingFilled DEF OpenTrade, Honest
<1>4. trade \in Trades /\ candle \in Candles
  BY <1>1 DEF Ledger, TypeOK
<1>5. ASSUME NEW c \in Candles, NextBar(c) PROVE Honest'
  BY <1>1, <1>5, NextBarHonest
<1>6. ASSUME NEW l \in queue, ExecuteStop(l) \/ ExecuteTarget(l) PROVE Honest'
  BY <1>1, <1>6, ExecuteStopHonest, ExecuteTargetHonest
<1>7. CASE FinalizeTrade
  <2>1. trade'.dir = trade.dir
    BY <1>4, <1>7 DEF FinalizeTrade, Trades
  <2> QED
    BY <1>2, <1>7, <2>1 DEF FinalizeTrade
<1>8. CASE Liquidate
  BY <1>1, <1>8, LiquidateHonest
<1>9. CASE Survive
  <2>1. trade'.dir = trade.dir
    BY <1>4, <1>9, SurvivorSteady DEF Survive, Fixed
  <2> QED
    BY <1>2, <1>9, <2>1 DEF Survive
<1>10. CASE KeepOrder \/ LapseOrder
  BY <1>2, <1>10 DEF KeepOrder, LapseOrder
<1>11. ASSUME NEW granted \in BOOLEAN, FillOrder(granted) PROVE Honest'
  BY <1>2, <1>3, <1>11 DEF FillOrder
<1>12. CASE SkipAnalysis \/ NoEntry
  BY <1>2, <1>12 DEF SkipAnalysis, NoEntry, Analyse
<1>13. ASSUME NEW p \in Plans, PlaceOrder(p) \/ EnterMarket(p) PROVE Honest'
  BY <1>2, <1>3, <1>13 DEF PlaceOrder, EnterMarket, Analyse
<1>14. CASE ForceClose
  BY <1>1, <1>14, ForceCloseHonest
<1>15. CASE UNCHANGED vars
  <2>1. UNCHANGED <<candle, standing, filled, trade, phase, queue>>
    BY <1>15 DEF vars
  <2> QED
    BY <1>1, <2>1
       DEF Honest, StopBar, TargetBar, LiquidationBar, WasPossible, Reached, TargetsReached, Near,
           BarIsHonest, StopsFirst, OnlyStandingLevels, StopsBeforeLiquidation, FillsWerePossible
<1> QED
  BY <1>1, <1>5, <1>6, <1>7, <1>8, <1>9, <1>10, <1>11, <1>12, <1>13, <1>14, <1>15 DEF Next

LEMMA InitHonest == Init => Honest
  BY DEF Init, Honest, BarIsHonest, StopsFirst, OnlyStandingLevels, StopsBeforeLiquidation,
         FillsWerePossible

\* Whatever candles come and whatever levels a plan has, no candle takes a profit and a
\* stop, skips a nearer stop on its way to the liquidation, executes a level it set itself,
\* fills an exit better than its level, or a stop, but for the slippage it always pays,
\* at a price it did not trade at (updateOpenTrade, executeExit).
THEOREM BarIsHonestHolds == Spec => []BarIsHonest
<1>1. Honest => BarIsHonest
  BY BarsAreHonest
<1> QED
  BY <1>1, InitHonest, NextHonest, LedgerHolds, PTL DEF Spec

-----------------------------------------------------------------------------
(* The protection of what was banked *)

AtEntry(t) == {[price |-> t.entry, pct |-> 100]}
LostAtEntryOnly ==
  \A f \in filled : f.kind # "liquidation" /\ (f.kind = "stop_loss" => f.price = trade.entry)

\* A trade with a trailing stop has no targets to bank; a protected one has its
\* stop at the entry, in front of its liquidation price.
Shaped ==
  /\ order # NoOrder => order.plan \in Plans
  /\ trade.status # "none" => trade.margin > Maintenance
  /\ trade.trail # 0 => trade.targets = {} /\ ~trade.banked /\ ~trade.breakEven

\* During the exits: of a protected trade only all of it is left, or nothing; a trade
\* that banks its first target is in a bar that reached no stop.
Banking ==
  /\ trade.trail # 0 => standing.targets = {}
  /\ trade.breakEven => /\ standing.stops = AtEntry(trade)
                        /\ trade.remaining > 0 => /\ trade.stops = AtEntry(trade)
                                                  /\ \A f \in filled : f.kind # "stop_loss"
  /\ run.breakEven /\ trade.banked /\ ~trade.breakEven => Reached = {} /\ TargetsReached # {}

Protects ==
  /\ Open /\ trade.breakEven => trade.stops = AtEntry(trade)
  /\ Open /\ run.breakEven /\ trade.banked => trade.breakEven
  /\ trade.breakEven => LostAtEntryOnly

Bank == Shaped /\ IF phase = "exits" THEN Banking ELSE Protects

\* The leverage of every plan leaves some margin above the maintenance margin: with
\* the default, a maintenance margin of zero, any does (liquidationPrice).
MarginExceedsMaintenance == \A p \in Plans : p.margin > Maintenance

\* A price that reaches the liquidation of a trade has passed its entry, which is nearer.
LEMMA EntryPrecedes ==
  ASSUME NEW t \in Trades, NEW c \in Candles, t.margin > Maintenance
  PROVE  /\ t.dir * (t.entry - LiquidationPrice(t)) > 0
         /\ Liquidated(t, c) => TouchesStop(c, t.dir, t.entry)
<1>1. /\ t.dir \in {1, -1} /\ t.entry \in Int /\ t.margin \in Nat /\ Maintenance \in Nat
      /\ Worst(c, t.dir) \in Int
  BY NumbersAreTyped, PricesAreInts DEF Trades, Worst, Candles
<1> DEFINE m == t.margin - Maintenance
<1>2. m \in Int /\ m > 0 /\ LiquidationPrice(t) = t.entry - t.dir * m
  BY <1>1 DEF LiquidationPrice, Floored
<1> HIDE DEF m
<1>3. PICK w \in Int : w = Worst(c, t.dir)
  BY <1>1
<1>4. CASE t.dir = 1
  BY <1>1, <1>2, <1>3, <1>4 DEF Liquidated, TouchesStop
<1>5. CASE t.dir = -1
  BY <1>1, <1>2, <1>3, <1>5 DEF Liquidated, TouchesStop
<1> QED
  BY <1>1, <1>4, <1>5

\* What the next trade starts from.
LEMMA OpenedShape ==
  ASSUME Ledger, MarginExceedsMaintenance, NEW p \in Plans, NEW base, NEW entry,
         OpenTrade(p, base, entry), order' # NoOrder => order'.plan \in Plans,
         phase' # "exits"
  PROVE  Bank'
<1>1. trade' = Opened(p, base, entry) /\ filled' = {}
  BY DEF OpenTrade
<1>2. /\ trade'.status = "open" /\ trade'.margin = p.margin /\ trade'.banked = FALSE
      /\ trade'.breakEven = FALSE
      /\ trade'.trail = (IF run.mode = "trailing_atr" THEN p.atr * run.trail ELSE 0)
      /\ trade'.targets = Targets(p, base, entry)
  BY <1>1 DEF Opened
<1>3. trade'.trail # 0 => trade'.targets = {}
  BY <1>2 DEF Targets
<1>4. p.margin > Maintenance
  BY DEF MarginExceedsMaintenance
<1>5. Shaped'
  BY <1>2, <1>3, <1>4 DEF Shaped
<1>6. Protects'
  BY <1>2 DEF Protects
<1> QED
  BY <1>5, <1>6 DEF Bank

\* A step that leaves the trade and what was filled alone, between two bars.
LEMMA BankQuiet ==
  ASSUME Bank, UNCHANGED <<run, trade, filled>>, phase # "exits", phase' # "exits",
         order' # NoOrder => order'.plan \in Plans
  PROVE  Bank'
  BY DEF Bank, Shaped, Protects, Open, LostAtEntryOnly, AtEntry

LEMMA InitBank == Init => Bank
  BY DEF Init, Bank, Shaped, Protects, LostAtEntryOnly, NoTrade, Open

LEMMA NextBarBank ==
  ASSUME Ledger, Bank, NEW c \in Candles, NextBar(c)
  PROVE  Bank'
<1>1. /\ phase # "exits" /\ filled' = {} /\ UNCHANGED <<run, order>> /\ Shaped /\ Protects
  BY DEF NextBar, Bank
<1>2. CASE ~Open
  BY <1>1, <1>2 DEF NextBar, Bank, Shaped, Protects, Open, LostAtEntryOnly
<1>3. CASE Open
  <2>1. /\ trade' = Funded(trade, (bar + 1) * BarLength) /\ phase' = "exits"
        /\ standing' = [stops |-> trade.stops, targets |-> trade.targets]
    BY <1>3 DEF NextBar
  <2>2. /\ Fixed(trade', trade) /\ trade'.stops = trade.stops /\ trade'.targets = trade.targets
        /\ trade'.trail = trade.trail /\ trade'.breakEven = trade.breakEven
        /\ trade'.banked = trade.banked /\ trade'.status = trade.status
    <3>1. trade \in Trades /\ (bar + 1) * BarLength \in Nat
      BY NumbersAreTyped DEF Ledger, TypeOK
    <3> QED
      BY <2>1, <3>1, FundedSteady
  <2>3. Shaped'
    BY <1>1, <2>2 DEF Shaped, Fixed
  <2>4. Banking'
    BY <1>1, <1>3, <2>1, <2>2 DEF Banking, Protects, Shaped, AtEntry, Fixed
  <2> QED
    BY <2>1, <2>3, <2>4 DEF Bank
<1> QED
  BY <1>2, <1>3

\* The stop of a protected trade sells all of it.
LEMMA ExecuteStopBank ==
  ASSUME Ledger, Bank, Honest, NEW l \in queue, ExecuteStop(l)
  PROVE  Bank'
<1>1. /\ phase = "exits" /\ phase' = "exits" /\ l \in Reached
      /\ UNCHANGED <<candle, standing, run, order>>
  BY DEF ExecuteStop, ExecuteLevel
<1>2. /\ Fixed(trade', trade) /\ trade'.targets = trade.targets /\ trade'.trail = trade.trail
      /\ trade'.breakEven = trade.breakEven /\ trade'.banked = trade.banked
      /\ trade'.status = trade.status
  BY StopExecuted
<1>3. Shaped /\ Banking
  BY <1>1 DEF Bank
<1>4. Reached' = Reached /\ TargetsReached' = TargetsReached
  BY <1>1, <1>2, SameReach
<1>5. ASSUME trade.breakEven PROVE trade'.remaining = 0
  <2>1. l \in AtEntry(trade)
    BY <1>1, <1>3, <1>5 DEF Banking, Reached, StopsTouched
  <2>2. ClosePct(l) = 100
    BY <2>1 DEF AtEntry, ClosePct
  <2> DEFINE t == [trade EXCEPT !.stops = @ \ {l}]
  <2>3. trade \in Trades /\ trade.remaining + trade.exited = Size
    BY <1>1 DEF Ledger, TypeOK, NothingSoldTwice, Open
  <2>4. t \in Trades /\ t.remaining + t.exited = Size
    BY <2>3 DEF Trades
  <2>5. trade' = Exit(t, 100)
    BY <2>2 DEF ExecuteStop, ExecuteLevel
  <2> HIDE DEF t
  <2> QED
    BY <2>4, <2>5, ExitConserves
<1>6. Shaped'
  BY <1>1, <1>2, <1>3 DEF Shaped, Fixed
<1>7. AtEntry(trade)' = AtEntry(trade)
  BY <1>2 DEF AtEntry, Fixed
<1>8. trade'.breakEven => ~(trade'.remaining > 0)
  BY <1>2, <1>5
<1>9. Banking'
  BY <1>1, <1>2, <1>3, <1>4, <1>7, <1>8 DEF Banking
<1> QED
  BY <1>1, <1>6, <1>9 DEF Bank

LEMMA ExecuteTargetBank ==
  ASSUME Ledger, Bank, Honest, NEW l \in queue, ExecuteTarget(l)
  PROVE  Bank'
<1>1. /\ phase = "exits" /\ phase' = "exits" /\ l \notin Reached
      /\ UNCHANGED <<candle, standing, run, order>>
      /\ filled' = filled \cup {[kind |-> "take_profit", price |-> l.price, fill |-> l.price]}
  BY DEF ExecuteTarget, ExecuteLevel
<1>2. /\ Fixed(trade', trade) /\ trade'.stops = trade.stops /\ trade'.trail = trade.trail
      /\ trade'.breakEven = trade.breakEven /\ trade'.targets = trade.targets \ {l}
      /\ trade'.status = trade.status /\ (trade'.remaining > 0 => trade.remaining > 0)
  BY TargetExecuted
<1>3. Shaped /\ Banking
  BY <1>1 DEF Bank
<1>4. Reached' = Reached /\ TargetsReached' = TargetsReached
  BY <1>1, <1>2, SameReach
<1>5. Reached = {} /\ l \in TargetsReached
  BY <1>1 DEF Honest, StopBar, TargetBar, LiquidationBar
<1>6. trade.trail = 0
  BY <1>3, <1>5 DEF Banking, TargetsReached, TargetsTouched
<1>7. Shaped'
  BY <1>1, <1>2, <1>3, <1>6 DEF Shaped, Fixed
<1>8. AtEntry(trade)' = AtEntry(trade)
  BY <1>2 DEF AtEntry, Fixed
<1>9. Banking'
  BY <1>1, <1>2, <1>3, <1>4, <1>5, <1>6, <1>8 DEF Banking
<1> QED
  BY <1>1, <1>7, <1>9 DEF Bank

\* What a bar of a protected trade filled.
LEMMA ProtectedFills ==
  ASSUME Bank, Honest, phase = "exits", trade.breakEven
  PROVE  LostAtEntryOnly
<1>1. Reached \subseteq AtEntry(trade)
  BY DEF Bank, Banking, Reached, StopsTouched
<1> QED
  BY <1>1 DEF Honest, StopBar, TargetBar, LiquidationBar, LostAtEntryOnly, AtLevel, AtEntry

\* A protected trade with something left is not liquidated: its stop was in front.
LEMMA LiquidateBank ==
  ASSUME Ledger, Bank, Honest, Liquidate
  PROVE  Bank'
<1>1. /\ phase = "exits" /\ phase' # "exits" /\ queue = {} /\ trade.remaining > 0
      /\ Liquidated(trade, candle) /\ UNCHANGED <<run, order>>
      /\ trade' = [Exit(trade, 100) EXCEPT !.status = "closed"]
  BY DEF Liquidate
<1>2. trade \in Trades /\ trade.remaining + trade.exited = Size /\ Open
  BY <1>1 DEF Ledger, TypeOK, NothingSoldTwice, Open
<1>3. Shaped /\ Banking
  BY <1>1 DEF Bank
<1>4. ~trade.breakEven
  <2> SUFFICES ASSUME trade.breakEven PROVE FALSE
    OBVIOUS
  <2>1. trade.margin > Maintenance /\ candle \in Candles
    BY <1>2, <1>3 DEF Shaped, Open, Ledger, TypeOK
  <2>2. /\ trade.dir * (trade.entry - LiquidationPrice(trade)) > 0
        /\ TouchesStop(candle, trade.dir, trade.entry)
    BY <1>1, <1>2, <2>1, EntryPrecedes
  <2> DEFINE e == [price |-> trade.entry, pct |-> 100]
  <2>3. e.price = trade.entry /\ standing.stops = {e}
    BY <1>3 DEF Banking, AtEntry
  <2> HIDE DEF e
  <2>4. e \in Reached /\ Near(e)
    BY <2>2, <2>3 DEF Reached, StopsTouched, Near
  <2>5. StopBar
    BY <1>1, <2>4 DEF Honest, TargetBar, LiquidationBar
  <2>6. \E f \in filled : f.kind = "stop_loss"
    BY <1>1, <2>4, <2>5 DEF StopBar
  <2> QED
    BY <1>1, <1>3, <2>6 DEF Banking
<1>5. PICK t \in Trades : t = Exit(trade, 100)
  BY <1>2, ExitConserves
<1>6. /\ Fixed(t, trade) /\ t.targets = trade.targets /\ t.trail = trade.trail
      /\ t.breakEven = trade.breakEven /\ t.banked = trade.banked
  BY <1>2, <1>5, ExitSteady
<1>7. /\ trade'.status = "closed" /\ trade'.margin = trade.margin /\ trade'.trail = trade.trail
      /\ trade'.targets = trade.targets /\ trade'.banked = trade.banked
      /\ trade'.breakEven = trade.breakEven
  BY <1>1, <1>5, <1>6 DEF Trades, Fixed
<1>8. Shaped'
  BY <1>1, <1>2, <1>3, <1>7 DEF Shaped, Open
<1>9. Protects'
  BY <1>4, <1>7 DEF Protects, Open
<1> QED
  BY <1>1, <1>8, <1>9 DEF Bank

LEMMA FinalizeBank ==
  ASSUME Ledger, Bank, Honest, FinalizeTrade
  PROVE  Bank'
<1>1. /\ phase = "exits" /\ phase' # "exits" /\ UNCHANGED <<run, order, filled>>
      /\ trade' = [trade EXCEPT !.status = "closed"] /\ trade \in Trades /\ Open
  BY DEF FinalizeTrade, Ledger, TypeOK
<1>2. /\ trade'.status = "closed" /\ trade'.margin = trade.margin /\ trade'.trail = trade.trail
      /\ trade'.targets = trade.targets /\ trade'.banked = trade.banked
      /\ trade'.breakEven = trade.breakEven /\ trade'.entry = trade.entry
  BY <1>1 DEF Trades
<1>3. Shaped'
  BY <1>1, <1>2 DEF Bank, Shaped, Open
<1>4. Protects'
  BY <1>1, <1>2, ProtectedFills DEF Protects, Open, LostAtEntryOnly
<1> QED
  BY <1>1, <1>3, <1>4 DEF Bank

\* The bar that banked the first target moves the stop to the entry.
LEMMA SurviveBank ==
  ASSUME Ledger, Bank, Honest, Survive
  PROVE  Bank'
<1>1. /\ phase = "exits" /\ phase' # "exits" /\ UNCHANGED <<run, order, filled>>
      /\ trade' = Trailed(Protected(trade, candle), candle)
      /\ trade \in Trades /\ candle \in Candles /\ Open /\ trade.remaining > 0
  BY DEF Survive, Ledger, TypeOK
<1>2. /\ Fixed(trade', trade) /\ trade'.targets = trade.targets /\ trade'.trail = trade.trail
      /\ trade'.banked = trade.banked /\ trade'.status = trade.status
  BY <1>1, SurvivorSteady
<1>3. Shaped /\ Banking
  BY <1>1 DEF Bank
<1>4. PICK p : p = Protected(trade, candle)
  OBVIOUS
<1>5. CASE run.breakEven /\ ~trade.breakEven /\ Reached = {} /\ TargetsReached # {}
  <2>1. p = [trade EXCEPT !.breakEven = TRUE, !.stops = AtEntry(trade)]
    BY <1>4, <1>5 DEF Protected, Reached, TargetsReached, AtEntry, StopsTouched, TargetsTouched
  <2>2. trade.trail = 0
    BY <1>3, <1>5 DEF Banking, TargetsReached, TargetsTouched
  <2>3. p.breakEven = TRUE /\ p.stops = AtEntry(trade) /\ p.trail = 0 /\ p.banked = trade.banked
    BY <1>1, <2>1, <2>2 DEF Trades
  <2>4. trade' = p
    BY <1>1, <1>4, <2>3 DEF Trailed
  <2>5. \A f \in filled : f.kind = "take_profit"
    BY <1>1, <1>5 DEF Honest, StopBar, TargetBar, LiquidationBar
  <2>6. LostAtEntryOnly'
    BY <1>1, <2>5 DEF LostAtEntryOnly
  <2>7. trade'.stops = AtEntry(trade)' /\ trade'.breakEven = TRUE
    BY <1>2, <2>3, <2>4 DEF AtEntry, Fixed
  <2>8. Protects'
    BY <2>6, <2>7 DEF Protects
  <2>9. Shaped'
    BY <1>1, <1>2, <1>3, <2>2 DEF Shaped, Fixed
  <2> QED
    BY <1>1, <2>8, <2>9 DEF Bank
<1>6. CASE ~(run.breakEven /\ ~trade.breakEven /\ Reached = {} /\ TargetsReached # {})
  <2>1. p = trade
    BY <1>4, <1>6 DEF Protected, Reached, TargetsReached, StopsTouched, TargetsTouched
  <2>2. trade' = Trailed(trade, candle)
    BY <1>1, <1>4, <2>1
  <2>3. trade'.breakEven = trade.breakEven
    BY <1>1, <2>2 DEF Trailed, Trades
  <2>4. trade.breakEven => trade'.stops = trade.stops
    BY <1>3, <2>2 DEF Trailed, Shaped
  <2>5. run.breakEven /\ trade.banked => trade.breakEven
    BY <1>3, <1>6 DEF Banking
  <2>6. trade.breakEven => trade.stops = AtEntry(trade) /\ LostAtEntryOnly
    BY <1>1, <1>3, ProtectedFills DEF Banking
  <2>7. AtEntry(trade)' = AtEntry(trade) /\ (LostAtEntryOnly' <=> LostAtEntryOnly)
    BY <1>1, <1>2 DEF AtEntry, LostAtEntryOnly, Fixed
  <2>8. Protects'
    BY <1>1, <1>2, <2>3, <2>4, <2>5, <2>6, <2>7 DEF Protects
  <2>9. Shaped'
    BY <1>1, <1>2, <1>3, <2>3 DEF Shaped, Fixed
  <2> QED
    BY <1>1, <2>8, <2>9 DEF Bank
<1> QED
  BY <1>5, <1>6

LEMMA ForceCloseBank ==
  ASSUME Ledger, Bank, ForceClose
  PROVE  Bank'
<1>1. phase # "exits" /\ phase' # "exits" /\ UNCHANGED <<run, order>> /\ Shaped /\ Protects
  BY DEF ForceClose, Bank
<1>2. CASE ~Open
  <2>1. UNCHANGED <<trade, filled>>
    BY <1>2 DEF ForceClose
  <2> QED
    BY <1>1, <2>1, BankQuiet DEF Shaped
<1>3. CASE Open
  <2> DEFINE now == bar * BarLength
             new == [kind |-> "end_of_period", price |-> candle.close,
                     fill |-> Slipped(candle.close, trade.dir)]
  <2>1. trade \in Trades /\ now \in Nat /\ trade.remaining + trade.exited = Size
    BY <1>3, NumbersAreTyped DEF Ledger, TypeOK, NothingSoldTwice, Open
  <2>2. /\ trade' = [Exit(Funded(trade, now), 100) EXCEPT !.status = "closed"]
        /\ filled' = filled \cup {new}
    BY <1>3 DEF ForceClose
  <2>3. new.kind = "end_of_period"
    OBVIOUS
  <2> HIDE DEF now, new
  <2>4. PICK t \in Trades : t = Funded(trade, now)
    BY <2>1, FundedKeeps
  <2>5. /\ Alike(t, trade) /\ Fixed(t, trade) /\ t.targets = trade.targets
        /\ t.trail = trade.trail /\ t.breakEven = trade.breakEven /\ t.banked = trade.banked
    BY <2>1, <2>4, FundedKeeps, FundedSteady
  <2>6. PICK s \in Trades : s = Exit(t, 100)
    BY <2>1, <2>5, ExitConserves DEF Alike
  <2>7. /\ Fixed(s, t) /\ s.targets = t.targets /\ s.trail = t.trail
        /\ s.breakEven = t.breakEven /\ s.banked = t.banked
    BY <2>6, ExitSteady
  <2>8. /\ trade'.status = "closed" /\ Fixed(trade', trade) /\ trade'.targets = trade.targets
        /\ trade'.trail = trade.trail /\ trade'.breakEven = trade.breakEven
        /\ trade'.banked = trade.banked
    BY <2>2, <2>4, <2>5, <2>6, <2>7 DEF Fixed, Trades
  <2>9. Shaped'
    BY <1>1, <1>3, <2>8 DEF Shaped, Fixed, Open
  <2>10. Protects'
    BY <1>1, <2>2, <2>3, <2>8 DEF Protects, Open, LostAtEntryOnly, Fixed
  <2> QED
    BY <1>1, <2>9, <2>10 DEF Bank
<1> QED
  BY <1>2, <1>3

LEMMA NextBank == MarginExceedsMaintenance /\ Ledger /\ Honest /\ Bank /\ [Next]_vars => Bank'
<1>1. SUFFICES ASSUME MarginExceedsMaintenance, Ledger, Honest, Bank, [Next]_vars
      PROVE  Bank'
  OBVIOUS
<1>2. order # NoOrder => order.plan \in Plans
  BY <1>1 DEF Bank, Shaped
<1>3. ASSUME NEW c \in Candles, NextBar(c) PROVE Bank'
  BY <1>1, <1>3, NextBarBank
<1>4. ASSUME NEW l \in queue, ExecuteStop(l) \/ ExecuteTarget(l) PROVE Bank'
  BY <1>1, <1>4, ExecuteStopBank, ExecuteTargetBank
<1>5. CASE FinalizeTrade \/ Liquidate \/ Survive
  BY <1>1, <1>5, FinalizeBank, LiquidateBank, SurviveBank
<1>6. CASE KeepOrder \/ LapseOrder
  BY <1>1, <1>2, <1>6, BankQuiet DEF KeepOrder, LapseOrder
<1>7. ASSUME NEW granted \in BOOLEAN, FillOrder(granted) PROVE Bank'
  <2>1. /\ order.plan \in Plans /\ order' = NoOrder /\ phase # "exits" /\ phase' # "exits"
        /\ run' = run
    BY <1>2, <1>7 DEF FillOrder
  <2>2. CASE granted
    <3>1. OpenTrade(order.plan, order.limit, order.limit)
      BY <1>7, <2>2 DEF FillOrder
    <3> QED
      BY <1>1, <2>1, <3>1, OpenedShape
  <2>3. CASE ~granted
    BY <1>1, <1>7, <2>1, <2>3, BankQuiet DEF FillOrder
  <2> QED
    BY <2>2, <2>3
<1>8. CASE SkipAnalysis \/ NoEntry
  BY <1>1, <1>2, <1>8, BankQuiet DEF SkipAnalysis, NoEntry, Analyse
<1>9. ASSUME NEW p \in Plans, PlaceOrder(p) PROVE Bank'
  BY <1>1, <1>9, BankQuiet DEF PlaceOrder, Analyse
<1>10. ASSUME NEW p \in Plans, EnterMarket(p) PROVE Bank'
  <2>1. /\ OpenTrade(p, candle.close, candle.close + p.dir * Slippage) /\ order' = order
        /\ phase' # "exits"
    BY <1>10 DEF EnterMarket, Analyse
  <2> QED
    BY <1>1, <1>2, <2>1, OpenedShape
<1>11. CASE ForceClose
  BY <1>1, <1>11, ForceCloseBank
<1>12. CASE UNCHANGED vars
  <2>1. UNCHANGED <<run, candle, phase, trade, order, standing, filled>>
    BY <1>12 DEF vars
  <2> QED
    BY <1>1, <2>1 DEF Bank, Shaped, Banking, Protects, Open, LostAtEntryOnly, AtEntry, Reached,
                      TargetsReached
<1> QED
  BY <1>1, <1>3, <1>4, <1>5, <1>6, <1>7, <1>8, <1>9, <1>10, <1>11, <1>12 DEF Next

\* Once a target was filled in a run with break-even, no stop of the plan and no
\* liquidation takes the rest below its entry price, whatever the candles do: the bar that
\* banks a target reached no stop and moves the only one to the entry.
THEOREM BankedIsProtectedHolds ==
  ASSUME MarginExceedsMaintenance
  PROVE  Spec => []BankedIsProtected
<1>1. Bank => BankedIsProtected
  BY DEF Bank, Protects, BankedIsProtected, LostAtEntryOnly, AtEntry
<1>2. Ledger /\ Honest /\ Bank /\ [Next]_vars => Bank'
  BY NextBank
<1> QED
  BY <1>1, <1>2, InitBank, InitHonest, NextHonest, LedgerHolds, PTL DEF Spec

-----------------------------------------------------------------------------
(***************************************************************************)
(* The life of a run: Backtests.                                           *)
(***************************************************************************)

LEMMA AnyProcIsProc == AnyProc \in Procs
  BY SomeProc DEF AnyProc

LEMMA NewJobIsJob ==
  ASSUME NEW p \in Procs, NEW l \in Working \cup {"none", "ended", "killed"}
  PROVE  NewJob(p, l) \in Jobs
  BY DEF NewJob, Jobs

LEMMA BlankIsRow ==
  ASSUME NEW status \in Active \cup Terminal \cup {"none", "purged"}
  PROVE  Blank(status) \in Rows
  BY DEF Blank, Rows

\* A job that moves on is a job.
LEMMA MovedIsJob ==
  ASSUME NEW j \in Jobs, NEW l \in Working \cup {"none", "ended", "killed"}
  PROVE  /\ [j EXCEPT !.at = l] \in Jobs
         /\ \A clean \in BOOLEAN : [j EXCEPT !.at = l, !.clean = clean] \in Jobs
         /\ \A made \in SUBSET {"trades", "curve"} : [j EXCEPT !.at = l, !.made = made] \in Jobs
  BY DEF Jobs

LEMMA TypeInit == BacktestsInit => BacktestsTypeOK
  BY AnyProcIsProc, NewJobIsJob, BlankIsRow DEF BacktestsInit, BacktestsTypeOK

\* What an UPDATE of the status leaves behind.
LEMMA SetStatusEffect ==
  ASSUME BacktestsTypeOK, NEW r \in RunIds, NEW status \in Active \cup Terminal, SetStatus(r, status)
  PROVE  /\ row' \in [RunIds -> Rows]
         /\ \A q \in RunIds \ {r} : row'[q] = row[q]
         /\ row'[r].trades = row[r].trades /\ row'[r].curve = row[r].curve
         /\ Exists(r) => row'[r].status = status
                         /\ row'[r].metrics = (row[r].metrics \/ status = "completed")
         /\ ~Exists(r) => row'[r] = row[r]
<1>1. row \in [RunIds -> Rows] /\ row[r] \in Rows
  BY DEF BacktestsTypeOK
<1>2. CASE ~Exists(r)
  BY <1>1, <1>2 DEF SetStatus
<1>3. CASE Exists(r)
  <2> DEFINE new == [row[r] EXCEPT !.status = status, !.metrics = row[r].metrics \/ status = "completed"]
  <2>1. new \in Rows
    BY <1>1 DEF Rows
  <2>2. row' = [row EXCEPT ![r] = new]
    BY <1>3 DEF SetStatus
  <2>3. row'[r] = new /\ row' \in [RunIds -> Rows] /\ \A q \in RunIds \ {r} : row'[q] = row[q]
    BY <1>1, <2>1, <2>2
  <2>4. /\ new.status = status /\ new.metrics = (row[r].metrics \/ status = "completed")
        /\ new.trades = row[r].trades /\ new.curve = row[r].curve
    BY <1>1 DEF Rows
  <2> QED
    BY <1>3, <2>3, <2>4
<1> QED
  BY <1>2, <1>3

\* What moving a goroutine on leaves behind.
LEMMA GotoEffect ==
  ASSUME BacktestsTypeOK, NEW r \in RunIds, NEW l \in Working \cup {"none", "ended", "killed"}, Goto(r, l)
  PROVE  /\ job' \in [RunIds -> Jobs]
         /\ \A q \in RunIds \ {r} : job'[q] = job[q]
         /\ job'[r].at = l /\ job'[r].proc = job[r].proc
         /\ job'[r].made = job[r].made /\ job'[r].clean = job[r].clean
<1>1. job \in [RunIds -> Jobs] /\ job[r] \in Jobs
  BY DEF BacktestsTypeOK
<1>2. job' = [job EXCEPT ![r] = [job[r] EXCEPT !.at = l]]
  BY DEF Goto
<1>3. job'[r] = [job[r] EXCEPT !.at = l] /\ \A q \in RunIds \ {r} : job'[q] = job[q]
  BY <1>1, <1>2
<1>4. job' \in [RunIds -> Jobs]
  BY <1>1, <1>2, MovedIsJob
<1> QED
  BY <1>1, <1>3, <1>4 DEF Jobs
\* What a refused statement leaves behind.
LEMMA GotoFaultyEffect ==
  ASSUME BacktestsTypeOK, NEW r \in RunIds, NEW l \in Working \cup {"none", "ended", "killed"}, GotoFaulty(r, l)
  PROVE  /\ job' \in [RunIds -> Jobs]
         /\ \A q \in RunIds \ {r} : job'[q] = job[q]
         /\ job'[r].at = l /\ job'[r].made = job[r].made
         /\ job'[r].clean = (job[r].clean /\ ctx[r] # "live")
<1> DEFINE new == [job[r] EXCEPT !.at = l, !.clean = job[r].clean /\ ctx[r] # "live"]
<1>1. job \in [RunIds -> Jobs] /\ job[r] \in Jobs
  BY DEF BacktestsTypeOK
<1>2. job' = [job EXCEPT ![r] = new]
  <2>1. job' = [[job EXCEPT ![r] = [job[r] EXCEPT !.at = l]] EXCEPT ![r] =
                 [[job[r] EXCEPT !.at = l] EXCEPT !.clean = job[r].clean /\ ctx[r] # "live"]]
    BY <1>1 DEF GotoFaulty, Jobs
  <2> QED
    BY <1>1, <2>1 DEF Jobs
<1>3. job'[r] = new /\ \A q \in RunIds \ {r} : job'[q] = job[q]
  BY <1>1, <1>2
<1>4. (job[r].clean /\ ctx[r] # "live") \in BOOLEAN
  BY <1>1 DEF Jobs
<1>5. new \in Jobs
  BY <1>1, <1>4, MovedIsJob
<1>6. job' \in [RunIds -> Jobs]
  BY <1>1, <1>2, <1>5
<1>7. new.at = l /\ new.made = job[r].made /\ new.clean = (job[r].clean /\ ctx[r] # "live")
  BY <1>1 DEF Jobs
<1> QED
  BY <1>3, <1>6, <1>7
-----------------------------------------------------------------------------
\* What holds of a run at every point of its goroutine: which results its row
\* already has, that only an ended goroutine has completed, and that a goroutine
\* gone from an active run was stopped by a fault.
RunOK(r) ==
  /\ row[r].metrics <=> row[r].status = "completed"
  /\ row[r].status = "completed" => job[r].at = "ended"
  /\ job[r].at \in {"registering", "marking", "simulating", "trades"} =>
       ~row[r].trades /\ ~row[r].curve
  /\ job[r].at = "curve" =>
       /\ ~row[r].curve
       /\ Exists(r) => (row[r].trades <=> "trades" \in job[r].made)
  /\ (job[r].at = "completing" /\ Exists(r)) \/ row[r].status = "completed" =>
       /\ row[r].trades <=> "trades" \in job[r].made
       /\ row[r].curve <=> "curve" \in job[r].made
  /\ row[r].status \in Active /\ job[r].at \in {"ended", "killed"} =>
       ~job[r].clean \/ ctx[r] # "live"

\* A step of the goroutine of r touches nothing but its row and its job.
OnlyRun(r) ==
  /\ row' \in [RunIds -> Rows] /\ job' \in [RunIds -> Jobs]
  /\ \A q \in RunIds \ {r} : row'[q] = row[q] /\ job'[q] = job[q]
  /\ ctx' = ctx /\ proc' = proc

\* Steps of the goroutine that write nothing.
LEMMA QuietStepKeeps ==
  ASSUME BacktestsTypeOK, NEW r \in RunIds, RunOK(r),
         Register(r) \/ MarkFails(r) \/ SimulateFails(r) \/ StoreFailureFails(r) \/ StoreFails(r)
  PROVE  OnlyRun(r) /\ RunOK(r)'
<1>0. /\ row \in [RunIds -> Rows] /\ row[r] \in Rows
      /\ job \in [RunIds -> Jobs] /\ job[r] \in Jobs
  BY DEF BacktestsTypeOK
<1>1. CASE Register(r)
  <2>1. Goto(r, "marking") /\ job[r].at = "registering" /\ UNCHANGED <<row, ctx, proc>>
    BY <1>1 DEF Register, Doing
  <2>2. job'[r].at = "marking" /\ OnlyRun(r)
    BY <1>0, <2>1, GotoEffect DEF OnlyRun, Working
  <2> QED
    BY <2>1, <2>2 DEF RunOK, Exists
<1>2. CASE MarkFails(r) \/ StoreFails(r)
  <2>1. GotoFaulty(r, "ended") /\ job[r].at # "ended" /\ UNCHANGED <<row, ctx, proc>>
    BY <1>2 DEF MarkFails, StoreFails, Doing
  <2>2. /\ OnlyRun(r) /\ job'[r].at = "ended"
        /\ job'[r].clean = (job[r].clean /\ ctx[r] # "live")
    BY <1>0, <2>1, GotoFaultyEffect DEF OnlyRun
  <2> QED
    BY <2>1, <2>2 DEF RunOK, Exists
<1>3. CASE SimulateFails(r)
  <2>1. PICK l \in {"failing", "canceling"} :
          Goto(r, l) /\ job[r].at = "simulating" /\ UNCHANGED <<row, ctx, proc>>
    BY <1>3 DEF SimulateFails, Doing
  <2>2. job'[r].at = l /\ OnlyRun(r)
    BY <1>0, <2>1, GotoEffect DEF OnlyRun, Working
  <2> QED
    BY <2>1, <2>2 DEF RunOK, Exists
<1>4. CASE StoreFailureFails(r)
  <2> DEFINE new == [job[r] EXCEPT !.at = "ended", !.clean = FALSE]
  <2>1. job[r].at \in {"failing", "canceling"} /\ UNCHANGED <<row, ctx, proc>>
    BY <1>4 DEF StoreFailureFails, Doing
  <2>2. job' = [job EXCEPT ![r] = new]
    <3>1. job' = [[job EXCEPT ![r] = [job[r] EXCEPT !.at = "ended"]] EXCEPT ![r] =
                   [[job[r] EXCEPT !.at = "ended"] EXCEPT !.clean = FALSE]]
      BY <1>0, <1>4 DEF StoreFailureFails, Jobs
    <3> QED
      BY <1>0, <3>1 DEF Jobs
  <2>3. new \in Jobs /\ new.at = "ended" /\ new.clean = FALSE
    BY <1>0 DEF Jobs
  <2>4. job'[r].at = "ended" /\ job'[r].clean = FALSE /\ OnlyRun(r)
    BY <1>0, <2>1, <2>2, <2>3 DEF OnlyRun
  <2> QED
    BY <2>1, <2>4 DEF RunOK, Exists
<1> QED
  BY <1>1, <1>2, <1>3, <1>4
\* The status a goroutine writes: running at the start, and how it ended.
LEMMA StatusStepKeeps ==
  ASSUME BacktestsTypeOK, NEW r \in RunIds, RunOK(r), MarkRunning(r) \/ StoreFailure(r) \/ Complete(r)
  PROVE  OnlyRun(r) /\ RunOK(r)'
<1>0. /\ row \in [RunIds -> Rows] /\ row[r] \in Rows
      /\ job \in [RunIds -> Jobs] /\ job[r] \in Jobs
  BY DEF BacktestsTypeOK
<1>1. PICK status \in {"running", "failed", "canceled", "completed"}, l \in {"simulating", "ended"} :
        /\ SetStatus(r, status) /\ Goto(r, l) /\ UNCHANGED <<ctx, proc>>
        /\ status = "running" => job[r].at = "marking" /\ l = "simulating"
        /\ status \in {"failed", "canceled"} => job[r].at \in {"failing", "canceling"} /\ l = "ended"
        /\ status = "completed" => job[r].at = "completing" /\ l = "ended"
  BY DEF MarkRunning, StoreFailure, Complete, Doing
<1>2. /\ row' \in [RunIds -> Rows] /\ \A q \in RunIds \ {r} : row'[q] = row[q]
      /\ row'[r].trades = row[r].trades /\ row'[r].curve = row[r].curve
      /\ Exists(r) => row'[r].status = status
                      /\ row'[r].metrics = (row[r].metrics \/ status = "completed")
      /\ ~Exists(r) => row'[r] = row[r]
  BY <1>1, SetStatusEffect DEF Active, Terminal
<1>3. /\ job' \in [RunIds -> Jobs] /\ \A q \in RunIds \ {r} : job'[q] = job[q]
      /\ job'[r].at = l /\ job'[r].made = job[r].made
  BY <1>1, GotoEffect DEF Working
<1>4. OnlyRun(r)
  BY <1>1, <1>2, <1>3 DEF OnlyRun
<1>5. CASE ~Exists(r)
  <2>1. row'[r] = row[r] /\ row[r].status \in {"none", "purged"}
    BY <1>2, <1>5 DEF Exists
  <2> QED
    BY <1>1, <1>3, <1>4, <2>1 DEF RunOK, Active, Exists
<1>6. CASE Exists(r)
  <2>1. row[r].status # "completed" /\ ~row[r].metrics
    BY <1>0, <1>1 DEF RunOK, Rows
  <2>3. CASE status = "running"
    BY <1>1, <1>2, <1>3, <1>4, <1>6, <2>1, <2>3 DEF RunOK, Exists
  <2>4. CASE status \in {"failed", "canceled"}
    BY <1>1, <1>2, <1>3, <1>4, <1>6, <2>1, <2>4 DEF RunOK, Active, Exists
  <2>5. CASE status = "completed"
    BY <1>1, <1>2, <1>3, <1>4, <1>6, <2>1, <2>5 DEF RunOK, Active, Exists
  <2> QED
    BY <2>3, <2>4, <2>5
<1> QED
  BY <1>4, <1>5, <1>6

\* The replay's end and the two statements that store what it made.
LEMMA ResultStepKeeps ==
  ASSUME BacktestsTypeOK, NEW r \in RunIds, RunOK(r), Simulated(r) \/ StoreTrades(r) \/ StoreCurve(r)
  PROVE  OnlyRun(r) /\ RunOK(r)'
<1>0. /\ row \in [RunIds -> Rows] /\ row[r] \in Rows
      /\ job \in [RunIds -> Jobs] /\ job[r] \in Jobs
  BY DEF BacktestsTypeOK
<1>1. CASE Simulated(r)
  <2>1. PICK made \in SUBSET {"trades", "curve"} :
          job' = [job EXCEPT ![r].at = "trades", ![r].made = made]
    BY <1>1 DEF Simulated
  <2> DEFINE new == [job[r] EXCEPT !.at = "trades", !.made = made]
  <2>2. job' = [job EXCEPT ![r] = new]
    <3>1. job' = [[job EXCEPT ![r] = [job[r] EXCEPT !.at = "trades"]] EXCEPT ![r] =
                   [[job[r] EXCEPT !.at = "trades"] EXCEPT !.made = made]]
      BY <1>0, <2>1 DEF Jobs
    <3> QED
      BY <1>0, <3>1 DEF Jobs
  <2>3. new \in Jobs /\ new.at = "trades"
    <3>1. "trades" \in Working \cup {"none", "ended", "killed"}
      BY DEF Working
    <3>2. new \in Jobs
      BY <1>0, <3>1, MovedIsJob
    <3> QED
      BY <1>0, <3>2 DEF Jobs
  <2>4. job'[r].at = "trades" /\ OnlyRun(r) /\ job[r].at = "simulating" /\ row' = row
    BY <1>0, <1>1, <2>2, <2>3 DEF OnlyRun, Simulated, Doing
  <2> QED
    BY <2>4 DEF RunOK, Exists
<1>2. CASE StoreTrades(r)
  <2>1. Goto(r, "curve") /\ job[r].at = "trades" /\ UNCHANGED <<ctx, proc>>
    BY <1>2 DEF StoreTrades, Doing
  <2>2. /\ job' \in [RunIds -> Jobs] /\ \A q \in RunIds \ {r} : job'[q] = job[q]
        /\ job'[r].at = "curve" /\ job'[r].made = job[r].made
    BY <2>1, GotoEffect DEF Working
  <2>3. CASE "trades" \in job[r].made
    <3>1. row' = [row EXCEPT ![r] = [row[r] EXCEPT !.trades = TRUE]]
      BY <1>2, <2>3 DEF StoreTrades
    <3>2. row'[r] = [row[r] EXCEPT !.trades = TRUE] /\ [row[r] EXCEPT !.trades = TRUE] \in Rows
      BY <1>0, <3>1 DEF Rows
    <3>3. /\ row'[r].status = row[r].status /\ row'[r].metrics = row[r].metrics
          /\ row'[r].trades /\ row'[r].curve = row[r].curve
      BY <1>0, <3>2 DEF Rows
    <3>4. OnlyRun(r)
      BY <1>0, <2>1, <2>2, <3>1, <3>2 DEF OnlyRun
    <3> QED
      BY <2>1, <2>2, <2>3, <3>3, <3>4 DEF RunOK, Exists
  <2>4. CASE "trades" \notin job[r].made
    <3>1. row' = row /\ OnlyRun(r)
      BY <1>0, <1>2, <2>1, <2>2, <2>4 DEF StoreTrades, OnlyRun
    <3> QED
      BY <2>1, <2>2, <2>4, <3>1 DEF RunOK, Exists
  <2> QED
    BY <2>3, <2>4
<1>3. CASE StoreCurve(r)
  <2>1. Goto(r, "completing") /\ job[r].at = "curve" /\ UNCHANGED <<ctx, proc>>
    BY <1>3 DEF StoreCurve, Doing
  <2>2. /\ job' \in [RunIds -> Jobs] /\ \A q \in RunIds \ {r} : job'[q] = job[q]
        /\ job'[r].at = "completing" /\ job'[r].made = job[r].made
    BY <2>1, GotoEffect DEF Working
  <2>3. CASE "curve" \in job[r].made /\ Exists(r)
    <3>1. row' = [row EXCEPT ![r] = [row[r] EXCEPT !.curve = TRUE]]
      BY <1>3, <2>3 DEF StoreCurve
    <3>2. row'[r] = [row[r] EXCEPT !.curve = TRUE] /\ [row[r] EXCEPT !.curve = TRUE] \in Rows
      BY <1>0, <3>1 DEF Rows
    <3>3. /\ row'[r].status = row[r].status /\ row'[r].metrics = row[r].metrics
          /\ row'[r].trades = row[r].trades /\ row'[r].curve
      BY <1>0, <3>2 DEF Rows
    <3>4. OnlyRun(r)
      BY <1>0, <2>1, <2>2, <3>1, <3>2 DEF OnlyRun
    <3> QED
      BY <2>1, <2>2, <2>3, <3>3, <3>4 DEF RunOK, Exists
  <2>4. CASE "curve" \notin job[r].made \/ ~Exists(r)
    <3>1. row' = row /\ OnlyRun(r)
      BY <1>0, <1>3, <2>1, <2>2, <2>4 DEF StoreCurve, OnlyRun
    <3> QED
      BY <2>1, <2>2, <2>4, <3>1 DEF RunOK, Exists
  <2> QED
    BY <2>3, <2>4
<1> QED
  BY <1>1, <1>2, <1>3
-----------------------------------------------------------------------------
RunsOK == \A r \in RunIds : RunOK(r)

IInv == BacktestsTypeOK /\ RunsOK

LEMMA InitOK == BacktestsInit => IInv
<1> SUFFICES ASSUME BacktestsInit PROVE IInv
  OBVIOUS
<1>1. ASSUME NEW r \in RunIds PROVE RunOK(r)
  BY DEF BacktestsInit, RunOK, Blank, NewJob, Exists, Active
<1> QED
  BY <1>1, TypeInit DEF IInv, RunsOK

\* A run whose row, job and context did not change is as good as before.
LEMMA SameRunOK ==
  ASSUME NEW r \in RunIds, RunOK(r), row'[r] = row[r], job'[r] = job[r],
         ctx[r] # "live" => ctx'[r] # "live"
  PROVE  RunOK(r)'
  BY DEF RunOK, Exists

\* Every step of a goroutine keeps the invariant.
LEMMA JobStepOK ==
  ASSUME IInv, NEW r \in RunIds, JobStep(r)
  PROVE  IInv'
<1>1. BacktestsTypeOK /\ RunOK(r)
  BY DEF IInv, RunsOK
<1>2. OnlyRun(r) /\ RunOK(r)'
  BY <1>1, QuietStepKeeps, StatusStepKeeps, ResultStepKeeps DEF JobStep
<1>3. ASSUME NEW q \in RunIds PROVE RunOK(q)'
  BY <1>2, SameRunOK DEF OnlyRun, IInv, RunsOK
<1>4. BacktestsTypeOK'
  BY <1>1, <1>2 DEF OnlyRun, BacktestsTypeOK
<1> QED
  BY <1>3, <1>4 DEF IInv, RunsOK

LEMMA CreateOK ==
  ASSUME IInv, NEW p \in Procs, NEW r \in RunIds, Create(p, r)
  PROVE  IInv'
<1>0. BacktestsTypeOK
  BY DEF IInv
<1>1. Blank("pending") \in Rows /\ NewJob(p, "registering") \in Jobs
  BY BlankIsRow, NewJobIsJob DEF Active, Working
<1>2. /\ row' = [row EXCEPT ![r] = Blank("pending")]
      /\ job' = [job EXCEPT ![r] = NewJob(p, "registering")]
      /\ ctx' = ctx /\ proc' = proc
  BY DEF Create
<1>3. BacktestsTypeOK'
  BY <1>0, <1>1, <1>2 DEF BacktestsTypeOK
<1>4. row'[r] = Blank("pending") /\ job'[r] = NewJob(p, "registering")
  BY <1>0, <1>2 DEF BacktestsTypeOK
<1>5. RunOK(r)'
  BY <1>4 DEF RunOK, Blank, NewJob, Exists, Active
<1>6. ASSUME NEW q \in RunIds \ {r} PROVE RunOK(q)'
  BY <1>0, <1>2, SameRunOK DEF BacktestsTypeOK, IInv, RunsOK
<1> QED
  BY <1>3, <1>5, <1>6 DEF IInv, RunsOK

LEMMA ContextOK ==
  ASSUME IInv, NEW r \in RunIds, Cancel(r) \/ Expire(r)
  PROVE  IInv'
<1>1. PICK how \in {"canceled", "expired"} :
        ctx' = [ctx EXCEPT ![r] = how] /\ row' = row /\ job' = job /\ proc' = proc
  BY DEF Cancel, Expire
<1>2. BacktestsTypeOK'
  BY <1>1 DEF IInv, BacktestsTypeOK
<1>3. \A q \in RunIds : ctx[q] # "live" => ctx'[q] # "live"
  BY <1>1 DEF IInv, BacktestsTypeOK
<1> QED
  BY <1>1, <1>2, <1>3, SameRunOK DEF IInv, RunsOK

\* Hiding and the clean-up of a start change no result of any run, and never
\* touch a completed one's status or make a run active.
Relabeled(r) ==
  /\ row'[r].trades = row[r].trades /\ row'[r].curve = row[r].curve
  /\ row'[r].metrics = row[r].metrics
  /\ \/ row'[r].status = row[r].status
     \/ row[r].status \in Active /\ row'[r].status = "canceled"

LEMMA RelabelOK ==
  ASSUME IInv, job' = job, ctx' = ctx, \A r \in RunIds : Relabeled(r)
  PROVE  RunsOK'
<1> SUFFICES ASSUME NEW r \in RunIds PROVE RunOK(r)'
  BY DEF RunsOK
<1>1. RunOK(r) /\ row[r] \in Rows /\ Relabeled(r)
  BY DEF IInv, RunsOK, BacktestsTypeOK
<1>2. CASE row'[r].status = row[r].status
  BY <1>1, <1>2 DEF RunOK, Exists, Relabeled
<1>3. CASE row[r].status \in Active /\ row'[r].status = "canceled"
  BY <1>1, <1>3 DEF RunOK, Exists, Active, Relabeled
<1> QED
  BY <1>1, <1>2, <1>3 DEF Relabeled

LEMMA HideOK ==
  ASSUME IInv, NEW S \in SUBSET RunIds, Hide(S)
  PROVE  IInv'
<1> DEFINE Hidden(r) == IF r \in S /\ Visible(r) /\ row[r].status \notin Active
                          THEN [row[r] EXCEPT !.hidden = TRUE] ELSE row[r]
           new == [r \in RunIds |-> Hidden(r)]
<1>0. BacktestsTypeOK
  BY DEF IInv
<1>1. ASSUME NEW r \in RunIds
      PROVE  /\ Hidden(r) \in Rows
             /\ Hidden(r).trades = row[r].trades /\ Hidden(r).curve = row[r].curve
             /\ Hidden(r).metrics = row[r].metrics /\ Hidden(r).status = row[r].status
  BY <1>0 DEF BacktestsTypeOK, Rows
<1>2. row' = new /\ job' = job /\ ctx' = ctx /\ proc' = proc
  BY DEF Hide
<1>3. new \in [RunIds -> Rows]
  BY <1>1
<1>4. \A r \in RunIds : row'[r] = Hidden(r)
  BY <1>2
<1> HIDE DEF new, Hidden
<1>5. RunsOK'
  <2>1. \A r \in RunIds : Relabeled(r)
    BY <1>1, <1>4 DEF Relabeled
  <2> QED
    BY <1>2, <2>1, RelabelOK
<1>6. BacktestsTypeOK'
  BY <1>0, <1>2, <1>3 DEF BacktestsTypeOK
<1> QED
  BY <1>5, <1>6 DEF IInv

LEMMA PurgeOK ==
  ASSUME IInv, Purge
  PROVE  IInv'
<1>0. BacktestsTypeOK /\ Blank("purged") \in Rows
  BY BlankIsRow DEF IInv
<1>1. /\ row' = [r \in RunIds |-> IF Exists(r) /\ row[r].hidden THEN Blank("purged") ELSE row[r]]
      /\ job' = job /\ ctx' = ctx /\ proc' = proc
  BY DEF Purge
<1>2. BacktestsTypeOK'
  BY <1>0, <1>1 DEF BacktestsTypeOK
<1>3. ASSUME NEW r \in RunIds PROVE RunOK(r)'
  <2>1. CASE row'[r] = row[r]
    BY <1>1, <2>1, SameRunOK DEF IInv, RunsOK
  <2>2. CASE row'[r] = Blank("purged")
    BY <1>1, <2>2 DEF RunOK, Blank, Exists, Active
  <2> QED
    BY <1>1, <2>1, <2>2
<1> QED
  BY <1>2, <1>3 DEF IInv, RunsOK

LEMMA StartOK ==
  ASSUME IInv, NEW p \in Procs, Start(p)
  PROVE  IInv'
<1> DEFINE Retired(r) == IF row[r].status \in Active /\ ~row[r].hidden
                           THEN [row[r] EXCEPT !.status = "canceled", !.hidden = TRUE]
                           ELSE row[r]
           new == [r \in RunIds |-> Retired(r)]
<1>0. BacktestsTypeOK
  BY DEF IInv
<1>1. ASSUME NEW r \in RunIds
      PROVE  /\ Retired(r) \in Rows
             /\ Retired(r).trades = row[r].trades /\ Retired(r).curve = row[r].curve
             /\ Retired(r).metrics = row[r].metrics
             /\ \/ Retired(r).status = row[r].status
                \/ row[r].status \in Active /\ Retired(r).status = "canceled"
  BY <1>0 DEF BacktestsTypeOK, Rows, Terminal
<1>2. job' = job /\ ctx' = ctx /\ proc' \in [Procs -> {"down", "up", "unclean"}]
  <2>1. \E how \in {"up", "unclean"} : proc' = [proc EXCEPT ![p] = how]
    BY DEF Start
  <2> QED
    BY <1>0, <2>1 DEF Start, BacktestsTypeOK
<1>3. row' = new \/ row' = row
  <2>1. row' = Retire(row) \/ row' = row
    BY DEF Start
  <2> QED
    BY <2>1 DEF Retire
<1>4. new \in [RunIds -> Rows]
  BY <1>1
<1>5. row' = new => \A r \in RunIds : row'[r] = Retired(r)
  OBVIOUS
<1> HIDE DEF new, Retired
<1>6. CASE row' = new
  <2>0. \A r \in RunIds : Relabeled(r)
    BY <1>1, <1>5, <1>6 DEF Relabeled
  <2>1. RunsOK'
    BY <1>2, <2>0, RelabelOK
  <2> QED
    BY <1>0, <1>2, <1>4, <1>6, <2>1 DEF IInv, BacktestsTypeOK
<1>7. CASE row' = row
  BY <1>0, <1>2, <1>7, SameRunOK DEF IInv, RunsOK, BacktestsTypeOK
<1> QED
  BY <1>3, <1>6, <1>7

\* A process that ends takes its goroutines with it, by a fault.
LEMMA StopOK ==
  ASSUME IInv, NEW p \in Procs, Stop(p)
  PROVE  IInv'
<1>0. BacktestsTypeOK
  BY DEF IInv
<1>1. /\ job' = [r \in RunIds |-> IF job[r].at \in Working /\ job[r].proc = p
                                  THEN [job[r] EXCEPT !.at = "killed", !.clean = FALSE] ELSE job[r]]
      /\ row' = row /\ ctx' = ctx /\ proc' \in [Procs -> {"down", "up", "unclean"}]
  BY <1>0 DEF Stop, BacktestsTypeOK
<1>2. ASSUME NEW r \in RunIds PROVE RunOK(r)' /\ job'[r] \in Jobs
  <2>0. RunOK(r) /\ job[r] \in Jobs
    BY <1>0 DEF BacktestsTypeOK, IInv, RunsOK
  <2>1. CASE job'[r] = job[r]
    BY <1>1, <2>0, <2>1, SameRunOK
  <2>2. CASE job[r].at \in Working /\ job'[r] = [job[r] EXCEPT !.at = "killed", !.clean = FALSE]
    <3>1. job'[r] \in Jobs /\ job'[r].at = "killed" /\ job'[r].clean = FALSE
      BY <2>0, <2>2 DEF Jobs
    <3> QED
      BY <1>1, <2>0, <2>2, <3>1 DEF RunOK, Exists, Working
  <2> QED
    BY <1>1, <2>1, <2>2
<1>3. job' \in [RunIds -> Jobs]
  BY <1>1, <1>2
<1>4. BacktestsTypeOK'
  BY <1>0, <1>1, <1>3 DEF BacktestsTypeOK
<1> QED
  BY <1>2, <1>4 DEF IInv, RunsOK

LEMMA StepOK == IInv /\ [BacktestsNext]_backtestsVars => IInv'
<1> SUFFICES ASSUME IInv, [BacktestsNext]_backtestsVars PROVE IInv'
  OBVIOUS
<1>1. CASE UNCHANGED backtestsVars
  BY <1>1, SameRunOK DEF backtestsVars, IInv, RunsOK, BacktestsTypeOK
<1> QED
  BY <1>1, JobStepOK, CreateOK, ContextOK, HideOK, PurgeOK, StartOK, StopOK DEF BacktestsNext

\* Types, for any runs and processes.
THEOREM TypeCorrect == BacktestsSpec => []BacktestsTypeOK
  BY InitOK, StepOK, PTL DEF BacktestsSpec, IInv

\* Whatever fails and whoever restarts or purges, a run that says completed has
\* every result its replay made, and no other run carries metrics.
THEOREM CompletedIsWholeHolds == BacktestsSpec => []CompletedIsWhole
<1>1. IInv => CompletedIsWhole
  BY DEF IInv, RunsOK, RunOK, CompletedIsWhole
<1> QED
  BY <1>1, InitOK, StepOK, PTL DEF BacktestsSpec

\* Only a fault leaves an active run without a goroutine.
THEOREM AbandonedOnlyByFaultHolds == BacktestsSpec => []AbandonedOnlyByFault
<1>1. IInv => AbandonedOnlyByFault
  BY DEF IInv, RunsOK, RunOK, AbandonedOnlyByFault
<1> QED
  BY <1>1, InitOK, StepOK, PTL DEF BacktestsSpec
=============================================================================
