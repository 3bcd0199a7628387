----------------------------- MODULE TradeReplay -----------------------------
(***************************************************************************)
(* One backtest replay (internal/backtesting/engine.go, simulateSeries):   *)
(* the engine walks over the candles of the period and, on every bar,      *)
(* first applies funding and exits to the open trade, then looks at a      *)
(* resting entry order, then asks for a signal.  The engine is sequential; *)
(* phase says where in the loop body it is.                                *)
(*                                                                         *)
(* Prices are integers (ticks) far enough above zero for the checks that   *)
(* keep a price positive to pass.  A plan is a set of levels, so two equal *)
(* levels count as one.  Quantities are counted in the smallest unit of    *)
(* the engine's decimals, so a share may have to be rounded.               *)
(* One position at a time, the default of MaxOpenPositions.  Cash is left  *)
(* out: whether an entry finds enough margin is a free choice, and so is   *)
(* whether an analysis, or the dice of the control group, gives a signal.  *)
(***************************************************************************)
EXTENDS Integers

CONSTANTS
  Prices,         \* bound: the prices candles are made of
  Plans,          \* bound: the signals an analysis may give
  Runs,           \* bound: the parameters a run may be created with
  LastBar,        \* bound: candles in the period
  Size,           \* quantity of an entry
  BarLength,      \* duration of a candle
  FundingPeriod,  \* time between settlements, eight hours
  ValidBars,      \* Params.EntryValidBars
  Maintenance,    \* maintenance margin, as a distance in ticks
  Slippage,       \* what an order at the market loses by crossing the spread
  NoOrder         \* pending is nil

\* One step of an exit plan: a distance (of a ladder: a return on margin in
\* percent) and the share of the position to close there.
Steps == [at: Nat, pct: Int]

\* margin: the distance from the entry at which the posted margin is gone,
\* 1/leverage of the entry price.
PlanType == [dir: {1, -1}, stops: SUBSET Steps, targets: SUBSET Steps, atr: Nat, margin: Nat]

RunType == [mode: {"signal", "pnl_ladder", "trailing_atr"}, breakEven: BOOLEAN, pullback: Nat,
            trail: Nat, interval: Nat, profit: SUBSET Steps, loss: SUBSET Steps]

ASSUME PricesAreInts == Prices \subseteq Int
ASSUME PlansAreTyped == Plans \subseteq PlanType
ASSUME RunsAreTyped == Runs \subseteq RunType
ASSUME NumbersAreTyped ==
  /\ {LastBar, Size, BarLength, FundingPeriod} \subseteq Nat \ {0}
  /\ {ValidBars, Maintenance, Slippage} \subseteq Nat

Levels == [price: Int, pct: Int]

Orders == [plan: PlanType, limit: Int, expires: Nat]

ASSUME NoOrderIsApart == NoOrder \notin Orders

Candles == {c \in [open: Prices, high: Prices, low: Prices, close: Prices] :
              /\ c.low <= c.open /\ c.open <= c.high
              /\ c.low <= c.close /\ c.close <= c.high}

VARIABLES
  run,         \* the parameters of this run
  bar,         \* i, the candle being replayed
  candle,      \* candles[i]
  phase,       \* where in the loop body the engine is
  trade,       \* the open trade, or the last one closed
  order,       \* pending
  queue,       \* levels this bar still has to execute
  standing,    \* the levels that stood when this bar began
  lastSignal,  \* lastSignalIndex
  filled       \* history: what this bar executed

vars == <<run, bar, candle, phase, trade, order, queue, standing, lastSignal, filled>>

\* charged counts the settlements; banked is history: a take profit was filled.
Trades == [status: {"none", "open", "closed"}, dir: {1, -1}, entry: Int,
           stops: SUBSET Levels, targets: SUBSET Levels, margin: Nat,
           remaining: 0..Size, exited: 0..Size, breakEven: BOOLEAN, banked: BOOLEAN,
           trail: Nat, peak: Int, next: Nat, charged: Nat, opened: Nat]

NoTrade == [status |-> "none", dir |-> 1, entry |-> 0, stops |-> {}, targets |-> {}, margin |-> 0,
            remaining |-> 0, exited |-> 0, breakEven |-> FALSE, banked |-> FALSE,
            trail |-> 0, peak |-> 0, next |-> 0, charged |-> 0, opened |-> 0]

\* "stop_loss" stands for "stop_loss_ambiguous_candle" as well.
Fills == [kind: {"stop_loss", "take_profit", "liquidation", "end_of_period"}, price: Int, fill: Int]

Open == trade.status = "open"

NoLevels == [stops |-> {}, targets |-> {}]

\* The first candle finds nothing open.
Init ==
  /\ run \in Runs
  /\ bar = 1
  /\ candle \in Candles
  /\ phase = "order"
  /\ trade = NoTrade
  /\ order = NoOrder
  /\ queue = {}
  /\ standing = NoLevels
  /\ lastSignal = 1 - run.interval
  /\ filled = {}

-----------------------------------------------------------------------------
(* What a candle does to a price level *)

Worst(c, dir) == IF dir = 1 THEN c.low ELSE c.high
Best(c, dir) == IF dir = 1 THEN c.high ELSE c.low

TouchesStop(c, dir, price) == dir * (Worst(c, dir) - price) <= 0
TouchesTarget(c, dir, price) == dir * (Best(c, dir) - price) >= 0

StopsTouched(t, c, stops) == {l \in stops : TouchesStop(c, t.dir, l.price)}
TargetsTouched(t, c, targets) == {l \in targets : TouchesTarget(c, t.dir, l.price)}

\* Of two prices, the one that is worse for the trade.
Worse(dir, p, q) == IF dir * (p - q) <= 0 THEN p ELSE q
Better(dir, p, q) == IF dir * (p - q) >= 0 THEN p ELSE q

\* A stop is an order at the market: behind a gap it starts from the open.
StopFill(level, c, dir) == Worse(dir, level, c.open)

\* executeExit: every exit but a take profit is a taker order and crosses the spread.
Slipped(price, dir) == price - dir * Slippage

Floored(n) == IF n < 0 THEN 0 ELSE n

LiquidationPrice(t) == t.entry - t.dir * Floored(t.margin - Maintenance)

\* Capped at the bankruptcy price.
LiquidationFill(t, c) ==
  Better(t.dir, StopFill(LiquidationPrice(t), c, t.dir), t.entry - t.dir * t.margin)

Liquidated(t, c) == TouchesStop(c, t.dir, LiquidationPrice(t))

\* Some stop the candle reached is nearer than the liquidation price.
StopPrecedes(t, c) ==
  \E l \in StopsTouched(t, c, t.stops) : t.dir * (l.price - LiquidationPrice(t)) > 0

\* The levels the candle executes: targets only where it touches no stop.
DueOptimistic(t, c) ==
  IF Liquidated(t, c) /\ ~StopPrecedes(t, c) THEN {}
  ELSE IF TargetsTouched(t, c, t.targets) # {} THEN TargetsTouched(t, c, t.targets)
  ELSE StopsTouched(t, c, t.stops)
Due(t, c) ==
  IF Liquidated(t, c) /\ ~StopPrecedes(t, c) THEN {}
  ELSE IF StopsTouched(t, c, t.stops) # {} THEN StopsTouched(t, c, t.stops)
  ELSE TargetsTouched(t, c, t.targets)

-----------------------------------------------------------------------------
(* What happens to a trade *)

\* The share is rounded; the last one takes what is left.
ExitUnclamped(t, pct) ==
  LET qty == (Size * pct + 50) \div 100
  IN  [t EXCEPT !.exited = @ + qty, !.remaining = Floored(@ - qty)]
Exit(t, pct) ==
  LET share == (Size * pct + 50) \div 100
      qty == IF pct >= 100 \/ share > t.remaining THEN t.remaining ELSE share
  IN  IF qty <= 0 THEN t
      ELSE [t EXCEPT !.exited = @ + qty, !.remaining = Floored(@ - qty)]

ClosePct(l) == IF l.pct <= 0 THEN 100 ELSE l.pct

\* The first settlement strictly after a moment.
NextFundingFrom(now) == ((now + FundingPeriod - 1) \div FundingPeriod) * FundingPeriod
NextFundingAfter(now) == (now \div FundingPeriod + 1) * FundingPeriod

\* Every settlement up to now is charged once.
Funded(t, now) ==
  IF t.next > now THEN t
  ELSE LET n == (now - t.next) \div FundingPeriod + 1
       IN  [t EXCEPT !.charged = @ + n, !.next = @ + n * FundingPeriod]

\* After a take profit the rest is protected at the entry price.
ProtectedLate(t, c) ==
  IF run.breakEven /\ ~t.breakEven /\ TargetsTouched(t, c, t.targets) # {}
  THEN [t EXCEPT !.breakEven = TRUE, !.stops = {[price |-> t.entry, pct |-> 100]}]
  ELSE t
Protected(t, c) ==
  IF /\ run.breakEven /\ ~t.breakEven
     /\ StopsTouched(t, c, standing.stops) = {}
     /\ TargetsTouched(t, c, standing.targets) # {}
  THEN [t EXCEPT !.breakEven = TRUE, !.stops = {[price |-> t.entry, pct |-> 100]}]
  ELSE t

\* The Chandelier stop follows the best price since the entry and never retreats.
Trailed(t, c) ==
  IF t.trail = 0 THEN t
  ELSE LET peak == Better(t.dir, t.peak, Best(c, t.dir))
           level == peak - t.dir * t.trail
       IN  [t EXCEPT !.peak = peak,
                     !.stops = IF \A l \in @ : t.dir * (level - l.price) > 0
                               THEN {[price |-> level, pct |-> 100]} ELSE @]

-----------------------------------------------------------------------------
(* Entries *)

At(steps, base, side) == {[price |-> base + side * s.at, pct |-> s.pct] : s \in steps}

\* A return on margin becomes a distance from the entry.
LadderTargets(steps, entry, side, margin) ==
  {[price |-> entry + side * ((s.at * margin) \div 100), pct |-> s.pct] :
     s \in {x \in steps : (x.at * margin) \div 100 > 0 /\ x.pct > 0}}

\* base is the price the plan's distances are measured from.
Stops(p, base, entry) ==
  CASE run.mode = "signal" -> At(p.stops, base, -p.dir)
    [] run.mode = "pnl_ladder" -> LadderTargets(run.loss, entry, -p.dir, p.margin)
    [] run.mode = "trailing_atr" -> {[price |-> entry - p.dir * p.atr * run.trail, pct |-> 100]}

Targets(p, base, entry) ==
  CASE run.mode = "signal" -> At(p.targets, base, p.dir)
    [] run.mode = "pnl_ladder" -> LadderTargets(run.profit, entry, p.dir, p.margin)
    [] run.mode = "trailing_atr" -> {}

Opened(p, base, entry) ==
  [status |-> "open", dir |-> p.dir, entry |-> entry,
   stops |-> Stops(p, base, entry), targets |-> Targets(p, base, entry), margin |-> p.margin,
   remaining |-> Size, exited |-> 0, breakEven |-> FALSE, banked |-> FALSE,
   trail |-> IF run.mode = "trailing_atr" THEN p.atr * run.trail ELSE 0, peak |-> entry,
   next |-> NextFundingAfter(bar * BarLength), charged |-> 0, opened |-> bar]

\* A run that places a price in ATR units does not trade without an ATR.
RequiresATR == run.mode = "trailing_atr" \/ run.pullback > 0
Tradable(p) == ~Open /\ (RequiresATR => p.atr > 0)

\* The new trade has done nothing yet; this bar's exits were another trade's.
OpenTrade(p, base, entry) ==
  /\ trade' = Opened(p, base, entry)
  /\ standing' = NoLevels
  /\ filled' = {}

Limit(p) == candle.close - p.dir * run.pullback * p.atr

-----------------------------------------------------------------------------
(* The loop body: funding and exits *)

\* The next candle.  Funding comes first; then it is settled which levels go.
NextBar(c) ==
  /\ phase = "next"
  /\ bar < LastBar
  /\ bar' = bar + 1
  /\ candle' = c
  /\ phase' = IF Open THEN "exits" ELSE "order"
  /\ trade' = IF Open THEN Funded(trade, (bar + 1) * BarLength) ELSE trade
  /\ queue' = IF Open THEN Due(trade, c) ELSE {}
  /\ standing' = IF Open THEN [stops |-> trade.stops, targets |-> trade.targets] ELSE NoLevels
  /\ filled' = {}
  /\ UNCHANGED <<run, order, lastSignal>>

\* Levels are executed nearest first, until nothing is left of the trade.
ExecuteLevel(kind, l, levelFill, after) ==
  /\ trade' = after
  /\ queue' = IF after.remaining = 0 THEN {} ELSE queue \ {l}
  /\ filled' = filled \cup {[kind |-> kind, price |-> l.price, fill |-> levelFill]}
  /\ UNCHANGED <<run, bar, candle, phase, order, standing, lastSignal>>

\* The stops the candle reached; when there are any, the bar executes no target.
Reached == StopsTouched(trade, candle, standing.stops)

ExecuteStop(l) ==
  /\ phase = "exits"
  /\ l \in queue \cap Reached
  /\ \A m \in queue : trade.dir * (l.price - m.price) >= 0
  /\ ExecuteLevel("stop_loss", l, Slipped(StopFill(l.price, candle, trade.dir), trade.dir),
                  Exit([trade EXCEPT !.stops = @ \ {l}], ClosePct(l)))

ExecuteTarget(l) ==
  /\ phase = "exits"
  /\ l \in queue \ Reached
  /\ \A m \in queue : trade.dir * (l.price - m.price) <= 0
  /\ ExecuteLevel("take_profit", l, l.price,
                  Exit([trade EXCEPT !.targets = @ \ {l}, !.banked = TRUE], ClosePct(l)))

\* finalizeTrade: nothing remains.
FinalizeTrade ==
  /\ phase = "exits" /\ queue = {}
  /\ trade.remaining = 0
  /\ trade' = [trade EXCEPT !.status = "closed"]
  /\ phase' = "order"
  /\ UNCHANGED <<run, bar, candle, order, queue, standing, lastSignal, filled>>

\* What the stops left open is still exposed to the same candle.
Liquidate ==
  /\ phase = "exits" /\ queue = {}
  /\ trade.remaining > 0
  /\ Liquidated(trade, candle)
  /\ trade' = [Exit(trade, 100) EXCEPT !.status = "closed"]
  /\ filled' = filled \cup {[kind |-> "liquidation", price |-> LiquidationPrice(trade),
                             fill |-> Slipped(LiquidationFill(trade, candle), trade.dir)]}
  /\ phase' = "order"
  /\ UNCHANGED <<run, bar, candle, order, queue, standing, lastSignal>>

\* The trade survives the bar; only now does the bar move its stop.
Survive ==
  /\ phase = "exits" /\ queue = {}
  /\ trade.remaining > 0
  /\ ~Liquidated(trade, candle)
  /\ trade' = Trailed(Protected(trade, candle), candle)
  /\ phase' = "order"
  /\ UNCHANGED <<run, bar, candle, order, queue, standing, lastSignal, filled>>

-----------------------------------------------------------------------------
(* The loop body: the resting order *)

\* With one position at a time the book is never full while an order rests.
Lapses == bar > order.expires \/ Open

\* The candle reached the limit.
Fillable == TouchesStop(candle, order.plan.dir, order.limit)

KeepOrder ==
  /\ phase = "order"
  /\ order # NoOrder => ~Lapses /\ ~Fillable
  /\ phase' = "signal"
  /\ UNCHANGED <<run, bar, candle, trade, order, queue, standing, lastSignal, filled>>

\* Expired, or the book is full.
LapseOrder ==
  /\ phase = "order"
  /\ order # NoOrder /\ Lapses
  /\ order' = NoOrder
  /\ phase' = "signal"
  /\ UNCHANGED <<run, bar, candle, trade, queue, standing, lastSignal, filled>>

\* The plan moves with the fill; without the margin for it the order is gone.
FillOrder(granted) ==
  /\ phase = "order"
  /\ order # NoOrder /\ ~Lapses /\ Fillable
  /\ IF granted THEN OpenTrade(order.plan, order.limit, order.limit)
                ELSE UNCHANGED <<trade, standing, filled>>
  /\ order' = NoOrder
  /\ phase' = "signal"
  /\ UNCHANGED <<run, bar, candle, queue, lastSignal>>

-----------------------------------------------------------------------------
(* The loop body: the signal *)

\* Between two analysis points.
SkipAnalysis ==
  /\ phase = "signal"
  /\ bar - lastSignal < run.interval
  /\ phase' = "next"
  /\ UNCHANGED <<run, bar, candle, trade, order, queue, standing, lastSignal, filled>>

Analyse ==
  /\ phase = "signal"
  /\ bar - lastSignal >= run.interval
  /\ lastSignal' = bar
  /\ phase' = "next"
  /\ UNCHANGED <<run, bar, candle, queue>>

\* The book is full, the strategies are silent, the analysis or the entry fails.
NoEntry ==
  /\ Analyse
  /\ UNCHANGED <<trade, order, standing, filled>>

\* A new order replaces one that is still resting.
PlaceOrder(p) ==
  /\ Analyse
  /\ Tradable(p) /\ run.pullback > 0
  /\ order' = [plan |-> p, limit |-> Limit(p), expires |-> bar + ValidBars]
  /\ UNCHANGED <<trade, standing, filled>>

EnterMarket(p) ==
  /\ Analyse
  /\ Tradable(p) /\ run.pullback = 0
  /\ OpenTrade(p, candle.close, candle.close + p.dir * Slippage)
  /\ UNCHANGED order

\* After the last candle an open trade is closed at its close.
ForceClose ==
  /\ phase = "next" /\ bar = LastBar
  /\ phase' = "done"
  /\ IF Open
     THEN /\ trade' = [Exit(Funded(trade, bar * BarLength), 100) EXCEPT !.status = "closed"]
          /\ filled' = filled \cup {[kind |-> "end_of_period", price |-> candle.close,
                                     fill |-> Slipped(candle.close, trade.dir)]}
     ELSE UNCHANGED <<trade, filled>>
  /\ UNCHANGED <<run, bar, candle, order, queue, standing, lastSignal>>

Next ==
  \/ \E c \in Candles : NextBar(c)
  \/ \E l \in queue : ExecuteStop(l) \/ ExecuteTarget(l)
  \/ FinalizeTrade \/ Liquidate \/ Survive
  \/ KeepOrder \/ LapseOrder
  \/ \E granted \in BOOLEAN : FillOrder(granted)
  \/ SkipAnalysis \/ NoEntry
  \/ \E p \in Plans : PlaceOrder(p) \/ EnterMarket(p)
  \/ ForceClose

Spec == Init /\ [][Next]_vars

-----------------------------------------------------------------------------
(* Properties *)

\* Every variable keeps its type; in particular no trade sells more than its
\* size, which is what the clamps of executeExit are for.
TypeOK ==
  /\ run \in Runs
  /\ bar \in 1..LastBar
  /\ candle \in Candles
  /\ phase \in {"next", "exits", "order", "signal", "done"}
  /\ trade \in Trades
  /\ order \in Orders \cup {NoOrder}
  /\ queue \subseteq Levels
  /\ standing \in [stops: SUBSET Levels, targets: SUBSET Levels]
  /\ lastSignal \in Int
  /\ filled \subseteq Fills

\* Whatever mix of partial targets, stops, liquidation and the end of the period
\* takes a trade down, its exits sum up to its entry, each unit once, and the
\* trade is reported closed exactly when nothing is left of it.
NothingSoldTwice ==
  /\ trade.status # "none" => trade.remaining + trade.exited = Size
  /\ trade.status = "closed" => trade.remaining = 0
  /\ Open /\ phase # "exits" => trade.remaining > 0

\* A candle that touches a standing stop takes no profit.
StopsFirst ==
  (\E l \in standing.stops : TouchesStop(candle, trade.dir, l.price))
     => \A f \in filled : f.kind # "take_profit"

\* A bar executes only levels that stood before it began: none that it set itself.
OnlyStandingLevels ==
  \A f \in filled :
    /\ f.kind = "stop_loss" => \E l \in standing.stops : l.price = f.price
    /\ f.kind = "take_profit" => \E l \in standing.targets : l.price = f.price

\* A trade is liquidated only after every nearer stop the candle reached.
StopsBeforeLiquidation ==
  \A f \in filled : f.kind = "liquidation" =>
    \A l \in standing.stops :
      /\ TouchesStop(candle, trade.dir, l.price)
      /\ trade.dir * (l.price - f.price) > 0
      => \E g \in filled : g.kind = "stop_loss" /\ g.price = l.price

\* No exit beats its level, and a stop gets a price the candle traded at, less the
\* whole slippage: which may take it out of the range of the candle.
FillsWerePossible ==
  \A f \in filled :
    /\ trade.dir * (f.fill - f.price) <= 0
    /\ f.kind = "stop_loss" =>
         LET traded == f.fill + trade.dir * Slippage
         IN  candle.low <= traded /\ traded <= candle.high

\* Within one candle the replay makes up no order of events in the trade's favour
\* (updateOpenTrade): stops before targets, stops before liquidation, no level that
\* the candle itself set, no fill better than its level or than what the candle
\* traded at.  This is said of trades that were open when the candle began: the one
\* in which a resting order fills executes no exit of the new trade, also when its
\* extreme lies beyond the stop (engine.go:531-537).
BarIsHonest ==
  StopsFirst /\ OnlyStandingLevels /\ StopsBeforeLiquidation /\ FillsWerePossible

\* Once a target was filled in a run with break-even, what is left can only be lost
\* at the entry price: no stop of the plan and no liquidation gets at it any more.
\* It takes a margin above the maintenance margin, or liquidation is at the entry.
BankedIsProtected ==
  run.breakEven /\ trade.banked /\ phase # "exits" =>
    /\ Open => trade.stops = {[price |-> trade.entry, pct |-> 100]}
    /\ trade.breakEven => \A f \in filled :
         /\ f.kind # "liquidation"
         /\ f.kind = "stop_loss" => f.price = trade.entry

\* A trade pays every settlement between its opening and now once: none for the
\* moment it opened, all of those one long candle spans, none twice at the end.
FundingOncePerSettlement ==
  Open \/ (trade.status = "closed" /\ filled # {}) =>
    trade.charged = (bar * BarLength) \div FundingPeriod
                      - (trade.opened * BarLength) \div FundingPeriod
=============================================================================
