# Formal models of Crypto Market Advisor

TLA+ modules, TLC configurations and TLAPS proofs for the Go backend in
`src/backend`. The backend is one binary (`cmd/server`) started as `serve`,
`api` or `worker`; all of them share one PostgreSQL database. Inside a process
everything runs on goroutines: one per HTTP request, the scheduler's loops,
one per backtest and one for a history import. There is no message queue; the
parts meet in database rows, in a few mutex-protected fields and in two
semaphores. That is where most models look: at the interleavings of statements
and lock sections, at processes that stop between two statements, and at values
that are read, kept for a while and then used. The rest, from a closed candle to
a stored recommendation, is a long sequential computation with two halves that
must treat longs and shorts alike; there the models look at what holds between
its stages and across two runs of it.

Source paths below are relative to `src/backend/internal` unless they start
with `cmd/`.

## Inventory

| Component | State | Operations | Where it is hard | What makes it correct |
|---|---|---|---|---|
| **Positions** `positions`, `pnl`, `repository/positions.go` | rows of `positions`, the append-only `position_fills`, `position_events`, `fee_events`, `funding_events`; `recommendation_decisions` | open, close (part, all, percent), plan update, fee, funding, delete, view | a close reads the row outside the transaction that writes it; a view is several statements; opening and linking the decision are two transactions | the cached row never hides an exposure, history only grows; serially: row = history |
| **Backtest runs** `backtesting/engine.go` (`Run`, `Cancel`), `repository/backtests.go`, handlers, `cmd/server/main.go` | `backtest_runs`, `backtest_trades`, `Engine.running` | create, run, cancel, time out, hide, purge, retire at start | a goroutine writes a status without reading it; three statements make a result; restart | completed is whole, every run settles |
| **Backtest replay** `backtesting/engine.go` (`simulateSeries` and below) | the open trade, pending entries, the account | fill, partial exits, trailing stop, funding, liquidation, force close | exits of one candle in a fixed order, quantities that must end at zero | nothing is sold twice, no look-ahead, stop before target |
| **Inference** `llm/client.go`, `llm/service.go`, `llm_inferences` | `Client.cfg`, `Client.sem`, the trace table (which is also the replay cache) | `Analyze`, `Complete`, one repair, `SetConfig` | the semaphore is replaced while slots are held; the configuration is read more than once per call | slots return where they came from, nobody waits for ever, only validated answers are replayed |
| **Answer format** `llm/validate.go` | none | `Validate` | thirty rules checked one by one, a sum that is normalised, a sort | an accepted entry is a bracket as a whole |
| **Settings** `settings/service.go`, `app_settings`, `liveConfig` | the stored document, one copy per process, the configuration each component holds | load, update, apply | store, set and apply are separate; components are configured one by one | what runs is what is stored and what the screen shows |
| **Candle history** `marketdata/service.go`, `marketdata/bybit`, `repository/candles.go` | `ohlcv_candles` per asset and timeframe | backfill, import | two watermarks describe a set; the exchange answers late; the client pages only so far | what a success stored has no gap, what it skipped is found by the next; no forming bar kept as history |
| **Import job** `marketdata/importer.go` | `Service.importJob` | start, cancel, poll | cancel and finish race; the next job may start at once | one worker, a true verdict, every job ends |
| **Scheduler** `scheduler/scheduler.go` | `cycleRunning`, `lastManual`, the analysis semaphore | the loops, `RunCycle`, `AnalyzeNow` | a cycle outlasting its interval, requests and cycle on one semaphore, assets switched meanwhile | a cycle is complete and in order, cooldown means what it says, everything ends |
| **Recommendations** `recommendations/service.go`, `outcomes.go` | `recommendations`, `recommendation_outcomes` | `Analyze`, build and store, outcome evaluation | facts read before an inference and used minutes later; outcomes over two growing series | a recommendation refers to what it saw; a final verdict is the true one |
| **Risk engine** `risk/engine.go` | its policy | evaluate a proposal against a snapshot, `SetConfig` | many limits in a fixed order, a policy replaced in the middle | the loss on margin and the size stay bounded |
| **News** `news/*`, `repository/news.go`, `news_reactions.go` | `news_sources`, `news_items`, `news_clusters`, `news_market_reactions` | collect, deduplicate, cluster, switch a source, measure reactions | concurrent transactions, windows of time, queues with items that fail | nothing is missed, counts equal members, measurements stay, nothing starves |
| **Technical analysis** `analysis/*` | none | patterns, structure, regime, score, divergences, strategies, vote, snapshot | some fifty formations, twenty strategies and ten filters written once per side; swings that need later candles | no repainting, support never hurts, long and short are treated alike |
| Universe and prices `marketdata/service.go`, `marketdata/coingecko` | `assets`, `market_snapshots`, provider health | refresh universe, ingest prices, backfill funding | partial failure of a provider | stale data is marked stale |
| HTTP client `httpx/client.go` | limiter's next slot | `Do` with rate limit, retry, pause after 429 | reserved slots of callers that gave up | never faster than the interval |
| Similar-situation history, prompt | read-only tables | vector search, text | floating point, text | see "Not modelled" |
| API server, database, configuration, lab command, frontend | none of their own | routing, migrations, parsing, display | - | - |

How they interact: the scheduler calls market data, then recommendations, which
reads candles, news, positions and risk limits, runs the deterministic analysis,
calls inference, has the answer validated and sized and stores a
recommendation. A user opens a position from a recommendation (Positions writes
the decision row of Recommendations). Backtests read candles and call the same
analysis and strategies and, on request, inference. Settings pushes its sections
into positions, risk, recommendations, scheduler, llm and backtests. The hazards
found while reading are listed in `PROJECT.json`, each at its line, with the
properties that cover it or the reason why none does. A component in bold has
a module.

## Modules

```
PositionLedger  <--INSTANCE--  PositionsRefinement  --EXTENDS-->  Positions
                                      ^                               ^
                                 MCPositions                   PositionsProofs
CandleHistory <- MCCandleHistory  }
Importer      <- MCImporter       }  <- HistoryProofs
TradeReplay   <- MCTradeReplay    }
Backtests     <- MCBacktests      }  <- BacktestingProofs
Settings      <- MCSettings       }
Inference     <- MCInference      }  <- ConfigurationProofs
AnalysisCycle <- MCAnalysisCycle, AnalysisCycleProofs
News          <- MCNews, NewsProofs
Reactions     <- MCReactions, ReactionsProofs

Answers  RiskEngine  Grading                (operators: what each function computes)
       \     |      /
        Advice  --------.
                         Recommendations <- MCRecommendations, RecommendationsProofs
        Signals --------'
       /   |    \
Candlesticks  MarketStructure  ChartPatterns  Divergences  Regime
Opinions  Votes  Snapshot  (over Readings)
```

A proof module that covers two components EXTENDS both, so the second one's names say whose
they are (`ImportSpec`, `BacktestsInit`, `InferenceTypeOK`).

### Positions, PositionLedger, PositionsRefinement

`row` is table `positions` with its cached columns, `hist` what the four history
tables hold of a position (how many closes, the quantity they sold, the type of
the last closing event, the plan of the last plan event, the number of cash
events), `decision` the decision table. The rest are the locals of each request:
`pc`, `on`, `rec`, the row it `read` and the quantity its view has `seen`.

| Action | Code |
|---|---|
| `Open`, `Link` | `Service.Open`: `Create` in one transaction, then `SetDecision`, whose failure is logged |
| `Decide` | `handleRecommendationDecision` |
| `CloseRead`, `CloseAll`, `ClosePart` | `Service.Close`: read, `pnl.ComputeClose`, `ApplyClose` in one transaction |
| `PlanRead`, `PlanWrite` | `Service.UpdatePlan` |
| `AddCashEvent`, `Delete` | `AddFee`/`AddFunding`, `Delete` with its cascade |
| `View`, `ViewRow`, `ViewFills` | `Service.View`, also the tail of every writing request |
| `Abandon` | a deadline, a database error, a missing row or a stopped process |

Quantities are natural numbers of a smallest step. A position without known size
(`sized = FALSE`) and one whose size was rounded to zero are kept apart, because
`Close` treats them differently. Prices, fees and realised P&L are left out.

`PositionLedger` is what the user is promised: a book per position that is
recorded, reduced, settled, replanned and dropped, each in one step.
`PositionsRefinement` maps a row and its history to such a book.

### Backtests

`row` is `backtest_runs` (with whether trades and curve exist), `job` the
goroutine of a run, `ctx` its context, `proc` whether a process is down, up, or
up after a clean-up that failed. Every SQL statement is a step. `Create` inserts
the row and starts the goroutine; `Register` to `StoreFails` are the statements
of `Engine.Run`; `Cancel` and `Expire` end the context; `Hide` and `Purge` are the
delete endpoints; `Start` runs `CleanupInterrupted`; `Stop` kills a process with
its goroutines. `Faults` says which of database errors, stops, timeouts and
cancels may happen. What a replay computes is a free choice of whether it made
trades and a curve.

### Inference

`sems` is the sequence of all semaphores `SetConfig` ever made, the last one
being `Client.sem`; `call` holds the locals of each `Analyze`; `traces` is
`llm_inferences`. `Prepare`, `CheckEnabled`, `LookUp`, `Accept`, `Reject` and
`Repair` belong to `Service.Analyze`; `Enter`, `Acquire`, `GiveUp`, `Answer` and
`Fail` to `Client.Complete`. The repair request enters `Complete` again and
therefore may meet another configuration than the first. A trace that cannot be
stored is lost (`persist` only logs).

### Settings

`stored` is the document in `app_settings`, `current` the copy of each process,
`live` the document each of the twelve configured components was last handed,
`actor` the progress of an update or a start. `Script` lists the reads and
hand-overs of `liveConfig.ApplySettings` in order. A document is `plain` when
`normalize` would not change it: `validate` accepts documents it would change.

### CandleHistory

One series. Time is counted in bars; at instant `now`, bar `now` is forming. `bars`
says of each bar whether it is missing, whole, or torn, i.e. stored as closed
with values it had while forming (the exchange served it before its close and the
response was parsed after it). `job` holds the locals of backfills and imports.
`Response` is `klines` with its limit of 100 pages (`Cap`); `LastOpenTime`,
`Fetch`, `FirstOpenTime`, `FetchOlder`, `Store` are the statements and requests of
`bybitBackfill` and `BackfillCandles`; `Import`, `FetchPeriod`, `StorePeriod` those
of one unit of an import. `BackfillCandles` takes six timeframes in turn and goes on when one
fails or brings nothing (`Skip`, `Store` with nothing); it reports success when any of them was
stored. The call therefore ends in one of three ways: it reports success and has stored this
series (`synced`), it reports success for the sake of another timeframe (`elsewhere`; whether
another one was stored is a free choice of `Report`), or it fails (`Abort`).

### Importer

The progress the user polls and the goroutine behind it: `StartImport`,
`CancelImport`, and the loop `Loop`, `Download`, `Record`, `Decide`,
`FinishImport`. `updateImport` and `finishImport` write to whatever job is
current, which is why `OneWorker` matters.

### TradeReplay

The loop of `simulateSeries` with one position, the default of
`MaxOpenPositions`. `phase` is the place in the loop body; the engine is sequential,
so a phase is only a way to see what happens between two statements. `NextBar` takes
the next candle (any of them), applies funding and settles which levels go (`Due`);
`ExecuteStop` and `ExecuteTarget` are one turn of the loop in `executeTouchedTargets`,
nearest level first; `FinalizeTrade`, `Liquidate` and `Survive` are the ends of
`updateOpenTrade`, the last with break-even and `trailStop`. `KeepOrder`, `LapseOrder`
and `FillOrder` are the switch over the resting entry; `SkipAnalysis`, `NoEntry`,
`PlaceOrder` and `EnterMarket` the rest of the body, `ForceClose` what follows it.
`standing` keeps the levels of the beginning of the bar, which the code has in
`tpTouched` and `slTouched`; `filled` and the field `banked` are history for the
properties. Prices are integers, the liquidation and bankruptcy distances are given
with the plan, quantities are in the smallest unit so that a share must be rounded.
Whether a signal comes and whether an entry finds margin is a free choice; a
control-group run differs from a run without pullback in nothing else.

### AnalysisCycle

The analysis loop, the goroutines of its cycle and the requests of users, one
`task` each. `sem` is `semaphore.Weighted` with its queue, as the code uses it:
`Queue`, `Take`, `Leave`, `Release` are external. `StartCycle`, `Ask`, `Spawn`,
`StopWaiting`, `EndCycle` are `RunCycle`; `Request`, `Enter`, `GiveUp` are
`AnalyzeNow` and its handler; `ReadPositions`, `Recommend`, `Fail` are
`recommendations.Service.Analyze` seen from outside. `OpenPosition`,
`ClosePosition`, `Toggle`, `EditSettings` and `Stop` are what goes on meanwhile.
`cycle` (what was enabled and held when the cycle began, what it started),
`answered` (when a request was admitted or refused) and the field `alive` of a task
(the positions of its asset that were open at some moment of it) are history.

### News, Reactions

`News`: articles appear in feeds with a delay; `StartPass` to `RecordSuccess` are
`Collector.Collect` with one goroutine per source and one transaction per fetch
(`Duplicates`, `Touch`, `Insert`, `Commit`), `Assign`, `CreateCluster`,
`JoinCluster`, `EndPass` are `Processor.ProcessPending`, `SetEnabled` is the
user's switch. `Walks` is what a fetch reads of a feed: all of it, or of a source read in
pages (`Paged`, Bybit) its newest articles, since the walk stops at `maxPages` or at a later
page that answers 304; articles without a date and those the collector rejects are not
`Usable`. `reach` and `unread` remember, as history, what was lost in this way. What PostgreSQL does to two transactions is modelled too: neither
sees what the other has not committed (`Visible`), a unique URL or a locked row
makes one wait (`Blocked`), and two that wait for each other lose one (`Victim`).
Which titles are about one event is a relation, `Alike`; assets and categories of
an article are left out.

`Reactions`: candles are named by the time they close and arrive in any order;
`StartPass`, `Baseline`, `Horizon`, `Extremes`, `Finish` are one pass of
`ReactionTracker`, each query a step. A return is named by the candle it was measured
at, the extremes by the set of candles they cover, so that "does not contradict" can
be said without prices.

### Answers, RiskEngine, Grading, Advice

`Answers` is `llm.Validate` as a predicate (`Accepted`) and a function
(`Validated`, with the normalisation and the sort), over records with absent
fields; shares in thousandths of a percent so that rounding to two places is
seen. `RiskEngine.Evaluate` takes the policy as the sequence `P` of its reads, so
that each read may see another policy: the code locks each read, not the
evaluation. `Grading` is `evaluateOne` with `detectHits`, over sets of bars, which the queries return in
the order of their open time. `Advice` is the way of
one recommendation through them: `AskModel`, `Validate`, `Assess`, `Insert`, then
`StoreFine` and `StoreCoarse` store any closed candle of either series at any time, in any order or
never, and `ReadFine` and `Grade` are the two queries of `EvaluateOutcomes`. Both queries
take what opens at or after `CreatedAt`, which may fall anywhere within a coarse candle:
`Insert` chooses `early`, the number of fine bars that are over when the first coarse bar of the query
opens (0 to 4 in the code, with 1m and 5m candles). Both series tell of the same trades; the clock is read
in one step with the fine candles. `evidence` is no state of the code: it remembers which minutes the last
evaluation rested on, those of the series it used and those of the fine one. What a stage no
longer needs is dropped from the state.

### Candlesticks, MarketStructure, ChartPatterns, Divergences, Regime, Opinions, Votes, Snapshot, Signals

The deterministic half, as operators over a sequence of candles with integer
prices; every comparison of ratios is multiplied out. `Candlesticks` has the whole
catalogue of formations (`Lone` to `Returns`), `MarketStructure` the swings, labels,
state and breaks, `ChartPatterns` the nine detectors over swings and ranges,
`Regime` the regime, the score and the volatility tags, `Opinions` every strategy and
filter of the catalogue, `Votes` the weights, the adaptive multiplier, the
filters, the verdict and the four presets, `Snapshot` alignment, aggregate
regime, key levels and what the risk engine reads. `Readings` holds
the arithmetic of readings that may be missing. `Signals` puts them together as the
code does in `AnalyzeTimeframe`, `BuildSnapshot` and `strategies.Evaluate`:
`CandleCloses` appends a candle and decides again. Indicators and support and
resistance levels are inputs (the outlook), except the averages, channels, true
ranges and RSI that strategies compute from candles themselves.

### Recommendations

The composition: `SignalStep` while no model is asked, then `Ask` hands the snapshot
that was just decided on to `Advice`, whose risk assessment reads the same
volatility, regime, alignment and key levels. The candles are dropped then, as the code
does not read them again.

## What TLC checks

Run with `tlc -workers 2 -config <cfg> <module>`.

| Run | Instance | Shows |
|---|---|---|
| `positions` | 2 overlapping requests, 1 position, sizes 0 and 3, 3 closes, 1 cash event | `NeverUnderstated`, `ViewCoversRow`: stale writes may leave the row too high, never too low, and a view shows fills for all its row calls closed. `CacheAgreesWithLastClose`: status, `closed_at` and the newest event tell one story even after a stale write reopened a position. |
| `positions_serial` | 1 request at a time, 2 plans, 4 closes | `CacheMatchesFills`, and `KeepsLedger`: the component implements `PositionLedger`. |
| `backtests` | 2 runs, 1 process, all faults, fairness | `CompletedIsWhole`, `AbandonedOnlyByFault`, `Settles`. |
| `inference` | 2 callers, 1 model, 1 or 2 slots, 1 resize, 2 traces, fairness | `SlotsAccounted`, `CachedHasOrigin`, `EveryRequestEnds`. |
| `settings` | 1 process, 1 client, 2 edits, refused and lost writes, restarts | `AppliedEverywhere`, `NothingUnstoredRuns`. |
| `candles` | window 4, cap 5, time to 6; 1 backfill, 1 import | `BackfillsLeaveNoGap`: who stored the series and reports success has every closed bar of its window, also after an outage longer than klines can page back; who skipped it and reports success all the same lacks only what the next backfill looks for. `BothEndsReached` (of a success that stored the series), `NothingForming`. |
| `importer` | 2 jobs, 3 units, fairness | `OneWorker`, `VerdictIsTrue`, `ImportEnds`. |
| `trade_replay` | 4 candles over 5 prices, 4 kinds of run, a long and a short plan, size 10 | `NothingSoldTwice`, `BarIsHonest` (stops before targets and before liquidation, only levels that stood before the candle, no fill better than its level or, but for the slippage, at a price not traded), `BankedIsProtected`, `FundingOncePerSettlement`. |
| `cycle` | 2 assets, 2 requests for one of them, 2 slots, 1 position, 1 event of the user, time to 2, fairness | `CycleIsComplete`: each asset enabled at its start once, held ones first, and nothing left running. `CooldownIsFair`: two admitted requests are a cooldown apart, and a refusal has an admitted one behind it. `NamesOpenPosition`. `EverythingEnds`: cycle and requests, although they queue behind each other. |
| `news` | 2 sources, one of them read in pages, with 2 usable articles each and one without a date, one shared URL and one syndicated title, 2 goroutines, 1 fault, 1 switch, time to 1, fairness | `NothingMissed`: of the version a source remembers by its ETag all is stored but what was rejected, older than the first window or behind the end of a walk. `ClusterAddsUp`, `DisabledStaysDisabled`, `BacklogClears`. |
| `reactions` | a healthy pair and one that fails for ever, 2 horizons, time to 6, 1 restart, fairness | `ExtremesCoverReturns`, `MeasuredStays`, `HealthyPairsEnd`. |
| `recommendations` | nine series of 29 to 32 candles (trends, an uneven range, impulses, a crash, a panic and some of their mirrors) each followed by up to four more of at most 22 shapes, 5 outlooks, 8 strategy sets; some 850 answers of the model, 2 risk policies swapped at any of the reads, 4 fine bars of 4 shapes after a long, 3 after a short, any of them and of the coarse ones stored or not | `NoRepaint`: swings and breaks stay as reported. `SupportNeverHurtsYet`: one more vote for the side that is taken never takes it away. `MirrorFairYet`: on the chart turned upside down every formation has its twin, and the decision is the opposite one. `PlanIsBracket`: an accepted plan surrounds its entry, in order, and closes all of it. `ExposureBounded`: leverage times stop distance and the budget at risk hold whatever was asked and whenever the policy changed. `VerdictIsTrue`: a final win or loss is what came first on the candles it rests on: a minute that says otherwise was not stored in the series used, lay before its first whole coarse candle, or inside the same coarse candle without a fine one; what is left open no stored fine candle decides. |

Type invariants of the modules with state of their own are theorems (`AnalysisCycle` and
`Advice` have none: their inductive invariants carry the types they need), and no run
lists them. The mutants in `PROJECT.json` are
plausible mistakes at the mapped code, one per property, defined beside the operator
they would replace.

### Bounds, and why they are enough

* *Positions.* The hazards are races between one request that read and one that
  writes, so two requests per position suffice; different positions share no
  row. Size 3 leaves room for two partial closes that together exceed it. The
  proofs below remove these bounds for what they cover.
* *Backtests.* Runs interact only through `Hide`, `Purge` and `Retire`, which take
  sets of runs: two show a set that is treated differently in part.
* *Inference.* Two callers with one slot already queue; one resize leaves one
  caller on each semaphore. Further resizes repeat the situation. Two traces are
  a row and the row cached from it.
* *Settings.* Two edits, so that a lost one and a stored one differ.
* *CandleHistory.* Seven instants let the system be down for longer than `Cap`
  and then return; a window of 4 is the smallest in which the overlap of a backfill
  does not hide a missing older part; `Window < Cap` as in the code (48 h of minutes to 3 years of
  hours against 100 000 bars). A second backfill takes the states beyond minutes at
  this window; that overlapping ones leave no gap is proved instead.
* *TradeReplay.* Four candles are an entry, a bar that banks or trails, one that
  triggers what the bar before set, and the end; five prices leave room on both sides
  for two levels and a gap through them. The long plan has a stop beyond its
  liquidation and a level that closes the rest, the short one has shares that round to
  less than the whole. A candle of three hours and a settlement every two put
  settlements inside, at the end of and twice into a candle. `ValidBars` 1 with an
  analysis on every second bar lets an order lapse.
* *Importer.* Three units distinguish none, some and all failing with a cancel
  between; the second job meets the first one's goroutine.

* *AnalysisCycle.* Two slots for two goroutines of a cycle and two requests make
  every pair of them compete; both requests want one asset, so that the cooldown
  matters. One event is enough to switch the asset, open or close the position, change
  the settings or stop the process at any point of a cycle.
* *News.* One unit of time separates an article of an earlier window from one of the next;
  `Lag` and `Overlap` are one unit, as an article is late by no more than the code's
  overlap of 15 minutes. `FirstWindow` is 0, so that an article can be too old for a
  first fetch within that time (the code's seven days are longer than its overlap; neither the
  property nor the proof needs the order of the two). Two sources are what one duplicate, one cluster and one deadlock
  need.
* *Reactions.* Horizons 1 and 2 are an inner one and the end of the day, with a grace
  of 1; six units hold two passes after the last horizon. `Limit` 2 with one broken
  pair is the smallest queue that does not starve (500 in the code).
* *Recommendations.* The code looks back 20 and 55 candles for its channels and 200 for its
  trend: here 20, 28 and 28, so that a series of 33 has both. `MinCandles` 30
  as in the code. One outlook and one strategy set per behaviour, because a decision
  reads only the current one. The model is asked about one of the series
  (`Discussed`), its answers, `Replies`, vary in full in the calm situation and by size in the others
  (`Offered`);
  of the accepted ones those that differ in what the risk engine reads go on
  (`Followed`), and of those one long, one short and one that is no entry are graded
  (`Watched`). Two fine bars make a coarse one and the day is one coarse bar, so four
  bars (after the long; the others are followed for three) are two coarse ones where the
  recommendation is made at their boundary, and one with a fine bar before and after it
  where it is not. Each excuse in `VerdictIsTrue` is needed: without it the run
  finds a counterexample.

`CHECK_DEADLOCK FALSE` appears in `MCImporter.cfg` and `MCTradeReplay.cfg`, where the system
stops when all job ids are used or a replay ends, and in the four configurations
`MCAnalysisCycle.cfg`, `MCNews.cfg`, `MCReactions.cfg` and `MCRecommendations.cfg`, whose
clock, series or process comes to an end.

### Fairness

* `Backtests`: a goroutine that can take its next statement does (`WF` on
  `JobStep`); a stopped backend is started again (`WF` on `Start`; the compose file
  restarts it). Nothing is assumed of users, faults or timeouts.
* `Inference`: a caller's own steps and the end of an HTTP request are weakly fair
  (`http.Client` has a timeout). `Acquire` is strongly fair: a Go channel serves
  blocked senders in order, so a slot that keeps coming free reaches every waiter.
  `GiveUp` is not fair: no caller is assumed to lose patience.
* `AnalysisCycle`: the loop, each analysis and a request's way into the semaphore are
  weakly fair: database and inference calls have timeouts, and `semaphore.Weighted`
  serves its waiters in order. Nobody is assumed to give up, and the clock need not run.
* `News`: a pass goes on and requests and statements end (`WF` on `PassStep` and on the steps of
  the sources taken together); articles, faults and switches are free.
* `Reactions`: time goes on and the loop runs its passes; candles need never come.
* `Importer`: the goroutine's steps are weakly fair; downloads end because the
  HTTP client has a timeout and a bounded number of retries.

## What is proved

`PositionsProofs` proves, for every set of requests, ids, recommendations, plans
and sizes and every bound, from the assumptions named in `Positions`
(`SizesAreQuantities`, `BoundsAreNat`, `NoneIsApart`, `SomeIdsAndPlans`):

* `TypeCorrect`: `Spec => []TypeOK`.
* `AppendOnly`: `Spec => HistoryAppendOnly`. From `TypeOK` alone: every step either
  leaves a position's history, adds to it, or drops it with the row.
* `NeverUnderstatedHolds` and `ViewCoversRowHolds`: `Spec => []NeverUnderstated`
  and `Spec => []ViewCoversRow`.

The last two need an inductive invariant, `Accounting`. `NeverUnderstated` is not
inductive: a request about to write a close carries a copy of the row, and the
invariant must say that this copy, however old, is covered by the fills that
exist by now (`ReadsAccounted`). It is, because fills only accumulate, so what
covered the copy when it was read still covers it, and the close adds a fill for
everything by which it lowers the copy. The same argument carries a view from
its row to its fills, so `ViewCoversRow` comes from the same induction. The proof
has one lemma for the arithmetic of a close (`CloseBounds`), one that its results
have their types (`ApplyCloseTypes`), one for what every other step does to a
bystander's copy (`BystanderOK`), and one per action for the acting request.

* `CacheAgrees`: `Spec => []CacheAgreesWithLastClose`. Inductive with the types: a write
  that is stale in its quantities still stores status, time and event together
  (`RowAgrees`, and `AgreesUnlessWritten` for every action that leaves these alone).
* `SerialCacheMatchesFills` and `SerialKeepsLedger`, under `OneAtATime` (at most one
  request is under way; two refute both, see below): the row equals its fills, and the
  service implements `PositionLedger`. The invariant `Serial` adds that what a request
  has read is still what is stored (`Undisturbed`) and that no row exceeds the size it
  was opened with (`WithinSize`). The refinement is proved step by step: `Init` maps to
  `BookInit`, and each action to one step of one book or to a stutter (`OneEntry`); an
  open maps to `Record`, a close to `Reduce` or `Settle`, and what the row does
  not show of a request, such as a read or a link, to nothing.

`BacktestingProofs` proves of `Backtests`, for every set of runs and processes, from `SomeProc`: `TypeOK`,
`CompletedIsWhole` and `AbandonedOnlyByFault`. The inductive invariant says of every
point of a run's goroutine which results its row has (`RunOK`): none before the
trades are stored, the trades before the curve, both when it is about to complete, and only an
ended goroutine has completed. Whoever acts from outside, `Hide`, `Purge` or `Retire`, changes
labels of a row and never its results (`Relabeled`), so the goroutine's facts survive it.

`ConfigurationProofs` proves of `Inference`, for every set of callers, models and sizes: `TypeOK`,
`SlotsAccounted` and `CachedHasOrigin`. The number of callers need not be finite: that
only finitely many are inside a request is part of the invariant. `Pinned` says that
whoever waits or holds refers to a semaphore that exists, also after `SetConfig` has made
another; the count of each is then the number of its holders, which one caller
entering or leaving changes by one.

`HistoryProofs` proves of `CandleHistory`, for every number of backfills and imports, every window, reach
and time: `TypeOK`, `NothingForming`, `BothEndsReached` and `BackfillsLeaveNoGap`. For the
second, `Stages` ties what a backfill has received at each stage to the watermark it
read (`Ahead` while it looks, `Enclosed` when it stores, `Reached` from then on): whatever others store
meanwhile moves the watermarks apart and so keeps it true. For the third, `GapInv`
adds that a hole between two stored bars is older than anything klines could page
back to when it arose (`HolesAreOld`), and what each backfill's batch covers below its own
window (`Trail`): two backfills may both find an empty table, or one may find only what the other has
just stored. `HolesAreOld` also covers the backfill that skipped the series: what is missing of its
window cannot lie between two stored bars. It speaks of `PromptSpec`, where a backfill is over before `MaxWork`
bars have passed, with `WorkFits`: `MaxWork < Window` and `Window + MaxWork <= Cap`. The
HTTP client's timeouts and its few retries keep a request to minutes; the tightest series,
minutes, has 2880 bars of history and 97 000 more in reach. The assumption was found by
the proof: without it the property is false.

`HistoryProofs` proves of `Importer`, for every set of jobs and every number of units, from
`UnitsPositive` and `NoJobIsNoJob`: `TypeOK`, `OneWorker`, `VerdictIsTrue` and
`FinishedStays`. The inductive invariant `Books` adds to them how the goroutine's own
counters relate to the published ones (`Counted`: one unit ahead between a download
and `updateImport`, equal otherwise) and that a job is `running` until its goroutine
has ended (`Announced`). The latter is what makes `OneWorker` inductive: `StartImport`
looks only at the published status, so the status must not change before the
goroutine has nothing left to write. Each step of the goroutine has a lemma that
takes a sound pair of records to a sound pair (`LoopSound` to `CancelSound`);
`StepMoves` and `MovesKeepBooks` lift them to the whole state.

`BacktestingProofs` proves of `TradeReplay`, for every set of prices, plans and run parameters, every
size, period, candle length and funding period, from the assumptions in `TradeReplay`:
`TypeOK`, `NothingSoldTwice` and `FundingOncePerSettlement`. For the first two the
inductive invariant `Ledger` adds that exits happen to an open trade; `ExitConserves`
is the arithmetic of `executeExit` with its rounding and its clamps, and every action
has a lemma. For the third, `Clock` adds that the funding clock of an open trade
stands at the first settlement after the current bar: then the number of settlements
one candle spans telescopes (`FundedCounts`, from three facts about quotients), and the
second call of `applyFunding` at the end of the period finds nothing to charge.
`BarIsHonest` speaks of a finished bar; during one, `Honest` says which of three kinds it is:
it executes stops, each reached, and those no longer due have been executed (`StopBar`),
or targets, having reached no stop and not the liquidation price (`TargetBar`), or it
liquidates (`LiquidationBar`); `WasPossible` is what each fill needs, `LiquidationFillIsNoBetter`
that the cap at the bankruptcy price never lifts a fill over the liquidation price. `BankedIsProtected` needs the same and `Bank`: a trade with
a trail has no targets, and a bar that banks the first one ends with the only stop at the entry,
in front of the liquidation price. The last holds if the leverage leaves a margin above the
maintenance margin (`MarginExceedsMaintenance`): always with the default maintenance margin
of zero (`config/config.go:326`); with a higher one that equals the margin the trade
is liquidated at its entry, and TLC shows that the property fails then.

`AnalysisCycleProofs` proves, for every set of assets, positions and requests, every number
of slots, cooldown and interval, from the assumptions in `AnalysisCycle`:

* `CycleIsCompleteHolds`, an action property of the step that ends a cycle. `CycleInv`: what was started,
  followed by what is queued, is one listing of the assets that were due, those with an
  open position first (`Remaining`, `InOrder`). `SetToSeqsLists` and `ListsConcat` are the
  facts about listings it rests on: an injection between sets of one size is
  onto, and listings of disjoint sets concatenate.
* `NamesOpenPositionHolds`. `WatchInv`: while an analysis runs, every position of its asset that
  is open is among those that were open during it, so what it reads is too.
* `CooldownIsFairHolds`. `CoolInv`: the stamp of an asset is the time of its last admitted
  request (`Stamped`), so checking the stamp alone compares with all of them.

`NewsProofs` proves, for every set of sources and articles, every overlap, lag and
window, first window included, from the assumptions in `News` (`FeedsAreTimely`: an article appears no later
after its publication than the overlap of two fetches): `TypeOK`, `NothingMissed`,
`ClusterAddsUp` and `DisabledStaysDisabled`. `NothingMissed` is far from inductive. `StoredOf` says of a
fetch under way that every article its feed showed is still queued or has a duplicate
its transaction sees (`Has`), and of a remembered version that each has one that no open
transaction can take back (`Kept`), unless the article is one the collector leaves out
(`Excused`; `PassedBy` while only the fetch under way knows it); `WindowOf` says that what appeared before the
last success began was in the version it remembers, so that whatever the next window
leaves out is stored already; `TransactionOf` says what a rollback removes: items of that
source alone, which no cluster has yet, because clusters are assigned only while nothing is
being fetched (`PhasesApart`). That also keeps `ClusterAddsUp`, whose own step is that an
assignment adds one member to one cluster (`AssignedMembers`). That `Insert` meets
no item of the same name comes from what blocks it: such an item has the same URL
and is seen, or waited for.

`ConfigurationProofs` proves of `Settings`, for every set of processes, clients and edits and
every kind of fault:

* `SettingsTypes`: `Spec => []TypeOK`.
* `AppliedEverywhereHolds`: `Spec /\ []UpdatesTakeTurns => []AppliedEverywhere`. `AppliedInv` says of
  whoever is inside `ApplySettings` which of its nineteen hand-overs are behind it, and that
  those have put the document that is current in place (`Done`, `Handed`); that the script
  reaches each of the twelve components is a lemma (`EveryComponentServed`).
* `NothingUnstoredRunsHolds`: `Spec /\ []WritesTakeTurns => NothingUnstoredRuns`. `WritesInv`: what an
  update is about to make current is what the database holds.

Nothing in the code makes updates take turns (`Service.Update` holds no lock across store, set
and apply), so both hypotheses are facts about the users and not about the code, and both
properties fail without them: with two clients one update hands a component a piece of the other, and a process copies a
document another one has overwritten. The first is needed of updates within one process, the
second of writes in all of them, those of a starting process included. An instance with
one client meets the first by itself.

`ReactionsProofs` proves, for every set of pairs, horizons, grace, interval and queue limit:
`ReactionTypes`, `ExtremesCoverReturnsHolds` and `MeasuredStaysHolds`. The invariant ties three
things: a stored return is at a stored candle after the baseline and not after the last pass
(`Sound`), the extremes cover what lies within the day (`Covered`), and the copy a pass works on
keeps what the row has (`WorkOK`), with no pair queued twice and none that is final
(`QueueOK`). Candles may be stored between any two queries of a pass: the
extremes are taken last, over at least the candles the returns were found among.

`RecommendationsProofs` proves of the composed specification, for every set of answers, situations,
valid policies, market movements and lags (the first three rely on nothing the
analysis decides):

* `PlanIsBracketHolds`. A plan is accepted field by field and its bracket is a fact about the
  whole. `SortedOrders` says that ranking by the number of entries in front gives each rank
  once, so that the sorted list has every entry and is in order; `KeptSide` that every level keeps the side
  it was checked on. That the shares add up to the whole within the rounding of each
  (`NormalisedIs`) rests on `FoldIsSum`, `PermutedSum` and `RoundedSum`: partial sums of a list exist,
  a permutation has the same sum, and rounding moves it by no more than a half per entry.
  Induction over data is out of reach as a library theorem; these are proved by a
  least counterexample among the natural numbers instead (`LeastOf`).
* `ExposureBoundedHolds`. `Sees` is what can be said of twenty-eight reads of a policy that is swapped at
  most once: each sees one of the two, and the comparison of the leverage with its maximum and the
  assignment that follows may differ only if the reads before agreed. `CappedIs` says that every cap only
  lowers the leverage, `LeverageIs` that the bound by the stop distance comes out in the end unless a
  user's own minimum is higher, `AllocationIs` that size times loss stays within the budget up
  to rounding. No relation between two policies is needed, only that
  each is one `settings.validate` accepts (`PoliciesAreValid`).
* `VerdictIsTrueHolds`. `Truth` says of a stored verdict which minute decided it on the evidence
  (`Leads`, `Wins`, `Undecided`), a sentence that bars appended later cannot make false
  (`TruthStays`). A coarse bar touches what one of its minutes touches (`CoarseReaches`); of the
  minutes of the first coarse bar that touches none before it can be in an earlier bar of the series
  (`MinutesAfter`), and inside it the first stored fine bar decides (`CoarseClaims`). No relation between the two
  series is assumed: any sets of closed bars, any `early`, any number of evaluations. An evaluation works only on an outcome that is not final (`Pending`
  while `read` is set), which is why the evidence of a final one stays.
* `NoRepaintHolds`. The swings are a fold over the candles, each step of which replaces the last
  swing or appends one. `FindsSteps` says what the fold computes: a list of intermediate results, one
  candle apart (again by a least counterexample). A pivot looks at three candles
  on either side, so a new candle changes no pivot found before (`PivotsSettled`) and adds the one
  that has just got its third right neighbour (`SwingsGrow`). The first close beyond a swing stays the first
  (`BreakStays`). `StartsAreLong` assumes nine candles: with fewer nothing is reported,
  and at the ninth all that seven candles held is; the service analyses none under thirty.
* `SupportNeverHurtsHolds`. The totals of a vote are sums (`TotalIsSum`), so they compare as
  their terms do (`TotalsCompare`). An item gives a side at most what it weighs (`SupportIs`), because every
  strategy clamps what it reports (`OpinionsInRange`, one lemma per group of strategies); speaking for a side
  it gives all of that and the other side nothing (`SpeakingIs`). So the margin only grows and no
  filter has more to say (`JoinedEnters`, `SilentEnters`), and both factors of the confidence grow
  with the margin (`ConfidenceGrows`). `Voted` is the invariant: the verdict is the fold of the votes
  that are kept with it. `StrategiesAreDecoded` gives a stored policy the types it is decoded into.

The invariant, `AdviceInv`, hands from stage to stage what the next one relies on: an answer
is decoded, a plan is a bracket with numbers, a stored recommendation has integer levels
(`Recorded`), and stored bars are bars of the market. Its assumptions: `RepliesAreDecoded`
(numbers are numbers or absent, the JSON decoder's part), `PoliciesAreValid`,
`SituationsAreRecords`, `PositivePrice` (an asset without a price is not analysed), `BarsArePrices` and
`SomeFineBars`; `AbsentIsNoNumber` and `MissingIsNoNumber` keep the two markers apart from numbers.

Only model-checked: `MirrorFairYet`, which compares what the whole analysis computes, detectors and
folds included, for two series of candles, and everything under fairness: `Settles`, `EveryRequestEnds`, `ImportEnds`, `EverythingEnds`, `BacklogClears`, `HealthyPairsEnd`.
Out of reach of the proof system as installed: liveness under fairness and `ENABLED`, and induction
over data as the library states it (what a recursive definition or a fold computes for
all inputs). No module declares a `RECURSIVE` operator.

## Where code, comments and documents part ways

Met while modelling. The models do what the code does; where a property would not hold for
this reason, its comment or the instance says so.

*Positions, runs, inference, settings, candles.* Two overlapping backfills leave a hole inside
the window of the slower one if it is slow for longer than the window: after an outage the other one
stores as far back as the client can page, which covers a later window only; the slow one then reads
that watermark and never looks at what is missing before it (`marketdata/service.go:531`; give
`MCCandles.cfg` `TwoBackfills` and `NoImport`, window 2, cap 3 and time 7 to see it, and the
specification `PromptSpec` to see it gone). Two overlapping closes leave a cached row
that disagrees with the fills: `Close` computes an absolute remaining quantity from a
row read outside the transaction and `ApplyClose` writes it unconditionally
(`positions/service.go:228`), and also erases a plan update that came in between; give
`MCPositionsSerial.cfg` two clients to see it. Every process retires all active
backtests at its start, also those of a living process, although the comment says they
belong to a previous one (`cmd/server/main.go:130-132`). `Analyze` and `Complete` read the
configuration separately, so one model's answer may be cached under another's key
(`llm/client.go:151` against `llm/service.go:422`). A backfill reports success over a hole
between two stored bars, for example after an import (`marketdata/service.go:531`), and over a
timeframe it could not fetch or got nothing for, as long as another timeframe was stored
(`marketdata/service.go:395-407`), although `docs/troubleshooting.md:13` says that a gap is never
presented as a successful sync: `BackfillsLeaveNoGap` and `BothEndsReached` keep the two
kinds of success apart. A settings edit made in one process never reaches another;
two updates at once may leave components on pieces of both; a restart normalises a document
that an update accepted as it was. While an old semaphore drains, more requests run
than the new limit allows. A run that times out while its results are stored stays
`running` until a restart; an interrupted run may have trades; the link of an `OPENED`
decision dangles after its position is deleted; an import longer than klines can page is
cut at its old end. In a replay, stops beyond the liquidation price are executed as well once a
nearer one was touched, every exit but a take profit pays the slippage, which may take its price
out of the range of the candle (`engine.go:1520-1525`), the bar in which a resting order fills
executes no exit of the new trade, whatever else it touches (`engine.go:531-537`): `BarIsHonest`
says nothing of that bar; and shares that add up to 100 % may be rounded so that one unit stays
open.

*Scheduler and recommendations.* The ranking is said to be computed once per cycle
(`recommendations/service.go:52-53`); it is cached for an interval from whenever it was
computed. `risk.Engine` reads its policy some thirty times per evaluation, so an edit in
between mixes two. Stop distance is measured from the reference price, not from the entry zone,
so the 35 % of `docs/algorithms.md` can be exceeded by the width of the zone; the
smallest size of 0.5 % may exceed a configured maximum below it.

*Answers.* 33/33/33 is normalised to 99.99, though the comment says accounting stays exact
(`llm/validate.go:426`); a share below 0.005 % becomes 0; a stop inside the entry zone passes;
with a one-sided zone a take profit may lie below it; the side of `MOVE_STOP_LOSS` is not
checked. `PlanIsBracket` therefore speaks of the far end of the zone and of sums up to rounding.

*Outcomes.* The list is the oldest 200 by creation; a hit after the day may still count if the
evaluation is late; the finer series is preferred by how many candles it has, not by
what it covers (`outcomes.go:66-69`); an outcome without the candle of its last horizon is
final with an empty result; one is `ambiguous` for good although the finer candles come later.
Both series are those that open at or after `CreatedAt` (`outcomes.go:57-64`), so the coarse one may begin
four minutes after the fine one, and a level reached in these minutes is not seen when the coarse one
is used. A candle that touched both sides is decided by the first fine candle in it that is stored and touched
something, also where an earlier one is missing (`outcomes.go:183-210`); the comment at `outcomes.go:149-153` promises
`ambiguous` only for finer data that is not available at all. `VerdictIsTrue` names these cases as the only
ones in which the market may have said otherwise.

*News.* One story fetched from two sources at the same time is stored twice, since only the
URL is unique. What a fetch leaves out is lost although the ETag of its version is recorded: an article
older than the seven days of a first fetch (`news/collector.go:164`), one that is
rejected or has no date (`collector.go:179-186`, `rss.go:169-172`), what lies behind ten
pages of announcements, and all of a fetch in which a page after the first answers 304 (`news/bybit.go:47-72`).
`NothingMissed` names these four. A source switched on again stays
`disabled` until its next fetch if it is saved with its old status, and a new one that is switched
off is stored as `offline`. `last_seen_at` of a cluster does not follow an item that is seen
again. Two collecting transactions may deadlock. Importance counts a source once more for each
of its articles and never falls; freshness is no input (`docs/algorithms.md:107`).
`ReactionTracker` reads one setting without its lock (`reactions.go:210`); a backfill between its
queries may complete a reaction with an earlier horizon missing, or measure a later
horizon at an earlier candle; `insufficient_data` is final although candles may follow.

*Analysis.* Of two fresh breaks in both directions the upward one is always preferred, although
the comments speak of the most recent (`structure.go:167`, `strategies.go:491`); equal highs
and lows are labelled lower, so a flat range counts as bearish; the regime falls back in the
order 1h, 4h, 15m, 1d, 5m, 1m and not to the slowest (`snapshot.go:183-184`); key levels of equal
relevance keep the order of a Go map. A MACD on its signal counts as bearish and equal
directional lines as bullish; `super_trend` starts on the long side; the market gate has no mirror
image; `hammer` and `shooting_star` differ in a flat trend, and `stick_sandwich`, `matching_low`
and `ladder_bottom` have no counterpart. `TagExpandingRanges` is tested for but never set
(`strategies.go:643`). `Validate` accepts a minimum signal of 0 that `Normalize` replaces.
`MirrorFair` names those it sets aside (`Balanced`). The live analysis passes no cost
multiple, relative strength, long buffer or fall switch to the strategies; a replay does.

## Not modelled, and why

* *Indicators and support and resistance levels* (`analysis/indicators`,
  `analysis/supportresistance`): floating-point formulas without state. The
  modules take their readings as inputs, missing ones included. For the same reason a
  vote is rounded once per vote in `Votes` where the code rounds totals, and
  `MirrorFairYet` is asked on prices where no percentage falls between a move and
  its mirror image.
* *Similar-situation history*, *prompt*: vector search and text; what the model is told does not
  restrict what it may answer.
* *Ranking across assets*, *translations*, *categories and matching of news*: facts that
  are computed beside the modelled path and enter it as inputs (`rank`, `Alike`).
* *Universe and prices*: a response is applied row by row, each row one statement that
  leaves the user's flags alone.
* *HTTP client*: the spacing of requests in real time; the components see a request that
  is slow or fails.
* *API server*, *database*, *configuration*, *lab*, *frontend*: no state of their own;
  handlers that change state are modelled with their component.

## Plan

1. `MirrorFairYet` as a theorem, detector by detector: each formation and its twin are the same
   formula under the exchange of highs and lows; the folds need a least counterexample each.
2. `TradeReplay` further: several positions over shared margin.
3. `RateLimit`: the limiter with callers that give up; `Universe`: refresh and staleness.

The number of runs is kept small; a question is added by extending the instance
that can ask it, or by replacing a weaker one.
