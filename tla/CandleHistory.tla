--------------------------- MODULE CandleHistory ---------------------------
(***************************************************************************)
(* The stored candles of one asset and timeframe, which the scheduled      *)
(* backfill and the manual import of internal/marketdata extend, both      *)
(* through the paging client of internal/marketdata/bybit.  Series of      *)
(* different assets or timeframes share nothing.  Time is counted in bars: *)
(* at instant n bar n is forming, every earlier bar is closed, and a       *)
(* request is made in the middle of a bar.  Each statement and each        *)
(* response is one step.  A backfill takes the timeframes of its asset one *)
(* after the other; of the others it only matters whether they were stored.*)
(***************************************************************************)
EXTENDS Integers, FiniteSets

CONSTANTS
  Backfills,  \* loops and handlers that may run BackfillCandles
  Imports,    \* import jobs at this series, each started at most once
  Window,     \* bars of bybitHistoryWindow
  Cap,        \* bars klines can page through (100 pages of 1000)
  MaxWork,    \* bars that may pass while a prompt backfill is under way
  MaxNow      \* bound: the last instant

\* 48 h of minutes up to 3 years of hours, against 100 000 bars.
ASSUME WindowFits == Window \in Nat \ {0} /\ Cap \in Nat /\ Window < Cap
\* The minutes are the tightest: 2880 of history, and 97 000 more in reach.
ASSUME WorkFits == MaxWork \in Nat /\ MaxWork < Window /\ Window + MaxWork <= Cap
ASSUME SomeInstants == MaxNow \in Nat
ASSUME ActorsDiffer == Backfills \cap Imports = {}

VARIABLES
  now,     \* the bar that is forming
  bars,    \* table ohlcv_candles: what is stored of each bar
  job      \* the locals of each backfill and import

vars == <<now, bars, job>>

Instants == 0..MaxNow
Qualities == {"missing", "torn", "whole"}   \* torn: stored as closed with the values of a forming bar

\* stored, skipped: this series is dealt with, other timeframes are not; synced,
\* elsewhere: the call reports success, and has stored this series or only others.
Phases == {"idle", "begun", "fetching", "looking", "extending", "storing",
           "stored", "skipped", "synced", "elsewhere", "done"}
Jobs == [pc: Phases,
         at: Instants,           \* time.Now() of the job
         asked: Instants,        \* when the request went out
         from: Int, to: Int,     \* the period asked for
         got: SUBSET Instants,   \* closed bars to store
         torn: SUBSET Instants]  \* those that were forming when served
Resting == [pc |-> "idle", at |-> 0, asked |-> 0, from |-> 0, to |-> 0, got |-> {}, torn |-> {}]

Actors == Backfills \cup Imports
Stored == {b \in Instants : bars[b] # "missing"}
Last  == CHOOSE b \in Stored : \A x \in Stored : x <= b
First == CHOOSE b \in Stored : \A x \in Stored : b <= x

\* A first run, or a series an earlier version loaded with another window.
Init ==
  /\ now \in Instants
  /\ \E a \in Instants, z \in -1..now - 1 :
       bars = [b \in Instants |-> IF b \in a..z THEN "whole" ELSE "missing"]
  /\ job = [j \in Actors |-> Resting]

Goto(j, pc) == job' = [job EXCEPT ![j].pc = pc]

\* The next backfill uses the same goroutine; an import has its own.
Ended(j) == IF j \in Backfills THEN Resting ELSE [Resting EXCEPT !.pc = "done"]

Tick ==
  /\ now < MaxNow
  /\ now' = now + 1
  /\ UNCHANGED <<bars, job>>

(***************************************************************************)
(* klines: the newest Cap bars of the period that the exchange had when it *)
(* served them, less those that are still forming when they are parsed.    *)
(* Bars before instant 0 do not exist: the pair was not listed.            *)
(***************************************************************************)
Oldest(period) == {b \in period : Cardinality({x \in period : x < b}) < Cap}
Newest(period) == {b \in period : Cardinality({x \in period : x > b}) < Cap}
Response(from, to, served) == Newest({b \in Instants : b >= from /\ b <= to /\ b <= served})

AllCandles(candles) == candles
ClosedOnly(candles) == {b \in candles : b < now}

Receive(j, served) ==
  LET closed == ClosedOnly(Response(job[j].from, job[j].to, served))
  IN  [job[j] EXCEPT !.got = @ \cup closed,
                     !.torn = @ \cup ((closed \ job[j].got) \cap {served})]

(***************************************************************************)
(* bybitBackfill.  wanted is Window bars ago, in the middle of a bar.      *)
(***************************************************************************)
Wanted(j) == job[j].at - Window

Begin(j) ==
  /\ job[j].pc = "idle"
  /\ job' = [job EXCEPT ![j] = [Resting EXCEPT !.pc = "begun", !.at = now]]
  /\ UNCHANGED <<now, bars>>

\* One bar of overlap, so that the newest stored bar is fetched again.
Overlap == 1
From(j) == IF Stored = {} THEN Wanted(j) + 1 ELSE Last - Overlap

LastOpenTime(j) ==
  /\ job[j].pc = "begun"
  /\ job' = [job EXCEPT ![j].pc = "fetching", ![j].asked = now,
                        ![j].from = From(j), ![j].to = job[j].at]
  /\ UNCHANGED <<now, bars>>

Fetch(j) ==
  /\ job[j].pc = "fetching" /\ j \in Backfills
  /\ \E served \in job[j].asked..now :
       job' = [job EXCEPT ![j] = [Receive(j, served) EXCEPT !.pc = "looking"]]
  /\ UNCHANGED <<now, bars>>

\* first.Sub(wanted) > tf.Duration()
NeverExtend(j) == FALSE
MustExtend(j) == Stored # {} /\ First >= Wanted(j) + 2

FirstOpenTime(j) ==
  /\ job[j].pc = "looking"
  /\ job' = [job EXCEPT ![j] =
       IF MustExtend(j)
         THEN [@ EXCEPT !.pc = "extending", !.asked = now, !.from = Wanted(j) + 1, !.to = First + 1]
         ELSE [@ EXCEPT !.pc = "storing"]]
  /\ UNCHANGED <<now, bars>>

FetchOlder(j) ==
  /\ job[j].pc = "extending"
  /\ \E served \in job[j].asked..now :
       job' = [job EXCEPT ![j] = [Receive(j, served) EXCEPT !.pc = "storing"]]
  /\ UNCHANGED <<now, bars>>

(***************************************************************************)
(* UpsertMany: one batch, which Postgres takes as one transaction.         *)
(***************************************************************************)

Upsert(j) ==
  bars' = [b \in Instants |-> IF b \in job[j].torn THEN "torn"
                              ELSE IF b \in job[j].got THEN "whole" ELSE bars[b]]

\* BackfillCandles goes on to the next timeframe, also when there was nothing.
Store(j) ==
  /\ job[j].pc = "storing" /\ j \in Backfills
  /\ IF job[j].got = {}
       THEN Goto(j, "skipped") /\ UNCHANGED bars
       ELSE Upsert(j) /\ Goto(j, "stored")
  /\ UNCHANGED now

\* A request or a read fails: the series is left as it is, with what was received.
Skip(j) ==
  /\ job[j].pc \in {"begun", "fetching", "looking", "extending"} /\ j \in Backfills
  /\ job' = [job EXCEPT ![j] = [Resting EXCEPT !.pc = "skipped", !.at = job[j].at]]
  /\ UNCHANGED <<now, bars>>

\* recordSuccess: some timeframe was stored, this one or another.
Report(j) ==
  /\ \/ job[j].pc = "stored" /\ Goto(j, "synced")
     \/ job[j].pc = "skipped" /\ Goto(j, "elsewhere")
  /\ UNCHANGED <<now, bars>>

Reported(j) == job[j].pc \in {"synced", "elsewhere"}

Finish(j) ==
  /\ Reported(j)
  /\ job' = [job EXCEPT ![j] = Ended(j)]
  /\ UNCHANGED <<now, bars>>

\* The whole call fails: a batch of this or of another timeframe is not stored,
\* no timeframe was, the pair is no longer tradable; an import, at any request;
\* or the process stops.
Abort(j) ==
  /\ job[j].pc \notin {"idle", "done"} /\ ~Reported(j)
  /\ job' = [job EXCEPT ![j] = Ended(j)]
  /\ UNCHANGED <<now, bars>>

(***************************************************************************)
(* ImportCandles over a period the user names, clamped to the present.     *)
(***************************************************************************)
Import(j, from, to) ==
  /\ job[j].pc = "idle"
  /\ from < to /\ to <= now
  /\ job' = [job EXCEPT ![j] = [Resting EXCEPT !.pc = "fetching", !.at = now, !.asked = now,
                                            !.from = from, !.to = to]]
  /\ UNCHANGED <<now, bars>>

FetchPeriod(j) ==
  /\ job[j].pc = "fetching" /\ j \in Imports
  /\ \E served \in job[j].asked..now :
       job' = [job EXCEPT ![j] = [Receive(j, served) EXCEPT !.pc = "storing"]]
  /\ UNCHANGED <<now, bars>>

\* An import that finds nothing succeeds with no candles.
StorePeriod(j) ==
  /\ job[j].pc = "storing" /\ j \in Imports
  /\ Upsert(j)
  /\ Goto(j, "synced")
  /\ UNCHANGED now

Next ==
  \/ Tick
  \/ \E j \in Backfills : \/ Begin(j) \/ LastOpenTime(j) \/ Fetch(j) \/ FirstOpenTime(j)
                          \/ FetchOlder(j) \/ Store(j) \/ Skip(j) \/ Report(j)
  \/ \E j \in Imports : \/ \E from, to \in Instants : Import(j, from, to)
                        \/ FetchPeriod(j) \/ StorePeriod(j)
  \/ \E j \in Actors : Finish(j) \/ Abort(j)

Spec == Init /\ [][Next]_vars

\* Requests have timeouts: a backfill is over before MaxWork bars are.
Prompt == \A j \in Backfills : job[j].pc = "idle" \/ now - job[j].at <= MaxWork
PromptSpec == Init /\ [][Next /\ Prompt']_vars

TypeOK ==
  /\ now \in Instants
  /\ bars \in [Instants -> Qualities]
  /\ job \in [Actors -> Jobs]

NoImportYet == \A i \in Imports : job[i].pc = "idle"

\* When a backfill that stored this series reports success, every bar of the
\* history window that was closed when it began is stored, as long as backfills
\* alone extend the series, however they overlap and however long the system was
\* down between two of them.  One that skipped it reports success over a gap
\* (service.go:395-407); whatever it then lacks lies before the first or after the
\* last stored bar, where the next backfill looks.  It takes prompt backfills: one
\* that reads the watermark long after another has moved it does not look at what
\* that one could no longer reach (service.go:520-560).
BackfillsLeaveNoGap ==
  NoImportYet =>
    \A j \in Backfills : Reported(j) =>
      \A b \in Instants \ Stored :
        b > Wanted(j) /\ b < job[j].at =>
          /\ job[j].pc = "elsewhere"
          /\ ~ \E x, y \in Stored : x < b /\ b < y

\* A backfill that stored this series before it reports success has reached both
\* ends of its window, also after an import: what is missing lies between two
\* stored bars, where the watermarks do not look.  Only a backfill that takes so
\* long that klines can no longer page from the present back to its window may
\* fall short.  A success that other timeframes alone account for says nothing of
\* this series.
BothEndsReached ==
  \A j \in Backfills : job[j].pc = "synced" /\ now - job[j].at <= Cap - Window =>
    \A b \in Instants \ Stored :
      b > Wanted(j) /\ b < job[j].at => First < b /\ b < Last

\* The forming bar itself is never stored as closed history (importer.go:216-218).
NothingForming == \A b \in Stored : b < now

=============================================================================
