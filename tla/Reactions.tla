----------------------------- MODULE Reactions -----------------------------
(***************************************************************************)
(* The market's reaction to news: news.ReactionTracker over the tables     *)
(* news_market_reactions and ohlcv_candles.  A pair of a cluster and an    *)
(* asset gets a baseline candle and then, as horizons pass, the candle     *)
(* each return is measured at; candles arrive late, in any order or never. *)
(* A closed 5m candle is named by its close time; the returns and extremes *)
(* are named by the candles they are computed from.                        *)
(***************************************************************************)
EXTENDS Naturals, SequencesExt, FiniteSetsExt

CONSTANTS
  Pairs,
  Broken,     \* pairs whose baseline candle has a price that is not positive
  SeenAt,     \* first_seen_at of the pair's cluster
  Horizons,   \* reactionHorizons, ascending
  Grace,      \* news.reaction_baseline_grace
  Poll,       \* news.reaction_interval
  Limit,      \* pairs a pass may evaluate
  MaxTime, MaxFaults,   \* bounds
  None

ASSUME BrokenFit == Broken \subseteq Pairs /\ Cardinality(Broken) < Limit
ASSUME FinitePairs == IsFiniteSet(Pairs)
ASSUME TimesAreNat == SeenAt \in [Pairs -> Nat] /\ Grace \in Nat /\ Poll \in Nat /\ None \notin Nat
ASSUME SomeHorizons == Horizons \in Seq(Nat \ {0}) /\ Horizons # <<>>
ASSUME SomeLimit == Limit \in Nat \ {0}     \* scheduler.go:181

VARIABLES
  now, faults,
  candles,   \* stored closed candles of the asset
  row,       \* news_market_reactions
  pass       \* ProcessDue: [pc, at, queue, work, next horizon]

vars == <<now, faults, candles, row, pass>>

H == DOMAIN Horizons
Day == Horizons[Len(Horizons)]

NoRow == [status |-> "none", base |-> None, at |-> [h \in H |-> None],
          span |-> {}, next |-> 0]
Asleep == [pc |-> "asleep", at |-> 0, queue |-> <<>>, work |-> NoRow, h |-> 0]

Init ==
  /\ now = 0 /\ faults = 0
  /\ candles = {}
  /\ row = [p \in Pairs |-> NoRow]
  /\ pass = Asleep

Tick ==
  /\ now < MaxTime
  /\ now' = now + 1
  /\ UNCHANGED <<faults, candles, row, pass>>

\* The collector or a backfill stores candles that have closed.
StoreCandles ==
  /\ \E new \in SUBSET ((1..now) \ candles) : new # {} /\ candles' = candles \cup new
  /\ UNCHANGED <<now, faults, row, pass>>

\* The earliest stored candle that closed in from..to.
InRange(from, to) == {t \in candles : from <= t /\ t <= to}
FirstClosed(from, to) == IF InRange(from, to) = {} THEN None ELSE Min(InRange(from, to))
Sooner(t, u) == IF t < u THEN t ELSE u

(***************************************************************************)
(* ProcessDue: one pass over the pairs that are due, oldest first.         *)
(***************************************************************************)
DueAlsoFinal(p) == row[p].next <= now
Due(p) == row[p].status = "none" \/ (row[p].status = "tracking" /\ row[p].next <= now)
Since(p) == IF row[p].status = "none" THEN SeenAt[p] ELSE row[p].next

Queues == {q \in SetToSeqs({p \in Pairs : Due(p) /\ SeenAt[p] <= now}) :
             \A i, j \in DOMAIN q : i < j => Since(q[i]) <= Since(q[j])}

StartPass ==
  /\ pass.pc = "asleep"
  /\ \E q \in Queues :
       /\ q # <<>>
       /\ pass' = [Asleep EXCEPT !.pc = "baseline", !.at = now,
                                 !.queue = SubSeq(q, 1, Sooner(Limit, Len(q))),
                                 !.work = row[q[1]]]
  /\ UNCHANGED <<now, faults, candles, row>>

Pair == Head(pass.queue)
Rest == Tail(pass.queue)

Abandon == pass' = Asleep

\* On to the next pair; the row it has now is what the list returned.
Proceed ==
  pass' = IF Rest = <<>> THEN Asleep
          ELSE [pass EXCEPT !.pc = "baseline", !.queue = Rest, !.work = row[Head(Rest)], !.h = 0]

Put(r) == row' = [row EXCEPT ![Pair] = r] /\ Proceed

\* evaluate, as far as the baseline.
Baseline ==
  /\ pass.pc = "baseline"
  /\ LET work == pass.work
         found == FirstClosed(SeenAt[Pair], pass.at)
         deadline == SeenAt[Pair] + Grace
     IN IF work.base # None
          THEN pass' = [pass EXCEPT !.pc = "horizons", !.h = 1] /\ UNCHANGED row
        ELSE IF found = None
          THEN Put(IF pass.at >= deadline
                     THEN [work EXCEPT !.status = "insufficient", !.next = pass.at]
                     ELSE [work EXCEPT !.status = "tracking",
                                       !.next = Sooner(deadline, pass.at + Poll)])
        ELSE IF Pair \in Broken
          THEN Proceed /\ UNCHANGED row
        ELSE /\ pass' = [pass EXCEPT !.pc = "horizons", !.h = 1, !.work.base = found]
             /\ UNCHANGED row
  /\ UNCHANGED <<now, faults, candles>>

\* One query per horizon that has passed and has no value yet.
Horizon ==
  /\ pass.pc = "horizons"
  /\ LET h == pass.h
         target == pass.work.base + Horizons[h]
         value == IF pass.work.at[h] # None \/ pass.at < target THEN pass.work.at[h]
                  ELSE FirstClosed(target, pass.at)
     IN pass' = [pass EXCEPT !.work.at[h] = value,
                             !.pc = IF h = Len(Horizons) THEN "extremes" ELSE @,
                             !.h = h + 1]
  /\ UNCHANGED <<now, faults, candles, row>>

ExtremesOfNew(work) ==
  InRange(Max({work.base} \cup work.span) + 1, Sooner(pass.at, work.base + Day))
Extremes(work) == InRange(work.base + 1, Sooner(pass.at, work.base + Day))

\* nextDue: the first horizon without a value, or a while from now.
NextDue(work) ==
  LET open == {h \in H : work.at[h] = None}
      target == work.base + Horizons[Min(open)]
  IN IF open # {} /\ target > pass.at THEN target ELSE pass.at + Poll

\* The extremes, the status and the upsert, which keeps what is not replaced.
Finish ==
  /\ pass.pc = "extremes"
  /\ LET seen == Extremes(pass.work)
         work == [pass.work EXCEPT !.span = IF seen = {} THEN @ ELSE seen]
     IN Put(IF work.at[Len(Horizons)] # None
              THEN [work EXCEPT !.status = "complete", !.next = pass.at]
            ELSE IF pass.at >= work.base + Day + Grace
              THEN [work EXCEPT !.status = "insufficient", !.next = pass.at]
            ELSE [work EXCEPT !.status = "tracking", !.next = NextDue(work)])
  /\ UNCHANGED <<now, faults, candles>>

\* A query or the upsert fails: this pair is left as it was, the pass goes on.
FailPair ==
  /\ pass.pc # "asleep"
  /\ faults < MaxFaults /\ faults' = faults + 1
  /\ Proceed
  /\ UNCHANGED <<now, candles, row>>

\* The process stops and starts again.
Restart ==
  /\ pass.pc # "asleep"
  /\ faults < MaxFaults /\ faults' = faults + 1
  /\ Abandon
  /\ UNCHANGED <<now, candles, row>>

PassStep == StartPass \/ Baseline \/ Horizon \/ Finish

Next == Tick \/ StoreCandles \/ PassStep \/ FailPair \/ Restart

Spec == Init /\ [][Next]_vars

\* Time goes on and the loop runs its passes; candles need not come.
FairSpec == Spec /\ WF_vars(Tick) /\ WF_vars(PassStep)

(***************************************************************************)
(* Properties.                                                             *)
(***************************************************************************)
Final(p) == row[p].status \in {"complete", "insufficient"}

Rows ==
  [status: {"none", "tracking", "complete", "insufficient"}, base: Nat \cup {None},
   at: [H -> Nat \cup {None}], span: SUBSET Nat, next: Nat]
Passes ==
  [pc: {"asleep", "baseline", "horizons", "extremes"}, at: Nat, queue: Seq(Pairs), work: Rows,
   h: Nat]

TypeOK ==
  /\ now \in Nat /\ candles \subseteq 1..now
  /\ row \in [Pairs -> Rows]
  /\ pass \in Passes

\* The largest moves never contradict the returns beside them: every return
\* measured inside the tracked day is at a candle the extremes were taken
\* over, whatever pass recorded either (news/reactions.go:161-202).
ExtremesCoverReturns ==
  \A p \in Pairs : \A h \in H :
    LET t == row[p].at[h] IN
      (t # None /\ t <= row[p].base + Day) => t \in row[p].span

\* What a pass has measured stays: later candles, passes that see less, a
\* failure or a restart between two passes do not take back or move a baseline
\* or a return, and a finished reaction is not taken up again
\* (repository/news_reactions.go:35, 132-165).
MeasuredStays ==
  [][\A p \in Pairs :
       /\ row[p].base # None => row'[p].base = row[p].base
       /\ \A h \in H : row[p].at[h] # None => row'[p].at[h] = row[p].at[h]
       /\ Final(p) => row'[p] = row[p]]_vars

\* "One broken pair is reported but does not prevent unrelated assets and
\* clusters from progressing": a pair with usable candles is complete or
\* given up in the end, unless its day ends behind the bound of the clock
\* (news/reactions.go:75-103).
BeyondClock(p) == row[p].base # None /\ row[p].base + Day + Grace > MaxTime
HealthyPairsEnd == <>(\A p \in Pairs \ Broken : Final(p) \/ BeyondClock(p))
=============================================================================
