--------------------------- MODULE HistoryProofs ----------------------------
(***************************************************************************)
(* Proofs about CandleHistory, for any number of backfills and imports and *)
(* any history window: no forming bar is stored as history, a backfill     *)
(* that reports success has reached both ends of its window, and backfills *)
(* alone leave no gap inside it.  And about Importer, for any number of    *)
(* jobs and units: one goroutine at a time writes the progress the user    *)
(* polls, and the verdict it leaves agrees with the counters beside it.    *)
(***************************************************************************)
EXTENDS CandleHistory, Importer, FiniteSetTheorems, WellFoundedInduction, TLAPS

(***************************************************************************)
(* The two watermarks, and what klines returns.                            *)
(***************************************************************************)

\* A set of natural numbers that is not empty has a least element.
LEMMA LeastExists ==
  ASSUME NEW S, S \subseteq Nat, S # {}
  PROVE  \E x \in S : \A y \in S : x <= y
<1>1. PICK x \in S : \A y \in S : ~ (<<y, x>> \in OpToRel(<, Nat))
  BY WFMin, NatLessThanWellFounded
<1>2. ASSUME NEW y \in S PROVE x <= y
  <2>1. ~ (<<y, x>> \in {ss \in Nat \X Nat : ss[1] < ss[2]})
    BY <1>1 DEF OpToRel
  <2> QED BY <2>1
<1> QED BY <1>2

\* Of a bounded one there is a greatest element too.
LEMMA GreatestExists ==
  ASSUME NEW S, NEW n \in Nat, S \subseteq 0..n, S # {}
  PROVE  \E x \in S : \A y \in S : y <= x
<1> DEFINE M == {n - x : x \in S}
<1>1. M \subseteq Nat /\ M # {} BY SMT
<1>2. PICK m \in M : \A k \in M : m <= k BY <1>1, LeastExists, Zenon
<1>3. PICK x \in S : m = n - x BY <1>2
<1>4. ASSUME NEW y \in S PROVE y <= x
  <2>1. n - y \in M OBVIOUS
  <2>2. m <= n - y BY <1>2, <2>1, Zenon
  <2>3. n - x <= n - y BY <2>2, <1>3
  <2>4. x \in 0..n /\ y \in 0..n OBVIOUS
  <2> QED BY <2>3, <2>4, SMT
<1> QED BY <1>4

LEMMA Watermarks ==
  ASSUME TypeOK, Stored # {}
  PROVE  /\ First \in Stored /\ \A x \in Stored : First <= x
         /\ Last \in Stored /\ \A x \in Stored : x <= Last
<1>1. Stored \subseteq 0..MaxNow /\ Stored \subseteq Nat BY SomeInstants DEF Stored, Instants
<1>2. \E b \in Stored : \A x \in Stored : b <= x BY <1>1, LeastExists, Zenon
<1>3. \E b \in Stored : \A x \in Stored : x <= b BY <1>1, GreatestExists, SomeInstants, Zenon
<1> QED BY <1>2, <1>3 DEF First, Last

\* What is less than Cap bars below a bound of a period is among its newest.
LEMMA NewestKeeps ==
  ASSUME NEW period, period \subseteq Instants,
         NEW u \in Int, \A x \in period : x <= u,
         NEW b \in period, u - b < Cap
  PROVE  b \in Newest(period)
<1> DEFINE later == {x \in period : x > b}
<1>1. b \in Int /\ later \subseteq (b + 1)..u
  <2>1. period \subseteq Int BY SomeInstants DEF Instants
  <2>2. ASSUME NEW x \in later PROVE x \in (b + 1)..u
    <3>1. x \in Int /\ b \in Int /\ x > b /\ x <= u BY <2>1
    <3> QED BY <3>1, SMT
  <2> QED BY <2>1, <2>2
<1>2. /\ IsFiniteSet((b + 1)..u)
      /\ Cardinality((b + 1)..u) = IF b + 1 > u THEN 0 ELSE u - (b + 1) + 1
  BY <1>1, FS_Interval
<1>3. Cardinality(later) <= Cardinality((b + 1)..u) /\ IsFiniteSet(later)
  BY <1>1, <1>2, FS_Subset, Zenon
<1>4. Cardinality(later) \in Nat BY <1>3, FS_CardinalityType
<1>5. b <= u BY <1>1
<1>6. Cardinality(later) < Cap BY <1>1, <1>2, <1>3, <1>4, <1>5, WindowFits, SMT
<1> QED BY <1>6 DEF Newest

\* What a response adds to what a job has received.
Extends(old, new, served) ==
  /\ new \in Jobs
  /\ new.at = old.at /\ new.asked = old.asked /\ new.from = old.from /\ new.to = old.to
  /\ old.got \subseteq new.got
  /\ old.torn \subseteq old.got => new.torn \subseteq new.got
  /\ \A b \in new.got \ old.got : b < now /\ old.from <= b /\ b <= old.to /\ b <= served
  /\ \A b \in Instants : /\ old.from <= b /\ b <= old.to /\ b <= served /\ b < now
                          /\ old.to - b < Cap
                          => b \in new.got

LEMMA ReceiveExtends ==
  ASSUME TypeOK, NEW j \in Actors, NEW served \in Instants, NEW pc,
         pc \in {"looking", "storing"}
  PROVE  /\ Extends(job[j], [Receive(j, served) EXCEPT !.pc = pc], served)
         /\ [Receive(j, served) EXCEPT !.pc = pc].pc = pc
<1> DEFINE period == {b \in Instants : b >= job[j].from /\ b <= job[j].to /\ b <= served}
           closed == ClosedOnly(Newest(period))
<1>1. closed \subseteq period /\ \A b \in closed : b < now
  BY DEF ClosedOnly, Newest
<1>2. ASSUME NEW b \in period, b < now, job[j].to - b < Cap PROVE b \in closed
  <2>1. job[j].to \in Int BY DEF TypeOK, Jobs, Phases
  <2>2. b \in Newest(period)
    <3>1. period \subseteq Instants /\ \A x \in period : x <= job[j].to OBVIOUS
    <3> QED BY <3>1, <2>1, <1>2, NewestKeeps
  <2> QED BY <2>2, <1>2 DEF ClosedOnly
<1>3. Receive(j, served) =
        [job[j] EXCEPT !.got = @ \cup closed,
                       !.torn = @ \cup ((closed \ job[j].got) \cap {served})]
  BY DEF Receive, Response
<1> HIDE DEF closed
<1>4. job[j] \in Jobs BY DEF TypeOK
<1>5. closed \subseteq Instants BY <1>1
<1> DEFINE r == Receive(j, served)
           n == [r EXCEPT !.pc = pc]
<1>6. /\ r \in Jobs
      /\ r.got = job[j].got \cup closed
      /\ r.torn = job[j].torn \cup ((closed \ job[j].got) \cap {served})
      /\ r.at = job[j].at /\ r.asked = job[j].asked
      /\ r.from = job[j].from /\ r.to = job[j].to
  BY <1>3, <1>4, <1>5 DEF Jobs, Phases
<1> HIDE DEF r
<1>7. /\ n \in Jobs /\ n.pc = pc /\ n.got = r.got /\ n.torn = r.torn
      /\ n.at = r.at /\ n.asked = r.asked /\ n.from = r.from /\ n.to = r.to
  BY <1>6 DEF Jobs, Phases
<1> HIDE DEF n
<1>8. Extends(job[j], n, served)
  <2>1. \A b \in n.got \ job[j].got :
          b < now /\ job[j].from <= b /\ b <= job[j].to /\ b <= served
    BY <1>1, <1>6, <1>7
  <2>2. \A b \in Instants : /\ job[j].from <= b /\ b <= job[j].to /\ b <= served /\ b < now
                            /\ job[j].to - b < Cap
                            => b \in n.got
    <3>1. SUFFICES ASSUME NEW b \in Instants,
                          job[j].from <= b, b <= job[j].to, b <= served, b < now,
                          job[j].to - b < Cap
                   PROVE  b \in n.got
      OBVIOUS
    <3>2. job[j].from \in Int /\ b \in Int BY <1>4, SomeInstants DEF Jobs, Instants
    <3>3. b >= job[j].from BY <3>1, <3>2
    <3>4. b \in period BY <3>1, <3>3
    <3> QED BY <3>1, <3>4, <1>2, <1>6, <1>7
  <2>3. job[j].torn \subseteq job[j].got => n.torn \subseteq n.got BY <1>6, <1>7
  <2> QED BY <2>1, <2>2, <2>3, <1>6, <1>7 DEF Extends
<1> QED BY <1>7, <1>8 DEF r, n

(***************************************************************************)
(* What each action does to the job it belongs to.                         *)
(***************************************************************************)
Others(j) == \A i \in Actors : i # j => job'[i] = job[i]
Moved(j, pc) ==
  /\ job' \in [Actors -> Jobs] /\ Others(j) /\ job'[j].pc = pc
SameJob(j) == /\ job'[j].at = job[j].at /\ job'[j].asked = job[j].asked
              /\ job'[j].from = job[j].from /\ job'[j].to = job[j].to
              /\ job'[j].got = job[j].got /\ job'[j].torn = job[j].torn
Fresh(j) == job'[j].got = {} /\ job'[j].torn = {}

LEMMA RestingType == /\ Resting \in Jobs /\ Resting.pc = "idle" /\ Resting.at = 0
                     /\ Resting.asked = 0 /\ Resting.got = {} /\ Resting.torn = {}
                     /\ 0 \in Instants
BY SomeInstants DEF Resting, Jobs, Phases, Instants

LEMMA ActorKinds == Backfills \subseteq Actors /\ Imports \subseteq Actors
BY DEF Actors

LEMMA BeginEffect ==
  ASSUME TypeOK, NEW j \in Backfills, Begin(j)
  PROVE  /\ Moved(j, "begun") /\ Fresh(j) /\ job'[j].at = now /\ job'[j].asked = 0
         /\ UNCHANGED <<now, bars>>
<1> DEFINE r == [Resting EXCEPT !.pc = "begun", !.at = now]
<1>1. /\ r \in Jobs /\ r.pc = "begun" /\ r.at = now /\ r.asked = 0
      /\ r.got = {} /\ r.torn = {}
  BY RestingType DEF TypeOK, Jobs, Phases
<1>2. job' = [job EXCEPT ![j] = r] /\ UNCHANGED <<now, bars>> BY DEF Begin
<1> HIDE DEF r
<1> QED BY <1>1, <1>2, ActorKinds DEF TypeOK, Moved, Others, Fresh

LEMMA LastOpenTimeEffect ==
  ASSUME TypeOK, NEW j \in Backfills, LastOpenTime(j)
  PROVE  /\ Moved(j, "fetching") /\ job'[j].at = job[j].at /\ job'[j].asked = now
         /\ job'[j].from = From(j) /\ job'[j].to = job[j].at
         /\ job'[j].got = job[j].got /\ job'[j].torn = job[j].torn
         /\ UNCHANGED <<now, bars>>
<1> DEFINE r == [job[j] EXCEPT !.pc = "fetching", !.asked = now,
                               !.from = From(j), !.to = job[j].at]
<1>1. job[j] \in Jobs /\ now \in Instants BY ActorKinds DEF TypeOK
<1>2. From(j) \in Int
  <2>1. job[j].at \in Int /\ Stored \subseteq Int
    BY <1>1, SomeInstants DEF Jobs, Instants, Stored
  <2>2. Wanted(j) + 1 \in Int BY <2>1, WindowFits DEF Wanted
  <2>3. ASSUME Stored # {} PROVE Last - Overlap \in Int
    <3>1. Last \in Stored BY <2>3, Watermarks
    <3>2. Last \in Int BY <2>1, <3>1, Zenon
    <3> QED BY <3>2 DEF Overlap
  <2>4. CASE Stored = {} BY <2>2, <2>4, Zenon DEF From
  <2>5. CASE Stored # {} BY <2>3, <2>5, Zenon DEF From
  <2> QED BY <2>4, <2>5
<1>3. /\ r \in Jobs /\ r.pc = "fetching" /\ r.at = job[j].at /\ r.asked = now
      /\ r.from = From(j) /\ r.to = job[j].at /\ r.got = job[j].got /\ r.torn = job[j].torn
  <2>1. job[j].at \in Int BY <1>1, SomeInstants DEF Jobs, Instants
  <2> QED BY <1>1, <1>2, <2>1 DEF Jobs, Phases
<1>4. job' = [job EXCEPT ![j] = r] /\ UNCHANGED <<now, bars>> BY DEF LastOpenTime
<1> HIDE DEF r
<1> QED BY <1>3, <1>4, ActorKinds DEF TypeOK, Moved, Others

LEMMA FetchEffect ==
  ASSUME TypeOK, NEW j \in Backfills, Fetch(j)
  PROVE  /\ Moved(j, "looking") /\ UNCHANGED <<now, bars>> /\ job[j].pc = "fetching"
         /\ \E served \in Instants : /\ job[j].asked <= served
                                     /\ Extends(job[j], job'[j], served)
<1>1. PICK served \in job[j].asked..now :
        job' = [job EXCEPT ![j] = [Receive(j, served) EXCEPT !.pc = "looking"]]
  BY DEF Fetch
<1>2. served \in Instants /\ job[j].asked <= served
  <2>1. job[j] \in Jobs /\ now \in Instants BY ActorKinds DEF TypeOK
  <2>2. job[j].asked \in 0..MaxNow /\ now \in 0..MaxNow BY <2>1 DEF Jobs, Instants
  <2> QED BY <2>2, <1>1, SomeInstants DEF Instants
<1> DEFINE r == [Receive(j, served) EXCEPT !.pc = "looking"]
<1>3. Extends(job[j], r, served) /\ r.pc = "looking" BY <1>2, ReceiveExtends, ActorKinds
<1>4. r \in Jobs BY <1>3 DEF Extends
<1>5. job' = [job EXCEPT ![j] = r] BY <1>1
<1> HIDE DEF r
<1>6. Moved(j, "looking") /\ job'[j] = r
  BY <1>3, <1>4, <1>5, ActorKinds DEF TypeOK, Moved, Others
<1> QED BY <1>2, <1>3, <1>6 DEF Fetch

LEMMA FirstOpenTimeEffect ==
  ASSUME TypeOK, NEW j \in Backfills, FirstOpenTime(j)
  PROVE  /\ UNCHANGED <<now, bars>> /\ job[j].pc = "looking"
         /\ job'[j].at = job[j].at /\ job'[j].got = job[j].got /\ job'[j].torn = job[j].torn
         /\ \/ /\ MustExtend(j) /\ Moved(j, "extending")
               /\ job'[j].asked = now /\ job'[j].from = Wanted(j) + 1 /\ job'[j].to = First + 1
            \/ ~MustExtend(j) /\ Moved(j, "storing") /\ SameJob(j)
<1>1. job[j] \in Jobs /\ now \in Instants BY ActorKinds DEF TypeOK
<1>2. CASE MustExtend(j)
  <2> DEFINE r == [job[j] EXCEPT !.pc = "extending", !.asked = now,
                                 !.from = Wanted(j) + 1, !.to = First + 1]
  <2>1. Wanted(j) + 1 \in Int /\ First + 1 \in Int
    <3>1. job[j].at \in Int /\ Stored \subseteq Int
      BY <1>1, SomeInstants DEF Jobs, Instants, Stored
    <3>2. First \in Stored BY <1>2, Watermarks DEF MustExtend
    <3>3. First \in Int BY <3>1, <3>2, Zenon
    <3> QED BY <3>1, <3>3, WindowFits DEF Wanted
  <2>2. /\ r \in Jobs /\ r.pc = "extending" /\ r.at = job[j].at /\ r.asked = now
        /\ r.from = Wanted(j) + 1 /\ r.to = First + 1
        /\ r.got = job[j].got /\ r.torn = job[j].torn
    BY <1>1, <2>1 DEF Jobs, Phases
  <2>3. job' = [job EXCEPT ![j] = r] BY <1>2 DEF FirstOpenTime
  <2> HIDE DEF r
  <2> QED BY <1>2, <2>2, <2>3, ActorKinds DEF TypeOK, Moved, Others, FirstOpenTime
<1>3. CASE ~MustExtend(j)
  <2> DEFINE r == [job[j] EXCEPT !.pc = "storing"]
  <2>1. /\ r \in Jobs /\ r.pc = "storing" /\ r.at = job[j].at /\ r.asked = job[j].asked
        /\ r.from = job[j].from /\ r.to = job[j].to
        /\ r.got = job[j].got /\ r.torn = job[j].torn
    BY <1>1 DEF Jobs, Phases
  <2>2. job' = [job EXCEPT ![j] = r] BY <1>3 DEF FirstOpenTime
  <2> HIDE DEF r
  <2> QED BY <1>3, <2>1, <2>2, ActorKinds DEF TypeOK, Moved, Others, SameJob, FirstOpenTime
<1> QED BY <1>2, <1>3

LEMMA FetchOlderEffect ==
  ASSUME TypeOK, NEW j \in Actors, FetchOlder(j) \/ FetchPeriod(j)
  PROVE  /\ Moved(j, "storing") /\ UNCHANGED <<now, bars>>
         /\ \E served \in Instants : /\ job[j].asked <= served
                                     /\ Extends(job[j], job'[j], served)
<1>1. PICK served \in job[j].asked..now :
        job' = [job EXCEPT ![j] = [Receive(j, served) EXCEPT !.pc = "storing"]]
  BY DEF FetchOlder, FetchPeriod
<1>2. served \in Instants /\ job[j].asked <= served
  <2>1. job[j] \in Jobs /\ now \in Instants BY DEF TypeOK
  <2>2. job[j].asked \in 0..MaxNow /\ now \in 0..MaxNow BY <2>1 DEF Jobs, Instants
  <2> QED BY <2>2, <1>1, SomeInstants DEF Instants
<1> DEFINE r == [Receive(j, served) EXCEPT !.pc = "storing"]
<1>3. Extends(job[j], r, served) /\ r.pc = "storing" BY <1>2, ReceiveExtends
<1>4. r \in Jobs BY <1>3 DEF Extends
<1>5. job' = [job EXCEPT ![j] = r] BY <1>1
<1> HIDE DEF r
<1>6. Moved(j, "storing") /\ job'[j] = r
  BY <1>3, <1>4, <1>5 DEF TypeOK, Moved, Others
<1> QED BY <1>2, <1>3, <1>6 DEF FetchOlder, FetchPeriod

\* Storing adds what was received, and takes nothing away.
LEMMA UpsertEffect ==
  ASSUME TypeOK, NEW j \in Actors, Upsert(j), job[j].torn \subseteq job[j].got
  PROVE  bars' \in [Instants -> Qualities] /\ Stored' = Stored \cup job[j].got
<1>1. job[j].got \subseteq Instants /\ job[j].torn \subseteq Instants BY DEF TypeOK, Jobs, Phases
<1>2. bars' \in [Instants -> Qualities] BY DEF TypeOK, Upsert, Qualities
<1>3. ASSUME NEW b \in Instants
      PROVE  bars'[b] # "missing" <=> bars[b] # "missing" \/ b \in job[j].got
  BY DEF Upsert
<1> QED BY <1>1, <1>2, <1>3 DEF Stored

LEMMA GotoEffect ==
  ASSUME TypeOK, NEW j \in Actors,
         NEW pc \in {"stored", "skipped", "synced", "elsewhere"}, Goto(j, pc)
  PROVE  Moved(j, pc) /\ SameJob(j)
<1> DEFINE r == [job[j] EXCEPT !.pc = pc]
<1>1. job[j] \in Jobs BY DEF TypeOK
<1>2. /\ r \in Jobs /\ r.pc = pc /\ r.at = job[j].at /\ r.asked = job[j].asked
      /\ r.from = job[j].from /\ r.to = job[j].to
      /\ r.got = job[j].got /\ r.torn = job[j].torn
  BY <1>1 DEF Jobs, Phases
<1>3. job' = [job EXCEPT ![j] = r] BY DEF Goto
<1> HIDE DEF r
<1> QED BY <1>2, <1>3 DEF TypeOK, Moved, Others, SameJob

\* A series that is skipped keeps nothing but the time its turn began.
LEMMA SkipEffect ==
  ASSUME TypeOK, NEW j \in Backfills, Skip(j)
  PROVE  /\ Moved(j, "skipped") /\ Fresh(j) /\ UNCHANGED <<now, bars>>
         /\ job'[j].at = job[j].at /\ job'[j].asked = 0 /\ job[j].pc # "idle"
<1> DEFINE r == [Resting EXCEPT !.pc = "skipped", !.at = job[j].at]
<1>1. job[j] \in Jobs BY ActorKinds DEF TypeOK
<1>2. /\ r \in Jobs /\ r.pc = "skipped" /\ r.at = job[j].at /\ r.asked = 0
      /\ r.got = {} /\ r.torn = {}
  BY <1>1, RestingType DEF Jobs, Phases
<1>3. /\ job' = [job EXCEPT ![j] = r] /\ UNCHANGED <<now, bars>>
      /\ job[j].pc # "idle"
  BY DEF Skip
<1> HIDE DEF r
<1> QED BY <1>2, <1>3, ActorKinds DEF TypeOK, Moved, Others, Fresh

\* Reporting changes nothing but where the job is.
LEMMA ReportEffect ==
  ASSUME TypeOK, NEW j \in Backfills, Report(j)
  PROVE  /\ SameJob(j) /\ UNCHANGED <<now, bars>>
         /\ \/ job[j].pc = "stored" /\ Moved(j, "synced")
            \/ job[j].pc = "skipped" /\ Moved(j, "elsewhere")
BY GotoEffect, ActorKinds DEF Report

\* The end of a job, good or bad, leaves nothing of it.
Ends(j) == /\ job' \in [Actors -> Jobs] /\ Others(j) /\ Fresh(j)
           /\ job'[j].at = 0 /\ job'[j].asked = 0
           /\ job'[j].pc = IF j \in Backfills THEN "idle" ELSE "done"

LEMMA EndedEffect ==
  ASSUME TypeOK, NEW j \in Actors, job' = [job EXCEPT ![j] = Ended(j)]
  PROVE  Ends(j)
<1> DEFINE d == [Resting EXCEPT !.pc = "done"]
<1>1. /\ d \in Jobs /\ d.pc = "done" /\ d.at = 0 /\ d.asked = 0
      /\ d.got = {} /\ d.torn = {}
  BY RestingType DEF Jobs, Phases
<1>2. Ended(j) = IF j \in Backfills THEN Resting ELSE d BY DEF Ended
<1> HIDE DEF d
<1>3. CASE j \in Backfills
  BY <1>2, <1>3, RestingType DEF TypeOK, Ends, Others, Fresh
<1>4. CASE j \notin Backfills
  BY <1>1, <1>2, <1>4 DEF TypeOK, Ends, Others, Fresh
<1> QED BY <1>3, <1>4

LEMMA ImportEffect ==
  ASSUME TypeOK, NEW j \in Imports, NEW from \in Instants, NEW to \in Instants,
         Import(j, from, to)
  PROVE  /\ Moved(j, "fetching") /\ Fresh(j) /\ UNCHANGED <<now, bars>>
         /\ job'[j].at = now /\ job'[j].asked = now
<1> DEFINE r == [Resting EXCEPT !.pc = "fetching", !.at = now, !.asked = now,
                                !.from = from, !.to = to]
<1>1. /\ r \in Jobs /\ r.pc = "fetching" /\ r.at = now /\ r.asked = now
      /\ r.got = {} /\ r.torn = {}
  <2>1. from \in Int /\ to \in Int /\ now \in Instants
    BY SomeInstants DEF TypeOK, Instants
  <2> QED BY <2>1, RestingType DEF Jobs, Phases
<1>2. job' = [job EXCEPT ![j] = r] /\ UNCHANGED <<now, bars>> BY DEF Import
<1> HIDE DEF r
<1> QED BY <1>1, <1>2, ActorKinds DEF TypeOK, Moved, Others, Fresh

(***************************************************************************)
(* No bar that was still forming is stored or about to be.                 *)
(***************************************************************************)
Sane(j) ==
  /\ job[j].at <= now /\ job[j].asked <= now
  /\ job[j].torn \subseteq job[j].got
  /\ \A b \in job[j].got : b < now
  /\ job[j].pc \in {"idle", "begun", "fetching"} => job[j].got = {}

Settled == TypeOK /\ NothingForming /\ \A j \in Actors : Sane(j)

LEMMA Numbers ==
  ASSUME TypeOK
  PROVE  /\ now \in Int /\ now >= 0 /\ Instants \subseteq Int /\ Stored \subseteq Int
         /\ \A j \in Actors : /\ job[j] \in Jobs
                              /\ job[j].at \in Int /\ job[j].asked \in Int
                              /\ job[j].from \in Int /\ job[j].to \in Int
                              /\ job[j].got \subseteq Int
                              /\ job[j].got \subseteq Instants
BY SomeInstants DEF TypeOK, Instants, Jobs, Stored

LEMMA SettledInit == Init => Settled
<1>1. SUFFICES ASSUME Init PROVE Settled OBVIOUS
<1>2. TypeOK
  <2>1. bars \in [Instants -> Qualities] BY <1>1 DEF Init, Qualities
  <2> QED BY <1>1, <2>1, RestingType DEF Init, TypeOK
<1>3. NothingForming
  <2>1. PICK a \in Instants, z \in -1..now - 1 :
          bars = [b \in Instants |-> IF b \in a..z THEN "whole" ELSE "missing"]
    BY <1>1 DEF Init
  <2>2. now \in Int /\ a \in Int BY <1>1, SomeInstants DEF Init, Instants
  <2>3. ASSUME NEW b \in Stored PROVE b < now
    <3>1. b \in a..z BY <2>1 DEF Stored
    <3> QED BY <2>2, <3>1
  <2> QED BY <2>3 DEF NothingForming
<1>4. ASSUME NEW j \in Actors PROVE Sane(j)
  <2>1. job[j] = Resting /\ now \in 0..MaxNow BY <1>1 DEF Init, Instants
  <2> QED BY <2>1, RestingType, SomeInstants DEF Sane
<1> QED BY <1>2, <1>3, <1>4 DEF Settled

\* A step of one job that stores nothing.
LEMMA SettledLocal ==
  ASSUME Settled, NEW j \in Actors, job' \in [Actors -> Jobs], Others(j),
         UNCHANGED <<now, bars>>, Sane(j)'
  PROVE  Settled'
<1>1. TypeOK' BY DEF Settled, TypeOK
<1>2. NothingForming' BY DEF Settled, NothingForming, Stored
<1>3. ASSUME NEW i \in Actors, i # j PROVE Sane(i)'
  BY <1>3 DEF Settled, Others, Sane
<1> QED BY <1>1, <1>2, <1>3 DEF Settled

\* A step that stores what one job has received.
LEMMA SettledStore ==
  ASSUME Settled, NEW j \in Actors, NEW pc \in {"stored", "synced"},
         Upsert(j), Goto(j, pc), now' = now
  PROVE  Settled'
<1>1. /\ TypeOK /\ job[j].torn \subseteq job[j].got BY DEF Settled, Sane
<1>2. bars' \in [Instants -> Qualities] /\ Stored' = Stored \cup job[j].got
  BY <1>1, UpsertEffect
<1>3. Moved(j, pc) /\ SameJob(j) BY <1>1, GotoEffect
<1>4. TypeOK' BY <1>1, <1>2, <1>3 DEF TypeOK, Moved
<1>5. NothingForming' BY <1>2 DEF Settled, Sane, NothingForming
<1>6. ASSUME NEW i \in Actors PROVE Sane(i)'
  <2>1. CASE i = j BY <2>1, <1>3 DEF Settled, Sane, SameJob, Moved
  <2>2. CASE i # j BY <2>2, <1>3 DEF Settled, Sane, Moved, Others
  <2> QED BY <2>1, <2>2
<1> QED BY <1>4, <1>5, <1>6 DEF Settled

\* The old and the new part of what was received was closed when it came.
LEMMA SaneReceive ==
  ASSUME Settled, NEW j \in Actors, NEW pc \in {"looking", "storing"}, Moved(j, pc),
         NEW served, Extends(job[j], job'[j], served), now' = now
  PROVE  Sane(j)'
BY DEF Settled, Sane, Moved, Extends

LEMMA SettledStep == Settled /\ [Next]_vars => Settled'
<1>1. SUFFICES ASSUME Settled, [Next]_vars PROVE Settled' OBVIOUS
<1>2. TypeOK /\ \A j \in Actors : Sane(j) BY <1>1 DEF Settled
<1>3. now \in Int /\ now >= 0 BY <1>2, Numbers
<1>4. CASE Tick
  <2>1. now' = now + 1 /\ UNCHANGED <<bars, job>> BY <1>4 DEF Tick
  <2>2. TypeOK'
    <3>1. now' \in Instants BY <1>2, <1>4, SomeInstants DEF TypeOK, Tick, Instants
    <3> QED BY <2>1, <3>1, <1>2 DEF TypeOK
  <2>3. NothingForming'
    <3>1. Stored' = Stored /\ Stored \subseteq Int BY <2>1, <1>2, Numbers DEF Stored
    <3> QED BY <1>1, <1>3, <2>1, <3>1 DEF Settled, NothingForming
  <2>4. ASSUME NEW j \in Actors PROVE Sane(j)'
    <3>1. /\ job[j].at \in Int /\ job[j].asked \in Int /\ job[j].got \subseteq Int
      BY <1>2, Numbers
    <3> QED BY <1>2, <1>3, <2>1, <3>1 DEF Sane
  <2> QED BY <2>2, <2>3, <2>4 DEF Settled
<1>5. ASSUME NEW j \in Backfills, Begin(j) PROVE Settled'
  <2>1. /\ Moved(j, "begun") /\ Fresh(j) /\ job'[j].at = now /\ job'[j].asked = 0
        /\ UNCHANGED <<now, bars>>
    BY <1>2, <1>5, BeginEffect
  <2>2. Sane(j)' BY <1>3, <2>1 DEF Sane, Fresh, Moved
  <2> QED BY <1>1, <2>1, <2>2, SettledLocal, ActorKinds DEF Moved
<1>6. ASSUME NEW j \in Backfills, LastOpenTime(j) PROVE Settled'
  <2>1. /\ Moved(j, "fetching") /\ job'[j].at = job[j].at /\ job'[j].asked = now
        /\ job'[j].got = job[j].got /\ job'[j].torn = job[j].torn
        /\ UNCHANGED <<now, bars>>
    BY <1>2, <1>6, LastOpenTimeEffect
  <2>2. Sane(j)'
    <3>1. job[j].pc = "begun" BY <1>6 DEF LastOpenTime
    <3> QED BY <1>2, <1>3, <2>1, <3>1, ActorKinds DEF Sane, Moved
  <2> QED BY <1>1, <2>1, <2>2, SettledLocal, ActorKinds DEF Moved
<1>7. ASSUME NEW j \in Backfills, Fetch(j) PROVE Settled'
  <2>1. Moved(j, "looking") /\ UNCHANGED <<now, bars>> BY <1>2, <1>7, FetchEffect
  <2>2. PICK served \in Instants : Extends(job[j], job'[j], served)
    BY <1>2, <1>7, FetchEffect
  <2>3. Sane(j)' BY <1>1, <2>1, <2>2, SaneReceive, ActorKinds
  <2> QED BY <1>1, <2>1, <2>3, SettledLocal, ActorKinds DEF Moved
<1>8. ASSUME NEW j \in Backfills, FirstOpenTime(j) PROVE Settled'
  <2>1. /\ UNCHANGED <<now, bars>> /\ job'[j].at = job[j].at /\ job'[j].got = job[j].got
        /\ job'[j].torn = job[j].torn
        /\ \/ Moved(j, "extending") /\ job'[j].asked = now
           \/ Moved(j, "storing") /\ SameJob(j)
    BY <1>2, <1>8, FirstOpenTimeEffect
  <2>2. Sane(j)' BY <1>2, <1>3, <2>1, ActorKinds DEF Sane, Moved, SameJob
  <2>3. job' \in [Actors -> Jobs] /\ Others(j) BY <2>1 DEF Moved
  <2> QED BY <1>1, <2>1, <2>2, <2>3, SettledLocal, ActorKinds
<1>9. ASSUME NEW j \in Actors, FetchOlder(j) \/ FetchPeriod(j) PROVE Settled'
  <2>1. Moved(j, "storing") /\ UNCHANGED <<now, bars>> BY <1>2, <1>9, FetchOlderEffect
  <2>2. PICK served \in Instants : Extends(job[j], job'[j], served)
    BY <1>2, <1>9, FetchOlderEffect
  <2>3. Sane(j)' BY <1>1, <2>1, <2>2, SaneReceive
  <2> QED BY <1>1, <2>1, <2>3, SettledLocal DEF Moved
<1>10. ASSUME NEW j \in Actors, job' = [job EXCEPT ![j] = Ended(j)], UNCHANGED <<now, bars>>
       PROVE  Settled'
  <2>1. Ends(j) BY <1>2, <1>10, EndedEffect
  <2>2. Sane(j)' BY <1>3, <1>10, <2>1 DEF Sane, Ends, Fresh
  <2> QED BY <1>1, <1>10, <2>1, <2>2, SettledLocal DEF Ends
<1>11. ASSUME NEW j \in Backfills, Store(j) PROVE Settled'
  <2>1. CASE job[j].got = {}
    <3>1. Goto(j, "skipped") /\ UNCHANGED <<now, bars>> BY <1>11, <2>1 DEF Store
    <3>2. Moved(j, "skipped") /\ SameJob(j) BY <1>2, <3>1, GotoEffect, ActorKinds
    <3>3. Sane(j)' BY <1>2, <2>1, <3>1, <3>2, ActorKinds DEF Sane, Moved, SameJob
    <3> QED BY <1>1, <3>1, <3>2, <3>3, SettledLocal, ActorKinds DEF Moved
  <2>2. CASE job[j].got # {}
    <3>1. Upsert(j) /\ Goto(j, "stored") /\ now' = now BY <1>11, <2>2 DEF Store
    <3> QED BY <1>1, <3>1, SettledStore, ActorKinds
  <2> QED BY <2>1, <2>2
<1>12. ASSUME NEW j \in Imports, StorePeriod(j) PROVE Settled'
  <2>1. Upsert(j) /\ Goto(j, "synced") /\ now' = now BY <1>12 DEF StorePeriod
  <2> QED BY <1>1, <2>1, SettledStore, ActorKinds
<1>13. ASSUME NEW j \in Actors, Finish(j) \/ Abort(j) PROVE Settled'
  <2>1. job' = [job EXCEPT ![j] = Ended(j)] /\ UNCHANGED <<now, bars>>
    BY <1>13 DEF Finish, Abort
  <2> QED BY <2>1, <1>10
<1>14. ASSUME NEW j \in Imports, NEW from \in Instants, NEW to \in Instants,
              Import(j, from, to)
       PROVE  Settled'
  <2>1. /\ Moved(j, "fetching") /\ Fresh(j) /\ UNCHANGED <<now, bars>>
        /\ job'[j].at = now /\ job'[j].asked = now
    BY <1>2, <1>14, ImportEffect
  <2>2. Sane(j)' BY <1>3, <2>1 DEF Sane, Fresh, Moved
  <2> QED BY <1>1, <2>1, <2>2, SettledLocal, ActorKinds DEF Moved
<1>15. CASE UNCHANGED vars
  BY <1>1, <1>15 DEF vars, Settled, TypeOK, NothingForming, Stored, Sane
<1>16. ASSUME NEW j \in Backfills, Skip(j) PROVE Settled'
  <2>1. /\ Moved(j, "skipped") /\ Fresh(j) /\ UNCHANGED <<now, bars>>
        /\ job'[j].at = job[j].at /\ job'[j].asked = 0
    BY <1>2, <1>16, SkipEffect
  <2>2. Sane(j)' BY <1>2, <1>3, <2>1, ActorKinds DEF Sane, Fresh, Moved
  <2> QED BY <1>1, <2>1, <2>2, SettledLocal, ActorKinds DEF Moved
<1>17. ASSUME NEW j \in Backfills, Report(j) PROVE Settled'
  <2>1. /\ SameJob(j) /\ UNCHANGED <<now, bars>>
        /\ \/ Moved(j, "synced")
           \/ Moved(j, "elsewhere")
    BY <1>2, <1>17, ReportEffect
  <2>2. Sane(j)' BY <1>2, <2>1, ActorKinds DEF Sane, SameJob, Moved
  <2>3. job' \in [Actors -> Jobs] /\ Others(j) BY <2>1 DEF Moved
  <2> QED BY <1>1, <2>1, <2>2, <2>3, SettledLocal, ActorKinds
<1> QED
  BY <1>1, <1>4, <1>5, <1>6, <1>7, <1>8, <1>9, <1>11, <1>12, <1>13, <1>14, <1>15,
     <1>16, <1>17, ActorKinds
  DEF Next

\* The clock, the table and every job keep their type (Service.bybitBackfill,
\* Service.ImportCandles).
THEOREM TypeCorrect == Spec => []TypeOK
<1>1. Settled => TypeOK BY DEF Settled
<1> QED BY <1>1, SettledInit, SettledStep, PTL DEF Spec

\* However many backfills and imports share a series, and however late the
\* exchange answers, no forming bar is stored as history (ClosedOnly).
THEOREM NothingFormingHolds == Spec => []NothingForming
<1>1. Settled => NothingForming BY DEF Settled
<1> QED BY <1>1, SettledInit, SettledStep, PTL DEF Spec

(***************************************************************************)
(* Both ends of the window.  What a backfill has seen at each of its       *)
(* stages says enough about the bars that are still missing: whatever the  *)
(* others store in the meantime only moves the watermarks apart.           *)
(***************************************************************************)
Hole(b) == /\ b \in Instants \ Stored
           /\ \E x \in Stored : x < b
           /\ \E y \in Stored : b < y
InReach(j) == {b \in Instants : Wanted(j) < b /\ b < job[j].at}
InTime(j)  == now - job[j].at <= Cap - Window

Fetching(j) == job[j].pc = "fetching" =>
  /\ job[j].to = job[j].at /\ job[j].at <= job[j].asked
  /\ job[j].from = Wanted(j) + 1 \/ job[j].from + 1 \in Stored
Extending(j) == job[j].pc = "extending" =>
  /\ job[j].from = Wanted(j) + 1
  /\ job[j].to - 1 \in Stored /\ job[j].to - 1 < job[j].asked
Ahead(j) == job[j].pc \in {"looking", "extending"} /\ InTime(j) =>
  \A b \in InReach(j) : b \in job[j].got \/ \E y \in Stored : b < y
Enclosed(j) == job[j].pc = "storing" /\ InTime(j) =>
  \A b \in InReach(j) \ Stored : b \in job[j].got \/ Hole(b)
Reached(j) == job[j].pc \in {"stored", "synced"} /\ InTime(j) =>
  \A b \in InReach(j) \ Stored : Hole(b)

Stages(j) == Fetching(j) /\ Extending(j) /\ Ahead(j) /\ Enclosed(j) /\ Reached(j)
EndsInv == Settled /\ \A j \in Backfills : Stages(j)

\* What a backfill knows stays true while time passes and others store.
LEMMA StagesStable ==
  ASSUME Settled, NEW j \in Backfills, Stages(j),
         now' \in Int, now' >= now, Stored \subseteq Stored', job'[j] = job[j]
  PROVE  Stages(j)'
<1>1. /\ now \in Int /\ Instants \subseteq Int /\ Stored \subseteq Int
      /\ job[j].at \in Int /\ job[j].got \subseteq Instants
      /\ Cap \in Int /\ Window \in Int
  BY Numbers, ActorKinds, WindowFits DEF Settled
<1>2. Wanted(j)' = Wanted(j) BY DEF Wanted
<1>3. InReach(j)' = InReach(j) BY <1>2 DEF InReach
<1>4. InTime(j)' => InTime(j) BY <1>1 DEF InTime
<1>5. ASSUME NEW b, Hole(b), b \notin Stored' PROVE Hole(b)'
  BY <1>5 DEF Hole
<1>6. Fetching(j)' BY <1>2 DEF Stages, Fetching
<1>7. Extending(j)' BY <1>2 DEF Stages, Extending
<1>8. Ahead(j)' BY <1>3, <1>4 DEF Stages, Ahead
<1>9. Enclosed(j)' BY <1>3, <1>4, <1>5 DEF Stages, Enclosed
<1>10. Reached(j)' BY <1>3, <1>4, <1>5 DEF Stages, Reached
<1> QED BY <1>6, <1>7, <1>8, <1>9, <1>10 DEF Stages

LEMMA LastOpenTimeStages ==
  ASSUME Settled, NEW j \in Backfills, LastOpenTime(j)
  PROVE  Stages(j)'
<1>1. /\ Moved(j, "fetching") /\ job'[j].at = job[j].at /\ job'[j].asked = now
      /\ job'[j].from = From(j) /\ job'[j].to = job[j].at /\ UNCHANGED <<now, bars>>
  BY LastOpenTimeEffect DEF Settled
<1>2. Stored' = Stored /\ Wanted(j)' = Wanted(j) BY <1>1 DEF Stored, Wanted
<1>3. job[j].at <= now BY ActorKinds DEF Settled, Sane
<1>4. From(j) = Wanted(j) + 1 \/ From(j) + 1 \in Stored
  <2>1. CASE Stored = {} BY <2>1 DEF From
  <2>2. CASE Stored # {}
    <3>1. Last \in Stored /\ Stored \subseteq Int
      BY <2>2, Watermarks, Numbers DEF Settled
    <3>2. Last \in Int BY <3>1, Zenon
    <3>3. (Last - 1) + 1 = Last BY <3>2
    <3>4. From(j) = Last - 1 BY <2>2, Zenon DEF From, Overlap
    <3> QED BY <3>1, <3>3, <3>4
  <2> QED BY <2>1, <2>2
<1>5. Fetching(j)' BY <1>1, <1>2, <1>3, <1>4 DEF Fetching
<1> QED BY <1>1, <1>5 DEF Stages, Moved, Extending, Ahead, Enclosed, Reached

LEMMA FetchStages ==
  ASSUME Settled, NEW j \in Backfills, Stages(j), Fetch(j)
  PROVE  Stages(j)'
<1>1. Moved(j, "looking") /\ UNCHANGED <<now, bars>> /\ job[j].pc = "fetching"
  BY FetchEffect DEF Settled
<1>2. PICK served \in Instants : job[j].asked <= served /\ Extends(job[j], job'[j], served)
  BY FetchEffect DEF Settled
<1>3. /\ now \in Int /\ Instants \subseteq Int /\ Stored \subseteq Int
      /\ job[j].at \in Int /\ job[j].asked \in Int /\ job[j].from \in Int
      /\ job[j].to \in Int
      /\ Cap \in Int /\ Window \in Int /\ Window < Cap
  BY Numbers, ActorKinds, WindowFits DEF Settled
<1>4. Stored' = Stored /\ job'[j].at = job[j].at /\ Wanted(j)' = Wanted(j)
  BY <1>1, <1>2 DEF Stored, Extends, Wanted
<1>5. /\ job[j].to = job[j].at /\ job[j].at <= job[j].asked
      /\ job[j].from = Wanted(j) + 1 \/ job[j].from + 1 \in Stored
  BY <1>1 DEF Stages, Fetching
<1>6. job[j].at <= now BY ActorKinds DEF Settled, Sane
<1>7. ASSUME NEW b \in Instants, Wanted(j) < b, b < job[j].at
      PROVE  b \in job'[j].got \/ \E y \in Stored : b < y
  <2>1. b \in Int /\ served \in Int BY <1>3
  <2>2. CASE job[j].from <= b
    <3>1. b <= job[j].to /\ b <= served /\ b < now BY <1>2, <1>3, <1>5, <1>6, <1>7, <2>1
    <3>2. job[j].to - b < Cap BY <1>3, <1>5, <1>7, <2>1 DEF Wanted
    <3> QED BY <1>2, <2>2, <3>1, <3>2 DEF Extends
  <2>3. CASE ~(job[j].from <= b)
    <3>1. job[j].from # Wanted(j) + 1 BY <1>3, <1>7, <2>1, <2>3 DEF Wanted
    <3>2. job[j].from + 1 \in Stored /\ b < job[j].from + 1 BY <1>3, <1>5, <2>1, <2>3, <3>1
    <3> QED BY <3>2
  <2> QED BY <2>2, <2>3
<1>8. Ahead(j)' BY <1>4, <1>7 DEF Ahead, InReach
<1> QED BY <1>1, <1>8 DEF Stages, Moved, Fetching, Extending, Enclosed, Reached

LEMMA FirstOpenTimeStages ==
  ASSUME Settled, NEW j \in Backfills, Stages(j), FirstOpenTime(j)
  PROVE  Stages(j)'
<1>1. /\ UNCHANGED <<now, bars>> /\ job[j].pc = "looking"
      /\ job'[j].at = job[j].at /\ job'[j].got = job[j].got
      /\ \/ /\ MustExtend(j) /\ Moved(j, "extending")
            /\ job'[j].asked = now /\ job'[j].from = Wanted(j) + 1 /\ job'[j].to = First + 1
         \/ ~MustExtend(j) /\ Moved(j, "storing") /\ SameJob(j)
  BY FirstOpenTimeEffect DEF Settled
<1>2. /\ Stored' = Stored /\ Wanted(j)' = Wanted(j) /\ InReach(j)' = InReach(j)
      /\ InTime(j)' = InTime(j)
  BY <1>1 DEF Stored, Wanted, InReach, InTime
<1>3. /\ Instants \subseteq Int /\ Stored \subseteq Int /\ job[j].at \in Int
      /\ Window \in Int
  BY Numbers, ActorKinds, WindowFits DEF Settled
<1>4. CASE MustExtend(j)
  <2>1. /\ Moved(j, "extending") /\ job'[j].asked = now
        /\ job'[j].from = Wanted(j) + 1 /\ job'[j].to = First + 1
    BY <1>1, <1>4
  <2>2. First \in Stored BY <1>4, Watermarks DEF MustExtend, Settled
  <2>3. First \in Int /\ First < now BY <1>3, <2>2, Zenon DEF Settled, NothingForming
  <2>4. (First + 1) - 1 = First BY <2>3
  <2>5. Extending(j)' BY <1>2, <2>1, <2>2, <2>3, <2>4 DEF Extending
  <2>6. Ahead(j)' BY <1>1, <1>2 DEF Stages, Ahead
  <2> QED BY <2>1, <2>5, <2>6 DEF Stages, Moved, Fetching, Enclosed, Reached
<1>5. CASE ~MustExtend(j)
  <2>1. Moved(j, "storing") BY <1>1, <1>5
  <2>2. ASSUME NEW b \in InReach(j) \ Stored, InTime(j)
        PROVE  b \in job[j].got \/ Hole(b)
    <3>1. SUFFICES ASSUME b \notin job[j].got PROVE Hole(b) OBVIOUS
    <3>2. \E y \in Stored : b < y BY <1>1, <2>2, <3>1 DEF Stages, Ahead
    <3>3. First \in Stored BY <3>2, Watermarks DEF Settled
    <3>4. ~(First >= Wanted(j) + 2) BY <1>5, <3>3 DEF MustExtend
    <3>5. b \in Int /\ First \in Int /\ Wanted(j) \in Int /\ Wanted(j) < b /\ First # b
      <4>1. First \in Int BY <1>3, <3>3, Zenon
      <4> QED BY <1>3, <2>2, <3>3, <4>1 DEF InReach, Wanted
    <3>6. First < b BY <3>4, <3>5
    <3> QED BY <3>2, <3>3, <3>6 DEF Hole, InReach
  <2>3. Enclosed(j)' BY <1>1, <1>2, <2>2 DEF Enclosed, Hole
  <2> QED BY <2>1, <2>3 DEF Stages, Moved, Fetching, Extending, Ahead, Reached
<1> QED BY <1>4, <1>5

LEMMA FetchOlderStages ==
  ASSUME Settled, NEW j \in Backfills, Stages(j), FetchOlder(j)
  PROVE  Stages(j)'
<1>1. Moved(j, "storing") /\ UNCHANGED <<now, bars>> /\ job[j].pc = "extending"
  BY FetchOlderEffect, ActorKinds DEF Settled, FetchOlder
<1>2. PICK served \in Instants : job[j].asked <= served /\ Extends(job[j], job'[j], served)
  BY FetchOlderEffect, ActorKinds DEF Settled
<1>3. /\ now \in Int /\ Instants \subseteq Int /\ Stored \subseteq Int
      /\ job[j].at \in Int /\ job[j].asked \in Int /\ job[j].from \in Int
      /\ job[j].to \in Int
      /\ Cap \in Int /\ Window \in Int
  BY Numbers, ActorKinds, WindowFits DEF Settled
<1>4. /\ Stored' = Stored /\ job'[j].at = job[j].at /\ Wanted(j)' = Wanted(j)
      /\ InReach(j)' = InReach(j) /\ InTime(j)' = InTime(j)
  BY <1>1, <1>2 DEF Stored, Extends, Wanted, InReach, InTime
<1>5. /\ job[j].from = Wanted(j) + 1
      /\ job[j].to - 1 \in Stored /\ job[j].to - 1 < job[j].asked
  BY <1>1 DEF Stages, Extending
<1>6. job[j].asked <= now BY ActorKinds DEF Settled, Sane
<1>7. ASSUME NEW b \in InReach(j) \ Stored, InTime(j)
      PROVE  b \in job'[j].got \/ Hole(b)
  <2>1. b \in Instants /\ b \in Int /\ served \in Int /\ Wanted(j) < b
    BY <1>3, <1>7 DEF InReach
  <2>2. SUFFICES ASSUME b \notin job'[j].got PROVE Hole(b) OBVIOUS
  <2>3. b \notin job[j].got BY <1>2, <2>2 DEF Extends
  <2>4. \E y \in Stored : b < y BY <1>1, <1>7, <2>3 DEF Stages, Ahead
  <2>5. ~(b < job[j].to - 1)
    <3>1. SUFFICES ASSUME b < job[j].to - 1 PROVE FALSE OBVIOUS
    <3>2. /\ job[j].from <= b /\ b <= job[j].to /\ b <= served /\ b < now
      BY <1>2, <1>3, <1>5, <1>6, <2>1, <3>1 DEF Wanted
    <3>3. job[j].to - b < Cap
      BY <1>3, <1>5, <1>6, <1>7, <2>1 DEF Wanted, InTime
    <3> QED BY <1>2, <2>1, <2>2, <3>2, <3>3 DEF Extends
  <2>6. b # job[j].to - 1 BY <1>5, <1>7
  <2>7. job[j].to - 1 < b BY <1>3, <2>1, <2>5, <2>6
  <2> QED BY <1>5, <1>7, <2>1, <2>4, <2>7 DEF Hole
<1>8. Enclosed(j)' BY <1>4, <1>7 DEF Enclosed, Hole
<1> QED BY <1>1, <1>8 DEF Stages, Moved, Fetching, Extending, Ahead, Reached

LEMMA StoreStages ==
  ASSUME Settled, NEW j \in Backfills, Stages(j), job[j].pc = "storing",
         Upsert(j), Goto(j, "stored"), now' = now
  PROVE  Stages(j)'
<1>1. Stored' = Stored \cup job[j].got
  BY UpsertEffect, ActorKinds DEF Settled, Sane
<1>2. Moved(j, "stored") /\ SameJob(j) BY GotoEffect, ActorKinds DEF Settled
<1>3. InReach(j)' = InReach(j) /\ InTime(j)' = InTime(j)
  BY <1>2 DEF SameJob, InReach, InTime, Wanted
<1>4. ASSUME NEW b \in InReach(j) \ Stored', InTime(j) PROVE Hole(b)'
  <2>1. b \in InReach(j) \ Stored /\ b \notin job[j].got BY <1>1, <1>4
  <2>2. Hole(b) BY <1>4, <2>1 DEF Stages, Enclosed
  <2> QED BY <1>1, <1>4, <2>2 DEF Hole
<1>5. Reached(j)' BY <1>3, <1>4 DEF Reached
<1> QED BY <1>2, <1>5 DEF Stages, Moved, Fetching, Extending, Ahead, Enclosed

\* A job that rests has nothing to say.
LEMMA IdleStages == ASSUME NEW j, job[j].pc \in {"idle", "begun"} PROVE Stages(j)
BY DEF Stages, Fetching, Extending, Ahead, Enclosed, Reached

\* Every step is one of a job's own, of which the others see what was stored,
\* or a tick of the clock.
Own(j) ==
  \/ /\ j \in Backfills
     /\ \/ Begin(j) \/ LastOpenTime(j) \/ Fetch(j) \/ FirstOpenTime(j)
        \/ FetchOlder(j) \/ Store(j) \/ Skip(j) \/ Report(j)
  \/ j \in Imports /\ (FetchPeriod(j) \/ StorePeriod(j))
  \/ j \in Imports /\ \E from, to \in Instants : Import(j, from, to)
  \/ Finish(j) \/ Abort(j)

LEMMA NextCases == Next => Tick \/ \E j \in Actors : Own(j)
BY ActorKinds DEF Next, Own

LEMMA OwnEffect ==
  ASSUME Settled, NEW j \in Actors, Own(j)
  PROVE  Others(j) /\ now' = now /\ Stored \subseteq Stored'
<1>1. TypeOK /\ job[j].torn \subseteq job[j].got BY DEF Settled, Sane
<1>2. bars' = bars => Stored \subseteq Stored' BY DEF Stored
<1>3. ASSUME job' = [job EXCEPT ![j] = Ended(j)], UNCHANGED <<now, bars>>
      PROVE  Others(j) /\ now' = now /\ Stored \subseteq Stored'
  BY <1>1, <1>2, <1>3, EndedEffect DEF Ends
<1>4. ASSUME NEW pc \in {"stored", "synced"}, Upsert(j), Goto(j, pc), now' = now
      PROVE  Others(j) /\ now' = now /\ Stored \subseteq Stored'
  BY <1>1, <1>4, UpsertEffect, GotoEffect DEF Moved
<1>5. CASE j \in Backfills /\ Begin(j) BY <1>1, <1>2, <1>5, BeginEffect DEF Moved
<1>6. CASE j \in Backfills /\ LastOpenTime(j)
  BY <1>1, <1>2, <1>6, LastOpenTimeEffect DEF Moved
<1>7. CASE j \in Backfills /\ Fetch(j) BY <1>1, <1>2, <1>7, FetchEffect DEF Moved
<1>8. CASE j \in Backfills /\ FirstOpenTime(j)
  BY <1>1, <1>2, <1>8, FirstOpenTimeEffect DEF Moved
<1>9. CASE FetchOlder(j) \/ FetchPeriod(j) BY <1>1, <1>2, <1>9, FetchOlderEffect DEF Moved
<1>10. CASE j \in Backfills /\ Store(j)
  <2>1. CASE job[j].got = {}
    <3>1. Goto(j, "skipped") /\ UNCHANGED <<now, bars>> BY <1>10, <2>1 DEF Store
    <3> QED BY <1>1, <1>2, <3>1, GotoEffect DEF Moved
  <2>2. CASE job[j].got # {} BY <1>4, <1>10, <2>2 DEF Store
  <2> QED BY <2>1, <2>2
<1>11. CASE StorePeriod(j) BY <1>4, <1>11 DEF StorePeriod
<1>12. CASE Finish(j) \/ Abort(j) BY <1>3, <1>12 DEF Finish, Abort
<1>13. CASE j \in Imports /\ \E from, to \in Instants : Import(j, from, to)
  <2>1. PICK from \in Instants, to \in Instants : Import(j, from, to) BY <1>13
  <2> QED BY <1>1, <1>2, <1>13, <2>1, ImportEffect DEF Moved
<1>14. CASE j \in Backfills /\ Skip(j) BY <1>1, <1>2, <1>14, SkipEffect DEF Moved
<1>15. CASE j \in Backfills /\ Report(j) BY <1>1, <1>2, <1>15, ReportEffect DEF Moved
<1> QED
  BY <1>5, <1>6, <1>7, <1>8, <1>9, <1>10, <1>11, <1>12, <1>13, <1>14, <1>15 DEF Own

LEMMA OwnStages ==
  ASSUME Settled, NEW j \in Backfills, Stages(j), Own(j)
  PROVE  Stages(j)'
<1>1. TypeOK /\ j \in Actors /\ j \notin Imports BY ActorKinds, ActorsDiffer DEF Settled
<1>2. ASSUME job' = [job EXCEPT ![j] = Ended(j)] PROVE Stages(j)'
  <2>1. job'[j].pc = "idle" BY <1>1, <1>2, EndedEffect DEF Ends
  <2> QED BY <2>1 DEF Stages, Fetching, Extending, Ahead, Enclosed, Reached
<1>3. CASE Begin(j)
  <2>1. job'[j].pc = "begun" BY <1>1, <1>3, BeginEffect DEF Moved
  <2> QED BY <2>1 DEF Stages, Fetching, Extending, Ahead, Enclosed, Reached
<1>4. CASE LastOpenTime(j) BY <1>4, LastOpenTimeStages
<1>5. CASE Fetch(j) BY <1>5, FetchStages
<1>6. CASE FirstOpenTime(j) BY <1>6, FirstOpenTimeStages
<1>7. CASE FetchOlder(j) BY <1>7, FetchOlderStages
<1>8. CASE Store(j)
  <2>1. CASE job[j].got = {}
    <3>1. job'[j].pc = "skipped"
      BY <1>1, <1>8, <2>1, GotoEffect DEF Store, Moved
    <3> QED BY <3>1 DEF Stages, Fetching, Extending, Ahead, Enclosed, Reached
  <2>2. CASE job[j].got # {} BY <1>8, <2>2, StoreStages DEF Store
  <2> QED BY <2>1, <2>2
<1>9. CASE Finish(j) \/ Abort(j) BY <1>2, <1>9 DEF Finish, Abort
<1>10. CASE Skip(j)
  <2>1. job'[j].pc = "skipped" BY <1>1, <1>10, SkipEffect DEF Moved
  <2> QED BY <2>1 DEF Stages, Fetching, Extending, Ahead, Enclosed, Reached
<1>11. CASE Report(j)
  <2>1. /\ SameJob(j) /\ UNCHANGED <<now, bars>>
        /\ \/ job[j].pc = "stored" /\ job'[j].pc = "synced"
           \/ job'[j].pc = "elsewhere"
    BY <1>1, <1>11, ReportEffect DEF Moved
  <2>2. InReach(j)' = InReach(j) /\ InTime(j)' = InTime(j) /\ Stored' = Stored
    BY <2>1 DEF SameJob, InReach, InTime, Wanted, Stored
  <2>3. Reached(j)' BY <2>1, <2>2 DEF Stages, Reached, Hole
  <2> QED BY <2>1, <2>3 DEF Stages, Fetching, Extending, Ahead, Enclosed
<1> QED BY <1>1, <1>3, <1>4, <1>5, <1>6, <1>7, <1>8, <1>9, <1>10, <1>11 DEF Own

LEMMA EndsInit == Init => EndsInv
<1>1. SUFFICES ASSUME Init PROVE EndsInv OBVIOUS
<1>2. ASSUME NEW j \in Backfills PROVE Stages(j)
  <2>1. job[j].pc = "idle" BY <1>1, ActorKinds, RestingType DEF Init
  <2> QED BY <2>1, IdleStages
<1> QED BY <1>1, <1>2, SettledInit DEF EndsInv

LEMMA EndsStep == EndsInv /\ [Next]_vars => EndsInv'
<1>1. SUFFICES ASSUME EndsInv, [Next]_vars PROVE EndsInv' OBVIOUS
<1>2. Settled /\ Settled' BY <1>1, SettledStep DEF EndsInv
<1>3. now \in Int BY <1>2, Numbers DEF Settled
<1>4. ASSUME NEW i \in Backfills PROVE Stages(i)'
  <2>1. Stages(i) BY <1>1 DEF EndsInv
  <2>2. CASE Tick
    <3>1. now' = now + 1 /\ Stored' = Stored /\ job' = job BY <2>2 DEF Tick, Stored
    <3> QED BY <1>2, <1>3, <2>1, <3>1, StagesStable
  <2>3. CASE UNCHANGED vars
    <3>1. now' = now /\ Stored' = Stored /\ job' = job BY <2>3 DEF vars, Stored
    <3> QED BY <1>2, <1>3, <2>1, <3>1, StagesStable
  <2>4. ASSUME NEW j \in Actors, Own(j) PROVE Stages(i)'
    <3>1. CASE i = j BY <1>2, <2>1, <2>4, <3>1, OwnStages
    <3>2. CASE i # j
      <4>1. Others(j) /\ now' = now /\ Stored \subseteq Stored'
        BY <1>2, <2>4, OwnEffect
      <4>2. job'[i] = job[i] BY <3>2, <4>1, ActorKinds DEF Others
      <4> QED BY <1>2, <1>3, <2>1, <4>1, <4>2, StagesStable
    <3> QED BY <3>1, <3>2
  <2> QED BY <1>1, <2>2, <2>3, <2>4, NextCases
<1> QED BY <1>2, <1>4 DEF EndsInv

\* A backfill that stored the series and reports success has reached both ends of
\* its window, with any number of other backfills and imports at the same series:
\* a bar it does not have lies between two stored ones (Service.bybitBackfill).
THEOREM BothEndsReachedHolds == Spec => []BothEndsReached
<1>1. EndsInv => BothEndsReached
  <2>1. SUFFICES ASSUME EndsInv, NEW j \in Backfills, job[j].pc = "synced",
                        now - job[j].at <= Cap - Window,
                        NEW b \in Instants \ Stored, b > Wanted(j), b < job[j].at
                 PROVE  First < b /\ b < Last
    BY DEF BothEndsReached
  <2>2. Stages(j) /\ Settled BY <2>1 DEF EndsInv
  <2>3. /\ Instants \subseteq Int /\ Stored \subseteq Int /\ job[j].at \in Int
        /\ Window \in Int
    BY <2>2, Numbers, ActorKinds, WindowFits DEF Settled
  <2>4. Wanted(j) < b BY <2>1, <2>3 DEF Wanted
  <2>5. Hole(b) BY <2>1, <2>2, <2>4 DEF Stages, Reached, InReach, InTime
  <2>6. PICK x \in Stored, y \in Stored : x < b /\ b < y BY <2>5 DEF Hole
  <2>7. First \in Stored /\ First <= x /\ Last \in Stored /\ y <= Last
    BY <2>2, Watermarks DEF Settled
  <2>8. First \in Int /\ Last \in Int /\ x \in Int /\ y \in Int /\ b \in Int
    BY <2>1, <2>3, <2>6, <2>7, Zenon
  <2> QED BY <2>6, <2>7, <2>8
<1> QED BY <1>1, EndsInit, EndsStep, PTL DEF Spec

(***************************************************************************)
(* No gap.  While backfills alone extend the series, a hole is so old that *)
(* klines could not page back to it when it arose.  Two backfills may both *)
(* find nothing stored, or one may find what the other has just stored:    *)
(* what each has received is tied to the watermarks on either side.        *)
(***************************************************************************)
HolesAreOld == \A b \in Instants : Hole(b) => b <= now - Cap

\* Below the window, but not beyond what klines can page back to.
Older(b, j) == b <= Wanted(j) /\ b > now - Cap

Upper(j)    == \A y \in job[j].got : y <= job[j].at \/ \E f \in Stored : y <= f + 1
Lower(j)    == Stored = {} => \A x \in job[j].got : x > Wanted(j)
Compact(j)  == \A x \in job[j].got, b \in Instants :
                 x < b /\ Older(b, j) => b \in job[j].got
Since(j)    == job[j].pc = "fetching" =>
                 \/ job[j].from + 1 \in Stored
                 \/ Stored = {}
                 \/ \E y \in Stored : y >= Wanted(j)
Attached(j) == job[j].pc \in {"looking", "extending", "storing"} =>
                 \A b \in Instants :
                   /\ Older(b, j)
                   /\ \E x \in Stored : x < b
                   /\ \A y \in Stored : y < b
                   => b \in job[j].got
Base(j)     == job[j].pc # "idle" => Stored = {} \/ \E x \in Stored : x <= job[j].at

Trail(j) == Upper(j) /\ Lower(j) /\ Compact(j) /\ Since(j) /\ Attached(j) /\ Base(j)
GapInv   == /\ EndsInv /\ Prompt
            /\ NoImportYet => HolesAreOld /\ \A j \in Backfills : Trail(j)

LEMMA BackfillNumbers ==
  ASSUME Settled, NEW j \in Backfills
  PROVE  /\ now \in Int /\ now >= 0
         /\ Instants \subseteq Int /\ Stored \subseteq Int /\ Stored \subseteq Instants
         /\ job[j].at \in Int /\ job[j].asked \in Int /\ job[j].from \in Int
         /\ job[j].to \in Int /\ job[j].at \in Instants
         /\ job[j].got \subseteq Int /\ job[j].got \subseteq Instants
         /\ Cap \in Int /\ Window \in Int /\ MaxWork \in Int /\ Wanted(j) \in Int
         /\ Window >= 1 /\ MaxWork < Window /\ Window + MaxWork <= Cap
         /\ job[j].at <= now /\ job[j].asked <= now
<1>1. /\ job[j] \in Jobs /\ job[j].at <= now /\ job[j].asked <= now
  BY ActorKinds DEF Settled, Sane, TypeOK
<1>2. Window \in Int /\ job[j].at \in Int
  BY Numbers, ActorKinds, WindowFits DEF Settled
<1>3. Wanted(j) \in Int BY <1>2 DEF Wanted
<1>4. job[j].at \in Instants BY <1>1 DEF Jobs, Phases
<1>5. Stored \subseteq Instants BY DEF Stored
<1> QED BY <1>1, <1>2, <1>3, <1>4, <1>5, Numbers, ActorKinds, WindowFits, WorkFits DEF Settled

\* The first to store anything stores bars on both sides of where the window
\* of every other running backfill begins and ends.
LEMMA FirstStore ==
  ASSUME Settled, Prompt, NEW k \in Backfills, NEW j \in Backfills,
         Stages(k), Upper(k), Lower(k), job[k].pc = "storing", job[j].pc # "idle",
         Stored = {}, job[k].got # {}
  PROVE  /\ \E e \in job[k].got : e <= job[j].at
         /\ \E e \in job[k].got : e >= Wanted(j)
<1>1. now - job[k].at <= MaxWork /\ now - job[j].at <= MaxWork BY DEF Prompt
<1>2. InTime(k) BY <1>1, BackfillNumbers DEF InTime
<1>3. ASSUME NEW b \in Instants, Wanted(k) < b, b < job[k].at PROVE b \in job[k].got
  BY <1>2, <1>3 DEF Stages, Enclosed, InReach, Hole
<1>4. PICK y \in job[k].got : Wanted(k) < y /\ y <= job[k].at
  <2>1. PICK y \in job[k].got : TRUE OBVIOUS
  <2>2. y > Wanted(k) /\ y <= job[k].at BY <2>1 DEF Upper, Lower
  <2>3. y \in Int /\ Wanted(k) \in Int BY BackfillNumbers
  <2> QED BY <2>2, <2>3
<1>5. y \in Int /\ y >= 0 /\ y \in Instants
  <2>1. y \in Instants BY BackfillNumbers
  <2> QED BY <2>1, SomeInstants DEF Instants
<1>6. \E e \in job[k].got : e <= job[j].at
  <2>1. CASE y <= job[j].at BY <2>1
  <2>2. CASE ~(y <= job[j].at)
    <3>1. Wanted(k) < job[j].at /\ job[j].at < job[k].at
      BY <1>1, <1>4, <1>5, <2>2, BackfillNumbers DEF Wanted
    <3>2. job[j].at \in job[k].got BY <1>3, <3>1, BackfillNumbers
    <3>3. job[j].at <= job[j].at BY BackfillNumbers
    <3> QED BY <3>2, <3>3
  <2> QED BY <2>1, <2>2
<1>7. \E e \in job[k].got : e >= Wanted(j)
  <2>1. CASE y >= Wanted(j) BY <2>1
  <2>2. CASE ~(y >= Wanted(j))
    <3>1. Wanted(k) < Wanted(j) /\ Wanted(j) < job[k].at /\ 0 <= Wanted(j)
      BY <1>1, <1>4, <1>5, <2>2, BackfillNumbers DEF Wanted
    <3>2. Wanted(j) \in Instants
      <4>1. job[k].at \in 0..MaxNow BY BackfillNumbers DEF Instants
      <4> QED BY <3>1, <4>1, BackfillNumbers, SomeInstants DEF Instants
    <3>3. Wanted(j) \in job[k].got BY <1>3, <3>1, <3>2
    <3>4. Wanted(j) >= Wanted(j) BY BackfillNumbers
    <3> QED BY <3>3, <3>4
  <2> QED BY <2>1, <2>2
<1> QED BY <1>6, <1>7

\* A batch leaves no hole that is not old.
LEMMA HolesStore ==
  ASSUME Settled, Prompt, HolesAreOld, NEW k \in Backfills, Stages(k), Trail(k),
         job[k].pc = "storing", Stored' = Stored \cup job[k].got, now' = now
  PROVE  HolesAreOld'
<1>1. InTime(k)
  <2>1. now - job[k].at <= MaxWork BY DEF Prompt
  <2> QED BY <2>1, BackfillNumbers DEF InTime
<1>2. SUFFICES ASSUME NEW b \in Instants, Hole(b)', b > now - Cap PROVE FALSE
  <2>1. \A b \in Instants : b <= now - Cap \/ b > now - Cap BY BackfillNumbers
  <2> QED BY <2>1 DEF HolesAreOld
<1>3. PICK x \in Stored', y \in Stored' : x < b /\ b < y BY <1>2 DEF Hole
<1>4. b \notin Stored /\ b \notin job[k].got BY <1>2 DEF Hole
<1>5. b \in Int /\ x \in Int /\ y \in Int BY <1>2, <1>3, BackfillNumbers
<1>6. ~Hole(b)
  <2>1. ~(b <= now - Cap) BY <1>2, <1>5, BackfillNumbers
  <2> QED BY <1>2, <2>1 DEF HolesAreOld
<1>7. CASE Wanted(k) < b /\ b < job[k].at
  <2>1. b \in InReach(k) \ Stored BY <1>2, <1>4, <1>7 DEF InReach
  <2> QED BY <1>1, <1>4, <1>6, <2>1 DEF Stages, Enclosed
<1>8. CASE ~(b < job[k].at)
  <2>1. \E f \in Stored : b < f
    <3>1. CASE y \in Stored BY <1>3, <3>1
    <3>2. CASE y \in job[k].got
      <4>1. ~(y <= job[k].at) BY <1>3, <1>5, <1>8, BackfillNumbers
      <4>2. PICK f \in Stored : y <= f + 1 BY <3>2, <4>1 DEF Trail, Upper
      <4>3. f \in Int /\ f # b BY <1>4, <4>2, BackfillNumbers
      <4> QED BY <1>3, <1>5, <4>2, <4>3
    <3> QED BY <3>1, <3>2
  <2>2. PICK l \in Stored : l <= job[k].at BY <2>1 DEF Trail, Base
  <2>3. l \in Int /\ l # b BY <1>4, <2>2, BackfillNumbers
  <2>4. l < b BY <1>5, <1>8, <2>2, <2>3, BackfillNumbers
  <2> QED BY <1>2, <1>4, <1>6, <2>1, <2>4 DEF Hole
<1>9. CASE ~(Wanted(k) < b)
  <2>1. Older(b, k) BY <1>2, <1>5, <1>9, BackfillNumbers DEF Older
  <2>2. x \in Stored BY <1>2, <1>3, <1>4, <2>1 DEF Trail, Compact
  <2>3. ASSUME NEW f \in Stored PROVE f < b
    <3>1. ~(b < f) BY <1>2, <1>3, <1>4, <1>6, <2>2 DEF Hole
    <3>2. f # b /\ f \in Int BY <1>4, BackfillNumbers
    <3> QED BY <1>5, <3>1, <3>2
  <2> QED BY <1>2, <1>3, <1>4, <2>1, <2>2, <2>3 DEF Trail, Attached
<1> QED BY <1>7, <1>8, <1>9

\* Time passes, and another backfill may store what it has.
LEMMA TrailStable ==
  ASSUME Settled, NEW j \in Backfills, Trail(j),
         now' \in Int, now' >= now, job'[j] = job[j], Stored \subseteq Stored',
         \/ Stored' = Stored
         \/ /\ Stored # {}
         \/ job[j].pc = "idle"
         \/ /\ \E e \in Stored' : e <= job[j].at
            /\ \E e \in Stored' : e >= Wanted(j)
  PROVE  Trail(j)'
<1>1. Wanted(j)' = Wanted(j) BY DEF Wanted
<1>2. ASSUME NEW b \in Instants, Older(b, j)' PROVE Older(b, j)
  <2>1. b \in Int BY BackfillNumbers
  <2> QED BY <1>1, <1>2, <2>1, BackfillNumbers DEF Older
<1>3. Upper(j)' BY DEF Trail, Upper
<1>4. Lower(j)' BY <1>1 DEF Trail, Lower
<1>5. Compact(j)' BY <1>2 DEF Trail, Compact
<1>6. Since(j)' BY <1>1 DEF Trail, Since
<1>7. Base(j)' BY DEF Trail, Base
<1>8. Attached(j)'
  <2>1. SUFFICES ASSUME job[j].pc \in {"looking", "extending", "storing"},
                        NEW b \in Instants, Older(b, j),
                        NEW x \in Stored', x < b, \A y \in Stored' : y < b
                 PROVE  b \in job[j].got
    BY <1>2 DEF Attached
  <2>2. CASE \E z \in Stored : TRUE
    <3>1. \E z \in Stored : z < b BY <2>1, <2>2
    <3>2. \A y \in Stored : y < b BY <2>1
    <3> QED BY <2>1, <3>1, <3>2 DEF Trail, Attached
  <2>3. CASE Stored = {}
    <3>1. PICK e \in Stored' : e >= Wanted(j) BY <2>1, <2>3
    <3>2. e < b BY <2>1
    <3>3. Stored' \subseteq Int
      <4>1. Stored' \subseteq Instants BY DEF Stored
      <4> QED BY <4>1, BackfillNumbers
    <3>4. b <= Wanted(j) BY <2>1 DEF Older
    <3>5. b \in Int /\ e \in Int BY <3>3, BackfillNumbers
    <3> QED BY <3>1, <3>2, <3>4, <3>5, BackfillNumbers
  <2> QED BY <2>2, <2>3
<1> QED BY <1>3, <1>4, <1>5, <1>6, <1>7, <1>8 DEF Trail

LEMMA BeginTrail ==
  ASSUME Settled, NEW j \in Backfills, Begin(j)
  PROVE  Trail(j)'
<1>1. /\ Moved(j, "begun") /\ Fresh(j) /\ job'[j].at = now /\ UNCHANGED <<now, bars>>
  BY BeginEffect DEF Settled
<1>2. Stored' = Stored BY <1>1 DEF Stored
<1>3. \A x \in Stored : x <= now
  <2>1. \A x \in Stored : x < now /\ x \in Int
    BY BackfillNumbers DEF Settled, NothingForming
  <2> QED BY <2>1, BackfillNumbers
<1>4. Base(j)' BY <1>1, <1>2, <1>3 DEF Base
<1> QED BY <1>1, <1>4
    DEF Trail, Moved, Fresh, Upper, Lower, Compact, Since, Attached

LEMMA LastOpenTimeTrail ==
  ASSUME Settled, NEW j \in Backfills, Trail(j), LastOpenTime(j)
  PROVE  Trail(j)'
<1>1. /\ Moved(j, "fetching") /\ job'[j].at = job[j].at /\ job'[j].from = From(j)
      /\ job'[j].got = job[j].got /\ UNCHANGED <<now, bars>>
  BY LastOpenTimeEffect DEF Settled
<1>2. job[j].pc = "begun" BY DEF LastOpenTime
<1>3. Stored' = Stored BY <1>1 DEF Stored
<1>4. job[j].got = {} BY <1>2, ActorKinds DEF Settled, Sane
<1>5. Since(j)'
  <2>1. CASE Stored = {} BY <1>3, <2>1 DEF Since
  <2>2. CASE Stored # {}
    <3>1. Last \in Stored BY <2>2, Watermarks DEF Settled
    <3>2. Last \in Int BY <3>1, BackfillNumbers
    <3>3. From(j) = Last - 1 BY <2>2, Zenon DEF From, Overlap
    <3>4. From(j) + 1 = Last BY <3>2, <3>3
    <3> QED BY <1>1, <1>3, <3>1, <3>4 DEF Since
  <2> QED BY <2>1, <2>2
<1>6. Base(j)' BY <1>1, <1>2, <1>3 DEF Trail, Base
<1> QED BY <1>1, <1>4, <1>5, <1>6
    DEF Trail, Moved, Upper, Lower, Compact, Attached

LEMMA FetchTrail ==
  ASSUME Settled, NEW j \in Backfills, Stages(j), Trail(j), Fetch(j)
  PROVE  Trail(j)'
<1>1. Moved(j, "looking") /\ UNCHANGED <<now, bars>> /\ job[j].pc = "fetching"
  BY FetchEffect DEF Settled
<1>2. PICK served \in Instants : job[j].asked <= served /\ Extends(job[j], job'[j], served)
  BY FetchEffect DEF Settled
<1>3. job[j].got = {} BY <1>1, ActorKinds DEF Settled, Sane
<1>4. /\ job[j].to = job[j].at /\ job[j].at <= job[j].asked
      /\ job[j].from = Wanted(j) + 1 \/ job[j].from + 1 \in Stored
  BY <1>1 DEF Stages, Fetching
<1>5. Stored' = Stored /\ job'[j].at = job[j].at /\ Wanted(j)' = Wanted(j)
  BY <1>1, <1>2 DEF Stored, Extends, Wanted
<1>6. \A y \in job'[j].got : job[j].from <= y /\ y <= job[j].at /\ y \in Int
  <2>1. job'[j].got \subseteq Instants BY <1>2 DEF Extends, Jobs
  <2> QED BY <1>2, <1>3, <1>4, <2>1, BackfillNumbers DEF Extends
<1>7. ASSUME NEW b \in Instants, Older(b, j), job[j].from <= b PROVE b \in job'[j].got
  <2>1. b \in Int /\ b <= Wanted(j) /\ b > now - Cap BY <1>7, BackfillNumbers DEF Older
  <2>2. served \in Int BY BackfillNumbers
  <2>3. b < job[j].at BY <2>1, BackfillNumbers DEF Wanted
  <2>4. b <= job[j].to /\ b <= served /\ b < now
    BY <1>2, <1>4, <2>1, <2>2, <2>3, BackfillNumbers
  <2>5. job[j].to - b < Cap BY <1>4, <2>1, BackfillNumbers
  <2> QED BY <1>2, <1>7, <2>4, <2>5 DEF Extends
<1>8. \A b : Older(b, j)' <=> Older(b, j) BY <1>1, <1>5 DEF Older
<1>9. Upper(j)' BY <1>5, <1>6 DEF Upper
<1>10. Lower(j)'
  <2>1. Stored = {} => job[j].from = Wanted(j) + 1 BY <1>4
  <2> QED BY <1>5, <1>6, <2>1, BackfillNumbers DEF Lower
<1>11. Compact(j)'
  <2>1. ASSUME NEW x \in job'[j].got, NEW b \in Instants, x < b, Older(b, j)
        PROVE  b \in job'[j].got
    <3>1. job[j].from <= b
      <4>1. b \in Int /\ x \in Int /\ job[j].from <= x BY <1>6, BackfillNumbers
      <4> QED BY <2>1, <4>1, BackfillNumbers
    <3> QED BY <1>7, <2>1, <3>1
  <2> QED BY <1>8, <2>1 DEF Compact
<1>12. Attached(j)'
  <2>1. ASSUME NEW b \in Instants, Older(b, j), NEW x \in Stored, x < b,
               \A y \in Stored : y < b
        PROVE  b \in job'[j].got
    <3>1. b \in Int BY BackfillNumbers
    <3>2. ~(\E y \in Stored : y >= Wanted(j))
      <4>1. ASSUME NEW y \in Stored, y >= Wanted(j) PROVE FALSE
        <5>1. y \in Int /\ y < b /\ b <= Wanted(j)
          BY <2>1, <4>1, BackfillNumbers DEF Older
        <5> QED BY <3>1, <4>1, <5>1, BackfillNumbers
      <4> QED BY <4>1
    <3>3. job[j].from + 1 \in Stored BY <1>1, <2>1, <3>2 DEF Trail, Since
    <3>4. job[j].from + 1 < b BY <2>1, <3>3
    <3>5. job[j].from <= b BY <3>1, <3>4, BackfillNumbers
    <3> QED BY <1>7, <2>1, <3>5
  <2> QED BY <1>5, <1>8, <2>1 DEF Attached
<1>13. Base(j)' BY <1>1, <1>5 DEF Trail, Base
<1>14. Since(j)' BY <1>1 DEF Since, Moved
<1> QED BY <1>9, <1>10, <1>11, <1>12, <1>13, <1>14 DEF Trail

LEMMA FirstOpenTimeTrail ==
  ASSUME Settled, NEW j \in Backfills, Trail(j), FirstOpenTime(j)
  PROVE  Trail(j)'
<1>1. /\ UNCHANGED <<now, bars>> /\ job[j].pc = "looking"
      /\ job'[j].at = job[j].at /\ job'[j].got = job[j].got
      /\ job'[j].pc \in {"extending", "storing"}
  BY FirstOpenTimeEffect DEF Settled, Moved
<1>2. Stored' = Stored /\ Wanted(j)' = Wanted(j) BY <1>1 DEF Stored, Wanted
<1>3. \A b : Older(b, j)' <=> Older(b, j) BY <1>1, <1>2 DEF Older
<1> QED BY <1>1, <1>2, <1>3
    DEF Trail, Upper, Lower, Compact, Since, Attached, Base

LEMMA FetchOlderTrail ==
  ASSUME Settled, NEW j \in Backfills, Stages(j), Trail(j), FetchOlder(j)
  PROVE  Trail(j)'
<1>1. Moved(j, "storing") /\ UNCHANGED <<now, bars>> /\ job[j].pc = "extending"
  BY FetchOlderEffect, ActorKinds DEF Settled, FetchOlder
<1>2. PICK served \in Instants : Extends(job[j], job'[j], served)
  BY FetchOlderEffect, ActorKinds DEF Settled
<1>3. /\ job[j].from = Wanted(j) + 1 /\ job[j].to - 1 \in Stored
  BY <1>1 DEF Stages, Extending
<1>4. Stored' = Stored /\ job'[j].at = job[j].at /\ Wanted(j)' = Wanted(j)
  BY <1>1, <1>2 DEF Stored, Extends, Wanted
<1>5. job[j].got \subseteq job'[j].got BY <1>2 DEF Extends
<1>6. \A b : Older(b, j)' <=> Older(b, j) BY <1>1, <1>4 DEF Older
<1>7. ASSUME NEW y \in job'[j].got, y \notin job[j].got
      PROVE  y \in Int /\ y > Wanted(j) /\ y <= (job[j].to - 1) + 1
  <2>1. y \in Instants /\ job[j].from <= y /\ y <= job[j].to
    BY <1>2, <1>7 DEF Extends, Jobs
  <2> QED BY <1>3, <2>1, BackfillNumbers
<1>8. Upper(j)' BY <1>3, <1>4, <1>7 DEF Trail, Upper
<1>9. Lower(j)' BY <1>3, <1>4 DEF Lower
<1>10. Compact(j)'
  <2>1. ASSUME NEW x \in job'[j].got, NEW b \in Instants, x < b, Older(b, j)
        PROVE  b \in job'[j].got
    <3>1. x \in job[j].got
      <4>1. SUFFICES ASSUME x \notin job[j].got PROVE FALSE OBVIOUS
      <4>2. x \in Int /\ x > Wanted(j) /\ b \in Int /\ b <= Wanted(j)
        BY <1>7, <2>1, <4>1, BackfillNumbers DEF Older
      <4> QED BY <2>1, <4>2, BackfillNumbers
    <3> QED BY <1>5, <2>1, <3>1 DEF Trail, Compact
  <2> QED BY <1>6, <2>1 DEF Compact
<1>11. Attached(j)' BY <1>1, <1>4, <1>5, <1>6 DEF Trail, Attached
<1>12. Base(j)' BY <1>1, <1>4 DEF Trail, Base
<1>13. Since(j)' BY <1>1 DEF Since, Moved
<1> QED BY <1>8, <1>9, <1>10, <1>11, <1>12, <1>13 DEF Trail

LEMMA StoreTrail ==
  ASSUME Settled, Prompt, NEW j \in Backfills, Stages(j), Trail(j),
         job[j].pc = "storing", job[j].got # {},
         Upsert(j), Goto(j, "stored"), now' = now
  PROVE  Trail(j)'
<1>1. Stored' = Stored \cup job[j].got
  BY UpsertEffect, ActorKinds DEF Settled, Sane
<1>2. Moved(j, "stored") /\ SameJob(j) BY GotoEffect, ActorKinds DEF Settled
<1>3. Wanted(j)' = Wanted(j) /\ \A b : Older(b, j)' <=> Older(b, j)
  BY <1>2 DEF SameJob, Wanted, Older
<1>4. Stored' # {} BY <1>1
<1>5. Base(j)'
  <2>1. CASE Stored = {}
    <3>1. \E e \in job[j].got : e <= job[j].at BY <2>1, FirstStore DEF Trail
    <3> QED BY <1>1, <1>2, <3>1 DEF Base, SameJob
  <2>2. CASE Stored # {}
    <3>1. \E x \in Stored : x <= job[j].at BY <2>2 DEF Trail, Base
    <3> QED BY <1>1, <1>2, <3>1 DEF Base, SameJob
  <2> QED BY <2>1, <2>2
<1>6. Upper(j)' BY <1>1, <1>2 DEF Trail, Upper, SameJob
<1>7. Lower(j)' BY <1>4 DEF Lower
<1>8. Compact(j)' BY <1>2, <1>3 DEF Trail, Compact, SameJob
<1>9. Since(j)' /\ Attached(j)' BY <1>2 DEF Since, Attached, Moved
<1> QED BY <1>5, <1>6, <1>7, <1>8, <1>9 DEF Trail

LEMMA EndedTrail ==
  ASSUME Settled, NEW j \in Backfills, job' = [job EXCEPT ![j] = Ended(j)]
  PROVE  Trail(j)'
<1>1. job'[j].got = {} /\ job'[j].pc = "idle"
  BY EndedEffect, ActorKinds DEF Settled, Ends, Fresh
<1> QED BY <1>1 DEF Trail, Upper, Lower, Compact, Since, Attached, Base

\* Past its turn, a series is as before for the backfill that stored or skipped it.
LEMMA PastTrail ==
  ASSUME Settled, NEW j \in Backfills, Trail(j), UNCHANGED <<now, bars>>,
         job[j].pc # "idle", job'[j].at = job[j].at,
         job'[j].got = {} \/ job'[j].got = job[j].got,
         job'[j].pc \in {"skipped", "synced", "elsewhere"}
  PROVE  Trail(j)'
<1>1. Stored' = Stored /\ Wanted(j)' = Wanted(j) BY DEF Stored, Wanted
<1>2. \A b : Older(b, j)' <=> Older(b, j) BY <1>1 DEF Older
<1> QED BY <1>1, <1>2 DEF Trail, Upper, Lower, Compact, Since, Attached, Base

\* An import that has started is never again one that has not.
LEMMA ImportsStayStarted ==
  ASSUME Settled, NEW j \in Actors, Own(j), NoImportYet'
  PROVE  NoImportYet /\ j \in Backfills
<1>1. Others(j) /\ TypeOK BY OwnEffect DEF Settled
<1>2. ASSUME j \in Imports PROVE FALSE
  <2>1. job'[j].pc = "idle" BY <1>2 DEF NoImportYet
  <2>2. j \notin Backfills BY <1>2, ActorsDiffer
  <2>3. CASE FetchPeriod(j) BY <1>1, <2>1, <2>3, FetchOlderEffect DEF Moved
  <2>4. CASE StorePeriod(j) BY <1>1, <2>1, <2>4, GotoEffect DEF Moved, StorePeriod
  <2>5. CASE \E from, to \in Instants : Import(j, from, to)
    <3>1. PICK from \in Instants, to \in Instants : Import(j, from, to) BY <2>5
    <3> QED BY <1>1, <1>2, <2>1, <3>1, ImportEffect DEF Moved
  <2>6. CASE Finish(j) \/ Abort(j)
    <3>1. job' = [job EXCEPT ![j] = Ended(j)] BY <2>6 DEF Finish, Abort
    <3> QED BY <1>1, <2>1, <2>2, <3>1, EndedEffect DEF Ends
  <2> QED BY <2>2, <2>3, <2>4, <2>5, <2>6 DEF Own
<1>3. j \in Backfills BY <1>2 DEF Actors
<1>4. ASSUME NEW i \in Imports PROVE job[i].pc = "idle"
  BY <1>1, <1>2, ActorKinds DEF Others, NoImportYet
<1> QED BY <1>3, <1>4 DEF NoImportYet

\* What a step of a backfill stores: nothing, or all it has received.
LEMMA StoresOrNot ==
  ASSUME Settled, NEW j \in Backfills, Own(j)
  PROVE  \/ Stored' = Stored
         \/ /\ job[j].pc = "storing" /\ job[j].got # {}
            /\ Upsert(j) /\ Goto(j, "stored") /\ now' = now
            /\ Stored' = Stored \cup job[j].got
<1>1. j \in Actors /\ j \notin Imports BY ActorKinds, ActorsDiffer
<1>2. bars' = bars => Stored' = Stored BY DEF Stored
<1>3. CASE Store(j) /\ job[j].got # {}
  <2>1. Upsert(j) /\ Goto(j, "stored") /\ now' = now /\ job[j].pc = "storing"
    BY <1>3 DEF Store
  <2>2. Stored' = Stored \cup job[j].got
    BY <1>1, <2>1, UpsertEffect DEF Settled, Sane
  <2> QED BY <1>3, <2>1, <2>2
<1>4. CASE Store(j) /\ job[j].got = {} BY <1>2, <1>4 DEF Store
<1>5. CASE ~Store(j)
  BY <1>1, <1>2, <1>5
  DEF Own, Begin, LastOpenTime, Fetch, FirstOpenTime, FetchOlder, Skip, Report,
      Finish, Abort
<1> QED BY <1>3, <1>4, <1>5

LEMMA OwnTrail ==
  ASSUME Settled, Prompt, NEW j \in Backfills, Stages(j), Trail(j), Own(j)
  PROVE  Trail(j)'
<1>1. j \notin Imports BY ActorsDiffer
<1>2. CASE Begin(j) BY <1>2, BeginTrail
<1>3. CASE LastOpenTime(j) BY <1>3, LastOpenTimeTrail
<1>4. CASE Fetch(j) BY <1>4, FetchTrail
<1>5. CASE FirstOpenTime(j) BY <1>5, FirstOpenTimeTrail
<1>6. CASE FetchOlder(j) BY <1>6, FetchOlderTrail
<1>7. CASE Store(j)
  <2>1. CASE job[j].got = {}
    <3>1. Goto(j, "skipped") /\ UNCHANGED <<now, bars>> /\ job[j].pc = "storing"
      BY <1>7, <2>1 DEF Store
    <3>2. Moved(j, "skipped") /\ SameJob(j)
      BY <3>1, GotoEffect, ActorKinds DEF Settled
    <3> QED BY <3>1, <3>2, PastTrail DEF Moved, SameJob
  <2>2. CASE job[j].got # {} BY <1>7, <2>2, StoreTrail DEF Store
  <2> QED BY <2>1, <2>2
<1>8. CASE Finish(j) \/ Abort(j) BY <1>8, EndedTrail DEF Finish, Abort
<1>9. CASE Skip(j)
  BY <1>9, SkipEffect, PastTrail DEF Settled, Moved, Fresh
<1>10. CASE Report(j)
  BY <1>10, ReportEffect, PastTrail DEF Settled, Moved, SameJob
<1> QED BY <1>1, <1>2, <1>3, <1>4, <1>5, <1>6, <1>7, <1>8, <1>9, <1>10 DEF Own

LEMMA HolesStable ==
  ASSUME Settled, HolesAreOld, now' \in Int, now' >= now, Stored' = Stored
  PROVE  HolesAreOld'
<1>1. SUFFICES ASSUME NEW b \in Instants, Hole(b) PROVE b <= now' - Cap
  BY DEF HolesAreOld, Hole
<1>2. b <= now - Cap BY <1>1 DEF HolesAreOld
<1>3. b \in Int /\ now \in Int /\ Cap \in Int BY Numbers, WindowFits DEF Settled
<1>4. now' \in Int /\ now <= now' OBVIOUS
<1>5. ASSUME NEW m \in Int, now <= m PROVE b <= m - Cap BY <1>2, <1>3, <1>5
<1> QED BY <1>4, <1>5

LEMMA GapInit == Init => GapInv
<1>1. SUFFICES ASSUME Init PROVE GapInv OBVIOUS
<1>2. EndsInv BY <1>1, EndsInit
<1>3. \A j \in Backfills : job[j].pc = "idle" /\ job[j].got = {}
  BY <1>1, ActorKinds, RestingType DEF Init
<1>4. Prompt BY <1>3 DEF Prompt
<1>5. ASSUME NEW j \in Backfills PROVE Trail(j)
  BY <1>3 DEF Trail, Upper, Lower, Compact, Since, Attached, Base
<1>6. HolesAreOld
  <2>1. PICK a \in Instants, z \in -1..now - 1 :
          bars = [b \in Instants |-> IF b \in a..z THEN "whole" ELSE "missing"]
    BY <1>1 DEF Init
  <2>2. SUFFICES ASSUME NEW b \in Instants, Hole(b) PROVE FALSE BY DEF HolesAreOld
  <2>3. PICK x \in Stored, y \in Stored : x < b /\ b < y BY <2>2 DEF Hole
  <2>4. x \in a..z /\ y \in a..z BY <2>1, <2>3 DEF Stored
  <2>5. a \in Int /\ b \in Int /\ z \in Int
    <3>1. Instants \subseteq Int /\ now \in Int BY <1>2, Numbers DEF EndsInv, Settled
    <3> QED BY <3>1, <2>1
  <2>6. b \in a..z BY <2>3, <2>4, <2>5
  <2>7. b \in Stored BY <2>1, <2>2, <2>6 DEF Stored
  <2> QED BY <2>2, <2>7 DEF Hole
<1> QED BY <1>2, <1>4, <1>5, <1>6 DEF GapInv

LEMMA GapStep == GapInv /\ [Next /\ Prompt']_vars => GapInv'
<1>1. SUFFICES ASSUME GapInv, [Next /\ Prompt']_vars PROVE GapInv' OBVIOUS
<1>2. EndsInv /\ EndsInv' /\ Prompt BY <1>1, EndsStep DEF GapInv
<1>3. Settled /\ now \in Int BY <1>2, Numbers DEF EndsInv, Settled
<1>4. Prompt'
  <2>1. CASE UNCHANGED vars BY <1>2, <2>1 DEF vars, Prompt
  <2> QED BY <1>1, <2>1
<1>5. ASSUME NoImportYet, now' \in Int, now' >= now, Stored' = Stored, job' = job
      PROVE  HolesAreOld' /\ \A j \in Backfills : Trail(j)'
  <2>1. HolesAreOld' BY <1>1, <1>3, <1>5, HolesStable DEF GapInv
  <2>2. ASSUME NEW i \in Backfills PROVE Trail(i)'
    BY <1>1, <1>3, <1>5, TrailStable DEF GapInv
  <2> QED BY <2>1, <2>2
<1>6. CASE Tick
  <2>1. now' = now + 1 /\ Stored' = Stored /\ job' = job BY <1>6 DEF Tick, Stored
  <2>2. NoImportYet' => NoImportYet BY <2>1 DEF NoImportYet
  <2> QED BY <1>2, <1>3, <1>4, <1>5, <2>1, <2>2 DEF GapInv
<1>7. CASE UNCHANGED vars
  <2>1. now' = now /\ Stored' = Stored /\ job' = job BY <1>7 DEF vars, Stored
  <2>2. NoImportYet' => NoImportYet BY <2>1 DEF NoImportYet
  <2> QED BY <1>2, <1>3, <1>4, <1>5, <2>1, <2>2 DEF GapInv
<1>8. ASSUME NEW j \in Actors, Own(j), NoImportYet'
      PROVE  HolesAreOld' /\ \A i \in Backfills : Trail(i)'
  <2>1. NoImportYet /\ j \in Backfills BY <1>3, <1>8, ImportsStayStarted
  <2>2. HolesAreOld /\ \A i \in Backfills : Trail(i) /\ Stages(i)
    BY <1>1, <2>1 DEF GapInv, EndsInv
  <2>3. Others(j) /\ now' = now /\ Stored \subseteq Stored' BY <1>3, <1>8, OwnEffect
  <2>4. \/ Stored' = Stored
        \/ /\ job[j].pc = "storing" /\ job[j].got # {}
           /\ Stored' = Stored \cup job[j].got
    BY <1>3, <1>8, <2>1, StoresOrNot
  <2>5. HolesAreOld'
    <3>1. CASE Stored' = Stored BY <1>3, <2>2, <2>3, <3>1, HolesStable
    <3>2. CASE job[j].pc = "storing" /\ Stored' = Stored \cup job[j].got
      BY <1>2, <1>3, <2>1, <2>2, <2>3, <3>2, HolesStore
    <3> QED BY <2>4, <3>1, <3>2
  <2>6. ASSUME NEW i \in Backfills PROVE Trail(i)'
    <3>1. CASE i = j BY <1>2, <1>3, <1>8, <2>2, <3>1, OwnTrail
    <3>2. CASE i # j
      <4>1. job'[i] = job[i] BY <2>3, <3>2, ActorKinds DEF Others
      <4>2. \/ Stored' = Stored
            \/ Stored # {}
            \/ job[i].pc = "idle"
            \/ /\ \E e \in Stored' : e <= job[i].at
               /\ \E e \in Stored' : e >= Wanted(i)
        <5>1. ASSUME Stored = {}, job[i].pc # "idle", job[j].pc = "storing",
                     job[j].got # {}, Stored' = Stored \cup job[j].got
              PROVE  /\ \E e \in Stored' : e <= job[i].at
                     /\ \E e \in Stored' : e >= Wanted(i)
          <6>1. Stages(j) /\ Upper(j) /\ Lower(j) BY <2>1, <2>2 DEF Trail
          <6>2. /\ \E e \in job[j].got : e <= job[i].at
                /\ \E e \in job[j].got : e >= Wanted(i)
            BY <1>2, <1>3, <2>1, <5>1, <6>1, FirstStore
          <6> QED BY <5>1, <6>2
        <5> QED BY <2>4, <5>1
      <4> QED BY <1>3, <2>2, <2>3, <4>1, <4>2, TrailStable
    <3> QED BY <3>1, <3>2
  <2> QED BY <2>5, <2>6
<1>9. ASSUME NEW j \in Actors, Own(j) PROVE GapInv'
  BY <1>2, <1>4, <1>8, <1>9 DEF GapInv
<1> QED BY <1>1, <1>6, <1>7, <1>9, NextCases

\* However many prompt backfills overlap, and however long the system is down
\* between them: one that stored the series and reports success leaves no gap in
\* its window as long as nobody imports a period, and one that skipped it and
\* reports success all the same lacks nothing that the watermarks of the next one
\* do not see (Service.BackfillCandles, Service.bybitBackfill).
THEOREM BackfillsLeaveNoGapHolds == PromptSpec => []BackfillsLeaveNoGap
<1>1. GapInv => BackfillsLeaveNoGap
  <2>1. SUFFICES ASSUME GapInv, NoImportYet, NEW j \in Backfills, Reported(j),
                        NEW b \in Instants \ Stored, b > Wanted(j), b < job[j].at
                 PROVE  /\ job[j].pc = "elsewhere"
                        /\ ~ \E x, y \in Stored : x < b /\ b < y
    BY DEF BackfillsLeaveNoGap
  <2>2. Settled /\ Stages(j) /\ HolesAreOld /\ Prompt BY <2>1 DEF GapInv, EndsInv
  <2>3. now - job[j].at <= MaxWork BY <2>1, <2>2 DEF Prompt, Reported
  <2>4. b \in Int /\ Wanted(j) < b BY <2>1, <2>2, BackfillNumbers
  <2>5. ~Hole(b)
    <3>1. ~(b <= now - Cap) BY <2>2, <2>3, <2>4, BackfillNumbers DEF Wanted
    <3> QED BY <2>1, <2>2, <3>1 DEF HolesAreOld
  <2>6. InTime(j) BY <2>2, <2>3, BackfillNumbers DEF InTime
  <2>7. job[j].pc # "synced"
    BY <2>1, <2>2, <2>4, <2>5, <2>6 DEF Stages, Reached, InReach
  <2>8. ~ \E x, y \in Stored : x < b /\ b < y BY <2>1, <2>5 DEF Hole
  <2> QED BY <2>1, <2>7, <2>8 DEF Reported
<1> QED BY <1>1, GapInit, GapStep, PTL DEF PromptSpec

-----------------------------------------------------------------------------
(***************************************************************************)
(* The import job.                                                         *)
(***************************************************************************)

\* What finishImport may announce, given the counters.
Deserved(p, w, status) ==
  /\ status \in {"completed", "failed", "canceled"}
  /\ status = "completed" => p.items = p.total /\ p.errors < p.total
  /\ status = "failed" => p.items = p.total /\ p.errors = p.total
  /\ status = "canceled" => w.canceled

\* The goroutine's own counters against the published ones.  It is one unit
\* ahead between a download and updateImport.
Counted(p, w) ==
  /\ w.failures <= w.units /\ w.units <= p.total
  /\ w.at = "none" => w.units = 0
  /\ w.at = "downloading" => w.units < p.total
  /\ w.at = "recording" =>
       w.units = p.items + 1 /\ w.failures = p.errors + (IF w.lastFailed THEN 1 ELSE 0)
  /\ w.at # "recording" => w.units = p.items /\ w.failures = p.errors
  /\ w.at = "deciding" => w.units = p.total

Announced(p, w) ==
  /\ w.at # "ended" => p.status = "running"
  /\ w.at = "ended" => p.status = w.verdict
  /\ w.at \in {"finishing", "ended"} => Deserved(p, w, w.verdict)

\* The inductive invariant.
JobOK(j) == Counted(progress[j], worker[j]) /\ Announced(progress[j], worker[j])
Books == ImportTypeOK /\ OneWorker /\ \A j \in JobIds : JobOK(j)

\* Everything about one job except whether it is the current one.
Sound(p, w) == p \in Progress /\ w \in Workers /\ Counted(p, w) /\ Announced(p, w)

LEMMA BooksInit == ImportInit => Books
<1> SUFFICES ASSUME ImportInit PROVE Books
  OBVIOUS
<1>1. ImportTypeOK
  BY UnitsPositive DEF ImportInit, ImportTypeOK, Progress, Workers, Statuses
<1>2. OneWorker
  BY DEF ImportInit, OneWorker, Alive
<1>3. \A j \in JobIds : JobOK(j)
  BY DEF ImportInit, JobOK, Counted, Announced
<1> QED
  BY <1>1, <1>2, <1>3 DEF Books

-----------------------------------------------------------------------------
(***************************************************************************)
(* One lemma per step of the goroutine: from a sound job to a sound job.   *)
(***************************************************************************)
LEMMA LoopSound ==
  ASSUME NEW p, NEW w, Sound(p, w), w.at = "loop",
         NEW at \in {"finishing", "downloading", "deciding"}, NEW v,
         at = "finishing" => w.canceled /\ v = "canceled",
         at # "finishing" => v = w.verdict,
         at = "downloading" => w.units < p.total,
         at = "deciding" => ~(w.units < p.total)
  PROVE  Sound(p, [w EXCEPT !.at = at, !.verdict = v])
<1> DEFINE x == [w EXCEPT !.at = at, !.verdict = v]
<1>1. x \in Workers /\ x.at = at /\ x.verdict = v /\ x.units = w.units
      /\ x.failures = w.failures /\ x.lastFailed = w.lastFailed /\ x.canceled = w.canceled
  BY DEF Sound, Workers, Statuses
<1>2. Counted(p, x)
  BY <1>1, UnitsPositive DEF Sound, Counted, Workers, Progress
<1>3. Announced(p, x)
  BY <1>1 DEF Sound, Announced, Deserved
<1> QED
  BY <1>1, <1>2, <1>3 DEF Sound

LEMMA DownloadSound ==
  ASSUME NEW p, NEW w, Sound(p, w), w.at = "downloading", NEW fails \in BOOLEAN
  PROVE  Sound(p, [w EXCEPT !.at = "recording", !.units = w.units + 1,
                            !.failures = IF fails THEN w.failures + 1 ELSE w.failures,
                            !.lastFailed = fails])
<1> DEFINE x == [w EXCEPT !.at = "recording", !.units = w.units + 1,
                          !.failures = IF fails THEN w.failures + 1 ELSE w.failures,
                          !.lastFailed = fails]
<1>1. /\ x.at = "recording" /\ x.units = w.units + 1 /\ x.lastFailed = fails
      /\ x.failures = IF fails THEN w.failures + 1 ELSE w.failures
      /\ x.verdict = w.verdict /\ x.canceled = w.canceled
  BY DEF Sound, Workers
<1>2. w.units < p.total /\ w.failures <= w.units /\ w.units \in 0..MaxUnits
      /\ w.failures \in 0..MaxUnits /\ p.total \in 0..MaxUnits
      /\ p.items = w.units /\ p.errors = w.failures
  BY DEF Sound, Counted, Workers, Progress
<1>3. w.units + 1 \in 0..MaxUnits /\ x.failures \in 0..MaxUnits /\ x.failures <= w.units + 1
  BY <1>1, <1>2, UnitsPositive
<1>4. x \in Workers
  BY <1>1, <1>3 DEF Sound, Workers
<1>5. Counted(p, x)
  BY <1>1, <1>2, <1>3, UnitsPositive DEF Counted
<1>6. Announced(p, x)
  BY <1>1 DEF Sound, Announced
<1> QED
  BY <1>4, <1>5, <1>6 DEF Sound

LEMMA RecordSound ==
  ASSUME NEW p, NEW w, Sound(p, w), w.at = "recording"
  PROVE  Sound([p EXCEPT !.items = p.items + 1,
                         !.errors = IF w.lastFailed THEN p.errors + 1 ELSE p.errors],
               [w EXCEPT !.at = "loop"])
<1> DEFINE q == [p EXCEPT !.items = p.items + 1,
                          !.errors = IF w.lastFailed THEN p.errors + 1 ELSE p.errors]
           x == [w EXCEPT !.at = "loop"]
<1>1. /\ x \in Workers /\ x.at = "loop" /\ x.units = w.units /\ x.failures = w.failures
      /\ q.total = p.total /\ q.status = p.status /\ q.items = p.items + 1
      /\ q.errors = IF w.lastFailed THEN p.errors + 1 ELSE p.errors
  BY DEF Sound, Workers, Progress
<1>2. /\ w.units = p.items + 1 /\ w.failures = p.errors + (IF w.lastFailed THEN 1 ELSE 0)
      /\ w.failures <= w.units /\ w.units <= p.total
      /\ w.units \in 0..MaxUnits /\ w.failures \in 0..MaxUnits
      /\ p.items \in 0..MaxUnits /\ p.errors \in 0..MaxUnits
  BY DEF Sound, Counted, Workers, Progress
<1>3. q.items = w.units /\ q.errors = w.failures
  BY <1>1, <1>2, UnitsPositive
<1>4. q \in Progress
  BY <1>1, <1>2, <1>3 DEF Sound, Progress
<1>5. Counted(q, x)
  BY <1>1, <1>2, <1>3 DEF Counted
<1>6. Announced(q, x)
  BY <1>1 DEF Sound, Announced
<1> QED
  BY <1>1, <1>4, <1>5, <1>6 DEF Sound

LEMMA DecideSound ==
  ASSUME NEW p, NEW w, Sound(p, w), w.at = "deciding",
         NEW v, v = IF w.failures = p.total THEN "failed" ELSE "completed"
  PROVE  Sound(p, [w EXCEPT !.at = "finishing", !.verdict = v])
<1> DEFINE x == [w EXCEPT !.at = "finishing", !.verdict = v]
<1>1. x \in Workers /\ x.at = "finishing" /\ x.verdict = v /\ x.units = w.units
      /\ x.failures = w.failures /\ x.canceled = w.canceled
  BY DEF Sound, Workers, Statuses
<1>2. /\ w.units = p.total /\ p.items = w.units /\ p.errors = w.failures
      /\ w.failures <= w.units /\ w.units \in 0..MaxUnits /\ w.failures \in 0..MaxUnits
  BY DEF Sound, Counted, Workers
<1>3. Counted(p, x)
  BY <1>1, <1>2, UnitsPositive DEF Counted
<1>4. Deserved(p, x, v)
  BY <1>1, <1>2, UnitsPositive DEF Deserved
<1>5. Announced(p, x)
  BY <1>1, <1>4 DEF Sound, Announced
<1> QED
  BY <1>1, <1>3, <1>5 DEF Sound

LEMMA FinishSound ==
  ASSUME NEW p, NEW w, Sound(p, w), w.at = "finishing"
  PROVE  Sound([p EXCEPT !.status = w.verdict], [w EXCEPT !.at = "ended"])
<1> DEFINE q == [p EXCEPT !.status = w.verdict]
           x == [w EXCEPT !.at = "ended"]
<1>1. /\ x \in Workers /\ x.at = "ended" /\ x.units = w.units /\ x.failures = w.failures
      /\ x.verdict = w.verdict /\ x.canceled = w.canceled
      /\ q \in Progress /\ q.total = p.total /\ q.items = p.items /\ q.errors = p.errors
      /\ q.status = w.verdict
  BY DEF Sound, Workers, Progress
<1>2. Counted(q, x)
  BY <1>1 DEF Sound, Counted
<1>3. Deserved(p, w, w.verdict)
  BY DEF Sound, Announced
<1>4. Announced(q, x)
  BY <1>1, <1>3 DEF Announced, Deserved
<1> QED
  BY <1>1, <1>2, <1>4 DEF Sound

LEMMA StartSound ==
  ASSUME NEW p, NEW w, Sound(p, w), w.at = "none", NEW units \in 1..MaxUnits
  PROVE  Sound([p EXCEPT !.total = units], [w EXCEPT !.at = "loop"])
<1> DEFINE q == [p EXCEPT !.total = units]
           x == [w EXCEPT !.at = "loop"]
<1>1. /\ x \in Workers /\ x.at = "loop" /\ x.units = w.units /\ x.failures = w.failures
      /\ q.total = units /\ q.items = p.items /\ q.errors = p.errors /\ q.status = p.status
      /\ q \in Progress
  BY UnitsPositive DEF Sound, Workers, Progress
<1>2. w.units = 0 /\ w.failures <= 0 /\ p.items = 0 /\ w.failures = p.errors
  BY DEF Sound, Counted
<1>3. Counted(q, x)
  BY <1>1, <1>2, UnitsPositive DEF Counted
<1>4. Announced(q, x)
  BY <1>1 DEF Sound, Announced
<1> QED
  BY <1>1, <1>3, <1>4 DEF Sound

LEMMA CancelSound ==
  ASSUME NEW p, NEW w, Sound(p, w)
  PROVE  Sound(p, [w EXCEPT !.canceled = TRUE])
<1> DEFINE x == [w EXCEPT !.canceled = TRUE]
<1>1. /\ x \in Workers /\ x.at = w.at /\ x.units = w.units /\ x.failures = w.failures
      /\ x.lastFailed = w.lastFailed /\ x.verdict = w.verdict /\ x.canceled = TRUE
  BY DEF Sound, Workers
<1>2. Counted(p, x) /\ Announced(p, x)
  BY <1>1 DEF Sound, Counted, Announced, Deserved
<1> QED
  BY <1>1, <1>2 DEF Sound

-----------------------------------------------------------------------------
(***************************************************************************)
(* A step of the goroutine of job j: j is the current job, only its        *)
(* records change, and they stay sound.                                    *)
(***************************************************************************)
Moves(j) ==
  /\ importJob = j /\ importJob' = j
  /\ progress' = [progress EXCEPT ![j] = progress'[j]]
  /\ worker' = [worker EXCEPT ![j] = worker'[j]]
  /\ Sound(progress'[j], worker'[j])

LEMMA AllSound == Books => \A j \in JobIds : Sound(progress[j], worker[j])
  BY DEF Books, ImportTypeOK, JobOK, Sound

LEMMA StepMoves ==
  ASSUME Books, NEW j \in JobIds, Step(j)
  PROVE  Moves(j)
<1>0. /\ Sound(progress[j], worker[j])
      /\ progress \in [JobIds -> Progress] /\ worker \in [JobIds -> Workers]
      /\ progress[j].total \in Nat
  BY AllSound, UnitsPositive DEF Books, ImportTypeOK, Progress
<1>1. importJob = j
  <2>1. worker[j].at \notin {"none", "ended"}
    BY DEF Step, Loop, Download, Record, Decide, FinishImport
  <2> QED
    BY <2>1 DEF Books, OneWorker, Alive
<1>2. CASE Loop(j)
  <2> DEFINE w == worker[j]
             p == progress[j]
  <2>0. Sound(p, w) /\ w \in Workers /\ w.at = "loop" /\ UNCHANGED <<importJob, progress>>
    BY <1>0, <1>2 DEF Loop
  <2>1. ASSUME w.canceled,
               worker' = [worker EXCEPT ![j] = [w EXCEPT !.at = "finishing", !.verdict = "canceled"]]
        PROVE  Moves(j)
    <3>1. Sound(p, [w EXCEPT !.at = "finishing", !.verdict = "canceled"])
      BY <2>0, <2>1, LoopSound
    <3> QED
      BY <1>0, <1>1, <2>0, <2>1, <3>1 DEF Moves
  <2>2. ASSUME NEW at \in {"downloading", "deciding"},
               worker' = [worker EXCEPT ![j] = [w EXCEPT !.at = at]],
               at = "downloading" <=> w.units < p.total
        PROVE  Moves(j)
    <3>1. [w EXCEPT !.at = at] = [w EXCEPT !.at = at, !.verdict = w.verdict]
      BY <2>0 DEF Workers
    <3>2. Sound(p, [w EXCEPT !.at = at, !.verdict = w.verdict])
      BY <2>0, <2>2, LoopSound
    <3> QED
      BY <1>0, <1>1, <2>0, <2>2, <3>1, <3>2 DEF Moves
  <2> QED
    BY <1>0, <1>2, <2>1, <2>2 DEF Loop, Announce, MoveTo, More
<1>3. ASSUME NEW fails \in BOOLEAN, Download(j, fails) PROVE Moves(j)
  BY <1>0, <1>1, <1>3, DownloadSound DEF Download, Moves
<1>4. CASE Record(j)
  BY <1>0, <1>1, <1>4, RecordSound DEF Record, MoveTo, Moves
<1>5. CASE Decide(j)
  BY <1>0, <1>1, <1>5, DecideSound DEF Decide, Announce, AllFailed, Moves
<1>6. CASE FinishImport(j)
  BY <1>0, <1>1, <1>6, FinishSound DEF FinishImport, MoveTo, Moves
<1> QED
  BY <1>2, <1>3, <1>4, <1>5, <1>6 DEF Step

LEMMA MovesKeepBooks ==
  ASSUME Books, NEW j \in JobIds, Moves(j)
  PROVE  Books'
<1>1. \A k \in JobIds : Sound(progress'[k], worker'[k])
  <2> SUFFICES ASSUME NEW k \in JobIds PROVE Sound(progress'[k], worker'[k])
    OBVIOUS
  <2>1. CASE k = j
    BY <2>1 DEF Moves
  <2>2. CASE k # j
    BY <2>2, AllSound DEF Moves, Books, ImportTypeOK
  <2> QED
    BY <2>1, <2>2
<1>2. ImportTypeOK'
  BY <1>1 DEF Books, ImportTypeOK, Moves, Sound
<1>3. OneWorker'
  BY DEF Books, ImportTypeOK, OneWorker, Alive, Moves
<1> QED
  BY <1>1, <1>2, <1>3 DEF Books, JobOK, Sound

LEMMA BooksStep == Books /\ [ImportNext]_importVars => Books'
<1> SUFFICES ASSUME Books, [ImportNext]_importVars PROVE Books'
  OBVIOUS
<1>0. /\ \A j \in JobIds : Sound(progress[j], worker[j])
      /\ progress \in [JobIds -> Progress] /\ worker \in [JobIds -> Workers]
      /\ importJob \in JobIds \cup {NoJob}
  BY AllSound DEF Books, ImportTypeOK
<1>1. ASSUME NEW j \in JobIds, NEW units \in 1..MaxUnits, StartImport(j, units) PROVE Books'
  <2>1. \A k \in JobIds : ~Alive(k)
    BY <1>0, <1>1, NoJobIsNoJob DEF Books, OneWorker, Alive, Sound, Announced, StartImport, Running
  <2>2. Sound(progress'[j], worker'[j])
    BY <1>0, <1>1, StartSound DEF StartImport
  <2>3. \A k \in JobIds : Sound(progress'[k], worker'[k])
    BY <1>0, <1>1, <2>2 DEF StartImport
  <2>4. ImportTypeOK'
    BY <1>0, <1>1, <2>3 DEF ImportTypeOK, StartImport, Sound
  <2>5. OneWorker'
    BY <1>0, <1>1, <2>1 DEF OneWorker, Alive, StartImport
  <2> QED
    BY <2>3, <2>4, <2>5 DEF Books, JobOK, Sound
<1>2. CASE CancelImport
  <2>1. importJob \in JobIds
    BY <1>0, <1>2 DEF CancelImport, Running
  <2>2. /\ progress' = progress /\ importJob' = importJob
        /\ worker' = [worker EXCEPT ![importJob].canceled = TRUE]
    BY <1>0, <1>2 DEF CancelImport, CancelEffect
  <2>3. \A k \in JobIds : Sound(progress'[k], worker'[k])
    BY <1>0, <2>1, <2>2, CancelSound
  <2>4. ImportTypeOK'
    BY <1>0, <2>2, <2>3 DEF ImportTypeOK, Sound
  <2>5. \A k \in JobIds : worker'[k].at = worker[k].at
    BY <1>0, <2>1, <2>2 DEF Workers
  <2>6. OneWorker'
    BY <2>2, <2>5 DEF Books, OneWorker, Alive
  <2> QED
    BY <2>3, <2>4, <2>6 DEF Books, JobOK, Sound
<1>3. ASSUME NEW j \in JobIds, Step(j) PROVE Books'
  BY <1>3, StepMoves, MovesKeepBooks
<1>4. CASE UNCHANGED importVars
  BY <1>4 DEF importVars, Books, ImportTypeOK, OneWorker, Alive, JobOK
<1> QED
  BY <1>1, <1>2, <1>3, <1>4 DEF ImportNext

\* The inductive invariant holds throughout.
THEOREM BooksKept == ImportSpec => []Books
  BY BooksInit, BooksStep, PTL DEF ImportSpec

\* Whatever is announced keeps its type, for any number of units.
THEOREM ImporterTypes == ImportSpec => []ImportTypeOK
<1>1. Books => ImportTypeOK
  BY DEF Books
<1> QED
  BY <1>1, BooksKept, PTL

\* Never two goroutines, and the one there is belongs to the job the user sees.
THEOREM OneWorkerHolds == ImportSpec => []OneWorker
<1>1. Books => OneWorker
  BY DEF Books
<1> QED
  BY <1>1, BooksKept, PTL

\* The verdict agrees with the counters, for any number of units.
THEOREM VerdictIsTrueHolds == ImportSpec => []VerdictIsTrue
<1>1. Books => VerdictIsTrue
  BY DEF Books, JobOK, Announced, Deserved, VerdictIsTrue
<1> QED
  BY <1>1, BooksKept, PTL

Stays == \A j \in JobIds :
  worker[j].at # "none" /\ progress[j].status # "running" => progress'[j] = progress[j]

\* A finished job stays as it was reported: a goroutine still at work owns the
\* only job that is running.
THEOREM FinishedStaysHolds == ImportSpec => FinishedStays
<1>1. Books /\ [ImportNext]_importVars => [Stays]_importVars
  <2> SUFFICES ASSUME Books, [ImportNext]_importVars, NEW j \in JobIds, worker[j].at # "none",
                      progress[j].status # "running"
               PROVE  progress'[j] = progress[j]
    BY DEF Stays
  <2>0. /\ progress \in [JobIds -> Progress] /\ importJob \in JobIds \cup {NoJob}
        /\ worker[j].at = "ended"
    BY DEF Books, ImportTypeOK, JobOK, Announced
  <2>1. ASSUME NEW k \in JobIds, NEW units \in 1..MaxUnits, StartImport(k, units)
        PROVE  progress'[j] = progress[j]
    BY <2>0, <2>1 DEF StartImport
  <2>2. CASE CancelImport
    BY <2>0, <2>2 DEF CancelImport, CancelEffect
  <2>3. ASSUME NEW k \in JobIds, Step(k) PROVE progress'[j] = progress[j]
    <3>1. k # j
      BY <2>0, <2>3 DEF Step, Loop, Download, Record, Decide, FinishImport
    <3> QED
      BY <2>0, <2>3, <3>1, StepMoves DEF Moves
  <2>4. CASE UNCHANGED importVars
    BY <2>4 DEF importVars
  <2> QED
    BY <2>1, <2>2, <2>3, <2>4 DEF ImportNext
<1> QED
  BY <1>1, BooksKept, PTL DEF FinishedStays, Stays, ImportSpec
=============================================================================
