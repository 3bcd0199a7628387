----------------------------- MODULE NewsProofs -----------------------------
(***************************************************************************)
(* Proofs about News, for any sources, articles and time: a feed version   *)
(* that is remembered has all its articles stored, a cluster says what its *)
(* articles say, and a source switched off is shown as switched off.       *)
(***************************************************************************)
EXTENDS News, FiniteSetTheorems, SequenceTheorems, WellFoundedInduction, TLAPS

(***************************************************************************)
(* The order in which a batch is stored.                                   *)
(***************************************************************************)
Queued(q, a) == \E k \in 1..Len(q) : q[k] = a

\* A batch in any order holds exactly the articles of the batch.
LEMMA BatchIsWhole ==
  ASSUME NEW S \in SUBSET Articles, NEW q \in SetToSeqs(S)
  PROVE  q \in Seq(Articles) /\ \A a \in Articles : Queued(q, a) <=> a \in S
<1>1. IsFiniteSet(S) BY FiniteArticles, FS_Subset
<1>2. Cardinality(S) \in Nat BY <1>1, FS_CardinalityType
<1>3. /\ q \in [1..Cardinality(S) -> S]
      /\ \A i, j \in 1..Cardinality(S) : i # j => q[i] # q[j]
  BY DEF SetToSeqs
<1>4. q \in Seq(Articles) /\ Len(q) = Cardinality(S) BY <1>2, <1>3
<1>5. IsFiniteSet(1..Cardinality(S)) /\ Cardinality(1..Cardinality(S)) = Cardinality(S)
  <2>1. Cardinality(1..Cardinality(S)) = IF 1 > Cardinality(S) THEN 0 ELSE Cardinality(S) - 1 + 1
    BY <1>2, FS_Interval
  <2>2. IsFiniteSet(1..Cardinality(S)) BY <1>2, FS_Interval
  <2> QED BY <1>2, <2>1, <2>2
<1>6. q \in Injection(1..Cardinality(S), S) BY <1>3 DEF Injection, IsInjective
<1>7. q \in Surjection(1..Cardinality(S), S) BY <1>1, <1>5, <1>6, FS_Injection
<1>8. \A a \in S : \E k \in 1..Cardinality(S) : q[k] = a BY <1>7 DEF Surjection
<1> QED BY <1>3, <1>4, <1>8 DEF Queued

\* What is left of a batch once its first article has been dealt with.
LEMMA BatchGoesOn ==
  ASSUME NEW q \in Seq(Articles), q # <<>>
  PROVE  /\ Head(q) \in Articles /\ Tail(q) \in Seq(Articles)
         /\ Queued(q, Head(q))
         /\ \A a \in Articles : Queued(q, a) <=> (a = Head(q) \/ Queued(Tail(q), a))
<1>1. /\ Head(q) \in Articles /\ Tail(q) \in Seq(Articles)
      /\ Len(Tail(q)) = Len(q) - 1
      /\ \A i \in 1..Len(Tail(q)) : Tail(q)[i] = q[i + 1]
  BY HeadTailProperties
<1>2. Len(q) \in Nat \ {0} BY EmptySeq
<1>3. Head(q) = q[1] OBVIOUS
<1>4. Queued(q, Head(q)) BY <1>2, <1>3 DEF Queued
<1>5. ASSUME NEW a \in Articles, Queued(q, a) PROVE a = Head(q) \/ Queued(Tail(q), a)
  <2>1. PICK k \in 1..Len(q) : q[k] = a BY <1>5 DEF Queued
  <2>2. CASE k = 1 BY <1>3, <2>1, <2>2
  <2>3. CASE k # 1
    <3>1. k - 1 \in 1..Len(Tail(q)) /\ (k - 1) + 1 = k BY <1>1, <1>2, <2>3
    <3>2. Tail(q)[k - 1] = a BY <1>1, <2>1, <3>1
    <3> QED BY <3>1, <3>2 DEF Queued
  <2> QED BY <2>2, <2>3
<1>6. ASSUME NEW a \in Articles, Queued(Tail(q), a) PROVE Queued(q, a)
  <2>1. PICK k \in 1..Len(Tail(q)) : Tail(q)[k] = a BY <1>6 DEF Queued
  <2>2. k + 1 \in 1..Len(q) /\ q[k + 1] = a BY <1>1, <1>2, <2>1
  <2> QED BY <2>2 DEF Queued
<1> QED BY <1>1, <1>4, <1>5, <1>6

(***************************************************************************)
(* The inductive invariant.                                                *)
(***************************************************************************)
\* The article a is in the database for good: some item that is its duplicate
\* is no part of an open transaction.
Kept(a) == \E i \in Duplicates(a, Items) : \A t \in Sources : i \notin fetch[t].mine

\* The same as the transaction of s sees it, its own inserts included.
Has(s, a) == \E i \in Duplicates(a, Items) : \A t \in Sources \ {s} : i \notin fetch[t].mine

\* What the collector leaves out for good, and what only the fetch under way knows
\* to be left out: it is written down with its success.
Excused(s, a) == a \notin Usable \/ feed[a] < source[s].reach \/ Unread(s, a)
PassedBy(s, a) ==
  \/ s \in Paged /\ a \in fetch[s].unread
  \/ source[s].success = None /\ feed[a] < Back(fetch[s].at, FirstWindow)

Safe(s, a) == Kept(a) \/ Excused(s, a)
Seen(s, a) == Has(s, a) \/ Excused(s, a) \/ PassedBy(s, a)

HasRead(s) == fetch[s].pc \in {"store", "record"}

\* Clusters are assigned only while no source is being fetched.
PhasesApart == pass.pc # "collect" => \A s \in Sources : fetch[s].pc = "idle"

\* What a transaction has inserted are items of its source, without a cluster.
TransactionOf(s) ==
  /\ fetch[s].pc # "store" => fetch[s].mine = {}
  /\ fetch[s].at <= now
  /\ \A a \in fetch[s].mine : item[a] # None /\ item[a].cluster = None /\ SourceOf[a] = s

\* What appeared before a fetch began was in the feed that fetch read.
WindowOf(s) ==
  /\ source[s].success = None => source[s].reach = 0
  /\ source[s].success # None =>
       /\ source[s].success <= now
       /\ \A a \in Shown(s) : feed[a] + Lag < source[s].success => a \in source[s].etag
  /\ HasRead(s) => \A a \in Shown(s) : feed[a] + Lag < fetch[s].at => a \in fetch[s].shown

\* An article the feed showed is queued, in the database already or left out.
StoredOf(s) ==
  /\ \A a \in source[s].etag : feed[a] # None /\ Safe(s, a)
  /\ HasRead(s) => \A a \in fetch[s].shown :
                     feed[a] # None /\ (Queued(fetch[s].todo, a) \/ Seen(s, a))
  /\ HasRead(s) => \A a \in Articles : Queued(fetch[s].todo, a) =>
                     a \in fetch[s].shown /\ SourceOf[a] = s
  /\ fetch[s].pc = "record" => fetch[s].todo = <<>>

\* A cluster holds at least the item it is named for.
ClustersNamed ==
  /\ \A c \in Clusters : item[c] # None /\ item[c].cluster = c
  /\ \A a \in Items : item[a].cluster \in Clusters \cup {None}

SourceInv(s) == TransactionOf(s) /\ WindowOf(s) /\ StoredOf(s)
IInv == TypeOK /\ PhasesApart /\ ClustersNamed /\ \A s \in Sources : SourceInv(s)

LEMMA NoneApart ==
  /\ None \notin Articles /\ None \notin Instants /\ None \notin NewsItems /\ None \notin NewsClusters
  /\ Instants \subseteq Nat
<1>1. Instants \subseteq Nat BY FiniteTime DEF Instants
<1> QED BY <1>1, NoneIsNothing

(***************************************************************************)
(* Types.                                                                  *)
(***************************************************************************)
SourceRecords == [enabled: BOOLEAN, status: {"online", "degraded", "offline", "disabled"},
                  errors: Nat, success: Instants \cup {None}, etag: SUBSET Articles,
                  reach: Nat, unread: SUBSET Articles]
Fetches == [pc: {"idle", "fetch", "store", "record"}, at: Instants,
            shown: SUBSET Articles, unread: SUBSET Articles, todo: Seq(Articles),
            mine: SUBSET Articles, touched: SUBSET Articles]
Passes == [pc: {"asleep", "collect", "enrich"}, left: SUBSET Sources, done: Nat]

LEMMA QuietIsFetch == Quiet \in Fetches
  BY FiniteTime DEF Quiet, Fetches, Instants

LEMMA NothingQueued == \A a : ~Queued(<<>>, a)
  BY DEF Queued

LEMMA TypeInit == ASSUME Init PROVE TypeOK
<1>1. 0 \in Instants BY FiniteTime DEF Instants
<1>2. fetch \in [Sources -> Fetches] BY QuietIsFetch DEF Init
<1>3. source \in [Sources -> SourceRecords] BY DEF Init, SourceRecords
<1>4. pass \in Passes BY DEF Init, Passes
<1>5. /\ feed \in [Articles -> Instants \cup {None}]
      /\ item \in [Articles -> NewsItems \cup {None}]
      /\ cluster \in [Articles -> NewsClusters \cup {None}]
  BY <1>1 DEF Init
<1> QED BY <1>1, <1>2, <1>3, <1>4, <1>5 DEF TypeOK, Fetches, SourceRecords, Passes, Init
LEMMA TypeParts ==
  TypeOK <=> /\ now \in Instants /\ faults \in Nat /\ edits \in Nat
             /\ feed \in [Articles -> Instants \cup {None}]
             /\ item \in [Articles -> NewsItems \cup {None}]
             /\ cluster \in [Articles -> NewsClusters \cup {None}]
             /\ source \in [Sources -> SourceRecords]
             /\ fetch \in [Sources -> Fetches]
             /\ pass \in Passes
  BY DEF TypeOK, SourceRecords, Fetches, Passes

LEMMA StatusIsStatus ==
  ASSUME NEW s \in Sources, NEW n \in Nat
  PROVE  Status(s, n) \in {"online", "degraded", "offline", "disabled"}
  BY DEF Status

LEMMA ReadFeedStep ==
  ASSUME TypeOK, NEW s \in Sources, ReadFeed(s)
  PROVE  /\ fetch' \in [Sources -> Fetches]
         /\ \E read \in Walks(s), q \in Seq(Articles) :
              /\ fetch'[s] = [fetch[s] EXCEPT !.shown = Shown(s), !.unread = Fresh(s) \ read,
                                              !.todo = q,
                                              !.pc = IF q = <<>> THEN "record" ELSE "store"]
              /\ \A a \in Articles : Queued(q, a) <=> a \in Fresh(s) /\ a \in read /\ a \in Usable
         /\ \A t \in Sources \ {s} : fetch'[t] = fetch[t]
<1>1. PICK read \in Walks(s) : \E q \in SetToSeqs(Fresh(s) \cap read \cap Usable) :
        fetch' = [fetch EXCEPT ![s] = [@ EXCEPT !.shown = Shown(s), !.unread = Fresh(s) \ read,
                                                !.todo = q,
                                                !.pc = IF q = <<>> THEN "record" ELSE "store"]]
  BY DEF ReadFeed
<1> DEFINE S == Fresh(s) \cap read \cap Usable
           left == Fresh(s) \ read
<1>2. PICK q \in SetToSeqs(S) :
        fetch' = [fetch EXCEPT ![s] = [@ EXCEPT !.shown = Shown(s), !.unread = left, !.todo = q,
                                                !.pc = IF q = <<>> THEN "record" ELSE "store"]]
  BY <1>1
<1>3. S \in SUBSET Articles /\ left \in SUBSET Articles /\ Shown(s) \in SUBSET Articles
  BY DEF Fresh, Shown
<1>4. q \in Seq(Articles) /\ \A a \in Articles : Queued(q, a) <=> a \in S
  BY <1>3, BatchIsWhole
<1>5. fetch[s] \in Fetches /\ fetch \in [Sources -> Fetches] BY TypeParts
<1>6. \A a \in Articles : Queued(q, a) <=> a \in Fresh(s) /\ a \in read /\ a \in Usable BY <1>4
<1> HIDE DEF left
<1> DEFINE f == [fetch[s] EXCEPT !.shown = Shown(s), !.unread = left, !.todo = q,
                                 !.pc = IF q = <<>> THEN "record" ELSE "store"]
<1>7. f \in Fetches BY <1>3, <1>4, <1>5 DEF Fetches
<1>8. fetch' = [fetch EXCEPT ![s] = f] BY <1>2
<1> HIDE DEF f
<1>9. fetch' \in [Sources -> Fetches] /\ fetch'[s] = f /\ \A t \in Sources \ {s} : fetch'[t] = fetch[t]
  BY <1>5, <1>7, <1>8
<1> QED BY <1>4, <1>6, <1>9 DEF f, left

LEMMA FailSourceStep ==
  ASSUME TypeOK, NEW s \in Sources, FailSource(s)
  PROVE  /\ fetch' \in [Sources -> Fetches] /\ source' \in [Sources -> SourceRecords]
         /\ item' \in [Articles -> NewsItems \cup {None}]
         /\ fetch'[s] = Quiet /\ \A t \in Sources \ {s} : fetch'[t] = fetch[t]
         /\ \A t \in Sources : /\ source'[t].success = source[t].success
                               /\ source'[t].etag = source[t].etag
                               /\ source'[t].reach = source[t].reach
                               /\ source'[t].unread = source[t].unread
         /\ \A a \in Articles : item'[a] = IF a \in fetch[s].mine THEN None ELSE item[a]
<1>1. fetch \in [Sources -> Fetches] /\ source \in [Sources -> SourceRecords]
      /\ item \in [Articles -> NewsItems \cup {None}]
  BY TypeParts
<1>2. fetch' \in [Sources -> Fetches] /\ fetch'[s] = Quiet
      /\ \A t \in Sources \ {s} : fetch'[t] = fetch[t]
  BY <1>1, QuietIsFetch DEF FailSource
<1>3. /\ item' \in [Articles -> NewsItems \cup {None}]
      /\ \A a \in Articles : item'[a] = IF a \in fetch[s].mine THEN None ELSE item[a]
  BY <1>1 DEF FailSource
<1> DEFINE r == [source[s] EXCEPT !.errors = @ + 1, !.status = Status(s, source[s].errors + 1)]
<1>4. source[s].errors + 1 \in Nat BY <1>1 DEF SourceRecords
<1>5. Status(s, source[s].errors + 1) \in {"online", "degraded", "offline", "disabled"}
  BY <1>4, StatusIsStatus
<1>6. r \in SourceRecords /\ r.success = source[s].success /\ r.etag = source[s].etag
      /\ r.reach = source[s].reach /\ r.unread = source[s].unread
  BY <1>1, <1>4, <1>5 DEF SourceRecords
<1>7. source' = source \/ source' = [source EXCEPT ![s] = r]
  BY <1>1 DEF FailSource, SourceRecords
<1> HIDE DEF r
<1>8. /\ source' \in [Sources -> SourceRecords]
      /\ \A t \in Sources : /\ source'[t].success = source[t].success
                            /\ source'[t].etag = source[t].etag
                               /\ source'[t].reach = source[t].reach
                               /\ source'[t].unread = source[t].unread
  BY <1>1, <1>6, <1>7
<1> QED BY <1>2, <1>3, <1>8

LEMMA RecordStep ==
  ASSUME TypeOK, NEW s \in Sources, RecordSuccess(s)
  PROVE  /\ fetch' \in [Sources -> Fetches] /\ source' \in [Sources -> SourceRecords]
         /\ fetch'[s] = Quiet /\ \A t \in Sources \ {s} : fetch'[t] = fetch[t]
         /\ source'[s].success = fetch[s].at /\ source'[s].etag = fetch[s].shown
         /\ source'[s].reach = IF source[s].success = None THEN Back(fetch[s].at, FirstWindow)
                               ELSE source[s].reach
         /\ source'[s].unread = source[s].unread \cup fetch[s].unread
         /\ \A t \in Sources \ {s} : source'[t] = source[t]
<1>1. fetch \in [Sources -> Fetches] /\ source \in [Sources -> SourceRecords] BY TypeParts
<1>2. fetch' \in [Sources -> Fetches] /\ fetch'[s] = Quiet
      /\ \A t \in Sources \ {s} : fetch'[t] = fetch[t]
  BY <1>1, QuietIsFetch DEF RecordSuccess
<1> DEFINE reach == Reach(s)
           left == source[s].unread \cup fetch[s].unread
           r == [source[s] EXCEPT !.status = RecordedStatus(s), !.errors = 0,
                                  !.success = fetch[s].at, !.etag = fetch[s].shown,
                                  !.reach = reach, !.unread = left]
<1>3. RecordedStatus(s) \in {"online", "degraded", "offline", "disabled"}
  BY StatusIsStatus DEF RecordedStatus
<1>4. reach = IF source[s].success = None THEN Back(fetch[s].at, FirstWindow) ELSE source[s].reach
  BY DEF Reach, Since
<1>5. source' = [source EXCEPT ![s] = r] BY DEF RecordSuccess
<1>6. reach \in Nat
  <2>1. fetch[s].at \in Nat /\ source[s].reach \in Nat BY <1>1, NoneApart DEF Fetches, SourceRecords
  <2> QED BY <1>4, <2>1, FirstFetchReachesBack DEF Back
<1>7. left \in SUBSET Articles BY <1>1 DEF Fetches, SourceRecords
<1> HIDE DEF reach, left
<1>8. r \in SourceRecords /\ r.success = fetch[s].at /\ r.etag = fetch[s].shown
      /\ r.reach = reach /\ r.unread = left
  BY <1>1, <1>3, <1>6, <1>7 DEF SourceRecords, Fetches
<1> HIDE DEF r
<1>9. /\ source' \in [Sources -> SourceRecords] /\ source'[s] = r
      /\ \A t \in Sources \ {s} : source'[t] = source[t]
  BY <1>1, <1>5, <1>8
<1> QED BY <1>2, <1>4, <1>8, <1>9 DEF left
\* What inserting the next article of a batch does.
Inserts(s, a) ==
  /\ item[a] = None
  /\ item' = [item EXCEPT ![a] = [published |-> feed[a], seen |-> fetch[s].at,
                                  last |-> fetch[s].at, cluster |-> None]]
  /\ fetch'[s].mine = fetch[s].mine \cup {a}

\* What touching the item i, which the transaction sees, does.
Touches(s, a, i) ==
  /\ i \in Duplicates(a, Visible(s))
  /\ item' = [item EXCEPT ![i].last = Most(@, fetch[s].at)]
  /\ fetch'[s].mine = fetch[s].mine

LEMMA LeastNumber == \A T \in SUBSET Nat : T # {} => \E n \in T : \A m \in T : n <= m
<1> SUFFICES ASSUME NEW T \in SUBSET Nat, T # {}
             PROVE  \E n \in T : \A m \in T : n <= m
  OBVIOUS
<1> DEFINE Less == {p \in Nat \X Nat : p[1] < p[2]}
<1>1. IsWellFoundedOn(Less, Nat) BY NatLessThanWellFounded DEF OpToRel
<1>2. \A m, n \in Nat : m < n => <<m, n>> \in Less OBVIOUS
<1> HIDE DEF Less
<1>3. PICK n \in T : \A m \in T : <<m, n>> \notin Less
  BY <1>1, WFMin
<1>4. ASSUME NEW m \in T PROVE n <= m
  <2>1. ~(m < n) BY <1>2, <1>3
  <2> QED BY <2>1
<1> QED BY <1>4

\* Of several items one was seen first.
LEMMA SomeFirstSeen ==
  ASSUME TypeOK, NEW as, as \subseteq Items, as # {}
  PROVE  FirstSeen(as) \in as
<1> DEFINE times == {item[i].seen : i \in as}
<1>1. \A i \in as : item[i].seen \in Nat BY TypeParts, NoneApart DEF Items, NewsItems
<1>2. times \in SUBSET Nat /\ times # {} BY <1>1
<1>3. PICK n \in times : \A m \in times : n <= m BY <1>2, LeastNumber
<1>4. \E i \in as : \A j \in as : item[i].seen <= item[j].seen BY <1>3
<1> QED BY <1>4 DEF FirstSeen

\* An insert that is not blocked is of an article that is not stored yet: an
\* item of the same name has the same URL, and is seen or waited for.
LEMMA StoreStep ==
  ASSUME TypeOK, NEW s \in Sources, Store(s)
  PROVE  /\ fetch' \in [Sources -> Fetches] /\ \A t \in Sources \ {s} : fetch'[t] = fetch[t]
         /\ fetch[s].pc = "store" /\ fetch'[s].pc = "store"
         /\ fetch'[s].at = fetch[s].at /\ fetch'[s].shown = fetch[s].shown
         /\ fetch'[s].unread = fetch[s].unread
         /\ \E a \in Articles :
              /\ Queued(fetch[s].todo, a)
              /\ \A b \in Articles : Queued(fetch[s].todo, b) <=> (b = a \/ Queued(fetch'[s].todo, b))
              /\ Inserts(s, a) \/ \E i \in Articles : Touches(s, a, i)
<1>1. fetch \in [Sources -> Fetches] /\ fetch[s] \in Fetches BY TypeParts
<1>2. fetch[s].todo \in Seq(Articles) /\ fetch[s].todo # <<>> BY <1>1 DEF Store, Fetches
<1> DEFINE a == Head(fetch[s].todo)
           q == Tail(fetch[s].todo)
           known == Duplicates(a, Visible(s))
<1>3. /\ a \in Articles /\ q \in Seq(Articles) /\ Queued(fetch[s].todo, a)
      /\ \A b \in Articles : Queued(fetch[s].todo, b) <=> (b = a \/ Queued(q, b))
  BY <1>2, BatchGoesOn
<1>4. CASE known = {}
  <2>1. Insert(s, a) BY <1>4 DEF Store
  <2> DEFINE f == [fetch[s] EXCEPT !.todo = q, !.mine = @ \cup {a}]
  <2>2. f \in Fetches BY <1>1, <1>3 DEF Fetches
  <2>3. fetch' = [fetch EXCEPT ![s] = f] BY <1>1, <2>1 DEF Insert, Fetches
  <2>4. /\ f.todo = q /\ f.mine = fetch[s].mine \cup {a} /\ f.pc = fetch[s].pc
        /\ f.at = fetch[s].at /\ f.shown = fetch[s].shown /\ f.unread = fetch[s].unread
    BY <1>1 DEF Fetches
  <2>5. a \notin Uncommitted(s) BY <1>2, <1>4 DEF Store, Blocked
  <2>6. a \notin Visible(s) BY <1>4 DEF Duplicates
  <2>7. item[a] = None BY <1>3, <2>5, <2>6 DEF Visible, Items
  <2> HIDE DEF f, q, a
  <2>8. Inserts(s, a) BY <1>1, <2>1, <2>3, <2>4, <2>7 DEF Insert, Inserts
  <2>9. fetch'[s] = f /\ fetch' \in [Sources -> Fetches] /\ \A t \in Sources \ {s} : fetch'[t] = fetch[t]
    BY <1>1, <2>2, <2>3
  <2> QED BY <1>3, <2>4, <2>8, <2>9 DEF Store, Writing
<1>5. CASE known # {}
  <2> DEFINE i == FirstSeen(known)
  <2>1. Touch(s, i) BY <1>5 DEF Store
  <2>2. i \in known
    <3>1. PICK as : as = known OBVIOUS
    <3>2. as \subseteq Items BY <3>1 DEF Duplicates, Visible
    <3> QED BY <1>5, <3>1, <3>2, SomeFirstSeen
  <2>3. i \in Articles BY <2>2 DEF Duplicates, Visible, Items
  <2> DEFINE f == [fetch[s] EXCEPT !.todo = q, !.touched = @ \cup {i}]
  <2>4. f \in Fetches BY <1>1, <1>3, <2>3 DEF Fetches
  <2>5. fetch' = [fetch EXCEPT ![s] = f] BY <1>1, <2>1 DEF Touch, Fetches
  <2>6. /\ f.todo = q /\ f.mine = fetch[s].mine /\ f.pc = fetch[s].pc
        /\ f.at = fetch[s].at /\ f.shown = fetch[s].shown /\ f.unread = fetch[s].unread
    BY <1>1 DEF Fetches
  <2> HIDE DEF f, q, i
  <2>7. Touches(s, a, i) BY <1>1, <2>1, <2>2, <2>5, <2>6 DEF Touch, Touches
  <2>8. fetch'[s] = f /\ fetch' \in [Sources -> Fetches] /\ \A t \in Sources \ {s} : fetch'[t] = fetch[t]
    BY <1>1, <2>4, <2>5
  <2> QED BY <1>3, <2>3, <2>6, <2>7, <2>8 DEF Store, Writing
<1> QED BY <1>4, <1>5
\* What Insert and Touch leave of the items: all of them, with their times.
LEMMA StoreItems ==
  ASSUME TypeOK, NEW s \in Sources, Store(s), StoredOf(s), PhasesApart,
         \A t \in Sources : TransactionOf(t)
  PROVE  /\ item' \in [Articles -> NewsItems \cup {None}]
         /\ \A i \in Items : /\ item'[i] # None /\ item'[i].published = item[i].published
                             /\ item'[i].cluster = item[i].cluster /\ item'[i].seen = item[i].seen
         /\ \A i \in Articles : item[i] = None => item'[i] = None \/ (item'[i].cluster = None /\ i \in fetch'[s].mine)
         /\ \A i \in fetch'[s].mine : item'[i] # None /\ item'[i].cluster = None
         /\ \A i \in fetch'[s].mine : i \in fetch[s].mine \/ (item[i] = None /\ SourceOf[i] = s)
<1>1. PICK a \in Articles : /\ Queued(fetch[s].todo, a)
                            /\ Inserts(s, a) \/ \E i \in Articles : Touches(s, a, i)
  BY StoreStep
<1>2. item \in [Articles -> NewsItems \cup {None}] /\ fetch[s] \in Fetches BY TypeParts
<1>3. \A i \in fetch[s].mine : item[i] # None /\ item[i].cluster = None BY DEF TransactionOf
<1>4. fetch[s].at \in Instants /\ fetch[s].mine \subseteq Articles BY <1>2 DEF Fetches
<1>5. CASE Inserts(s, a)
  <2>1. fetch[s].pc = "store" BY StoreStep
  <2>2. feed[a] # None /\ SourceOf[a] = s BY <1>1, <2>1 DEF StoredOf, HasRead
  <2>3. feed[a] \in Instants BY <2>2, TypeParts
  <2> DEFINE r == [published |-> feed[a], seen |-> fetch[s].at, last |-> fetch[s].at, cluster |-> None]
  <2>4. r \in NewsItems /\ r.cluster = None BY <1>4, <2>3 DEF NewsItems
  <2>5. r # None BY <2>4, NoneApart
  <2>6. item' = [item EXCEPT ![a] = r] /\ item[a] = None /\ fetch'[s].mine = fetch[s].mine \cup {a}
    BY <1>5 DEF Inserts
  <2> HIDE DEF r
  <2> QED BY <1>2, <1>3, <1>4, <2>2, <2>4, <2>5, <2>6 DEF Items
<1>6. CASE \E i \in Articles : Touches(s, a, i)
  <2>1. PICK i \in Articles : Touches(s, a, i) BY <1>6
  <2>2. i \in Items BY <2>1 DEF Touches, Duplicates, Visible
  <2>3. item[i] \in NewsItems BY <1>2, <2>2 DEF Items
  <2> DEFINE r == [item[i] EXCEPT !.last = Most(@, fetch[s].at)]
  <2>4. r \in NewsItems /\ r.published = item[i].published /\ r.cluster = item[i].cluster
        /\ r.seen = item[i].seen
    BY <1>4, <2>3 DEF NewsItems, Most
  <2>5. r # None BY <2>4, NoneApart
  <2>6. item' = [item EXCEPT ![i] = r] /\ fetch'[s].mine = fetch[s].mine
    BY <2>1, <1>2, <2>3 DEF Touches, NewsItems
  <2> HIDE DEF r
  <2> QED BY <1>2, <1>3, <1>4, <2>2, <2>4, <2>5, <2>6 DEF Items
<1> QED BY <1>1, <1>5, <1>6

(***************************************************************************)
(* What a step leaves stored.                                              *)
(***************************************************************************)
\* Only items of the set gone disappear, and only new items become part of a
\* transaction.
Preserves(gone) ==
  /\ \A i \in Items \ gone : item'[i] # None /\ item'[i].published = item[i].published
  /\ \A t \in Sources : \A i \in fetch'[t].mine : i \in fetch[t].mine \/ item[i] = None

LEMMA KeptStays ==
  ASSUME NEW a \in Articles, Kept(a), feed'[a] = feed[a],
         NEW s \in Sources, NEW gone, gone \subseteq fetch[s].mine, Preserves(gone)
  PROVE  Kept(a)'
<1>1. PICK i \in Duplicates(a, Items) : \A t \in Sources : i \notin fetch[t].mine BY DEF Kept
<1>2. i \in Items /\ i \in Articles /\ item[i] # None /\ i \notin gone BY <1>1 DEF Duplicates, Items
<1>3. item'[i] # None /\ item'[i].published = item[i].published BY <1>2 DEF Preserves
<1>4. i \in Duplicates(a, Items)' BY <1>1, <1>2, <1>3 DEF Duplicates, Items
<1>5. \A t \in Sources : i \notin fetch'[t].mine BY <1>1, <1>2 DEF Preserves
<1> QED BY <1>4, <1>5 DEF Kept

LEMMA HasStays ==
  ASSUME NEW a \in Articles, NEW t \in Sources, Has(t, a), feed'[a] = feed[a],
         NEW s \in Sources, NEW gone, gone \subseteq fetch[s].mine, s # t \/ gone = {},
         Preserves(gone)
  PROVE  Has(t, a)'
<1>1. PICK i \in Duplicates(a, Items) : \A u \in Sources \ {t} : i \notin fetch[u].mine BY DEF Has
<1>2. i \in Items /\ i \in Articles /\ item[i] # None /\ i \notin gone BY <1>1 DEF Duplicates, Items
<1>3. item'[i] # None /\ item'[i].published = item[i].published BY <1>2 DEF Preserves
<1>4. i \in Duplicates(a, Items)' BY <1>1, <1>2, <1>3 DEF Duplicates, Items
<1>5. \A u \in Sources \ {t} : i \notin fetch'[u].mine BY <1>1, <1>2 DEF Preserves
<1> QED BY <1>4, <1>5 DEF Has

\* What is excused stays excused while nothing is recorded.
LEMMA SafeStays ==
  ASSUME NEW a \in Articles, NEW t \in Sources, Safe(t, a), feed'[a] = feed[a],
         source'[t].reach = source[t].reach, source'[t].unread = source[t].unread,
         NEW s \in Sources, NEW gone, gone \subseteq fetch[s].mine, Preserves(gone)
  PROVE  Safe(t, a)'
<1>1. Kept(a) => Kept(a)' BY KeptStays
<1>2. Excused(t, a) => Excused(t, a)' BY DEF Excused, Unread
<1> QED BY <1>1, <1>2 DEF Safe

LEMMA SeenStays ==
  ASSUME NEW a \in Articles, NEW t \in Sources, Seen(t, a), feed'[a] = feed[a],
         source'[t].reach = source[t].reach, source'[t].unread = source[t].unread,
         source'[t].success = source[t].success,
         fetch'[t].at = fetch[t].at, fetch'[t].unread = fetch[t].unread,
         NEW s \in Sources, NEW gone, gone \subseteq fetch[s].mine, s # t \/ gone = {},
         Preserves(gone)
  PROVE  Seen(t, a)'
<1>1. Has(t, a) => Has(t, a)' BY HasStays
<1>2. Excused(t, a) => Excused(t, a)' BY DEF Excused, Unread
<1>3. PassedBy(t, a) => PassedBy(t, a)' BY DEF PassedBy
<1> QED BY <1>1, <1>2, <1>3 DEF Seen

\* A source that a step does not concern keeps its part of the invariant.
LEMMA OthersStay ==
  ASSUME TypeOK, NEW t \in Sources, SourceInv(t),
         fetch'[t] = fetch[t],
         source'[t].success = source[t].success, source'[t].etag = source[t].etag,
         source'[t].reach = source[t].reach, source'[t].unread = source[t].unread,
         feed' = feed, now' = now,
         NEW s \in Sources, NEW gone, gone \subseteq fetch[s].mine, s # t \/ gone = {},
         Preserves(gone),
         \A i \in fetch[t].mine : item'[i] # None /\ item'[i].cluster = None
  PROVE  SourceInv(t)'
<1>1. source[t] \in SourceRecords /\ fetch[t] \in Fetches BY TypeParts
<1>2. TransactionOf(t)' BY DEF SourceInv, TransactionOf
<1>3. WindowOf(t)' BY DEF SourceInv, WindowOf, Shown, HasRead
<1>4. ASSUME NEW a \in source'[t].etag PROVE feed'[a] # None /\ Safe(t, a)'
  <2>1. a \in Articles /\ feed[a] # None /\ Safe(t, a)
    BY <1>1, <1>4 DEF SourceInv, StoredOf, SourceRecords
  <2> QED BY <2>1, SafeStays
<1>5. ASSUME HasRead(t)', NEW a \in fetch'[t].shown
      PROVE  feed'[a] # None /\ (Queued(fetch'[t].todo, a) \/ Seen(t, a)')
  <2>1. HasRead(t) /\ a \in fetch[t].shown /\ a \in Articles BY <1>1, <1>5 DEF HasRead, Fetches
  <2>2. feed[a] # None /\ (Queued(fetch[t].todo, a) \/ Seen(t, a)) BY <2>1 DEF SourceInv, StoredOf
  <2> QED BY <2>1, <2>2, SeenStays
<1>6. HasRead(t)' => \A a \in Articles : Queued(fetch'[t].todo, a) => a \in fetch'[t].shown /\ SourceOf[a] = t
  BY DEF SourceInv, StoredOf, HasRead
<1>7. fetch'[t].pc = "record" => fetch'[t].todo = <<>> BY DEF SourceInv, StoredOf
<1>8. StoredOf(t)' BY <1>4, <1>5, <1>6, <1>7 DEF StoredOf, HasRead
<1> QED BY <1>2, <1>3, <1>8 DEF SourceInv
(***************************************************************************)
(* One lemma per action.                                                   *)
(***************************************************************************)
LEMMA InvInit == Init => IInv
<1> SUFFICES ASSUME Init PROVE IInv OBVIOUS
<1>1. TypeOK BY TypeInit
<1>2. PhasesApart BY DEF Init, PhasesApart, Quiet
<1>3. Items = {} /\ Clusters = {} BY DEF Init, Items, Clusters
<1>4. ClustersNamed BY <1>3 DEF ClustersNamed
<1>5. ASSUME NEW s \in Sources PROVE SourceInv(s)
  <2>1. fetch[s] = Quiet /\ source[s].success = None /\ source[s].etag = {} /\ source[s].reach = 0
    BY <1>5 DEF Init
  <2>2. Quiet.pc = "idle" /\ Quiet.mine = {} /\ Quiet.at = 0 BY DEF Quiet
  <2>3. TransactionOf(s) BY <2>1, <2>2 DEF TransactionOf, Init
  <2>4. WindowOf(s) BY <2>1, <2>2 DEF WindowOf, HasRead
  <2>5. StoredOf(s) BY <2>1, <2>2 DEF StoredOf, HasRead
  <2> QED BY <2>3, <2>4, <2>5 DEF SourceInv
<1> QED BY <1>1, <1>2, <1>4, <1>5 DEF IInv

\* Steps of the pass and the clock touch no source and store nothing.
LEMMA QuietStep ==
  ASSUME IInv, UNCHANGED <<feed, item, cluster, source, fetch>>,
         now' \in Instants, now <= now', faults' \in Nat, edits' \in Nat, pass' \in Passes,
         PhasesApart'
  PROVE  IInv'
<1>1. TypeOK' BY TypeParts DEF IInv, TypeOK, Passes
<1>2. ClustersNamed' BY DEF IInv, ClustersNamed, Clusters, Items
<1>3. ASSUME NEW s \in Sources PROVE SourceInv(s)'
  <2>1. SourceInv(s) BY DEF IInv
  <2>2. now \in Nat /\ now' \in Nat /\ fetch[s].at \in Nat
    BY NoneApart, TypeParts DEF IInv, Fetches
  <2>3. TransactionOf(s)' BY <2>1, <2>2 DEF SourceInv, TransactionOf
  <2>4. WindowOf(s)'
    <3>1. source[s].success \in Nat \cup {None} BY TypeParts, NoneApart DEF IInv, SourceRecords
    <3>2. source[s].success # None => source[s].success <= now'
      BY <2>1, <2>2, <3>1 DEF SourceInv, WindowOf
    <3> QED BY <2>1, <3>2 DEF SourceInv, WindowOf, Shown, HasRead
  <2>5. StoredOf(s)' BY <2>1 DEF SourceInv, StoredOf, HasRead, Safe, Seen, Excused, Unread,
    PassedBy, Kept, Has, Duplicates, Items
  <2> QED BY <2>3, <2>4, <2>5 DEF SourceInv
<1> QED BY <1>1, <1>2, <1>3 DEF IInv

\* An article that appears late is still inside every window that is to come.
LEMMA AppearStep == ASSUME IInv, NEW a \in Articles, Appear(a) PROVE IInv'
<1>1. PICK p \in 0..now : now - p <= Lag /\ feed' = [feed EXCEPT ![a] = p] BY DEF Appear
<1>2. now \in Instants /\ now \in Nat /\ p \in Nat /\ p <= now /\ now - p <= Lag
  <2>1. now \in Instants BY TypeParts DEF IInv
  <2>2. now \in Nat BY <2>1, NoneApart
  <2> QED BY <1>1, <2>1, <2>2
<1>3. p \in Instants /\ p # None
  <2>1. p \in Instants BY <1>1, <1>2, FiniteTime DEF Instants
  <2> QED BY <2>1, NoneApart
<1>4. feed \in [Articles -> Instants \cup {None}] /\ feed[a] = None BY TypeParts DEF IInv, Appear
<1>5. feed' \in [Articles -> Instants \cup {None}] BY <1>1, <1>3, <1>4
<1>6. TypeOK' BY <1>5, TypeParts DEF IInv, TypeOK, Appear, world
<1>7. PhasesApart' /\ ClustersNamed'
  BY DEF IInv, PhasesApart, ClustersNamed, Clusters, Items, Appear
<1>8. ASSUME NEW s \in Sources PROVE SourceInv(s)'
  <2>1. SourceInv(s) BY DEF IInv
  <2>2. fetch[s] \in Fetches /\ source[s] \in SourceRecords BY TypeParts DEF IInv
  <2>3. TransactionOf(s)' BY <2>1 DEF SourceInv, TransactionOf, Appear, world
  <2>4. \A b \in Articles : feed[b] # None => feed'[b] = feed[b] BY <1>1, <1>4
  <2>5. \A b \in Articles : feed'[b] # None => feed[b] = feed'[b] \/ (b = a /\ feed'[b] = p)
    BY <1>1, <1>4
  <2>6. ASSUME NEW u \in Instants, u <= now PROVE ~(p + Lag < u)
    BY <1>1, <1>2, <2>6, FeedsAreTimely, NoneApart
  <2>7. source[s].success # None => source[s].success \in Instants /\ source[s].success <= now
    BY <2>1, <2>2 DEF SourceInv, WindowOf, SourceRecords
  <2>8. fetch[s].at \in Instants /\ fetch[s].at <= now BY <2>1, <2>2 DEF SourceInv, TransactionOf, Fetches
  <2>9. WindowOf(s)'
    <3>1. UNCHANGED <<source, fetch, now>> BY DEF Appear, world
    <3>2. ASSUME NEW b \in Shown(s)', b # a PROVE b \in Shown(s) /\ feed'[b] = feed[b]
      BY <2>5, <3>2 DEF Shown
    <3>3. feed'[a] = p BY <1>1, <1>4
    <3>4. WindowOf(s) BY <2>1 DEF SourceInv
    <3>5. ASSUME source[s].success # None, NEW b \in Shown(s)', feed'[b] + Lag < source[s].success
          PROVE  b \in source[s].etag
      <4>1. b # a BY <2>6, <2>7, <3>3, <3>5
      <4> QED BY <3>2, <3>4, <3>5, <4>1 DEF WindowOf
    <3>6. ASSUME HasRead(s), NEW b \in Shown(s)', feed'[b] + Lag < fetch[s].at
          PROVE  b \in fetch[s].shown
      <4>1. b # a BY <2>6, <2>8, <3>3, <3>6
      <4> QED BY <3>2, <3>4, <3>6, <4>1 DEF WindowOf
    <3> QED BY <2>7, <3>1, <3>4, <3>5, <3>6 DEF WindowOf, HasRead
  <2>10. \A b \in Articles : feed[b] # None /\ Kept(b) => Kept(b)'
    BY <2>4 DEF Kept, Duplicates, Items, Appear
  <2>11. \A b \in Articles : feed[b] # None /\ Has(s, b) => Has(s, b)'
    BY <2>4 DEF Has, Duplicates, Items, Appear
  <2>12. \A b \in Articles : feed[b] # None /\ Safe(s, b) => Safe(s, b)'
    BY <2>4, <2>10 DEF Safe, Excused, Unread, Appear
  <2>13. \A b \in Articles : feed[b] # None /\ Seen(s, b) => Seen(s, b)'
    BY <2>4, <2>11 DEF Seen, Excused, Unread, PassedBy, Appear
  <2>14. StoredOf(s)'
    BY <2>1, <2>2, <2>4, <2>12, <2>13 DEF SourceInv, StoredOf, HasRead, Fetches, SourceRecords, Appear
  <2> QED BY <2>3, <2>9, <2>14 DEF SourceInv
<1> QED BY <1>6, <1>7, <1>8 DEF IInv
LEMMA SetEnabledStep ==
  ASSUME IInv, NEW s \in Sources, NEW on \in BOOLEAN, SetEnabled(s, on)
  PROVE  IInv'
<1>1. source \in [Sources -> SourceRecords] /\ source[s] \in SourceRecords /\ TypeOK
  BY TypeParts DEF IInv
<1> DEFINE st == IF ~on THEN "disabled"
                 ELSE IF source[s].status = "disabled" THEN "offline" ELSE source[s].status
           r  == [source[s] EXCEPT !.enabled = on, !.status = st]
<1>2. r \in SourceRecords /\ r.success = source[s].success /\ r.etag = source[s].etag
      /\ r.reach = source[s].reach /\ r.unread = source[s].unread
  BY <1>1 DEF SourceRecords
<1>3. source' = [source EXCEPT ![s] = r] BY <1>1 DEF SetEnabled, SourceRecords
<1> HIDE DEF r
<1>4. /\ source' \in [Sources -> SourceRecords]
      /\ \A t \in Sources : /\ source'[t].success = source[t].success
                            /\ source'[t].etag = source[t].etag
                               /\ source'[t].reach = source[t].reach
                               /\ source'[t].unread = source[t].unread
  BY <1>1, <1>2, <1>3
<1>5. edits' \in Nat BY <1>1, TypeParts DEF SetEnabled
<1>6. TypeOK' BY <1>1, <1>4, <1>5 DEF TypeOK, SourceRecords, SetEnabled
<1>7. Preserves({}) BY DEF Preserves, SetEnabled, Items
<1>8. ASSUME NEW t \in Sources PROVE SourceInv(t)'
  <2>1. SourceInv(t) BY DEF IInv
  <2>2. \A i \in fetch[t].mine : item'[i] # None /\ item'[i].cluster = None
    BY <2>1 DEF SourceInv, TransactionOf, SetEnabled
  <2> QED BY <1>1, <1>4, <1>7, <2>1, <2>2, OthersStay DEF SetEnabled
<1>9. PhasesApart' /\ ClustersNamed'
  BY DEF IInv, PhasesApart, ClustersNamed, Clusters, Items, SetEnabled
<1> QED BY <1>6, <1>8, <1>9 DEF IInv

LEMMA StartFetchStep == ASSUME IInv, NEW s \in Sources, StartFetch(s) PROVE IInv'
<1>1. fetch \in [Sources -> Fetches] /\ fetch[s] \in Fetches /\ pass \in Passes /\ TypeOK /\ now \in Instants
  BY TypeParts DEF IInv
<1> DEFINE f == [Quiet EXCEPT !.pc = "fetch", !.at = now]
<1>2. f \in Fetches /\ f.pc = "fetch" /\ f.at = now /\ f.mine = {}
  BY <1>1, QuietIsFetch DEF Fetches, Quiet
<1>3. fetch' = [fetch EXCEPT ![s] = f] BY DEF StartFetch
<1> HIDE DEF f
<1>4. fetch' \in [Sources -> Fetches] /\ fetch'[s] = f /\ \A t \in Sources \ {s} : fetch'[t] = fetch[t]
  BY <1>1, <1>2, <1>3
<1>5. pass' \in Passes /\ pass.pc = "collect" /\ pass'.pc = "collect" BY <1>1 DEF StartFetch, Passes
<1>6. TypeOK' BY <1>1, <1>4, <1>5, TypeParts DEF TypeOK, StartFetch, world, Fetches, Passes
<1>7. Preserves({}) BY <1>2, <1>4 DEF Preserves, StartFetch, Items
<1>8. ASSUME NEW t \in Sources, t # s PROVE SourceInv(t)'
  <2>1. SourceInv(t) BY DEF IInv
  <2>2. \A i \in fetch[t].mine : item'[i] # None /\ item'[i].cluster = None
    BY <2>1 DEF SourceInv, TransactionOf, StartFetch
  <2> QED BY <1>1, <1>4, <1>7, <1>8, <2>1, <2>2, OthersStay DEF StartFetch, world
<1>9. SourceInv(s)'
  <2>1. SourceInv(s) BY DEF IInv
  <2>2. now \in Nat BY <1>1, NoneApart
  <2>3. TransactionOf(s)'
    <3>1. now' = now BY DEF StartFetch, world
    <3>2. fetch'[s].mine = {} /\ fetch'[s].at <= now' BY <1>2, <1>4, <2>2, <3>1
    <3> QED BY <3>2 DEF TransactionOf
  <2>4. WindowOf(s)' BY <1>2, <1>4, <2>1 DEF SourceInv, WindowOf, HasRead, Shown, StartFetch, world
  <2>5. ASSUME NEW a \in source[s].etag PROVE feed[a] # None /\ Safe(s, a)'
    <3>1. a \in Articles BY <1>1, <2>5, TypeParts DEF SourceRecords
    <3>2. feed[a] # None /\ Safe(s, a) BY <2>1, <2>5 DEF SourceInv, StoredOf
    <3> QED BY <1>7, <3>1, <3>2, SafeStays DEF StartFetch
  <2>6. StoredOf(s)' BY <1>2, <1>4, <2>5 DEF StoredOf, HasRead, StartFetch
  <2> QED BY <2>3, <2>4, <2>6 DEF SourceInv
<1>10. PhasesApart' /\ ClustersNamed'
  BY <1>5 DEF IInv, PhasesApart, ClustersNamed, Clusters, Items, StartFetch
<1> QED BY <1>6, <1>8, <1>9, <1>10 DEF IInv

\* What a window leaves out was in the feed of the last success, or came before the
\* window of the first; what a walk does not read is written down.
LEMMA ReadFeedInv == ASSUME IInv, NEW s \in Sources, ReadFeed(s) PROVE IInv'
<1>1. fetch[s] \in Fetches /\ source[s] \in SourceRecords /\ TypeOK /\ SourceInv(s)
      /\ feed \in [Articles -> Instants \cup {None}]
  BY TypeParts DEF IInv
<1>2. PICK read \in Walks(s), q \in Seq(Articles) :
         /\ fetch'[s] = [fetch[s] EXCEPT !.shown = Shown(s), !.unread = Fresh(s) \ read,
                                         !.todo = q,
                                         !.pc = IF q = <<>> THEN "record" ELSE "store"]
         /\ \A a \in Articles : Queued(q, a) <=> a \in Fresh(s) /\ a \in read /\ a \in Usable
  BY <1>1, ReadFeedStep
<1>3. fetch' \in [Sources -> Fetches] /\ \A t \in Sources \ {s} : fetch'[t] = fetch[t]
  BY <1>1, ReadFeedStep
<1>4. /\ fetch'[s].shown = Shown(s) /\ fetch'[s].todo = q /\ fetch'[s].mine = fetch[s].mine
      /\ fetch'[s].at = fetch[s].at /\ fetch'[s].unread = Fresh(s) \ read
      /\ fetch'[s].pc = IF q = <<>> THEN "record" ELSE "store"
  BY <1>1, <1>2 DEF Fetches
<1>5. fetch[s].mine = {} /\ fetch[s].pc = "fetch"
  BY <1>1 DEF ReadFeed, SourceInv, TransactionOf
<1>6. TypeOK' BY <1>1, <1>3, TypeParts DEF TypeOK, ReadFeed, world, Fetches
<1>7. Preserves({}) BY <1>3, <1>4 DEF Preserves, ReadFeed, Items
<1>8. ASSUME NEW t \in Sources, t # s PROVE SourceInv(t)'
  <2>1. SourceInv(t) BY DEF IInv
  <2>2. \A i \in fetch[t].mine : item'[i] # None /\ item'[i].cluster = None
    BY <2>1 DEF SourceInv, TransactionOf, ReadFeed
  <2> QED BY <1>1, <1>3, <1>7, <1>8, <2>1, <2>2, OthersStay DEF ReadFeed, world
<1>9. ASSUME NEW a \in Articles, Safe(s, a) PROVE Safe(s, a)' /\ Seen(s, a)'
  <2>1. feed'[a] = feed[a] /\ source' = source BY DEF ReadFeed
  <2>2. Kept(a) => Kept(a)' BY <1>7, <2>1, KeptStays
  <2>3. Kept(a)' => Has(s, a)' BY DEF Kept, Has
  <2>4. Excused(s, a) => Excused(s, a)' BY <2>1 DEF Excused, Unread
  <2> QED BY <1>9, <2>2, <2>3, <2>4 DEF Safe, Seen
<1>10. ASSUME NEW a \in Shown(s), ~Queued(q, a), ~Safe(s, a) PROVE PassedBy(s, a)'
  <2>1. a \in Articles /\ feed[a] # None /\ feed[a] \in Nat BY <1>1, NoneApart DEF Shown
  <2>2. Shown(s) # source[s].etag BY <1>1, <1>10 DEF SourceInv, StoredOf
  <2>3. a \in Usable BY <1>10 DEF Safe, Excused
  <2>4. UNCHANGED <<feed, source>> BY DEF ReadFeed
  <2>5. CASE a \in Fresh(s)
    <3>1. a \notin read BY <1>2, <1>10, <2>1, <2>3, <2>5
    <3>2. s \in Paged BY <3>1 DEF Walks
    <3> QED BY <1>4, <2>5, <3>1, <3>2 DEF PassedBy
  <2>6. CASE a \notin Fresh(s) /\ source[s].success = None
    <3>1. ~(feed[a] >= Since(s)) BY <1>10, <2>2, <2>6 DEF Fresh
    <3>2. Since(s) = Back(fetch[s].at, FirstWindow) BY <2>6 DEF Since
    <3>3. Back(fetch[s].at, FirstWindow) \in Nat
      <4>1. fetch[s].at \in Nat BY <1>1, NoneApart DEF Fetches
      <4> QED BY <4>1, FirstFetchReachesBack DEF Back
    <3>4. feed[a] < Back(fetch[s].at, FirstWindow) BY <2>1, <3>1, <3>2, <3>3
    <3> QED BY <1>4, <2>4, <2>6, <3>4 DEF PassedBy
  <2>7. CASE a \notin Fresh(s) /\ source[s].success # None
    <3>1. ~(feed[a] >= Since(s)) BY <1>10, <2>2, <2>7 DEF Fresh
    <3>2. source[s].success \in Nat BY <1>1, <2>7, NoneApart DEF SourceRecords
    <3>3. Since(s) = Back(source[s].success, Overlap) BY <2>7 DEF Since
    <3>4. feed[a] + Overlap < source[s].success
      BY <2>1, <3>1, <3>2, <3>3, FeedsAreTimely DEF Back
    <3>5. feed[a] + Lag < source[s].success BY <2>1, <3>2, <3>4, FeedsAreTimely
    <3>6. a \in source[s].etag BY <1>1, <2>7, <3>5 DEF SourceInv, WindowOf
    <3> QED BY <1>1, <1>10, <3>6 DEF SourceInv, StoredOf
  <2> QED BY <2>5, <2>6, <2>7
<1>11. SourceInv(s)'
  <2>1. TransactionOf(s)' BY <1>1, <1>4, <1>5 DEF SourceInv, TransactionOf, ReadFeed, world
  <2>2. WindowOf(s)' BY <1>1, <1>4 DEF SourceInv, WindowOf, Shown, ReadFeed, world
  <2>3. ASSUME NEW a \in source[s].etag PROVE feed[a] # None /\ Safe(s, a)'
    <3>1. a \in Articles BY <1>1, <2>3 DEF SourceRecords
    <3>2. feed[a] # None /\ Safe(s, a) BY <1>1, <2>3 DEF SourceInv, StoredOf
    <3> QED BY <1>9, <3>1, <3>2
  <2>4. ASSUME NEW a \in Shown(s) PROVE feed[a] # None /\ (Queued(q, a) \/ Seen(s, a)')
    <3>1. a \in Articles /\ feed[a] # None BY DEF Shown
    <3>2. Safe(s, a) => Seen(s, a)' BY <1>9, <3>1
    <3>3. PassedBy(s, a)' => Seen(s, a)' BY DEF Seen
    <3> QED BY <1>10, <3>1, <3>2, <3>3
  <2>5. \A a \in Articles : Queued(q, a) => a \in Shown(s) /\ SourceOf[a] = s
    BY <1>2 DEF Shown, Fresh
  <2>6. StoredOf(s)' BY <1>4, <2>3, <2>4, <2>5 DEF StoredOf, ReadFeed
  <2> QED BY <2>1, <2>2, <2>6 DEF SourceInv
<1>12. pass.pc = "collect" BY <1>5 DEF IInv, PhasesApart
<1>13. PhasesApart' /\ ClustersNamed'
  BY <1>12 DEF IInv, PhasesApart, ClustersNamed, Clusters, Items, ReadFeed
<1> QED BY <1>6, <1>8, <1>11, <1>13 DEF IInv
LEMMA StoreInv == ASSUME IInv, NEW s \in Sources, Store(s) PROVE IInv'
<1>1. /\ fetch[s] \in Fetches /\ TypeOK /\ SourceInv(s) /\ PhasesApart
      /\ \A t \in Sources : TransactionOf(t)
      /\ UNCHANGED <<now, feed, cluster, source, pass>>
  BY TypeParts DEF IInv, SourceInv, Store, world
<1>2. /\ item' \in [Articles -> NewsItems \cup {None}]
      /\ \A i \in Items : /\ item'[i] # None /\ item'[i].published = item[i].published
                          /\ item'[i].cluster = item[i].cluster
      /\ \A i \in Articles : item[i] = None => item'[i] = None \/ (item'[i].cluster = None /\ i \in fetch'[s].mine)
      /\ \A i \in fetch'[s].mine : item'[i] # None /\ item'[i].cluster = None
      /\ \A i \in fetch'[s].mine : i \in fetch[s].mine \/ (item[i] = None /\ SourceOf[i] = s)
  BY <1>1, StoreItems DEF SourceInv
<1>3. /\ fetch' \in [Sources -> Fetches] /\ \A t \in Sources \ {s} : fetch'[t] = fetch[t]
      /\ fetch[s].pc = "store" /\ fetch'[s].pc = "store"
      /\ fetch'[s].at = fetch[s].at /\ fetch'[s].shown = fetch[s].shown
      /\ fetch'[s].unread = fetch[s].unread
  BY <1>1, StoreStep
<1>4. PICK a \in Articles :
         /\ Queued(fetch[s].todo, a)
         /\ \A b \in Articles : Queued(fetch[s].todo, b) <=> (b = a \/ Queued(fetch'[s].todo, b))
         /\ Inserts(s, a) \/ \E i \in Articles : Touches(s, a, i)
  BY <1>1, StoreStep
<1>5. TypeOK' BY <1>1, <1>2, <1>3, TypeParts DEF TypeOK, Store, world, Fetches, NewsItems
<1>6. Preserves({}) BY <1>2, <1>3 DEF Preserves
<1>7. ASSUME NEW t \in Sources, t # s PROVE SourceInv(t)'
  <2>1. SourceInv(t) /\ fetch[t] \in Fetches BY TypeParts DEF IInv
  <2>2. \A i \in fetch[t].mine : i \in Items /\ item[i].cluster = None
    BY <2>1 DEF SourceInv, TransactionOf, Items, Fetches
  <2>3. \A i \in fetch[t].mine : item'[i] # None /\ item'[i].cluster = None BY <1>2, <2>2
  <2> QED BY <1>1, <1>3, <1>6, <1>7, <2>1, <2>3, OthersStay
<1>8. ASSUME NEW b \in Articles PROVE (Has(s, b) => Has(s, b)') /\ (Seen(s, b) => Seen(s, b)')
  BY <1>1, <1>3, <1>6, <1>8, HasStays, SeenStays
<1>9. Has(s, a)'
  <2>1. CASE Inserts(s, a)
    <3>1. a \in fetch'[s].mine BY <2>1 DEF Inserts
    <3>2. item'[a] # None BY <1>2, <3>1
    <3>3. a \in Duplicates(a, Items)' BY <3>2 DEF Duplicates, Items
    <3>4. ASSUME NEW t \in Sources \ {s} PROVE a \notin fetch'[t].mine
      <4>1. item[a] = None BY <2>1 DEF Inserts
      <4>2. a \notin fetch[t].mine BY <1>1, <4>1 DEF TransactionOf
      <4> QED BY <1>3, <4>2
    <3> QED BY <3>3, <3>4 DEF Has
  <2>2. CASE \E i \in Articles : Touches(s, a, i)
    <3>1. PICK i \in Articles : Touches(s, a, i) BY <2>2
    <3>2. i \in Duplicates(a, Items) /\ i \notin Uncommitted(s)
      BY <3>1 DEF Touches, Duplicates, Visible
    <3>3. Has(s, a) BY <3>2 DEF Has, Uncommitted
    <3> QED BY <1>8, <3>3
  <2> QED BY <1>4, <2>1, <2>2
<1>10. SourceInv(s)'
  <2>1. TransactionOf(s)' BY <1>1, <1>2, <1>3 DEF SourceInv, TransactionOf
  <2>2. WindowOf(s)' BY <1>1, <1>3 DEF SourceInv, WindowOf, Shown, HasRead
  <2>3. ASSUME NEW b \in source[s].etag PROVE feed[b] # None /\ Safe(s, b)'
    <3>1. b \in Articles BY <1>1, <2>3, TypeParts DEF SourceRecords
    <3>2. feed[b] # None /\ Safe(s, b) BY <1>1, <2>3 DEF SourceInv, StoredOf
    <3> QED BY <1>1, <1>6, <3>1, <3>2, SafeStays
  <2>4. ASSUME NEW b \in fetch[s].shown
        PROVE  feed[b] # None /\ (Queued(fetch'[s].todo, b) \/ Seen(s, b)')
    <3>1. b \in Articles BY <1>1 DEF Fetches
    <3>2. feed[b] # None /\ (Queued(fetch[s].todo, b) \/ Seen(s, b))
      BY <1>1, <1>3 DEF SourceInv, StoredOf, HasRead
    <3>3. Has(s, a)' => Seen(s, a)' BY DEF Seen
    <3> QED BY <1>4, <1>8, <1>9, <3>1, <3>2, <3>3
  <2>5. \A b \in Articles : Queued(fetch'[s].todo, b) => b \in fetch[s].shown /\ SourceOf[b] = s
    BY <1>1, <1>3, <1>4 DEF SourceInv, StoredOf, HasRead
  <2>6. StoredOf(s)' BY <1>1, <1>3, <2>3, <2>4, <2>5 DEF StoredOf
  <2> QED BY <2>1, <2>2, <2>6 DEF SourceInv
<1>11. PhasesApart' BY <1>1, <1>3 DEF PhasesApart
<1>12. ClustersNamed'
  <2>1. Clusters' = Clusters BY <1>1 DEF Clusters
  <2>2. ASSUME NEW c \in Clusters PROVE item'[c] # None /\ item'[c].cluster = c
    <3>1. c \in Items /\ item[c].cluster = c BY DEF IInv, ClustersNamed, Items, Clusters
    <3> QED BY <1>2, <3>1
  <2>3. ASSUME NEW i \in Items' PROVE item'[i].cluster \in Clusters \cup {None}
    <3>1. i \in Articles /\ item'[i] # None BY DEF Items
    <3>2. CASE i \in Items BY <1>2, <3>2 DEF IInv, ClustersNamed
    <3>3. CASE i \notin Items BY <1>2, <3>1, <3>3 DEF Items
    <3> QED BY <3>2, <3>3
  <2> QED BY <2>1, <2>2, <2>3 DEF ClustersNamed
<1> QED BY <1>5, <1>7, <1>10, <1>11, <1>12 DEF IInv

LEMMA CommitStep == ASSUME IInv, NEW s \in Sources, Commit(s) PROVE IInv'
<1>1. /\ fetch \in [Sources -> Fetches] /\ fetch[s] \in Fetches /\ TypeOK /\ SourceInv(s)
      /\ UNCHANGED <<now, feed, item, cluster, source, pass>>
  BY TypeParts DEF IInv, Commit, world
<1> DEFINE f == [fetch[s] EXCEPT !.pc = "record", !.mine = {}, !.touched = {}]
<1>2. /\ f \in Fetches /\ f.pc = "record" /\ f.mine = {} /\ f.at = fetch[s].at
      /\ f.shown = fetch[s].shown /\ f.unread = fetch[s].unread /\ f.todo = fetch[s].todo
  BY <1>1 DEF Fetches
<1>3. fetch' = [fetch EXCEPT ![s] = f] BY <1>1 DEF Commit, Fetches
<1> HIDE DEF f
<1>4. fetch' \in [Sources -> Fetches] /\ fetch'[s] = f /\ \A t \in Sources \ {s} : fetch'[t] = fetch[t]
  BY <1>1, <1>2, <1>3
<1>5. TypeOK' BY <1>1, <1>4, TypeParts DEF TypeOK, Commit, world, Fetches
<1>6. Preserves({}) BY <1>1, <1>2, <1>4 DEF Preserves, Items
<1>7. ASSUME NEW t \in Sources, t # s PROVE SourceInv(t)'
  <2>1. SourceInv(t) BY DEF IInv
  <2>2. \A i \in fetch[t].mine : item'[i] # None /\ item'[i].cluster = None
    BY <1>1, <2>1 DEF SourceInv, TransactionOf
  <2> QED BY <1>1, <1>4, <1>6, <1>7, <2>1, <2>2, OthersStay
<1>8. SourceInv(s)'
  <2>1. fetch[s].pc = "store" /\ fetch[s].todo = <<>> BY DEF Commit, Writing
  <2>2. TransactionOf(s)' BY <1>1, <1>2, <1>4 DEF SourceInv, TransactionOf
  <2>3. WindowOf(s)' BY <1>1, <1>2, <1>4, <2>1 DEF SourceInv, WindowOf, Shown, HasRead
  <2>4. ASSUME NEW b \in source[s].etag PROVE feed[b] # None /\ Safe(s, b)'
    <3>1. b \in Articles BY <1>1, <2>4, TypeParts DEF SourceRecords
    <3>2. feed[b] # None /\ Safe(s, b) BY <1>1, <2>4 DEF SourceInv, StoredOf
    <3> QED BY <1>1, <1>6, <3>1, <3>2, SafeStays
  <2>5. ASSUME NEW b \in fetch[s].shown
        PROVE  feed[b] # None /\ (Queued(fetch[s].todo, b) \/ Seen(s, b)')
    <3>1. b \in Articles BY <1>1 DEF Fetches
    <3>2. feed[b] # None /\ (Queued(fetch[s].todo, b) \/ Seen(s, b))
      BY <1>1, <2>1 DEF SourceInv, StoredOf, HasRead
    <3>3. Seen(s, b) => Seen(s, b)' BY <1>1, <1>2, <1>4, <1>6, <3>1, SeenStays
    <3> QED BY <3>2, <3>3
  <2>6. \A b \in Articles : Queued(fetch[s].todo, b) => b \in fetch[s].shown /\ SourceOf[b] = s
    BY <1>1, <2>1 DEF SourceInv, StoredOf, HasRead
  <2>7. StoredOf(s)' BY <1>1, <1>2, <1>4, <2>1, <2>4, <2>5, <2>6 DEF StoredOf
  <2> QED BY <2>2, <2>3, <2>7 DEF SourceInv
<1>9. PhasesApart' /\ ClustersNamed'
  <2>1. fetch[s].pc = "store" BY DEF Commit, Writing
  <2>2. pass.pc = "collect" BY <2>1 DEF IInv, PhasesApart
  <2> QED BY <1>1, <2>2 DEF IInv, PhasesApart, ClustersNamed, Clusters, Items
<1> QED BY <1>5, <1>7, <1>8, <1>9 DEF IInv
\* A fetch that fails takes back what its transaction inserted, nothing else.
LEMMA FailSourceInv ==
  ASSUME IInv, NEW s \in Sources, FailSource(s), faults' \in Nat
  PROVE  IInv'
<1>1. /\ fetch[s] \in Fetches /\ TypeOK /\ UNCHANGED <<now, edits, feed, cluster, pass>>
      /\ fetch[s].pc # "idle"
  BY TypeParts DEF IInv, FailSource
<1>2. /\ fetch' \in [Sources -> Fetches] /\ source' \in [Sources -> SourceRecords]
      /\ item' \in [Articles -> NewsItems \cup {None}]
      /\ fetch'[s] = Quiet /\ \A t \in Sources \ {s} : fetch'[t] = fetch[t]
      /\ \A t \in Sources : /\ source'[t].success = source[t].success
                            /\ source'[t].etag = source[t].etag
                               /\ source'[t].reach = source[t].reach
                               /\ source'[t].unread = source[t].unread
      /\ \A a \in Articles : item'[a] = IF a \in fetch[s].mine THEN None ELSE item[a]
  BY <1>1, FailSourceStep
<1>3. Quiet.pc = "idle" /\ Quiet.mine = {} /\ Quiet.at = 0 BY DEF Quiet
<1>4. TypeOK' BY <1>1, <1>2, TypeParts DEF TypeOK, Fetches, SourceRecords
<1>5. Preserves(fetch[s].mine)
  <2>1. \A i \in Items \ fetch[s].mine : item'[i] # None /\ item'[i].published = item[i].published
    BY <1>2 DEF Items
  <2>2. \A t \in Sources : \A i \in fetch'[t].mine : i \in fetch[t].mine
    BY <1>2, <1>3
  <2> QED BY <2>1, <2>2 DEF Preserves
<1>6. \A t \in Sources : \A i \in fetch[t].mine : i \in Articles /\ item[i] # None /\ item[i].cluster = None
  BY <1>1, TypeParts DEF IInv, SourceInv, TransactionOf, Fetches
<1>7. PhasesApart' BY <1>1, <1>2, <1>3 DEF IInv, PhasesApart
<1>8. ClustersNamed'
  <2>1. Clusters' = Clusters BY <1>1 DEF Clusters
  <2>2. ASSUME NEW c \in Clusters PROVE item'[c] # None /\ item'[c].cluster = c
    <3>1. c \in Articles /\ item[c] # None /\ item[c].cluster = c BY DEF IInv, ClustersNamed, Clusters
    <3>2. c \notin fetch[s].mine BY <1>6, <3>1, NoneApart
    <3> QED BY <1>2, <3>1, <3>2
  <2>3. ASSUME NEW i \in Items' PROVE item'[i].cluster \in Clusters \cup {None}
    <3>1. i \in Items /\ item'[i] = item[i] BY <1>2 DEF Items
    <3> QED BY <3>1 DEF IInv, ClustersNamed
  <2> QED BY <2>1, <2>2, <2>3 DEF ClustersNamed
<1>9. ASSUME NEW t \in Sources, t # s PROVE SourceInv(t)'
  <2>1. SourceInv(t) BY DEF IInv
  <2>2. ASSUME NEW i \in fetch[t].mine PROVE item'[i] # None /\ item'[i].cluster = None
    <3>1. i \notin fetch[s].mine BY <1>9 DEF IInv, SourceInv, TransactionOf
    <3> QED BY <1>2, <1>6, <3>1
  <2> QED BY <1>1, <1>2, <1>5, <1>9, <2>1, <2>2, OthersStay
<1>10. SourceInv(s)'
  <2>1. SourceInv(s) /\ now \in Nat BY <1>1, TypeParts, NoneApart DEF IInv
  <2>2. fetch'[s].mine = {} /\ fetch'[s].at <= now' BY <1>1, <1>2, <1>3, <2>1
  <2>3. TransactionOf(s)' BY <2>2 DEF TransactionOf
  <2>4. WindowOf(s)' BY <1>1, <1>2, <1>3, <2>1 DEF SourceInv, WindowOf, HasRead, Shown
  <2>5. ASSUME NEW a \in source'[s].etag PROVE feed[a] # None /\ Safe(s, a)'
    <3>1. a \in Articles BY <1>2, <2>5 DEF SourceRecords
    <3>2. feed[a] # None /\ Safe(s, a) BY <1>2, <2>1, <2>5 DEF SourceInv, StoredOf
    <3> QED BY <1>1, <1>2, <1>5, <3>1, <3>2, SafeStays
  <2>6. StoredOf(s)' BY <1>1, <1>2, <1>3, <2>5 DEF StoredOf, HasRead
  <2> QED BY <2>3, <2>4, <2>6 DEF SourceInv
<1> QED BY <1>4, <1>7, <1>8, <1>9, <1>10 DEF IInv

\* Once the batch is committed all the feed showed is in the database for good.
LEMMA RecordInv == ASSUME IInv, NEW s \in Sources, RecordSuccess(s) PROVE IInv'
<1>1. /\ fetch[s] \in Fetches /\ TypeOK /\ SourceInv(s) /\ fetch[s].pc = "record"
      /\ UNCHANGED <<now, faults, edits, feed, item, cluster, pass>>
  BY TypeParts DEF IInv, RecordSuccess, world
<1>2. /\ fetch' \in [Sources -> Fetches] /\ source' \in [Sources -> SourceRecords]
      /\ fetch'[s] = Quiet /\ \A t \in Sources \ {s} : fetch'[t] = fetch[t]
      /\ source'[s].success = fetch[s].at /\ source'[s].etag = fetch[s].shown
      /\ source'[s].reach = IF source[s].success = None THEN Back(fetch[s].at, FirstWindow)
                            ELSE source[s].reach
      /\ source'[s].unread = source[s].unread \cup fetch[s].unread
      /\ \A t \in Sources \ {s} : source'[t] = source[t]
  BY <1>1, RecordStep
<1>3. Quiet.pc = "idle" /\ Quiet.mine = {} /\ Quiet.at = 0 BY DEF Quiet
<1>4. TypeOK' BY <1>1, <1>2, TypeParts DEF TypeOK, Fetches, SourceRecords
<1>5. Preserves({}) BY <1>1, <1>2, <1>3 DEF Preserves, Items
<1>6. ASSUME NEW t \in Sources, t # s PROVE SourceInv(t)'
  <2>1. SourceInv(t) BY DEF IInv
  <2>2. \A i \in fetch[t].mine : item'[i] # None /\ item'[i].cluster = None
    BY <1>1, <2>1 DEF SourceInv, TransactionOf
  <2> QED BY <1>1, <1>2, <1>5, <1>6, <2>1, <2>2, OthersStay
<1>7. SourceInv(s)'
  <2>1. now \in Nat /\ fetch[s].at <= now BY <1>1, TypeParts, NoneApart DEF SourceInv, TransactionOf
  <2>2. fetch'[s].mine = {} /\ fetch'[s].at <= now' BY <1>1, <1>2, <1>3, <2>1
  <2>3. TransactionOf(s)' BY <2>2 DEF TransactionOf
  <2>4. WindowOf(s)'
    <3>1. fetch[s].at # None BY <1>1, NoneApart DEF Fetches
    <3> QED BY <1>1, <1>2, <1>3, <2>1, <3>1 DEF SourceInv, WindowOf, HasRead, Shown
  <2>5. ASSUME NEW a \in fetch[s].shown PROVE feed[a] # None /\ Safe(s, a)'
    <3>1. a \in Articles BY <1>1 DEF Fetches
    <3>2. fetch[s].todo = <<>> BY <1>1 DEF SourceInv, StoredOf
    <3>3. feed[a] # None /\ Seen(s, a)
      BY <1>1, <3>2, NothingQueued DEF SourceInv, StoredOf, HasRead
    <3>4. fetch[s].mine = {} BY <1>1 DEF SourceInv, TransactionOf
    <3>5. feed[a] \in Nat /\ feed' = feed BY <1>1, <3>1, <3>3, TypeParts, NoneApart
    <3>6. CASE Has(s, a)
      <4>1. Kept(a) BY <3>4, <3>6 DEF Has, Kept
      <4> QED BY <1>1, <1>5, <3>1, <3>3, <4>1, KeptStays DEF Safe
    <3>7. CASE Excused(s, a)
      <4>1. source[s].success = None => source[s].reach = 0 BY <1>1 DEF SourceInv, WindowOf
      <4>2. feed[a] < source[s].reach => source'[s].reach = source[s].reach BY <1>2, <3>5, <4>1
      <4>3. Excused(s, a)' BY <1>2, <3>5, <3>7, <4>2 DEF Excused, Unread
      <4> QED BY <3>3, <4>3 DEF Safe
    <3>8. CASE PassedBy(s, a)
      <4>1. Excused(s, a)' BY <1>2, <3>5, <3>8 DEF Excused, Unread, PassedBy
      <4> QED BY <3>3, <4>1 DEF Safe
    <3> QED BY <3>3, <3>6, <3>7, <3>8 DEF Seen
  <2>6. StoredOf(s)' BY <1>1, <1>2, <1>3, <2>5 DEF StoredOf, HasRead
  <2> QED BY <2>3, <2>4, <2>6 DEF SourceInv
<1>8. PhasesApart' /\ ClustersNamed'
  BY <1>1, <1>2, <1>3 DEF IInv, PhasesApart, ClustersNamed, Clusters, Items
<1> QED BY <1>4, <1>6, <1>7, <1>8 DEF IInv
(***************************************************************************)
(* Clusters.                                                               *)
(***************************************************************************)
LEMMA SourcesCount ==
  ASSUME NEW as \in SUBSET Articles
  PROVE  Cardinality(SourcesOf(as)) \in Nat
<1>1. IsFiniteSet(as) BY FiniteArticles, FS_Subset
<1> DEFINE f == [a \in as |-> SourceOf[a]]
<1>2. f \in Surjection(as, SourcesOf(as)) BY DEF Surjection, SourcesOf
<1>3. IsFiniteSet(SourcesOf(as)) BY <1>1, <1>2, FS_Surjection
<1> QED BY <1>3, FS_CardinalityType

\* What one assignment does: the item a, which had no cluster, becomes a member
\* of c, and no other item or cluster changes.
Assigned(a, c) ==
  /\ a \in Items /\ item[a].cluster = None /\ c \in Articles
  /\ item' \in [Articles -> NewsItems \cup {None}]
  /\ cluster' \in [Articles -> NewsClusters \cup {None}]
  /\ item'[a] # None /\ item'[a].cluster = c /\ item'[a].published = item[a].published
  /\ item'[a].seen = item[a].seen
  /\ \A i \in Articles \ {a} : item'[i] = item[i]
  /\ cluster'[c] # None /\ \A d \in Articles \ {c} : cluster'[d] = cluster[d]

Created(a) ==
  cluster'[a] = [title |-> TitleOf[a], from |-> SourceOf[a], first |-> item[a].published,
                 seen |-> item[a].seen, last |-> item[a].last, count |-> 1]

Joined(a, c) ==
  LET better == Priority[SourceOf[a]] > Priority[cluster[c].from] IN
  /\ cluster'[c].title = IF better THEN TitleOf[a] ELSE cluster[c].title
  /\ cluster'[c].from = IF better THEN SourceOf[a] ELSE cluster[c].from
  /\ cluster'[c].first = Least(cluster[c].first, item[a].published)
  /\ cluster'[c].seen = Least(cluster[c].seen, item[a].seen)
  /\ cluster'[c].count = Cardinality(SourcesOf(Members(c) \cup {a}))

LEMMA ItemAssigned ==
  ASSUME TypeOK, NEW a \in Items, NEW c \in Articles, item' = [item EXCEPT ![a].cluster = c]
  PROVE  /\ item' \in [Articles -> NewsItems \cup {None}]
         /\ item'[a] # None /\ item'[a].cluster = c /\ item'[a].published = item[a].published
         /\ item'[a].seen = item[a].seen
         /\ \A i \in Articles \ {a} : item'[i] = item[i]
<1>1. item \in [Articles -> NewsItems \cup {None}] /\ a \in Articles /\ item[a] \in NewsItems
  BY TypeParts DEF Items
<1> DEFINE r == [item[a] EXCEPT !.cluster = c]
<1>2. /\ r \in NewsItems /\ r.cluster = c /\ r.published = item[a].published
      /\ r.seen = item[a].seen
  BY <1>1 DEF NewsItems
<1>3. item' = [item EXCEPT ![a] = r] BY <1>1 DEF NewsItems
<1>4. r # None BY <1>2, NoneApart
<1> HIDE DEF r
<1> QED BY <1>1, <1>2, <1>3, <1>4

LEMMA AssignStep ==
  ASSUME IInv, NEW a \in Articles, Assign(a)
  PROVE  \/ Assigned(a, a) /\ Created(a) /\ cluster[a] = None
         \/ \E c \in Clusters : Assigned(a, c) /\ Joined(a, c)
<1>1. TypeOK /\ a \in Items /\ item[a].cluster = None BY DEF IInv, Assign, Oldest, Pending
<1>2. item[a] \in NewsItems /\ cluster \in [Articles -> NewsClusters \cup {None}]
  BY <1>1, TypeParts DEF Items
<1>3. SourceOf[a] \in Sources BY ArticlesOfSources
<1>4. CASE CreateCluster(a)
  <2> DEFINE r == [title |-> TitleOf[a], from |-> SourceOf[a], first |-> item[a].published,
                   seen |-> item[a].seen, last |-> item[a].last, count |-> 1]
  <2>1. r \in NewsClusters BY <1>2, <1>3 DEF NewsClusters, NewsItems
  <2>2. r # None BY <2>1, NoneApart
  <2>3. cluster' = [cluster EXCEPT ![a] = r] /\ item' = [item EXCEPT ![a].cluster = a]
    BY <1>4 DEF CreateCluster
  <2>4. cluster[a] = None BY <1>1, NoneApart DEF IInv, ClustersNamed, Clusters
  <2> HIDE DEF r
  <2>5. Assigned(a, a) BY <1>1, <1>2, <2>1, <2>2, <2>3, ItemAssigned DEF Assigned
  <2>6. Created(a) BY <1>2, <2>3 DEF Created, r
  <2> QED BY <2>4, <2>5, <2>6
<1>5. ASSUME NEW c \in Candidates(a), JoinCluster(a, c)
      PROVE  c \in Clusters /\ Assigned(a, c) /\ Joined(a, c)
  <2>1. c \in Articles /\ c \in Clusters /\ cluster[c] \in NewsClusters
    BY <1>2 DEF Candidates, Clusters
  <2> DEFINE better == Priority[SourceOf[a]] > Priority[cluster[c].from]
             title == IF better THEN TitleOf[a] ELSE cluster[c].title
             from  == IF better THEN SourceOf[a] ELSE cluster[c].from
             first == Least(cluster[c].first, item[a].published)
             seen  == Least(cluster[c].seen, item[a].seen)
             last  == Most(cluster[c].last, item[a].last)
             n     == Recount(c, a)
             r == [title |-> title, from |-> from, first |-> first,
                   seen |-> seen, last |-> last, count |-> n]
  <2>2. n \in Nat
    <3>1. PICK as : as = Members(c) \cup {a} OBVIOUS
    <3>2. as \in SUBSET Articles BY <3>1 DEF Members, Items
    <3>3. Cardinality(SourcesOf(as)) \in Nat BY <3>2, SourcesCount
    <3> QED BY <3>1, <3>3 DEF Recount
  <2>3. title \in {TitleOf[b] : b \in Articles} /\ from \in Sources
    BY <1>3, <2>1 DEF NewsClusters
  <2>4. first \in Instants /\ seen \in Instants /\ last \in Instants
    BY <1>2, <2>1 DEF NewsClusters, NewsItems, Least, Most
  <2>5. cluster' = [cluster EXCEPT ![c] = r] /\ item' = [item EXCEPT ![a].cluster = c]
    BY <1>2, <2>1, <1>5 DEF JoinCluster
  <2> HIDE DEF title, from, first, seen, last, n
  <2>6. r \in NewsClusters BY <2>2, <2>3, <2>4 DEF NewsClusters
  <2>7. r # None BY <2>6, NoneApart
  <2>8. r.title = title /\ r.from = from /\ r.first = first /\ r.seen = seen /\ r.count = n
    OBVIOUS
  <2> HIDE DEF r
  <2>9. Assigned(a, c) BY <1>1, <1>2, <2>1, <2>5, <2>6, <2>7, ItemAssigned DEF Assigned
  <2>10. cluster'[c] = r BY <1>2, <2>1, <2>5
  <2>11. Joined(a, c)
    BY <2>8, <2>10 DEF Joined, title, from, first, seen, n, Recount
  <2> QED BY <2>1, <2>9, <2>11
<1>6. CreateCluster(a) \/ \E c \in Candidates(a) : JoinCluster(a, c) BY DEF Assign
<1>7. CASE CreateCluster(a) BY <1>4, <1>7
<1>8. CASE \E c \in Candidates(a) : JoinCluster(a, c) BY <1>5, <1>8
<1> QED BY <1>6, <1>7, <1>8
LEMMA AssignInv == ASSUME IInv, NEW a \in Articles, Assign(a) PROVE IInv'
<1>1. /\ TypeOK /\ UNCHANGED <<now, faults, edits, feed, source, fetch>>
      /\ pass.pc = "enrich" /\ pass' \in Passes /\ pass'.pc = "enrich"
  BY TypeParts DEF IInv, Assign, world, Passes
<1>2. PICK c \in Articles : Assigned(a, c) /\ (c = a \/ c \in Clusters)
  BY AssignStep DEF Clusters
<1>3. TypeOK' BY <1>1, <1>2, TypeParts DEF Assigned, TypeOK, Passes
<1>4. \A s \in Sources : fetch[s].pc = "idle" BY <1>1 DEF IInv, PhasesApart
<1>5. \A s \in Sources : fetch[s].mine = {} BY <1>4 DEF IInv, SourceInv, TransactionOf
<1>6. Preserves({})
  <2>1. \A i \in Items : item'[i] # None /\ item'[i].published = item[i].published
    BY <1>2 DEF Assigned, Items
  <2> QED BY <1>1, <2>1 DEF Preserves
<1>7. ASSUME NEW s \in Sources PROVE SourceInv(s)'
  <2>1. SourceInv(s) BY DEF IInv
  <2> QED BY <1>1, <1>5, <1>6, <2>1, OthersStay
<1>8. PhasesApart' BY <1>1, <1>4 DEF PhasesApart
<1>9. ClustersNamed'
  <2>1. Clusters' = Clusters \cup {c} BY <1>2 DEF Assigned, Clusters
  <2>2. ASSUME NEW d \in Clusters' PROVE item'[d] # None /\ item'[d].cluster = d
    <3>1. CASE d = a /\ c = a BY <1>2, <3>1 DEF Assigned
    <3>2. CASE d \in Clusters
      <4>1. d \in Articles /\ item[d] # None /\ item[d].cluster = d
        BY <3>2 DEF IInv, ClustersNamed, Clusters
      <4>2. d # a BY <1>2, <4>1, NoneApart DEF Assigned
      <4> QED BY <1>2, <4>1, <4>2 DEF Assigned
    <3> QED BY <1>2, <2>1, <3>1, <3>2
  <2>3. ASSUME NEW i \in Items' PROVE item'[i].cluster \in Clusters' \cup {None}
    <3>1. CASE i = a BY <1>2, <2>1, <3>1 DEF Assigned
    <3>2. CASE i # a
      <4>1. item'[i] = item[i] /\ i \in Items BY <1>2, <3>2 DEF Assigned, Items
      <4> QED BY <2>1, <4>1 DEF IInv, ClustersNamed
    <3> QED BY <3>1, <3>2
  <2> QED BY <2>2, <2>3 DEF ClustersNamed
<1> QED BY <1>3, <1>7, <1>8, <1>9 DEF IInv

\* Nothing that belongs to a cluster changes, and nothing joins one.
Settled ==
  /\ cluster' = cluster
  /\ \A i \in Articles : item[i] # None /\ item[i].cluster # None =>
       /\ item'[i] # None /\ item'[i].cluster = item[i].cluster
       /\ item'[i].published = item[i].published /\ item'[i].seen = item[i].seen
  /\ \A i \in Articles : item'[i] # None /\ item'[i].cluster # None =>
       item[i] # None /\ item[i].cluster = item'[i].cluster

LEMMA SettledAddsUp == ASSUME ClusterAddsUp, Settled PROVE ClusterAddsUp'
<1>1. Clusters' = Clusters BY DEF Settled, Clusters
<1>2. ASSUME NEW c \in Clusters
      PROVE  LET in == Members(c)' IN
             /\ in # {}
             /\ cluster'[c].count = Cardinality(SourcesOf(in))
             /\ \A a \in in : /\ cluster'[c].first <= item'[a].published
                              /\ cluster'[c].seen <= item'[a].seen
                              /\ Priority[SourceOf[a]] <= Priority[cluster'[c].from]
             /\ \E a \in in : cluster'[c].first = item'[a].published
             /\ \E a \in in : cluster'[c].title = TitleOf[a] /\ cluster'[c].from = SourceOf[a]
  <2>1. c # None BY NoneApart DEF Clusters
  <2>2. Members(c)' = Members(c) BY <2>1 DEF Settled, Members, Items
  <2>3. \A a \in Members(c) : item'[a].published = item[a].published /\ item'[a].seen = item[a].seen
    BY <2>1 DEF Settled, Members, Items
  <2>4. cluster' = cluster BY DEF Settled
  <2>5. PICK in : in = Members(c) OBVIOUS
  <2> QED BY <2>2, <2>3, <2>4, <2>5 DEF ClusterAddsUp
<1> QED BY <1>1, <1>2 DEF ClusterAddsUp, SourcesOf
\* What ClusterAddsUp says of one cluster and its members.
AddsUp(k, in, items) ==
  /\ in # {}
  /\ k.count = Cardinality(SourcesOf(in))
  /\ \A a \in in : /\ k.first <= items[a].published
                   /\ k.seen <= items[a].seen
                   /\ Priority[SourceOf[a]] <= Priority[k.from]
  /\ \E a \in in : k.first = items[a].published
  /\ \E a \in in : k.title = TitleOf[a] /\ k.from = SourceOf[a]

LEMMA AddsUpEach ==
  /\ ClusterAddsUp <=> \A c \in Clusters : AddsUp(cluster[c], Members(c), item)
  /\ ClusterAddsUp' <=> \A c \in Clusters' : AddsUp(cluster'[c], Members(c)', item')
  BY DEF ClusterAddsUp, AddsUp, SourcesOf

\* An assignment changes the members of one cluster.
LEMMA AssignedMembers ==
  ASSUME IInv, NEW a \in Articles, NEW c \in Articles, Assigned(a, c)
  PROVE  /\ Members(c)' = Members(c) \cup {a}
         /\ \A d \in Articles \ {c} : Members(d)' = Members(d)
<1>1. None \notin Articles BY NoneApart
<1> QED BY <1>1 DEF Assigned, Members, Items

LEMMA CreatedAddsUp ==
  ASSUME IInv, NEW a \in Articles, Assigned(a, a), Created(a), cluster[a] = None
  PROVE  AddsUp(cluster'[a], Members(a)', item')
<1>1. a \in Items /\ item[a] \in NewsItems BY TypeParts DEF IInv, Assigned, Items
<1>2. Members(a) = {}
  <2>1. \A i \in Items : item[i].cluster # a BY NoneApart DEF IInv, ClustersNamed, Clusters
  <2> QED BY <2>1 DEF Members
<1>3. Members(a)' = {a} BY <1>2, AssignedMembers
<1>4. item'[a].published = item[a].published /\ item'[a].seen = item[a].seen
      /\ item[a].published \in Nat /\ item[a].seen \in Nat
  BY <1>1, NoneApart DEF Assigned, NewsItems
<1>5. SourcesOf({a}) = {SourceOf[a]} BY DEF SourcesOf
<1>6. Cardinality({SourceOf[a]}) = 1 BY FS_Singleton
<1>7. Priority[SourceOf[a]] \in Nat BY ArticlesOfSources, PriorityIsNumber
<1>8. /\ cluster'[a].title = TitleOf[a] /\ cluster'[a].from = SourceOf[a]
      /\ cluster'[a].first = item[a].published /\ cluster'[a].seen = item[a].seen
      /\ cluster'[a].count = 1
  BY DEF Created
<1>9. cluster'[a].count = Cardinality(SourcesOf({a})) BY <1>5, <1>6, <1>8
<1> QED BY <1>3, <1>4, <1>7, <1>8, <1>9 DEF AddsUp

LEMMA JoinedAddsUp ==
  ASSUME IInv, NEW a \in Articles, NEW c \in Clusters, Assigned(a, c), Joined(a, c),
         AddsUp(cluster[c], Members(c), item)
  PROVE  AddsUp(cluster'[c], Members(c)', item')
<1>1. /\ c \in Articles /\ cluster[c] \in NewsClusters
      /\ item \in [Articles -> NewsItems \cup {None}]
  BY TypeParts DEF IInv, Clusters
<1>2. Members(c)' = Members(c) \cup {a} /\ a \notin Members(c) /\ Members(c) \subseteq Items
  <2>1. a \notin Members(c) BY <1>1, NoneApart DEF Assigned, Members
  <2> QED BY <1>1, <2>1, AssignedMembers DEF Members
<1>3. \A i \in Members(c) \cup {a} :
        /\ item'[i].published = item[i].published /\ item'[i].seen = item[i].seen
        /\ item[i].published \in Nat /\ item[i].seen \in Nat
        /\ SourceOf[i] \in Sources /\ Priority[SourceOf[i]] \in Nat
  <2>1. \A i \in Items : item[i].published \in Nat /\ item[i].seen \in Nat
    BY <1>1, NoneApart DEF Items, NewsItems
  <2>2. \A i \in Items : SourceOf[i] \in Sources /\ Priority[SourceOf[i]] \in Nat
    BY ArticlesOfSources, PriorityIsNumber DEF Items
  <2>3. a \in Items BY DEF Assigned
  <2>4. \A i \in Items : item'[i].published = item[i].published /\ item'[i].seen = item[i].seen
    BY DEF Assigned, Items
  <2> QED BY <1>2, <2>1, <2>2, <2>3, <2>4
<1>4. /\ cluster[c].first \in Nat /\ cluster[c].seen \in Nat
      /\ cluster[c].from \in Sources /\ Priority[cluster[c].from] \in Nat
  BY <1>1, NoneApart, PriorityIsNumber DEF NewsClusters
<1> DEFINE better == Priority[SourceOf[a]] > Priority[cluster[c].from]
<1>5. /\ cluster'[c].title = IF better THEN TitleOf[a] ELSE cluster[c].title
      /\ cluster'[c].from = IF better THEN SourceOf[a] ELSE cluster[c].from
      /\ cluster'[c].first = Least(cluster[c].first, item[a].published)
      /\ cluster'[c].seen = Least(cluster[c].seen, item[a].seen)
      /\ cluster'[c].count = Cardinality(SourcesOf(Members(c) \cup {a}))
  BY DEF Joined
<1>6. cluster'[c].count = Cardinality(SourcesOf(Members(c)')) BY <1>2, <1>5
<1>7. \A i \in Members(c) : /\ cluster[c].first <= item[i].published
                            /\ cluster[c].seen <= item[i].seen
                            /\ Priority[SourceOf[i]] <= Priority[cluster[c].from]
  BY DEF AddsUp
<1>8. ASSUME NEW i \in Members(c) \cup {a}
      PROVE  /\ cluster'[c].first <= item'[i].published
             /\ cluster'[c].seen <= item'[i].seen
  BY <1>3, <1>4, <1>5, <1>7 DEF Least
<1>9. ASSUME NEW i \in Members(c) \cup {a}
      PROVE  Priority[SourceOf[i]] <= Priority[cluster'[c].from]
  BY <1>3, <1>4, <1>5, <1>7
<1>10. \E i \in Members(c) \cup {a} : cluster'[c].first = item'[i].published
  <2>1. PICK i \in Members(c) : cluster[c].first = item[i].published BY DEF AddsUp
  <2>2. cluster'[c].first = item[a].published \/ cluster'[c].first = item[i].published
    BY <1>5, <2>1 DEF Least
  <2> QED BY <1>3, <2>1, <2>2
<1>11. \E i \in Members(c) \cup {a} : cluster'[c].title = TitleOf[i] /\ cluster'[c].from = SourceOf[i]
  <2>1. PICK i \in Members(c) : cluster[c].title = TitleOf[i] /\ cluster[c].from = SourceOf[i]
    BY DEF AddsUp
  <2> QED BY <1>5, <2>1
<1> QED BY <1>2, <1>6, <1>8, <1>9, <1>10, <1>11 DEF AddsUp

LEMMA AssignAddsUp ==
  ASSUME IInv, ClusterAddsUp, NEW a \in Articles, Assign(a)
  PROVE  ClusterAddsUp'
<1>1. ASSUME NEW c \in Articles, Assigned(a, c), AddsUp(cluster'[c], Members(c)', item')
      PROVE  ClusterAddsUp'
  <2>1. ASSUME NEW d \in Clusters', d # c PROVE AddsUp(cluster'[d], Members(d)', item')
    <3>1. d \in Articles /\ d \in Clusters /\ cluster'[d] = cluster[d]
      BY <1>1, <2>1 DEF Assigned, Clusters
    <3>2. Members(d)' = Members(d) BY <1>1, <2>1, <3>1, AssignedMembers
    <3>3. AddsUp(cluster[d], Members(d), item) BY <3>1, AddsUpEach
    <3>4. \A i \in Members(d) : /\ item'[i].published = item[i].published
                                /\ item'[i].seen = item[i].seen
      BY <1>1 DEF Assigned, Members, Items
    <3> QED BY <3>1, <3>2, <3>3, <3>4 DEF AddsUp
  <2> QED BY <1>1, <2>1, AddsUpEach
<1>2. CASE Assigned(a, a) /\ Created(a) /\ cluster[a] = None
  BY <1>1, <1>2, CreatedAddsUp
<1>3. ASSUME NEW c \in Clusters, Assigned(a, c), Joined(a, c) PROVE ClusterAddsUp'
  <2>1. AddsUp(cluster[c], Members(c), item) BY AddsUpEach
  <2>2. AddsUp(cluster'[c], Members(c)', item') BY <1>3, <2>1, JoinedAddsUp
  <2> QED BY <1>1, <1>3, <2>2 DEF Clusters
<1> QED BY <1>2, <1>3, AssignStep
(***************************************************************************)
(* Theorems.                                                               *)
(***************************************************************************)
LEMMA InvNext == IInv /\ [Next]_vars => IInv'
<1> SUFFICES ASSUME IInv, [Next]_vars PROVE IInv' OBVIOUS
<1>1. /\ TypeOK /\ now \in Instants /\ now \in Nat /\ faults \in Nat /\ edits \in Nat
      /\ pass \in Passes /\ PhasesApart
  BY TypeParts, NoneApart DEF IInv
<1>2. CASE Tick
  <2>1. now' \in Instants /\ now <= now' BY <1>1, <1>2, FiniteTime DEF Tick, Instants
  <2> QED BY <1>1, <1>2, <2>1, QuietStep DEF Tick, PhasesApart
<1>3. CASE AssignFails
  <2>1. pass' \in Passes /\ pass.pc = "enrich" BY <1>1, <1>3 DEF AssignFails, Passes
  <2>2. PhasesApart' BY <1>1, <1>3, <2>1 DEF AssignFails, PhasesApart
  <2> QED BY <1>1, <1>3, <2>1, <2>2, QuietStep DEF AssignFails
<1>4. CASE StartPass
  <2>1. pass' \in Passes /\ PhasesApart' BY <1>1, <1>4 DEF StartPass, Passes, PhasesApart
  <2> QED BY <1>1, <1>4, <2>1, QuietStep DEF StartPass, world
<1>5. CASE StartEnrichment
  <2>1. pass' \in Passes /\ PhasesApart'
    BY <1>1, <1>5 DEF StartEnrichment, Passes, PhasesApart, Busy
  <2> QED BY <1>1, <1>5, <2>1, QuietStep DEF StartEnrichment, world
<1>6. CASE EndPass
  <2>1. pass' \in Passes /\ PhasesApart' BY <1>1, <1>6 DEF EndPass, Passes, PhasesApart
  <2> QED BY <1>1, <1>6, <2>1, QuietStep DEF EndPass, world
<1>7. CASE UNCHANGED vars
  <2>1. PhasesApart' BY <1>1, <1>7 DEF vars, PhasesApart
  <2> QED BY <1>1, <1>7, <2>1, QuietStep DEF vars
<1>8. CASE \E a \in Articles : Assign(a) BY <1>8, AssignInv
<1>9. CASE \E a \in Articles : Appear(a) BY <1>9, AppearStep
<1>10. ASSUME NEW s \in Sources, SourceStep(s) PROVE IInv'
  <2>1. CASE Victim(s)
    <3>1. FailSource(s) /\ faults' \in Nat BY <1>1, <2>1 DEF Victim
    <3> QED BY <3>1, FailSourceInv
  <2> QED BY <1>10, <2>1, StartFetchStep, ReadFeedInv, StoreInv, CommitStep, RecordInv DEF SourceStep
<1>11. ASSUME NEW s \in Sources, Fault(s) PROVE IInv'
  <2>1. FailSource(s) /\ faults' \in Nat BY <1>1, <1>11 DEF Fault
  <2> QED BY <2>1, FailSourceInv
<1>12. ASSUME NEW s \in Sources, NEW on \in BOOLEAN, SetEnabled(s, on) PROVE IInv'
  BY <1>12, SetEnabledStep
<1> QED
  BY <1>2, <1>3, <1>4, <1>5, <1>6, <1>7, <1>8, <1>9, <1>10, <1>11, <1>12 DEF Next, PassStep

\* Whoever is enabled, scheduled, failed or fetched: the state stays one in
\* which articles, items, clusters and transactions fit together.
THEOREM InvHolds == Spec => []IInv
  BY InvInit, InvNext, PTL DEF Spec

\* The model's variables keep their types.
THEOREM TypeCorrect == Spec => []TypeOK
<1>1. IInv => TypeOK BY DEF IInv
<1> QED BY <1>1, InvHolds, PTL

\* Whatever the windows, the lag of the feeds and the walks over them: each article of a
\* remembered feed version is stored, or one the collector leaves out by what it is; no
\* 304 stands for an article that a failed fetch, an aborted transaction or a late
\* publication has left out (collector.go:145-198).
THEOREM NothingMissedHolds == Spec => []NothingMissed
<1>1. IInv => NothingMissed BY DEF IInv, SourceInv, StoredOf, Safe, Kept, Excused, NothingMissed
<1> QED BY <1>1, InvHolds, PTL

LEMMA AddsUpNext == IInv /\ ClusterAddsUp /\ [Next]_vars => ClusterAddsUp'
<1> SUFFICES ASSUME IInv, ClusterAddsUp, [Next]_vars PROVE ClusterAddsUp' OBVIOUS
<1>1. ASSUME UNCHANGED <<item, cluster>> PROVE ClusterAddsUp'
  <2>1. Settled BY <1>1 DEF Settled
  <2> QED BY <2>1, SettledAddsUp
<1>2. ASSUME NEW a \in Articles, Assign(a) PROVE ClusterAddsUp'
  BY <1>2, AssignAddsUp
<1>3. ASSUME NEW s \in Sources, Store(s) PROVE ClusterAddsUp'
  <2>1. /\ \A i \in Items : /\ item'[i] # None /\ item'[i].published = item[i].published
                            /\ item'[i].cluster = item[i].cluster /\ item'[i].seen = item[i].seen
        /\ \A i \in Articles : item[i] = None => item'[i] = None \/ item'[i].cluster = None
    BY <1>3, StoreItems DEF IInv, SourceInv
  <2>2. Settled BY <1>3, <2>1 DEF Settled, Store, Items
  <2> QED BY <2>2, SettledAddsUp
<1>4. ASSUME NEW s \in Sources, FailSource(s) PROVE ClusterAddsUp'
  <2>1. \A i \in Articles : item'[i] = IF i \in fetch[s].mine THEN None ELSE item[i]
    BY <1>4 DEF FailSource
  <2>2. \A i \in fetch[s].mine : item[i].cluster = None BY DEF IInv, SourceInv, TransactionOf
  <2>3. cluster' = cluster BY <1>4 DEF FailSource
  <2>4. Settled BY <2>1, <2>2, <2>3 DEF Settled
  <2> QED BY <2>4, SettledAddsUp
<1>5. CASE UNCHANGED vars BY <1>1, <1>5 DEF vars
<1>6. CASE Next
  <2>1. CASE Tick \/ AssignFails \/ StartPass \/ StartEnrichment \/ EndPass
    BY <1>1, <2>1 DEF Tick, AssignFails, StartPass, StartEnrichment, EndPass
  <2>2. CASE \E a \in Articles : Appear(a) BY <1>1, <2>2 DEF Appear
  <2>3. ASSUME NEW s \in Sources, SourceStep(s) PROVE ClusterAddsUp'
    BY <1>1, <1>3, <1>4, <2>3 DEF SourceStep, StartFetch, ReadFeed, Commit, RecordSuccess, Victim
  <2>4. ASSUME NEW s \in Sources, Fault(s) PROVE ClusterAddsUp' BY <1>4, <2>4 DEF Fault
  <2>5. ASSUME NEW s \in Sources, NEW on \in BOOLEAN, SetEnabled(s, on) PROVE ClusterAddsUp'
    BY <1>1, <2>5 DEF SetEnabled
  <2> QED BY <1>2, <1>6, <2>1, <2>2, <2>3, <2>4, <2>5 DEF Next, PassStep
<1> QED BY <1>5, <1>6

\* A cluster's count, times, title and source are those of its members,
\* whatever fetches fail while clusters are built (repository/news.go:425-445).
THEOREM ClusterAddsUpHolds == Spec => []ClusterAddsUp
<1>1. Init => ClusterAddsUp BY DEF Init, ClusterAddsUp, Clusters
<1> QED BY <1>1, InvHolds, AddsUpNext, PTL DEF Spec

LEMMA DisabledNext == TypeOK /\ DisabledStaysDisabled /\ [Next]_vars => DisabledStaysDisabled'
<1> SUFFICES ASSUME TypeOK, DisabledStaysDisabled, [Next]_vars PROVE DisabledStaysDisabled'
  OBVIOUS
<1>1. source \in [Sources -> SourceRecords] BY TypeParts
<1>2. ASSUME source' = source PROVE DisabledStaysDisabled' BY <1>2 DEF DisabledStaysDisabled
<1>3. ASSUME NEW s \in Sources, FailSource(s) PROVE DisabledStaysDisabled'
  BY <1>1, <1>3 DEF FailSource, DisabledStaysDisabled, Status, SourceRecords
<1>4. ASSUME NEW s \in Sources, RecordSuccess(s) PROVE DisabledStaysDisabled'
  BY <1>1, <1>4 DEF RecordSuccess, DisabledStaysDisabled, RecordedStatus, Status, SourceRecords
<1>5. ASSUME NEW s \in Sources, NEW on \in BOOLEAN, SetEnabled(s, on)
      PROVE  DisabledStaysDisabled'
  BY <1>1, <1>5 DEF SetEnabled, DisabledStaysDisabled, SourceRecords
<1>6. CASE UNCHANGED vars BY <1>2, <1>6 DEF vars
<1>7. CASE Next
  <2>1. CASE Tick \/ AssignFails \/ PassStep
    BY <1>2, <2>1 DEF Tick, AssignFails, PassStep, StartPass, StartEnrichment, EndPass, Assign
  <2>2. CASE \E a \in Articles : Appear(a) BY <1>2, <2>2 DEF Appear
  <2>3. ASSUME NEW s \in Sources, SourceStep(s) PROVE DisabledStaysDisabled'
    BY <1>2, <1>3, <1>4, <2>3 DEF SourceStep, StartFetch, ReadFeed, Store, Commit, Victim
  <2>4. ASSUME NEW s \in Sources, Fault(s) PROVE DisabledStaysDisabled' BY <1>3, <2>4 DEF Fault
  <2> QED BY <1>5, <1>7, <2>1, <2>2, <2>3, <2>4 DEF Next
<1> QED BY <1>6, <1>7

\* A fetch under way when the user switches its source off cannot show the
\* source as healthy, degraded or offline again (repository/news.go:124-167).
THEOREM DisabledStaysDisabledHolds == Spec => []DisabledStaysDisabled
<1>1. Init => DisabledStaysDisabled BY DEF Init, DisabledStaysDisabled
<1> QED BY <1>1, TypeCorrect, DisabledNext, PTL DEF Spec
=============================================================================
