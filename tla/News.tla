-------------------------------- MODULE News --------------------------------
(***************************************************************************)
(* News ingestion: news.Collector fetches the enabled sources side by      *)
(* side, each stores its batch in a transaction of its own and then        *)
(* records the fetch; news.Processor assigns stored items to clusters.     *)
(* An article is an element of Articles; its item has the same name, and a *)
(* cluster the name of the item it was created for.  A feed is the set of  *)
(* articles it shows, which also stands for its ETag.  Which titles are    *)
(* alike enough to be one event is a constant, and so are the priorities   *)
(* and which articles have what an item needs.                             *)
(***************************************************************************)
EXTENDS Naturals, SequencesExt, FiniteSets

CONSTANTS
  Sources, Articles,
  SourceOf, UrlOf, TitleOf,   \* of an article; the title stands for its hash
  Alike,        \* pairs of titles whose similarity reaches the threshold
  Early,        \* articles the feeds show from the start
  Usable,       \* articles with a date, a title and a URL that pass the checks
  Paged,        \* sources read page by page, newest first
  Priority,     \* of a source
  Concurrency,  \* news.fetch_concurrency
  FirstWindow,  \* how far the fetch of a source without a success reaches back
  Overlap,      \* how far a fetch reaches back behind the last success
  Lag,          \* how long after its publication an article may appear
  SameStory,    \* the time within which equal titles are one story
  Window,       \* news.cluster_time_window
  PassLimit,    \* items an enrichment pass may process
  MaxTime, MaxFaults, MaxEdits,  \* bounds
  None

ASSUME FeedsAreTimely == Lag \in Nat /\ Overlap \in Nat /\ Lag <= Overlap
ASSUME FirstFetchReachesBack == FirstWindow \in Nat
ASSUME SomeWorkers == Concurrency \in Nat \ {0}
ASSUME FiniteTime == MaxTime \in Nat
ASSUME FiniteArticles == IsFiniteSet(Articles)
ASSUME ArticlesOfSources == SourceOf \in [Articles -> Sources]
ASSUME PriorityIsNumber == Priority \in [Sources -> Nat]   \* 0 to 100, by a CHECK

Instants == 0..MaxTime
NewsItems == [published: Instants, seen: Instants, last: Instants,
              cluster: Articles \cup {None}]
NewsClusters == [title: {TitleOf[a] : a \in Articles}, from: Sources, first: Instants,
                 seen: Instants, last: Instants, count: Nat]

ASSUME NoneIsNothing == None \notin Articles \cup Nat \cup NewsItems \cup NewsClusters

VARIABLES
  now, faults, edits,
  feed,      \* publication time of the articles that have appeared
  item,      \* news_items
  cluster,   \* news_clusters
  source,    \* news_sources: [enabled, status, errors, success, etag] and, as history,
             \* [reach: where the first window began, unread: what walks left unread]
  fetch,     \* a source's goroutine and its transaction
  pass       \* Collect and ProcessPending: [pc, left, done]

vars == <<now, faults, edits, feed, item, cluster, source, fetch, pass>>
world == <<now, faults, edits>>

Quiet == [pc |-> "idle", at |-> 0, shown |-> {}, unread |-> {}, todo |-> <<>>,
          mine |-> {}, touched |-> {}]

Init ==
  /\ now = 0 /\ faults = 0 /\ edits = 0
  /\ feed = [a \in Articles |-> IF a \in Early THEN 0 ELSE None]
  /\ item = [a \in Articles |-> None]
  /\ cluster = [a \in Articles |-> None]
  /\ source = [s \in Sources |-> [enabled |-> TRUE, status |-> "offline", errors |-> 0,
                                  success |-> None, etag |-> {}, reach |-> 0, unread |-> {}]]
  /\ fetch = [s \in Sources |-> Quiet]
  /\ pass = [pc |-> "asleep", left |-> {}, done |-> 0]

Items     == {a \in Articles : item[a] # None}
Clusters  == {c \in Articles : cluster[c] # None}
Shown(s)  == {a \in Articles : SourceOf[a] = s /\ feed[a] # None}
Apart(t, u) == IF t < u THEN u - t ELSE t - u
Least(t, u) == IF t < u THEN t ELSE u
Most(t, u)  == IF t < u THEN u ELSE t

(***************************************************************************)
(* The surroundings.                                                       *)
(***************************************************************************)
Tick ==
  /\ now < MaxTime
  /\ now' = now + 1
  /\ UNCHANGED <<faults, edits, feed, item, cluster, source, fetch, pass>>

\* An article appears in the feed of its source, at most Lag late.
Appear(a) ==
  /\ feed[a] = None
  /\ \E t \in 0..now : now - t <= Lag /\ feed' = [feed EXCEPT ![a] = t]
  /\ UNCHANGED <<world, item, cluster, source, fetch, pass>>

\* The user switches a source off or on.
SetEnabled(s, on) ==
  /\ edits < MaxEdits
  /\ source[s].enabled # on
  /\ edits' = edits + 1
  /\ source' = [source EXCEPT ![s].enabled = on,
                              ![s].status = IF ~on THEN "disabled"
                                            ELSE IF @ = "disabled" THEN "offline" ELSE @]
  /\ UNCHANGED <<now, faults, feed, item, cluster, fetch, pass>>

(***************************************************************************)
(* Collect.                                                                *)
(***************************************************************************)
StartPass ==
  /\ pass.pc = "asleep"
  /\ pass' = [pc |-> "collect", left |-> {s \in Sources : source[s].enabled}, done |-> 0]
  /\ UNCHANGED <<world, feed, item, cluster, source, fetch>>

Busy == {s \in Sources : fetch[s].pc # "idle"}

\* With no success yet the window is that of a first fetch.
Back(t, span) == IF t < span THEN 0 ELSE t - span
SinceExact(s) == IF source[s].success = None THEN Back(fetch[s].at, FirstWindow)
                 ELSE source[s].success
Since(s) == IF source[s].success = None THEN Back(fetch[s].at, FirstWindow)
            ELSE Back(source[s].success, Overlap)

\* A slot is free: the window of the fetch is fixed before the feed is read.
StartFetch(s) ==
  /\ pass.pc = "collect"
  /\ s \in pass.left
  /\ Cardinality(Busy) < Concurrency
  /\ pass' = [pass EXCEPT !.left = @ \ {s}]
  /\ fetch' = [fetch EXCEPT ![s] = [Quiet EXCEPT !.pc = "fetch", !.at = now]]
  /\ UNCHANGED <<world, feed, item, cluster, source>>

\* What a fetch reads of a feed.  A paged one is read from its newest article on
\* and not always to the end of the window: the pages have a maximum, and a page
\* that answers 304 ends the walk, behind the first one with nothing read at all.
Walks(s) ==
  LET all == Shown(s) IN
  IF s \notin Paged THEN {all}
  ELSE {read \in SUBSET all : \A a \in read, b \in all \ read : feed[a] >= feed[b]}

Fresh(s) == {a \in Shown(s) : Shown(s) # source[s].etag /\ feed[a] >= Since(s)}

\* An unchanged feed answers 304 and brings nothing; otherwise what was read of the
\* articles published since the window began is stored in the order of the feed,
\* but for those without a date and those the collector rejects.
ReadFeed(s) ==
  /\ fetch[s].pc = "fetch"
  /\ \E read \in Walks(s) : \E order \in SetToSeqs(Fresh(s) \cap read \cap Usable) :
       fetch' = [fetch EXCEPT ![s] = [@ EXCEPT !.shown = Shown(s), !.unread = Fresh(s) \ read,
                                               !.todo = order,
                                               !.pc = IF order = <<>> THEN "record" ELSE "store"]]
  /\ UNCHANGED <<world, feed, item, cluster, source, pass>>

Status(s, errors) == IF ~source[s].enabled THEN "disabled"
                     ELSE IF errors = 0 THEN "online"
                     ELSE IF errors >= 3 THEN "offline" ELSE "degraded"

\* The fetch, the transaction or the record of it fails; what the transaction
\* wrote is undone.  Only the first two failures are written down.
FailSource(s) ==
  /\ fetch[s].pc # "idle"
  /\ source' = IF fetch[s].pc = "record" THEN source
               ELSE [source EXCEPT ![s].errors = @ + 1,
                                   ![s].status = Status(s, source[s].errors + 1)]
  /\ item' = [a \in Articles |-> IF a \in fetch[s].mine THEN None ELSE item[a]]
  /\ fetch' = [fetch EXCEPT ![s] = Quiet]
  /\ UNCHANGED <<now, edits, feed, cluster, pass>>

Fault(s) == faults < MaxFaults /\ faults' = faults + 1 /\ FailSource(s)

RecordedStatusOnline(s) == "online"
RecordedStatus(s) == Status(s, 0)

\* The first success fixes how far back this source was ever read.
Reach(s) == IF source[s].success = None THEN Since(s) ELSE source[s].reach

RecordSuccess(s) ==
  /\ fetch[s].pc = "record"
  /\ source' = [source EXCEPT ![s] = [@ EXCEPT !.status = RecordedStatus(s), !.errors = 0,
                                               !.success = fetch[s].at,
                                               !.etag = fetch[s].shown,
                                               !.reach = Reach(s),
                                               !.unread = source[s].unread \cup fetch[s].unread]]
  /\ fetch' = [fetch EXCEPT ![s] = Quiet]
  /\ UNCHANGED <<world, feed, item, cluster, pass>>

(***************************************************************************)
(* UpsertItems: a transaction per source.  It sees committed items and its *)
(* own; a row another transaction has written is locked, and the unique    *)
(* index makes a second insert of its URL wait.                            *)
(***************************************************************************)
Writing(s) == fetch[s].pc = "store"
Others(s)  == UNION {fetch[t].mine \cup fetch[t].touched : t \in Sources \ {s}}
Uncommitted(s) == UNION {fetch[t].mine : t \in Sources \ {s}}

Duplicates(a, known) ==
  {i \in known : \/ UrlOf[i] = UrlOf[a]
                 \/ TitleOf[i] = TitleOf[a] /\ Apart(item[i].published, feed[a]) <= SameStory}
Visible(s) == Items \ Uncommitted(s)

\* Of several duplicates the one seen first is touched.
FirstSeen(as) == CHOOSE i \in as : \A j \in as : item[i].seen <= item[j].seen

Blocked(s) ==
  /\ Writing(s) /\ fetch[s].todo # <<>>
  /\ LET a == Head(fetch[s].todo)
         known == Duplicates(a, Visible(s))
     IN IF known = {} THEN \E i \in Uncommitted(s) : UrlOf[i] = UrlOf[a]
        ELSE FirstSeen(known) \in Others(s)

Touch(s, i) ==
  /\ item' = [item EXCEPT ![i].last = Most(@, fetch[s].at)]
  /\ fetch' = [fetch EXCEPT ![s].todo = Tail(@), ![s].touched = @ \cup {i}]

Insert(s, a) ==
  /\ item' = [item EXCEPT ![a] = [published |-> feed[a], seen |-> fetch[s].at,
                                  last |-> fetch[s].at, cluster |-> None]]
  /\ fetch' = [fetch EXCEPT ![s].todo = Tail(@), ![s].mine = @ \cup {a}]

Store(s) ==
  /\ Writing(s) /\ fetch[s].todo # <<>> /\ ~Blocked(s)
  /\ LET a == Head(fetch[s].todo)
         known == Duplicates(a, Visible(s))
     IN IF known = {} THEN Insert(s, a)
        ELSE Touch(s, FirstSeen(known))
  /\ UNCHANGED <<world, feed, cluster, source, pass>>

Commit(s) ==
  /\ Writing(s) /\ fetch[s].todo = <<>>
  /\ fetch' = [fetch EXCEPT ![s].pc = "record", ![s].mine = {}, ![s].touched = {}]
  /\ UNCHANGED <<world, feed, item, cluster, source, pass>>

\* Two transactions that wait for each other: the database aborts one.
Victim(s) ==
  /\ Blocked(s)
  /\ \E t \in Sources \ {s} : Blocked(t)
  /\ FailSource(s)
  /\ UNCHANGED faults

(***************************************************************************)
(* ProcessPending, after every source has finished.                        *)
(***************************************************************************)
StartEnrichment ==
  /\ pass.pc = "collect" /\ pass.left = {} /\ Busy = {}
  /\ pass' = [pass EXCEPT !.pc = "enrich"]
  /\ UNCHANGED <<world, feed, item, cluster, source, fetch>>

\* The queue holds what no earlier pass got to, oldest first.
PendingOfThisTime == {a \in Items : item[a].cluster = None /\ item[a].seen = now}
Pending == {a \in Items : item[a].cluster = None}
Oldest(a) == a \in Pending /\ \A b \in Pending : item[a].seen <= item[b].seen

Members(c)    == {a \in Items : item[a].cluster = c}
SourcesOf(as) == {SourceOf[a] : a \in as}

Candidates(a) ==
  {c \in Clusters : /\ cluster[c].last + Window >= item[a].published
                    /\ cluster[c].first <= item[a].published + Window
                    /\ <<TitleOf[a], cluster[c].title>> \in Alike}

CreateCluster(a) ==
  /\ item' = [item EXCEPT ![a].cluster = a]
  /\ cluster' = [cluster EXCEPT ![a] =
                   [title |-> TitleOf[a], from |-> SourceOf[a], first |-> item[a].published,
                    seen |-> item[a].seen, last |-> item[a].last, count |-> 1]]

RecountPlusOne(c, a) == cluster[c].count + 1
Recount(c, a) == Cardinality(SourcesOf(Members(c) \cup {a}))

JoinCluster(a, c) ==
  /\ item' = [item EXCEPT ![a].cluster = c]
  /\ LET better == Priority[SourceOf[a]] > Priority[cluster[c].from] IN
     cluster' = [cluster EXCEPT ![c] =
                   [title |-> IF better THEN TitleOf[a] ELSE @.title,
                    from  |-> IF better THEN SourceOf[a] ELSE @.from,
                    first |-> Least(@.first, item[a].published),
                    seen  |-> Least(@.seen, item[a].seen),
                    last  |-> Most(@.last, item[a].last),
                    count |-> Recount(c, a)]]

\* Candidates are read and the best is joined in the assigning transaction's
\* time: nothing else writes clusters.
Assign(a) ==
  /\ pass.pc = "enrich" /\ pass.done < PassLimit
  /\ Oldest(a)
  /\ IF Candidates(a) = {} THEN CreateCluster(a)
     ELSE \E c \in Candidates(a) : JoinCluster(a, c)
  /\ pass' = [pass EXCEPT !.done = @ + 1]
  /\ UNCHANGED <<world, feed, source, fetch>>

\* An item that fails ends the pass.
AssignFails ==
  /\ pass.pc = "enrich" /\ Pending # {}
  /\ faults < MaxFaults /\ faults' = faults + 1
  /\ pass' = [pass EXCEPT !.pc = "asleep"]
  /\ UNCHANGED <<now, edits, feed, item, cluster, source, fetch>>

EndPass ==
  /\ pass.pc = "enrich"
  /\ Pending = {} \/ pass.done = PassLimit
  /\ pass' = [pc |-> "asleep", left |-> {}, done |-> 0]
  /\ UNCHANGED <<world, feed, item, cluster, source, fetch>>

SourceStep(s) == StartFetch(s) \/ ReadFeed(s) \/ Store(s) \/ Commit(s) \/ Victim(s) \/ RecordSuccess(s)
PassStep == StartPass \/ StartEnrichment \/ EndPass \/ \E a \in Articles : Assign(a)

Next ==
  \/ Tick \/ AssignFails \/ PassStep
  \/ \E a \in Articles : Appear(a)
  \/ \E s \in Sources : \/ SourceStep(s) \/ Fault(s)
                        \/ \E on \in BOOLEAN : SetEnabled(s, on)

Spec == Init /\ [][Next]_vars

\* The loop goes on, and requests and statements end.
FairSpec == Spec /\ WF_vars(PassStep) /\ WF_vars(\E s \in Sources : SourceStep(s))

(***************************************************************************)
(* Properties.                                                             *)
(***************************************************************************)
TypeOK ==
  /\ now \in Instants /\ faults \in Nat /\ edits \in Nat
  /\ feed \in [Articles -> Instants \cup {None}]
  /\ item \in [Articles -> NewsItems \cup {None}]
  /\ cluster \in [Articles -> NewsClusters \cup {None}]
  /\ source \in [Sources -> [enabled: BOOLEAN,
                             status: {"online", "degraded", "offline", "disabled"},
                             errors: Nat, success: Instants \cup {None},
                             etag: SUBSET Articles, reach: Nat, unread: SUBSET Articles]]
  /\ fetch \in [Sources -> [pc: {"idle", "fetch", "store", "record"}, at: Instants,
                            shown: SUBSET Articles, unread: SUBSET Articles, todo: Seq(Articles),
                            mine: SUBSET Articles, touched: SUBSET Articles]]
  /\ pass \in [pc: {"asleep", "collect", "enrich"}, left: SUBSET Sources, done: Nat]

\* Every article of the feed version a source remembers is stored, as an item of
\* its own or as a duplicate, or is one the collector leaves out by what it is:
\* rejected, older than the window of the source's first fetch, or left unread by
\* the walk over a paged feed.  A fetch that fails anywhere is repeated in full
\* and an article that appears late is still inside the next window: neither adds
\* to the losses, for which a 304 may stand (collector.go:163-198, bybit.go:42-75).
Unread(s, a) == s \in Paged /\ a \in source[s].unread
NothingMissed ==
  \A s \in Sources : \A a \in source[s].etag :
    \/ Duplicates(a, Items) # {}
    \/ a \notin Usable \/ feed[a] < source[s].reach \/ Unread(s, a)

\* What a cluster says of its articles is what they say: how many sources
\* carry it, when it was first published and first seen, and that its title
\* is that of a member from the source with the highest priority
\* (repository/news.go:425-445).
ClusterAddsUp ==
  \A c \in Clusters : LET in == Members(c) IN
    /\ in # {}
    /\ cluster[c].count = Cardinality(SourcesOf(in))
    /\ \A a \in in : /\ cluster[c].first <= item[a].published
                     /\ cluster[c].seen <= item[a].seen
                     /\ Priority[SourceOf[a]] <= Priority[cluster[c].from]
    /\ \E a \in in : cluster[c].first = item[a].published
    /\ \E a \in in : cluster[c].title = TitleOf[a] /\ cluster[c].from = SourceOf[a]

\* A source the user has switched off is never shown as healthy again by a
\* fetch that was already under way (repository/news.go:124-167).
DisabledStaysDisabled ==
  \A s \in Sources : ~source[s].enabled => source[s].status = "disabled"

\* The backlog is worked off again and again, what a failed or a full pass
\* left behind included: no stored item stays without a cluster
\* (news/processor.go:62-114).
Stored(a) == a \in Items \ UNION {fetch[s].mine : s \in Sources}
BacklogClears == []<>(\A a \in Articles : Stored(a) => item[a].cluster # None)
=============================================================================
