----------------------------- MODULE Positions -----------------------------
(***************************************************************************)
(* Manually recorded positions: internal/positions/service.go over         *)
(* internal/repository/positions.go.  Every handler call runs on its own   *)
(* goroutine and every statement (or inTx block) is one atomic database    *)
(* step; what a handler read before a write is only as fresh as its read.  *)
(*                                                                         *)
(* The history tables (position_fills, position_events, fee_events,        *)
(* funding_events) are only inserted into, or dropped with their position, *)
(* so each is kept as what the code later computes from it: how many       *)
(* closing fills, their total quantity, the type of the last closing event *)
(* and the plan of the last plan event.  Prices, fees and texts are left   *)
(* out.  A quantity is a whole number of a smallest step.                  *)
(***************************************************************************)
EXTENDS Integers

CONSTANTS
  Clients,    \* concurrent API requests
  Ids,        \* position ids (uuid.New never repeats one)
  Recs,       \* recommendations a position may be linked to
  Plans,      \* take-profit / stop-loss plans
  Sizes,      \* quantities DeriveSize may return; 0 is a size rounded away
  None,       \* SQL NULL
  MaxCloses,  \* bound on the closing fills of one position
  MaxCash     \* bound on the fee and funding events of one position

ASSUME SizesAreQuantities == Sizes \subseteq Nat
ASSUME BoundsAreNat == MaxCloses \in Nat /\ MaxCash \in Nat
ASSUME NoneIsApart == None \notin Recs /\ None \notin Ids
ASSUME SomeIdsAndPlans == Ids # {} /\ Plans # {}

VARIABLES
  row,        \* table positions
  hist,       \* the four history tables, per position
  decision,   \* table recommendation_decisions
  pc,         \* where each request is
  on,         \* the position it works on
  rec,        \* the recommendation an Open was asked to link
  read,       \* the row it read
  seen        \* the closed quantity its view computed from the fills

vars == <<row, hist, decision, pc, on, rec, read, seen>>

Live == {"OPEN", "PARTIALLY_CLOSED", "CLOSED"}

Rows ==
  [status: Live \cup {"none", "deleted"}, sized: BOOLEAN, initial: Nat,
   remaining: Nat, closedAt: BOOLEAN, plan: Plans]

Histories ==
  [closes: Nat, sold: Nat, cash: Nat, planned: Plans,
   closing: {"none", "PARTIAL_CLOSE", "FULL_CLOSE"}]

AnyPlan == CHOOSE p \in Plans : TRUE
AnyId   == CHOOSE p \in Ids : TRUE

NoRow ==
  [status |-> "none", sized |-> FALSE, initial |-> 0, remaining |-> 0,
   closedAt |-> FALSE, plan |-> AnyPlan]

NoHistory ==
  [closes |-> 0, sold |-> 0, cash |-> 0, planned |-> AnyPlan, closing |-> "none"]

Init ==
  /\ row = [p \in Ids |-> NoRow]
  /\ hist = [p \in Ids |-> NoHistory]
  /\ decision = [r \in Recs |-> [what |-> "PENDING", linked |-> None]]
  /\ pc = [c \in Clients |-> "idle"]
  /\ on = [c \in Clients |-> AnyId]
  /\ rec = [c \in Clients |-> None]
  /\ read = [c \in Clients |-> NoRow]
  /\ seen = [c \in Clients |-> 0]

\* The foreign key of an inserted fill, event or cash row, and the affected row
\* UpdatePlan insists on.
KeyHolds(p) == row[p].status \in Live

Ready(c) == pc[c] \in {"idle", "shown"}

Goto(c, l) == pc' = [pc EXCEPT ![c] = l]

(***************************************************************************)
(* Open: the row, its opening fill and the OPENED event in one             *)
(* transaction, then - outside it - the decision of the recommendation.    *)
(***************************************************************************)
Opened(sized, size, plan) ==
  [status |-> "OPEN", sized |-> sized, initial |-> size, remaining |-> size,
   closedAt |-> FALSE, plan |-> plan]

Open(c, p, size, sized, plan, r) ==
  /\ Ready(c)
  /\ row[p].status = "none"
  /\ sized \/ size = 0
  /\ row' = [row EXCEPT ![p] = Opened(sized, size, plan)]
  /\ hist' = [hist EXCEPT ![p] = [NoHistory EXCEPT !.planned = plan]]
  /\ on' = [on EXCEPT ![c] = p]
  /\ rec' = [rec EXCEPT ![c] = r]
  /\ Goto(c, IF r = None THEN "view" ELSE "link")
  /\ UNCHANGED <<decision, read, seen>>

\* SetDecision(OPENED); a failure is logged and the request goes on.
Link(c, stored) ==
  /\ pc[c] = "link"
  /\ decision' = IF stored
                   THEN [decision EXCEPT ![rec[c]] = [what |-> "OPENED", linked |-> on[c]]]
                   ELSE decision
  /\ Goto(c, "view")
  /\ UNCHANGED <<row, hist, on, rec, read, seen>>

\* The decision endpoint stores anything but OPENED and unlinks the position.
Decide(c, r, what) ==
  /\ Ready(c)
  /\ decision' = [decision EXCEPT ![r] = [what |-> what, linked |-> None]]
  /\ Goto(c, "idle")
  /\ UNCHANGED <<row, hist, on, rec, read, seen>>

(***************************************************************************)
(* Close and UpdatePlan: read the row, refuse a closed one, then write.    *)
(***************************************************************************)
ReadAnyRow(c, p, next) ==
  /\ Ready(c)
  /\ row[p].status \in Live
  /\ read' = [read EXCEPT ![c] = row[p]]
  /\ on' = [on EXCEPT ![c] = p]
  /\ Goto(c, next)
  /\ UNCHANGED <<row, hist, decision, rec, seen>>

ReadOpenRow(c, p, next) ==
  /\ Ready(c)
  /\ row[p].status \in Live
  /\ row[p].status # "CLOSED"
  /\ read' = [read EXCEPT ![c] = row[p]]
  /\ on' = [on EXCEPT ![c] = p]
  /\ Goto(c, next)
  /\ UNCHANGED <<row, hist, decision, rec, seen>>

CloseRead(c, p) == ReadOpenRow(c, p, "close")

\* pnl.ComputeClose: an explicit quantity is clamped to what is still open.
\* A percentage below 100 closes some such part; 100 and Full close the rest.
QuantityUnclamped(r, q) == q
ClosedQuantity(r, q) == IF r.remaining > 0 /\ q > r.remaining THEN r.remaining ELSE q

Remaining(r, q) == IF r.remaining > q THEN r.remaining - q ELSE 0

AllClosedOnlyWhenAsked(r, q, all) == all
AllClosed(r, q, all) == all \/ (r.sized /\ Remaining(r, q) = 0)

\* The row Close writes back: the copy it read with the cached fields replaced.
AfterClose(r, q, all) ==
  [r EXCEPT !.status = IF AllClosed(r, q, all) THEN "CLOSED" ELSE "PARTIALLY_CLOSED",
            !.remaining = IF AllClosed(r, q, all) THEN 0 ELSE Remaining(r, q),
            !.closedAt = AllClosed(r, q, all)]

\* The fill and the event; a position of unknown size stores no quantity.
FillOnlyWhenFull(h, r, q, all) ==
  [h EXCEPT !.closes = @ + 1,
            !.sold = @ + (IF r.sized /\ AllClosed(r, q, all) THEN q ELSE 0),
            !.closing = IF AllClosed(r, q, all) THEN "FULL_CLOSE" ELSE "PARTIAL_CLOSE"]
WithFill(h, r, q, all) ==
  [h EXCEPT !.closes = @ + 1,
            !.sold = @ + (IF r.sized THEN q ELSE 0),
            !.closing = IF AllClosed(r, q, all) THEN "FULL_CLOSE" ELSE "PARTIAL_CLOSE"]

\* ApplyClose: one transaction.  The UPDATE names status, remaining quantity,
\* closed_at and current_plan; the fill's foreign key fails on a deleted row.
ApplyClose(c, q, all) ==
  LET p == on[c] IN
  /\ KeyHolds(p)
  /\ row' = [row EXCEPT ![p] =
               [@ EXCEPT !.status = AfterClose(read[c], q, all).status,
                         !.remaining = AfterClose(read[c], q, all).remaining,
                         !.closedAt = AfterClose(read[c], q, all).closedAt,
                         !.plan = read[c].plan]]
  /\ hist' = [hist EXCEPT ![p] = WithFill(@, read[c], q, all)]
  /\ Goto(c, "view")
  /\ UNCHANGED <<decision, on, rec, read, seen>>

CloseAll(c) ==
  /\ pc[c] = "close"
  /\ ApplyClose(c, read[c].remaining, TRUE)

ClosePart(c, want) ==
  /\ pc[c] = "close"
  /\ want > 0
  /\ ApplyClose(c, ClosedQuantity(read[c], want), FALSE)

PlanRead(c, p) == ReadOpenRow(c, p, "plan")

PlanWrite(c, plan) ==
  LET p == on[c] IN
  /\ pc[c] = "plan"
  /\ KeyHolds(p)
  /\ row' = [row EXCEPT ![p].plan = plan]
  /\ hist' = [hist EXCEPT ![p].planned = plan]
  /\ Goto(c, "view")
  /\ UNCHANGED <<decision, on, rec, read, seen>>

\* AddFee and AddFunding look at nothing but the foreign key.
AddCashEvent(c, p) ==
  /\ Ready(c)
  /\ KeyHolds(p)
  /\ hist' = [hist EXCEPT ![p].cash = @ + 1]
  /\ on' = [on EXCEPT ![c] = p]
  /\ Goto(c, "view")
  /\ UNCHANGED <<row, decision, rec, read, seen>>

\* DELETE FROM positions; the four history tables cascade.
Delete(c, p) ==
  /\ Ready(c)
  /\ row[p].status \in Live
  /\ row' = [row EXCEPT ![p] = [NoRow EXCEPT !.status = "deleted"]]
  /\ hist' = [hist EXCEPT ![p] = NoHistory]
  /\ Goto(c, "idle")
  /\ UNCHANGED <<decision, on, rec, read, seen>>

(***************************************************************************)
(* View ends every successful request: first the row, then its fills.      *)
(***************************************************************************)
ViewRow(c) ==
  /\ pc[c] = "view"
  /\ row[on[c]].status \in Live
  /\ read' = [read EXCEPT ![c] = row[on[c]]]
  /\ Goto(c, "fills")
  /\ UNCHANGED <<row, hist, decision, on, rec, seen>>

ViewFills(c) ==
  /\ pc[c] = "fills"
  /\ seen' = [seen EXCEPT ![c] = hist[on[c]].sold]
  /\ Goto(c, "shown")
  /\ UNCHANGED <<row, hist, decision, on, rec, read>>

\* GET /positions/{id}.
View(c, p) ==
  /\ Ready(c)
  /\ on' = [on EXCEPT ![c] = p]
  /\ Goto(c, "view")
  /\ UNCHANGED <<row, hist, decision, rec, read, seen>>

\* The handler's deadline passes, the database fails, the row is gone or the
\* process stops: the request ends and writes nothing more.
Abandon(c) ==
  /\ ~Ready(c)
  /\ Goto(c, "idle")
  /\ UNCHANGED <<row, hist, decision, on, rec, read, seen>>

OpenAny(c) ==
  \E p \in Ids, size \in Sizes \cup {0}, sized \in BOOLEAN, plan \in Plans, r \in Recs \cup {None} :
    /\ size \in Sizes \/ ~sized
    /\ Open(c, p, size, sized, plan, r)

LinkAny(c)   == \E stored \in BOOLEAN : Link(c, stored)
DecideAny(c) == \E r \in Recs : Decide(c, r, "SKIPPED")
CloseReadAny(c) ==
  \E p \in Ids : hist[p].closes < MaxCloses /\ CloseRead(c, p)
CloseAny(c) ==
  /\ hist[on[c]].closes < MaxCloses
  /\ \/ CloseAll(c)
     \/ \E want \in 1..(read[c].initial + 1) : ClosePart(c, want)
PlanReadAny(c)  == \E p \in Ids : PlanRead(c, p)
PlanWriteAny(c) == \E plan \in Plans : PlanWrite(c, plan)
CashAny(c)   == \E p \in Ids : hist[p].cash < MaxCash /\ AddCashEvent(c, p)
DeleteAny(c) == \E p \in Ids : Delete(c, p)
ViewAny(c)   == \E p \in Ids : View(c, p)

Step(c) ==
  \/ OpenAny(c) \/ LinkAny(c) \/ DecideAny(c)
  \/ CloseReadAny(c) \/ CloseAny(c)
  \/ PlanReadAny(c) \/ PlanWriteAny(c)
  \/ CashAny(c) \/ DeleteAny(c)
  \/ ViewAny(c) \/ ViewRow(c) \/ ViewFills(c)
  \/ Abandon(c)

Next == \E c \in Clients : Step(c)

Spec == Init /\ [][Next]_vars
-----------------------------------------------------------------------------
\* Types of the tables and of what a request holds.
TypeOK ==
  /\ row \in [Ids -> Rows]
  /\ hist \in [Ids -> Histories]
  /\ decision \in [Recs -> [what: {"PENDING", "OPENED", "SKIPPED"}, linked: Ids \cup {None}]]
  /\ pc \in [Clients -> {"idle", "link", "close", "plan", "view", "fills", "shown"}]
  /\ on \in [Clients -> Ids]
  /\ rec \in [Clients -> Recs \cup {None}]
  /\ read \in [Clients -> Rows]
  /\ seen \in [Clients -> Nat]

\* What has left the position by a fill, and what the given row still shows.
Accounted(r, sold) == r.sized => r.remaining + sold >= r.initial

\* The cached row never understates an exposure: whatever the row says is no
\* longer open was closed by a recorded fill.  ApplyClose writes an absolute
\* remaining quantity computed from a possibly stale read, so overlapping closes
\* may leave the row too high, but never too low (service.go 164-261).
NeverUnderstated == \A p \in Ids : row[p].status \in Live => Accounted(row[p], hist[p].sold)

\* What a close may rely on when it writes: its copy has the row's size, and the
\* fills that exist by now account for what the copy shows as closed.
ReadsAccounted == \A c \in Clients :
  /\ pc[c] \in {"close", "fills", "shown"} => row[on[c]].status # "none"
  /\ pc[c] = "close" /\ row[on[c]].status \in Live =>
       /\ read[c].sized = row[on[c]].sized
       /\ read[c].initial = row[on[c]].initial
       /\ Accounted(read[c], hist[on[c]].sold)
  /\ pc[c] = "fills" /\ row[on[c]].status \in Live => Accounted(read[c], hist[on[c]].sold)

\* The view of a request shows fills for everything its row says is closed:
\* buildView reads the fills after the row, so a close between the two reads
\* can only add fills the row does not show yet (service.go 311-317, 391-395).
ViewCoversRow == \A c \in Clients : pc[c] = "shown" =>
  row[on[c]].status = "deleted" \/ Accounted(read[c], seen[c])

\* The cached status is the one the newest closing event announced, closed_at is
\* set exactly with CLOSED, and a sized position is CLOSED exactly when nothing
\* remains - also after a stale write reopened it (service.go 222-242).
CacheAgreesWithLastClose == \A p \in Ids : row[p].status \in Live =>
  /\ row[p].closedAt <=> row[p].status = "CLOSED"
  /\ row[p].status = "OPEN" <=> hist[p].closing = "none"
  /\ row[p].status = "CLOSED" <=> hist[p].closing = "FULL_CLOSE"
  /\ row[p].sized /\ row[p].initial > 0 =>
       (row[p].remaining = 0 <=> row[p].status = "CLOSED")

\* A position that exists keeps its size, and its history only grows until the
\* position is deleted with it; a deleted one never comes back.
Grows(p) ==
  row[p].status # "none" =>
    /\ row[p].status = "deleted" => row'[p].status = "deleted"
    /\ row'[p].status \in Live =>
         /\ row'[p].sized = row[p].sized /\ row'[p].initial = row[p].initial
         /\ hist'[p].sold >= hist[p].sold
         /\ hist'[p].closes >= hist[p].closes
         /\ hist'[p].cash >= hist[p].cash
    /\ row'[p].status # "none"

\* Position history is append-only (docs/architecture.md 67), also for requests
\* that were under way while another one wrote.
HistoryAppendOnly == [][\A p \in Ids : Grows(p)]_vars

\* The row's open quantity is exactly what the fills leave of the initial one.
\* One request at a time keeps it; overlapping closes do not.
CacheMatchesFills == \A p \in Ids :
  row[p].status \in Live /\ row[p].sized /\ row[p].initial > 0 =>
    row[p].remaining + hist[p].sold = row[p].initial

=============================================================================
