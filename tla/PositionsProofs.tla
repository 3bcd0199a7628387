-------------------------- MODULE PositionsProofs --------------------------
(***************************************************************************)
(* Theorems of Positions for any clients, ids, plans and sizes.            *)
(***************************************************************************)
EXTENDS PositionsRefinement, TLAPS

\* ComputeClose never takes more than is open from a position that has a size,
\* and what is left is a quantity.
LEMMA CloseBounds ==
  ASSUME NEW r \in Rows, NEW q \in Nat
  PROVE  /\ ClosedQuantity(r, q) \in Nat
         /\ Remaining(r, q) \in Nat
         /\ Remaining(r, q) + q >= r.remaining
  BY DEF Rows, ClosedQuantity, Remaining

LEMMA AnyPlanIsPlan == AnyPlan \in Plans
  BY SomeIdsAndPlans DEF AnyPlan

LEMMA AnyIdIsId == AnyId \in Ids
  BY SomeIdsAndPlans DEF AnyId

LEMMA NoRowIsRow == NoRow \in Rows /\ [NoRow EXCEPT !.status = "deleted"] \in Rows
  BY AnyPlanIsPlan DEF NoRow, Rows, Live

LEMMA NoHistoryIsHistory ==
  /\ NoHistory \in Histories
  /\ \A plan \in Plans : [NoHistory EXCEPT !.planned = plan] \in Histories
  BY AnyPlanIsPlan DEF NoHistory, Histories

\* The initial state has the types.
LEMMA TypeInit == Init => TypeOK
  BY NoRowIsRow, NoHistoryIsHistory, AnyIdIsId DEF Init, TypeOK

\* A close step keeps the types of the two tables it writes.
LEMMA ApplyCloseTypes ==
  ASSUME TypeOK, NEW c \in Clients, NEW q \in Nat, NEW all \in BOOLEAN, ApplyClose(c, q, all)
  PROVE  TypeOK'
<1> DEFINE p == on[c]
           r == read[c]
<1>1. p \in Ids /\ r \in Rows /\ row[p] \in Rows /\ hist[p] \in Histories
  BY DEF TypeOK
<1>2. Remaining(r, q) \in Nat
  BY <1>1, CloseBounds
<1>3. AfterClose(r, q, all) \in Rows
  BY <1>1, <1>2 DEF AfterClose, AllClosed, Rows, Live
<1>4. row'[p] \in Rows /\ row' \in [Ids -> Rows]
  BY <1>1, <1>3 DEF ApplyClose, TypeOK, Rows
<1>5. WithFill(hist[p], r, q, all) \in Histories
  <2>1. (IF r.sized THEN q ELSE 0) \in Nat
    BY <1>1 DEF Rows
  <2>2. hist[p].closes + 1 \in Nat /\ hist[p].sold + (IF r.sized THEN q ELSE 0) \in Nat
    BY <1>1, <2>1 DEF Histories
  <2>3. (IF AllClosed(r, q, all) THEN "FULL_CLOSE" ELSE "PARTIAL_CLOSE")
          \in {"none", "PARTIAL_CLOSE", "FULL_CLOSE"}
    OBVIOUS
  <2> QED
    BY <1>1, <2>2, <2>3 DEF WithFill, Histories
<1>6. hist' \in [Ids -> Histories]
  BY <1>1, <1>5 DEF ApplyClose, TypeOK
<1>7. pc' \in [Clients -> {"idle", "link", "close", "plan", "view", "fills", "shown"}]
  BY DEF ApplyClose, Goto, TypeOK
<1> QED
  BY <1>4, <1>6, <1>7 DEF ApplyClose, TypeOK

\* A step that reads a live row keeps the types.
LEMMA ReadTypes ==
  ASSUME TypeOK, NEW c \in Clients, NEW p \in Ids, NEW l \in {"close", "plan"}, ReadOpenRow(c, p, l)
  PROVE  TypeOK'
  BY DEF ReadOpenRow, Goto, TypeOK

\* Every step of a request keeps the types.
LEMMA TypeStep == TypeOK /\ [Next]_vars => TypeOK'
<1> SUFFICES ASSUME TypeOK, [Next]_vars PROVE TypeOK'
  OBVIOUS
<1>1. ASSUME NEW c \in Clients, OpenAny(c) PROVE TypeOK'
  <2>1. PICK p \in Ids, size \in Sizes \cup {0}, sized \in BOOLEAN, plan \in Plans, r \in Recs \cup {None} :
          Open(c, p, size, sized, plan, r)
    BY <1>1 DEF OpenAny
  <2>2. Opened(sized, size, plan) \in Rows
    BY SizesAreQuantities DEF Opened, Rows, Live
  <2>3. row' \in [Ids -> Rows] /\ hist' \in [Ids -> Histories]
    BY <2>1, <2>2, NoHistoryIsHistory DEF Open, TypeOK
  <2>4. pc' \in [Clients -> {"idle", "link", "close", "plan", "view", "fills", "shown"}]
    BY <2>1 DEF Open, Goto, TypeOK
  <2> QED
    BY <2>1, <2>3, <2>4 DEF Open, TypeOK
<1>2. ASSUME NEW c \in Clients, LinkAny(c) PROVE TypeOK'
  <2>1. PICK stored \in BOOLEAN : Link(c, stored)
    BY <1>2 DEF LinkAny
  <2>2. [what |-> "OPENED", linked |-> on[c]]
          \in [what: {"PENDING", "OPENED", "SKIPPED"}, linked: Ids \cup {None}]
    BY DEF TypeOK
  <2>3. decision' \in [Recs -> [what: {"PENDING", "OPENED", "SKIPPED"}, linked: Ids \cup {None}]]
    BY <2>1, <2>2 DEF Link, TypeOK
  <2> QED
    BY <2>1, <2>3 DEF Link, Goto, TypeOK
<1>3. ASSUME NEW c \in Clients, DecideAny(c) PROVE TypeOK'
  BY <1>3 DEF DecideAny, Decide, Goto, TypeOK
<1>4. ASSUME NEW c \in Clients, CloseReadAny(c) PROVE TypeOK'
  BY <1>4, ReadTypes DEF CloseReadAny, CloseRead
<1>5. ASSUME NEW c \in Clients, CloseAny(c) PROVE TypeOK'
  <2>1. read[c] \in Rows
    BY DEF TypeOK
  <2>2. CASE CloseAll(c)
    BY <2>1, <2>2, ApplyCloseTypes DEF CloseAll, Rows
  <2>3. ASSUME NEW want \in 1..(read[c].initial + 1), ClosePart(c, want) PROVE TypeOK'
    <3>1. ClosedQuantity(read[c], want) \in Nat
      BY <2>1, CloseBounds DEF Rows
    <3> QED
      BY <2>3, <3>1, ApplyCloseTypes DEF ClosePart
  <2> QED
    BY <1>5, <2>2, <2>3 DEF CloseAny
<1>6. ASSUME NEW c \in Clients, PlanReadAny(c) PROVE TypeOK'
  BY <1>6, ReadTypes DEF PlanReadAny, PlanRead
<1>7. ASSUME NEW c \in Clients, PlanWriteAny(c) PROVE TypeOK'
  <2>1. PICK plan \in Plans : PlanWrite(c, plan)
    BY <1>7 DEF PlanWriteAny
  <2>0. on[c] \in Ids /\ row[on[c]] \in Rows
    BY DEF TypeOK
  <2>4. [row[on[c]] EXCEPT !.plan = plan] \in Rows
    BY <2>0 DEF Rows
  <2>2. row' \in [Ids -> Rows]
    BY <2>0, <2>4, <2>1 DEF PlanWrite, TypeOK
  <2>5. hist[on[c]] \in Histories
    BY <2>0 DEF TypeOK
  <2>6. [hist[on[c]] EXCEPT !.planned = plan] \in Histories
    BY <2>5 DEF Histories
  <2>3. hist' \in [Ids -> Histories]
    BY <2>0, <2>6, <2>1 DEF PlanWrite, TypeOK
  <2> QED
    BY <2>1, <2>2, <2>3 DEF PlanWrite, Goto, TypeOK
<1>8. ASSUME NEW c \in Clients, CashAny(c) PROVE TypeOK'
  <2>1. PICK p \in Ids : AddCashEvent(c, p)
    BY <1>8 DEF CashAny
  <2>2. hist[p] \in Histories /\ hist[p].cash + 1 \in Nat
    BY DEF TypeOK, Histories
  <2>3. [hist[p] EXCEPT !.cash = @ + 1] \in Histories
    BY <2>2 DEF Histories
  <2>4. hist' \in [Ids -> Histories]
    BY <2>1, <2>3 DEF AddCashEvent, TypeOK
  <2> QED
    BY <2>1, <2>4 DEF AddCashEvent, Goto, TypeOK
<1>9. ASSUME NEW c \in Clients, DeleteAny(c) PROVE TypeOK'
  BY <1>9, NoRowIsRow, NoHistoryIsHistory DEF DeleteAny, Delete, Goto, TypeOK
<1>10. ASSUME NEW c \in Clients, ViewAny(c) PROVE TypeOK'
  BY <1>10 DEF ViewAny, View, Goto, TypeOK
<1>11. ASSUME NEW c \in Clients, ViewRow(c) PROVE TypeOK'
  BY <1>11 DEF ViewRow, Goto, TypeOK
<1>12. ASSUME NEW c \in Clients, ViewFills(c) PROVE TypeOK'
  BY <1>12 DEF ViewFills, Goto, TypeOK, Histories
<1>13. ASSUME NEW c \in Clients, Abandon(c) PROVE TypeOK'
  BY <1>13 DEF Abandon, Goto, TypeOK
<1>14. CASE UNCHANGED vars
  BY <1>14 DEF vars, TypeOK
<1> QED
  BY <1>1, <1>2, <1>3, <1>4, <1>5, <1>6, <1>7, <1>8, <1>9, <1>10, <1>11, <1>12, <1>13, <1>14
  DEF Next, Step

\* The tables and the requests keep their types under every interleaving.
THEOREM TypeCorrect == Spec => []TypeOK
  BY TypeInit, TypeStep, PTL DEF Spec
-----------------------------------------------------------------------------
\* The inductive invariant behind the accounting of the row and of the views.
Accounting ==
  /\ TypeOK
  /\ NeverUnderstated
  /\ ReadsAccounted
  /\ ViewCoversRow

\* The effect of a committed close on its own position.
LEMMA CloseEffect ==
  ASSUME TypeOK, NEW c \in Clients, NEW q \in Nat, NEW all \in BOOLEAN, ApplyClose(c, q, all)
  PROVE  /\ \A p \in Ids \ {on[c]} : row'[p] = row[p] /\ hist'[p] = hist[p]
         /\ row'[on[c]].status = AfterClose(read[c], q, all).status
         /\ row'[on[c]].remaining = AfterClose(read[c], q, all).remaining
         /\ row'[on[c]].closedAt = AfterClose(read[c], q, all).closedAt
         /\ row'[on[c]].sized = row[on[c]].sized
         /\ row'[on[c]].initial = row[on[c]].initial
         /\ row'[on[c]].plan = read[c].plan
         /\ hist'[on[c]] = WithFill(hist[on[c]], read[c], q, all)
<1>1. on[c] \in Ids /\ row[on[c]] \in Rows
  BY DEF TypeOK
<1>2. row' = [row EXCEPT ![on[c]] =
               [row[on[c]] EXCEPT !.status = AfterClose(read[c], q, all).status,
                                  !.remaining = AfterClose(read[c], q, all).remaining,
                                  !.closedAt = AfterClose(read[c], q, all).closedAt,
                                  !.plan = read[c].plan]]
  BY DEF ApplyClose
<1> QED
  BY <1>1, <1>2 DEF ApplyClose, TypeOK, Rows

\* The close step of a request, whichever quantity it asked for.
LEMMA CloseStep ==
  ASSUME TypeOK, NEW c \in Clients, CloseAny(c)
  PROVE  /\ pc[c] = "close"
         /\ \E q \in Nat, all \in BOOLEAN :
              /\ ApplyClose(c, q, all)
              /\ all => q = read[c].remaining
<1>1. read[c] \in Rows
  BY DEF TypeOK
<1>2. CASE CloseAll(c)
  BY <1>1, <1>2 DEF CloseAll, Rows
<1>3. ASSUME NEW want \in 1..(read[c].initial + 1), ClosePart(c, want)
      PROVE  pc[c] = "close" /\ ApplyClose(c, ClosedQuantity(read[c], want), FALSE)
  BY <1>3 DEF ClosePart
<1>4. \A want \in 1..(read[c].initial + 1) : ClosedQuantity(read[c], want) \in Nat
  BY <1>1, CloseBounds DEF Rows
<1> QED
  BY <1>2, <1>3, <1>4 DEF CloseAny

\* Existing positions keep their size and only add history, whatever happens.
LEMMA GrowsStep == TypeOK /\ [Next]_vars => \A p \in Ids : Grows(p)
<1> SUFFICES ASSUME TypeOK, [Next]_vars, NEW p \in Ids PROVE Grows(p)
  OBVIOUS
<1>0. row[p] \in Rows /\ hist[p] \in Histories
  BY DEF TypeOK
<1>1. ASSUME row'[p] = row[p], hist'[p] = hist[p] PROVE Grows(p)
  BY <1>0, <1>1 DEF Grows, Histories, Rows
<1>2. ASSUME NEW c \in Clients, OpenAny(c) PROVE Grows(p)
  BY <1>1, <1>2 DEF OpenAny, Open, TypeOK, Grows
<1>3. ASSUME NEW c \in Clients, CloseAny(c) PROVE Grows(p)
  <2>1. PICK q \in Nat, all \in BOOLEAN : ApplyClose(c, q, all)
    BY <1>3, CloseStep
  <2>2. CASE p # on[c]
    BY <2>1, <2>2, <1>1, CloseEffect
  <2>3. CASE p = on[c]
    <3>0. read[c] \in Rows
      BY DEF TypeOK
    <3>1. hist'[p].sold >= hist[p].sold /\ hist'[p].closes >= hist[p].closes /\ hist'[p].cash >= hist[p].cash
      <4>1. hist'[p] = WithFill(hist[p], read[c], q, all)
        BY <2>1, <2>3, CloseEffect
      <4>2. (IF read[c].sized THEN q ELSE 0) >= 0
        OBVIOUS
      <4>3. /\ hist'[p].sold = hist[p].sold + (IF read[c].sized THEN q ELSE 0)
            /\ hist'[p].closes = hist[p].closes + 1
            /\ hist'[p].cash = hist[p].cash
        BY <1>0, <4>1 DEF WithFill, Histories
      <4> QED
        BY <1>0, <4>2, <4>3 DEF Histories
    <3>2. row'[p].status \in Live /\ row[p].status \in Live
      <4>1. row'[p].status = AfterClose(read[c], q, all).status
        BY <2>1, <2>3, CloseEffect
      <4>2. AfterClose(read[c], q, all).status \in Live
        BY <3>0 DEF AfterClose, Live, Rows
      <4>3. row[p].status \in Live
        BY <2>1, <2>3 DEF ApplyClose, KeyHolds
      <4> QED
        BY <4>1, <4>2, <4>3
    <3> QED
      BY <2>1, <2>3, <3>1, <3>2, CloseEffect DEF Grows, Live
  <2> QED
    BY <2>2, <2>3
<1>4. ASSUME NEW c \in Clients, PlanWriteAny(c) PROVE Grows(p)
  <2>1. PICK plan \in Plans : PlanWrite(c, plan)
    BY <1>4 DEF PlanWriteAny
  <2>2. CASE p # on[c]
    BY <2>1, <2>2, <1>1 DEF PlanWrite, TypeOK
  <2>3. CASE p = on[c]
    BY <1>0, <2>1, <2>3 DEF PlanWrite, KeyHolds, TypeOK, Grows, Rows, Histories, Live
  <2> QED
    BY <2>2, <2>3
<1>5. ASSUME NEW c \in Clients, CashAny(c) PROVE Grows(p)
  <2>1. PICK q \in Ids : AddCashEvent(c, q)
    BY <1>5 DEF CashAny
  <2>2. CASE p # q
    BY <2>1, <2>2, <1>1 DEF AddCashEvent, TypeOK
  <2>3. CASE p = q
    BY <1>0, <2>1, <2>3 DEF AddCashEvent, KeyHolds, TypeOK, Grows, Rows, Histories, Live
  <2> QED
    BY <2>2, <2>3
<1>6. ASSUME NEW c \in Clients, DeleteAny(c) PROVE Grows(p)
  BY <1>1, <1>6 DEF DeleteAny, Delete, TypeOK, Grows, NoRow, Live
<1>7. CASE UNCHANGED <<row, hist>>
  BY <1>1, <1>7
<1> QED
  BY <1>2, <1>3, <1>4, <1>5, <1>6, <1>7
  DEF Next, Step, vars, LinkAny, Link, DecideAny, Decide, CloseReadAny, CloseRead, ReadOpenRow,
      PlanReadAny, PlanRead, ViewAny, View, ViewRow, ViewFills, Abandon

\* History is append-only for every number of concurrent requests.
THEOREM AppendOnly == Spec => HistoryAppendOnly
<1>1. TypeOK /\ [Next]_vars => [\A p \in Ids : Grows(p)]_vars
  BY GrowsStep
<1> QED
  BY <1>1, TypeCorrect, PTL DEF Spec, HistoryAppendOnly
-----------------------------------------------------------------------------
\* The part of the invariant that is about one request.
ClientOK(c) ==
  /\ pc[c] \in {"close", "fills", "shown"} => row[on[c]].status # "none"
  /\ pc[c] = "close" /\ row[on[c]].status \in Live =>
       /\ read[c].sized = row[on[c]].sized
       /\ read[c].initial = row[on[c]].initial
       /\ Accounted(read[c], hist[on[c]].sold)
  /\ pc[c] = "fills" /\ row[on[c]].status \in Live => Accounted(read[c], hist[on[c]].sold)
  /\ pc[c] = "shown" => row[on[c]].status = "deleted" \/ Accounted(read[c], seen[c])

LEMMA ClientsOK == ReadsAccounted /\ ViewCoversRow <=> \A c \in Clients : ClientOK(c)
  BY DEF ReadsAccounted, ViewCoversRow, ClientOK

Untouched(c) == pc'[c] = pc[c] /\ on'[c] = on[c] /\ read'[c] = read[c] /\ seen'[c] = seen[c]

\* A request that did not step is safe from every other one: fills only grow.
LEMMA BystanderOK ==
  ASSUME TypeOK, TypeOK', NEW c \in Clients, ClientOK(c), Untouched(c), \A p \in Ids : Grows(p)
  PROVE  ClientOK(c)'
<1>1. /\ on[c] \in Ids /\ Grows(on[c])
      /\ row[on[c]] \in Rows /\ row'[on[c]] \in Rows
      /\ hist[on[c]].sold \in Nat /\ hist'[on[c]].sold \in Nat
      /\ read[c].remaining \in Nat /\ read[c].initial \in Nat
  BY DEF TypeOK, Histories, Rows
<1>2. row[on[c]].status = "none" \/ row[on[c]].status = "deleted" \/ row[on[c]].status \in Live
  BY <1>1 DEF Rows
<1>3. row[on[c]].status # "none" => row'[on[c]].status # "none"
  BY <1>1 DEF Grows
<1>4. ASSUME row[on[c]].status # "none", row'[on[c]].status \in Live
      PROVE  /\ row[on[c]].status \in Live
             /\ row'[on[c]].sized = row[on[c]].sized /\ row'[on[c]].initial = row[on[c]].initial
             /\ hist'[on[c]].sold >= hist[on[c]].sold
  BY <1>1, <1>2, <1>4 DEF Grows, Live
<1>5. ASSUME row[on[c]].status # "none", row'[on[c]].status \in Live,
             Accounted(read[c], hist[on[c]].sold)
      PROVE  Accounted(read[c], hist'[on[c]].sold)
  BY <1>1, <1>4, <1>5 DEF Accounted
<1>6. row[on[c]].status = "deleted" => row'[on[c]].status = "deleted"
  BY <1>1 DEF Grows
<1>7. pc'[c] = "close" /\ row'[on[c]].status \in Live =>
        /\ read[c].sized = row'[on[c]].sized /\ read[c].initial = row'[on[c]].initial
        /\ Accounted(read[c], hist'[on[c]].sold)
  BY <1>4, <1>5 DEF ClientOK, Untouched
<1>8. pc'[c] = "fills" /\ row'[on[c]].status \in Live => Accounted(read[c], hist'[on[c]].sold)
  BY <1>4, <1>5 DEF ClientOK, Untouched
<1>9. /\ pc'[c] \in {"close", "fills", "shown"} => row'[on[c]].status # "none"
      /\ pc'[c] = "shown" => row'[on[c]].status = "deleted" \/ Accounted(read[c], seen[c])
  BY <1>3, <1>6 DEF ClientOK, Untouched
<1> QED
  BY <1>7, <1>8, <1>9 DEF ClientOK, Untouched

\* Only the stepping request changes its own fields.
LEMMA OneSteps ==
  ASSUME TypeOK, NEW c \in Clients, Step(c), NEW d \in Clients, d # c
  PROVE  Untouched(d)
<1>1. CASE OpenAny(c)
  BY <1>1 DEF OpenAny, Open, Goto, Untouched, TypeOK
<1>2. CASE LinkAny(c) \/ DecideAny(c)
  BY <1>2 DEF LinkAny, Link, DecideAny, Decide, Goto, Untouched, TypeOK
<1>3. CASE CloseReadAny(c) \/ PlanReadAny(c)
  BY <1>3 DEF CloseReadAny, CloseRead, PlanReadAny, PlanRead, ReadOpenRow, Goto, Untouched, TypeOK
<1>4. CASE CloseAny(c)
  BY <1>4 DEF CloseAny, CloseAll, ClosePart, ApplyClose, Goto, Untouched, TypeOK
<1>5. CASE PlanWriteAny(c)
  BY <1>5 DEF PlanWriteAny, PlanWrite, Goto, Untouched, TypeOK
<1>6. CASE CashAny(c) \/ DeleteAny(c)
  BY <1>6 DEF CashAny, AddCashEvent, DeleteAny, Delete, Goto, Untouched, TypeOK
<1>7. CASE ViewAny(c) \/ ViewRow(c) \/ ViewFills(c) \/ Abandon(c)
  BY <1>7 DEF ViewAny, View, ViewRow, ViewFills, Abandon, Goto, Untouched, TypeOK
<1> QED
  BY <1>1, <1>2, <1>3, <1>4, <1>5, <1>6, <1>7 DEF Step

\* The request that stepped holds what it needs for its next step.
LEMMA StepperOK ==
  ASSUME Accounting, NEW c \in Clients, Step(c)
  PROVE  ClientOK(c)'
<1>0. /\ TypeOK /\ ClientOK(c)
      /\ on[c] \in Ids
      /\ \A p \in Ids : row[p].status \in Live => Accounted(row[p], hist[p].sold)
  BY ClientsOK DEF Accounting, TypeOK, NeverUnderstated
<1>1. CASE pc'[c] \in {"idle", "link", "plan", "view"}
  BY <1>1 DEF ClientOK
<1>2. ASSUME NEW p \in Ids, CloseRead(c, p) PROVE ClientOK(c)'
  BY <1>0, <1>2 DEF CloseRead, ReadOpenRow, Goto, ClientOK, TypeOK, Live
<1>3. CASE ViewRow(c)
  BY <1>0, <1>3 DEF ViewRow, Goto, ClientOK, TypeOK, Live
<1>4. CASE ViewFills(c)
  <2>2. row[on[c]].status = "none" \/ row[on[c]].status = "deleted" \/ row[on[c]].status \in Live
    BY <1>0 DEF TypeOK, Rows
  <2> QED
    BY <1>0, <1>4, <2>2 DEF ViewFills, Goto, ClientOK, TypeOK
<1>5. ~ViewRow(c) /\ ~ViewFills(c) /\ (\A p \in Ids : ~CloseRead(c, p))
        => pc'[c] \in {"idle", "link", "plan", "view"}
  <2>0. pc \in [Clients -> {"idle", "link", "close", "plan", "view", "fills", "shown"}]
    BY <1>0 DEF TypeOK
  <2>1. OpenAny(c) \/ LinkAny(c) \/ DecideAny(c) => pc'[c] \in {"idle", "link", "view"}
    BY <2>0 DEF Goto, OpenAny, Open, LinkAny, Link, DecideAny, Decide
  <2>2. CloseAny(c) => pc'[c] = "view"
    BY <2>0 DEF Goto, CloseAny, CloseAll, ClosePart, ApplyClose
  <2>3. PlanReadAny(c) \/ PlanWriteAny(c) => pc'[c] \in {"plan", "view"}
    BY <2>0 DEF Goto, PlanReadAny, PlanRead, ReadOpenRow, PlanWriteAny, PlanWrite
  <2>4. CashAny(c) \/ DeleteAny(c) \/ ViewAny(c) \/ Abandon(c) => pc'[c] \in {"idle", "view"}
    BY <2>0 DEF Goto, CashAny, AddCashEvent, DeleteAny, Delete, ViewAny, View, Abandon
  <2> QED
    BY <2>1, <2>2, <2>3, <2>4 DEF Step, CloseReadAny
<1> QED
  BY <1>1, <1>2, <1>3, <1>4, <1>5

\* A committed close leaves the row with at least what the fills leave: its
\* copy was accounted for, and the fill it adds covers what it takes off.
LEMMA CloseAccounts ==
  ASSUME Accounting, NEW c \in Clients, CloseAny(c)
  PROVE  Accounted(row'[on[c]], hist'[on[c]].sold)
<1>0. /\ TypeOK /\ ClientOK(c) /\ on[c] \in Ids /\ read[c] \in Rows
      /\ row[on[c]] \in Rows /\ hist[on[c]] \in Histories
  BY ClientsOK DEF Accounting, TypeOK
<1>1. PICK q \in Nat, all \in BOOLEAN : ApplyClose(c, q, all) /\ (all => q = read[c].remaining)
  BY <1>0, CloseStep
<1>2. pc[c] = "close" /\ row[on[c]].status \in Live
  BY <1>0, <1>1, CloseStep DEF ApplyClose, KeyHolds
<1>3. /\ read[c].sized = row[on[c]].sized /\ read[c].initial = row[on[c]].initial
      /\ read[c].sized => read[c].remaining + hist[on[c]].sold >= read[c].initial
  BY <1>0, <1>2 DEF ClientOK, Accounted
<1>4. CASE row'[on[c]].sized
  <2>1. row'[on[c]].initial = read[c].initial /\ read[c].sized
    BY <1>0, <1>1, <1>3, <1>4, CloseEffect
  <2>2. hist'[on[c]].sold = hist[on[c]].sold + q
    <3>1. hist'[on[c]] = WithFill(hist[on[c]], read[c], q, all)
      BY <1>0, <1>1, CloseEffect
    <3> QED
      BY <1>0, <2>1, <3>1 DEF WithFill, Histories
  <2>3. row'[on[c]].remaining + q >= read[c].remaining
    <3>1. row'[on[c]].remaining = AfterClose(read[c], q, all).remaining
      BY <1>0, <1>1, CloseEffect
    <3>2. AfterClose(read[c], q, all).remaining = IF AllClosed(read[c], q, all) THEN 0 ELSE Remaining(read[c], q)
      BY <1>0 DEF AfterClose, Rows
    <3>3. Remaining(read[c], q) + q >= read[c].remaining
      BY <1>0, CloseBounds
    <3>4. read[c].remaining \in Nat
      BY <1>0 DEF Rows
    <3> QED
      BY <1>1, <3>1, <3>2, <3>3, <3>4 DEF AllClosed
  <2>4. /\ read[c].remaining \in Nat /\ read[c].initial \in Nat /\ hist[on[c]].sold \in Nat
        /\ row'[on[c]].remaining \in Nat
    BY <1>0, <1>1, ApplyCloseTypes DEF Rows, Histories, TypeOK
  <2> QED
    BY <1>3, <2>1, <2>2, <2>3, <2>4 DEF Accounted
<1> QED
  BY <1>4 DEF Accounted

\* A step keeps every row accounted for.
LEMMA RowsAccounted ==
  ASSUME Accounting, NEW c \in Clients, Step(c)
  PROVE  NeverUnderstated'
<1> SUFFICES ASSUME NEW p \in Ids, row'[p].status \in Live
             PROVE  Accounted(row'[p], hist'[p].sold)
  BY DEF NeverUnderstated
<1>0. /\ TypeOK /\ row[p] \in Rows /\ hist[p] \in Histories
      /\ row[p].status \in Live => Accounted(row[p], hist[p].sold)
  BY DEF Accounting, TypeOK, NeverUnderstated
<1>1. CASE row'[p] = row[p] /\ hist'[p] = hist[p]
  BY <1>0, <1>1
<1>2. CASE OpenAny(c)
  <2>1. PICK o \in Ids, size \in Sizes \cup {0}, sized \in BOOLEAN, plan \in Plans, r \in Recs \cup {None} :
          Open(c, o, size, sized, plan, r)
    BY <1>2 DEF OpenAny
  <2>2. CASE o = p
    BY <1>0, <2>1, <2>2, SizesAreQuantities DEF Open, TypeOK, Opened, NoHistory, Accounted
  <2> QED
    BY <1>1, <2>1, <2>2 DEF Open, TypeOK
<1>3. CASE CloseAny(c)
  <2>1. PICK q \in Nat, all \in BOOLEAN : ApplyClose(c, q, all)
    BY <1>0, <1>3, CloseStep
  <2>2. CASE on[c] = p
    BY <1>3, <2>2, CloseAccounts
  <2> QED
    BY <1>0, <1>1, <2>1, <2>2, CloseEffect
<1>4. CASE PlanWriteAny(c)
  BY <1>0, <1>4 DEF PlanWriteAny, PlanWrite, TypeOK, Accounted, Rows, Histories
<1>5. CASE CashAny(c)
  BY <1>0, <1>5 DEF CashAny, AddCashEvent, TypeOK, Accounted, Rows, Histories
<1>6. CASE DeleteAny(c)
  BY <1>0, <1>1, <1>6 DEF DeleteAny, Delete, TypeOK, NoRow, Live
<1> QED
  BY <1>1, <1>2, <1>3, <1>4, <1>5, <1>6
  DEF Step, LinkAny, Link, DecideAny, Decide, CloseReadAny, CloseRead, ReadOpenRow,
      PlanReadAny, PlanRead, ViewAny, View, ViewRow, ViewFills, Abandon

\* The accounting invariant is inductive.
LEMMA AccountingStep == Accounting /\ [Next]_vars => Accounting'
<1> SUFFICES ASSUME Accounting, [Next]_vars PROVE Accounting'
  OBVIOUS
<1>1. TypeOK /\ TypeOK' /\ (\A p \in Ids : Grows(p)) /\ (\A d \in Clients : ClientOK(d))
  BY TypeStep, GrowsStep, ClientsOK DEF Accounting
<1>2. ASSUME NEW c \in Clients, Step(c) PROVE Accounting'
  <2>1. \A d \in Clients : ClientOK(d)'
    BY <1>1, <1>2, OneSteps, BystanderOK, StepperOK
  <2>2. ReadsAccounted' /\ ViewCoversRow'
    BY <2>1 DEF ReadsAccounted, ViewCoversRow, ClientOK
  <2> QED
    BY <1>1, <1>2, <2>2, RowsAccounted DEF Accounting
<1>3. CASE UNCHANGED vars
  BY <1>3 DEF vars, Accounting, TypeOK, NeverUnderstated, ReadsAccounted, ViewCoversRow
<1> QED
  BY <1>2, <1>3 DEF Next

LEMMA AccountingInit == Init => Accounting
  BY TypeInit DEF Init, Accounting, NeverUnderstated, ReadsAccounted, ViewCoversRow, NoRow, Live

\* Under any interleaving of requests the cached row never shows less open than
\* its fills leave, and no view shows a smaller close history than its row.
THEOREM NeverUnderstatedHolds == Spec => []NeverUnderstated
  BY AccountingInit, AccountingStep, PTL DEF Spec, Accounting

\* A view's fills account for everything its row shows as closed.
THEOREM ViewCoversRowHolds == Spec => []ViewCoversRow
  BY AccountingInit, AccountingStep, PTL DEF Spec, Accounting
-----------------------------------------------------------------------------
\* One row agrees with the closing event that was stored last.
RowAgrees(r, h) ==
  /\ r.closedAt <=> r.status = "CLOSED"
  /\ r.status = "OPEN" <=> h.closing = "none"
  /\ r.status = "CLOSED" <=> h.closing = "FULL_CLOSE"
  /\ r.sized /\ r.initial > 0 => (r.remaining = 0 <=> r.status = "CLOSED")

\* What an action leaves alone it leaves agreeing.
LEMMA AgreesUnlessWritten ==
  ASSUME TypeOK, CacheAgreesWithLastClose, NEW p \in Ids, row'[p].status \in Live,
         row'[p].status = row[p].status, row'[p].closedAt = row[p].closedAt,
         row'[p].sized = row[p].sized, row'[p].initial = row[p].initial,
         row'[p].remaining = row[p].remaining, hist'[p].closing = hist[p].closing
  PROVE  RowAgrees(row'[p], hist'[p])
  BY DEF RowAgrees, CacheAgreesWithLastClose

\* Close stores the status and the event of the same computation, and a sized
\* position is closed exactly when that computation leaves nothing open.
LEMMA CloseAgrees ==
  ASSUME Accounting, NEW c \in Clients, CloseAny(c)
  PROVE  RowAgrees(row'[on[c]], hist'[on[c]])
<1>0. /\ TypeOK /\ ClientOK(c) /\ on[c] \in Ids /\ read[c] \in Rows
      /\ row[on[c]] \in Rows /\ hist[on[c]] \in Histories
  BY ClientsOK DEF Accounting, TypeOK
<1>1. PICK q \in Nat, all \in BOOLEAN : ApplyClose(c, q, all)
  BY <1>0, CloseStep
<1>2. pc[c] = "close" /\ row[on[c]].status \in Live
  BY <1>0, <1>1, CloseStep DEF ApplyClose, KeyHolds
<1>3. read[c].sized = row[on[c]].sized
  BY <1>0, <1>2 DEF ClientOK
<1>4. hist'[on[c]].closing = IF AllClosed(read[c], q, all) THEN "FULL_CLOSE" ELSE "PARTIAL_CLOSE"
  <2>1. hist'[on[c]] = WithFill(hist[on[c]], read[c], q, all)
    BY <1>0, <1>1, CloseEffect
  <2> QED
    BY <1>0, <2>1 DEF WithFill, Histories
<1>5. /\ AfterClose(read[c], q, all).status = IF AllClosed(read[c], q, all) THEN "CLOSED" ELSE "PARTIALLY_CLOSED"
      /\ AfterClose(read[c], q, all).remaining = IF AllClosed(read[c], q, all) THEN 0 ELSE Remaining(read[c], q)
      /\ AfterClose(read[c], q, all).closedAt = AllClosed(read[c], q, all)
  BY <1>0 DEF AfterClose, Rows
<1>6. /\ row'[on[c]].status = AfterClose(read[c], q, all).status
      /\ row'[on[c]].remaining = AfterClose(read[c], q, all).remaining
      /\ row'[on[c]].closedAt = AfterClose(read[c], q, all).closedAt
      /\ row'[on[c]].sized = read[c].sized
  BY <1>0, <1>1, <1>3, CloseEffect
<1>7. read[c].sized /\ ~AllClosed(read[c], q, all) => Remaining(read[c], q) # 0
  BY DEF AllClosed
<1> QED
  BY <1>4, <1>5, <1>6, <1>7 DEF RowAgrees

\* Every step of every request keeps the rows agreeing.
LEMMA AgreesStep ==
  ASSUME Accounting, CacheAgreesWithLastClose, [Next]_vars
  PROVE  CacheAgreesWithLastClose'
<1> SUFFICES ASSUME NEW p \in Ids, row'[p].status \in Live PROVE RowAgrees(row'[p], hist'[p])
  BY DEF CacheAgreesWithLastClose, RowAgrees
<1>0. TypeOK /\ row[p] \in Rows /\ hist[p] \in Histories
  BY DEF Accounting, TypeOK
<1>1. CASE row'[p] = row[p] /\ hist'[p] = hist[p]
  BY <1>0, <1>1, AgreesUnlessWritten
<1>2. ASSUME NEW c \in Clients, OpenAny(c) PROVE RowAgrees(row'[p], hist'[p])
  <2>1. PICK o \in Ids, size \in Sizes \cup {0}, sized \in BOOLEAN, plan \in Plans, r \in Recs \cup {None} :
          Open(c, o, size, sized, plan, r)
    BY <1>2 DEF OpenAny
  <2>2. CASE o = p
    BY <1>0, <2>1, <2>2, SizesAreQuantities DEF Open, TypeOK, Opened, NoHistory, RowAgrees
  <2> QED
    BY <1>1, <2>1, <2>2 DEF Open, TypeOK
<1>3. ASSUME NEW c \in Clients, CloseAny(c) PROVE RowAgrees(row'[p], hist'[p])
  <2>1. PICK q \in Nat, all \in BOOLEAN : ApplyClose(c, q, all)
    BY <1>0, <1>3, CloseStep
  <2>2. CASE on[c] = p
    BY <1>3, <2>2, CloseAgrees
  <2> QED
    BY <1>0, <1>1, <2>1, <2>2, CloseEffect
<1>4. ASSUME NEW c \in Clients, PlanWriteAny(c) PROVE RowAgrees(row'[p], hist'[p])
  <2>1. PICK plan \in Plans : PlanWrite(c, plan)
    BY <1>4 DEF PlanWriteAny
  <2>2. CASE on[c] = p
    <3>1. /\ row' = [row EXCEPT ![p] = [row[p] EXCEPT !.plan = plan]]
          /\ hist' = [hist EXCEPT ![p] = [hist[p] EXCEPT !.planned = plan]]
      BY <2>1, <2>2 DEF PlanWrite
    <3>3. row'[p] = [row[p] EXCEPT !.plan = plan] /\ hist'[p] = [hist[p] EXCEPT !.planned = plan]
      BY <1>0, <3>1 DEF TypeOK
    <3>2. /\ row'[p].status = row[p].status /\ row'[p].closedAt = row[p].closedAt
          /\ row'[p].sized = row[p].sized /\ row'[p].initial = row[p].initial
          /\ row'[p].remaining = row[p].remaining /\ hist'[p].closing = hist[p].closing
      BY <1>0, <3>3 DEF Rows, Histories
    <3> QED
      BY <1>0, <3>2, AgreesUnlessWritten
  <2> QED
    BY <1>1, <2>1, <2>2 DEF PlanWrite, TypeOK
<1>5. ASSUME NEW c \in Clients, CashAny(c) PROVE RowAgrees(row'[p], hist'[p])
  <2>1. PICK o \in Ids : AddCashEvent(c, o)
    BY <1>5 DEF CashAny
  <2>2. CASE o = p
    <3>0. row' = row /\ hist' = [hist EXCEPT ![p] = [hist[p] EXCEPT !.cash = hist[p].cash + 1]]
      BY <2>1, <2>2 DEF AddCashEvent
    <3>1. row'[p] = row[p] /\ hist'[p] = [hist[p] EXCEPT !.cash = hist[p].cash + 1]
      BY <1>0, <3>0 DEF TypeOK
    <3>2. hist'[p].closing = hist[p].closing
      BY <1>0, <3>1 DEF Histories
    <3> QED
      BY <1>0, <3>1, <3>2, AgreesUnlessWritten
  <2> QED
    BY <1>1, <2>1, <2>2 DEF AddCashEvent, TypeOK
<1>6. ASSUME NEW c \in Clients, DeleteAny(c) PROVE RowAgrees(row'[p], hist'[p])
  BY <1>0, <1>1, <1>6 DEF DeleteAny, Delete, TypeOK, NoRow, Live
<1> QED
  BY <1>1, <1>2, <1>3, <1>4, <1>5, <1>6
  DEF Next, Step, vars, LinkAny, Link, DecideAny, Decide, CloseReadAny, CloseRead, ReadOpenRow,
      PlanReadAny, PlanRead, ViewAny, View, ViewRow, ViewFills, Abandon

LEMMA AgreesInit == Init => CacheAgreesWithLastClose
  BY DEF Init, CacheAgreesWithLastClose, NoRow, Live

\* However requests overlap, the cached status, closed_at and remaining quantity
\* are those of the closing event stored last.
THEOREM CacheAgrees == Spec => []CacheAgreesWithLastClose
  BY AccountingInit, AccountingStep, AgreesInit, AgreesStep, PTL DEF Spec
-----------------------------------------------------------------------------
\* What one request at a time adds: nothing writes between a request's read and
\* its write, and so no row goes above the size it was opened with.
OneAtATime == \A c, d \in Clients : c = d

Undisturbed == \A c \in Clients :
  /\ pc[c] \in {"close", "plan"} => row[on[c]].status \in {"OPEN", "PARTIALLY_CLOSED"}
  /\ pc[c] = "close" => read[c] = row[on[c]]

WithinSize == \A p \in Ids : row[p].status \in Live =>
  /\ row[p].remaining <= row[p].initial
  /\ row[p].initial > 0 => row[p].sized

Serial ==
  /\ Accounting
  /\ CacheAgreesWithLastClose
  /\ Undisturbed
  /\ WithinSize
  /\ CacheMatchesFills

LEMMA SerialInit == Init => Serial
  BY AccountingInit, AgreesInit
  DEF Init, Serial, Undisturbed, WithinSize, CacheMatchesFills, NoRow, Live

\* A close that was not overtaken takes something that is still open.
LEMMA SerialClose ==
  ASSUME Serial, NEW c \in Clients, CloseAny(c)
  PROVE  /\ pc[c] = "close" /\ read[c] = row[on[c]]
         /\ row[on[c]].status \in {"OPEN", "PARTIALLY_CLOSED"}
         /\ \E q \in Nat, all \in BOOLEAN :
              /\ ApplyClose(c, q, all)
              /\ all => q = row[on[c]].remaining
              /\ ~all => q > 0
              /\ row[on[c]].remaining > 0 => q <= row[on[c]].remaining
<1>0. TypeOK /\ on[c] \in Ids /\ row[on[c]] \in Rows
  BY DEF Serial, Accounting, TypeOK
<1>1. pc[c] = "close"
  BY <1>0, CloseStep
<1>2. read[c] = row[on[c]] /\ row[on[c]].status \in {"OPEN", "PARTIALLY_CLOSED"}
  BY <1>1 DEF Serial, Undisturbed
<1>3. CASE CloseAll(c)
  <2>1. ApplyClose(c, row[on[c]].remaining, TRUE)
    BY <1>2, <1>3 DEF CloseAll
  <2>2. row[on[c]].remaining \in Nat /\ row[on[c]].remaining <= row[on[c]].remaining
    BY <1>0 DEF Rows
  <2>3. \E q \in Nat, all \in BOOLEAN :
          /\ ApplyClose(c, q, all)
          /\ all => q = row[on[c]].remaining
          /\ ~all => q > 0
          /\ row[on[c]].remaining > 0 => q <= row[on[c]].remaining
    <3> USE <2>2
    <3> WITNESS row[on[c]].remaining \in Nat, TRUE \in BOOLEAN
    <3> QED
      BY <2>1, <2>2
  <2> QED
    BY <1>1, <1>2, <2>3
<1>4. ASSUME NEW want \in 1..(read[c].initial + 1), ClosePart(c, want)
      PROVE  \E q \in Nat : /\ ApplyClose(c, q, FALSE) /\ q > 0
                            /\ row[on[c]].remaining > 0 => q <= row[on[c]].remaining
  <2>1. ApplyClose(c, ClosedQuantity(row[on[c]], want), FALSE) /\ want > 0
    BY <1>2, <1>4 DEF ClosePart
  <2>2. want \in Nat
    BY <1>0, <1>2 DEF Rows
  <2>3. /\ ClosedQuantity(row[on[c]], want) \in Nat /\ ClosedQuantity(row[on[c]], want) > 0
        /\ row[on[c]].remaining > 0 => ClosedQuantity(row[on[c]], want) <= row[on[c]].remaining
    BY <1>0, <2>1, <2>2 DEF ClosedQuantity, Rows
  <2> QED
    BY <2>1, <2>3
<1> QED
  BY <1>1, <1>2, <1>3, <1>4 DEF CloseAny

\* The row and the fills of a position after such a close.
LEMMA SerialCloseEffect ==
  ASSUME Serial, NEW c \in Clients, NEW q \in Nat, NEW all \in BOOLEAN, ApplyClose(c, q, all),
         read[c] = row[on[c]], all => q = row[on[c]].remaining,
         row[on[c]].remaining > 0 => q <= row[on[c]].remaining
  PROVE  LET r == row[on[c]]  s == row'[on[c]]  h == hist[on[c]]  i == hist'[on[c]]
         IN  /\ s.sized = r.sized /\ s.initial = r.initial /\ s.plan = r.plan
             /\ s.status = IF all \/ (r.sized /\ q >= r.remaining) THEN "CLOSED" ELSE "PARTIALLY_CLOSED"
             /\ s.remaining = IF r.remaining > q THEN r.remaining - q ELSE 0
             /\ i.sold = IF r.sized THEN h.sold + q ELSE h.sold
<1>0. /\ TypeOK /\ on[c] \in Ids /\ read[c] \in Rows
      /\ row[on[c]] \in Rows /\ hist[on[c]] \in Histories
  BY DEF Serial, Accounting, TypeOK
<1>1. /\ row[on[c]].remaining \in Nat /\ row[on[c]].sized \in BOOLEAN
      /\ hist[on[c]].sold \in Nat
  BY <1>0 DEF Rows, Histories
<1>2. /\ AfterClose(read[c], q, all).status = IF AllClosed(read[c], q, all) THEN "CLOSED" ELSE "PARTIALLY_CLOSED"
      /\ AfterClose(read[c], q, all).remaining = IF AllClosed(read[c], q, all) THEN 0 ELSE Remaining(read[c], q)
  BY <1>0 DEF AfterClose, Rows
<1>3. AllClosed(read[c], q, all) <=> all \/ (row[on[c]].sized /\ q >= row[on[c]].remaining)
  BY <1>1 DEF AllClosed, Remaining
<1>4. /\ row'[on[c]].status = AfterClose(read[c], q, all).status
      /\ row'[on[c]].remaining = AfterClose(read[c], q, all).remaining
      /\ row'[on[c]].sized = row[on[c]].sized /\ row'[on[c]].initial = row[on[c]].initial
      /\ row'[on[c]].plan = row[on[c]].plan
      /\ hist'[on[c]] = WithFill(hist[on[c]], read[c], q, all)
  BY <1>0, CloseEffect
<1>5. hist'[on[c]].sold = hist[on[c]].sold + (IF row[on[c]].sized THEN q ELSE 0)
  BY <1>0, <1>4 DEF WithFill, Histories
<1>6. row'[on[c]].remaining = IF row[on[c]].remaining > q THEN row[on[c]].remaining - q ELSE 0
  BY <1>1, <1>2, <1>3, <1>4 DEF Remaining
<1>7. row'[on[c]].status = IF all \/ (row[on[c]].sized /\ q >= row[on[c]].remaining)
                             THEN "CLOSED" ELSE "PARTIALLY_CLOSED"
  BY <1>2, <1>3, <1>4
<1>8. hist'[on[c]].sold = IF row[on[c]].sized THEN hist[on[c]].sold + q ELSE hist[on[c]].sold
  BY <1>1, <1>5
<1> QED
  BY <1>4, <1>6, <1>7, <1>8
\* One row and its fills obey what the serial invariant says of every position.
RowSerial(r, h) == r.status \in Live =>
  /\ r.remaining <= r.initial
  /\ r.initial > 0 => r.sized
  /\ r.sized /\ r.initial > 0 => r.remaining + h.sold = r.initial

LEMMA RowsSerial == WithinSize /\ CacheMatchesFills <=> \A p \in Ids : RowSerial(row[p], hist[p])
  BY DEF WithinSize, CacheMatchesFills, RowSerial

\* The position a request opened, closed, planned, paid for or deleted.
LEMMA RowSerialStep ==
  ASSUME Serial, NEW c \in Clients, Step(c), NEW p \in Ids
  PROVE  RowSerial(row'[p], hist'[p])
<1>0. /\ TypeOK /\ row[p] \in Rows /\ hist[p] \in Histories
      /\ RowSerial(row[p], hist[p])
  BY RowsSerial DEF Serial, Accounting, TypeOK
<1>1. CASE row'[p] = row[p] /\ hist'[p] = hist[p]
  BY <1>0, <1>1
<1>2. CASE OpenAny(c)
  <2>1. PICK o \in Ids, size \in Sizes \cup {0}, sized \in BOOLEAN, plan \in Plans, r \in Recs \cup {None} :
          Open(c, o, size, sized, plan, r)
    BY <1>2 DEF OpenAny
  <2>2. CASE o = p
    BY <1>0, <2>1, <2>2, SizesAreQuantities DEF Open, TypeOK, Opened, NoHistory, RowSerial
  <2> QED
    BY <1>1, <2>1, <2>2 DEF Open, TypeOK
<1>3. CASE CloseAny(c)
  <2>1. PICK q \in Nat, all \in BOOLEAN :
          /\ ApplyClose(c, q, all)
          /\ all => q = row[on[c]].remaining
          /\ row[on[c]].remaining > 0 => q <= row[on[c]].remaining
    BY <1>3, SerialClose
  <2>2. CASE on[c] = p
    <3>1. read[c] = row[p] /\ row[p].status \in {"OPEN", "PARTIALLY_CLOSED"}
      BY <1>3, <2>2, SerialClose
    <3>2. /\ row'[p].sized = row[p].sized /\ row'[p].initial = row[p].initial
          /\ row'[p].remaining = IF row[p].remaining > q THEN row[p].remaining - q ELSE 0
          /\ hist'[p].sold = IF row[p].sized THEN hist[p].sold + q ELSE hist[p].sold
      BY <2>1, <2>2, <3>1, SerialCloseEffect
    <3>3. row[p].sized /\ row[p].initial > 0 => row[p].remaining # 0
      BY <3>1 DEF Serial, CacheAgreesWithLastClose, Live
    <3>4. /\ row[p].remaining \in Nat /\ row[p].initial \in Nat /\ row[p].sized \in BOOLEAN
          /\ hist[p].sold \in Nat /\ row[p].status \in Live
          /\ row[p].remaining > 0 => q <= row[p].remaining
      BY <1>0, <2>1, <2>2, <3>1 DEF Rows, Histories, Live
    <3> QED
      BY <1>0, <3>2, <3>3, <3>4 DEF RowSerial
  <2> QED
    BY <1>0, <1>1, <2>1, <2>2, CloseEffect
<1>4. CASE PlanWriteAny(c)
  BY <1>0, <1>4 DEF PlanWriteAny, PlanWrite, TypeOK, RowSerial, Rows, Histories, Live
<1>5. CASE CashAny(c)
  BY <1>0, <1>5 DEF CashAny, AddCashEvent, TypeOK, RowSerial, Rows, Histories
<1>6. CASE DeleteAny(c)
  BY <1>0, <1>1, <1>6 DEF DeleteAny, Delete, TypeOK, NoRow, Live, RowSerial
<1> QED
  BY <1>1, <1>2, <1>3, <1>4, <1>5, <1>6
  DEF Step, LinkAny, Link, DecideAny, Decide, CloseReadAny, CloseRead, ReadOpenRow,
      PlanReadAny, PlanRead, ViewAny, View, ViewRow, ViewFills, Abandon

\* The only request holds the row as it is until it has written.
LEMMA UndisturbedStep ==
  ASSUME Serial, OneAtATime, NEW c \in Clients, Step(c)
  PROVE  Undisturbed'
<1>0. TypeOK /\ on[c] \in Ids /\ pc[c] \in {"idle", "link", "close", "plan", "view", "fills", "shown"}
  BY DEF Serial, Accounting, TypeOK
<1>1. SUFFICES /\ pc'[c] \in {"close", "plan"} => row'[on'[c]].status \in {"OPEN", "PARTIALLY_CLOSED"}
               /\ pc'[c] = "close" => read'[c] = row'[on'[c]]
  BY DEF OneAtATime, Undisturbed
<1>2. CASE CloseReadAny(c) \/ PlanReadAny(c)
  <2>1. PICK p \in Ids, l \in {"close", "plan"} : ReadOpenRow(c, p, l)
    BY <1>2 DEF CloseReadAny, CloseRead, PlanReadAny, PlanRead
  <2> QED
    BY <1>0, <2>1 DEF ReadOpenRow, Live, TypeOK
<1>3. CASE OpenAny(c) \/ LinkAny(c) \/ DecideAny(c)
  BY <1>0, <1>3 DEF OpenAny, Open, LinkAny, Link, DecideAny, Decide, Goto, TypeOK
<1>4. CASE CloseAny(c) \/ PlanWriteAny(c)
  BY <1>0, <1>4 DEF CloseAny, CloseAll, ClosePart, ApplyClose, PlanWriteAny, PlanWrite, Goto, TypeOK
<1>5. CASE CashAny(c) \/ DeleteAny(c)
  BY <1>0, <1>5 DEF CashAny, AddCashEvent, DeleteAny, Delete, Goto, TypeOK
<1>6. CASE ViewAny(c) \/ ViewRow(c) \/ ViewFills(c) \/ Abandon(c)
  BY <1>0, <1>6 DEF ViewAny, View, ViewRow, ViewFills, Abandon, Goto, TypeOK
<1> QED
  BY <1>2, <1>3, <1>4, <1>5, <1>6 DEF Step

LEMMA SerialStep ==
  ASSUME Serial, OneAtATime, [Next]_vars
  PROVE  Serial'
<1>1. ASSUME NEW c \in Clients, Step(c) PROVE Undisturbed' /\ WithinSize' /\ CacheMatchesFills'
  <2>1. \A p \in Ids : RowSerial(row'[p], hist'[p])
    BY <1>1, RowSerialStep
  <2> QED
    BY <1>1, <2>1, UndisturbedStep DEF RowSerial, WithinSize, CacheMatchesFills
<1>2. ASSUME UNCHANGED vars PROVE Undisturbed' /\ WithinSize' /\ CacheMatchesFills'
  BY <1>2 DEF vars, Serial, Undisturbed, WithinSize, CacheMatchesFills
<1>3. Accounting' /\ CacheAgreesWithLastClose'
  BY AccountingStep, AgreesStep DEF Serial
<1> QED
  BY <1>1, <1>2, <1>3 DEF Serial, Next

\* When requests do not overlap, the fills account for the row to the last step:
\* nothing is open that a fill took, and nothing is gone that none took.
THEOREM SerialCacheMatchesFills ==
  ASSUME OneAtATime
  PROVE  Spec => []CacheMatchesFills
<1>1. Serial /\ [Next]_vars => Serial'
  BY SerialStep
<1>2. Serial => CacheMatchesFills
  BY DEF Serial
<1> QED
  BY SerialInit, <1>1, <1>2, PTL DEF Spec
-----------------------------------------------------------------------------
\* The refinement, for requests that do not overlap.
Book == [p \in Ids |-> BookOf(row[p], hist[p])]

\* A request that writes one position changes one entry of the book.
LEMMA OneEntry ==
  ASSUME NEW p \in Ids, \A o \in Ids \ {p} : row'[o] = row[o] /\ hist'[o] = hist[o]
  PROVE  Book' = [Book EXCEPT ![p] = BookOf(row'[p], hist'[p])]
  BY DEF Book

LEMMA LedgerInit == Init => Ledger!BookInit
<1> SUFFICES ASSUME Init PROVE Ledger!BookInit
  OBVIOUS
<1>1. BookOf(NoRow, NoHistory) = [state |-> "none", size |-> 0, open |-> 0, sold |-> 0, plan |-> AnyPlan]
  BY DEF BookOf, StateOf, NoRow, NoHistory
<1>2. [p \in Ids |-> BookOf(row[p], hist[p])]
        = [p \in Ids |-> [state |-> "none", size |-> 0, open |-> 0, sold |-> 0, plan |-> AnyPlan]]
  BY <1>1 DEF Init
<1> QED
  BY <1>2, AnyPlanIsPlan DEF Ledger!BookInit

\* A position's entry, read off its row.
LEMMA EntryOf ==
  ASSUME NEW r \in Rows, NEW h \in Histories
  PROVE  /\ BookOf(r, h).state = StateOf(r) /\ BookOf(r, h).open = r.remaining
         /\ BookOf(r, h).size = r.initial /\ BookOf(r, h).plan = r.plan
         /\ BookOf(r, h).sold = IF r.initial > 0 THEN h.sold ELSE 0
         /\ StateOf(r) = "none" <=> r.status = "none"
         /\ StateOf(r) = "deleted" <=> r.status = "deleted"
         /\ StateOf(r) = "closed" <=> r.status = "CLOSED"
         /\ StateOf(r) = "open" <=> r.status \in {"OPEN", "PARTIALLY_CLOSED"}
  BY DEF BookOf, StateOf, Rows, Live

\* Open records the position.
LEMMA OpenRecords ==
  ASSUME Serial, NEW c \in Clients, OpenAny(c)
  PROVE  Ledger!BookNext
<1>1. PICK p \in Ids, size \in Sizes \cup {0}, sized \in BOOLEAN, plan \in Plans, r \in Recs \cup {None} :
        Open(c, p, size, sized, plan, r)
  BY DEF OpenAny
<1>2. TypeOK /\ row[p] \in Rows /\ hist[p] \in Histories
  BY DEF Serial, Accounting, TypeOK
<1>3. /\ \A o \in Ids \ {p} : row'[o] = row[o] /\ hist'[o] = hist[o]
      /\ row'[p] = Opened(sized, size, plan)
      /\ hist'[p] = [NoHistory EXCEPT !.planned = plan]
  BY <1>1, <1>2 DEF Open, TypeOK
<1>4. BookOf(row'[p], hist'[p])
        = [state |-> "open", size |-> size, open |-> size, sold |-> 0, plan |-> plan]
  BY <1>3 DEF BookOf, StateOf, Opened, NoHistory
<1>5. Book[p].state = "none"
  BY <1>1, <1>2, EntryOf DEF Book, Open
<1>6. Book' = [Book EXCEPT ![p] =
        [state |-> "open", size |-> size, open |-> size, sold |-> 0, plan |-> plan]]
  BY <1>3, <1>4, OneEntry
<1>7. Ledger!Record(p, size, plan)
  BY <1>5, <1>6 DEF Ledger!Record, Book
<1> QED
  BY <1>7 DEF Ledger!BookNext
\* A close that leaves nothing open settles the position, a smaller one reduces
\* it, and one of a position of unknown size leaves the book as it is.
LEMMA CloseReduces ==
  ASSUME Serial, NEW c \in Clients, CloseAny(c)
  PROVE  Ledger!BookNext \/ Book' = Book
<1> DEFINE p == on[c]
           r == row[p]
           h == hist[p]
           was == IF r.initial > 0 THEN h.sold ELSE 0
<1>1. /\ TypeOK /\ p \in Ids /\ r \in Rows /\ h \in Histories
      /\ read[c] = r /\ r.status \in {"OPEN", "PARTIALLY_CLOSED"}
  BY SerialClose DEF Serial, Accounting, TypeOK
<1>2. PICK q \in Nat, all \in BOOLEAN :
        /\ ApplyClose(c, q, all)
        /\ all => q = r.remaining
        /\ ~all => q > 0
        /\ r.remaining > 0 => q <= r.remaining
  BY SerialClose
<1>3. /\ row'[p].initial = r.initial /\ row'[p].plan = r.plan
      /\ row'[p].status = IF all \/ (r.sized /\ q >= r.remaining) THEN "CLOSED" ELSE "PARTIALLY_CLOSED"
      /\ row'[p].remaining = IF r.remaining > q THEN r.remaining - q ELSE 0
      /\ hist'[p].sold = IF r.sized THEN h.sold + q ELSE h.sold
  BY <1>1, <1>2, SerialCloseEffect
<1>4. /\ r.remaining \in Nat /\ r.initial \in Nat /\ r.sized \in BOOLEAN /\ h.sold \in Nat
      /\ r.remaining <= r.initial /\ (r.initial > 0 => r.sized)
      /\ r.sized /\ r.initial > 0 => r.remaining # 0
  BY <1>1 DEF Serial, WithinSize, CacheAgreesWithLastClose, Rows, Histories, Live
<1>5. Book' = [Book EXCEPT ![p] = BookOf(row'[p], hist'[p])]
  BY <1>1, <1>2, CloseEffect, OneEntry
<1>6. Book[p] = [state |-> "open", size |-> r.initial, open |-> r.remaining,
                 sold |-> was, plan |-> r.plan]
  <2>1. StateOf(r) = "open"
    BY <1>1 DEF StateOf
  <2> QED
    BY <1>1, <2>1 DEF Book, BookOf
<1>7. BookOf(row'[p], hist'[p])
        = [state |-> StateOf(row'[p]), size |-> r.initial, open |-> row'[p].remaining,
           sold |-> IF r.initial > 0 THEN hist'[p].sold ELSE 0, plan |-> r.plan]
  BY <1>3 DEF BookOf
<1>8. CASE all \/ (r.sized /\ q >= r.remaining)
  <2>1. StateOf(row'[p]) = "closed" /\ row'[p].remaining = 0
    BY <1>2, <1>3, <1>4, <1>8 DEF StateOf
  <2>2. (IF r.initial > 0 THEN hist'[p].sold ELSE 0) = was + r.remaining
    BY <1>2, <1>3, <1>4, <1>8
  <2>3. /\ Book[p].state = "open" /\ Book[p].size = r.initial /\ Book[p].open = r.remaining
        /\ Book[p].sold = was /\ Book[p].plan = r.plan
    BY <1>6
  <2>4. BookOf(row'[p], hist'[p])
          = [state |-> "closed", size |-> Book[p].size, open |-> 0,
             sold |-> Book[p].sold + Book[p].open, plan |-> Book[p].plan]
    BY <1>7, <2>1, <2>2, <2>3
  <2>5. Ledger!Settle(p)
    BY <1>5, <2>3, <2>4 DEF Ledger!Settle, Book
  <2> QED
    BY <1>1, <2>5 DEF Ledger!BookNext
<1>9. CASE ~(all \/ (r.sized /\ q >= r.remaining)) /\ r.initial > 0
  <2>1. /\ StateOf(row'[p]) = "open" /\ row'[p].remaining = r.remaining - q
        /\ 0 < q /\ q < r.remaining /\ hist'[p].sold = h.sold + q
    BY <1>2, <1>3, <1>4, <1>9 DEF StateOf
  <2>2. /\ Book[p].state = "open" /\ Book[p].size = r.initial /\ Book[p].open = r.remaining
        /\ Book[p].sold = h.sold /\ Book[p].plan = r.plan
    BY <1>6, <1>9
  <2>3. BookOf(row'[p], hist'[p])
          = [state |-> "open", size |-> Book[p].size, open |-> Book[p].open - q,
             sold |-> Book[p].sold + q, plan |-> Book[p].plan]
    BY <1>7, <1>9, <2>1, <2>2
  <2>4. q \in 1..Book[p].open
    BY <1>4, <2>1, <2>2
  <2>5. Ledger!Reduce(p, q)
    BY <1>5, <2>1, <2>2, <2>3 DEF Ledger!Reduce, Book
  <2> QED
    BY <1>1, <2>4, <2>5 DEF Ledger!BookNext, Book
<1>10. CASE ~(all \/ (r.sized /\ q >= r.remaining)) /\ ~(r.initial > 0)
  <2>1. StateOf(row'[p]) = "open" /\ row'[p].remaining = r.remaining
    BY <1>2, <1>3, <1>4, <1>10 DEF StateOf
  <2>2. BookOf(row'[p], hist'[p]) = Book[p]
    BY <1>6, <1>7, <1>10, <2>1
  <2> QED
    BY <1>1, <1>5, <2>2 DEF Book
<1> QED
  BY <1>8, <1>9, <1>10
\* A stored plan replaces the plan of an open position.
LEMMA PlanReplans ==
  ASSUME Serial, NEW c \in Clients, PlanWriteAny(c)
  PROVE  Ledger!BookNext
<1> DEFINE p == on[c]
           r == row[p]
<1>1. PICK plan \in Plans : PlanWrite(c, plan)
  BY DEF PlanWriteAny
<1>2. TypeOK /\ p \in Ids /\ r \in Rows /\ hist[p] \in Histories
  BY DEF Serial, Accounting, TypeOK
<1>3. r.status \in {"OPEN", "PARTIALLY_CLOSED"}
  BY <1>1 DEF Serial, Undisturbed, PlanWrite
<1>4. /\ row' = [row EXCEPT ![p] = [r EXCEPT !.plan = plan]]
      /\ hist' = [hist EXCEPT ![p] = [hist[p] EXCEPT !.planned = plan]]
  BY <1>1 DEF PlanWrite
<1>5. /\ \A o \in Ids \ {p} : row'[o] = row[o] /\ hist'[o] = hist[o]
      /\ row'[p] = [r EXCEPT !.plan = plan]
      /\ hist'[p] = [hist[p] EXCEPT !.planned = plan]
  BY <1>2, <1>4 DEF TypeOK
<1>6. /\ row'[p].status = r.status /\ row'[p].initial = r.initial
      /\ row'[p].remaining = r.remaining /\ row'[p].plan = plan
      /\ hist'[p].sold = hist[p].sold
  BY <1>2, <1>5 DEF Rows, Histories
<1>7. StateOf(row'[p]) = "open" /\ StateOf(r) = "open"
  BY <1>3, <1>6 DEF StateOf
<1>8. BookOf(row'[p], hist'[p]) = [BookOf(r, hist[p]) EXCEPT !.plan = plan]
  BY <1>6, <1>7 DEF BookOf
<1>9. Book[p] = BookOf(r, hist[p]) /\ Book[p].state = "open"
  BY <1>2, <1>7 DEF Book, BookOf
<1>10. Book' = [Book EXCEPT ![p] = [Book[p] EXCEPT !.plan = plan]]
  BY <1>2, <1>5, <1>8, <1>9, OneEntry
<1>11. Ledger!Replan(p, plan)
  BY <1>9, <1>10 DEF Ledger!Replan, Book
<1> QED
  BY <1>2, <1>11 DEF Ledger!BookNext

\* A deleted row drops the position with its history.
LEMMA DeleteDrops ==
  ASSUME Serial, NEW c \in Clients, DeleteAny(c)
  PROVE  Ledger!BookNext
<1>1. PICK p \in Ids : Delete(c, p)
  BY DEF DeleteAny
<1>2. TypeOK /\ row[p] \in Rows /\ hist[p] \in Histories
  BY DEF Serial, Accounting, TypeOK
<1>3. /\ \A o \in Ids \ {p} : row'[o] = row[o] /\ hist'[o] = hist[o]
      /\ row'[p] = [NoRow EXCEPT !.status = "deleted"]
      /\ hist'[p] = NoHistory
  BY <1>1, <1>2 DEF Delete, TypeOK
<1>4. /\ row'[p].status = "deleted" /\ row'[p].initial = 0
      /\ row'[p].remaining = 0 /\ row'[p].plan = AnyPlan
  BY <1>3 DEF NoRow
<1>5. StateOf(row'[p]) = "deleted"
  BY <1>4 DEF StateOf
<1>6. BookOf(row'[p], hist'[p])
        = [state |-> "deleted", size |-> 0, open |-> 0, sold |-> 0, plan |-> AnyPlan]
  BY <1>4, <1>5 DEF BookOf
<1>7. Book[p].state \in {"open", "closed"}
  BY <1>1, <1>2, EntryOf DEF Book, Delete, Live
<1>8. Book' = [Book EXCEPT ![p] =
        [state |-> "deleted", size |-> 0, open |-> 0, sold |-> 0, plan |-> AnyPlan]]
  BY <1>3, <1>6, OneEntry
<1>9. Ledger!Drop(p)
  BY <1>7, <1>8, AnyPlanIsPlan DEF Ledger!Drop, Book
<1> QED
  BY <1>9 DEF Ledger!BookNext

\* A fee or funding event is no part of the book.
LEMMA CashKeepsBook ==
  ASSUME Serial, NEW c \in Clients, CashAny(c)
  PROVE  Book' = Book
<1>1. PICK p \in Ids : AddCashEvent(c, p)
  BY DEF CashAny
<1>2. TypeOK /\ hist[p] \in Histories
  BY DEF Serial, Accounting, TypeOK
<1>3. row' = row /\ hist' = [hist EXCEPT ![p] = [hist[p] EXCEPT !.cash = hist[p].cash + 1]]
  BY <1>1 DEF AddCashEvent
<1>4. \A o \in Ids : hist'[o].sold = hist[o].sold
  BY <1>2, <1>3 DEF TypeOK, Histories
<1> QED
  BY <1>3, <1>4 DEF Book, BookOf

\* Every step of the only request is a step of the ledger or leaves it alone.
LEMMA LedgerStep ==
  ASSUME Serial, [Next]_vars
  PROVE  Ledger!BookNext \/ Book' = Book
<1>1. ASSUME UNCHANGED <<row, hist>> PROVE Book' = Book
  BY <1>1 DEF Book
<1> QED
  BY <1>1, OpenRecords, CloseReduces, PlanReplans, DeleteDrops, CashKeepsBook
  DEF Next, Step, vars, LinkAny, Link, DecideAny, Decide, CloseReadAny, CloseRead, ReadOpenRow,
      PlanReadAny, PlanRead, ViewAny, View, ViewRow, ViewFills, Abandon

\* When requests do not overlap, positions/service.go implements PositionLedger.
THEOREM SerialKeepsLedger ==
  ASSUME OneAtATime
  PROVE  Spec => KeepsLedger
<1>1. Serial /\ [Next]_vars => Serial'
  BY SerialStep
<1>2. Serial /\ [Next]_vars => [Ledger!BookNext]_([p \in Ids |-> BookOf(row[p], hist[p])])
  BY LedgerStep DEF Book
<1> QED
  BY SerialInit, LedgerInit, <1>1, <1>2, PTL DEF Spec, KeepsLedger, Ledger!BookSpec
=============================================================================
