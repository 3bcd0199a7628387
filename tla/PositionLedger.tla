--------------------------- MODULE PositionLedger ---------------------------
(***************************************************************************)
(* What the position component promises its user: a position is opened     *)
(* with a size, is reduced by recorded closes, and once nothing is open it *)
(* stays closed.  Every operation is one step.                             *)
(***************************************************************************)
EXTENDS Integers

CONSTANTS Ids, Plans, Sizes

VARIABLE book

States == {"none", "open", "closed", "deleted"}

BookInit ==
  \E plan \in Plans :
    book = [p \in Ids |-> [state |-> "none", size |-> 0, open |-> 0, sold |-> 0, plan |-> plan]]

Record(p, size, plan) ==
  /\ book[p].state = "none"
  /\ book' = [book EXCEPT ![p] =
       [state |-> "open", size |-> size, open |-> size, sold |-> 0, plan |-> plan]]

Reduce(p, q) ==
  /\ book[p].state = "open"
  /\ 0 < q /\ q < book[p].open
  /\ book' = [book EXCEPT ![p] =
       [state |-> "open", size |-> book[p].size, open |-> book[p].open - q,
        sold |-> book[p].sold + q, plan |-> book[p].plan]]

Settle(p) ==
  /\ book[p].state = "open"
  /\ book' = [book EXCEPT ![p] =
       [state |-> "closed", size |-> book[p].size, open |-> 0,
        sold |-> book[p].sold + book[p].open, plan |-> book[p].plan]]

Replan(p, plan) ==
  /\ book[p].state = "open"
  /\ book' = [book EXCEPT ![p] = [@ EXCEPT !.plan = plan]]

Drop(p) ==
  /\ book[p].state \in {"open", "closed"}
  /\ \E plan \in Plans :
       book' = [book EXCEPT ![p] =
         [state |-> "deleted", size |-> 0, open |-> 0, sold |-> 0, plan |-> plan]]

BookNext ==
  \E p \in Ids :
    \/ \E size \in Sizes \cup {0}, plan \in Plans : Record(p, size, plan)
    \/ \E q \in 1..book[p].open : Reduce(p, q)
    \/ Settle(p)
    \/ \E plan \in Plans : Replan(p, plan)
    \/ Drop(p)

BookSpec == BookInit /\ [][BookNext]_book
=============================================================================
