-------------------------- MODULE ReactionsProofs --------------------------
(***************************************************************************)
(* Proofs about Reactions, for any pairs, horizons, grace and interval:    *)
(* what a pass has measured stays, and the extremes cover the returns.     *)
(***************************************************************************)
EXTENDS Reactions, SequenceTheorems, FiniteSetTheorems, WellFoundedInduction, TLAPS

\* A set of natural numbers that is not empty has a least element.
LEMMA LeastOf ==
  ASSUME NEW S, S \subseteq Nat, S # {}
  PROVE  Min(S) \in S /\ \A y \in S : Min(S) <= y
<1>1. PICK x \in S : \A y \in S : ~ (<<y, x>> \in OpToRel(<, Nat))
  BY WFMin, NatLessThanWellFounded
<1>2. ASSUME NEW y \in S PROVE x <= y
  <2>1. ~ (<<y, x>> \in {ss \in Nat \X Nat : ss[1] < ss[2]})
    BY <1>1 DEF OpToRel
  <2> QED BY <2>1
<1> QED BY <1>2 DEF Min

\* The candle a query finds is stored and lies in the range it asked for.
LEMMA FoundIsStored ==
  ASSUME TypeOK, NEW from, NEW to, FirstClosed(from, to) # None
  PROVE  /\ FirstClosed(from, to) \in candles /\ FirstClosed(from, to) \in Nat
         /\ from <= FirstClosed(from, to) /\ FirstClosed(from, to) <= to
<1>1. InRange(from, to) # {} BY DEF FirstClosed
<1>2. candles \subseteq Nat BY DEF TypeOK
<1>3. InRange(from, to) \subseteq Nat BY <1>2 DEF InRange
<1>4. FirstClosed(from, to) \in InRange(from, to)
  BY <1>1, <1>3, LeastOf, Zenon DEF FirstClosed
<1> QED BY <1>2, <1>4 DEF InRange

LEMMA DayIsNat == Day \in Nat /\ Len(Horizons) \in H /\ H = 1..Len(Horizons) /\ Len(Horizons) \in Nat
<1>1. Horizons \in Seq(Nat \ {0}) /\ Horizons # <<>> BY SomeHorizons
<1>2. Len(Horizons) \in Nat \ {0} /\ DOMAIN Horizons = 1..Len(Horizons)
  BY <1>1, EmptySeq, LenProperties
<1>3. Len(Horizons) \in 1..Len(Horizons) BY <1>2
<1> QED BY <1>1, <1>2, <1>3, ElementOfSeq DEF Day, H

LEMMA HorizonIsNat == \A h \in H : Horizons[h] \in Nat \ {0}
BY SomeHorizons, DayIsNat, ElementOfSeq

(***************************************************************************)
(* The invariant: what a row, and the work a pass does on one, may hold.   *)
(***************************************************************************)

\* A measured return is at a stored candle that closed after the baseline
\* and no later than the pass that measured it.
Sound(r, cs, upto) ==
  \A h \in H : r.at[h] # None =>
    /\ r.base # None /\ r.base < r.at[h]
    /\ r.at[h] \in cs /\ r.at[h] <= upto

Covered(r) ==
  \A h \in H : (r.at[h] # None /\ r.at[h] <= r.base + Day) => r.at[h] \in r.span

Keeps(r, s) ==
  /\ r.base # None => s.base = r.base
  /\ \A h \in H : r.at[h] # None => s.at[h] = r.at[h]

\* The latest instant a pass can have looked at.
Clock == IF pass.pc = "asleep" THEN now ELSE pass.at

RowsOK == \A p \in Pairs : Sound(row[p], candles, Clock) /\ Covered(row[p])

QueueOK ==
  /\ pass.queue # <<>>
  /\ \A i, j \in 1..Len(pass.queue) : i # j => pass.queue[i] # pass.queue[j]
  /\ \A i \in 1..Len(pass.queue) : ~ Final(pass.queue[i])

WorkOK ==
  /\ pass.at <= now
  /\ Sound(pass.work, candles, pass.at)
  /\ Keeps(row[Pair], pass.work)
  /\ pass.pc # "baseline" => pass.work.base # None
  /\ pass.pc = "horizons" => pass.h \in H

Inv == TypeOK /\ RowsOK /\ (pass.pc # "asleep" => QueueOK /\ WorkOK)

\* What MeasuredStays says of one step.
Stays ==
  \A p \in Pairs :
    /\ row[p].base # None => row'[p].base = row[p].base
    /\ \A h \in H : row[p].at[h] # None => row'[p].at[h] = row[p].at[h]
    /\ Final(p) => row'[p] = row[p]

LEMMA KeepsItself == \A r : Keeps(r, r)
BY DEF Keeps

\* What was sound stays sound as candles arrive and time goes on.
LEMMA SoundLater ==
  ASSUME NEW r, NEW cs, NEW ds, NEW t \in Nat, NEW u \in Nat,
         cs \subseteq ds, ds \subseteq Nat, t <= u, Sound(r, cs, t)
  PROVE  Sound(r, ds, u)
<1> SUFFICES ASSUME NEW h \in H, r.at[h] # None
             PROVE  /\ r.base # None /\ r.base < r.at[h]
                    /\ r.at[h] \in ds /\ r.at[h] <= u
  BY DEF Sound
<1>1. r.base # None /\ r.base < r.at[h] /\ r.at[h] \in cs /\ r.at[h] <= t BY DEF Sound
<1>2. r.at[h] \in Nat BY <1>1
<1> QED BY <1>1, <1>2

LEMMA UnchangedStays == ASSUME UNCHANGED row PROVE Stays
BY DEF Stays

LEMMA AsleepIsPass == NoRow \in Rows /\ Asleep \in Passes /\ Asleep.pc = "asleep"
<1>1. NoRow \in Rows BY DEF NoRow, Rows
<1>2. <<>> \in Seq(Pairs) BY EmptySeq
<1> QED BY <1>1, <1>2 DEF Asleep, Passes

(***************************************************************************)
(* The steps.                                                              *)
(***************************************************************************)

LEMMA InitHolds == Init => Inv
<1> SUFFICES ASSUME Init PROVE Inv OBVIOUS
<1>1. TypeOK BY AsleepIsPass DEF Init, TypeOK
<1>2. \A h \in H : NoRow.at[h] = None BY DEF NoRow
<1>3. RowsOK BY <1>2 DEF RowsOK, Sound, Covered, Init
<1> QED BY <1>1, <1>3, AsleepIsPass DEF Inv, Init

\* Going to sleep, with the rows as they are.
LEMMA AbandonKeeps ==
  ASSUME Inv, pass.pc # "asleep", Abandon, UNCHANGED <<now, candles, row>>
  PROVE  Inv' /\ Stays
<1>1. TypeOK' BY AsleepIsPass DEF Inv, TypeOK, Abandon
<1>2. pass'.pc = "asleep" BY AsleepIsPass DEF Abandon
<1>3. Clock = pass.at /\ Clock' = now BY <1>2 DEF Clock
<1>4. pass.at <= now /\ pass.at \in Nat /\ now \in Nat BY DEF Inv, WorkOK, TypeOK, Passes
<1>5. candles \subseteq Nat BY DEF Inv, TypeOK
<1>6. RowsOK'
  <2> SUFFICES ASSUME NEW p \in Pairs
               PROVE  Sound(row'[p], candles', Clock') /\ Covered(row'[p])
    BY DEF RowsOK, Sound, Covered
  <2>1. row' = row /\ candles' = candles OBVIOUS
  <2>2. Sound(row[p], candles, pass.at) /\ Covered(row[p]) BY <1>3 DEF Inv, RowsOK
  <2>3. Sound(row[p], candles, now) BY <2>2, <1>4, <1>5, SoundLater
  <2> QED BY <2>1, <2>2, <2>3, <1>3
<1> QED BY <1>1, <1>2, <1>6, UnchangedStays DEF Inv

\* On to the next pair, with a row for this one that keeps what it had.
LEMMA ProceedKeeps ==
  ASSUME Inv, pass.pc # "asleep", NEW r \in Rows,
         Sound(r, candles, pass.at), Covered(r), Keeps(row[Pair], r),
         row' = [row EXCEPT ![Pair] = r], Proceed, UNCHANGED <<now, candles>>
  PROVE  Inv' /\ Stays
<1> DEFINE n == Len(pass.queue)
<1>1. /\ pass.queue \in Seq(Pairs) /\ pass.queue # <<>> /\ n \in Nat \ {0}
      /\ row \in [Pairs -> Rows] /\ pass.at \in Nat /\ now \in Nat /\ candles \subseteq Nat
      /\ pass \in Passes
  <2>1. pass.queue \in Seq(Pairs) /\ pass.queue # <<>>
    BY DEF Inv, QueueOK, TypeOK, Passes
  <2> QED BY <2>1, EmptySeq DEF Inv, TypeOK, Passes
<1>2. /\ Pair \in Pairs /\ Pair = pass.queue[1]
      /\ Rest \in Seq(Pairs) /\ Len(Rest) = n - 1
      /\ \A i \in 1..Len(Rest) : Rest[i] = pass.queue[i + 1]
  BY <1>1, HeadTailProperties DEF Pair, Rest
<1>3. /\ row' \in [Pairs -> Rows] /\ row'[Pair] = r
      /\ \A p \in Pairs : p # Pair => row'[p] = row[p]
  BY <1>1, <1>2
<1>4. \A i \in 1..Len(Rest) : Rest[i] \in Pairs /\ Rest[i] # Pair /\ row'[Rest[i]] = row[Rest[i]]
  <2> SUFFICES ASSUME NEW i \in 1..Len(Rest)
               PROVE  Rest[i] \in Pairs /\ Rest[i] # Pair
    BY <1>3
  <2>1. i + 1 \in 1..n /\ 1 \in 1..n /\ i + 1 # 1 BY <1>1, <1>2
  <2>2. pass.queue[i + 1] # pass.queue[1] BY <2>1 DEF Inv, QueueOK
  <2> QED BY <2>2, <1>2, ElementOfSeq
<1>5. ~ Final(Pair)
  <2>1. 1 \in 1..n BY <1>1
  <2> QED BY <2>1, <1>2 DEF Inv, QueueOK
<1>6. Stays BY <1>3, <1>5 DEF Stays, Keeps
<1>7. \A p \in Pairs : Sound(row'[p], candles, pass.at) /\ Covered(row'[p])
  <2>1. \A p \in Pairs : Sound(row[p], candles, pass.at) /\ Covered(row[p])
    BY DEF Inv, RowsOK, Clock
  <2> QED BY <2>1, <1>3
<1>8. CASE Rest = <<>>
  <2>1. pass' = Asleep BY <1>8 DEF Proceed
  <2>2. TypeOK' BY <1>1, <1>3, <2>1, AsleepIsPass DEF Inv, TypeOK
  <2>3. Clock' = now BY <2>1, AsleepIsPass DEF Clock
  <2>4. pass.at <= now BY DEF Inv, WorkOK
  <2>5. \A p \in Pairs : Sound(row'[p], candles, now)
    BY <1>1, <1>7, <2>4, SoundLater
  <2>6. RowsOK'
    <3> SUFFICES ASSUME NEW p \in Pairs
                 PROVE  Sound(row'[p], candles', Clock') /\ Covered(row'[p])
      BY DEF RowsOK, Sound, Covered
    <3>1. candles' = candles OBVIOUS
    <3> QED BY <3>1, <1>7, <2>5, <2>3
  <2> QED BY <1>6, <2>1, <2>2, <2>6, AsleepIsPass DEF Inv
<1>9. CASE Rest # <<>>
  <2> DEFINE w == row[Head(Rest)]
  <2>1. pass' = [pass EXCEPT !.pc = "baseline", !.queue = Rest, !.work = w, !.h = 0]
    BY <1>9 DEF Proceed
  <2>2. Len(Rest) \in Nat \ {0} /\ 1 \in 1..Len(Rest)
    BY <1>2, <1>9, EmptySeq
  <2>3. Head(Rest) \in Pairs /\ Head(Rest) = Rest[1] /\ w \in Rows
    BY <1>1, <1>2, <1>9, HeadTailProperties
  <2>4. row'[Head(Rest)] = w BY <2>2, <2>3, <1>4
  <2>5. /\ pass'.pc = "baseline" /\ pass'.queue = Rest /\ pass'.work = w
        /\ pass'.at = pass.at /\ pass' \in Passes
    BY <1>1, <1>2, <2>1, <2>3 DEF Passes
  <2>6. TypeOK' BY <1>1, <1>3, <2>5 DEF Inv, TypeOK
  <2>7. Clock' = pass.at BY <2>5 DEF Clock
  <2>8. RowsOK'
    <3> SUFFICES ASSUME NEW p \in Pairs
                 PROVE  Sound(row'[p], candles', Clock') /\ Covered(row'[p])
      BY DEF RowsOK, Sound, Covered
    <3>1. candles' = candles OBVIOUS
    <3> QED BY <3>1, <1>7, <2>7
  <2>9. QueueOK'
    <3>1. \A i, j \in 1..Len(Rest) : i # j => Rest[i] # Rest[j]
      <4> SUFFICES ASSUME NEW i \in 1..Len(Rest), NEW j \in 1..Len(Rest), i # j
                   PROVE  Rest[i] # Rest[j]
        OBVIOUS
      <4>1. i + 1 \in 1..n /\ j + 1 \in 1..n /\ i + 1 # j + 1 BY <1>1, <1>2
      <4> QED BY <4>1, <1>2 DEF Inv, QueueOK
    <3>2. \A i \in 1..Len(Rest) : ~ (row'[Rest[i]].status \in {"complete", "insufficient"})
      <4> SUFFICES ASSUME NEW i \in 1..Len(Rest)
                   PROVE  ~ (row'[Rest[i]].status \in {"complete", "insufficient"})
        OBVIOUS
      <4>1. i + 1 \in 1..n BY <1>1, <1>2
      <4>2. ~ Final(Rest[i]) BY <4>1, <1>2 DEF Inv, QueueOK
      <4> QED BY <4>2, <1>4 DEF Final
    <3> QED BY <1>9, <2>5, <3>1, <3>2 DEF QueueOK, Final
  <2>10. WorkOK'
    <3>1. Pair' = Head(Rest) BY <2>5 DEF Pair
    <3>2. Sound(w, candles, pass.at) BY <1>7, <2>3, <2>4
    <3>3. row'[Pair'] = w BY <3>1, <2>4
    <3>4. candles' = candles /\ now' = now OBVIOUS
    <3>5. pass.at <= now BY DEF Inv, WorkOK
    <3> QED BY <2>5, <3>2, <3>3, <3>4, <3>5, KeepsItself DEF WorkOK, Sound, Keeps
  <2> QED BY <1>6, <2>6, <2>8, <2>9, <2>10 DEF Inv
<1> QED BY <1>8, <1>9

\* A pass that leaves the row of this pair as it is.
LEMMA SkipKeeps ==
  ASSUME Inv, pass.pc # "asleep", Proceed, UNCHANGED <<now, candles, row>>
  PROVE  Inv' /\ Stays
<1>1. pass.queue \in Seq(Pairs) /\ pass.queue # <<>> /\ row \in [Pairs -> Rows]
  BY DEF Inv, QueueOK, TypeOK, Passes
<1>2. Pair \in Pairs BY <1>1, HeadTailProperties DEF Pair
<1> DEFINE r == row[Pair]
<1>3. r \in Rows /\ row' = [row EXCEPT ![Pair] = r] BY <1>1, <1>2
<1>4. Sound(r, candles, pass.at) /\ Covered(r) BY <1>2 DEF Inv, RowsOK, Clock
<1>5. Keeps(row[Pair], r) BY KeepsItself
<1> HIDE DEF r
<1> QED BY <1>3, <1>4, <1>5, ProceedKeeps

LEMMA TickKeeps == ASSUME Inv, Tick PROVE Inv' /\ Stays
<1>1. /\ now \in Nat /\ now' \in Nat /\ now <= now' /\ 1..now \subseteq 1..now'
      /\ candles \subseteq Nat
  BY DEF Inv, TypeOK, Tick
<1>2. candles' = candles /\ row' = row /\ pass' = pass BY DEF Tick
<1>3. TypeOK' BY <1>1, <1>2 DEF Inv, TypeOK
<1>4. Clock \in Nat /\ Clock' \in Nat /\ Clock <= Clock'
  BY <1>1, <1>2 DEF Clock, Inv, TypeOK, Passes
<1>5. RowsOK'
  <2> SUFFICES ASSUME NEW p \in Pairs
               PROVE  Sound(row'[p], candles', Clock') /\ Covered(row'[p])
    BY DEF RowsOK, Sound, Covered
  <2> QED BY <1>1, <1>2, <1>4, SoundLater DEF Inv, RowsOK
<1>6. ASSUME pass'.pc # "asleep" PROVE QueueOK' /\ WorkOK'
  <2>1. QueueOK /\ WorkOK BY <1>2, <1>6 DEF Inv
  <2>2. pass.at <= now' BY <2>1, <1>1, <1>2 DEF WorkOK, Inv, TypeOK, Passes
  <2> QED BY <2>1, <2>2, <1>2 DEF QueueOK, WorkOK, Final, Sound, Keeps, Pair
<1> QED BY <1>2, <1>3, <1>5, <1>6, UnchangedStays DEF Inv

LEMMA StoreKeeps == ASSUME Inv, StoreCandles PROVE Inv' /\ Stays
<1>1. /\ now' = now /\ row' = row /\ pass' = pass
      /\ candles \subseteq candles' /\ candles' \subseteq 1..now /\ now \in Nat
  BY DEF Inv, TypeOK, StoreCandles
<1>2. TypeOK' BY <1>1 DEF Inv, TypeOK
<1>3. /\ candles' \subseteq Nat /\ Clock \in Nat /\ Clock' = Clock
      /\ pass.at \in Nat /\ Clock <= Clock /\ pass.at <= pass.at
  BY <1>1 DEF Clock, Inv, TypeOK, Passes
<1>5. RowsOK'
  <2> SUFFICES ASSUME NEW p \in Pairs
               PROVE  Sound(row'[p], candles', Clock') /\ Covered(row'[p])
    BY DEF RowsOK, Sound, Covered
  <2> QED BY <1>1, <1>3, SoundLater DEF Inv, RowsOK
<1>6. ASSUME pass'.pc # "asleep" PROVE QueueOK' /\ WorkOK'
  <2>1. QueueOK /\ WorkOK BY <1>1, <1>6 DEF Inv
  <2>2. Sound(pass.work, candles', pass.at)
    BY <2>1, <1>1, <1>3, SoundLater DEF WorkOK
  <2> QED BY <2>1, <2>2, <1>1 DEF QueueOK, WorkOK, Final, Sound, Keeps, Pair
<1> QED BY <1>1, <1>2, <1>5, <1>6, UnchangedStays DEF Inv

LEMMA QueueIsDue ==
  ASSUME TypeOK, NEW q \in Queues
  PROVE  /\ q \in Seq(Pairs)
         /\ \A i, j \in 1..Len(q) : i # j => q[i] # q[j]
         /\ \A i \in 1..Len(q) : ~ Final(q[i])
<1> DEFINE S == {p \in Pairs : Due(p) /\ SeenAt[p] <= now}
<1>1. q \in SetToSeqs(S) BY DEF Queues
<1>2. Cardinality(S) \in Nat
  <2>1. S \subseteq Pairs OBVIOUS
  <2>2. IsFiniteSet(S) BY <2>1, FinitePairs, FS_Subset
  <2> QED BY <2>2, FS_CardinalityType
<1>3. PICK k \in Nat : q \in [1..k -> S] /\ \A i, j \in 1..k : i # j => q[i] # q[j]
  BY <1>1, <1>2 DEF SetToSeqs
<1>4. q \in Seq(S) /\ Len(q) = k
  <2>1. q \in Seq(S) BY <1>3, SeqDef
  <2>2. DOMAIN q = 1..Len(q) /\ Len(q) \in Nat BY <2>1, LenProperties
  <2>3. 1..Len(q) = 1..k BY <2>2, <1>3
  <2>4. PICK n \in Nat : n = Len(q) BY <2>2
  <2>5. k > n => k \in 1..k /\ k \notin 1..n OBVIOUS
  <2>6. n > k => n \in 1..n /\ n \notin 1..k OBVIOUS
  <2>7. 1..n = 1..k BY <2>3, <2>4
  <2>8. ~ (k > n) /\ ~ (n > k) BY <2>5, <2>6, <2>7
  <2>9. n = k BY <2>8
  <2> QED BY <2>1, <2>4, <2>9
<1>5. \A i \in 1..Len(q) : ~ Final(q[i])
  <2> SUFFICES ASSUME NEW i \in 1..Len(q) PROVE ~ Final(q[i]) OBVIOUS
  <2>1. Due(q[i]) BY <1>3, <1>4
  <2> QED BY <2>1 DEF Due, Final
<1> QED BY <1>3, <1>4, <1>5, SeqMonotonic

LEMMA StartKeeps == ASSUME Inv, StartPass PROVE Inv' /\ Stays
<1>1. PICK q \in Queues :
        /\ q # <<>>
        /\ pass' = [Asleep EXCEPT !.pc = "baseline", !.at = now,
                                  !.queue = SubSeq(q, 1, Sooner(Limit, Len(q))),
                                  !.work = row[q[1]]]
  BY DEF StartPass
<1> DEFINE m == Sooner(Limit, Len(q))
           s == SubSeq(q, 1, m)
<1>2. /\ q \in Seq(Pairs)
      /\ \A i, j \in 1..Len(q) : i # j => q[i] # q[j]
      /\ \A i \in 1..Len(q) : ~ Final(q[i])
  BY QueueIsDue DEF Inv
<1>3. Len(q) \in Nat \ {0} BY <1>1, <1>2, EmptySeq
<1>4. m \in Nat \ {0} /\ m <= Len(q) BY <1>3, SomeLimit DEF Sooner
<1> HIDE DEF m
<1>5. s \in Seq(Pairs) /\ Len(s) = m /\ \A i \in 1..m : s[i] = q[i]
  <2>1. \A i \in 1..m : q[i] \in Pairs BY <1>2, <1>3, <1>4, ElementOfSeq
  <2> QED BY <2>1, <1>4, SubSeqProperties
<1>6. s # <<>> /\ Head(s) = q[1] /\ q[1] \in Pairs
  <2>1. s # <<>> BY <1>4, <1>5, EmptySeq
  <2>2. 1 \in 1..m /\ 1 \in 1..Len(q) BY <1>3, <1>4
  <2>3. s[1] = q[1] BY <2>2, <1>5
  <2> QED BY <2>1, <2>2, <2>3, <1>2, <1>5, ElementOfSeq
<1> DEFINE w == row[q[1]]
<1>7. /\ now \in Nat /\ row \in [Pairs -> Rows] /\ candles \subseteq Nat
      /\ now' = now /\ candles' = candles /\ row' = row /\ Clock = now /\ now <= now
  BY DEF Inv, TypeOK, StartPass, Clock
<1> HIDE DEF s
<1>8. pass' = [Asleep EXCEPT !.pc = "baseline", !.at = now, !.queue = s, !.work = w]
  BY <1>1 DEF s, m
<1>9. w \in Rows /\ Sound(w, candles, now) /\ Covered(w)
  BY <1>6, <1>7 DEF Inv, RowsOK
<1> HIDE DEF w
<1>10. /\ pass' \in Passes /\ pass'.pc = "baseline" /\ pass'.at = now
       /\ pass'.queue = s /\ pass'.work = w
  BY <1>5, <1>7, <1>8, <1>9, AsleepIsPass DEF Passes
<1>11. TypeOK' BY <1>7, <1>10 DEF Inv, TypeOK
<1>12. RowsOK'
  <2> SUFFICES ASSUME NEW p \in Pairs
               PROVE  Sound(row'[p], candles', Clock') /\ Covered(row'[p])
    BY DEF RowsOK, Sound, Covered
  <2>1. Clock' = now BY <1>10 DEF Clock
  <2> QED BY <1>7, <2>1 DEF Inv, RowsOK
<1>13. QueueOK'
  <2>1. \A i \in 1..m : i \in 1..Len(q) BY <1>3, <1>4
  <2>2. \A i, j \in 1..m : i # j => s[i] # s[j] BY <2>1, <1>2, <1>5
  <2>3. \A i \in 1..m : ~ (row'[s[i]].status \in {"complete", "insufficient"})
    BY <2>1, <1>2, <1>5, <1>7 DEF Final
  <2> QED BY <2>2, <2>3, <1>5, <1>6, <1>10 DEF QueueOK, Final
<1>14. WorkOK'
  <2>1. row'[Pair'] = w BY <1>6, <1>7, <1>10 DEF Pair, w
  <2> QED BY <2>1, <1>7, <1>9, <1>10, KeepsItself DEF WorkOK, Sound, Keeps
<1> QED BY <1>7, <1>10, <1>11, <1>12, <1>13, <1>14, UnchangedStays DEF Inv

\* What the steps of one pair start from.
LEMMA AtWork ==
  ASSUME Inv, pass.pc # "asleep"
  PROVE  /\ pass \in Passes /\ pass.work \in Rows /\ Pair \in Pairs
         /\ pass.at \in Nat /\ now \in Nat /\ pass.at <= now /\ candles \subseteq Nat
         /\ Sound(pass.work, candles, pass.at) /\ Keeps(row[Pair], pass.work)
         /\ SeenAt[Pair] \in Nat
         /\ \A h \in H : pass.work.at[h] # None =>
              /\ pass.work.at[h] \in Nat /\ pass.work.base \in Nat
              /\ pass.work.base # None
         /\ pass.work.base # None => pass.work.base \in Nat
<1>1. pass \in Passes /\ pass.queue \in Seq(Pairs) /\ pass.queue # <<>> /\ pass.work \in Rows
  BY DEF Inv, QueueOK, TypeOK, Passes
<1>2. Pair \in Pairs BY <1>1, HeadTailProperties DEF Pair
<1>3. SeenAt[Pair] \in Nat BY <1>2, TimesAreNat
<1>4. pass.work.base # None => pass.work.base \in Nat BY <1>1 DEF Rows
<1>5. \A h \in H : pass.work.at[h] # None => pass.work.at[h] \in Nat BY <1>1 DEF Rows
<1>6. /\ pass.at \in Nat /\ now \in Nat /\ pass.at <= now /\ candles \subseteq Nat
      /\ Sound(pass.work, candles, pass.at) /\ Keeps(row[Pair], pass.work)
  BY <1>1 DEF Inv, WorkOK, TypeOK, Passes
<1> QED BY <1>1, <1>2, <1>3, <1>4, <1>5, <1>6 DEF Sound

\* The work goes on with what it had and one more value.
LEMMA WorkKeeps ==
  ASSUME Inv, pass.pc # "asleep", NEW w \in Rows, UNCHANGED <<now, candles, row>>,
         pass' \in Passes, pass'.pc # "asleep", pass'.pc # "baseline",
         pass'.at = pass.at, pass'.queue = pass.queue, pass'.work = w,
         Sound(w, candles, pass.at), Keeps(pass.work, w), w.base # None,
         pass'.pc = "horizons" => pass'.h \in H
  PROVE  Inv' /\ Stays
<1>1. TypeOK' BY DEF Inv, TypeOK
<1>2. Clock' = Clock BY DEF Clock
<1>3. RowsOK'
  <2> SUFFICES ASSUME NEW p \in Pairs
               PROVE  Sound(row'[p], candles', Clock') /\ Covered(row'[p])
    BY DEF RowsOK, Sound, Covered
  <2>1. row' = row /\ candles' = candles OBVIOUS
  <2> QED BY <1>2, <2>1 DEF Inv, RowsOK
<1>4. QueueOK' BY DEF Inv, QueueOK, Final
<1>5. Pair' = Pair BY DEF Pair
<1>6. Keeps(row[Pair], w) BY AtWork DEF Keeps
<1>7. WorkOK' BY <1>5, <1>6, AtWork DEF WorkOK, Sound, Keeps
<1> QED BY <1>1, <1>3, <1>4, <1>7, UnchangedStays DEF Inv

LEMMA BaselineKeeps == ASSUME Inv, Baseline PROVE Inv' /\ Stays
<1> DEFINE work == pass.work
           found == FirstClosed(SeenAt[Pair], pass.at)
           deadline == SeenAt[Pair] + Grace
<1>1. pass.pc = "baseline" /\ pass.pc # "asleep" /\ UNCHANGED <<now, candles>>
  BY DEF Baseline
<1>2. /\ pass \in Passes /\ work \in Rows /\ Pair \in Pairs /\ pass.at \in Nat
      /\ candles \subseteq Nat /\ SeenAt[Pair] \in Nat
      /\ Sound(work, candles, pass.at) /\ Keeps(row[Pair], work)
  BY <1>1, AtWork
<1>3. 1 \in H BY DayIsNat
<1>4. CASE work.base # None
  <2>1. pass' = [pass EXCEPT !.pc = "horizons", !.h = 1] /\ UNCHANGED row
    BY <1>4 DEF Baseline
  <2>2. /\ pass' \in Passes /\ pass'.pc = "horizons" /\ pass'.at = pass.at
        /\ pass'.queue = pass.queue /\ pass'.work = work /\ pass'.h = 1
    BY <1>2, <2>1 DEF Passes
  <2>3. Keeps(work, work) BY KeepsItself
  <2> QED BY <1>1, <1>2, <1>3, <1>4, <2>1, <2>2, <2>3, WorkKeeps
<1>5. CASE work.base = None /\ found = None
  <2> DEFINE r == IF pass.at >= deadline
                    THEN [work EXCEPT !.status = "insufficient", !.next = pass.at]
                    ELSE [work EXCEPT !.status = "tracking",
                                      !.next = Sooner(deadline, pass.at + Poll)]
  <2>1. row' = [row EXCEPT ![Pair] = r] /\ Proceed BY <1>5 DEF Baseline, Put
  <2>2. Sooner(deadline, pass.at + Poll) \in Nat BY <1>2, TimesAreNat DEF Sooner
  <2>3. r \in Rows /\ r.base = work.base /\ r.at = work.at /\ r.span = work.span
    BY <1>2, <2>2 DEF Rows
  <2> HIDE DEF r
  <2>4. Sound(r, candles, pass.at) /\ Keeps(row[Pair], r)
    BY <1>2, <2>3 DEF Sound, Keeps
  <2>5. Covered(r) BY <1>5, <2>3, <2>4 DEF Covered, Sound
  <2> QED BY <1>1, <2>1, <2>3, <2>4, <2>5, ProceedKeeps
<1>6. CASE work.base = None /\ found # None /\ Pair \in Broken
  <2>1. Proceed /\ UNCHANGED row BY <1>6 DEF Baseline
  <2> QED BY <1>1, <2>1, SkipKeeps
<1>7. CASE work.base = None /\ found # None /\ Pair \notin Broken
  <2> DEFINE w == [work EXCEPT !.base = found]
  <2>1. pass' = [pass EXCEPT !.pc = "horizons", !.h = 1, !.work.base = found] /\ UNCHANGED row
    BY <1>7 DEF Baseline
  <2>2. found \in Nat BY <1>7, FoundIsStored DEF Inv
  <2>3. w \in Rows /\ w.base = found /\ w.at = work.at BY <1>2, <2>2 DEF Rows
  <2>4. pass' = [pass EXCEPT !.pc = "horizons", !.h = 1, !.work = w]
    BY <2>1, <1>2 DEF Passes
  <2> HIDE DEF w
  <2>5. /\ pass' \in Passes /\ pass'.pc = "horizons" /\ pass'.at = pass.at
        /\ pass'.queue = pass.queue /\ pass'.work = w /\ pass'.h = 1
    BY <1>2, <2>3, <2>4 DEF Passes
  <2>6. \A h \in H : work.at[h] = None BY <1>2, <1>7 DEF Sound
  <2>7. Sound(w, candles, pass.at) /\ Keeps(work, w) /\ w.base # None
    BY <1>7, <2>3, <2>6 DEF Sound, Keeps
  <2> QED BY <1>1, <1>3, <2>1, <2>3, <2>5, <2>7, WorkKeeps
<1> QED BY <1>4, <1>5, <1>6, <1>7

LEMMA HorizonKeeps == ASSUME Inv, Horizon PROVE Inv' /\ Stays
<1> DEFINE work == pass.work
           h == pass.h
           target == work.base + Horizons[h]
           value == IF work.at[h] # None \/ pass.at < target THEN work.at[h]
                    ELSE FirstClosed(target, pass.at)
           w == [work EXCEPT !.at[h] = value]
<1>1. pass.pc = "horizons" /\ pass.pc # "asleep" /\ UNCHANGED <<now, candles, row>>
  BY DEF Horizon
<1>2. /\ pass \in Passes /\ work \in Rows /\ pass.at \in Nat /\ candles \subseteq Nat
      /\ Sound(work, candles, pass.at)
  BY <1>1, AtWork
<1>3. work.base # None /\ h \in H BY <1>1 DEF Inv, WorkOK
<1>4. work.base \in Nat BY <1>2, <1>3 DEF Rows
<1>5. value = work.at[h] \/ (work.at[h] = None /\ value = FirstClosed(target, pass.at))
  OBVIOUS
<1>6. value # work.at[h] /\ value # None =>
        value \in candles /\ value \in Nat /\ work.base < value /\ value <= pass.at
  <2> SUFFICES ASSUME value # work.at[h], value # None
               PROVE  /\ value \in candles /\ value \in Nat
                      /\ work.base < value /\ value <= pass.at
    OBVIOUS
  <2> HIDE DEF target, value
  <2>1. value = FirstClosed(target, pass.at) BY <1>5
  <2>2. /\ value \in candles /\ value \in Nat /\ target <= value /\ value <= pass.at
    BY <2>1, FoundIsStored DEF Inv
  <2>3. target \in Nat /\ work.base < target BY <1>3, <1>4, HorizonIsNat DEF target
  <2> QED BY <1>4, <2>2, <2>3
<1>7. value \in Nat \cup {None}
  <2>1. work.at[h] \in Nat \cup {None} BY <1>2, <1>3 DEF Rows
  <2> HIDE DEF value
  <2> QED BY <2>1, <1>6
<1>8. /\ w \in Rows /\ w.base = work.base /\ w.at[h] = value
      /\ \A g \in H : g # h => w.at[g] = work.at[g]
  <2> HIDE DEF value
  <2> QED BY <1>2, <1>3, <1>7 DEF Rows
<1>9. pass' = [pass EXCEPT !.work = w,
                           !.pc = IF h = Len(Horizons) THEN "extremes" ELSE @,
                           !.h = h + 1]
  <2>1. pass' = [pass EXCEPT !.work.at[h] = value,
                             !.pc = IF h = Len(Horizons) THEN "extremes" ELSE @,
                             !.h = h + 1]
    BY DEF Horizon
  <2> HIDE DEF value
  <2>2. [pass EXCEPT !.work.at[h] = value] = [pass EXCEPT !.work = w]
    BY <1>2 DEF Passes, Rows
  <2> QED BY <2>1, <2>2
<1>10. Sound(w, candles, pass.at) /\ Keeps(work, w) /\ w.base # None
  <2> HIDE DEF value, w, work
  <2>1. Sound(w, candles, pass.at) BY <1>2, <1>3, <1>6, <1>8 DEF Sound
  <2>2. Keeps(work, w) BY <1>3, <1>5, <1>8 DEF Keeps
  <2> QED BY <1>3, <1>8, <2>1, <2>2
<1> HIDE DEF w
<1>11. /\ pass' \in Passes /\ pass'.at = pass.at /\ pass'.queue = pass.queue /\ pass'.work = w
       /\ pass'.h = h + 1
       /\ pass'.pc = (IF h = Len(Horizons) THEN "extremes" ELSE "horizons")
  <2> DEFINE pc == IF h = Len(Horizons) THEN "extremes" ELSE "horizons"
  <2>1. pass' = [pass EXCEPT !.work = w, !.pc = pc, !.h = h + 1] BY <1>1, <1>9
  <2>2. pc \in {"horizons", "extremes"} /\ h + 1 \in Nat BY <1>2 DEF Passes
  <2>3. w \in Rows BY <1>8
  <2> HIDE DEF pc
  <2>4. /\ pass' \in Passes /\ pass'.at = pass.at /\ pass'.queue = pass.queue
        /\ pass'.work = w /\ pass'.h = h + 1 /\ pass'.pc = pc
    BY <1>2, <2>1, <2>2, <2>3 DEF Passes
  <2> QED BY <2>4 DEF pc
<1>12. pass'.pc = "horizons" => pass'.h \in H BY <1>3, <1>11, DayIsNat
<1> QED BY <1>1, <1>8, <1>10, <1>11, <1>12, WorkKeeps

LEMMA FinishKeeps == ASSUME Inv, Finish PROVE Inv' /\ Stays
<1> DEFINE seen == Extremes(pass.work)
           work == [pass.work EXCEPT !.span = IF seen = {} THEN @ ELSE seen]
<1>1. pass.pc = "extremes" /\ pass.pc # "asleep" /\ UNCHANGED <<now, candles>>
  BY DEF Finish
<1>2. /\ pass \in Passes /\ pass.work \in Rows /\ pass.at \in Nat /\ candles \subseteq Nat
      /\ Sound(pass.work, candles, pass.at) /\ Keeps(row[Pair], pass.work)
  BY <1>1, AtWork
<1>3. pass.work.base # None BY <1>1 DEF Inv, WorkOK
<1>4. pass.work.base \in Nat BY <1>2, <1>3 DEF Rows
<1>5. seen \subseteq Nat BY <1>2 DEF Extremes, InRange
<1>6. \A h \in H : (pass.work.at[h] # None /\ pass.work.at[h] <= pass.work.base + Day)
                    => pass.work.at[h] \in seen
  <2> SUFFICES ASSUME NEW h \in H, pass.work.at[h] # None,
                      pass.work.at[h] <= pass.work.base + Day
               PROVE  pass.work.at[h] \in seen
    OBVIOUS
  <2> DEFINE t == pass.work.at[h]
  <2>1. t \in candles /\ t \in Nat /\ pass.work.base < t /\ t <= pass.at
    BY <1>2 DEF Sound
  <2>2. pass.work.base + 1 <= t BY <2>1, <1>4
  <2>3. t <= Sooner(pass.at, pass.work.base + Day) BY <2>1 DEF Sooner
  <2> QED BY <2>1, <2>2, <2>3 DEF Extremes, InRange
<1> HIDE DEF seen
<1>7. /\ work \in Rows /\ work.base = pass.work.base /\ work.at = pass.work.at
      /\ seen # {} => work.span = seen
  BY <1>2, <1>5 DEF Rows
<1>8. PICK r : /\ row' = [row EXCEPT ![Pair] = r] /\ Proceed
               /\ r \in {[work EXCEPT !.status = "complete", !.next = pass.at],
                          [work EXCEPT !.status = "insufficient", !.next = pass.at],
                          [work EXCEPT !.status = "tracking", !.next = NextDue(work)]}
  <2>1. Put(IF work.at[Len(Horizons)] # None
              THEN [work EXCEPT !.status = "complete", !.next = pass.at]
            ELSE IF pass.at >= work.base + Day + Grace
              THEN [work EXCEPT !.status = "insufficient", !.next = pass.at]
            ELSE [work EXCEPT !.status = "tracking", !.next = NextDue(work)])
    BY DEF Finish, seen
  <2> HIDE DEF work
  <2> QED BY <2>1 DEF Put
<1>9. NextDue(work) \in Nat
  <2> DEFINE open == {h \in H : work.at[h] = None}
  <2>1. open # {} => Min(open) \in open
    <3>1. open \subseteq Nat BY DayIsNat
    <3> HIDE DEF open
    <3> QED BY <3>1, LeastOf
  <2>2. open # {} => Horizons[Min(open)] \in Nat BY <2>1, HorizonIsNat
  <2>3. work.base \in Nat /\ pass.at + Poll \in Nat BY <1>2, <1>4, <1>7, TimesAreNat
  <2> HIDE DEF work
  <2> QED BY <2>2, <2>3 DEF NextDue
<1> HIDE DEF work
<1>10. r \in Rows /\ r.base = pass.work.base /\ r.at = pass.work.at /\ r.span = work.span
  BY <1>2, <1>7, <1>8, <1>9 DEF Rows
<1>11. Sound(r, candles, pass.at) /\ Keeps(row[Pair], r)
  BY <1>2, <1>10 DEF Sound, Keeps
<1>12. Covered(r) BY <1>6, <1>7, <1>10 DEF Covered
<1> QED BY <1>1, <1>8, <1>10, <1>11, <1>12, ProceedKeeps

LEMMA FailKeeps == ASSUME Inv, FailPair PROVE Inv' /\ Stays
BY SkipKeeps DEF FailPair

LEMMA RestartKeeps == ASSUME Inv, Restart PROVE Inv' /\ Stays
BY AbandonKeeps DEF Restart

LEMMA NextKeeps == ASSUME Inv, [Next]_vars PROVE Inv' /\ Stays
<1>1. CASE UNCHANGED vars
  <2>1. Stays BY <1>1, UnchangedStays DEF vars
  <2>2. TypeOK' BY <1>1 DEF vars, Inv, TypeOK
  <2>3. RowsOK' BY <1>1 DEF vars, Inv, RowsOK, Sound, Covered, Clock
  <2>4. pass'.pc # "asleep" => QueueOK' /\ WorkOK'
    BY <1>1 DEF vars, Inv, QueueOK, WorkOK, Final, Sound, Keeps, Pair
  <2> QED BY <2>1, <2>2, <2>3, <2>4 DEF Inv
<1> QED BY <1>1, TickKeeps, StoreKeeps, StartKeeps, BaselineKeeps, HorizonKeeps, FinishKeeps,
           FailKeeps, RestartKeeps DEF Next, PassStep

LEMMA InvHolds == Spec => []Inv
<1>1. Inv /\ [Next]_vars => Inv' BY NextKeeps
<1> QED BY <1>1, InitHolds, PTL DEF Spec

(***************************************************************************)
(* The theorems.                                                           *)
(***************************************************************************)

\* Rows and passes keep their types, whatever candles come and when.
THEOREM ReactionTypes == Spec => []TypeOK
<1>1. Inv => TypeOK BY DEF Inv
<1> QED BY <1>1, InvHolds, PTL

\* The extremes of a row cover every return beside them that falls in its
\* day, for any number of pairs and horizons and whatever pass measured
\* either (news/reactions.go:161-202).
THEOREM ExtremesCoverReturnsHolds == Spec => []ExtremesCoverReturns
<1>1. Inv => ExtremesCoverReturns BY DEF Inv, RowsOK, Covered, ExtremesCoverReturns
<1> QED BY <1>1, InvHolds, PTL

\* No step takes back or moves a baseline or a return that was recorded, or
\* touches a finished reaction (repository/news_reactions.go:132-165).
THEOREM MeasuredStaysHolds == Spec => MeasuredStays
<1>1. Inv /\ [Next]_vars =>
        [\A p \in Pairs :
           /\ row[p].base # None => row'[p].base = row[p].base
           /\ \A h \in H : row[p].at[h] # None => row'[p].at[h] = row[p].at[h]
           /\ Final(p) => row'[p] = row[p]]_vars
  BY NextKeeps DEF Stays
<1> QED BY <1>1, InvHolds, PTL DEF Spec, MeasuredStays
=============================================================================
