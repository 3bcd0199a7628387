------------------------ MODULE AnalysisCycleProofs ------------------------
(***************************************************************************)
(* Proofs about AnalysisCycle, for any number of assets, requests,         *)
(* positions and slots: a recommendation names only positions that were    *)
(* open while it was made, the cooldown is counted from admitted requests, *)
(* and a cycle runs every enabled asset once, open positions first.        *)
(***************************************************************************)
EXTENDS AnalysisCycle, FiniteSetTheorems, SequenceTheorems, TLAPS

(***************************************************************************)
(* The order of a cycle.                                                   *)
(***************************************************************************)
\* s lists each element of S once.
Lists(s, S) == s \in Seq(S) /\ Len(s) = Cardinality(S) /\ \A e \in S : \E i \in 1..Len(s) : s[i] = e

\* What SetToSeqs gives are the listings of a finite set.
LEMMA SetToSeqsLists ==
  ASSUME NEW S, IsFiniteSet(S), NEW s \in SetToSeqs(S)
  PROVE  Lists(s, S)
<1>1. Cardinality(S) \in Nat BY FS_CardinalityType
<1>2. /\ s \in [1..Cardinality(S) -> S]
      /\ \A i, j \in 1..Cardinality(S) : i # j => s[i] # s[j]
  BY DEF SetToSeqs
<1>3. s \in Seq(S) /\ Len(s) = Cardinality(S) BY <1>1, <1>2
<1>4. IsFiniteSet(1..Cardinality(S)) /\ Cardinality(1..Cardinality(S)) = Cardinality(S)
  <2>1. Cardinality(1..Cardinality(S)) = IF 1 > Cardinality(S) THEN 0 ELSE Cardinality(S) - 1 + 1
    BY <1>1, FS_Interval
  <2>2. IsFiniteSet(1..Cardinality(S)) BY <1>1, FS_Interval
  <2> QED BY <1>1, <2>1, <2>2
<1>5. s \in Injection(1..Cardinality(S), S) BY <1>2 DEF Injection, IsInjective
<1>6. s \in Surjection(1..Cardinality(S), S) BY <1>4, <1>5, FS_Injection
<1>7. \A e \in S : \E i \in 1..Cardinality(S) : s[i] = e BY <1>6 DEF Surjection
<1> QED BY <1>3, <1>7 DEF Lists

Spliced(r, s, t) ==
  /\ Len(r) = Len(s) + Len(t)
  /\ \A i \in 1..(Len(s) + Len(t)) : r[i] = IF i <= Len(s) THEN s[i] ELSE t[i - Len(s)]

\* Listings of disjoint sets, one after the other, list their union.
LEMMA ListsConcat ==
  ASSUME NEW S, NEW T, IsFiniteSet(S), IsFiniteSet(T), S \cap T = {},
         NEW s, NEW t, Lists(s, S), Lists(t, T)
  PROVE  Lists(s \o t, S \cup T) /\ Spliced(s \o t, s, t)
<1>1. s \in Seq(S \cup T) /\ t \in Seq(S \cup T) BY SeqMonotonic DEF Lists
<1>2. /\ s \o t \in Seq(S \cup T) /\ Len(s \o t) = Len(s) + Len(t)
      /\ \A i \in 1..(Len(s) + Len(t)) :
           (s \o t)[i] = IF i <= Len(s) THEN s[i] ELSE t[i - Len(s)]
  BY <1>1, ConcatProperties
<1>3. Len(s) \in Nat /\ Len(t) \in Nat BY <1>1, LenProperties
<1>4. Cardinality(S \cup T) = Len(s) + Len(t)
  <2>1. Cardinality(S \cup T) = Cardinality(S) + Cardinality(T) - Cardinality(S \cap T)
    BY FS_Union
  <2>2. Cardinality(S \cap T) = 0 BY FS_EmptySet
  <2> QED BY <1>3, <2>1, <2>2 DEF Lists
<1>5. ASSUME NEW e \in S \cup T PROVE \E i \in 1..Len(s \o t) : (s \o t)[i] = e
  <2>1. CASE e \in S
    <3>1. PICK i \in 1..Len(s) : s[i] = e BY <2>1 DEF Lists
    <3>2. i \in 1..(Len(s) + Len(t)) /\ i <= Len(s) BY <1>3
    <3>3. (s \o t)[i] = e BY <1>2, <3>1, <3>2
    <3> QED BY <1>2, <3>2, <3>3
  <2>2. CASE e \in T
    <3>1. PICK i \in 1..Len(t) : t[i] = e BY <2>2 DEF Lists
    <3>2. /\ Len(s) + i \in 1..(Len(s) + Len(t)) /\ ~(Len(s) + i <= Len(s))
          /\ (Len(s) + i) - Len(s) = i
      BY <1>3
    <3>3. (s \o t)[Len(s) + i] = e BY <1>2, <3>1, <3>2
    <3> QED BY <1>2, <3>2, <3>3
  <2> QED BY <2>1, <2>2
<1> QED BY <1>2, <1>4, <1>5 DEF Lists, Spliced

\* The order is one of the assets that were due, open positions first.
InOrder(s, due, held) ==
  /\ Lists(s, due)
  /\ \A i, j \in 1..Len(s) : i < j /\ s[j] \in held => s[i] \in held

LEMMA PrioritisedInOrder ==
  ASSUME NEW held, NEW strong, tracked \subseteq Assets,
         NEW order \in Prioritised(held, strong)
  PROVE  InOrder(order, tracked, held)
<1> DEFINE A == tracked \cap held
           B == (tracked \cap strong) \ held
           C == tracked \ (held \cup strong)
<1>1. PICK one \in SetToSeqs(A), two \in SetToSeqs(B), three \in SetToSeqs(C) :
        order = one \o two \o three
  BY DEF Prioritised
<1>2. IsFiniteSet(A) /\ IsFiniteSet(B) /\ IsFiniteSet(C) BY FiniteAssets, FS_Subset
<1>3. Lists(one, A) /\ Lists(two, B) /\ Lists(three, C) BY <1>1, <1>2, SetToSeqsLists
<1>4. A \cap B = {} /\ (A \cup B) \cap C = {} /\ (A \cup B) \cup C = tracked OBVIOUS
<1>5. A \subseteq held /\ B \cap held = {} /\ C \cap held = {} OBVIOUS
<1> HIDE DEF A, B, C
<1> DEFINE both == one \o two
<1>6. Lists(both, A \cup B) /\ Spliced(both, one, two) BY <1>2, <1>3, <1>4, ListsConcat, Zenon
<1>7. IsFiniteSet(A \cup B) BY <1>2, FS_Union
<1>8. order = both \o three BY <1>1
<1> HIDE DEF both
<1>9. Lists(both \o three, (A \cup B) \cup C) /\ Spliced(both \o three, both, three)
  BY <1>2, <1>3, <1>4, <1>7, <1>6, ListsConcat, Zenon
<1>10. /\ Len(both) = Len(one) + Len(two)
      /\ \A i \in 1..(Len(one) + Len(two)) :
           both[i] = IF i <= Len(one) THEN one[i] ELSE two[i - Len(one)]
  BY <1>6 DEF Spliced
<1>11. /\ Lists(order, tracked) /\ Len(order) = Len(both) + Len(three)
      /\ \A i \in 1..(Len(both) + Len(three)) :
           order[i] = IF i <= Len(both) THEN both[i] ELSE three[i - Len(both)]
  BY <1>4, <1>8, <1>9 DEF Spliced
<1>12. Len(one) \in Nat /\ Len(two) \in Nat /\ Len(three) \in Nat
  BY <1>3, LenProperties DEF Lists
<1>13. /\ \A i \in 1..Len(one) : one[i] \in held
       /\ \A i \in 1..Len(two) : two[i] \notin held
       /\ \A i \in 1..Len(three) : three[i] \notin held
  <2>1. /\ \A i \in 1..Len(one) : one[i] \in A
        /\ \A i \in 1..Len(two) : two[i] \in B
        /\ \A i \in 1..Len(three) : three[i] \in C
    BY <1>3, ElementOfSeq DEF Lists
  <2> QED BY <1>5, <2>1
<1>14. ASSUME NEW i \in 1..Len(order) PROVE order[i] \in held <=> i <= Len(one)
  <2>1. CASE i <= Len(one)
    <3>1. i \in 1..(Len(one) + Len(two)) /\ i <= Len(both) /\ i \in 1..Len(one)
      BY <1>10, <1>11, <1>12, <2>1
    <3>2. order[i] = one[i] BY <1>10, <1>11, <2>1, <3>1
    <3> QED BY <1>13, <2>1, <3>1, <3>2
  <2>2. CASE i > Len(one) /\ i <= Len(one) + Len(two)
    <3>1. i \in 1..(Len(one) + Len(two)) /\ i <= Len(both) /\ i - Len(one) \in 1..Len(two)
      BY <1>10, <1>11, <1>12, <2>2
    <3>2. order[i] = two[i - Len(one)] BY <1>10, <1>11, <1>12, <2>2, <3>1
    <3> QED BY <1>12, <1>13, <2>2, <3>1, <3>2
  <2>3. CASE i > Len(one) + Len(two)
    <3>1. ~(i <= Len(both)) /\ i - Len(both) \in 1..Len(three) /\ ~(i <= Len(one))
      BY <1>10, <1>11, <1>12, <2>3
    <3>2. order[i] = three[i - Len(both)] BY <1>11, <3>1
    <3> QED BY <1>13, <3>1, <3>2
  <2> QED BY <1>11, <1>12, <1>10, <2>1, <2>2, <2>3
<1>15. ASSUME NEW i \in 1..Len(order), NEW j \in 1..Len(order), i < j, order[j] \in held
       PROVE  order[i] \in held
  <2>1. j <= Len(one) BY <1>14, <1>15
  <2>2. i <= Len(one) BY <1>10, <1>11, <1>12, <1>15, <2>1
  <2> QED BY <1>14, <2>2
<1> QED BY <1>11, <1>15 DEF InOrder

(***************************************************************************)
(* The cycle: what it started, followed by what is still queued, is one    *)
(* listing of the assets that were due.                                    *)
(***************************************************************************)
Running == {"dispatch", "waiting", "drain"}
LoopRec == [pc: Running \cup {"asleep", "stopped"}, wake: Nat, queue: Seq(Assets)]
CycleRec == [due: SUBSET Assets, held: SUBSET Assets, started: Seq(Assets)]

\* rest is what the cycle has not started: nothing, when it was not cut short
\* and waits for its analyses to end.
Remaining(rest) ==
  /\ rest \in Seq(Assets)
  /\ InOrder(cycle.started \o rest, cycle.due, cycle.held)
  /\ loop.pc # "drain" => rest = loop.queue
  /\ loop.pc = "drain" /\ ~stopped => rest = <<>>

CycleInv ==
  /\ now \in Nat
  /\ settings \in [enabled: BOOLEAN, interval: Intervals]
  /\ tracked \subseteq Assets
  /\ loop \in LoopRec /\ cycle \in CycleRec
  /\ loop.pc = "waiting" => loop.queue # <<>>
  /\ loop.pc \in Running => \E rest : Remaining(rest)

LEMMA AsleepLoop ==
  ASSUME NEW t \in Nat, settings.interval \in Nat \ {0}
  PROVE  Asleep(t) \in LoopRec /\ Asleep(t).pc = "asleep"
<1>1. PICK interval \in Nat \ {0} : interval = settings.interval OBVIOUS
<1>2. t \div interval \in Nat BY <1>1
<1>3. ((t \div interval) + 1) * interval \in Nat BY <1>1, <1>2
<1>4. Boundary(t, settings.interval) + Grace \in Nat BY <1>1, <1>3, Times DEF Boundary
<1>5. <<>> \in Seq(Assets) BY EmptySeq
<1> QED BY <1>4, <1>5 DEF Asleep, LoopRec

Moved(s, q, S) ==
  /\ Head(q) \in S /\ Append(s, Head(q)) \in Seq(S) /\ Tail(q) \in Seq(S)
  /\ Append(s, Head(q)) \o Tail(q) = s \o q

\* To move the first of the rest to the end of what was started.
LEMMA MoveOne ==
  ASSUME NEW S, NEW s \in Seq(S), NEW q \in Seq(S), q # <<>>
  PROVE  Moved(s, q, S)
<1>1. /\ Head(q) \in S /\ Tail(q) \in Seq(S) /\ Len(Tail(q)) = Len(q) - 1
      /\ \A i \in 1..Len(Tail(q)) : Tail(q)[i] = q[i + 1]
  BY HeadTailProperties
<1>2. PICK h \in S : h = Head(q) BY <1>1
<1>3. PICK r \in Seq(S) : r = Tail(q) BY <1>1
<1>4. q[1] = h BY <1>2
<1>5. PICK u \in Seq(S) : u = Append(s, h) BY AppendProperties
<1>6. /\ Len(u) = Len(s) + 1 /\ u[Len(s) + 1] = h
      /\ \A i \in 1..Len(s) : u[i] = s[i]
  BY <1>5, AppendProperties
<1>7. Len(s) \in Nat /\ Len(q) \in Nat /\ Len(r) \in Nat /\ Len(r) = Len(q) - 1
  BY <1>1, <1>3, LenProperties
<1>8. /\ u \o r \in Seq(S) /\ Len(u \o r) = Len(u) + Len(r)
      /\ \A i \in 1..Len(u) + Len(r) : (u \o r)[i] = IF i <= Len(u) THEN u[i] ELSE r[i - Len(u)]
  BY ConcatProperties
<1>9. /\ s \o q \in Seq(S) /\ Len(s \o q) = Len(s) + Len(q)
      /\ \A i \in 1..Len(s) + Len(q) : (s \o q)[i] = IF i <= Len(s) THEN s[i] ELSE q[i - Len(s)]
  BY ConcatProperties
<1>10. Len(u \o r) = Len(s \o q) BY <1>6, <1>7, <1>8, <1>9
<1>11. ASSUME NEW i \in 1..Len(u \o r) PROVE (u \o r)[i] = (s \o q)[i]
  <2>1. i \in 1..Len(u) + Len(r) /\ i \in 1..Len(s) + Len(q) BY <1>8, <1>9, <1>10
  <2>2. CASE i <= Len(s)
    <3>1. i <= Len(u) /\ i \in 1..Len(s) BY <1>6, <1>7, <2>1, <2>2
    <3> QED BY <1>6, <1>8, <1>9, <2>1, <2>2, <3>1
  <2>3. CASE i = Len(s) + 1
    <3>1. i <= Len(u) /\ ~(i <= Len(s)) /\ i - Len(s) = 1 BY <1>6, <1>7, <2>3
    <3>2. (u \o r)[i] = u[i] /\ (s \o q)[i] = q[i - Len(s)] BY <1>8, <1>9, <2>1, <3>1
    <3> QED BY <1>4, <1>6, <2>3, <3>1, <3>2
  <2>4. CASE i > Len(s) + 1
    <3>1. /\ ~(i <= Len(u)) /\ ~(i <= Len(s)) /\ i - Len(u) \in 1..Len(r)
          /\ (i - Len(u)) + 1 = i - Len(s)
      BY <1>6, <1>7, <2>1, <2>4
    <3>2. (u \o r)[i] = r[i - Len(u)] /\ (s \o q)[i] = q[i - Len(s)]
      BY <1>8, <1>9, <2>1, <3>1
    <3>3. r[i - Len(u)] = q[(i - Len(u)) + 1] BY <1>1, <1>3, <3>1
    <3> QED BY <3>1, <3>2, <3>3
  <2>5. i <= Len(s) \/ i = Len(s) + 1 \/ i > Len(s) + 1 BY <1>6, <1>7, <2>1
  <2> QED BY <2>2, <2>3, <2>4, <2>5, Zenon
<1>12. u \o r = s \o q BY <1>8, <1>9, <1>10, <1>11, SeqEqual
<1> QED BY <1>1, <1>2, <1>3, <1>5, <1>12 DEF Moved

LEMMA CycleInit == Init => CycleInv
<1>1. SUFFICES ASSUME Init PROVE CycleInv OBVIOUS
<1>2. settings \in [enabled: BOOLEAN, interval: Intervals] /\ settings.interval \in Nat \ {0}
  BY <1>1, PositiveIntervals DEF Init
<1>3. loop \in LoopRec /\ loop.pc = "asleep" BY <1>1, <1>2, AsleepLoop DEF Init
<1>4. cycle \in CycleRec BY <1>1, EmptySeq DEF Init, NoCycle, CycleRec
<1> QED BY <1>1, <1>2, <1>3, <1>4 DEF Init, CycleInv, Running

LEMMA CycleStep == CycleInv /\ [Next]_vars => CycleInv'
<1>1. SUFFICES ASSUME CycleInv, [Next]_vars PROVE CycleInv' OBVIOUS
<1>2. /\ settings.interval \in Nat \ {0} /\ now \in Nat
      /\ loop \in LoopRec /\ cycle \in CycleRec
  BY <1>1, PositiveIntervals DEF CycleInv
\* What stops the process lets a cycle in its last wait have some left.
<1>3. ASSUME now' \in Nat, settings' \in [enabled: BOOLEAN, interval: Intervals],
             tracked' \subseteq Assets, stopped' = stopped \/ stopped',
             UNCHANGED <<loop, cycle>>
      PROVE  CycleInv'
  <2>1. ASSUME NEW rest, Remaining(rest) PROVE Remaining(rest)'
    BY <1>3, <2>1 DEF Remaining
  <2> QED BY <1>1, <1>3, <2>1 DEF CycleInv
<1>4. CASE Tick BY <1>1, <1>2, <1>3, <1>4 DEF Tick, CycleInv
<1>5. CASE EditSettings BY <1>1, <1>3, <1>5 DEF EditSettings, CycleInv
<1>6. ASSUME NEW a \in Assets, Toggle(a) PROVE CycleInv'
  BY <1>1, <1>3, <1>6 DEF Toggle, CycleInv
<1>7. CASE Stop BY <1>1, <1>3, <1>7 DEF Stop, CycleInv
<1>8. ASSUME UNCHANGED <<clock, loop, cycle>> PROVE CycleInv'
  BY <1>1, <1>3, <1>8 DEF clock, CycleInv
<1>9. ASSUME UNCHANGED clock, NEW r \in LoopRec, loop' = r, cycle' \in CycleRec,
             r.pc \notin Running
      PROVE  CycleInv'
  BY <1>1, <1>9 DEF clock, CycleInv, Running
<1>10. CASE StartCycle
  <2>1. CASE loop' = Asleep(now) /\ UNCHANGED cycle
    <3>1. PICK r \in LoopRec : r = Asleep(now) BY <1>2, AsleepLoop
    <3>2. r.pc = "asleep" BY <1>2, <3>1, AsleepLoop
    <3> QED BY <1>2, <1>9, <1>10, <2>1, <3>1, <3>2 DEF StartCycle, Running
  <2>2. CASE ~(loop' = Asleep(now) /\ UNCHANGED cycle)
    <3>1. PICK held : held = {AssetOf[p] : p \in Open} OBVIOUS
    <3>2. PICK strong \in SUBSET tracked :
            \E order \in Prioritised(held, strong) :
              /\ order # <<>>
              /\ loop' = [loop EXCEPT !.pc = "dispatch", !.queue = order]
              /\ cycle' = [due |-> tracked, held |-> held, started |-> <<>>]
      BY <1>10, <2>2, <3>1 DEF StartCycle
    <3>3. PICK order \in Prioritised(held, strong) :
            /\ order # <<>>
            /\ loop' = [loop EXCEPT !.pc = "dispatch", !.queue = order]
            /\ cycle' = [due |-> tracked, held |-> held, started |-> <<>>]
      BY <3>2
    <3>4. tracked \subseteq Assets BY <1>1 DEF CycleInv
    <3>5. InOrder(order, tracked, held) BY <3>3, <3>4, PrioritisedInOrder
    <3>6. order \in Seq(Assets) BY <3>4, <3>5, SeqMonotonic DEF InOrder, Lists
    <3>7. held \subseteq Assets BY <3>1, PositionsOfAssets DEF Open
    <3> DEFINE r == [loop EXCEPT !.pc = "dispatch", !.queue = order]
    <3>8. r \in LoopRec /\ r.pc = "dispatch" /\ r.queue = order
      BY <1>2, <3>6 DEF LoopRec, Running
    <3>9. loop' = r BY <3>3
    <3> HIDE DEF r
    <3>10. cycle' \in CycleRec /\ cycle'.started = <<>> /\ cycle'.due = tracked /\ cycle'.held = held
      BY <3>3, <3>4, <3>7, EmptySeq DEF CycleRec
    <3>11. <<>> \o order = order BY <3>6, ConcatEmptySeq
    <3>12. Remaining(order)' BY <3>5, <3>6, <3>8, <3>9, <3>10, <3>11 DEF Remaining
    <3>13. UNCHANGED clock BY <1>10 DEF StartCycle
    <3> QED BY <1>1, <3>8, <3>9, <3>10, <3>12, <3>13 DEF CycleInv, clock
  <2> QED BY <2>1, <2>2
<1>11. ASSUME UNCHANGED <<clock, cycle>>, loop.pc \in {"dispatch", "waiting"},
              loop.queue = <<>> \/ stopped,
              loop' = [loop EXCEPT !.pc = "drain", !.queue = <<>>]
       PROVE  CycleInv'
  <2> DEFINE r == [loop EXCEPT !.pc = "drain", !.queue = <<>>]
  <2>1. r \in LoopRec /\ r.pc = "drain" BY <1>2, EmptySeq DEF LoopRec, Running
  <2>2. loop' = r BY <1>11
  <2> HIDE DEF r
  <2>3. PICK rest : Remaining(rest) BY <1>1, <1>11 DEF CycleInv, Running
  <2>4. rest = loop.queue BY <1>11, <2>3 DEF Remaining
  <2>5. Remaining(rest)' BY <1>11, <2>1, <2>2, <2>3, <2>4 DEF Remaining, clock
  <2> QED BY <1>1, <1>11, <2>1, <2>2, <2>5 DEF CycleInv, clock
<1>12. CASE Ask
  <2>1. CASE loop.queue = <<>> \/ stopped BY <1>11, <1>12, <2>1 DEF Ask
  <2>2. CASE ~(loop.queue = <<>> \/ stopped)
    <3> DEFINE r == [loop EXCEPT !.pc = "waiting"]
    <3>1. r \in LoopRec /\ r.pc = "waiting" /\ r.queue = loop.queue
      BY <1>2 DEF LoopRec, Running
    <3>2. loop' = r /\ UNCHANGED <<clock, cycle>> /\ loop.pc = "dispatch" BY <1>12, <2>2 DEF Ask
    <3> HIDE DEF r
    <3>3. PICK rest : Remaining(rest) BY <1>1, <3>2 DEF CycleInv, Running
    <3>4. Remaining(rest)' BY <3>1, <3>2, <3>3 DEF Remaining, clock
    <3> QED BY <1>1, <2>2, <3>1, <3>2, <3>4 DEF CycleInv, clock
  <2> QED BY <2>1, <2>2
<1>13. CASE StopWaiting BY <1>11, <1>13 DEF StopWaiting
<1>14. CASE Spawn
  <2>1. loop.pc = "waiting" /\ UNCHANGED clock BY <1>14 DEF Spawn
  <2>2. PICK rest : Remaining(rest) BY <1>1, <2>1 DEF CycleInv, Running
  <2>3. rest = loop.queue /\ rest \in Seq(Assets) /\ rest # <<>>
    BY <1>1, <2>1, <2>2 DEF Remaining, CycleInv
  <2>4. PICK s \in Seq(Assets) : s = cycle.started BY <1>2 DEF CycleRec
  <2>5. Moved(s, rest, Assets) BY <2>3, <2>4, MoveOne, Zenon
  <2>6. PICK s2 \in Seq(Assets) : s2 = Append(s, Head(rest)) BY <2>5 DEF Moved
  <2>7. PICK r2 \in Seq(Assets) : r2 = Tail(rest) BY <2>5 DEF Moved
  <2>8. /\ cycle' = [cycle EXCEPT !.started = s2]
        /\ loop' = [loop EXCEPT !.pc = "dispatch", !.queue = r2]
    BY <1>14, <2>3, <2>4, <2>6, <2>7 DEF Spawn
  <2>9. /\ cycle' \in CycleRec /\ cycle'.started = s2 /\ cycle'.due = cycle.due
        /\ cycle'.held = cycle.held
    BY <1>2, <2>8 DEF CycleRec
  <2> DEFINE r == [loop EXCEPT !.pc = "dispatch", !.queue = r2]
  <2>10. r \in LoopRec /\ r.pc = "dispatch" /\ r.queue = r2 BY <1>2 DEF LoopRec, Running
  <2>11. loop' = r BY <2>8
  <2> HIDE DEF r
  <2>12. InOrder(s \o rest, cycle.due, cycle.held) BY <2>2, <2>4 DEF Remaining
  <2>13. s2 \o r2 = s \o rest BY <2>5, <2>6, <2>7 DEF Moved
  <2>14. Remaining(r2)' BY <2>9, <2>10, <2>11, <2>12, <2>13 DEF Remaining
  <2> QED BY <1>1, <2>1, <2>9, <2>10, <2>11, <2>14 DEF CycleInv, clock
<1>15. CASE EndCycle
  <2>1. PICK r \in LoopRec : r = Asleep(now) BY <1>2, AsleepLoop
  <2>2. r.pc = "asleep" BY <1>2, <2>1, AsleepLoop
  <2>3. NoCycle \in CycleRec BY EmptySeq DEF NoCycle, CycleRec
  <2> QED BY <1>9, <1>15, <2>1, <2>2, <2>3 DEF EndCycle, Running
<1>16. CASE LoopStops
  <2> DEFINE r == [loop EXCEPT !.pc = "stopped"]
  <2>1. r \in LoopRec /\ r.pc = "stopped" BY <1>2 DEF LoopRec
  <2>2. loop' = r /\ UNCHANGED <<clock, cycle>> BY <1>16 DEF LoopStops
  <2> HIDE DEF r
  <2> QED BY <1>2, <1>9, <2>1, <2>2 DEF Running
<1>17. ASSUME NEW p \in Positions, OpenPosition(p) \/ ClosePosition(p) PROVE CycleInv'
  BY <1>1, <1>3, <1>17 DEF OpenPosition, ClosePosition, CycleInv
<1>18. ASSUME NEW c \in Callers, NEW a \in Wants[c], Request(c, a) PROVE CycleInv'
  BY <1>8, <1>18 DEF Request
<1>19. ASSUME NEW c \in Callers, Enter(c) \/ GiveUp(c) PROVE CycleInv'
  BY <1>8, <1>19 DEF Enter, GiveUp
<1>20. ASSUME NEW t \in Tasks, AnalysisStep(t) PROVE CycleInv'
  BY <1>8, <1>20 DEF AnalysisStep, ReadPositions, Recommend, Fail
<1>21. CASE UNCHANGED vars BY <1>8, <1>21 DEF vars, clock
<1> QED BY <1>1, <1>4, <1>5, <1>6, <1>7, <1>10, <1>12, <1>13, <1>14, <1>15, <1>16, <1>17, <1>18,
           <1>19, <1>20, <1>21 DEF Next, LoopStep

(***************************************************************************)
(* The positions an analysis may name.                                     *)
(***************************************************************************)
\* An analysis that never ran has the asset of Idle, whichever that is.
TaskRec == [pc: Holding \cup {"idle", "waiting"},
            asset: Assets \cup {CHOOSE a \in Assets : TRUE},
            ids: SUBSET Positions, alive: SUBSET Positions]

Watches(t) == /\ task[t].pc \in Holding => OpenOf(task[t].asset) \subseteq task[t].alive
              /\ task[t].ids \subseteq task[t].alive
WatchInv   == /\ task \in [Tasks -> TaskRec]
              /\ position \in [Positions -> {"none", "open", "closed"}]
              /\ \A t \in Tasks : Watches(t)

LEMMA IdleTask ==
  /\ Idle \in TaskRec /\ Idle.pc = "idle" /\ Idle.ids = {} /\ Idle.alive = {}
BY DEF Idle, TaskRec

LEMMA BegunTask ==
  ASSUME NEW t, NEW a \in Assets \cup {CHOOSE b \in Assets : TRUE}
  PROVE  /\ Begun(t, a) \in TaskRec /\ Begun(t, a).pc = "build" /\ Begun(t, a).asset = a
         /\ Begun(t, a).ids = {} /\ Begun(t, a).alive = OpenOf(a)
<1>1. OpenOf(a) \subseteq Positions BY DEF OpenOf, Open
<1>2. /\ [Idle EXCEPT !.pc = "build", !.asset = a, !.alive = OpenOf(a)] \in TaskRec
      /\ [Idle EXCEPT !.pc = "build", !.asset = a, !.alive = OpenOf(a)].pc = "build"
      /\ [Idle EXCEPT !.pc = "build", !.asset = a, !.alive = OpenOf(a)].asset = a
      /\ [Idle EXCEPT !.pc = "build", !.asset = a, !.alive = OpenOf(a)].ids = {}
      /\ [Idle EXCEPT !.pc = "build", !.asset = a, !.alive = OpenOf(a)].alive = OpenOf(a)
  BY <1>1, IdleTask DEF TaskRec, Holding
<1> QED BY <1>2 DEF Begun

LEMMA WatchInit == Init => WatchInv
<1>1. SUFFICES ASSUME Init PROVE WatchInv OBVIOUS
<1>2. task \in [Tasks -> TaskRec] BY <1>1, IdleTask DEF Init
<1>3. ASSUME NEW t \in Tasks PROVE Watches(t)
  <2>1. task[t] = Idle BY <1>1 DEF Init
  <2> QED BY <2>1, IdleTask DEF Watches, Holding
<1>4. position \in [Positions -> {"none", "open", "closed"}] BY <1>1 DEF Init
<1> QED BY <1>2, <1>3, <1>4 DEF WatchInv

\* A step of one analysis while the positions stay as they are.
LEMMA WatchLocal ==
  ASSUME WatchInv, position' = position, NEW t \in Tasks, NEW r \in TaskRec,
         task' = [task EXCEPT ![t] = r],
         r.pc \in Holding => OpenOf(r.asset) \subseteq r.alive,
         r.ids \subseteq r.alive
  PROVE  WatchInv'
<1>1. task' \in [Tasks -> TaskRec] /\ task'[t] = r BY DEF WatchInv
<1>2. \A a : OpenOf(a)' = OpenOf(a) BY DEF OpenOf, Open
<1>3. ASSUME NEW s \in Tasks PROVE Watches(s)'
  <2>1. CASE s = t BY <1>1, <1>2, <2>1 DEF Watches
  <2>2. CASE s # t
    <3>1. task'[s] = task[s] BY <2>2 DEF WatchInv
    <3> QED BY <1>2, <3>1 DEF WatchInv, Watches
  <2> QED BY <2>1, <2>2
<1> QED BY <1>1, <1>3 DEF WatchInv

LEMMA WatchSame ==
  ASSUME WatchInv, UNCHANGED <<position, task>>
  PROVE  WatchInv'
BY DEF WatchInv, Watches, OpenOf, Open

LEMMA WatchOpen ==
  ASSUME WatchInv, NEW p \in Positions, OpenPosition(p)
  PROVE  WatchInv'
<1>1. /\ position[p] = "none" /\ position' = [position EXCEPT ![p] = "open"]
      /\ task' = [t \in Tasks |->
                    IF task[t].asset = AssetOf[p] THEN [task[t] EXCEPT !.alive = @ \cup {p}]
                    ELSE task[t]]
  BY DEF OpenPosition
<1>2. position' \in [Positions -> {"none", "open", "closed"}] BY <1>1 DEF WatchInv
<1>3. Open' = Open \cup {p} BY <1>1 DEF WatchInv, Open
<1>4. ASSUME NEW t \in Tasks
      PROVE  /\ task'[t] \in TaskRec /\ task'[t].pc = task[t].pc
             /\ task'[t].asset = task[t].asset /\ task'[t].ids = task[t].ids
             /\ task[t].alive \subseteq task'[t].alive
             /\ task[t].asset = AssetOf[p] => p \in task'[t].alive
  <2>1. task[t] \in TaskRec BY DEF WatchInv
  <2>2. CASE task[t].asset = AssetOf[p]
    <3>1. task'[t] = [task[t] EXCEPT !.alive = @ \cup {p}] BY <1>1, <2>2
    <3> QED BY <2>1, <3>1 DEF TaskRec
  <2>3. CASE task[t].asset # AssetOf[p] BY <1>1, <2>1, <2>3
  <2> QED BY <2>2, <2>3
<1>5. ASSUME NEW t \in Tasks PROVE Watches(t)'
  <2>1. Watches(t) BY DEF WatchInv
  <2>2. ASSUME task[t].pc \in Holding, NEW q \in OpenOf(task[t].asset)'
        PROVE  q \in task'[t].alive
    <3>1. q \in Open' /\ AssetOf[q] = task[t].asset BY <2>2, <1>4 DEF OpenOf
    <3>2. CASE q = p BY <1>4, <3>1, <3>2
    <3>3. CASE q # p
      <4>1. q \in OpenOf(task[t].asset) BY <1>3, <3>1, <3>3 DEF OpenOf
      <4> QED BY <1>4, <2>1, <2>2, <4>1 DEF Watches
    <3> QED BY <3>2, <3>3
  <2> QED BY <1>4, <2>1, <2>2 DEF Watches
<1>6. task' \in [Tasks -> TaskRec] BY <1>1, <1>4
<1> QED BY <1>2, <1>5, <1>6 DEF WatchInv

LEMMA WatchClose ==
  ASSUME WatchInv, NEW p \in Positions, ClosePosition(p)
  PROVE  WatchInv'
<1>1. position' = [position EXCEPT ![p] = "closed"] /\ task' = task BY DEF ClosePosition
<1>2. position' \in [Positions -> {"none", "open", "closed"}] BY <1>1 DEF WatchInv
<1>3. \A a : OpenOf(a)' \subseteq OpenOf(a) BY <1>1 DEF WatchInv, OpenOf, Open
<1>4. ASSUME NEW t \in Tasks PROVE Watches(t)' BY <1>1, <1>3 DEF WatchInv, Watches
<1> QED BY <1>1, <1>2, <1>4 DEF WatchInv

LEMMA WatchStep == CycleInv /\ WatchInv /\ [Next]_vars => WatchInv'
<1>1. SUFFICES ASSUME CycleInv, WatchInv, [Next]_vars PROVE WatchInv' OBVIOUS
<1>2. Assets \subseteq Tasks /\ Callers \subseteq Tasks BY DEF Tasks
<1>3. CASE Tick \/ EditSettings \/ Stop \/ \E a \in Assets : Toggle(a)
  BY <1>1, <1>3, WatchSame DEF Tick, EditSettings, Stop, Toggle
<1>4. ASSUME NEW p \in Positions, OpenPosition(p) \/ ClosePosition(p) PROVE WatchInv'
  BY <1>1, <1>4, WatchOpen, WatchClose
<1>5. CASE StartCycle \/ Ask \/ StopWaiting \/ EndCycle \/ LoopStops
  BY <1>1, <1>5, WatchSame DEF StartCycle, Ask, StopWaiting, EndCycle, LoopStops
<1>6. CASE Spawn
  <2>1. position' = position
        /\ task' = [task EXCEPT ![Head(loop.queue)] = Begun(Head(loop.queue), Head(loop.queue))]
    BY <1>6 DEF Spawn
  <2>2. loop.queue \in Seq(Assets) /\ loop.queue # <<>>
    BY <1>1, <1>6 DEF Spawn, CycleInv, LoopRec
  <2>3. PICK a \in Assets : a = Head(loop.queue) BY <2>2, HeadTailProperties
  <2>4. PICK r : r = Begun(a, a) OBVIOUS
  <2>5. position' = position /\ task' = [task EXCEPT ![a] = r] BY <2>1, <2>3, <2>4
  <2>6. /\ r \in TaskRec /\ r.asset = a /\ r.ids = {} /\ r.alive = OpenOf(a)
    BY <2>4, BegunTask
  <2> QED BY <1>1, <1>2, <2>5, <2>6, WatchLocal
<1>7. ASSUME NEW c \in Callers, Enter(c) PROVE WatchInv'
  <2>1. position' = position /\ task' = [task EXCEPT ![c] = Begun(c, task[c].asset)]
    BY <1>7 DEF Enter
  <2>2. task[c].asset \in Assets \cup {CHOOSE a \in Assets : TRUE}
    BY <1>1, <1>2 DEF WatchInv, TaskRec
  <2>3. PICK r : r = Begun(c, task[c].asset) OBVIOUS
  <2>4. /\ r \in TaskRec /\ r.asset = task[c].asset /\ r.ids = {}
        /\ r.alive = OpenOf(task[c].asset)
    BY <2>2, <2>3, BegunTask
  <2>5. task' = [task EXCEPT ![c] = r] BY <2>1, <2>3
  <2>6. OpenOf(r.asset) \subseteq r.alive /\ r.ids \subseteq r.alive BY <2>4
  <2>7. c \in Tasks BY <1>2
  <2> QED BY <1>1, <2>1, <2>4, <2>5, <2>6, <2>7, WatchLocal
<1>8. ASSUME NEW t \in Tasks, position' = position, task' = [task EXCEPT ![t] = Idle]
      PROVE  WatchInv'
  BY <1>1, <1>8, IdleTask, WatchLocal DEF Holding
<1>9. ASSUME NEW c \in Callers, GiveUp(c) PROVE WatchInv'
  BY <1>2, <1>8, <1>9 DEF GiveUp
<1>10. ASSUME NEW c \in Callers, NEW a \in Wants[c], Request(c, a) PROVE WatchInv'
  <2>1. CASE CoolingDown(a) BY <1>1, <1>10, <2>1, WatchSame DEF Request
  <2>2. CASE ~CoolingDown(a)
    <3> DEFINE r == [task[c] EXCEPT !.pc = "waiting", !.asset = a]
    <3>1. task[c] \in TaskRec /\ Watches(c) BY <1>1, <1>2 DEF WatchInv
    <3>2. a \in Assets BY <1>10, WantsAssets
    <3>3. /\ r \in TaskRec /\ r.pc = "waiting" /\ r.ids = task[c].ids
          /\ r.alive = task[c].alive
      BY <3>1, <3>2 DEF TaskRec
    <3>4. task' = [task EXCEPT ![c] = r] /\ position' = position
      BY <1>10, <2>2 DEF Request
    <3> HIDE DEF r
    <3> QED BY <1>1, <1>2, <3>1, <3>3, <3>4, WatchLocal DEF Watches, Holding
  <2> QED BY <2>1, <2>2
<1>11. ASSUME NEW t \in Tasks, Recommend(t) \/ Fail(t) PROVE WatchInv'
  BY <1>8, <1>11 DEF Recommend, Fail, Done
<1>12. ASSUME NEW t \in Tasks, ReadPositions(t) PROVE WatchInv'
  <2>1. PICK ids \in {OpenIds(task[t].asset), {}} :
          task' = [task EXCEPT ![t] = [task[t] EXCEPT !.pc = "infer", !.ids = ids]]
    BY <1>12 DEF ReadPositions, Become
  <2>2. position' = position /\ task[t].pc = "build" BY <1>12 DEF ReadPositions, At
  <2>3. task[t] \in TaskRec /\ Watches(t) BY <1>1 DEF WatchInv
  <2>4. OpenOf(task[t].asset) \subseteq task[t].alive BY <2>2, <2>3 DEF Watches, Holding
  <2>5. ids \subseteq task[t].alive BY <2>1, <2>4 DEF OpenIds
  <2> DEFINE r == [task[t] EXCEPT !.pc = "infer", !.ids = ids]
  <2>6. /\ r \in TaskRec /\ r.asset = task[t].asset /\ r.ids = ids
        /\ r.alive = task[t].alive
    BY <2>3, <2>5 DEF TaskRec, Holding
  <2>7. task' = [task EXCEPT ![t] = r] BY <2>1
  <2> HIDE DEF r
  <2> QED BY <1>1, <2>2, <2>4, <2>5, <2>6, <2>7, WatchLocal
<1>13. CASE UNCHANGED vars BY <1>1, <1>13, WatchSame DEF vars
<1> QED BY <1>1, <1>3, <1>4, <1>5, <1>6, <1>7, <1>9, <1>10, <1>11, <1>12, <1>13
        DEF Next, LoopStep, AnalysisStep

(***************************************************************************)
(* The cooldown: the stamp of an asset is the time of its last admitted    *)
(* request.                                                                *)
(***************************************************************************)
Answer == [asset: Assets, at: Nat, admitted: BOOLEAN]
Admitted(c, a) == answered[c] # Nothing /\ answered[c].admitted /\ answered[c].asset = a

Stamped(a) ==
  /\ \A c \in Callers : Admitted(c, a) =>
       lastManual[a] # Never /\ answered[c].at <= lastManual[a]
  /\ lastManual[a] # Never =>
       /\ lastManual[a] <= now
       /\ \E c \in Callers : Admitted(c, a) /\ answered[c].at = lastManual[a]

\* What CooldownIsFair says of one request.
Earlier(d, c) == /\ d \in Callers \ {c} /\ answered[d] # Nothing /\ answered[d].admitted
                 /\ answered[d].asset = answered[c].asset /\ answered[d].at <= answered[c].at
FairTo(c) ==
  /\ answered[c].admitted =>
       \A d \in Callers : Earlier(d, c) => answered[c].at - answered[d].at >= Cooldown
  /\ ~answered[c].admitted =>
       \E d \in Callers : Earlier(d, c) /\ answered[c].at - answered[d].at < Cooldown

CoolInv ==
  /\ now \in 0..MaxTime
  /\ lastManual \in [Assets -> Nat]
  /\ answered \in [Callers -> Answer \cup {Nothing}]
  /\ \A c \in Callers : answered[c] # Nothing => answered[c].at <= now /\ FairTo(c)
  /\ \A a \in Assets : Stamped(a)

LEMMA CoolInit == Init => CoolInv
BY Times, NothingIsNoAnswer DEF Init, CoolInv, Stamped, Admitted, Never

LEMMA CoolFair == CoolInv => CooldownIsFair
<1>1. SUFFICES ASSUME CoolInv, NEW c \in Callers, answered[c] # Nothing
      PROVE LET earlier == {d \in Callers \ {c} : /\ answered[d] # Nothing
                                                  /\ answered[d].admitted
                                                  /\ answered[d].asset = answered[c].asset
                                                  /\ answered[d].at <= answered[c].at}
            IN IF answered[c].admitted
                 THEN \A d \in earlier : answered[c].at - answered[d].at >= Cooldown
                 ELSE \E d \in earlier : answered[c].at - answered[d].at < Cooldown
  BY DEF CooldownIsFair
<1>2. FairTo(c) BY <1>1 DEF CoolInv
<1> QED BY <1>2 DEF FairTo, Earlier

\* A step that answers nobody.
LEMMA CoolSame ==
  ASSUME CoolInv, UNCHANGED <<lastManual, answered>>, now' \in 0..MaxTime, now <= now'
  PROVE  CoolInv'
<1>1. now \in Nat /\ MaxTime \in Nat BY Times DEF CoolInv
<1>2. PICK m \in Nat : m = now' BY <1>1
<1>3. now <= m BY <1>2
<1>4. ASSUME NEW c \in Callers, answered'[c] # Nothing
      PROVE  answered'[c].at <= now' /\ FairTo(c)'
  <2>1. answered[c] # Nothing /\ answered[c] \in Answer BY <1>4 DEF CoolInv
  <2>2. answered[c].at \in Nat /\ answered[c].at <= now /\ FairTo(c)
    BY <2>1 DEF Answer, CoolInv
  <2>3. answered[c].at <= m BY <1>1, <1>3, <2>2
  <2> QED BY <1>2, <2>2, <2>3 DEF FairTo, Earlier
<1>5. ASSUME NEW a \in Assets PROVE Stamped(a)'
  <2>1. Stamped(a) /\ lastManual[a] \in Nat BY DEF CoolInv
  <2>2. lastManual[a] # Never => lastManual[a] <= m BY <1>1, <1>3, <2>1 DEF Stamped
  <2> QED BY <1>2, <2>1, <2>2 DEF Stamped, Admitted, Never
<1> QED BY <1>4, <1>5 DEF CoolInv

\* A request is refused: the stamp is that of an admitted one.
LEMMA CoolRefuse ==
  ASSUME CoolInv, NEW c \in Callers, NEW a \in Assets, Request(c, a), CoolingDown(a)
  PROVE  CoolInv'
<1>1. /\ answered[c] = Nothing
      /\ answered' = [answered EXCEPT ![c] = [asset |-> a, at |-> now, admitted |-> FALSE]]
      /\ now' = now /\ lastManual' = lastManual
  BY DEF Request, clock
<1>2. now \in Nat /\ Cooldown \in Nat /\ lastManual[a] \in Nat BY Times DEF CoolInv
<1> DEFINE r == [asset |-> a, at |-> now, admitted |-> FALSE]
<1>3. r \in Answer /\ r.asset = a /\ r.at = now /\ r.admitted = FALSE BY <1>2 DEF Answer
<1>4. answered' = [answered EXCEPT ![c] = r] BY <1>1
<1> HIDE DEF r
<1>5. answered'[c] = r /\ r # Nothing BY <1>3, <1>4, NothingIsNoAnswer DEF CoolInv, Answer
<1>6. \A d \in Callers \ {c} : answered'[d] = answered[d] BY <1>4 DEF CoolInv
<1>7. answered' \in [Callers -> Answer \cup {Nothing}] BY <1>3, <1>4 DEF CoolInv
<1>8. \A d \in Callers, b \in Assets : Admitted(d, b)' <=> Admitted(d, b)
  BY <1>1, <1>3, <1>5, <1>6 DEF Admitted
<1>9. ASSUME NEW b \in Assets PROVE Stamped(b)'
  <2>1. Stamped(b) BY DEF CoolInv
  <2>2. \A d \in Callers : Admitted(d, b) => d # c BY <1>1 DEF Admitted
  <2> QED BY <1>1, <1>6, <1>8, <2>1, <2>2 DEF Stamped
<1>10. FairTo(c)'
  <2>1. /\ lastManual[a] # Never /\ now - lastManual[a] < Cooldown BY DEF CoolingDown
  <2>2. PICK d \in Callers : Admitted(d, a) /\ answered[d].at = lastManual[a] /\ lastManual[a] <= now
    BY <2>1 DEF CoolInv, Stamped
  <2>3. d # c /\ answered'[d] = answered[d] BY <1>1, <1>6, <2>2 DEF Admitted
  <2>4. Earlier(d, c)' BY <1>3, <1>5, <2>2, <2>3 DEF Earlier, Admitted
  <2>5. answered'[c].at - answered'[d].at < Cooldown BY <1>3, <1>5, <2>1, <2>2, <2>3
  <2> QED BY <1>3, <1>5, <2>4, <2>5 DEF FairTo
<1>11. ASSUME NEW e \in Callers, answered'[e] # Nothing
       PROVE  answered'[e].at <= now' /\ FairTo(e)'
  <2>1. CASE e = c BY <1>1, <1>2, <1>3, <1>5, <1>10, <2>1
  <2>2. CASE e # c
    <3>1. answered'[e] = answered[e] /\ answered[e].at <= now /\ FairTo(e)
      BY <1>6, <1>11, <2>2 DEF CoolInv
    <3>2. ASSUME NEW d \in Callers
          PROVE  /\ Earlier(d, e)' <=> Earlier(d, e)
                 /\ Earlier(d, e) => answered'[d] = answered[d]
      <4>1. CASE d = c BY <1>1, <1>3, <1>5, <4>1 DEF Earlier
      <4>2. CASE d # c
        <5>1. answered'[d] = answered[d] BY <1>6, <4>2
        <5> QED BY <3>1, <5>1 DEF Earlier
      <4> QED BY <4>1, <4>2
    <3>3. FairTo(e)' BY <3>1, <3>2 DEF FairTo
    <3> QED BY <1>1, <3>1, <3>3
  <2> QED BY <2>1, <2>2
<1> QED BY <1>1, <1>7, <1>9, <1>11 DEF CoolInv

\* A request is admitted: whatever was admitted before is Cooldown old.
LEMMA CoolAdmit ==
  ASSUME CoolInv, NEW c \in Callers, NEW a \in Assets, Request(c, a), ~CoolingDown(a)
  PROVE  CoolInv'
<1>1. /\ answered[c] = Nothing
      /\ answered' = [answered EXCEPT ![c] = [asset |-> a, at |-> now, admitted |-> TRUE]]
      /\ now' = now /\ lastManual' = [lastManual EXCEPT ![a] = now]
  BY DEF Request, clock
<1>2. now \in Nat /\ now <= MaxTime /\ MaxTime \in Nat /\ Cooldown \in Nat /\ lastManual[a] \in Nat
  BY Times DEF CoolInv
<1> DEFINE r == [asset |-> a, at |-> now, admitted |-> TRUE]
<1>3. r \in Answer /\ r.asset = a /\ r.at = now /\ r.admitted = TRUE BY <1>2 DEF Answer
<1>4. answered' = [answered EXCEPT ![c] = r] BY <1>1
<1> HIDE DEF r
<1>5. answered'[c] = r /\ r # Nothing BY <1>3, <1>4, NothingIsNoAnswer DEF CoolInv, Answer
<1>6. \A d \in Callers \ {c} : answered'[d] = answered[d] BY <1>4 DEF CoolInv
<1>7. answered' \in [Callers -> Answer \cup {Nothing}] BY <1>3, <1>4 DEF CoolInv
<1>8. ASSUME NEW d \in Callers, Admitted(d, a)
      PROVE  /\ answered[d].at \in Nat /\ answered[d].at <= now
             /\ now - answered[d].at >= Cooldown
  <2>1. answered[d] \in Answer BY <1>8 DEF Admitted, CoolInv
  <2>2. answered[d].at \in Nat BY <2>1 DEF Answer
  <2>3. /\ lastManual[a] # Never /\ answered[d].at <= lastManual[a] /\ lastManual[a] <= now
    BY <1>8 DEF CoolInv, Stamped
  <2>4. ~(now - lastManual[a] < Cooldown) BY <2>3 DEF CoolingDown
  <2> QED BY <1>2, <2>2, <2>3, <2>4
<1>9. lastManual' \in [Assets -> Nat] /\ lastManual'[a] = now BY <1>1, <1>2 DEF CoolInv
<1>10. ASSUME NEW b \in Assets PROVE Stamped(b)'
  <2>1. CASE b = a
    <3>1. ASSUME NEW d \in Callers, Admitted(d, a)'
          PROVE  answered'[d].at <= now
      <4>1. CASE d = c BY <1>2, <1>3, <1>5, <4>1
      <4>2. CASE d # c
        <5>1. Admitted(d, a) /\ answered'[d] = answered[d] BY <1>6, <3>1, <4>2 DEF Admitted
        <5> QED BY <1>8, <5>1
      <4> QED BY <4>1, <4>2
    <3>2. Admitted(c, a)' /\ answered'[c].at = now BY <1>3, <1>5 DEF Admitted
    <3>3. now # Never /\ now <= now' BY <1>1, <1>2 DEF Never
    <3>4. lastManual'[b] = now BY <1>9, <2>1
    <3> QED BY <2>1, <3>1, <3>2, <3>3, <3>4, Zenon DEF Stamped, Never
  <2>2. CASE b # a
    <3>1. lastManual'[b] = lastManual[b] /\ Stamped(b) BY <1>1, <2>2 DEF CoolInv
    <3>2. ~Admitted(c, b) /\ ~Admitted(c, b)' BY <1>1, <1>3, <1>5, <2>2 DEF Admitted
    <3>3. \A d \in Callers : Admitted(d, b)' <=> Admitted(d, b)
      BY <1>6, <3>2 DEF Admitted
    <3> QED BY <1>1, <1>6, <3>1, <3>2, <3>3 DEF Stamped, Never
  <2> QED BY <2>1, <2>2
<1>11. FairTo(c)'
  <2>1. ASSUME NEW d \in Callers, Earlier(d, c)'
        PROVE  answered'[c].at - answered'[d].at >= Cooldown
    <3>1. d # c /\ answered'[d] = answered[d] BY <1>6, <2>1 DEF Earlier
    <3>2. Admitted(d, a) BY <1>3, <1>5, <2>1, <3>1 DEF Earlier, Admitted
    <3> QED BY <1>3, <1>5, <1>8, <3>1, <3>2
  <2> QED BY <1>3, <1>5, <2>1 DEF FairTo
<1>12. ASSUME NEW e \in Callers, answered'[e] # Nothing
       PROVE  answered'[e].at <= now' /\ FairTo(e)'
  <2>1. CASE e = c BY <1>1, <1>2, <1>3, <1>5, <1>11, <2>1
  <2>2. CASE e # c
    <3>1. answered'[e] = answered[e] /\ answered[e].at <= now /\ FairTo(e) /\ answered[e] \in Answer
      BY <1>6, <1>12, <2>2 DEF CoolInv
    <3>2. ASSUME NEW d \in Callers, d # c
          PROVE  /\ Earlier(d, e)' <=> Earlier(d, e)
                 /\ answered'[d] = answered[d]
      <4>1. answered'[d] = answered[d] BY <1>6, <3>2
      <4> QED BY <3>1, <4>1 DEF Earlier
    <3>3. ASSUME Earlier(c, e)', answered[e].admitted
          PROVE  answered'[e].at - answered'[c].at >= Cooldown
      <4>1. answered[e].at \in Nat /\ answered[e].asset = a /\ now <= answered[e].at
        BY <1>3, <1>5, <3>1, <3>3 DEF Earlier, Answer
      <4>2. answered[e] # Nothing BY <1>12, <3>1
      <4>3. Admitted(e, a) BY <3>3, <4>1, <4>2 DEF Admitted
      <4>4. now - answered[e].at >= Cooldown BY <1>8, <4>3
      <4> QED BY <1>2, <1>3, <1>5, <3>1, <4>1, <4>4
    <3>4. ~Earlier(c, e) BY <1>1 DEF Earlier
    <3>5. FairTo(e)' BY <3>1, <3>2, <3>3, <3>4 DEF FairTo
    <3> QED BY <1>1, <3>1, <3>5
  <2> QED BY <2>1, <2>2
<1> QED BY <1>1, <1>7, <1>9, <1>10, <1>12 DEF CoolInv

LEMMA CoolStep == CoolInv /\ [Next]_vars => CoolInv'
<1>1. SUFFICES ASSUME CoolInv, [Next]_vars PROVE CoolInv' OBVIOUS
<1>2. now \in 0..MaxTime /\ MaxTime \in Nat BY <1>1, Times DEF CoolInv
<1>3. ASSUME UNCHANGED <<lastManual, answered>>, now' = now PROVE CoolInv'
  BY <1>1, <1>2, <1>3, CoolSame
<1>4. CASE Tick
  <2>1. /\ UNCHANGED <<lastManual, answered>> /\ now < MaxTime /\ now' = now + 1
    BY <1>4 DEF Tick
  <2>2. now' \in 0..MaxTime /\ now <= now' BY <1>2, <2>1
  <2> QED BY <1>1, <2>1, <2>2, CoolSame
<1>5. ASSUME NEW c \in Callers, NEW a \in Wants[c], Request(c, a) PROVE CoolInv'
  <2>1. a \in Assets BY <1>5, WantsAssets
  <2> QED BY <1>1, <1>5, <2>1, CoolRefuse, CoolAdmit
<1>6. CASE \/ EditSettings \/ Stop \/ \E a \in Assets : Toggle(a)
           \/ \E p \in Positions : OpenPosition(p) \/ ClosePosition(p)
  BY <1>3, <1>6 DEF EditSettings, Stop, Toggle, OpenPosition, ClosePosition
<1>7. CASE LoopStep
  BY <1>3, <1>7 DEF LoopStep, StartCycle, Ask, Spawn, StopWaiting, EndCycle, LoopStops, clock
<1>8. ASSUME NEW c \in Callers, Enter(c) \/ GiveUp(c) PROVE CoolInv'
  BY <1>3, <1>8 DEF Enter, GiveUp, clock
<1>9. ASSUME NEW t \in Tasks, AnalysisStep(t) PROVE CoolInv'
  BY <1>3, <1>9 DEF AnalysisStep, ReadPositions, Recommend, Fail, clock
<1>10. CASE UNCHANGED vars BY <1>3, <1>10 DEF vars
<1> QED BY <1>1, <1>4, <1>5, <1>6, <1>7, <1>8, <1>9, <1>10 DEF Next

(***************************************************************************)
(* The theorems.                                                           *)
(***************************************************************************)
LEMMA CycleAlways == Spec => []CycleInv
BY CycleInit, CycleStep, PTL DEF Spec

\* The end of a cycle, from the invariant before it.
LEMMA CompleteStep ==
  ASSUME CycleInv, [Next]_vars, loop.pc = "drain", loop'.pc = "asleep"
  PROVE  /\ ~stopped => /\ ToSet(cycle.started) = cycle.due
                        /\ Len(cycle.started) = Cardinality(cycle.due)
         /\ \A i, j \in DOMAIN cycle.started :
              i < j /\ cycle.started[j] \in cycle.held => cycle.started[i] \in cycle.held
         /\ \A a \in Assets : task[a].pc = "idle"
<1>1. EndCycle
  <2>1. loop \in LoopRec BY DEF CycleInv
  <2>2. loop' # loop OBVIOUS
  <2>3. ~(StartCycle \/ Ask \/ Spawn \/ StopWaiting \/ LoopStops)
    BY DEF StartCycle, Ask, Spawn, StopWaiting, LoopStops
  <2> QED BY <2>2, <2>3
        DEF Next, LoopStep, AnalysisStep, Tick, EditSettings, Stop, Toggle, OpenPosition,
            ClosePosition, Enter, GiveUp, Request, ReadPositions, Recommend, Fail, vars
<1>2. \A a \in Assets : task[a].pc = "idle" BY <1>1 DEF EndCycle, Drained
<1>3. PICK rest : Remaining(rest) BY DEF CycleInv, Running
<1>4. PICK s \in Seq(Assets) : s = cycle.started BY DEF CycleInv, CycleRec
<1>5. rest \in Seq(Assets) /\ InOrder(s \o rest, cycle.due, cycle.held) BY <1>3, <1>4 DEF Remaining
<1>6. ~stopped => s \o rest = s
  <2>1. ~stopped => rest = <<>> BY <1>3 DEF Remaining
  <2>2. s \o <<>> = s BY <1>4, ConcatEmptySeq
  <2> QED BY <2>1, <2>2
<1>7. ~stopped => ToSet(s) = cycle.due /\ Len(s) = Cardinality(cycle.due)
  <2>1. SUFFICES ASSUME ~stopped PROVE ToSet(s) = cycle.due /\ Len(s) = Cardinality(cycle.due)
    OBVIOUS
  <2>2. Lists(s, cycle.due) BY <1>5, <1>6, <2>1 DEF InOrder
  <2>3. DOMAIN s = 1..Len(s) BY <1>4, LenProperties
  <2>4. \A i \in 1..Len(s) : s[i] \in cycle.due BY <2>2, ElementOfSeq DEF Lists
  <2>5. ToSet(s) = {s[i] : i \in 1..Len(s)} BY <2>3 DEF ToSet
  <2> QED BY <2>2, <2>4, <2>5 DEF Lists
<1>8. ASSUME NEW i \in DOMAIN s, NEW j \in DOMAIN s, i < j, s[j] \in cycle.held
      PROVE  s[i] \in cycle.held
  <2>1. DOMAIN s = 1..Len(s) /\ Len(s) \in Nat /\ Len(rest) \in Nat
    BY <1>4, <1>5, LenProperties
  <2>2. /\ Len(s \o rest) = Len(s) + Len(rest)
        /\ \A k \in 1..Len(s) + Len(rest) :
             (s \o rest)[k] = IF k <= Len(s) THEN s[k] ELSE rest[k - Len(s)]
    BY <1>4, <1>5, ConcatProperties
  <2>3. /\ i \in 1..Len(s \o rest) /\ j \in 1..Len(s \o rest)
        /\ (s \o rest)[i] = s[i] /\ (s \o rest)[j] = s[j]
    BY <1>8, <2>1, <2>2
  <2> QED BY <1>5, <1>8, <2>3 DEF InOrder
<1> QED BY <1>2, <1>4, <1>7, <1>8

\* A cycle that was not cut short started every asset that was enabled when it
\* began exactly once, those with an open position first, and leaves nothing
\* running: RunCycle, whatever requests and the user did in between.
THEOREM CycleIsCompleteHolds == Spec => CycleIsComplete
<1>1. CycleInv /\ [Next]_vars =>
        [(loop.pc = "drain" /\ loop'.pc = "asleep") =>
           /\ ~stopped => /\ ToSet(cycle.started) = cycle.due
                          /\ Len(cycle.started) = Cardinality(cycle.due)
           /\ \A i, j \in DOMAIN cycle.started :
                i < j /\ cycle.started[j] \in cycle.held => cycle.started[i] \in cycle.held
           /\ \A a \in Assets : task[a].pc = "idle"]_vars
  BY CompleteStep
<1> QED BY <1>1, CycleAlways, PTL DEF Spec, CycleIsComplete

\* What a recommendation may name was open while it was made: Analyze reads the
\* ids after its asset's positions, and before the inference.
THEOREM NamesOpenPositionHolds == Spec => []NamesOpenPosition
<1>1. WatchInv => NamesOpenPosition BY DEF WatchInv, Watches, NamesOpenPosition
<1> QED BY <1>1, WatchInit, WatchStep, CycleAlways, PTL DEF Spec

\* Two admitted requests of an asset are Cooldown apart, and a refusal is owed
\* to an admitted one: the check and the stamp of AnalyzeNow.
THEOREM CooldownIsFairHolds == Spec => []CooldownIsFair
BY CoolInit, CoolStep, CoolFair, PTL DEF Spec
=============================================================================
