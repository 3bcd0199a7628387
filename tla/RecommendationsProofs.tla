----------------------- MODULE RecommendationsProofs -----------------------
(***************************************************************************)
(* Proofs about a recommendation, for any answers, policies, situations    *)
(* and market: the plan is a bracket, the exposure is bounded whatever the *)
(* policy is swapped to, and the verdict names what was reached first;     *)
(* for any series of candles, the swings once reported stay; and for any   *)
(* strategy set, one more vote for a side never takes it away.             *)
(***************************************************************************)
EXTENDS Recommendations, FiniteSetTheorems, SequenceTheorems, WellFoundedInduction, TLAPS

(***************************************************************************)
(* Least and greatest elements.                                            *)
(***************************************************************************)
LEMMA LeastOf ==
  ASSUME NEW S, S \subseteq Nat, S # {}
  PROVE  Min(S) \in S /\ \A y \in S : Min(S) <= y
<1>1. PICK x \in S : \A y \in S : ~ (<<y, x>> \in OpToRel(<, Nat))
  BY WFMin, NatLessThanWellFounded
<1>2. ASSUME NEW y \in S PROVE x <= y
  <2>1. ~ (<<y, x>> \in {ss \in Nat \X Nat : ss[1] < ss[2]})
    BY <1>1 DEF OpToRel
  <2> QED BY <2>1
<1> QED BY <1>2 DEF Min

\* By a least counterexample among the subsets.
LEMMA FiniteHasBoth ==
  ASSUME NEW S, S \subseteq Int, S # {}, IsFiniteSet(S)
  PROVE  /\ \E x \in S : \A y \in S : x >= y
         /\ \E x \in S : \A y \in S : x =< y
<1> DEFINE Both_(U) == /\ \E x \in U : \A y \in U : x >= y
                       /\ \E x \in U : \A y \in U : x =< y
           Bad == {U \in FiniteSubsetsOf(S) : U # {} /\ ~ Both_(U)}
<1>1. SUFFICES Bad = {}
  <2>1. S \in FiniteSubsetsOf(S) BY DEF FiniteSubsetsOf
  <2> QED BY <1>1, <2>1
<1>2. SUFFICES ASSUME Bad # {} PROVE FALSE OBVIOUS
<1>3. Bad \subseteq FiniteSubsetsOf(S) OBVIOUS
<1> HIDE DEF Bad
<1>4. PICK U \in Bad : \A V \in Bad : ~ (<<V, U>> \in StrictSubsetOrdering(S))
  BY <1>2, <1>3, WFMin, FS_StrictSubsetOrderingWellFounded
<1>5. U \subseteq S /\ IsFiniteSet(U) /\ U # {} /\ ~ Both_(U)
  BY DEF Bad, FiniteSubsetsOf
<1>6. PICK x \in U : TRUE BY <1>5
<1> DEFINE V == U \ {x}
<1>7. V \in FiniteSubsetsOf(S) BY <1>5, FS_Difference DEF FiniteSubsetsOf
<1>8. <<V, U>> \in StrictSubsetOrdering(S)
  BY <1>5, <1>6 DEF StrictSubsetOrdering
<1>9. V \notin Bad BY <1>4, <1>8
<1>10. x \in Int /\ U \subseteq Int BY <1>5
<1>11. CASE V = {}
  <2>1. \A y \in U : y = x BY <1>11
  <2> QED BY <2>1, <1>5, <1>6, <1>10
<1>12. CASE V # {}
  <2>1. Both_(V) BY <1>7, <1>9, <1>12 DEF Bad
  <2>2. PICK m \in V : \A y \in V : m >= y BY <2>1
  <2>3. PICK k \in V : \A y \in V : k =< y BY <2>1
  <2>4. \A y \in U : y = x \/ y \in V OBVIOUS
  <2>5. \E z \in U : \A y \in U : z >= y
    <3>1. CASE x >= m BY <3>1, <1>10, <1>6, <2>2, <2>4
    <3>2. CASE ~ (x >= m) BY <3>2, <1>10, <1>6, <2>2, <2>4
    <3> QED BY <3>1, <3>2
  <2>6. \E z \in U : \A y \in U : z =< y
    <3>1. CASE x =< k BY <3>1, <1>10, <1>6, <2>3, <2>4
    <3>2. CASE ~ (x =< k) BY <3>2, <1>10, <1>6, <2>3, <2>4
    <3> QED BY <3>1, <3>2
  <2> QED BY <2>5, <2>6, <1>5
<1> QED BY <1>11, <1>12

LEMMA FiniteMinMax ==
  ASSUME NEW S, S \subseteq Int, S # {}, IsFiniteSet(S)
  PROVE  /\ Max(S) \in S /\ \A y \in S : y <= Max(S)
         /\ Min(S) \in S /\ \A y \in S : Min(S) <= y
<1>1. PICK x \in S : \A y \in S : x >= y BY FiniteHasBoth
<1>2. PICK z \in S : \A y \in S : z =< y BY FiniteHasBoth
<1>3. Max(S) \in S /\ \A y \in S : Max(S) >= y BY <1>1 DEF Max
<1>4. Min(S) \in S /\ \A y \in S : Min(S) =< y BY <1>2 DEF Min
<1> QED BY <1>3, <1>4

\* The values of a sequence at some of its places are finitely many.
LEMMA ImageFinite ==
  ASSUME NEW D, IsFiniteSet(D), NEW f, DOMAIN f = D, f = [i \in D |-> f[i]]
  PROVE  IsFiniteSet({f[i] : i \in D})
<1> DEFINE T == {f[i] : i \in D}
<1>1. f \in [D -> T] OBVIOUS
<1>2. f \in Surjection(D, T) BY <1>1 DEF Surjection
<1> QED BY <1>2, FS_Surjection

(***************************************************************************)
(* Sorted: the lists of an accepted answer in the order they are met.      *)
(***************************************************************************)
Ahead(levels, above, i, j) ==
  IF levels[i].price = levels[j].price THEN i < j
  ELSE above <=> (levels[i].price < levels[j].price)
AllAhead(levels, above, k) == {j \in DOMAIN levels : Ahead(levels, above, j, k)}
At_(levels, above, i) ==
  CHOOSE k \in DOMAIN levels : 1 + Cardinality(AllAhead(levels, above, k)) = i

LEMMA SortedIs ==
  ASSUME NEW levels, NEW above
  PROVE  Sorted(levels, above) = [i \in DOMAIN levels |-> levels[At_(levels, above, i)]]
BY DEF Sorted, At_, AllAhead, Ahead

\* Every place once.
Permutes(p, n) ==
  /\ p \in [1..n -> 1..n]
  /\ \A i, j \in 1..n : p[i] = p[j] => i = j
  /\ \A k \in 1..n : \E i \in 1..n : p[i] = k
Reordered(s, t, p) == \A i \in DOMAIN p : s[i] = t[p[i]]

\* Each place is taken by one level, so those of earlier places come earlier.
LEMMA SortedOrders ==
  ASSUME NEW n \in Nat, NEW levels, DOMAIN levels = 1..n, NEW above \in BOOLEAN,
         \A i \in 1..n : levels[i].price \in Int
  PROVE  /\ Sorted(levels, above) = [i \in 1..n |-> Sorted(levels, above)[i]]
         /\ \E p : Permutes(p, n) /\ Reordered(Sorted(levels, above), levels, p)
         /\ InOrder(Sorted(levels, above), above)
<1> DEFINE D == 1..n
           A(k) == AllAhead(levels, above, k)
           rank == [k \in D |-> 1 + Cardinality(A(k))]
           cost(i) == levels[i].price
<1>1. IsFiniteSet(D) /\ Cardinality(D) = n BY FS_Interval
<1>2. \A k \in D : A(k) \subseteq D \ {k} BY DEF AllAhead, Ahead
<1>3. \A k \in D : IsFiniteSet(A(k)) /\ Cardinality(A(k)) \in Nat /\ Cardinality(A(k)) < n
  <2> SUFFICES ASSUME NEW k \in D
               PROVE  IsFiniteSet(A(k)) /\ Cardinality(A(k)) \in Nat /\ Cardinality(A(k)) < n
    OBVIOUS
  <2>1. A(k) \subseteq D /\ A(k) # D BY <1>2
  <2> HIDE DEF A
  <2>2. A(k) \in SUBSET D BY <2>1
  <2>3. IsFiniteSet(A(k)) /\ Cardinality(A(k)) <= n /\ Cardinality(A(k)) # n
    BY <1>1, <2>1, <2>2, FS_Subset
  <2>4. Cardinality(A(k)) \in Nat BY <2>3, FS_CardinalityType
  <2> QED BY <2>3, <2>4
<1>4. \A i, j \in D : i = j \/ Ahead(levels, above, i, j) \/ Ahead(levels, above, j, i)
  BY DEF Ahead
<1>5. \A i, j, k \in D : Ahead(levels, above, i, j) /\ Ahead(levels, above, j, k)
                           => Ahead(levels, above, i, k)
  <2> SUFFICES ASSUME NEW i \in D, NEW j \in D, NEW k \in D,
                      Ahead(levels, above, i, j), Ahead(levels, above, j, k)
               PROVE  Ahead(levels, above, i, k)
    OBVIOUS
  <2>1. cost(i) \in Int /\ cost(j) \in Int /\ cost(k) \in Int OBVIOUS
  <2>2. CASE above = TRUE BY <2>1, <2>2 DEF Ahead
  <2>3. CASE above = FALSE BY <2>1, <2>3 DEF Ahead
  <2> QED BY <2>2, <2>3
<1>6. \A i, j \in D : Ahead(levels, above, i, j) => Cardinality(A(i)) < Cardinality(A(j))
  <2> SUFFICES ASSUME NEW i \in D, NEW j \in D, Ahead(levels, above, i, j)
               PROVE  Cardinality(A(i)) < Cardinality(A(j))
    OBVIOUS
  <2>1. A(i) \subseteq A(j) BY <1>5 DEF AllAhead
  <2>2. i \in A(j) BY DEF AllAhead
  <2>3. i \notin A(i) BY <1>2
  <2> HIDE DEF A
  <2>4. Cardinality(A(i)) <= Cardinality(A(j)) /\ Cardinality(A(i)) # Cardinality(A(j))
    BY <1>3, <2>1, <2>2, <2>3, FS_Subset
  <2> QED BY <2>4, <1>3
<1>7. rank \in Injection(D, D)
  <2> HIDE DEF A
  <2>1. rank \in [D -> D] BY <1>3
  <2>2. \A i, j \in D : rank[i] = rank[j] => i = j
    <3> SUFFICES ASSUME NEW i \in D, NEW j \in D, rank[i] = rank[j], i # j PROVE FALSE
      OBVIOUS
    <3>1. Cardinality(A(i)) = Cardinality(A(j)) BY <1>3
    <3> QED BY <3>1, <1>3, <1>4, <1>6
  <2> QED BY <2>1, <2>2 DEF Injection, IsInjective
<1>8. rank \in Surjection(D, D) BY <1>1, <1>7, FS_Injection
<1>9. \A i \in D : At_(levels, above, i) \in D /\ rank[At_(levels, above, i)] = i
  <2> SUFFICES ASSUME NEW i \in D
               PROVE  At_(levels, above, i) \in D /\ rank[At_(levels, above, i)] = i
    OBVIOUS
  <2>1. \E k \in D : rank[k] = i BY <1>8 DEF Surjection
  <2>2. \E k \in D : 1 + Cardinality(A(k)) = i BY <2>1
  <2>3. At_(levels, above, i) \in D /\ 1 + Cardinality(A(At_(levels, above, i))) = i
    BY <2>2 DEF At_
  <2> QED BY <2>3
<1>p. /\ \A i, j \in D : At_(levels, above, i) = At_(levels, above, j) => i = j
      /\ \A k \in D : \E i \in D : At_(levels, above, i) = k
  <2> HIDE DEF rank
  <2>1. \A i, j \in D : At_(levels, above, i) = At_(levels, above, j) => i = j BY <1>9
  <2>2. ASSUME NEW k \in D PROVE \E i \in D : At_(levels, above, i) = k
    <3>1. rank[k] \in D BY <1>7 DEF Injection
    <3>2. At_(levels, above, rank[k]) \in D /\ rank[At_(levels, above, rank[k])] = rank[k]
      BY <3>1, <1>9
    <3>3. \A i, j \in D : rank[i] = rank[j] => i = j BY <1>7 DEF Injection, IsInjective
    <3>4. At_(levels, above, rank[k]) = k BY <3>2, <3>3
    <3> QED BY <3>1, <3>4
  <2> QED BY <2>1, <2>2
<1> HIDE DEF rank
<1>10. /\ Sorted(levels, above) = [i \in D |-> Sorted(levels, above)[i]]
       /\ \A i \in D : Sorted(levels, above)[i] = levels[At_(levels, above, i)]
  BY SortedIs
<1>11. ASSUME NEW i \in D, NEW j \in D, i < j
       PROVE  IF above THEN cost(At_(levels, above, i)) <= cost(At_(levels, above, j))
                       ELSE cost(At_(levels, above, i)) >= cost(At_(levels, above, j))
  <2> DEFINE k == At_(levels, above, i)
             l == At_(levels, above, j)
  <2>1. k \in D /\ l \in D /\ rank[k] = i /\ rank[l] = j BY <1>9
  <2> HIDE DEF k, l
  <2>2. k # l BY <2>1, <1>11
  <2>3. ~ Ahead(levels, above, l, k)
    <3> SUFFICES ASSUME Ahead(levels, above, l, k) PROVE FALSE OBVIOUS
    <3>1. Cardinality(A(l)) < Cardinality(A(k)) BY <2>1, <1>6
    <3>2. rank[k] = 1 + Cardinality(A(k)) /\ rank[l] = 1 + Cardinality(A(l)) BY <2>1 DEF rank
    <3> QED BY <3>1, <3>2, <2>1, <1>3, <1>11
  <2>4. Ahead(levels, above, k, l) BY <2>1, <2>2, <2>3, <1>4
  <2>5. cost(k) \in Int /\ cost(l) \in Int BY <2>1
  <2>6. above => cost(k) <= cost(l) BY <2>4, <2>5 DEF Ahead
  <2>7. ~ above => cost(k) >= cost(l) BY <2>4, <2>5 DEF Ahead
  <2> QED BY <2>6, <2>7 DEF k, l
<1>12. InOrder(Sorted(levels, above), above) BY <1>10, <1>11 DEF InOrder
<1> DEFINE p == [i \in D |-> At_(levels, above, i)]
<1>13. p \in [D -> D] BY <1>9
<1>14. \A i \in D : Sorted(levels, above)[i] = levels[p[i]] BY <1>10
<1>15. (\A i, j \in D : p[i] = p[j] => i = j) /\ \A k \in D : \E i \in D : p[i] = k
  BY <1>p
<1>16. DOMAIN p = D OBVIOUS
<1> HIDE DEF p
<1>17. Permutes(p, n) BY <1>13, <1>15 DEF Permutes
<1>18. Reordered(Sorted(levels, above), levels, p) BY <1>14, <1>16 DEF Reordered
<1> QED BY <1>10, <1>12, <1>17, <1>18

(***************************************************************************)
(* SumOf: a fold over the places of a list is a sum over the set of them,  *)
(* whatever the order.  g gives the sum of t over each set of places.      *)
(***************************************************************************)
Sums(g, t, D) ==
  /\ g \in [SUBSET D -> Int]
  /\ g[{}] = 0
  /\ \A S \in SUBSET D : \A x \in S : g[S] = g[S \ {x}] + t[x]

LEMMA SumsExist ==
  ASSUME NEW n \in Nat, NEW t, \A i \in 1..n : t[i] \in Int
  PROVE  \E g : Sums(g, t, 1..n)
<1> DEFINE Bad == {k \in 0..n : ~ \E g : Sums(g, t, 1..k)}
<1>1. SUFFICES Bad = {}
  <2>1. n \in 0..n OBVIOUS
  <2> QED BY <1>1, <2>1
<1>2. SUFFICES ASSUME Bad # {} PROVE FALSE OBVIOUS
<1> DEFINE m == Min(Bad)
<1>3. m \in Bad /\ \A y \in Bad : m <= y
  <2>1. Bad \subseteq Nat OBVIOUS
  <2> HIDE DEF Bad
  <2> QED BY <1>2, <2>1, LeastOf
<1>4. m \in 0..n /\ ~ \E g : Sums(g, t, 1..m) BY <1>3
<1>5. \A k \in 0..n : k < m => \E g : Sums(g, t, 1..k) BY <1>3
<1> HIDE DEF m, Bad
<1>6. CASE m = 0
  <2> DEFINE z == [S \in SUBSET {} |-> 0]
  <2>1. Sums(z, t, {}) BY DEF Sums
  <2>2. 1..m = {} BY <1>6
  <2> QED BY <2>1, <2>2, <1>4
<1>7. CASE m # 0
  <2>1. m \in 1..n /\ m - 1 \in 0..n /\ m - 1 < m BY <1>4, <1>7
  <2>2. PICK h : Sums(h, t, 1..(m - 1)) BY <2>1, <1>5
  <2>3. PICK E : E = 1..(m - 1) OBVIOUS
  <2>4. PICK D : D = 1..m OBVIOUS
  <2>5. D = E \cup {m} /\ m \notin E BY <2>1, <2>3, <2>4
  <2>6. Sums(h, t, E) BY <2>2, <2>3
  <2>7. t[m] \in Int BY <2>1
  <2> DEFINE g == [S \in SUBSET D |-> IF m \in S THEN h[S \ {m}] + t[m] ELSE h[S]]
  <2>8. g \in [SUBSET D -> Int]
    <3>1. \A S \in SUBSET D : S \ {m} \in SUBSET E /\ (m \notin S => S \in SUBSET E)
      BY <2>5
    <3> QED BY <3>1, <2>6, <2>7 DEF Sums
  <2>9. g[{}] = 0 BY <2>6 DEF Sums
  <2>10. ASSUME NEW S \in SUBSET D, NEW x \in S PROVE g[S] = g[S \ {x}] + t[x]
    <3>1. x \in D /\ S \ {x} \in SUBSET D BY <2>10
    <3>2. CASE x = m
      <4>1. g[S \ {x}] = h[S \ {m}] BY <3>1, <3>2
      <4> QED BY <4>1, <3>2
    <3>3. CASE x # m /\ m \in S
      <4>1. S \ {m} \in SUBSET E /\ x \in S \ {m} BY <2>5, <3>3, <2>10
      <4>2. h[S \ {m}] = h[(S \ {m}) \ {x}] + t[x] BY <4>1, <2>6 DEF Sums
      <4>3. (S \ {m}) \ {x} = (S \ {x}) \ {m} OBVIOUS
      <4>4. g[S] = h[S \ {m}] + t[m] BY <3>3
      <4>5. g[S \ {x}] = h[(S \ {x}) \ {m}] + t[m] BY <3>1, <3>3
      <4>6. h[(S \ {x}) \ {m}] \in Int
        <5>1. (S \ {x}) \ {m} \in SUBSET E BY <4>1, <4>3
        <5> QED BY <5>1, <2>6 DEF Sums
      <4>7. x \in E BY <4>1
      <4>8. x \in 1..n BY <4>7, <2>1, <2>3
      <4>9. t[x] \in Int BY <4>8
      <4>10. PICK v : v = h[(S \ {x}) \ {m}] OBVIOUS
      <4>11. h[S \ {m}] = v + t[x] BY <4>2, <4>3, <4>10
      <4>12. g[S] = v + t[x] + t[m] /\ g[S \ {x}] = v + t[m] BY <4>4, <4>5, <4>10, <4>11
      <4> HIDE DEF g
      <4> QED BY <4>12, <4>6, <4>9, <2>7, <4>10
    <3>4. CASE x # m /\ m \notin S
      <4>1. S \in SUBSET E BY <2>5, <3>4
      <4>2. h[S] = h[S \ {x}] + t[x] BY <4>1, <2>6 DEF Sums
      <4>3. g[S] = h[S] /\ g[S \ {x}] = h[S \ {x}] BY <3>4, <3>1
      <4> QED BY <4>2, <4>3
    <3> QED BY <3>2, <3>3, <3>4
  <2>11. Sums(g, t, D) BY <2>8, <2>9, <2>10 DEF Sums
  <2> QED BY <2>11, <2>4, <1>4
<1> QED BY <1>6, <1>7

LEMMA FoldIsSum ==
  ASSUME NEW n \in Nat, NEW levels, DOMAIN levels = 1..n,
         NEW g, NEW t, Sums(g, t, 1..n), \A i \in 1..n : t[i] = levels[i].close
  PROVE  SumOf(levels) = g[1..n]
<1> DEFINE D == 1..n
           Iter(f) == [s \in SUBSET D |-> IF s = {} THEN 0
                                          ELSE f[s \ {Max(s)}] + levels[Max(s)].close]
           iter == CHOOSE f : f = Iter(f)
<1>1. IsFiniteSet(D) BY FS_Interval
<1>2. D \subseteq Int OBVIOUS
<1> HIDE DEF D
<1>3. \A s \in SUBSET D : s # {} => Max(s) \in s
  BY <1>1, <1>2, FS_Subset, FiniteMinMax
<1>4. \A s \in SUBSET D : s # {} => g[s] = g[s \ {Max(s)}] + levels[Max(s)].close
  <2> SUFFICES ASSUME NEW s \in SUBSET D, s # {}
               PROVE  g[s] = g[s \ {Max(s)}] + levels[Max(s)].close
    OBVIOUS
  <2> DEFINE x == Max(s)
  <2>1. x \in s BY <1>3
  <2> HIDE DEF x
  <2>2. t[x] = levels[x].close BY <2>1 DEF D
  <2>3. g[s] = g[s \ {x}] + t[x] BY <2>1 DEF Sums, D
  <2> QED BY <2>2, <2>3 DEF x
<1>5. g = Iter(g)
  <2>1. \A s \in SUBSET D : g[s] = Iter(g)[s] BY <1>4 DEF Sums, D
  <2>2. g = [s \in SUBSET D |-> g[s]] BY DEF Sums, D
  <2> QED BY <2>1, <2>2
<1>6. iter = Iter(iter) BY <1>5
<1>7. SumOf(levels) = iter[D] BY DEF SumOf, FoldLeft, MapThenFoldSet, D
<1> HIDE DEF iter
<1> DEFINE Bad == {s \in SUBSET D : iter[s] # g[s]}
<1>8. Bad = {}
  <2>1. SUFFICES ASSUME Bad # {} PROVE FALSE OBVIOUS
  <2>2. Bad \subseteq FiniteSubsetsOf(D) BY <1>1, FS_Subset DEF FiniteSubsetsOf
  <2>3. PICK U \in Bad : \A V \in Bad : ~ (<<V, U>> \in StrictSubsetOrdering(D))
    <3> HIDE DEF Bad
    <3> QED BY <2>1, <2>2, WFMin, FS_StrictSubsetOrderingWellFounded
  <2>4. U \in SUBSET D /\ iter[U] # g[U] OBVIOUS
  <2>5. CASE U = {}
    <3>1. iter[{}] = 0 BY <1>6
    <3> QED BY <3>1, <2>4, <2>5 DEF Sums
  <2>6. CASE U # {}
    <3> DEFINE x == Max(U)
               V == U \ {x}
    <3>1. x \in U BY <2>4, <2>6, <1>3
    <3> HIDE DEF x
    <3>2. V \in SUBSET D /\ V \subseteq U /\ V # U BY <3>1, <2>4
    <3>3. <<V, U>> \in StrictSubsetOrdering(D) BY <3>2, <2>4 DEF StrictSubsetOrdering
    <3>4. iter[V] = g[V] BY <2>3, <3>2, <3>3
    <3>5. iter[U] = iter[V] + levels[x].close BY <1>6, <2>4, <2>6 DEF x
    <3>6. g[U] = g[V] + levels[x].close BY <1>4, <2>4, <2>6 DEF x
    <3> QED BY <3>4, <3>5, <3>6, <2>4
  <2> QED BY <2>5, <2>6
<1> QED BY <1>7, <1>8 DEF D

LEMMA PermutedSum ==
  ASSUME NEW n \in Nat, NEW g, NEW t, Sums(g, t, 1..n), NEW h, NEW u, Sums(h, u, 1..n),
         NEW p, Permutes(p, n), Reordered(u, t, p)
  PROVE  h[1..n] = g[1..n]
<1>p. /\ p \in [1..n -> 1..n]
      /\ \A i, j \in 1..n : p[i] = p[j] => i = j
      /\ \A k \in 1..n : \E i \in 1..n : p[i] = k
      /\ \A i \in 1..n : u[i] = t[p[i]]
  BY DEF Permutes, Reordered
<1> DEFINE D == 1..n
           To(S) == {p[i] : i \in S}
           Bad == {S \in SUBSET D : h[S] # g[To(S)]}
<1>1. IsFiniteSet(D) BY FS_Interval
<1>a. \A S \in SUBSET D : \A x \in S : g[S] = g[S \ {x}] + t[x] BY DEF Sums
<1>b. \A S \in SUBSET D : \A x \in S : h[S] = h[S \ {x}] + u[x] BY DEF Sums
<1> HIDE DEF D
<1>2. Bad = {}
  <2>1. SUFFICES ASSUME Bad # {} PROVE FALSE OBVIOUS
  <2>2. Bad \subseteq FiniteSubsetsOf(D) BY <1>1, FS_Subset DEF FiniteSubsetsOf
  <2>3. PICK U \in Bad : \A V \in Bad : ~ (<<V, U>> \in StrictSubsetOrdering(D))
    <3> HIDE DEF Bad
    <3> QED BY <2>1, <2>2, WFMin, FS_StrictSubsetOrderingWellFounded
  <2>4. U \in SUBSET D /\ h[U] # g[To(U)] OBVIOUS
  <2>5. CASE U = {}
    <3>1. To(U) = {} BY <2>5
    <3> QED BY <3>1, <2>4, <2>5 DEF Sums
  <2>6. CASE U # {}
    <3>1. PICK x \in U : TRUE BY <2>6
    <3> DEFINE V == U \ {x}
    <3>2. V \in SUBSET D /\ V \subseteq U /\ V # U BY <3>1, <2>4
    <3>3. <<V, U>> \in StrictSubsetOrdering(D) BY <3>2, <2>4 DEF StrictSubsetOrdering
    <3>4. h[V] = g[To(V)] BY <2>3, <3>2, <3>3
    <3>5. h[U] = h[V] + u[x] BY <2>4, <3>1, <1>b
    <3>6. To(V) = To(U) \ {p[x]}
      <4>1. \A i \in U : i \in 1..n BY <2>4 DEF D
      <4>2. \A i \in U : p[i] = p[x] => i = x BY <4>1, <3>1, <1>p
      <4>3. \A k \in To(V) : k \in To(U) \ {p[x]}
        <5> SUFFICES ASSUME NEW k \in To(V) PROVE k \in To(U) \ {p[x]} OBVIOUS
        <5>1. PICK i \in V : k = p[i] OBVIOUS
        <5>2. i \in U /\ i # x OBVIOUS
        <5> QED BY <4>2, <5>1, <5>2
      <4>4. \A k \in To(U) \ {p[x]} : k \in To(V)
        <5> SUFFICES ASSUME NEW i \in U, p[i] # p[x] PROVE p[i] \in To(V) OBVIOUS
        <5>1. i \in V OBVIOUS
        <5> QED BY <5>1
      <4> HIDE DEF To
      <4> QED BY <4>3, <4>4
    <3>7. p[x] \in To(U) BY <3>1
    <3>8. To(U) \in SUBSET D BY <2>4, <1>p DEF D
    <3>9. g[To(U)] = g[To(V)] + t[p[x]]
      <4>1. PICK W : W = To(U) OBVIOUS
      <4> HIDE DEF To, V
      <4>2. W \in SUBSET D /\ p[x] \in W BY <4>1, <3>7, <3>8
      <4>3. g[W] = g[W \ {p[x]}] + t[p[x]] BY <4>2, <1>a
      <4> QED BY <4>1, <4>3, <3>6
    <3>10. u[x] = t[p[x]] BY <2>4, <3>1, <1>p DEF D
    <3> HIDE DEF To, V
    <3> QED BY <3>4, <3>5, <3>9, <3>10, <2>4
  <2> QED BY <2>5, <2>6
<1>3. To(D) = D BY <1>p DEF D
<1>4. h[D] = g[To(D)] BY <1>2
<1> QED BY <1>3, <1>4 DEF D

LEMMA RoundedSum ==
  ASSUME NEW n \in Nat, NEW g, NEW t, Sums(g, t, 1..n), NEW h, NEW u, Sums(h, u, 1..n),
         NEW s \in Int, \A i \in 1..n : t[i] \in Int /\ u[i] \in Int,
         \A i \in 1..n : Whole * t[i] - 5 * s <= s * u[i] /\ s * u[i] <= Whole * t[i] + 5 * s
  PROVE  /\ Whole * g[1..n] - (5 * s) * n <= s * h[1..n]
         /\ s * h[1..n] <= Whole * g[1..n] + (5 * s) * n
<1> DEFINE Near(k) == /\ Whole * g[1..k] - (5 * s) * k <= s * h[1..k]
                      /\ s * h[1..k] <= Whole * g[1..k] + (5 * s) * k
           Bad == {k \in 0..n : ~ Near(k)}
<1>1. SUFFICES Bad = {}
  <2>1. n \in 0..n OBVIOUS
  <2> QED BY <1>1, <2>1
<1>2. SUFFICES ASSUME Bad # {} PROVE FALSE OBVIOUS
<1> DEFINE m == Min(Bad)
<1>3. m \in Bad /\ \A y \in Bad : m <= y
  <2>1. Bad \subseteq Nat OBVIOUS
  <2> HIDE DEF Bad
  <2> QED BY <1>2, <2>1, LeastOf
<1>4. m \in 0..n /\ ~ Near(m) BY <1>3
<1>5. \A k \in 0..n : k < m => Near(k)
  <2> SUFFICES ASSUME NEW k \in 0..n, k < m PROVE k \notin Bad OBVIOUS
  <2>1. m \in Int BY <1>4
  <2> HIDE DEF m, Bad
  <2> QED BY <1>3, <2>1
<1> HIDE DEF m, Bad
<1>6. CASE m = 0
  <2>1. 1..m = {} BY <1>6
  <2>2. g[1..m] = 0 /\ h[1..m] = 0 BY <2>1 DEF Sums
  <2>3. Whole * 0 - (5 * s) * 0 <= s * 0 /\ s * 0 <= Whole * 0 + (5 * s) * 0
    BY DEF Whole
  <2>4. Near(m) BY <2>2, <2>3, <1>6
  <2> QED BY <2>4, <1>4
<1>7. CASE m # 0
  <2>1. m \in 1..n /\ m - 1 \in 0..n /\ m - 1 < m BY <1>4, <1>7
  <2>2. Near(m - 1) BY <2>1, <1>5
  <2>3. 1..m \in SUBSET (1..n) /\ 1..(m-1) \in SUBSET (1..n) /\ m \in 1..m BY <2>1
  <2>4. (1..m) \ {m} = 1..(m - 1) BY <2>1
  <2>5. g[1..m] = g[(1..m) \ {m}] + t[m] BY <2>3 DEF Sums
  <2>6. h[1..m] = h[(1..m) \ {m}] + u[m] BY <2>3 DEF Sums
  <2>7. g[1..(m - 1)] \in Int /\ h[1..(m - 1)] \in Int BY <2>3 DEF Sums
  <2>8. PICK a \in Int : a = g[1..(m - 1)] BY <2>7
  <2>9. PICK b \in Int : b = h[1..(m - 1)] BY <2>7
  <2>10. PICK c \in Int : c = t[m] BY <2>1
  <2>11. PICK d \in Int : d = u[m] BY <2>1
  <2>12. g[1..m] = a + c /\ h[1..m] = b + d BY <2>4, <2>5, <2>6, <2>8, <2>9, <2>10, <2>11
  <2>13. s * (b + d) = s * b + s * d /\ (5 * s) * m = (5 * s) * (m - 1) + 5 * s BY <2>1
  <2>14. Whole * c - 5 * s <= s * d /\ s * d <= Whole * c + 5 * s BY <2>1, <2>10, <2>11
  <2>15. Whole * a - (5 * s) * (m - 1) <= s * b /\ s * b <= Whole * a + (5 * s) * (m - 1)
    BY <2>2, <2>8, <2>9
  <2>16. PICK sb \in Int : sb = s * b OBVIOUS
  <2>17. PICK sd \in Int : sd = s * d OBVIOUS
  <2>18. PICK k \in Int : k = (5 * s) * (m - 1) BY <2>1
  <2>19. /\ Whole * (a + c) - (5 * s) * m <= s * (b + d)
         /\ s * (b + d) <= Whole * (a + c) + (5 * s) * m
    BY <2>13, <2>14, <2>15, <2>16, <2>17, <2>18 DEF Whole
  <2> QED BY <2>19, <2>12, <1>4
<1> QED BY <1>6, <1>7

LEMMA Quotient ==
  ASSUME NEW a \in Int, NEW f \in Int, f > 0
  PROVE  a \div f \in Int /\ f * (a \div f) <= a /\ a < f * (a \div f) + f
OBVIOUS

LEMMA RoundsNear ==
  ASSUME NEW x \in Int, NEW s \in Int, s > 0
  PROVE  /\ Rounded(x * (Whole \div 10), s) * 10 \in Int
         /\ Whole * x - 5 * s <= s * (Rounded(x * (Whole \div 10), s) * 10)
         /\ s * (Rounded(x * (Whole \div 10), s) * 10) <= Whole * x + 5 * s
<1>1. Whole \div 10 = 10000 BY DEF Whole
<1> DEFINE a == 2 * (x * 10000) + s
           q == a \div (2 * s)
<1>2. q \in Int /\ (2 * s) * q <= a /\ a < (2 * s) * q + 2 * s
  <2>1. a \in Int /\ 2 * s \in Int /\ 2 * s > 0 OBVIOUS
  <2> HIDE DEF a
  <2> QED BY <2>1, Quotient
<1>3. Rounded(x * (Whole \div 10), s) = q BY <1>1 DEF Rounded
<1> HIDE DEF q
<1>4. PICK z \in Int : z = s * q BY <1>2
<1>5. (2 * s) * q = 2 * z /\ s * (q * 10) = 10 * z BY <1>2, <1>4
<1>6. 2 * z <= a /\ a < 2 * z + 2 * s BY <1>2, <1>5
<1>7. q * 10 \in Int BY <1>2
<1> QED BY <1>3, <1>4, <1>5, <1>6, <1>7 DEF Whole

(***************************************************************************)
(* Normalised and Levels.                                                  *)
(***************************************************************************)
Listed(levels, n) == levels \in [1..n -> [price: Int, close: Int]]

LEMMA ListedSum ==
  ASSUME NEW n \in Nat, NEW levels, Listed(levels, n)
  PROVE  SumOf(levels) \in Int
<1> DEFINE t == [i \in 1..n |-> levels[i].close]
<1>1. \A i \in 1..n : t[i] \in Int BY DEF Listed
<1> HIDE DEF t
<1>2. PICK g : Sums(g, t, 1..n) BY <1>1, SumsExist
<1>3. SumOf(levels) = g[1..n] BY <1>2, FoldIsSum DEF Listed, t
<1>4. g[1..n] \in Int BY <1>2 DEF Sums
<1> QED BY <1>3, <1>4

LEMMA NormalisedIs ==
  ASSUME NEW n \in Nat, NEW levels, Listed(levels, n), SumOf(levels) > 0
  PROVE  /\ Listed(Normalised(levels), n)
         /\ \A i \in 1..n :
              /\ Normalised(levels)[i].price = levels[i].price
              /\ Whole * levels[i].close - 5 * SumOf(levels)
                   <= SumOf(levels) * Normalised(levels)[i].close
              /\ SumOf(levels) * Normalised(levels)[i].close
                   <= Whole * levels[i].close + 5 * SumOf(levels)
<1>1. SumOf(levels) \in Int BY ListedSum
<1>2. PICK s \in Int : s = SumOf(levels) /\ s > 0 BY <1>1
<1>3. \A i \in 1..n : levels[i] \in [price: Int, close: Int] BY DEF Listed
<1>4. CASE s = Whole
  <2>1. Normalised(levels) = levels BY <1>2, <1>4 DEF Normalised
  <2>2. \A i \in 1..n : levels[i].close \in Int BY <1>3
  <2>3. \A x \in Int : Whole * x - 5 * Whole <= Whole * x /\ Whole * x <= Whole * x + 5 * Whole
    BY DEF Whole
  <2> QED BY <2>1, <2>2, <2>3, <1>2, <1>4
<1>5. CASE s # Whole
  <2> DEFINE new(i) == Rounded(levels[i].close * (Whole \div 10), s) * 10
  <2>1. Normalised(levels) = [i \in 1..n |-> [levels[i] EXCEPT !.close = new(i)]]
    BY <1>2, <1>5 DEF Normalised, Listed
  <2>2. ASSUME NEW i \in 1..n
        PROVE  /\ new(i) \in Int
               /\ Whole * levels[i].close - 5 * s <= s * new(i)
               /\ s * new(i) <= Whole * levels[i].close + 5 * s
    <3>1. levels[i].close \in Int BY <1>3
    <3> QED BY <3>1, <1>2, RoundsNear
  <2> HIDE DEF new
  <2>3. \A i \in 1..n : /\ Normalised(levels)[i] \in [price: Int, close: Int]
                        /\ Normalised(levels)[i].price = levels[i].price
                        /\ Normalised(levels)[i].close = new(i)
    BY <2>1, <2>2, <1>3
  <2>4. Normalised(levels) = [i \in 1..n |-> Normalised(levels)[i]] BY <2>1
  <2> QED BY <2>2, <2>3, <2>4, <1>2 DEF Listed
<1> QED BY <1>4, <1>5

\* A list of n levels whose shares make up s, as it is kept: nothing is added
\* or lost, and each rounding costs the whole at most 5.
LEMMA LevelsAre ==
  ASSUME NEW n \in Nat, NEW levels, Listed(levels, n), SumOf(levels) > 0, NEW above \in BOOLEAN
  PROVE  /\ Listed(Levels(levels, above), n)
         /\ \A i \in 1..n : \E k \in 1..n : Levels(levels, above)[i].price = levels[k].price
         /\ InOrder(Levels(levels, above), above)
         /\ SumOf(Levels(levels, above)) \in (Whole - 5 * n)..(Whole + 5 * n)
<1> DEFINE N == Normalised(levels)
           R == Levels(levels, above)
<1>1. /\ Listed(N, n)
      /\ \A i \in 1..n :
           /\ N[i].price = levels[i].price
           /\ Whole * levels[i].close - 5 * SumOf(levels) <= SumOf(levels) * N[i].close
           /\ SumOf(levels) * N[i].close <= Whole * levels[i].close + 5 * SumOf(levels)
  BY NormalisedIs
<1> HIDE DEF N
<1>2. R = Sorted(N, above) BY DEF Levels, N
<1> HIDE DEF R
<1>3. \A i \in 1..n : N[i].price \in Int BY <1>1 DEF Listed
<1>4. /\ R = [i \in 1..n |-> R[i]] /\ InOrder(R, above)
      /\ \E p : Permutes(p, n) /\ Reordered(R, N, p)
  <2>1. DOMAIN N = 1..n BY <1>1 DEF Listed
  <2>2. /\ Sorted(N, above) = [i \in 1..n |-> Sorted(N, above)[i]]
        /\ \E p : Permutes(p, n) /\ Reordered(Sorted(N, above), N, p)
        /\ InOrder(Sorted(N, above), above)
    BY <2>1, <1>3, SortedOrders
  <2> QED BY <2>2, <1>2
<1>p. PICK p : Permutes(p, n) /\ Reordered(R, N, p) BY <1>4
<1>5. p \in [1..n -> 1..n] /\ \A i \in 1..n : R[i] = N[p[i]]
  BY <1>p DEF Permutes, Reordered
<1>6. Listed(R, n)
  <2>1. ASSUME NEW i \in 1..n PROVE R[i] \in [price: Int, close: Int]
    <3>1. p[i] \in 1..n BY <1>5
    <3> QED BY <3>1, <1>1, <1>5 DEF Listed
  <2> QED BY <2>1, <1>4 DEF Listed
<1>7. \A i \in 1..n : \E k \in 1..n : R[i].price = levels[k].price
  <2> SUFFICES ASSUME NEW i \in 1..n PROVE \E k \in 1..n : R[i].price = levels[k].price
    OBVIOUS
  <2>1. p[i] \in 1..n BY <1>5
  <2> QED BY <2>1, <1>1, <1>5
<1>8. SumOf(levels) \in Int BY ListedSum
<1>9. PICK s \in Int : s = SumOf(levels) /\ s > 0 BY <1>8
<1> DEFINE t == [i \in 1..n |-> levels[i].close]
           u == [i \in 1..n |-> N[i].close]
           w == [i \in 1..n |-> R[i].close]
<1>10. \A i \in 1..n : t[i] \in Int /\ u[i] \in Int /\ w[i] \in Int
  BY <1>1, <1>6 DEF Listed
<1>11. \A i \in 1..n : t[i] = levels[i].close /\ u[i] = N[i].close /\ w[i] = R[i].close
  OBVIOUS
<1> HIDE DEF t, u, w
<1>12. PICK g : Sums(g, t, 1..n) BY <1>10, SumsExist
<1>13. PICK h : Sums(h, u, 1..n) BY <1>10, SumsExist
<1>14. PICK k : Sums(k, w, 1..n) BY <1>10, SumsExist
<1>15. SumOf(levels) = g[1..n] BY <1>11, <1>12, FoldIsSum DEF Listed
<1>16. SumOf(R) = k[1..n] BY <1>4, <1>11, <1>14, FoldIsSum
<1>17. k[1..n] = h[1..n]
  <2>1. \A i \in 1..n : w[i] = u[p[i]]
    <3> SUFFICES ASSUME NEW i \in 1..n PROVE w[i] = u[p[i]] OBVIOUS
    <3>1. p[i] \in 1..n BY <1>5
    <3> QED BY <3>1, <1>5, <1>11
  <2>2. Reordered(w, u, p) BY <2>1, <1>5 DEF Reordered
  <2> QED BY <2>2, <1>p, <1>13, <1>14, PermutedSum
<1>18. \A i \in 1..n : Whole * t[i] - 5 * s <= s * u[i] /\ s * u[i] <= Whole * t[i] + 5 * s
  BY <1>1, <1>9, <1>11
<1>19. /\ Whole * g[1..n] - (5 * s) * n <= s * h[1..n]
       /\ s * h[1..n] <= Whole * g[1..n] + (5 * s) * n
  BY <1>10, <1>12, <1>13, <1>18, RoundedSum
<1>20. PICK z \in Int : z = h[1..n] BY <1>13 DEF Sums
<1>21. Whole * s - (5 * s) * n <= s * z /\ s * z <= Whole * s + (5 * s) * n
  BY <1>9, <1>15, <1>19, <1>20
<1>22. Whole - 5 * n <= z /\ z <= Whole + 5 * n
  <2>1. (5 * s) * n = s * (5 * n) /\ Whole * s = s * Whole BY DEF Whole
  <2>2. /\ s * Whole - s * (5 * n) = s * (Whole - 5 * n)
        /\ s * Whole + s * (5 * n) = s * (Whole + 5 * n)
    BY DEF Whole
  <2>3. s * (Whole - 5 * n) <= s * z /\ s * z <= s * (Whole + 5 * n) BY <2>1, <2>2, <1>21
  <2>4. ASSUME NEW x \in Int, NEW y \in Int, s * x <= s * y PROVE x <= y
    <3>1. SUFFICES ASSUME y + 1 <= x PROVE FALSE OBVIOUS
    <3>2. s * (y + 1) <= s * x BY <3>1, <1>9
    <3>3. s * (y + 1) = s * y + s OBVIOUS
    <3>4. s * x \in Int /\ s * y \in Int OBVIOUS
    <3> QED BY <2>4, <3>2, <3>3, <3>4, <1>9
  <2>5. Whole - 5 * n \in Int /\ Whole + 5 * n \in Int BY DEF Whole
  <2> QED BY <2>3, <2>4, <2>5
<1>23. SumOf(R) \in (Whole - 5 * n)..(Whole + 5 * n) BY <1>16, <1>17, <1>20, <1>22 DEF Whole
<1> QED BY <1>4, <1>6, <1>7, <1>23 DEF R

(***************************************************************************)
(* Validate: what an accepted answer becomes.                              *)
(***************************************************************************)
Bracket(plan) ==
  LET long == plan.action = "OPEN_LONG"
      from == FarEnd(plan)
  IN /\ plan.profits # <<>> /\ plan.stops # <<>>
     /\ \A i \in DOMAIN plan.profits : OnItsSide(plan.profits[i].price, from, long)
     /\ \A i \in DOMAIN plan.stops : OnItsSide(plan.stops[i].price, from, ~long)
     /\ InOrder(plan.profits, long) /\ InOrder(plan.stops, ~long)
     /\ AddsUp(plan.profits) /\ AddsUp(plan.stops)

\* What the later stages rely on.
PlanShape(plan) ==
  /\ \E n \in Nat : Listed(plan.profits, n)
  /\ \E n \in Nat : Listed(plan.stops, n)
  /\ {plan.confidence, plan.leverage, plan.allocation} \subseteq Int
  /\ plan.action \in Entries => Bracket(plan)

LEMMA ListLength ==
  ASSUME NEW n \in Nat, NEW S, NEW list \in [1..n -> S]
  PROVE  Len(list) = n
<1>1. list \in Seq(S) BY SeqDef
<1>2. PICK k \in Nat : k = Len(list) /\ DOMAIN list = 1..k BY <1>1
<1>3. 1..k = 1..n BY <1>2
<1>4. ~ (k < n)
  <2> SUFFICES ASSUME k < n PROVE FALSE OBVIOUS
  <2>1. n \in 1..n /\ n \notin 1..k OBVIOUS
  <2> QED BY <2>1, <1>3
<1>5. ~ (n < k)
  <2> SUFFICES ASSUME n < k PROVE FALSE OBVIOUS
  <2>1. k \in 1..k /\ k \notin 1..n OBVIOUS
  <2> QED BY <2>1, <1>3
<1> QED BY <1>2, <1>4, <1>5

\* One side of the bracket.
LEMMA KeptSide ==
  ASSUME NEW levels \in LevelLists, NEW from \in Int, from > 0, NEW above \in BOOLEAN,
         LevelsOK(levels, from, above)
  PROVE  /\ \E n \in Nat : Listed(Levels(levels, above), n)
         /\ Levels(levels, above) # <<>>
         /\ \A i \in DOMAIN Levels(levels, above) :
              OnItsSide(Levels(levels, above)[i].price, from, above)
         /\ InOrder(Levels(levels, above), above)
         /\ AddsUp(Levels(levels, above))
<1> DEFINE n == Len(levels)
           R == Levels(levels, above)
<1>1. /\ n \in Nat /\ DOMAIN levels = 1..n
      /\ levels \in [1..n -> [price: Numbers, close: Numbers]]
  BY LenProperties DEF LevelLists
<1>2. n \in 1..MaxLevels BY DEF LevelsOK
<1>3. ASSUME NEW i \in 1..n
      PROVE  /\ levels[i] \in [price: Int, close: Int]
             /\ OnItsSide(levels[i].price, from, above)
  <2>1. levels[i] \in [price: Numbers, close: Numbers] BY <1>1
  <2>2. /\ Usable(levels[i].price) /\ Between(levels[i].close, 1, Whole)
        /\ OnItsSide(levels[i].price, from, above)
    BY <1>1 DEF LevelsOK
  <2>3. levels[i].price \in Int /\ levels[i].close \in Int
    BY <2>1, <2>2 DEF Numbers, Usable, Between, Given
  <2> QED BY <2>1, <2>2, <2>3
<1>4. Listed(levels, n) BY <1>1, <1>3 DEF Listed
<1> HIDE DEF n
<1>5. SumOf(levels) \in Int BY <1>1, <1>4, ListedSum
<1>6. SumOf(levels) > 0
  <2>1. Away(SumOf(levels), Whole) <= Tolerance BY DEF LevelsOK
  <2> QED BY <2>1, <1>5 DEF Away, Whole, Tolerance
<1>7. /\ Listed(R, n)
      /\ \A i \in 1..n : \E k \in 1..n : R[i].price = levels[k].price
      /\ InOrder(R, above)
      /\ SumOf(R) \in (Whole - 5 * n)..(Whole + 5 * n)
  BY <1>1, <1>4, <1>6, LevelsAre
<1> HIDE DEF R
<1>8. DOMAIN R = 1..n BY <1>7 DEF Listed
<1>9. R # <<>>
  <2>1. 1 \in DOMAIN R BY <1>2, <1>8 DEF MaxLevels
  <2> QED BY <2>1
<1>10. \A i \in DOMAIN R : OnItsSide(R[i].price, from, above)
  <2> SUFFICES ASSUME NEW i \in 1..n PROVE OnItsSide(R[i].price, from, above) BY <1>8
  <2>1. PICK k \in 1..n : R[i].price = levels[k].price BY <1>7
  <2> QED BY <2>1, <1>3
<1>11. AddsUp(R)
  <2>1. Len(R) = n BY <1>1, <1>7, ListLength DEF Listed
  <2>2. PICK z \in Int : z = SumOf(R) /\ Whole - 5 * n <= z /\ z <= Whole + 5 * n
    BY <1>1, <1>7 DEF Whole
  <2>3. Away(z, Whole) <= 5 * n BY <2>2, <1>1 DEF Away, Whole
  <2> QED BY <2>1, <2>2, <2>3 DEF AddsUp
<1> QED BY <1>1, <1>7, <1>9, <1>10, <1>11 DEF R

LEMMA RoundedIsInt ==
  ASSUME NEW x \in Int
  PROVE  Rounded(x, 10) \in Int
BY DEF Rounded

LEMMA AcceptedIsPlan ==
  ASSUME NEW a \in Replies, NEW facts, facts.price = Price, Accepted(a, facts)
  PROVE  PlanShape(Validated(a, facts))
<1> DEFINE plan == Validated(a, facts)
           long == a.action = "OPEN_LONG"
           entry == a.action \in Entries
<1> SUFFICES PlanShape(plan) OBVIOUS
<1>1. Decoded(a) BY RepliesAreDecoded
<1>2. /\ plan.action = a.action
      /\ plan.confidence = Rounded(a.confidence, 10)
      /\ plan.allocation = IF Given(a.allocation) THEN Rounded(a.allocation, 10) ELSE 0
      /\ plan.leverage = IF Given(a.leverage) THEN Rounded(a.leverage, 10) ELSE 0
      /\ plan.zone = IF entry THEN a.zone ELSE Absent
      /\ plan.profits = IF entry THEN Levels(a.profits, Above(long, TRUE)) ELSE <<>>
      /\ plan.stops = IF entry THEN Levels(a.stops, Above(long, FALSE)) ELSE <<>>
  BY DEF Validated
<1> HIDE DEF plan
<1>3. {plan.confidence, plan.leverage, plan.allocation} \subseteq Int
  <2>1. a.confidence \in Int BY <1>1 DEF Accepted, Between, Decoded, Numbers, Given
  <2>2. Given(a.allocation) => a.allocation \in Int BY <1>1 DEF Decoded, Numbers, Given
  <2>3. Given(a.leverage) => a.leverage \in Int BY <1>1 DEF Decoded, Numbers, Given
  <2>4. plan.confidence \in Int BY <1>2, <2>1, RoundedIsInt
  <2>5. plan.leverage \in Int BY <1>2, <2>3, RoundedIsInt
  <2>6. plan.allocation \in Int BY <1>2, <2>2, RoundedIsInt
  <2> QED BY <2>4, <2>5, <2>6
<1>4. CASE ~ entry
  <2>1. plan.profits = <<>> /\ plan.stops = <<>> BY <1>2, <1>4
  <2>2. Listed(<<>>, 0) BY DEF Listed
  <2>3. plan.action \notin Entries BY <1>2, <1>4
  <2>4. \E n \in Nat : Listed(<<>>, n) BY <2>2
  <2>5. /\ \E n \in Nat : Listed(plan.profits, n)
        /\ \E n \in Nat : Listed(plan.stops, n)
    BY <2>1, <2>4
  <2> HIDE DEF entry
  <2> QED BY <1>3, <2>3, <2>5 DEF PlanShape
<1>5. CASE entry
  <2> DEFINE from == Reference(a, facts)
  <2>1. EntryOK(a, facts) BY <1>5 DEF Accepted
  <2>2. /\ ZoneOK(a.zone, facts)
        /\ LevelsOK(a.profits, from, Above(long, TRUE))
        /\ LevelsOK(a.stops, from, Above(long, FALSE))
    BY <2>1 DEF EntryOK
  <2>3. Above(long, TRUE) = long /\ Above(long, FALSE) = ~ long BY DEF Above
  <2>4. Price \in Int /\ Price > 0 BY PositivePrice
  <2>5. /\ a.zone.max \in Numbers /\ a.zone.min \in Numbers
        /\ Given(a.zone.max) => Usable(a.zone.max)
        /\ Given(a.zone.min) => Usable(a.zone.min)
    BY <1>1, <2>2 DEF Decoded, ZoneOK, Usable
  <2>6. from \in Int /\ from > 0
    BY <2>4, <2>5 DEF Reference, Usable, Given, Numbers
  <2>7. FarEnd(plan) = from
    <3>1. plan.action = a.action /\ plan.zone = a.zone BY <1>2, <1>5
    <3>2. CASE long BY <3>1, <3>2, <2>5 DEF FarEnd, Reference, Given, Usable
    <3>3. CASE ~ long
      <4>1. a.action = "OPEN_SHORT" BY <1>5, <3>3 DEF Entries
      <4> QED BY <4>1, <3>1, <2>5 DEF FarEnd, Reference, Given, Usable
    <3> QED BY <3>2, <3>3
  <2>8. a.profits \in LevelLists /\ a.stops \in LevelLists BY <1>1 DEF Decoded
  <2> HIDE DEF from
  <2>9. /\ \E n \in Nat : Listed(plan.profits, n)
        /\ plan.profits # <<>>
        /\ \A i \in DOMAIN plan.profits : OnItsSide(plan.profits[i].price, from, long)
        /\ InOrder(plan.profits, long) /\ AddsUp(plan.profits)
    <3>1. plan.profits = Levels(a.profits, long) BY <1>2, <1>5, <2>3
    <3>2. LevelsOK(a.profits, from, long) BY <2>2, <2>3
    <3>3. long \in BOOLEAN OBVIOUS
    <3> HIDE DEF long
    <3> QED BY <3>1, <3>2, <3>3, <2>6, <2>8, KeptSide
  <2>10. /\ \E n \in Nat : Listed(plan.stops, n)
         /\ plan.stops # <<>>
         /\ \A i \in DOMAIN plan.stops : OnItsSide(plan.stops[i].price, from, ~ long)
         /\ InOrder(plan.stops, ~ long) /\ AddsUp(plan.stops)
    <3>1. plan.stops = Levels(a.stops, ~ long) BY <1>2, <1>5, <2>3
    <3>2. LevelsOK(a.stops, from, ~ long) BY <2>2, <2>3
    <3>3. (~ long) \in BOOLEAN OBVIOUS
    <3> HIDE DEF long
    <3> QED BY <3>1, <3>2, <3>3, <2>6, <2>8, KeptSide
  <2>11. long = (plan.action = "OPEN_LONG") BY <1>2
  <2>12. Bracket(plan) BY <2>7, <2>9, <2>10, <2>11 DEF Bracket
  <2>13. \E n \in Nat : Listed(plan.profits, n) BY <2>9
  <2>14. \E n \in Nat : Listed(plan.stops, n) BY <2>10
  <2> QED BY <1>3, <2>12, <2>13, <2>14 DEF PlanShape
<1> QED BY <1>4, <1>5

(***************************************************************************)
(* Evaluate: the caps only ever lower the maximum.                         *)
(***************************************************************************)
LEMMA PairMinMax ==
  ASSUME NEW a \in Int, NEW b \in Int
  PROVE  /\ Max({a, b}) \in {a, b} /\ a <= Max({a, b}) /\ b <= Max({a, b})
         /\ Min({a, b}) \in {a, b} /\ Min({a, b}) <= a /\ Min({a, b}) <= b
<1>1. \E x \in {a, b} : \A y \in {a, b} : x >= y
  <2>1. CASE a >= b BY <2>1
  <2>2. CASE b >= a BY <2>2
  <2> QED BY <2>1, <2>2
<1>2. \E x \in {a, b} : \A y \in {a, b} : x =< y
  <2>1. CASE a =< b BY <2>1
  <2>2. CASE b =< a BY <2>2
  <2> QED BY <2>1, <2>2
<1>3. Max({a, b}) \in {a, b} /\ \A y \in {a, b} : Max({a, b}) >= y BY <1>1 DEF Max
<1>4. Min({a, b}) \in {a, b} /\ \A y \in {a, b} : Min({a, b}) =< y BY <1>2 DEF Min
<1>5. Max({a, b}) \in Int /\ Min({a, b}) \in Int BY <1>3, <1>4
<1> QED BY <1>3, <1>4, <1>5

\* What an evaluation may see: at every access a policy of U; swapped at most
\* once, so not both before the comparison with the maximum and right after it.
Sees(P, U) ==
  /\ U \subseteq Policies
  /\ P \in [1..Reads -> U]
  /\ \/ P[1] = P[13] /\ P[12] = P[13]
     \/ P[13] = P[14]

LEMMA PolicyFacts ==
  ASSUME NEW P, NEW U, Sees(P, U), NEW i \in 1..28
  PROVE  /\ P[i] \in U
         /\ P[i].min \in Nat /\ P[i].max \in Nat /\ 1 <= P[i].min /\ P[i].min <= P[i].max
         /\ P[i].criticalMax \in Nat /\ P[i].criticalHighVolMax \in Nat
         /\ P[i].criticalHighVolMax <= P[i].criticalMax
         /\ P[i].riskPerTrade \in Nat /\ P[i].maxAllocation \in Nat
<1>1. P[i] \in U /\ P[i] \in Policies BY DEF Sees, Reads
<1>2. PICK r \in Policies : r = P[i] BY <1>1
<1>3. {r.min, r.max, r.criticalMax, r.criticalHighVolMax} \subseteq 1..125
  BY PoliciesAreValid
<1>4. /\ r.min \in Nat /\ r.max \in Nat
      /\ r.criticalMax \in Nat /\ r.criticalHighVolMax \in Nat
  BY <1>3
<1>5. r.criticalHighVolMax <= r.criticalMax BY PoliciesAreValid
<1>6. r.riskPerTrade \in Nat /\ r.maxAllocation \in Nat BY PoliciesAreValid
<1>7. 1 <= r.min /\ r.min <= r.max
  <2>1. 1 <= r.min BY <1>3
  <2>2. r.min <= r.criticalHighVolMax /\ r.criticalMax <= r.max BY PoliciesAreValid
  <2> QED BY <2>1, <2>2, <1>4, <1>5
<1> QED BY <1>1, <1>2, <1>4, <1>5, <1>6, <1>7

LEMMA ShareIsLess ==
  ASSUME NEW x \in Nat, NEW percent \in 0..100
  PROVE  Share(x, percent) \in Nat /\ Share(x, percent) <= x
<1>1. PICK z \in Int : z = x * percent OBVIOUS
<1>2. 0 <= z /\ z <= 100 * x BY <1>1
<1>3. z \div 100 \in Nat /\ z \div 100 <= x BY <1>2
<1> QED BY <1>1, <1>3 DEF Share

LEMMA AtrLowers ==
  ASSUME NEW x \in Nat, NEW in, NEW P, NEW U, Sees(P, U)
  PROVE  AfterAtr(x, in, P) \in Nat /\ AfterAtr(x, in, P) <= x
<1>1. P[7].min \in Nat /\ P[8].min \in Nat BY PolicyFacts
<1>2. Share(x, 60) \in Nat /\ Share(x, 60) <= x BY ShareIsLess
<1>3. Higher(P[7].min, 8) * Unit \in Nat /\ Higher(P[8].min, 15) * Unit \in Nat
  BY <1>1 DEF Higher, Unit
<1>4. \A y \in Nat : Lower(x, y) \in Nat /\ Lower(x, y) <= x BY DEF Lower
<1>5. /\ Lower(x, Higher(P[7].min, 8) * Unit) \in Nat
      /\ Lower(x, Higher(P[7].min, 8) * Unit) <= x
      /\ Lower(x, Higher(P[8].min, 15) * Unit) \in Nat
      /\ Lower(x, Higher(P[8].min, 15) * Unit) <= x
  BY <1>3, <1>4
<1> QED BY <1>2, <1>5 DEF AfterAtr

LEMMA RegimeLowers ==
  ASSUME NEW x \in Nat, NEW in
  PROVE  AfterRegime(x, in) \in Nat /\ AfterRegime(x, in) <= x
<1> DEFINE a == IF Stretched(in) THEN Share(x, 80) ELSE x
           b == Share(a, RegimeShare(in))
<1>1. a \in Nat /\ a <= x BY ShareIsLess
<1> HIDE DEF a
<1>2. RegimeShare(in) \in 0..100
  <2>1. RegimeShare(in) \in {60, 80, 90, 100} BY DEF RegimeShare
  <2> QED BY <2>1
<1>3. b \in Nat /\ b <= a BY <1>1, <1>2, ShareIsLess
<1> HIDE DEF b
<1>4. Share(b, 85) \in Nat /\ Share(b, 85) <= b BY <1>3, ShareIsLess
<1>5. AfterRegime(x, in) = IF in.highVolTag THEN Share(b, 85) ELSE b BY DEF AfterRegime, a, b
<1> QED BY <1>1, <1>3, <1>4, <1>5

LEMMA ConfidenceLowers ==
  ASSUME NEW x \in Nat, NEW in, NEW P, NEW U, Sees(P, U)
  PROVE  AfterConfidence(x, in, P) \in Nat /\ AfterConfidence(x, in, P) <= x
<1>1. P[10].min \in Nat BY PolicyFacts
<1>2. P[10].min * Unit \in Nat /\ 20 * Unit \in Nat BY <1>1 DEF Unit
<1>3. \A y \in Nat : Lower(x, y) \in Nat /\ Lower(x, y) <= x BY DEF Lower
<1>4. /\ Lower(x, P[10].min * Unit) \in Nat /\ Lower(x, P[10].min * Unit) <= x
      /\ Lower(x, 20 * Unit) \in Nat /\ Lower(x, 20 * Unit) <= x
  BY <1>2, <1>3
<1> QED BY <1>4 DEF AfterConfidence

LEMMA MarketLowers ==
  ASSUME NEW x \in Nat, NEW in
  PROVE  AfterMarket(x, in) \in Nat /\ AfterMarket(x, in) <= x
<1> DEFINE a == IF Disagree(in) THEN Share(x, 80) ELSE x
           b == IF InTheWay(in) THEN Share(a, 85) ELSE a
<1>1. a \in Nat /\ a <= x BY ShareIsLess
<1> HIDE DEF a
<1>2. b \in Nat /\ b <= a BY <1>1, ShareIsLess
<1> HIDE DEF b
<1>3. Share(b, 70) \in Nat /\ Share(b, 70) <= b BY <1>2, ShareIsLess
<1>4. AfterMarket(x, in) = IF in.dataOK THEN b ELSE Share(b, 70) BY DEF AfterMarket, a, b
<1> QED BY <1>1, <1>2, <1>3, <1>4

\* The maximum at the end of the caps, before it is brought into the bounds.
Capped(in, P) ==
  LET stop   == AfterStop(AfterNews(in, P), in, P)
      regime == AfterRegime(AfterAtr(stop, in, P), in)
  IN AfterMarket(AfterConfidence(regime, in, P), in)

Situated(in) ==
  /\ in.price \in Nat \ {0}
  /\ in.stops \subseteq Int /\ IsFiniteSet(in.stops)
  /\ in.leverage \in Int /\ in.allocation \in Int

LEMMA FarthestIsNat ==
  ASSUME NEW in, Situated(in)
  PROVE  FarthestStop(in) \in Nat
<1> DEFINE f == [s \in in.stops |-> Gap(s, in.price)]
           G == {f[s] : s \in in.stops}
<1>1. \A s \in in.stops : f[s] \in Nat BY DEF Situated, Gap
<1>2. G = {Gap(s, in.price) : s \in in.stops} OBVIOUS
<1>3. IsFiniteSet(in.stops) BY DEF Situated
<1>4. IsFiniteSet(G)
  <2>1. DOMAIN f = in.stops /\ f = [s \in in.stops |-> f[s]] OBVIOUS
  <2> HIDE DEF f
  <2> QED BY <2>1, <1>3, ImageFinite
<1>5. CASE in.stops = {} BY <1>5 DEF FarthestStop
<1>6. CASE in.stops # {}
  <2>0. G # {} /\ G \subseteq Nat BY <1>1, <1>6
  <2>1. G # {} /\ G \subseteq Nat /\ G \subseteq Int
    <3> HIDE DEF G
    <3> QED BY <2>0
  <2> HIDE DEF G
  <2>2. Max(G) \in G BY <2>1, <1>4, FiniteMinMax
  <2> QED BY <2>1, <2>2, <1>2, <1>6 DEF FarthestStop
<1> QED BY <1>5, <1>6

\* The first cap leaves no more than the critical news and the largest loss on
\* the margin allow, and the others only take from it.
LEMMA CappedIs ==
  ASSUME NEW in, Situated(in), NEW P, NEW U, Sees(P, U)
  PROVE  /\ Capped(in, P) \in Nat
         /\ Capped(in, P) <= P[1].max * Unit
         /\ HasStop(in) => Capped(in, P) * FarthestStop(in) <= 35 * 1000 * in.price
         /\ FreshCritical(in, P[2]) => Capped(in, P) <= P[4].criticalMax * Unit
<1> DEFINE cap == NewsLeverageCap(in, P)
           x0 == AfterNews(in, P)
           x1 == AfterStop(x0, in, P)
           x2 == AfterAtr(x1, in, P)
           x3 == AfterRegime(x2, in)
           x4 == AfterConfidence(x3, in, P)
           x5 == AfterMarket(x4, in)
<1>1. /\ P[1].max \in Nat /\ P[3].max \in Nat /\ P[5].min \in Nat
      /\ P[4].criticalMax \in Nat /\ P[4].criticalHighVolMax \in Nat
      /\ P[4].criticalHighVolMax <= P[4].criticalMax
  BY PolicyFacts
<1>2. cap \in Nat /\ (FreshCritical(in, P[2]) => cap <= P[4].criticalMax)
  BY <1>1 DEF NewsLeverageCap
<1> HIDE DEF cap
<1>3. /\ x0 \in Nat /\ x0 <= P[1].max * Unit
      /\ FreshCritical(in, P[2]) => x0 <= P[4].criticalMax * Unit
  <2>1. x0 = Lower(P[1].max, cap) * Unit BY DEF AfterNews, cap
  <2>2. PICK y \in Nat : y = Lower(P[1].max, cap) /\ y <= P[1].max /\ y <= cap
    BY <1>1, <1>2 DEF Lower
  <2> QED BY <2>1, <2>2, <1>1, <1>2 DEF Unit
<1> HIDE DEF x0
<1>4. /\ x1 \in Nat /\ x1 <= x0
      /\ HasStop(in) => x1 * FarthestStop(in) <= 35 * 1000 * in.price
  <2>1. PICK F \in Nat : F = FarthestStop(in) BY FarthestIsNat
  <2>2. PICK price \in Nat : price = in.price /\ price > 0 BY DEF Situated
  <2>3. CASE ~ HasStop(in)
    <3>1. x1 = Lower(x0, 2 * P[5].min * Unit) BY <2>3 DEF AfterStop
    <3> QED BY <3>1, <2>3, <1>1, <1>3 DEF Lower, Unit
  <2>4. CASE HasStop(in)
    <3>1. F > 0 BY <2>1, <2>4 DEF HasStop
    <3>2. MaxLossOnMarginPct * (Unit \div 100) * in.price = 35000 * price
      BY <2>2 DEF MaxLossOnMarginPct, Unit
    <3> DEFINE c == (35000 * price) \div F
    <3>3. StopCap(in) = c BY <3>2, <2>1 DEF StopCap
    <3>4. PICK m \in Nat : m = 35000 * price OBVIOUS
    <3>5. m \div F \in Int /\ F * (m \div F) <= m /\ m < F * (m \div F) + F
      BY <3>1, Quotient
    <3>6. c \in Int /\ F * c <= m /\ m < F * c + F BY <3>4, <3>5
    <3> HIDE DEF c
    <3>7. c >= 0
      <4> SUFFICES ASSUME c <= -1 PROVE FALSE BY <3>6
      <4>1. F * c <= F * (-1) BY <3>1, <3>6
      <4>2. F * c \in Int BY <3>6
      <4> QED BY <4>1, <4>2, <3>6
    <3>8. x1 = Lower(x0, c) BY <2>4, <3>3 DEF AfterStop
    <3>9. x1 \in Nat /\ x1 <= x0 /\ x1 <= c BY <3>6, <3>7, <3>8, <1>3 DEF Lower
    <3> HIDE DEF x1
    <3>10. x1 * F <= c * F BY <3>6, <3>9
    <3>11. x1 * F \in Int /\ c * F = F * c BY <3>6, <3>9
    <3>12. x1 * F <= 35000 * price BY <3>4, <3>6, <3>10, <3>11
    <3> QED BY <3>9, <3>12, <2>1, <2>2
  <2> QED BY <2>3, <2>4
<1> HIDE DEF x1
<1>5. x2 \in Nat /\ x2 <= x1 BY <1>4, AtrLowers
<1> HIDE DEF x2
<1>6. x3 \in Nat /\ x3 <= x2 BY <1>5, RegimeLowers
<1> HIDE DEF x3
<1>7. x4 \in Nat /\ x4 <= x3 BY <1>6, ConfidenceLowers
<1> HIDE DEF x4
<1>8. x5 \in Nat /\ x5 <= x4 BY <1>7, MarketLowers
<1> HIDE DEF x5
<1>9. Capped(in, P) = x5 BY DEF Capped, x0, x1, x2, x3, x4, x5
<1>10. x5 <= x1 /\ x5 <= x0 BY <1>3, <1>4, <1>5, <1>6, <1>7, <1>8
<1>11. HasStop(in) => x5 * FarthestStop(in) <= 35 * 1000 * in.price
  <2> SUFFICES ASSUME HasStop(in) PROVE x5 * FarthestStop(in) <= 35 * 1000 * in.price OBVIOUS
  <2>1. PICK F \in Nat : F = FarthestStop(in) BY FarthestIsNat
  <2>2. x5 * F <= x1 * F BY <1>4, <1>8, <1>10
  <2>3. x5 * F \in Int /\ x1 * F \in Int BY <1>4, <1>8
  <2>4. PICK price \in Nat : price = in.price BY DEF Situated
  <2> QED BY <2>1, <2>2, <2>3, <2>4, <1>4
<1>12. P[1].max * Unit \in Nat /\ P[4].criticalMax * Unit \in Nat BY <1>1 DEF Unit
<1> QED BY <1>3, <1>8, <1>9, <1>10, <1>11, <1>12

LeverageBounds(U, lo, hi, floor, critical) ==
  /\ lo \in Int /\ hi \in Int /\ floor \in Int /\ critical \in Int
  /\ \A r \in U : lo <= r.min /\ r.min <= floor /\ r.max <= hi /\ r.criticalMax <= critical

LEMMA LeverageIs ==
  ASSUME NEW in, Situated(in), NEW P, NEW U, Sees(P, U),
         NEW lo, NEW hi, NEW floor, NEW critical, LeverageBounds(U, lo, hi, floor, critical),
         NEW riskMax, riskMax = RiskMaximum(Capped(in, P), P),
         NEW lever, lever = Recommended(in, riskMax, P)
  PROVE  /\ lever \in lo..hi
         /\ lever > floor =>
              /\ lever * FarthestStop(in) * 100 <= 35 * in.price
              /\ (\A r \in U : FreshCritical(in, r)) => lever <= critical
<1>a. lo \in Int /\ hi \in Int /\ floor \in Int /\ critical \in Int BY DEF LeverageBounds
<1>b. \A r \in U : lo <= r.min /\ r.min <= floor /\ r.max <= hi /\ r.criticalMax <= critical
  BY DEF LeverageBounds
<1> USE <1>a
<1>1. PICK x \in Nat :
        /\ x = Capped(in, P)
        /\ x <= P[1].max * Unit
        /\ HasStop(in) => x * FarthestStop(in) <= 35 * 1000 * in.price
        /\ FreshCritical(in, P[2]) => x <= P[4].criticalMax * Unit
  BY CappedIs
<1>2. \A i \in 1..28 :
        /\ P[i].min \in Int /\ P[i].max \in Int /\ 1 <= P[i].min /\ P[i].min <= P[i].max
        /\ P[i].criticalMax \in Int
        /\ lo <= P[i].min /\ P[i].min <= floor /\ P[i].max <= hi /\ P[i].criticalMax <= critical
  BY <1>b, PolicyFacts
<1> DEFINE whole == x \div Unit
           atLeast == IF whole < P[11].min THEN P[12].min ELSE whole
           allowed == Lower(Asked(in, P), riskMax)
<1>3. whole \in Nat /\ whole * Unit <= x BY DEF Unit
<1> HIDE DEF whole
<1>4. riskMax = IF atLeast > P[13].max THEN P[14].max ELSE atLeast
  BY <1>1 DEF RiskMaximum, whole
<1>5. /\ P[11].min \in Int /\ P[12].min \in Int /\ P[13].max \in Int /\ P[14].max \in Int
      /\ P[12].min <= floor /\ P[14].max <= hi /\ P[13].max <= hi
      /\ P[15].min \in Int /\ P[16].min \in Int /\ P[17].min \in Int
      /\ lo <= P[16].min /\ lo <= P[17].min /\ P[17].min <= floor /\ P[17].min <= hi
  BY <1>2
<1>6. riskMax \in Int /\ riskMax <= hi
  <2>1. atLeast \in Int BY <1>3, <1>5
  <2> HIDE DEF atLeast
  <2> QED BY <2>1, <1>4, <1>5
<1>7. Asked(in, P) \in Int BY <1>5 DEF Asked, Situated
<1>8. allowed \in Int /\ allowed <= riskMax BY <1>6, <1>7 DEF Lower
<1> HIDE DEF allowed
<1>9. lever = IF allowed < P[16].min THEN P[17].min ELSE allowed BY DEF Recommended, allowed
<1>10. lever \in lo..hi BY <1>5, <1>6, <1>8, <1>9
<1>11. ASSUME lever > floor
       PROVE  /\ lever * FarthestStop(in) * 100 <= 35 * in.price
              /\ (\A r \in U : FreshCritical(in, r)) => lever <= critical
  <2>1. lever \in Int /\ lever <= riskMax /\ floor < riskMax
    BY <1>11, <1>5, <1>6, <1>8, <1>9, <1>10
  <2>2. riskMax <= whole
    <3>1. CASE P[13] = P[14]
      <4>1. riskMax <= atLeast BY <3>1, <1>3, <1>4, <1>5
      <4> QED BY <4>1, <2>1, <1>3, <1>5, <1>6
    <3>2. CASE P[1] = P[13] /\ P[12] = P[13]
      <4>1. P[13].max * Unit \in Int /\ whole * Unit <= P[13].max * Unit
        BY <3>2, <1>1, <1>3, <1>5 DEF Unit
      <4>2. whole <= P[13].max BY <4>1, <1>3, <1>5 DEF Unit
      <4>3. P[12].min <= P[13].max
        <5>1. P[12].min <= P[12].max BY <1>2
        <5> QED BY <5>1, <3>2
      <4>4. ~ (atLeast > P[13].max) BY <4>2, <4>3, <1>3, <1>5
      <4>5. riskMax = atLeast BY <4>4, <1>4
      <4> QED BY <4>5, <2>1, <1>3, <1>5, <1>6
    <3> QED BY <3>1, <3>2 DEF Sees
  <2>3. lever * Unit <= x
    <3>1. lever <= whole BY <2>1, <2>2, <1>3, <1>6
    <3> QED BY <3>1, <2>1, <1>3 DEF Unit
  <2>4. lever * FarthestStop(in) * 100 <= 35 * in.price
    <3>1. PICK F \in Nat : F = FarthestStop(in) BY FarthestIsNat
    <3>2. PICK price \in Nat : price = in.price /\ price > 0 BY DEF Situated
    <3>3. CASE ~ HasStop(in)
      <4>1. F = 0 BY <3>1, <3>2, <3>3 DEF HasStop
      <4>2. lever * F * 100 = 0 BY <4>1, <2>1
      <4> QED BY <4>2, <3>1, <3>2
    <3>4. CASE HasStop(in)
      <4>1. x * F <= 35000 * price BY <3>1, <3>2, <3>4, <1>1
      <4>2. (lever * Unit) * F <= x * F BY <2>3, <2>1 DEF Unit
      <4>3. PICK z \in Int : z = lever * F BY <2>1
      <4>4. (lever * Unit) * F = 100000 * z BY <4>3, <2>1 DEF Unit
      <4>5. x * F \in Int OBVIOUS
      <4>6. 100000 * z <= 35000 * price BY <4>1, <4>2, <4>4, <4>5
      <4>7. z * 100 <= 35 * price BY <4>6
      <4> QED BY <4>7, <4>3, <3>1, <3>2
    <3> QED BY <3>3, <3>4
  <2>5. ASSUME \A r \in U : FreshCritical(in, r) PROVE lever <= critical
    <3>1. FreshCritical(in, P[2]) BY <2>5, PolicyFacts
    <3>2. PICK c \in Int : c = P[4].criticalMax /\ c <= critical BY <1>2
    <3>3. lever * Unit <= c * Unit BY <3>1, <3>2, <2>1, <2>3, <1>1 DEF Unit
    <3> QED BY <3>2, <3>3, <2>1 DEF Unit
  <2> QED BY <2>4, <2>5
<1> QED BY <1>10, <1>11

(***************************************************************************)
(* The size.                                                               *)
(***************************************************************************)
\* Rounding to hundredths never passes the hundredth the start rounds to.
LEMMA SharesStayBelow ==
  ASSUME NEW y \in Nat, NEW k \in Nat, y <= k * Fine + 499, NEW percent \in 0..100
  PROVE  /\ RoundedShare(y, percent) \in Nat
         /\ RoundedShare(y, percent) <= k * Fine + 499
<1>1. PICK z \in Nat : z = Share(y, percent) /\ z <= y BY ShareIsLess
<1>2. PICK d \in Int : d = (z + 500) \div 1000 OBVIOUS
<1>3. 0 <= d /\ d <= k BY <1>1, <1>2 DEF Fine
<1>4. RoundedShare(y, percent) = d * 1000 BY <1>1, <1>2 DEF RoundedShare, Round2, Fine
<1> QED BY <1>3, <1>4 DEF Fine

LEMMA AllocationIs ==
  ASSUME NEW in, Situated(in), NEW P, NEW U, Sees(P, U),
         NEW lever \in Nat, lever > 0, NEW riskMax,
         NEW largest \in Int, NEW risk \in Int,
         \A r \in U : r.maxAllocation <= largest /\ r.riskPerTrade <= risk,
         NEW size, size = Allocation(in, lever, riskMax, P),
         size > MinRiskSizedAllocation
  PROVE  /\ size <= largest
         /\ (\A r \in U : r.riskPerTrade > 0) =>
              size * lever * FarthestStop(in) <= risk * in.price + lever * FarthestStop(in)
<1> DEFINE sized == Sized(in, lever, P)
           capped == Lower(sized, P[19].maxAllocation * Fine)
           sure == IF in.confidence < 65 THEN RoundedShare(capped, 70) ELSE capped
           allowed == IF riskMax <= P[20].min THEN RoundedShare(sure, 80) ELSE sure
           reduced == IF in.dataOK THEN allowed ELSE RoundedShare(allowed, 70)
           floored == IF P[21].riskPerTrade > 0 THEN Higher(reduced, MinRiskSizedAllocation * Fine)
                      ELSE reduced
<1>1. size = IF in.allocation <= 0 THEN 0 ELSE Round2(floored) \div Fine BY DEF Allocation
<1>2. in.allocation \in Int /\ in.allocation > 0
  BY <1>1 DEF MinRiskSizedAllocation, Situated
<1>3. PICK F \in Nat : F = FarthestStop(in) BY FarthestIsNat
<1>4. PICK price \in Nat : price = in.price /\ price > 0 BY DEF Situated
<1>5. PICK r \in Nat : r = P[18].riskPerTrade /\ r <= risk BY PolicyFacts
<1>6. PICK m \in Nat : m = P[19].maxAllocation /\ m <= largest BY PolicyFacts
<1>7. /\ sized \in Nat
      /\ r > 0 /\ F > 0 => sized * (lever * F) <= 1000 * (r * price)
  <2>1. CASE r > 0 /\ HasStop(in)
    <3>1. F > 0 BY <1>3, <2>1 DEF HasStop
    <3>2. PICK g \in Nat : g = lever * F /\ g > 0 BY <3>1
    <3>3. PICK b \in Nat : b = 1000 * (r * price) OBVIOUS
    <3>4. sized = b \div g
      <4>1. r * Fine * in.price = b BY <1>4, <3>3 DEF Fine
      <4> QED BY <4>1, <1>3, <1>5, <2>1, <3>2 DEF Sized, RiskSized
    <3>5. b \div g \in Int /\ g * (b \div g) <= b /\ b < g * (b \div g) + g
      BY <3>2, Quotient
    <3>6. PICK q \in Int : q = b \div g BY <3>5
    <3>7. g * q <= b /\ b < g * q + g BY <3>5, <3>6
    <3>8. q >= 0
      <4> SUFFICES ASSUME q <= -1 PROVE FALSE BY <3>6
      <4>1. g * q <= g * (-1) BY <3>2
      <4>2. g * q \in Int OBVIOUS
      <4> QED BY <4>1, <4>2, <3>7
    <3>9. sized = q /\ q * (lever * F) = g * q BY <3>2, <3>4, <3>6
    <3> QED BY <3>3, <3>7, <3>8, <3>9
  <2>2. CASE ~ (r > 0 /\ HasStop(in))
    <3>1. sized = in.allocation * Fine BY <1>5, <2>2 DEF Sized
    <3>2. sized \in Nat BY <3>1, <1>2 DEF Fine
    <3>3. ~ (r > 0 /\ F > 0) BY <2>2, <1>3, <1>4 DEF HasStop
    <3> QED BY <3>2, <3>3
  <2> QED BY <2>1, <2>2
<1> HIDE DEF sized
<1>8. capped \in Nat /\ capped <= sized /\ capped <= m * 1000
  BY <1>6, <1>7 DEF Lower, Fine
<1> HIDE DEF capped
<1>9. PICK k \in Nat : k = (capped + 500) \div 1000 BY <1>8
<1>10. capped <= k * Fine + 499 /\ k * 1000 <= capped + 500 /\ k <= m
  BY <1>8, <1>9 DEF Fine
<1>11. sure \in Nat /\ sure <= k * Fine + 499
  <2>1. 70 \in 0..100 OBVIOUS
  <2>2. RoundedShare(capped, 70) \in Nat /\ RoundedShare(capped, 70) <= k * Fine + 499
    BY <2>1, <1>8, <1>10, SharesStayBelow
  <2> QED BY <2>2, <1>8, <1>10
<1> HIDE DEF sure
<1>12. allowed \in Nat /\ allowed <= k * Fine + 499
  <2>1. 80 \in 0..100 OBVIOUS
  <2>2. RoundedShare(sure, 80) \in Nat /\ RoundedShare(sure, 80) <= k * Fine + 499
    BY <2>1, <1>11, SharesStayBelow
  <2> QED BY <2>2, <1>11
<1> HIDE DEF allowed
<1>13. reduced \in Nat /\ reduced <= k * Fine + 499
  <2>1. 70 \in 0..100 OBVIOUS
  <2>2. RoundedShare(allowed, 70) \in Nat /\ RoundedShare(allowed, 70) <= k * Fine + 499
    BY <2>1, <1>12, SharesStayBelow
  <2> QED BY <2>2, <1>12
<1> HIDE DEF reduced
<1>14. size \in Nat /\ size <= k
  <2>1. floored \in Nat /\ (floored = reduced \/ floored = 50000)
    BY <1>13 DEF Higher, MinRiskSizedAllocation, Fine
  <2>2. \A y \in Nat : Round2(y) \div Fine = (y + 500) \div 1000 BY DEF Round2, Fine
  <2>3. size = (floored + 500) \div 1000 BY <1>1, <1>2, <2>1, <2>2
  <2>4. floored # 50000 BY <2>3 DEF MinRiskSizedAllocation
  <2>5. floored = reduced BY <2>1, <2>4
  <2> HIDE DEF floored
  <2> QED BY <2>3, <2>5, <1>13 DEF Fine
<1>15. size <= largest BY <1>6, <1>10, <1>14
<1>16. ASSUME \A p \in U : p.riskPerTrade > 0
       PROVE  size * lever * F <= risk * price + lever * F
  <2>1. r > 0 BY <1>5, <1>16, PolicyFacts
  <2>2. r * price <= risk * price BY <1>4, <1>5
  <2>3. PICK a \in Int : a = r * price OBVIOUS
  <2>4. PICK b \in Int : b = risk * price OBVIOUS
  <2>5. PICK g \in Nat : g = lever * F OBVIOUS
  <2>6. size * lever * F = size * g BY <2>5, <1>14
  <2>7. CASE F = 0
    <3>1. g = 0 BY <2>5, <2>7
    <3>2. size * g = 0 BY <3>1, <1>14
    <3>3. 0 <= a BY <2>3
    <3> QED BY <2>2, <2>3, <2>4, <2>5, <2>6, <3>1, <3>2, <3>3
  <2>8. CASE F > 0
    <3>1. sized * g <= 1000 * a BY <1>7, <2>1, <2>3, <2>5, <2>8
    <3>2. size * 1000 <= sized + 500 BY <1>7, <1>8, <1>10, <1>14
    <3>3. (size * 1000) * g <= (sized + 500) * g BY <3>2, <1>7, <1>14
    <3>4. PICK c \in Int : c = size * g BY <1>14
    <3>5. PICK d \in Int : d = sized * g BY <1>7
    <3>6. (size * 1000) * g = 1000 * c /\ (sized + 500) * g = d + 500 * g
      BY <3>4, <3>5, <1>7, <1>14
    <3>7. 1000 * c <= 1000 * a + 500 * g BY <3>1, <3>3, <3>5, <3>6
    <3>8. c <= a + g BY <3>7
    <3> QED BY <2>2, <2>3, <2>4, <2>5, <2>6, <3>4, <3>8
  <2> QED BY <2>7, <2>8
<1> QED BY <1>3, <1>4, <1>15, <1>16

(***************************************************************************)
(* Assess.                                                                 *)
(***************************************************************************)
Bounded(in, given, under) ==
  LET lever == given.leverage
      cost == given.allocation * lever * FarthestStop(in)
  IN IF in.action \notin Entries THEN lever = 0 /\ given.allocation = 0
     ELSE /\ lever \in Min({p.min : p \in under})..Max({p.max : p \in under})
          /\ lever > Floor(under) =>
               /\ lever * FarthestStop(in) * 100 <= MaxLossOnMarginPct * in.price
               /\ (\A p \in under : FreshCritical(in, p)) =>
                    lever <= Max({p.criticalMax : p \in under})
          /\ given.allocation > MinRiskSizedAllocation =>
               /\ given.allocation <= Max({p.maxAllocation : p \in under})
               /\ (\A p \in under : p.riskPerTrade > 0) =>
                    cost <= Max({p.riskPerTrade : p \in under}) * in.price
                              + lever * FarthestStop(in)

\* A snapshot has the fields a proposal is written into.
SituationFields ==
  {"action", "confidence", "leverage", "allocation", "risk", "price", "stops"}

LEMMA ProposalSituated ==
  ASSUME NEW plan, PlanShape(plan), NEW seen, SituationFields \subseteq DOMAIN seen
  PROVE  /\ Situated(Proposal(plan, seen))
         /\ Proposal(plan, seen).action = plan.action
<1> DEFINE in == Proposal(plan, seen)
<1>1. /\ in.price = Price /\ in.leverage = plan.leverage /\ in.allocation = plan.allocation
      /\ in.action = plan.action
      /\ in.stops = {plan.stops[i].price : i \in DOMAIN plan.stops}
  BY DEF Proposal, SituationFields
<1> HIDE DEF in
<1>2. PICK n \in Nat : Listed(plan.stops, n) BY DEF PlanShape
<1>3. PICK D : D = 1..n OBVIOUS
<1> DEFINE f == [i \in D |-> plan.stops[i].price]
<1>4. DOMAIN plan.stops = D /\ \A i \in D : f[i] \in Int BY <1>2, <1>3 DEF Listed
<1>5. in.stops = {f[i] : i \in D} BY <1>1, <1>4
<1>6. IsFiniteSet(D) BY <1>3, FS_Interval
<1>7. DOMAIN f = D /\ f = [i \in D |-> f[i]] OBVIOUS
<1> HIDE DEF f
<1>8. IsFiniteSet(in.stops) BY <1>5, <1>6, <1>7, ImageFinite
<1>9. in.stops \subseteq Int BY <1>4, <1>5
<1>10. plan.leverage \in Int /\ plan.allocation \in Int BY DEF PlanShape
<1> QED BY <1>1, <1>8, <1>9, <1>10, PositivePrice DEF Situated, in

LEMMA AssessIsBounded ==
  ASSUME NEW in, Situated(in),
         NEW p \in Policies, NEW q \in Policies, NEW cut \in 0..Reads, cut = Reads <=> q = p
  PROVE  Bounded(in, Evaluate(in, Seen(p, q, cut)), {p, q})
<1> DEFINE U == {p, q}
           P == Seen(p, q, cut)
           given == Evaluate(in, P)
           riskMax == RiskMaximum(Capped(in, P), P)
           lever == Recommended(in, riskMax, P)
<1>1. Sees(P, U)
  <2>1. P \in [1..Reads -> U] BY DEF Seen
  <2>2. cut \in Int /\ Reads = 28 BY DEF Reads
  <2>3. CASE cut >= 13
    <3>1. P[1] = p /\ P[12] = p /\ P[13] = p BY <2>2, <2>3 DEF Seen
    <3> QED BY <2>1, <3>1 DEF Sees
  <2>4. CASE cut < 13
    <3>1. P[13] = q /\ P[14] = q BY <2>2, <2>4 DEF Seen
    <3> QED BY <2>1, <3>1 DEF Sees
  <2> QED BY <2>2, <2>3, <2>4
<1> HIDE DEF P
<1>2. in.action \notin Entries => given.leverage = 0 /\ given.allocation = 0
  BY DEF Evaluate, Entries
<1>3. in.action \in Entries => /\ given.leverage = lever
                               /\ given.allocation = Allocation(in, lever, riskMax, P)
  BY DEF Evaluate, Capped, Entries
<1> HIDE DEF given, riskMax
<1>4. SUFFICES ASSUME in.action \in Entries PROVE Bounded(in, given, U)
  BY <1>2 DEF Bounded, given, P
<1> DEFINE lo == Min({r.min : r \in U})
           floor == Max({r.min : r \in U})
           hi == Max({r.max : r \in U})
           critical == Max({r.criticalMax : r \in U})
           largest == Max({r.maxAllocation : r \in U})
           risk == Max({r.riskPerTrade : r \in U})
<1>5. ASSUME NEW r \in Policies
      PROVE  /\ r.min \in Int /\ r.max \in Int /\ r.criticalMax \in Int /\ 1 <= r.min
             /\ r.maxAllocation \in Int /\ r.riskPerTrade \in Int
  <2>1. {r.min, r.max, r.criticalMax, r.criticalHighVolMax} \subseteq 1..125
    BY PoliciesAreValid
  <2>2. r.min \in Int /\ r.max \in Int /\ r.criticalMax \in Int /\ 1 <= r.min BY <2>1
  <2>3. r.riskPerTrade \in Nat /\ r.maxAllocation \in Nat BY PoliciesAreValid
  <2> QED BY <2>2, <2>3
<1>6. lo \in Int /\ floor \in Int /\ 1 <= lo /\ \A r \in U : lo <= r.min /\ r.min <= floor
  <2>1. {r.min : r \in U} = {p.min, q.min} OBVIOUS
  <2>2. PICK a \in Int : a = p.min BY <1>5
  <2>3. PICK b \in Int : b = q.min BY <1>5
  <2>4. /\ Max({a, b}) \in {a, b} /\ a <= Max({a, b}) /\ b <= Max({a, b})
        /\ Min({a, b}) \in {a, b} /\ Min({a, b}) <= a /\ Min({a, b}) <= b
    BY PairMinMax
  <2> QED BY <2>1, <2>2, <2>3, <2>4, <1>5
<1>7. hi \in Int /\ \A r \in U : r.max <= hi
  <2>1. {r.max : r \in U} = {p.max, q.max} OBVIOUS
  <2>2. PICK a \in Int : a = p.max BY <1>5
  <2>3. PICK b \in Int : b = q.max BY <1>5
  <2>4. /\ Max({a, b}) \in {a, b} /\ a <= Max({a, b}) /\ b <= Max({a, b})
        /\ Min({a, b}) \in {a, b} /\ Min({a, b}) <= a /\ Min({a, b}) <= b
    BY PairMinMax
  <2> QED BY <2>1, <2>2, <2>3, <2>4, <1>5
<1>8. critical \in Int /\ \A r \in U : r.criticalMax <= critical
  <2>1. {r.criticalMax : r \in U} = {p.criticalMax, q.criticalMax} OBVIOUS
  <2>2. PICK a \in Int : a = p.criticalMax BY <1>5
  <2>3. PICK b \in Int : b = q.criticalMax BY <1>5
  <2>4. /\ Max({a, b}) \in {a, b} /\ a <= Max({a, b}) /\ b <= Max({a, b})
        /\ Min({a, b}) \in {a, b} /\ Min({a, b}) <= a /\ Min({a, b}) <= b
    BY PairMinMax
  <2> QED BY <2>1, <2>2, <2>3, <2>4, <1>5
<1>9. largest \in Int /\ \A r \in U : r.maxAllocation <= largest
  <2>1. {r.maxAllocation : r \in U} = {p.maxAllocation, q.maxAllocation} OBVIOUS
  <2>2. PICK a \in Int : a = p.maxAllocation BY <1>5
  <2>3. PICK b \in Int : b = q.maxAllocation BY <1>5
  <2>4. /\ Max({a, b}) \in {a, b} /\ a <= Max({a, b}) /\ b <= Max({a, b})
        /\ Min({a, b}) \in {a, b} /\ Min({a, b}) <= a /\ Min({a, b}) <= b
    BY PairMinMax
  <2> QED BY <2>1, <2>2, <2>3, <2>4, <1>5
<1>10. risk \in Int /\ \A r \in U : r.riskPerTrade <= risk
  <2>1. {r.riskPerTrade : r \in U} = {p.riskPerTrade, q.riskPerTrade} OBVIOUS
  <2>2. PICK a \in Int : a = p.riskPerTrade BY <1>5
  <2>3. PICK b \in Int : b = q.riskPerTrade BY <1>5
  <2>4. /\ Max({a, b}) \in {a, b} /\ a <= Max({a, b}) /\ b <= Max({a, b})
        /\ Min({a, b}) \in {a, b} /\ Min({a, b}) <= a /\ Min({a, b}) <= b
    BY PairMinMax
  <2> QED BY <2>1, <2>2, <2>3, <2>4, <1>5
<1> HIDE DEF lo, floor, hi, critical, largest, risk, lever, U
<1>11. /\ lever \in lo..hi
       /\ lever > floor =>
              /\ lever * FarthestStop(in) * 100 <= 35 * in.price
              /\ (\A r \in U : FreshCritical(in, r)) => lever <= critical
  <2>1. LeverageBounds(U, lo, hi, floor, critical) BY <1>6, <1>7, <1>8 DEF LeverageBounds
  <2>2. riskMax = RiskMaximum(Capped(in, P), P) /\ lever = Recommended(in, riskMax, P)
    BY DEF riskMax, lever
  <2> QED BY <1>1, <2>1, <2>2, LeverageIs
<1>12. lever \in Nat /\ lever > 0 BY <1>6, <1>7, <1>11
<1> DEFINE size == Allocation(in, lever, riskMax, P)
<1>13. size > MinRiskSizedAllocation =>
         /\ size <= largest
         /\ (\A r \in U : r.riskPerTrade > 0) =>
              size * lever * FarthestStop(in) <= risk * in.price + lever * FarthestStop(in)
  <2>1. \A r \in U : r.maxAllocation <= largest /\ r.riskPerTrade <= risk BY <1>9, <1>10
  <2> QED BY <1>1, <2>1, <1>9, <1>10, <1>12, AllocationIs
<1>14. given.leverage = lever /\ given.allocation = size BY <1>3, <1>4
<1> HIDE DEF size
<1> QED BY <1>4, <1>11, <1>13, <1>14
     DEF Bounded, Floor, lo, floor, hi, critical, largest, risk, MaxLossOnMarginPct

(***************************************************************************)
(* Grading: the minutes of a market m that reached a level, and what may   *)
(* be said of them on the evidence ev, for a coarse series that begins     *)
(* after e minutes.                                                        *)
(***************************************************************************)
Markets == Seq([low: Int, high: Int, close: Int])

Recorded(rec) ==
  /\ DOMAIN rec.profits \subseteq Nat /\ DOMAIN rec.stops \subseteq Nat
  /\ \A i \in DOMAIN rec.profits : rec.profits[i] \in Int
  /\ \A i \in DOMAIN rec.stops : rec.stops[i] \in Int

Gains(m, rec) == {k \in DOMAIN m : ProfitOf(FineBar(m, k), rec) # Missing}
Losses(m, rec) == {k \in DOMAIN m : StopOf(FineBar(m, k), rec) # Missing}
Hits(m, rec) == Gains(m, rec) \cup Losses(m, rec)
Candle(e, i) == Minutes(e, 1 + (i - 1 - e) \div PerCoarse)

Leads(i, m, e, ev, rec) ==
  /\ i \in ev.used \cap Hits(m, rec)
  /\ \A k \in ev.used \cap Hits(m, rec) : k < i => k \in Candle(e, i) \ ev.fine
Wins(i, m, e, ev, rec, mine, theirs) ==
  /\ Leads(i, m, e, ev, rec) /\ i \in mine
  /\ \/ i \in ev.fine \ theirs
     \/ Candle(e, i) \subseteq ev.used \ theirs
Told(i, m, e, ev, rec) == Candle(e, i) \cap ev.fine \cap Hits(m, rec)
Undecided(i, m, e, ev, rec) ==
  /\ Leads(i, m, e, ev, rec)
  /\ Candle(e, i) \cap Gains(m, rec) # {} /\ Candle(e, i) \cap Losses(m, rec) # {}
  /\ \A k \in Told(i, m, e, ev, rec) :
       k \in Gains(m, rec) \cap Losses(m, rec) \/ \E f \in Told(i, m, e, ev, rec) : f < k

ProfitFirst(m, e, ev, rec) ==
  \E i \in DOMAIN m : Wins(i, m, e, ev, rec, Gains(m, rec), Losses(m, rec))
StopFirst(m, e, ev, rec) ==
  \E i \in DOMAIN m : Wins(i, m, e, ev, rec, Losses(m, rec), Gains(m, rec))
BothWays(m, e, ev, rec) == \E i \in DOMAIN m : Undecided(i, m, e, ev, rec)
NoneReached(m, ev, rec) == ev.used \cap Hits(m, rec) = {}

\* What an outcome may say.
Truth(o, m, e, ev, rec) ==
  /\ o.status = "tp_hit" => ProfitFirst(m, e, ev, rec)
  /\ o.status = "sl_hit" => StopFirst(m, e, ev, rec)
  /\ o.status = "ambiguous" => BothWays(m, e, ev, rec)
  /\ o.status = "neither" => NoneReached(m, ev, rec)

Reaches(bar, price, above) == IF above THEN bar.high >= price ELSE bar.low <= price

LEMMA TouchedIs ==
  ASSUME NEW bar, NEW prices, DOMAIN prices \subseteq Nat, NEW above
  PROVE  FirstTouched(bar, prices, above) # Missing
           <=> \E i \in DOMAIN prices : Reaches(bar, prices[i], above)
<1> DEFINE touched == {i \in DOMAIN prices : Reaches(bar, prices[i], above)}
<1>1. FirstTouched(bar, prices, above) = IF touched = {} THEN Missing ELSE Min(touched)
  BY DEF FirstTouched, Reaches
<1>2. touched # {} => Min(touched) \in Nat
  <2>1. touched \subseteq Nat OBVIOUS
  <2> HIDE DEF touched
  <2> QED BY <2>1, LeastOf
<1>3. touched # {} => Min(touched) # Missing BY <1>2, MissingIsNoNumber
<1>4. touched # {} <=> \E i \in DOMAIN prices : Reaches(bar, prices[i], above) OBVIOUS
<1> HIDE DEF touched
<1> QED BY <1>1, <1>3, <1>4

\* The places of a coarse bar.
LEMMA MinutesAre ==
  ASSUME NEW e \in Nat, NEW j \in Nat, j >= 1
  PROVE  /\ \E a \in Nat : /\ a = (j - 1) * PerCoarse /\ j * PerCoarse = a + PerCoarse
                           /\ Minutes(e, j) = (e + a + 1)..(e + a + PerCoarse)
         /\ Minutes(e, j) # {} /\ IsFiniteSet(Minutes(e, j))
         /\ Minutes(e, j) \subseteq Nat \ {0}
         /\ \A k \in Minutes(e, j) : Candle(e, k) = Minutes(e, j)
<1>1. PerCoarse \in Nat /\ PerCoarse > 0 BY SomeFineBars
<1>2. PICK a \in Nat : a = (j - 1) * PerCoarse BY <1>1
<1>3. j * PerCoarse = a + PerCoarse BY <1>1, <1>2
<1>4. Minutes(e, j) = (e + a + 1)..(e + a + PerCoarse)
  <2>1. Minutes(e, j) = (e + a + 1)..(e + (a + PerCoarse)) BY <1>2, <1>3 DEF Minutes
  <2>2. e + (a + PerCoarse) = e + a + PerCoarse BY <1>1
  <2> QED BY <2>1, <2>2
<1>5. e + a + 1 \in Int /\ e + a + PerCoarse \in Int BY <1>1
<1>6. IsFiniteSet((e + a + 1)..(e + a + PerCoarse)) BY <1>5, FS_Interval
<1>7. e + a + 1 \in (e + a + 1)..(e + a + PerCoarse) BY <1>1
<1>8. \A k \in (e + a + 1)..(e + a + PerCoarse) : k \in Nat \ {0} BY <1>1
<1>9. ASSUME NEW k \in Minutes(e, j) PROVE Candle(e, k) = Minutes(e, j)
  <2>1. k \in Int /\ a <= k - 1 - e /\ k - 1 - e < a + PerCoarse BY <1>1, <1>4
  <2>2. PICK b \in Int : b = k - 1 - e BY <2>1
  <2>3. PICK d \in Int : d = b \div PerCoarse BY <1>1, <2>2
  <2>4. PerCoarse * d <= b /\ b < PerCoarse * d + PerCoarse
    <3>1. PerCoarse \in Int BY <1>1
    <3> QED BY <3>1, <1>1, <2>3, Quotient
  <2>5. ~ (d < j - 1)
    <3> SUFFICES ASSUME d + 1 <= j - 1 PROVE FALSE BY <2>3
    <3>1. PerCoarse * (d + 1) <= PerCoarse * (j - 1) BY <1>1
    <3>2. /\ PerCoarse * (d + 1) = PerCoarse * d + PerCoarse /\ PerCoarse * d \in Int
          /\ PerCoarse * (j - 1) = a
      BY <1>1, <1>2
    <3> QED BY <3>1, <3>2, <2>1, <2>2, <2>4, <1>1
  <2>6. ~ (j - 1 < d)
    <3> SUFFICES ASSUME j <= d PROVE FALSE BY <2>3
    <3>1. PerCoarse * j <= PerCoarse * d BY <1>1
    <3>2. PerCoarse * j = a + PerCoarse /\ PerCoarse * d \in Int BY <1>1, <1>3
    <3> QED BY <3>1, <3>2, <2>1, <2>2, <2>4, <1>1
  <2>7. 1 + d = j BY <2>3, <2>5, <2>6
  <2> QED BY <2>2, <2>3, <2>7 DEF Candle
<1> QED BY <1>2, <1>3, <1>4, <1>6, <1>7, <1>8, <1>9

LEMMA OwnCandle ==
  ASSUME NEW e \in Nat, NEW i \in Nat
  PROVE  i \in Candle(e, i)
<1>1. PerCoarse \in Int /\ PerCoarse > 0 BY SomeFineBars
<1>2. PICK b \in Int : b = i - 1 - e OBVIOUS
<1>3. PICK d \in Int : d = b \div PerCoarse BY <1>1, <1>2
<1>4. PerCoarse * d <= b /\ b < PerCoarse * d + PerCoarse BY <1>1, <1>3, Quotient
<1>5. PICK a \in Int : a = PerCoarse * d BY <1>1
<1>6. ((1 + d) - 1) * PerCoarse = a /\ (1 + d) * PerCoarse = a + PerCoarse BY <1>1, <1>5
<1>7. Minutes(e, 1 + d) = (e + a + 1)..(e + (a + PerCoarse)) BY <1>6 DEF Minutes
<1>8. i \in (e + a + 1)..(e + (a + PerCoarse)) BY <1>1, <1>2, <1>4, <1>5
<1> QED BY <1>2, <1>3, <1>7, <1>8 DEF Candle

\* An earlier coarse bar is over before the next begins.
LEMMA MinutesAfter ==
  ASSUME NEW e \in Nat, NEW j \in Nat, j >= 1, NEW i \in Nat, i >= 1,
         e + (j - 1) * PerCoarse <= e + (i - 1) * PerCoarse,
         NEW k \in Minutes(e, i), NEW f \in Minutes(e, j), k < f
  PROVE  k \in Minutes(e, j)
<1>1. PerCoarse \in Nat BY SomeFineBars
<1>2. PICK a \in Nat : /\ a = (j - 1) * PerCoarse
                       /\ Minutes(e, j) = (e + a + 1)..(e + a + PerCoarse)
  BY MinutesAre
<1>3. PICK b \in Nat : /\ b = (i - 1) * PerCoarse
                       /\ Minutes(e, i) = (e + b + 1)..(e + b + PerCoarse)
  BY MinutesAre
<1>4. a <= b BY <1>2, <1>3
<1> QED BY <1>1, <1>2, <1>3, <1>4

\* The coarse bar reaches what one of its fine bars reaches.
LEMMA CoarseReaches ==
  ASSUME NEW m \in Markets, NEW e \in Nat, NEW j \in Nat, j >= 1, Minutes(e, j) \subseteq DOMAIN m,
         NEW price \in Int, NEW above \in BOOLEAN
  PROVE  Reaches(CoarseBar(m, e, j), price, above)
           <=> \E i \in Minutes(e, j) : Reaches(FineBar(m, i), price, above)
<1> DEFINE B == Minutes(e, j)
           low == [i \in B |-> m[i].low]
           high == [i \in B |-> m[i].high]
           lows == {low[i] : i \in B}
           highs == {high[i] : i \in B}
<1>1. \A i \in DOMAIN m : m[i] \in [low: Int, high: Int, close: Int]
  BY ElementOfSeq, LenProperties DEF Markets
<1>2. B # {} /\ IsFiniteSet(B) BY MinutesAre
<1>3. \A i \in B : low[i] \in Int /\ high[i] \in Int BY <1>1
<1>4. /\ lows = {m[i].low : i \in B} /\ highs = {m[i].high : i \in B}
      /\ \A i \in B : low[i] = m[i].low /\ high[i] = m[i].high
      /\ DOMAIN low = B /\ low = [i \in B |-> low[i]]
      /\ DOMAIN high = B /\ high = [i \in B |-> high[i]]
  OBVIOUS
<1>9. CoarseBar(m, e, j).low = Min(lows) /\ CoarseBar(m, e, j).high = Max(highs)
  BY <1>4 DEF CoarseBar
<1> HIDE DEF low, high, B
<1>5. IsFiniteSet(lows) /\ IsFiniteSet(highs) BY <1>2, <1>4, ImageFinite
<1>6. lows \subseteq Int /\ highs \subseteq Int /\ lows # {} /\ highs # {} BY <1>2, <1>3
<1>7. /\ \A i \in B : low[i] \in lows /\ high[i] \in highs
      /\ \A x \in lows : \E i \in B : x = low[i]
      /\ \A x \in highs : \E i \in B : x = high[i]
  OBVIOUS
<1> HIDE DEF lows, highs
<1>8. /\ Max(highs) \in highs /\ \A y \in highs : y <= Max(highs)
      /\ Min(lows) \in lows /\ \A y \in lows : Min(lows) <= y
  BY <1>5, <1>6, FiniteMinMax
<1>10. \A i \in B : FineBar(m, i).low = low[i] /\ FineBar(m, i).high = high[i]
  BY <1>4 DEF FineBar
<1>11. CASE above
  <2>1. Max(highs) >= price <=> \E i \in B : high[i] >= price
    <3>1. Max(highs) \in Int BY <1>6, <1>8
    <3>2. ASSUME Max(highs) >= price PROVE \E i \in B : high[i] >= price
      BY <3>2, <1>7, <1>8
    <3>3. ASSUME NEW i \in B, high[i] >= price PROVE Max(highs) >= price
      <4>1. high[i] \in Int /\ high[i] <= Max(highs) BY <1>3, <1>7, <1>8
      <4> QED BY <3>1, <3>3, <4>1
    <3> QED BY <3>2, <3>3
  <2> QED BY <2>1, <1>9, <1>10, <1>11 DEF Reaches, B
<1>12. CASE ~ above
  <2>1. Min(lows) <= price <=> \E i \in B : low[i] <= price
    <3>1. Min(lows) \in Int BY <1>6, <1>8
    <3>2. ASSUME Min(lows) <= price PROVE \E i \in B : low[i] <= price
      BY <3>2, <1>7, <1>8
    <3>3. ASSUME NEW i \in B, low[i] <= price PROVE Min(lows) <= price
      <4>1. low[i] \in Int /\ Min(lows) <= low[i] BY <1>3, <1>7, <1>8
      <4> QED BY <3>1, <3>3, <4>1
    <3> QED BY <3>2, <3>3
  <2> QED BY <2>1, <1>9, <1>10, <1>12 DEF Reaches, B
<1> QED BY <1>11, <1>12

LEMMA CoarseTouches ==
  ASSUME NEW m \in Markets, NEW e \in Nat, NEW j \in Nat, j >= 1, Minutes(e, j) \subseteq DOMAIN m,
         NEW prices, DOMAIN prices \subseteq Nat, \A i \in DOMAIN prices : prices[i] \in Int,
         NEW above \in BOOLEAN
  PROVE  FirstTouched(CoarseBar(m, e, j), prices, above) # Missing
           <=> \E k \in Minutes(e, j) : FirstTouched(FineBar(m, k), prices, above) # Missing
<1>1. FirstTouched(CoarseBar(m, e, j), prices, above) # Missing
        <=> \E i \in DOMAIN prices : Reaches(CoarseBar(m, e, j), prices[i], above)
  BY TouchedIs
<1>2. \A i \in DOMAIN prices : Reaches(CoarseBar(m, e, j), prices[i], above)
        <=> \E k \in Minutes(e, j) : Reaches(FineBar(m, k), prices[i], above)
  BY CoarseReaches
<1>3. \A k \in Minutes(e, j) : FirstTouched(FineBar(m, k), prices, above) # Missing
        <=> \E i \in DOMAIN prices : Reaches(FineBar(m, k), prices[i], above)
  BY TouchedIs
<1> QED BY <1>1, <1>2, <1>3

LEMMA CoarseTouchesBoth ==
  ASSUME NEW m \in Markets, NEW e \in Nat, NEW j \in Nat, j >= 1, Minutes(e, j) \subseteq DOMAIN m,
         NEW rec, Recorded(rec)
  PROVE  /\ ProfitOf(CoarseBar(m, e, j), rec) # Missing <=> Minutes(e, j) \cap Gains(m, rec) # {}
         /\ StopOf(CoarseBar(m, e, j), rec) # Missing <=> Minutes(e, j) \cap Losses(m, rec) # {}
<1>2. ProfitOf(CoarseBar(m, e, j), rec) # Missing
        <=> \E k \in Minutes(e, j) : ProfitOf(FineBar(m, k), rec) # Missing
  <2>1. PICK prices : prices = rec.profits OBVIOUS
  <2>2. PICK above \in BOOLEAN : above = (Sign(rec) = 1) OBVIOUS
  <2>3. DOMAIN prices \subseteq Nat /\ \A i \in DOMAIN prices : prices[i] \in Int
    BY <2>1 DEF Recorded
  <2>4. FirstTouched(CoarseBar(m, e, j), prices, above) # Missing
          <=> \E k \in Minutes(e, j) : FirstTouched(FineBar(m, k), prices, above) # Missing
    BY <2>3, CoarseTouches
  <2>5. \A bar : ProfitOf(bar, rec) = FirstTouched(bar, prices, above) BY <2>1, <2>2 DEF ProfitOf
  <2> QED BY <2>4, <2>5
<1>3. StopOf(CoarseBar(m, e, j), rec) # Missing
        <=> \E k \in Minutes(e, j) : StopOf(FineBar(m, k), rec) # Missing
  <2>1. PICK prices : prices = rec.stops OBVIOUS
  <2>2. PICK above \in BOOLEAN : above = (Sign(rec) = -1) OBVIOUS
  <2>3. DOMAIN prices \subseteq Nat /\ \A i \in DOMAIN prices : prices[i] \in Int
    BY <2>1 DEF Recorded
  <2>4. FirstTouched(CoarseBar(m, e, j), prices, above) # Missing
          <=> \E k \in Minutes(e, j) : FirstTouched(FineBar(m, k), prices, above) # Missing
    BY <2>3, CoarseTouches
  <2>5. \A bar : StopOf(bar, rec) = FirstTouched(bar, prices, above) BY <2>1, <2>2 DEF StopOf
  <2> QED BY <2>4, <2>5
<1> QED BY <1>2, <1>3 DEF Gains, Losses

\* The first bar of a series.
LEMMA EarliestIs ==
  ASSUME NEW S, S # {}, \A b \in S : b.from \in Nat
  PROVE  Earliest(S) \in S /\ \A b \in S : Earliest(S).from <= b.from
<1> DEFINE T == {b.from : b \in S}
<1>1. Min(T) \in T /\ \A y \in T : Min(T) <= y
  <2>1. T \subseteq Nat /\ T # {} OBVIOUS
  <2> HIDE DEF T
  <2> QED BY <2>1, LeastOf
<1>2. PICK c \in S : c.from = Min(T) BY <1>1
<1>3. \A o \in S : c.from <= o.from BY <1>1, <1>2
<1> QED BY <1>3 DEF Earliest

(***************************************************************************)
(* DetectHits.                                                             *)
(***************************************************************************)
\* What a detection may claim about a market.
Claim(hit, m, e, ev, rec) ==
  /\ hit.ambiguous => BothWays(m, e, ev, rec)
  /\ ~ hit.ambiguous /\ hit.sl # Missing => StopFirst(m, e, ev, rec)
  /\ ~ hit.ambiguous /\ hit.sl = Missing /\ hit.tp # Missing => ProfitFirst(m, e, ev, rec)
  /\ ~ hit.ambiguous /\ hit.sl = Missing /\ hit.tp = Missing => NoneReached(m, ev, rec)

LEMMA NoHitClaims ==
  ASSUME NEW m, NEW e, NEW ev, NEW rec, NoneReached(m, ev, rec)
  PROVE  Claim(NoHit, m, e, ev, rec)
BY DEF Claim, NoHit

\* A bar that went one way may be believed.
LEMMA OneWayClaims ==
  ASSUME NEW m, NEW e, NEW ev, NEW rec, NEW bar, ~ Both(bar, rec), Touches(bar, rec),
         ProfitOf(bar, rec) # Missing => ProfitFirst(m, e, ev, rec),
         StopOf(bar, rec) # Missing => StopFirst(m, e, ev, rec)
  PROVE  Claim(Hit(bar, rec, FALSE), m, e, ev, rec)
BY DEF Claim, Hit, Both, Touches

LEMMA OpenClaims ==
  ASSUME NEW m, NEW e, NEW ev, NEW rec, NEW bar, BothWays(m, e, ev, rec)
  PROVE  Claim(Hit(bar, rec, TRUE), m, e, ev, rec)
BY DEF Claim, Hit

FineSet(m, F) == {FineBar(m, i) : i \in F}
CoarseSet(m, e, C) == {CoarseBar(m, e, j) : j \in C}

LEMMA FineHits ==
  ASSUME NEW m, NEW F, F \subseteq DOMAIN m, NEW rec
  PROVE  \A i \in F : Touches(FineBar(m, i), rec) <=> i \in Hits(m, rec)
BY DEF Touches, Hits, Gains, Losses

\* The first of some fine bars that reached anything.
LEMMA EarliestFine ==
  ASSUME NEW m \in Markets, NEW I, I \subseteq DOMAIN m, I # {}, NEW rec
  PROVE  \E i \in I : Earliest(FineSet(m, I)) = FineBar(m, i) /\ \A k \in I : i <= k
<1> DEFINE S == FineSet(m, I)
<1>1. I \subseteq Nat \ {0} BY DEF Markets
<1>2. S # {} /\ \A b \in S : b.from \in Nat
  <2>1. \A i \in I : FineBar(m, i).from = i - 1 BY DEF FineBar
  <2>2. \A i \in I : i - 1 \in Nat BY <1>1
  <2> QED BY <2>1, <2>2 DEF FineSet
<1>3. PICK c : c = Earliest(S) OBVIOUS
<1> HIDE DEF S
<1>4. c \in S /\ \A b \in S : c.from <= b.from BY <1>2, <1>3, EarliestIs
<1>5. PICK i \in I : c = FineBar(m, i) BY <1>4 DEF S, FineSet
<1>6. ASSUME NEW k \in I PROVE i <= k
  <2>1. FineBar(m, k) \in S BY DEF S, FineSet
  <2>2. c.from <= FineBar(m, k).from BY <2>1, <1>4
  <2>3. c.from = i - 1 /\ FineBar(m, k).from = k - 1 BY <1>5 DEF FineBar
  <2> QED BY <2>2, <2>3, <1>1
<1> QED BY <1>3, <1>5, <1>6 DEF S

LEMMA FineClaims ==
  ASSUME NEW m \in Markets, NEW e \in Nat, NEW F, F \subseteq DOMAIN m, NEW rec,
         NEW ev, ev.fine = F, ev.used = F
  PROVE  Claim(DetectHits(FineSet(m, F), FineSet(m, F), rec), m, e, ev, rec)
<1> DEFINE S == FineSet(m, F)
           I == F \cap Hits(m, rec)
<1>1. F \subseteq Nat \ {0} BY DEF Markets
<1>2. Touching(S, rec) = FineSet(m, I) BY FineHits DEF Touching, FineSet
<1>3. CASE I = {}
  <2>1. Touching(S, rec) = {} BY <1>2, <1>3 DEF FineSet
  <2>2. DetectHits(S, S, rec) = NoHit BY <2>1 DEF DetectHits
  <2> QED BY <2>2, <1>3, NoHitClaims DEF NoneReached
<1>4. CASE I # {}
  <2>1. PICK i \in I : Earliest(FineSet(m, I)) = FineBar(m, i) /\ \A k \in I : i <= k
    <3>1. I \subseteq DOMAIN m OBVIOUS
    <3> HIDE DEF I
    <3> QED BY <3>1, <1>4, EarliestFine
  <2>2. PICK bar : bar = FineBar(m, i) OBVIOUS
  <2>3. bar.from = i - 1 /\ bar.to = i BY <2>2 DEF FineBar
  <2>4. Touching(S, rec) # {} /\ Earliest(Touching(S, rec)) = bar
    BY <1>2, <1>4, <2>1, <2>2 DEF FineSet
  <2>5. i \in F /\ i \in DOMAIN m /\ i \in Nat /\ Touches(bar, rec) BY <1>1, <2>1, <2>2, FineHits
  <2>6. Leads(i, m, e, ev, rec) BY <1>1, <2>1 DEF Leads
  <2>7. CASE ~ Both(bar, rec)
    <3>1. DetectHits(S, S, rec) = Hit(bar, rec, FALSE) BY <2>4, <2>7 DEF DetectHits
    <3>2. ProfitOf(bar, rec) # Missing => ProfitFirst(m, e, ev, rec)
      <4> SUFFICES ASSUME ProfitOf(bar, rec) # Missing PROVE ProfitFirst(m, e, ev, rec) OBVIOUS
      <4>1. i \in Gains(m, rec) /\ i \notin Losses(m, rec)
        BY <2>2, <2>5, <2>7 DEF Gains, Losses, Both
      <4> QED BY <4>1, <2>5, <2>6 DEF ProfitFirst, Wins
    <3>3. StopOf(bar, rec) # Missing => StopFirst(m, e, ev, rec)
      <4> SUFFICES ASSUME StopOf(bar, rec) # Missing PROVE StopFirst(m, e, ev, rec) OBVIOUS
      <4>1. i \in Losses(m, rec) /\ i \notin Gains(m, rec)
        BY <2>2, <2>5, <2>7 DEF Gains, Losses, Both
      <4> QED BY <4>1, <2>5, <2>6 DEF StopFirst, Wins
    <3> QED BY <3>1, <3>2, <3>3, <2>5, <2>7, OneWayClaims
  <2>8. CASE Both(bar, rec)
    <3> DEFINE inside == Touching({b \in S : bar.from <= b.from /\ b.from < bar.to}, rec)
    <3>1. \A b \in inside : b = bar
      <4> SUFFICES ASSUME NEW b \in S, bar.from <= b.from, b.from < bar.to PROVE b = bar
        BY DEF Touching
      <4>1. PICK k \in F : b = FineBar(m, k) BY DEF FineSet
      <4>2. b.from = k - 1 BY <4>1 DEF FineBar
      <4>3. k = i BY <4>2, <2>3, <2>5, <1>1
      <4> QED BY <4>1, <4>3, <2>2
    <3>2. \A b \in inside : b.from \in Nat BY <3>1, <2>3, <2>5, <1>1
    <3>3. inside # {} => Earliest(inside) = bar
      <4> HIDE DEF inside
      <4> QED BY <3>1, <3>2, EarliestIs
    <3>4. DetectHits(S, S, rec) = Hit(bar, rec, TRUE) BY <3>3, <2>4, <2>8 DEF DetectHits
    <3>5. i \in Gains(m, rec) \cap Losses(m, rec) BY <2>2, <2>5, <2>8 DEF Gains, Losses, Both
    <3>6. i \in Candle(e, i) BY <2>5, OwnCandle
    <3>7. i \in Told(i, m, e, ev, rec) BY <3>6, <2>1 DEF Told
    <3>8. ASSUME NEW k \in Told(i, m, e, ev, rec)
          PROVE  k \in Gains(m, rec) \cap Losses(m, rec) \/ \E f \in Told(i, m, e, ev, rec) : f < k
      <4>1. k \in I BY DEF Told
      <4>2. i <= k /\ k \in Nat BY <4>1, <2>1, <1>1
      <4>3. k = i \/ i < k BY <4>2, <2>5
      <4> QED BY <4>3, <3>5, <3>7
    <3>9. Undecided(i, m, e, ev, rec) BY <2>6, <3>5, <3>6, <3>8 DEF Undecided
    <3> QED BY <3>4, <3>9, <2>5, OpenClaims DEF BothWays
  <2> QED BY <2>7, <2>8
<1> QED BY <1>3, <1>4

\* A coarse bar is believed when it went one way, or when the fine bars that
\* are there show which way it went first.
LEMMA CoarseClaims ==
  ASSUME NEW m \in Markets, NEW e \in Nat, NEW F, F \subseteq DOMAIN m, NEW rec, Recorded(rec),
         NEW C, C \subseteq Nat \ {0}, \A j \in C : Minutes(e, j) \subseteq DOMAIN m,
         NEW ev, ev.fine = F, ev.used = UNION {Minutes(e, j) : j \in C}
  PROVE  Claim(DetectHits(CoarseSet(m, e, C), FineSet(m, F), rec), m, e, ev, rec)
<1> DEFINE S == CoarseSet(m, e, C)
           H == Hits(m, rec)
<1>1. \A j \in C : /\ ProfitOf(CoarseBar(m, e, j), rec) # Missing <=> Minutes(e, j) \cap Gains(m, rec) # {}
                   /\ StopOf(CoarseBar(m, e, j), rec) # Missing <=> Minutes(e, j) \cap Losses(m, rec) # {}
  BY CoarseTouchesBoth
<1>2. \A j \in C : Touches(CoarseBar(m, e, j), rec) <=> Minutes(e, j) \cap H # {}
  BY <1>1 DEF Touches, Hits
<1>3. CASE Touching(S, rec) = {}
  <2>1. DetectHits(S, FineSet(m, F), rec) = NoHit BY <1>3 DEF DetectHits
  <2>2. \A j \in C : Minutes(e, j) \cap H = {} BY <1>2, <1>3 DEF Touching, CoarseSet
  <2> QED BY <2>1, <2>2, NoHitClaims DEF NoneReached
<1>4. CASE Touching(S, rec) # {}
  <2>1. PICK bar : bar = Earliest(Touching(S, rec)) OBVIOUS
  <2>2. \A b \in Touching(S, rec) : b.from \in Nat
    <3> SUFFICES ASSUME NEW j \in C PROVE CoarseBar(m, e, j).from \in Nat
      BY DEF Touching, CoarseSet
    <3>1. PICK a \in Nat : a = (j - 1) * PerCoarse BY MinutesAre
    <3> QED BY <3>1 DEF CoarseBar
  <2>3. bar \in Touching(S, rec) /\ \A b \in Touching(S, rec) : bar.from <= b.from
    BY <1>4, <2>1, <2>2, EarliestIs
  <2>4. PICK j \in C : bar = CoarseBar(m, e, j) BY <2>3 DEF Touching, CoarseSet
  <2>5. Touches(bar, rec) BY <2>3 DEF Touching
  <2> DEFINE B == Minutes(e, j)
  <2>6. B \subseteq DOMAIN m /\ B \subseteq Nat \ {0} /\ B \subseteq ev.used
        /\ \A k \in B : Candle(e, k) = B
    <3>1. j \in Nat /\ j >= 1 OBVIOUS
    <3>2. B \subseteq Nat \ {0} /\ \A k \in B : Candle(e, k) = B BY <3>1, MinutesAre
    <3>3. B \subseteq DOMAIN m /\ B \subseteq ev.used OBVIOUS
    <3> QED BY <3>2, <3>3
  <2>7. bar.from = e + (j - 1) * PerCoarse /\ bar.to = e + j * PerCoarse BY <2>4 DEF CoarseBar
  <2>8. ASSUME NEW f \in B, NEW k \in ev.used \cap H, k < f
        PROVE  k \in B
    <3>1. PICK i \in C : k \in Minutes(e, i) BY <2>8
    <3>2. Touches(CoarseBar(m, e, i), rec) BY <3>1, <2>8, <1>2
    <3>3. CoarseBar(m, e, i) \in Touching(S, rec) BY <3>2 DEF Touching, CoarseSet
    <3>4. bar.from <= CoarseBar(m, e, i).from BY <3>3, <2>3
    <3>5. e + (j - 1) * PerCoarse <= e + (i - 1) * PerCoarse BY <3>4, <2>7 DEF CoarseBar
    <3>6. j \in Nat /\ j >= 1 /\ i \in Nat /\ i >= 1 OBVIOUS
    <3>7. f \in Minutes(e, j) /\ k < f BY <2>8
    <3> HIDE DEF B, S, H
    <3>8. k \in Minutes(e, j) BY <3>1, <3>5, <3>6, <3>7, MinutesAfter
    <3> QED BY <3>8 DEF B
  <2>9. B \cap H # {} BY <2>4, <2>5, <1>2
  <2>10. PICK i \in B \cap H : \A k \in B \cap H : i <= k
    <3> DEFINE T == B \cap H
    <3>1. T \subseteq Nat /\ T # {} BY <2>6, <2>9
    <3> HIDE DEF T
    <3>2. Min(T) \in T /\ \A k \in T : Min(T) <= k BY <3>1, LeastOf
    <3> QED BY <3>2 DEF T
  <2>11. Leads(i, m, e, ev, rec)
    <3> SUFFICES ASSUME NEW k \in ev.used \cap H, k < i PROVE FALSE BY <2>6, <2>10 DEF Leads
    <3>1. k \in B /\ i <= k BY <2>8, <2>10
    <3> QED BY <3>1, <2>6, <2>10
  <2>12. i \in DOMAIN m /\ Candle(e, i) = B BY <2>6, <2>10
  <2>13. CASE ~ Both(bar, rec)
    <3>1. DetectHits(S, FineSet(m, F), rec) = Hit(bar, rec, FALSE)
      BY <1>4, <2>1, <2>13 DEF DetectHits
    <3>2. ProfitOf(bar, rec) # Missing => ProfitFirst(m, e, ev, rec)
      <4> SUFFICES ASSUME ProfitOf(bar, rec) # Missing PROVE ProfitFirst(m, e, ev, rec) OBVIOUS
      <4>1. B \cap Losses(m, rec) = {} BY <1>1, <2>4, <2>13 DEF Both
      <4>2. i \in Gains(m, rec) BY <4>1, <2>10 DEF Hits
      <4>3. Candle(e, i) \subseteq ev.used \ Losses(m, rec) BY <4>1, <2>6, <2>12
      <4> QED BY <4>2, <4>3, <2>11, <2>12 DEF ProfitFirst, Wins
    <3>3. StopOf(bar, rec) # Missing => StopFirst(m, e, ev, rec)
      <4> SUFFICES ASSUME StopOf(bar, rec) # Missing PROVE StopFirst(m, e, ev, rec) OBVIOUS
      <4>1. B \cap Gains(m, rec) = {} BY <1>1, <2>4, <2>13 DEF Both
      <4>2. i \in Losses(m, rec) BY <4>1, <2>10 DEF Hits
      <4>3. Candle(e, i) \subseteq ev.used \ Gains(m, rec) BY <4>1, <2>6, <2>12
      <4> QED BY <4>2, <4>3, <2>11, <2>12 DEF StopFirst, Wins
    <3>4. Claim(Hit(bar, rec, FALSE), m, e, ev, rec) BY <3>2, <3>3, <2>5, <2>13, OneWayClaims
    <3> QED BY <3>1, <3>4
  <2>14. CASE Both(bar, rec)
    <3> DEFINE I == F \cap B \cap H
               inside == Touching({b \in FineSet(m, F) : bar.from <= b.from /\ b.from < bar.to}, rec)
    <3>1. B \cap Gains(m, rec) # {} /\ B \cap Losses(m, rec) # {} BY <1>1, <2>4, <2>14 DEF Both
    <3>2. inside = FineSet(m, I)
      <4>1. \A k \in F : (bar.from <= FineBar(m, k).from /\ FineBar(m, k).from < bar.to) <=> k \in B
        <5> SUFFICES ASSUME NEW k \in F
                     PROVE  (bar.from <= FineBar(m, k).from /\ FineBar(m, k).from < bar.to) <=> k \in B
          OBVIOUS
        <5>1. PICK a \in Nat : /\ a = (j - 1) * PerCoarse /\ j * PerCoarse = a + PerCoarse
                               /\ B = (e + a + 1)..(e + a + PerCoarse)
          BY MinutesAre
        <5>2. bar.from = e + a /\ bar.to = e + (a + PerCoarse) BY <5>1, <2>7
        <5>3. FineBar(m, k).from = k - 1 BY DEF FineBar
        <5>4. k \in Int /\ PerCoarse \in Int BY SomeFineBars DEF Markets
        <5> HIDE DEF B
        <5> QED BY <5>1, <5>2, <5>3, <5>4
      <4>2. \A k \in F : Touches(FineBar(m, k), rec) <=> k \in H BY FineHits
      <4> HIDE DEF B, H
      <4> QED BY <4>1, <4>2 DEF Touching, FineSet
    <3> HIDE DEF inside
    <3>3. Told(i, m, e, ev, rec) = I BY <2>12 DEF Told
    <3>4. DetectHits(S, FineSet(m, F), rec)
            = IF inside # {} /\ ~Both(Earliest(inside), rec) THEN Hit(Earliest(inside), rec, FALSE)
              ELSE Hit(bar, rec, TRUE)
      BY <1>4, <2>1, <2>14 DEF DetectHits, inside
    <3>5. CASE I = {}
      <4>1. inside = {} BY <3>2, <3>5 DEF FineSet
      <4>2. Undecided(i, m, e, ev, rec) BY <3>1, <3>3, <3>5, <2>11, <2>12 DEF Undecided
      <4>3. BothWays(m, e, ev, rec) BY <4>2, <2>12 DEF BothWays
      <4>4. Claim(Hit(bar, rec, TRUE), m, e, ev, rec) BY <4>3, OpenClaims
      <4> QED BY <4>1, <4>4, <3>4
    <3>6. CASE I # {}
      <4>1. PICK f \in I : Earliest(FineSet(m, I)) = FineBar(m, f) /\ \A k \in I : f <= k
        <5>1. I \subseteq DOMAIN m OBVIOUS
        <5> HIDE DEF I
        <5> QED BY <5>1, <3>6, EarliestFine
      <4>2. PICK sharp : sharp = FineBar(m, f) OBVIOUS
      <4>3. inside # {} /\ Earliest(inside) = sharp BY <3>2, <3>6, <4>1, <4>2 DEF FineSet
      <4>4. f \in F /\ f \in B /\ f \in H /\ f \in DOMAIN m /\ f \in Nat BY <4>1, <2>6
      <4>5. Candle(e, f) = B BY <4>4, <2>6
      <4>6. CASE ~ Both(sharp, rec)
        <5>1. DetectHits(S, FineSet(m, F), rec) = Hit(sharp, rec, FALSE) BY <3>4, <4>3, <4>6
        <5>2. Touches(sharp, rec) BY <4>2, <4>4, FineHits
        <5>3. Leads(f, m, e, ev, rec)
          <6> SUFFICES ASSUME NEW k \in ev.used \cap H, k < f PROVE k \in Candle(e, f) \ ev.fine
            BY <2>6, <4>4 DEF Leads
          <6>1. k \in B BY <4>4, <2>8
          <6>2. k \notin F
            <7> SUFFICES ASSUME k \in F PROVE FALSE OBVIOUS
            <7>1. k \in I /\ k \in Nat BY <6>1, <2>6
            <7> QED BY <7>1, <4>1, <4>4
          <6> QED BY <6>1, <6>2, <4>5
        <5>4. ProfitOf(sharp, rec) # Missing => ProfitFirst(m, e, ev, rec)
          <6> SUFFICES ASSUME ProfitOf(sharp, rec) # Missing PROVE ProfitFirst(m, e, ev, rec) OBVIOUS
          <6>1. f \in Gains(m, rec) /\ f \notin Losses(m, rec)
            BY <4>2, <4>4, <4>6 DEF Gains, Losses, Both
          <6> QED BY <6>1, <4>4, <5>3 DEF ProfitFirst, Wins
        <5>5. StopOf(sharp, rec) # Missing => StopFirst(m, e, ev, rec)
          <6> SUFFICES ASSUME StopOf(sharp, rec) # Missing PROVE StopFirst(m, e, ev, rec) OBVIOUS
          <6>1. f \in Losses(m, rec) /\ f \notin Gains(m, rec)
            BY <4>2, <4>4, <4>6 DEF Gains, Losses, Both
          <6> QED BY <6>1, <4>4, <5>3 DEF StopFirst, Wins
        <5>6. Claim(Hit(sharp, rec, FALSE), m, e, ev, rec)
          BY <5>2, <5>4, <5>5, <4>6, OneWayClaims
        <5> QED BY <5>1, <5>6
      <4>7. CASE Both(sharp, rec)
        <5>1. DetectHits(S, FineSet(m, F), rec) = Hit(bar, rec, TRUE) BY <3>4, <4>3, <4>7
        <5>2. f \in Gains(m, rec) \cap Losses(m, rec) BY <4>2, <4>4, <4>7 DEF Gains, Losses, Both
        <5>3. ASSUME NEW k \in I PROVE k \in Gains(m, rec) \cap Losses(m, rec) \/ \E g \in I : g < k
          <6>1. f <= k /\ k \in Nat BY <4>1, <2>6
          <6>2. k = f \/ f < k BY <6>1, <4>4
          <6> QED BY <6>2, <5>2, <4>1
        <5>4. Undecided(i, m, e, ev, rec) BY <3>1, <3>3, <5>3, <2>11, <2>12 DEF Undecided
        <5>5. BothWays(m, e, ev, rec) BY <5>4, <2>12 DEF BothWays
        <5>6. Claim(Hit(bar, rec, TRUE), m, e, ev, rec) BY <5>5, OpenClaims
        <5> QED BY <5>1, <5>6
      <4> QED BY <4>6, <4>7
    <3> QED BY <3>5, <3>6
  <2> QED BY <2>13, <2>14
<1> QED BY <1>3, <1>4

(***************************************************************************)
(* EvaluateOutcomes: an outcome says what the detection found.             *)
(***************************************************************************)
LEMMA OutcomeSays ==
  ASSUME NEW bars, NEW rec, Directed(rec), NEW m, NEW e, NEW ev, NEW hit, Claim(hit, m, e, ev, rec),
         bars = {} => hit = NoHit, NEW age,
         NEW new, new = EvaluatedOn(bars, rec, hit, age), new # Missing
  PROVE  /\ {"status", "final"} \subseteq DOMAIN new /\ Truth(new, m, e, ev, rec)
         /\ ~ new.final => new.status = "pending"
<1> DEFINE late == age > Day
           after == [t \in Offsets |-> PriceAfter(bars, t)]
           mfe == Favourable(bars, rec)
           mae == Adverse(bars, rec)
           base == [status |-> "pending", final |-> FALSE, result |-> "none", after |-> after,
                    tp |-> Missing, sl |-> Missing, mfe |-> mfe, mae |-> mae]
           graded == [base EXCEPT !.tp = hit.tp, !.sl = hit.sl]
<1>1. new = IF bars = {}
              THEN IF late THEN [base EXCEPT !.status = "neither", !.final = TRUE] ELSE Missing
            ELSE IF hit.ambiguous THEN [graded EXCEPT !.status = "ambiguous", !.final = TRUE]
            ELSE IF hit.sl # Missing
              THEN [graded EXCEPT !.status = "sl_hit", !.final = TRUE, !.result = "loss"]
            ELSE IF hit.tp # Missing
              THEN [graded EXCEPT !.status = "tp_hit", !.final = TRUE, !.result = "win"]
            ELSE IF late
              THEN [graded EXCEPT !.status = "neither", !.final = TRUE,
                                  !.result = Reading(rec, graded.after[Day])]
            ELSE graded
  BY DEF EvaluatedOn
<1> HIDE DEF late, after, mfe, mae
<1>2. DOMAIN base = {"status", "final", "result", "after", "tp", "sl", "mfe", "mae"}
      /\ base.status = "pending"
  OBVIOUS
<1> HIDE DEF base
<1>3. DOMAIN graded = {"status", "final", "result", "after", "tp", "sl", "mfe", "mae"}
      /\ graded.status = "pending"
  BY <1>2
<1> HIDE DEF graded
<1>4. /\ {"status", "final"} \subseteq DOMAIN new
      /\ new.status = "ambiguous" => hit.ambiguous
      /\ new.status = "sl_hit" => ~ hit.ambiguous /\ hit.sl # Missing
      /\ new.status = "tp_hit" => ~ hit.ambiguous /\ hit.sl = Missing /\ hit.tp # Missing
      /\ new.status = "neither" => ~ hit.ambiguous /\ hit.sl = Missing /\ hit.tp = Missing
      /\ ~ new.final => new.status = "pending"
  <2>1. CASE bars = {}
    <3>1. ~ hit.ambiguous /\ hit.sl = Missing /\ hit.tp = Missing BY <2>1 DEF NoHit
    <3> QED BY <2>1, <3>1, <1>1, <1>2
  <2>2. CASE bars # {} /\ hit.ambiguous BY <2>2, <1>1, <1>3
  <2>3. CASE bars # {} /\ ~ hit.ambiguous /\ hit.sl # Missing BY <2>3, <1>1, <1>3
  <2>4. CASE bars # {} /\ ~ hit.ambiguous /\ hit.sl = Missing /\ hit.tp # Missing
    BY <2>4, <1>1, <1>3
  <2>5. CASE bars # {} /\ ~ hit.ambiguous /\ hit.sl = Missing /\ hit.tp = Missing
    BY <2>5, <1>1, <1>3
  <2> QED BY <2>1, <2>2, <2>3, <2>4, <2>5
<1> QED BY <1>4 DEF Claim, Truth

\* Of an outcome that may still change nothing is claimed.
Tells(o, m, e, ev, rec) ==
  Truth(o, m, e, ev, rec) /\ (~ o.final => o.status = "pending")

LEMMA GradeIsTrue ==
  ASSUME NEW m \in Markets, NEW e \in Nat, NEW F, F \subseteq DOMAIN m,
         NEW rec, Recorded(rec), Directed(rec),
         NEW C, C \subseteq Nat \ {0}, \A j \in C : Minutes(e, j) \subseteq DOMAIN m, NEW age,
         NEW fine, fine = FineSet(m, F), NEW coarse, coarse = CoarseSet(m, e, C),
         NEW ev, ev.fine = F, ev.used = Within(Chosen(fine, coarse)),
         NEW old, old # Missing => old.status = "pending",
         NEW o, o = Merged(old, Evaluated(rec, fine, coarse, age))
  PROVE  o # Missing => Tells(o, m, e, ev, rec)
<1> DEFINE bars == Chosen(fine, coarse)
           hit == DetectHits(bars, fine, rec)
           new == EvaluatedOn(bars, rec, hit, age)
<1>1. Claim(hit, m, e, ev, rec)
  <2>1. CASE bars = fine
    <3>1. \A i \in F : (FineBar(m, i).from + 1)..FineBar(m, i).to = {i}
      <4> SUFFICES ASSUME NEW i \in F PROVE (FineBar(m, i).from + 1)..FineBar(m, i).to = {i}
        OBVIOUS
      <4>1. i \in Int BY DEF Markets
      <4>2. FineBar(m, i).from + 1 = i /\ FineBar(m, i).to = i BY <4>1 DEF FineBar
      <4>3. i..i = {i} BY <4>1
      <4> QED BY <4>2, <4>3
    <3>2. ev.used = F
      <4>1. ev.used = UNION {(b.from + 1)..b.to : b \in FineSet(m, F)} BY <2>1 DEF Within
      <4>2. \A x : x \in ev.used <=> \E b \in FineSet(m, F) : x \in (b.from + 1)..b.to BY <4>1
      <4>3. \A x : x \in ev.used
                   <=> \E i \in F : x \in (FineBar(m, i).from + 1)..FineBar(m, i).to
        BY <4>2 DEF FineSet
      <4>4. \A x : x \in ev.used <=> x \in F BY <4>3, <3>1
      <4> QED BY <4>4, Zenon
    <3> QED BY <2>1, <3>2, FineClaims
  <2>2. CASE bars = coarse
    <3>1. \A j \in C : (CoarseBar(m, e, j).from + 1)..CoarseBar(m, e, j).to = Minutes(e, j)
      BY DEF CoarseBar, Minutes
    <3>2. ev.used = UNION {Minutes(e, j) : j \in C}
      <4>1. ev.used = UNION {(b.from + 1)..b.to : b \in CoarseSet(m, e, C)} BY <2>2 DEF Within
      <4>2. {(b.from + 1)..b.to : b \in CoarseSet(m, e, C)} = {Minutes(e, j) : j \in C}
        BY <3>1 DEF CoarseSet
      <4> QED BY <4>1, <4>2
    <3> QED BY <2>2, <3>2, CoarseClaims
  <2> QED BY <2>1, <2>2 DEF Chosen
<1>2. bars = {} => hit = NoHit BY DEF DetectHits, Touching
<1>3. o = Merged(old, new) BY DEF Evaluated, EvaluatedBy
<1> HIDE DEF bars, hit
<1>4. new # Missing => /\ {"status", "final"} \subseteq DOMAIN new /\ Truth(new, m, e, ev, rec)
                       /\ ~ new.final => new.status = "pending"
  BY <1>1, <1>2, OutcomeSays
<1> HIDE DEF new
<1>5. CASE new = Missing BY <1>3, <1>5 DEF Merged, Tells, Truth
<1>6. CASE new # Missing /\ old = Missing BY <1>3, <1>4, <1>6 DEF Merged, Tells
<1>7. CASE new # Missing /\ old # Missing
  <2> DEFINE after == [t \in Offsets |-> IF new.after[t] = Missing THEN old.after[t] ELSE new.after[t]]
  <2>1. o = [new EXCEPT !.after = after] BY <1>3, <1>7 DEF Merged
  <2> HIDE DEF after
  <2>2. o.status = new.status /\ o.final = new.final BY <2>1, <1>4, <1>7
  <2> QED BY <2>2, <1>4, <1>7 DEF Tells, Truth
<1> QED BY <1>5, <1>6, <1>7

\* What came first on the evidence stays so as the market goes on.
LEMMA TruthStays ==
  ASSUME NEW m \in Markets, NEW b \in [low: Int, high: Int, close: Int], NEW e, NEW ev, NEW rec,
         ev.fine \subseteq DOMAIN m, ev.used \subseteq DOMAIN m,
         NEW o, Truth(o, m, e, ev, rec)
  PROVE  Truth(o, Append(m, b), e, ev, rec)
<1> DEFINE q == Append(m, b)
<1>1. DOMAIN m \subseteq DOMAIN q /\ \A i \in DOMAIN m : q[i] = m[i]
  BY AppendProperties, LenProperties DEF Markets
<1> HIDE DEF q
<1>2. \A i \in DOMAIN m : FineBar(q, i) = FineBar(m, i) BY <1>1 DEF FineBar
<1>3. \A k \in DOMAIN m : /\ k \in Gains(q, rec) <=> k \in Gains(m, rec)
                          /\ k \in Losses(q, rec) <=> k \in Losses(m, rec)
                          /\ k \in Hits(q, rec) <=> k \in Hits(m, rec)
  BY <1>1, <1>2 DEF Gains, Losses, Hits
<1>4. \A i : Leads(i, m, e, ev, rec) => Leads(i, q, e, ev, rec) BY <1>3 DEF Leads
<1>5. \A i : Told(i, q, e, ev, rec) = Told(i, m, e, ev, rec) BY <1>3 DEF Told
<1>6. Gains(m, rec) \subseteq Gains(q, rec) /\ Losses(m, rec) \subseteq Losses(q, rec)
  BY <1>3 DEF Gains, Losses
<1>7. ev.used \ Losses(q, rec) = ev.used \ Losses(m, rec) /\ ev.fine \ Losses(q, rec) = ev.fine \ Losses(m, rec)
      /\ ev.used \ Gains(q, rec) = ev.used \ Gains(m, rec) /\ ev.fine \ Gains(q, rec) = ev.fine \ Gains(m, rec)
  BY <1>3
<1>8. ProfitFirst(m, e, ev, rec) => ProfitFirst(q, e, ev, rec)
  BY <1>1, <1>4, <1>6, <1>7 DEF ProfitFirst, Wins
<1>9. StopFirst(m, e, ev, rec) => StopFirst(q, e, ev, rec)
  BY <1>1, <1>4, <1>6, <1>7 DEF StopFirst, Wins
<1>10. BothWays(m, e, ev, rec) => BothWays(q, e, ev, rec)
  <2> SUFFICES ASSUME NEW i \in DOMAIN m, Undecided(i, m, e, ev, rec)
               PROVE  Undecided(i, q, e, ev, rec)
    BY <1>1 DEF BothWays
  <2>1. /\ Candle(e, i) \cap Gains(q, rec) # {} /\ Candle(e, i) \cap Losses(q, rec) # {}
    BY <1>6 DEF Undecided
  <2>2. Told(i, q, e, ev, rec) = Told(i, m, e, ev, rec) BY <1>5
  <2>3. Leads(i, q, e, ev, rec) BY <1>4 DEF Undecided
  <2>4. \A k \in Told(i, q, e, ev, rec) :
          k \in Gains(q, rec) \cap Losses(q, rec) \/ \E f \in Told(i, q, e, ev, rec) : f < k
    BY <2>2, <1>6 DEF Undecided
  <2> QED BY <2>1, <2>3, <2>4 DEF Undecided
<1>11. NoneReached(m, ev, rec) => NoneReached(q, ev, rec) BY <1>3 DEF NoneReached
<1>12. Truth(o, q, e, ev, rec) BY <1>8, <1>9, <1>10, <1>11 DEF Truth
<1> QED BY <1>12 DEF q

(***************************************************************************)
(* The inductive invariant.                                                *)
(***************************************************************************)
Asked_ == stage = "answered" =>
  /\ work.answer \in Replies /\ work.facts.price = Price
  /\ SituationFields \subseteq DOMAIN work.seen /\ policy \in Policies
Proposed == stage = "proposed" =>
  PlanShape(work.plan) /\ SituationFields \subseteq DOMAIN work.seen /\ policy \in Policies
Assessed_ == stage = "assessed" =>
  PlanShape(work.plan) /\ Bounded(work.in, work.given, work.under)
Stored == stage = "stored" => Recorded(work)
Untouched == stage # "stored" =>
  /\ path = <<>> /\ have = [fine |-> {}, coarse |-> {}]
  /\ read = Missing /\ outcome = Missing /\ evidence = [fine |-> {}, used |-> {}]
Collected ==
  /\ path \in Markets /\ early \in Nat
  /\ have \in [fine: SUBSET DOMAIN path, coarse: SUBSET (Nat \ {0})]
  /\ \A j \in have.coarse : Minutes(early, j) \subseteq DOMAIN path
  /\ read # Missing => read.fine \subseteq DOMAIN path /\ Pending
  /\ evidence.fine \subseteq DOMAIN path /\ evidence.used \subseteq DOMAIN path
Graded == outcome # Missing /\ Directed(work) => Tells(outcome, path, early, evidence, work)

AdviceInv ==
  Asked_ /\ Proposed /\ Assessed_ /\ Stored /\ Untouched /\ Collected /\ Graded

LEMMA InvInit == AdviceInit => AdviceInv
<1> SUFFICES ASSUME AdviceInit PROVE AdviceInv OBVIOUS
<1>1. stage = "idle" /\ path = <<>> /\ early = 0 /\ read = Missing /\ outcome = Missing
      /\ have = [fine |-> {}, coarse |-> {}] /\ evidence = [fine |-> {}, used |-> {}]
  BY DEF AdviceInit
<1>2. <<>> \in Markets BY DEF Markets
<1>3. Collected BY <1>1, <1>2 DEF Collected
<1> QED BY <1>1, <1>3
     DEF AdviceInv, Asked_, Proposed, Assessed_, Stored, Untouched, Graded

LEMMA InvStutter ==
  ASSUME AdviceInv, UNCHANGED adviceVars
  PROVE  AdviceInv'
<1>1. /\ stage' = stage /\ policy' = policy /\ work' = work /\ path' = path /\ early' = early
      /\ have' = have /\ read' = read /\ outcome' = outcome /\ evidence' = evidence
  BY DEF adviceVars
<1> QED BY <1>1
     DEF AdviceInv, Asked_, Proposed, Assessed_, Stored, Untouched, Collected, Graded, Pending

\* The stages before the recommendation is stored leave the market alone.
LEMMA MarketKept ==
  ASSUME AdviceInv, stage # "stored", UNCHANGED market, early' \in Nat
  PROVE  Untouched' /\ Collected' /\ Graded'
<1>1. path' = path /\ have' = have /\ read' = read /\ outcome' = outcome /\ evidence' = evidence
  BY DEF market
<1>2. /\ outcome = Missing /\ path = <<>> /\ read = Missing
      /\ have = [fine |-> {}, coarse |-> {}] /\ evidence = [fine |-> {}, used |-> {}]
  BY DEF AdviceInv, Untouched
<1>3. path \in Markets BY DEF AdviceInv, Collected
<1>4. Collected' BY <1>1, <1>2, <1>3 DEF Collected
<1> QED BY <1>1, <1>2, <1>4 DEF Untouched, Graded

LEMMA InvAsk ==
  ASSUME AdviceInv, NEW s \in Situations, NEW p \in Policies, NEW a \in Replies,
         AskModel(Full(s), a, p)
  PROVE  AdviceInv'
<1>1. /\ stage = "idle" /\ stage' = "answered" /\ policy' = p
      /\ work' = [answer |-> a, facts |-> Facts(Full(s), p), seen |-> Full(s)]
      /\ UNCHANGED market /\ early' = early
  BY DEF AskModel
<1>2. Untouched' /\ Collected' /\ Graded' BY <1>1, MarketKept DEF AdviceInv, Collected
<1>3. work'.facts.price = Price BY <1>1 DEF Facts
<1>4. SituationFields \subseteq DOMAIN s BY SituationsAreRecords DEF SituationFields
<1>5. DOMAIN Full(s) = DOMAIN s BY DEF Full
<1>6. Asked_' BY <1>1, <1>3, <1>4, <1>5 DEF Asked_
<1> QED BY <1>1, <1>2, <1>6 DEF AdviceInv, Proposed, Assessed_, Stored

LEMMA InvValidate ==
  ASSUME AdviceInv, Validate
  PROVE  AdviceInv'
<1>1. stage = "answered" /\ policy' = policy /\ early' = early /\ UNCHANGED market
  BY DEF Validate
<1>2. /\ work.answer \in Replies /\ work.facts.price = Price
      /\ SituationFields \subseteq DOMAIN work.seen /\ policy \in Policies
  BY <1>1 DEF AdviceInv, Asked_
<1>3. Untouched' /\ Collected' /\ Graded' BY <1>1, MarketKept DEF AdviceInv, Collected
<1>4. CASE Accepted(work.answer, work.facts)
  <2>1. /\ stage' = "proposed"
        /\ work' = [plan |-> Validated(work.answer, work.facts), seen |-> work.seen]
    BY <1>4 DEF Validate
  <2>2. PlanShape(work'.plan) BY <2>1, <1>2, <1>4, AcceptedIsPlan
  <2>3. Proposed' BY <2>1, <2>2, <1>1, <1>2 DEF Proposed
  <2> QED BY <2>1, <2>3, <1>3 DEF AdviceInv, Asked_, Assessed_, Stored
<1>5. CASE ~ Accepted(work.answer, work.facts)
  <2>1. stage' = "refused" BY <1>5 DEF Validate
  <2> QED BY <2>1, <1>3 DEF AdviceInv, Asked_, Proposed, Assessed_, Stored
<1> QED BY <1>4, <1>5

LEMMA InvAssess ==
  ASSUME AdviceInv, NEW q \in Policies, NEW cut \in 0..Reads, Assess(q, cut)
  PROVE  AdviceInv'
<1> DEFINE in == Proposal(work.plan, work.seen)
<1>1. /\ stage = "proposed" /\ stage' = "assessed" /\ UNCHANGED market /\ early' = early
      /\ cut = Reads <=> q = policy
      /\ work' = [in |-> in, given |-> Evaluate(in, Seen(policy, q, cut)),
                  under |-> {policy, q}, plan |-> work.plan]
  BY DEF Assess
<1>2. PlanShape(work.plan) /\ SituationFields \subseteq DOMAIN work.seen /\ policy \in Policies
  BY <1>1 DEF AdviceInv, Proposed
<1>3. Situated(in) BY <1>2, ProposalSituated
<1> HIDE DEF in
<1>4. Bounded(in, Evaluate(in, Seen(policy, q, cut)), {policy, q})
  BY <1>1, <1>2, <1>3, AssessIsBounded
<1>5. Assessed_' BY <1>1, <1>2, <1>4 DEF Assessed_
<1>6. Untouched' /\ Collected' /\ Graded' BY <1>1, MarketKept DEF AdviceInv, Collected
<1> QED BY <1>1, <1>5, <1>6 DEF AdviceInv, Asked_, Proposed, Stored

LEMMA InvInsert ==
  ASSUME AdviceInv, NEW n \in 0..(PerCoarse - 1), Insert(n)
  PROVE  AdviceInv'
<1>1. /\ stage = "assessed" /\ stage' = "stored" /\ UNCHANGED market /\ n \in Nat /\ early' = n
      /\ work' = [action |-> work.plan.action, price |-> Price,
                  profits |-> [i \in DOMAIN work.plan.profits |-> work.plan.profits[i].price],
                  stops |-> [i \in DOMAIN work.plan.stops |-> work.plan.stops[i].price]]
  BY SomeFineBars DEF Insert
<1>2. PlanShape(work.plan) BY <1>1 DEF AdviceInv, Assessed_
<1>3. PICK l \in Nat : Listed(work.plan.profits, l) BY <1>2 DEF PlanShape
<1>4. PICK k \in Nat : Listed(work.plan.stops, k) BY <1>2 DEF PlanShape
<1>5. Recorded(work') BY <1>1, <1>3, <1>4 DEF Recorded, Listed
<1>6. Untouched' /\ Collected' /\ Graded' BY <1>1, MarketKept
<1> QED BY <1>1, <1>5, <1>6 DEF AdviceInv, Asked_, Proposed, Assessed_, Stored

LEMMA InvEditPolicy ==
  ASSUME AdviceInv, NEW q \in Policies, EditPolicy(q)
  PROVE  AdviceInv'
<1>1. /\ stage \in {"answered", "proposed"} /\ stage' = stage /\ work' = work /\ policy' = q
      /\ UNCHANGED market /\ early' = early
  BY DEF EditPolicy
<1>2. Untouched' /\ Collected' /\ Graded' BY <1>1, MarketKept DEF AdviceInv, Collected
<1> QED BY <1>1, <1>2 DEF AdviceInv, Asked_, Proposed, Assessed_, Stored

LEMMA InvTrade ==
  ASSUME AdviceInv, NEW b \in Bars, Trade(b)
  PROVE  AdviceInv'
<1>1. /\ stage = "stored" /\ stage' = stage /\ work' = work /\ path' = Append(path, b)
      /\ early' = early /\ have' = have /\ read' = read /\ outcome' = outcome
      /\ evidence' = evidence
  BY DEF Trade
<1>2. b \in [low: Int, high: Int, close: Int] BY BarsArePrices
<1>3. path' \in Markets /\ DOMAIN path \subseteq DOMAIN path'
  BY <1>1, <1>2, AppendProperties, LenProperties DEF AdviceInv, Collected, Markets
<1>4. Collected' BY <1>1, <1>3 DEF AdviceInv, Collected, Pending
<1>5. Graded'
  <2> SUFFICES ASSUME outcome # Missing, Directed(work)
               PROVE  Tells(outcome, path', early, evidence, work)
    BY <1>1 DEF Graded
  <2>1. Tells(outcome, path, early, evidence, work) BY DEF AdviceInv, Graded
  <2>2. Truth(outcome, path', early, evidence, work)
    BY <1>1, <1>2, <2>1, TruthStays DEF AdviceInv, Collected, Tells
  <2> QED BY <2>1, <2>2 DEF Tells
<1> QED BY <1>1, <1>4, <1>5 DEF AdviceInv, Asked_, Proposed, Assessed_, Stored, Untouched

LEMMA InvStore ==
  ASSUME AdviceInv, NEW i \in DOMAIN path, StoreFine(i) \/ StoreCoarse(i)
  PROVE  AdviceInv'
<1>1. /\ stage' = stage /\ policy' = policy /\ work' = work /\ path' = path /\ early' = early
      /\ read' = read /\ outcome' = outcome /\ evidence' = evidence
  BY DEF StoreFine, StoreCoarse
<1>2. /\ path \in Markets /\ have \in [fine: SUBSET DOMAIN path, coarse: SUBSET (Nat \ {0})]
      /\ \A j \in have.coarse : Minutes(early, j) \subseteq DOMAIN path
  BY DEF AdviceInv, Collected
<1>3. i \in Nat \ {0} BY <1>2 DEF Markets
<1>4. /\ have' \in [fine: SUBSET DOMAIN path, coarse: SUBSET (Nat \ {0})]
      /\ \A j \in have'.coarse : Minutes(early, j) \subseteq DOMAIN path
  <2>1. CASE StoreFine(i)
    <3>1. have' = [have EXCEPT !.fine = @ \cup {i}] BY <2>1 DEF StoreFine
    <3> QED BY <3>1, <1>2
  <2>2. CASE StoreCoarse(i)
    <3>1. Minutes(early, i) \subseteq DOMAIN path /\ have' = [have EXCEPT !.coarse = @ \cup {i}]
      BY <2>2 DEF StoreCoarse
    <3> QED BY <3>1, <1>2, <1>3
  <2> QED BY <2>1, <2>2
<1>5. stage = "stored"
  <2>1. path = <<>> => DOMAIN path = {} OBVIOUS
  <2> QED BY <2>1 DEF AdviceInv, Untouched
<1>6. Collected' BY <1>1, <1>4 DEF AdviceInv, Collected, Pending
<1> QED BY <1>1, <1>5, <1>6
     DEF AdviceInv, Asked_, Proposed, Assessed_, Stored, Untouched, Graded

LEMMA InvReadFine ==
  ASSUME AdviceInv, ReadFine
  PROVE  AdviceInv'
<1>1. /\ stage = "stored" /\ stage' = stage /\ policy' = policy /\ work' = work
      /\ path' = path /\ early' = early /\ have' = have /\ outcome' = outcome
      /\ evidence' = evidence /\ Pending
      /\ read' = [fine |-> have.fine, age |-> Len(path)]
  BY DEF ReadFine
<1>2. have \in [fine: SUBSET DOMAIN path, coarse: SUBSET (Nat \ {0})]
  BY DEF AdviceInv, Collected
<1>3. read'.fine \subseteq DOMAIN path BY <1>1, <1>2
<1>4. Pending' BY <1>1 DEF Pending
<1>5. Collected' BY <1>1, <1>3, <1>4 DEF AdviceInv, Collected
<1> QED BY <1>1, <1>5
     DEF AdviceInv, Asked_, Proposed, Assessed_, Stored, Untouched, Graded

LEMMA InvGrade ==
  ASSUME AdviceInv, Grade
  PROVE  AdviceInv'
<1> DEFINE C == {j \in have.coarse : early + (j - 1) * PerCoarse <= read.age}
<1>1. PICK fine, coarse :
        /\ fine = FineBars(read.fine) /\ coarse = CoarseBars(have.coarse, read.age)
        /\ outcome' = Merged(outcome, Evaluated(work, fine, coarse, read.age))
        /\ evidence' = [fine |-> read.fine, used |-> Within(Chosen(fine, coarse))]
  BY DEF Grade
<1>2. /\ read # Missing /\ read' = Missing
      /\ stage' = stage /\ policy' = policy /\ work' = work /\ path' = path /\ early' = early
      /\ have' = have
  BY DEF Grade
<1>3. /\ path \in Markets /\ early \in Nat
      /\ have \in [fine: SUBSET DOMAIN path, coarse: SUBSET (Nat \ {0})]
      /\ \A j \in have.coarse : Minutes(early, j) \subseteq DOMAIN path
      /\ read.fine \subseteq DOMAIN path /\ Pending
  BY <1>2 DEF AdviceInv, Collected
<1>4. stage = "stored" BY <1>2 DEF AdviceInv, Untouched
<1>5. C \subseteq Nat \ {0} /\ \A j \in C : Minutes(early, j) \subseteq DOMAIN path BY <1>3
<1>6. fine = FineSet(path, read.fine) BY <1>1 DEF FineBars, FineSet
<1>7. coarse = CoarseSet(path, early, C) BY <1>1 DEF CoarseBars, CoarseSet
<1> HIDE DEF C
<1>8. evidence'.fine = read.fine /\ evidence'.used = Within(Chosen(fine, coarse)) BY <1>1
<1>9. Graded'
  <2> SUFFICES ASSUME Directed(work)
               PROVE  outcome' # Missing => Tells(outcome', path, early, evidence', work)
    BY <1>2 DEF Graded
  <2>1. Recorded(work) BY <1>4 DEF AdviceInv, Stored
  <2>2. outcome # Missing => outcome.status = "pending"
    BY <1>3 DEF AdviceInv, Graded, Tells, Pending
  <2> QED BY <2>1, <2>2, <1>1, <1>3, <1>5, <1>6, <1>7, <1>8, GradeIsTrue
<1>10. evidence'.fine \subseteq DOMAIN path /\ evidence'.used \subseteq DOMAIN path
  <2>1. \A i \in read.fine : (FineBar(path, i).from + 1)..FineBar(path, i).to \subseteq DOMAIN path
    <3> SUFFICES ASSUME NEW i \in DOMAIN path
                 PROVE  (FineBar(path, i).from + 1)..FineBar(path, i).to \subseteq DOMAIN path
      BY <1>3
    <3>1. i \in Int BY <1>3 DEF Markets
    <3>2. FineBar(path, i).from + 1 = i /\ FineBar(path, i).to = i BY <3>1 DEF FineBar
    <3>3. i..i = {i} BY <3>1
    <3> QED BY <3>2, <3>3
  <2>2. \A j \in C : (CoarseBar(path, early, j).from + 1)..CoarseBar(path, early, j).to
                       \subseteq DOMAIN path
    BY <1>5 DEF CoarseBar, Minutes
  <2>3. Chosen(fine, coarse) = fine \/ Chosen(fine, coarse) = coarse BY DEF Chosen
  <2>4. CASE Chosen(fine, coarse) = fine BY <2>1, <2>4, <1>3, <1>6, <1>8 DEF Within, FineSet
  <2>5. CASE Chosen(fine, coarse) = coarse BY <2>2, <2>5, <1>3, <1>7, <1>8 DEF Within, CoarseSet
  <2> QED BY <2>3, <2>4, <2>5
<1>11. Collected' BY <1>2, <1>3, <1>10 DEF Collected
<1> QED BY <1>2, <1>4, <1>9, <1>11
     DEF AdviceInv, Asked_, Proposed, Assessed_, Stored, Untouched

LEMMA InvNext == AdviceInv /\ [Next]_<<adviceVars, signalVars>> => AdviceInv'
<1> SUFFICES ASSUME AdviceInv, [Next]_<<adviceVars, signalVars>> PROVE AdviceInv' OBVIOUS
<1>1. CASE UNCHANGED adviceVars BY <1>1, InvStutter
<1>2. CASE \E s \in Situations, p \in Policies, a \in Replies : Ask(s, a, p)
  <2>1. PICK s \in Situations, p \in Policies, a \in Replies : Ask(s, a, p) BY <1>2
  <2> QED BY <2>1, InvAsk DEF Ask
<1>3. CASE AdviceStep
  <2>1. CASE Validate BY <2>1, InvValidate
  <2>2. CASE \E p \in Policies, cut \in 0..Reads : Assess(p, cut) BY <2>2, InvAssess
  <2>3. CASE \E n \in 0..(PerCoarse - 1) : Insert(n) BY <2>3, InvInsert
  <2>4. CASE \E p \in Policies : EditPolicy(p) BY <2>4, InvEditPolicy
  <2>5. CASE \E b \in Bars : Trade(b) BY <2>5, InvTrade
  <2>6. CASE \E i \in DOMAIN path : StoreFine(i) \/ StoreCoarse(i) BY <2>6, InvStore
  <2>7. CASE ReadFine BY <2>7, InvReadFine
  <2>8. CASE Grade BY <2>8, InvGrade
  <2> QED BY <1>3, <2>1, <2>2, <2>3, <2>4, <2>5, <2>6, <2>7, <2>8 DEF AdviceStep
<1> QED BY <1>1, <1>2, <1>3 DEF Next

LEMMA Invariant == Spec => []AdviceInv
<1>1. Init => AdviceInv BY InvInit DEF Init
<1> QED BY <1>1, InvNext, PTL DEF Spec

(***************************************************************************)
(* What a reader should know of.                                           *)
(***************************************************************************)
\* Whatever the model answers, an accepted entry is a bracket: targets on one
\* side of the far end of the entry zone, stops on the other, each list in
\* the order the price meets it, the shares to close making up the whole up
\* to the rounding of each (llm/validate.go:303-466).
THEOREM PlanIsBracketHolds == Spec => []PlanIsBracket
<1>1. AdviceInv => PlanIsBracket
  BY DEF AdviceInv, Proposed, PlanShape, Bracket, PlanIsBracket
<1> QED BY <1>1, Invariant, PTL

\* Whatever the model asked for and whenever the policy is swapped between
\* two reads of one evaluation, leverage and size stay within the limits of
\* one of the policies (risk/engine.go:65-311).
THEOREM ExposureBoundedHolds == Spec => []ExposureBounded
<1>1. AdviceInv => ExposureBounded
  BY DEF AdviceInv, Assessed_, Bounded, ExposureBounded
<1> QED BY <1>1, Invariant, PTL

\* Whatever the market, whenever within a coarse bar the recommendation is
\* made, and whichever candles of the two series are stored when: a verdict is
\* what was reached first on the candles it rests on, and none is left open
\* that a stored fine candle decides (recommendations/outcomes.go:46-210).
THEOREM VerdictIsTrueHolds == Spec => []VerdictIsTrue
<1>1. /\ ProfitMinutes = Gains(path, work) /\ StopMinutes = Losses(path, work)
      /\ HitMinutes = Hits(path, work)
  BY DEF ProfitMinutes, StopMinutes, HitMinutes, Gains, Losses, Hits
<1>2. \A i : SameCandle(i) = Candle(early, i) BY DEF SameCandle, Candle
<1>3. \A i : ReachedFirst(i) <=> Leads(i, path, early, evidence, work)
  BY <1>1, <1>2 DEF ReachedFirst, Leads
<1>4. \A i, mine, theirs : Won(i, mine, theirs) <=> Wins(i, path, early, evidence, work, mine, theirs)
  BY <1>2, <1>3 DEF Won, Wins
<1>5. \A i : LeftOpen(i) <=> Undecided(i, path, early, evidence, work)
  BY <1>1, <1>2, <1>3 DEF LeftOpen, Undecided, Told
<1>6. AdviceInv => VerdictIsTrue
  BY <1>1, <1>4, <1>5
     DEF AdviceInv, Graded, Tells, Truth, ProfitFirst, StopFirst, BothWays, NoneReached, VerdictIsTrue
<1> QED BY <1>6, Invariant, PTL

(***************************************************************************)
(* The swings of a series, one pivot after the other.                      *)
(***************************************************************************)
Added(candles, i, swings) ==
  LET tops == IF IsPivotHigh(candles, i, 3)
                THEN WithSwing(swings, i, TRUE, candles[i].h) ELSE swings
  IN IF IsPivotLow(candles, i, 3) THEN WithSwing(tops, i, FALSE, candles[i].l) ELSE tops

\* What the fold makes of each set of places.
FoldsInto(f, candles, D) ==
  f = [s \in SUBSET D |-> IF s = {} THEN <<>>
                          ELSE Added(candles, 3 + Max(s), f[s \ {Max(s)}])]

LEMMA FoldExists ==
  ASSUME NEW n \in Nat, NEW candles
  PROVE  \E f : FoldsInto(f, candles, 1..n)
<1> DEFINE Bad == {k \in 0..n : ~ \E f : FoldsInto(f, candles, 1..k)}
<1>1. SUFFICES Bad = {}
  <2>1. n \in 0..n OBVIOUS
  <2> QED BY <1>1, <2>1
<1>2. SUFFICES ASSUME Bad # {} PROVE FALSE OBVIOUS
<1> DEFINE m == Min(Bad)
<1>3. m \in Bad /\ \A y \in Bad : m <= y
  <2>1. Bad \subseteq Nat OBVIOUS
  <2> HIDE DEF Bad
  <2> QED BY <1>2, <2>1, LeastOf
<1>4. m \in 0..n /\ ~ \E f : FoldsInto(f, candles, 1..m) BY <1>3
<1>5. \A k \in 0..n : k < m => \E f : FoldsInto(f, candles, 1..k) BY <1>3
<1> HIDE DEF m, Bad
<1>6. CASE m = 0
  <2> DEFINE z == [s \in SUBSET {} |-> <<>>]
  <2>1. \A s \in SUBSET {} : s = {} OBVIOUS
  <2>2. FoldsInto(z, candles, {}) BY <2>1 DEF FoldsInto
  <2>3. 1..m = {} BY <1>6
  <2> QED BY <2>2, <2>3, <1>4
<1>7. CASE m # 0
  <2>1. m \in 1..n /\ m - 1 \in 0..n /\ m - 1 < m BY <1>4, <1>7
  <2>2. PICK h : FoldsInto(h, candles, 1..(m - 1)) BY <2>1, <1>5
  <2>3. PICK E : E = 1..(m - 1) OBVIOUS
  <2>4. PICK D : D = 1..m OBVIOUS
  <2>5. D = E \cup {m} /\ m \notin E BY <2>1, <2>3, <2>4
  <2>6. FoldsInto(h, candles, E) BY <2>2, <2>3
  <2>7. \A s \in SUBSET D : m \in s => Max(s) = m
    <3> SUFFICES ASSUME NEW s \in SUBSET D, m \in s PROVE Max(s) = m OBVIOUS
    <3>1. m \in Int /\ \A y \in D : y \in Int /\ y <= m BY <2>1, <2>4
    <3>2. IsFiniteSet(D) BY <3>1, <2>4, FS_Interval
    <3>3. IsFiniteSet(s) BY <3>2, FS_Subset
    <3>4. s \subseteq Int /\ s # {} BY <3>1
    <3>5. Max(s) \in s /\ \A y \in s : y <= Max(s) BY <3>3, <3>4, FiniteMinMax
    <3>6. Max(s) \in Int /\ Max(s) <= m /\ m <= Max(s) BY <3>1, <3>5
    <3> QED BY <3>1, <3>6
  <2> DEFINE g == [s \in SUBSET D |-> IF m \in s THEN Added(candles, 3 + m, h[s \ {m}]) ELSE h[s]]
             F(s) == IF s = {} THEN <<>> ELSE Added(candles, 3 + Max(s), g[s \ {Max(s)}])
  <2>8. ASSUME NEW s \in SUBSET D PROVE g[s] = F(s)
    <3>1. CASE m \in s
      <4>1. s \ {m} \in SUBSET D /\ m \notin s \ {m} OBVIOUS
      <4>2. g[s \ {m}] = h[s \ {m}] BY <4>1
      <4>3. g[s] = Added(candles, 3 + m, h[s \ {m}]) BY <3>1
      <4>4. Max(s) = m /\ s # {} BY <3>1, <2>7
      <4> HIDE DEF g
      <4> QED BY <4>2, <4>3, <4>4
    <3>2. CASE m \notin s
      <4>1. s \in SUBSET E BY <3>2, <2>5
      <4>2. h[s] = IF s = {} THEN <<>> ELSE Added(candles, 3 + Max(s), h[s \ {Max(s)}])
        BY <4>1, <2>6 DEF FoldsInto
      <4>3. g[s] = h[s] BY <3>2
      <4>4. s \ {Max(s)} \in SUBSET D /\ m \notin s \ {Max(s)} BY <3>2
      <4>5. g[s \ {Max(s)}] = h[s \ {Max(s)}] BY <4>4
      <4> HIDE DEF g
      <4> QED BY <4>2, <4>3, <4>5
    <3> QED BY <3>1, <3>2
  <2>9. g = [s \in SUBSET D |-> F(s)]
    <3>1. g = [s \in SUBSET D |-> g[s]] OBVIOUS
    <3> HIDE DEF g, F
    <3> QED BY <2>8, <3>1
  <2>10. FoldsInto(g, candles, D)
    <3> HIDE DEF g
    <3> QED BY <2>9 DEF FoldsInto
  <2> QED BY <2>10, <2>4, <1>4
<1> QED BY <1>6, <1>7

\* The swings after each pivot.
Steps(g, candles, n) ==
  /\ g[0] = <<>>
  /\ \A k \in 1..n : g[k] = Added(candles, 3 + k, g[k - 1])

LEMMA FindsSteps ==
  ASSUME NEW candles, NEW n \in Nat, Len(candles) - 2 * 3 = n
  PROVE  \E g : Steps(g, candles, n) /\ FindSwings(candles, 3) = g[n]
<1> DEFINE places == [k \in 1..(Len(candles) - 2 * 3) |-> 3 + k]
           D == DOMAIN places
           Iter(f) == [s \in SUBSET D |->
                         IF s = {} THEN <<>> ELSE Added(candles, places[Max(s)], f[s \ {Max(s)}])]
           iter == CHOOSE f : f = Iter(f)
<1>1. FindSwings(candles, 3) = iter[D]
  BY DEF FindSwings, FoldLeft, MapThenFoldSet, Added
<1>2. D = 1..n /\ \A k \in 1..n : places[k] = 3 + k OBVIOUS
<1> HIDE DEF places, D
<1>3. \A s \in SUBSET D : s # {} => Max(s) \in s
  <2>1. IsFiniteSet(D) /\ D \subseteq Int BY <1>2, FS_Interval
  <2>2. \A s \in SUBSET D : IsFiniteSet(s) /\ s \subseteq Int BY <2>1, FS_Subset
  <2> QED BY <2>2, FiniteMinMax
<1>4. PICK f : FoldsInto(f, candles, 1..n) BY FoldExists
<1>5. f = Iter(f)
  <2>1. \A s \in SUBSET D : s # {} => places[Max(s)] = 3 + Max(s) BY <1>2, <1>3
  <2>2. f = [s \in SUBSET D |-> IF s = {} THEN <<>> ELSE Added(candles, 3 + Max(s), f[s \ {Max(s)}])]
    BY <1>2, <1>4 DEF FoldsInto
  <2> QED BY <2>1, <2>2
<1>6. iter = Iter(iter) BY <1>5
<1> HIDE DEF iter
<1> DEFINE g == [k \in 0..n |-> iter[1..k]]
<1>7. g[0] = <<>>
  <2>1. 1..0 = {} OBVIOUS
  <2>2. iter[{}] = <<>> BY <1>6
  <2> QED BY <2>1, <2>2
<1>8. ASSUME NEW k \in 1..n PROVE g[k] = Added(candles, 3 + k, g[k - 1])
  <2> DEFINE s == 1..k
  <2>d. s \subseteq D /\ s \subseteq Int BY <1>2
  <2>1. s \in SUBSET D /\ s # {} /\ s \subseteq Int
    <3>1. k \in s OBVIOUS
    <3> QED BY <2>d, <3>1
  <2>k. IsFiniteSet(s) /\ k \in Int BY FS_Interval
  <2>2. k \in s /\ \A y \in s : y <= k OBVIOUS
  <2>3. s \ {k} = 1..(k - 1) OBVIOUS
  <2>4. g[k] = iter[s] /\ g[k - 1] = iter[1..(k - 1)] OBVIOUS
  <2> HIDE DEF s, g
  <2>5. Max(s) = k
    <3>1. Max(s) \in s /\ \A y \in s : y <= Max(s) BY <2>1, <2>k, FiniteMinMax
    <3>2. Max(s) \in Int /\ Max(s) <= k /\ k <= Max(s) BY <3>1, <2>1, <2>2
    <3> QED BY <3>2, <2>k
  <2>6. iter[s] = Added(candles, places[k], iter[s \ {k}]) BY <1>6, <2>1, <2>5
  <2> QED BY <2>3, <2>4, <2>6, <1>2
<1>9. g[n] = iter[D] BY <1>2
<1> HIDE DEF g
<1> QED BY <1>1, <1>7, <1>8, <1>9 DEF Steps

(***************************************************************************)
(* One more candle adds one more pivot.                                    *)
(***************************************************************************)
Kinds(P) ==
  [index: Nat, high: BOOLEAN, price: P, label: {"none", "HH", "HL", "LH", "LL"}]

\* All that is new in t is at candle i.
Extends(t, s, i) ==
  /\ Len(s) <= Len(t)
  /\ \A k \in 1..Len(s) : t[k] = s[k]
  /\ \A k \in 1..Len(t) : k > Len(s) => t[k].index = i

LEMMA WithSwingExtends ==
  ASSUME NEW P, NEW s \in Seq(Kinds(P)), NEW i \in Nat, NEW high \in BOOLEAN, NEW price \in P
  PROVE  /\ WithSwing(s, i, high, price) \in Seq(Kinds(P))
         /\ Extends(WithSwing(s, i, high, price), s, i)
<1> DEFINE e == [index |-> i, high |-> high, price |-> price, label |-> Label(s, high, price)]
<1>1. Label(s, high, price) \in {"none", "HH", "HL", "LH", "LL"} BY DEF Label
<1>2. e \in Kinds(P) BY <1>1 DEF Kinds
<1>3. WithSwing(s, i, high, price) = Append(s, e) BY DEF WithSwing
<1>4. e.index = i OBVIOUS
<1> HIDE DEF e
<1>5. /\ Append(s, e) \in Seq(Kinds(P)) /\ Len(Append(s, e)) = Len(s) + 1
      /\ \A k \in 1..Len(s) : Append(s, e)[k] = s[k]
      /\ Append(s, e)[Len(s) + 1] = e
  BY <1>2, AppendProperties
<1>6. Len(s) \in Nat OBVIOUS
<1>7. \A k \in 1..(Len(s) + 1) : k > Len(s) => k = Len(s) + 1 BY <1>6
<1> QED BY <1>3, <1>4, <1>5, <1>6, <1>7 DEF Extends

LEMMA AddedExtends ==
  ASSUME NEW P, NEW s \in Seq(Kinds(P)), NEW i \in Nat, NEW candles,
         candles[i].h \in P, candles[i].l \in P
  PROVE  Added(candles, i, s) \in Seq(Kinds(P)) /\ Extends(Added(candles, i, s), s, i)
<1> DEFINE tops == IF IsPivotHigh(candles, i, 3)
                     THEN WithSwing(s, i, TRUE, candles[i].h) ELSE s
<1>1. tops \in Seq(Kinds(P)) /\ Extends(tops, s, i)
  <2>1. Extends(s, s, i)
    <3>1. Len(s) \in Nat OBVIOUS
    <3> QED BY <3>1 DEF Extends
  <2>2. TRUE \in BOOLEAN OBVIOUS
  <2>3. /\ WithSwing(s, i, TRUE, candles[i].h) \in Seq(Kinds(P))
        /\ Extends(WithSwing(s, i, TRUE, candles[i].h), s, i)
    BY <2>2, WithSwingExtends
  <2> QED BY <2>1, <2>3
<1>2. Added(candles, i, s)
        = IF IsPivotLow(candles, i, 3) THEN WithSwing(tops, i, FALSE, candles[i].l) ELSE tops
  BY DEF Added
<1> HIDE DEF tops
<1>3. CASE ~ IsPivotLow(candles, i, 3) BY <1>1, <1>2, <1>3
<1>4. CASE IsPivotLow(candles, i, 3)
  <2> DEFINE t == WithSwing(tops, i, FALSE, candles[i].l)
  <2>1. FALSE \in BOOLEAN OBVIOUS
  <2>2. t \in Seq(Kinds(P)) /\ Extends(t, tops, i) BY <1>1, <2>1, WithSwingExtends
  <2>3. Added(candles, i, s) = t BY <1>2, <1>4
  <2> HIDE DEF t
  <2>4. Len(s) \in Nat /\ Len(tops) \in Nat /\ Len(t) \in Nat BY <1>1, <2>2
  <2>5. Len(s) <= Len(t) BY <1>1, <2>2, <2>4 DEF Extends
  <2>6. \A k \in 1..Len(s) : t[k] = s[k] BY <1>1, <2>2, <2>4 DEF Extends
  <2>7. \A k \in 1..Len(t) : k > Len(s) => t[k].index = i
    <3> SUFFICES ASSUME NEW k \in 1..Len(t), k > Len(s) PROVE t[k].index = i OBVIOUS
    <3>1. CASE k > Len(tops) BY <3>1, <2>2 DEF Extends
    <3>2. CASE ~ (k > Len(tops))
      <4>1. k \in 1..Len(tops) BY <3>2, <2>4
      <4> QED BY <4>1, <1>1, <2>2 DEF Extends
    <3> QED BY <3>1, <3>2
  <2> QED BY <2>2, <2>3, <2>5, <2>6, <2>7 DEF Extends
<1> QED BY <1>3, <1>4

LEMMA StepsTyped ==
  ASSUME NEW P, NEW n \in Nat, NEW candles, NEW g, Steps(g, candles, n),
         \A i \in 4..(n + 3) : candles[i].h \in P /\ candles[i].l \in P
  PROVE  g[n] \in Seq(Kinds(P))
<1> DEFINE Bad == {k \in 0..n : g[k] \notin Seq(Kinds(P))}
<1>1. SUFFICES Bad = {}
  <2>1. n \in 0..n OBVIOUS
  <2> QED BY <1>1, <2>1
<1>2. SUFFICES ASSUME Bad # {} PROVE FALSE OBVIOUS
<1> DEFINE m == Min(Bad)
<1>3. m \in Bad /\ \A y \in Bad : m <= y
  <2>1. Bad \subseteq Nat OBVIOUS
  <2> HIDE DEF Bad
  <2> QED BY <1>2, <2>1, LeastOf
<1>4. m \in 0..n /\ g[m] \notin Seq(Kinds(P)) BY <1>3
<1>5. \A k \in 0..n : k < m => g[k] \in Seq(Kinds(P)) BY <1>3
<1> HIDE DEF m, Bad
<1>6. m # 0
  <2>1. <<>> \in Seq(Kinds(P)) OBVIOUS
  <2> QED BY <2>1, <1>4 DEF Steps
<1>7. m \in 1..n /\ m - 1 \in 0..n /\ m - 1 < m /\ 3 + m \in 4..(n + 3) /\ 3 + m \in Nat
  BY <1>4, <1>6
<1>8. g[m - 1] \in Seq(Kinds(P)) BY <1>5, <1>7
<1>9. g[m] = Added(candles, 3 + m, g[m - 1]) BY <1>7 DEF Steps
<1>10. candles[3 + m].h \in P /\ candles[3 + m].l \in P BY <1>7
<1>11. Added(candles, 3 + m, g[m - 1]) \in Seq(Kinds(P))
  BY <1>7, <1>8, <1>10, AddedExtends
<1> QED BY <1>4, <1>9, <1>11

LEMMA StepsAgree ==
  ASSUME NEW n \in Nat, NEW candles, NEW longer, NEW g, NEW h,
         Steps(g, candles, n), Steps(h, longer, n),
         \A i \in 4..(n + 3) : \A s : Added(longer, i, s) = Added(candles, i, s)
  PROVE  h[n] = g[n]
<1> DEFINE Bad == {k \in 0..n : h[k] # g[k]}
<1>1. SUFFICES Bad = {}
  <2>1. n \in 0..n OBVIOUS
  <2> QED BY <1>1, <2>1
<1>2. SUFFICES ASSUME Bad # {} PROVE FALSE OBVIOUS
<1> DEFINE m == Min(Bad)
<1>3. m \in Bad /\ \A y \in Bad : m <= y
  <2>1. Bad \subseteq Nat OBVIOUS
  <2> HIDE DEF Bad
  <2> QED BY <1>2, <2>1, LeastOf
<1>4. m \in 0..n /\ h[m] # g[m] BY <1>3
<1>5. \A k \in 0..n : k < m => h[k] = g[k] BY <1>3
<1> HIDE DEF m, Bad
<1>6. m # 0 BY <1>4 DEF Steps
<1>7. m \in 1..n /\ m - 1 \in 0..n /\ m - 1 < m /\ 3 + m \in 4..(n + 3) BY <1>4, <1>6
<1>8. h[m - 1] = g[m - 1] BY <1>5, <1>7
<1>9. g[m] = Added(candles, 3 + m, g[m - 1]) /\ h[m] = Added(longer, 3 + m, h[m - 1])
  BY <1>7 DEF Steps
<1> QED BY <1>4, <1>7, <1>8, <1>9

LEMMA PivotsSettled ==
  ASSUME NEW T, NEW candles \in Seq(T), NEW x \in T,
         NEW i \in 4..(Len(candles) - 3), NEW s
  PROVE  Added(Append(candles, x), i, s) = Added(candles, i, s)
<1> DEFINE longer == Append(candles, x)
<1>1. \A k \in 1..Len(candles) : longer[k] = candles[k] BY AppendProperties
<1> HIDE DEF longer
<1>2. Len(candles) \in Nat OBVIOUS
<1>3. i \in 1..Len(candles) /\ Around(i, 3) \subseteq 1..Len(candles) BY <1>2 DEF Around
<1>4. longer[i] = candles[i] /\ \A j \in Around(i, 3) : longer[j] = candles[j] BY <1>1, <1>3
<1>5. IsPivotHigh(longer, i, 3) <=> IsPivotHigh(candles, i, 3) BY <1>4 DEF IsPivotHigh
<1>6. IsPivotLow(longer, i, 3) <=> IsPivotLow(candles, i, 3) BY <1>4 DEF IsPivotLow
<1>7. Added(longer, i, s) = Added(candles, i, s) BY <1>4, <1>5, <1>6 DEF Added
<1> QED BY <1>7 DEF longer

LEMMA SwingsGrow ==
  ASSUME NEW T, NEW candles \in Seq(T), NEW x \in T, Len(candles) >= 6
  PROVE  /\ \E P : FindSwings(candles, 3) \in Seq(Kinds(P))
                    /\ FindSwings(Append(candles, x), 3) \in Seq(Kinds(P))
         /\ Extends(FindSwings(Append(candles, x), 3), FindSwings(candles, 3), Len(candles) - 2)
<1> DEFINE longer == Append(candles, x)
           n == Len(candles) - 2 * 3
           P == {longer[i].h : i \in 1..Len(longer)} \cup {longer[i].l : i \in 1..Len(longer)}
<1>1. /\ Len(candles) \in Nat /\ Len(longer) = Len(candles) + 1
      /\ \A k \in 1..Len(candles) : longer[k] = candles[k]
  BY AppendProperties
<1>2. n \in Nat /\ Len(candles) - 2 * 3 = n /\ n + 1 \in Nat /\ Len(longer) - 2 * 3 = n + 1
  BY <1>1
<1>3. \A i \in 4..(n + 3) : \A s : Added(longer, i, s) = Added(candles, i, s)
  BY <1>1, PivotsSettled
<1>4. n + 3 = Len(candles) - 3 /\ 3 + (n + 1) = Len(candles) - 2 BY <1>1
<1>5. \A i \in 1..Len(longer) : longer[i].h \in P /\ longer[i].l \in P OBVIOUS
<1> HIDE DEF longer, n, P
<1>6. PICK g : Steps(g, candles, n) /\ FindSwings(candles, 3) = g[n] BY <1>2, FindsSteps
<1>7. PICK h : Steps(h, longer, n + 1) /\ FindSwings(longer, 3) = h[n + 1] BY <1>2, FindsSteps
<1>8. Steps(h, longer, n)
  <2>1. \A k \in 1..n : k \in 1..(n + 1) BY <1>2
  <2> QED BY <1>7, <2>1 DEF Steps
<1>9. h[n] = g[n] BY <1>2, <1>3, <1>6, <1>8, StepsAgree
<1>10. \A i \in 4..(n + 3) : longer[i].h \in P /\ longer[i].l \in P BY <1>1, <1>4, <1>5
<1>11. h[n] \in Seq(Kinds(P)) BY <1>2, <1>8, <1>10, StepsTyped
<1>12. h[n + 1] = Added(longer, Len(candles) - 2, h[n])
  <2>1. n + 1 \in 1..(n + 1) /\ (n + 1) - 1 = n BY <1>2
  <2> QED BY <1>4, <1>7, <2>1 DEF Steps
<1>13. Len(candles) - 2 \in Nat /\ Len(candles) - 2 \in 1..Len(longer) BY <1>1
<1>14. Added(longer, Len(candles) - 2, h[n]) \in Seq(Kinds(P))
       /\ Extends(Added(longer, Len(candles) - 2, h[n]), h[n], Len(candles) - 2)
  BY <1>5, <1>11, <1>13, AddedExtends
<1> QED BY <1>6, <1>7, <1>9, <1>11, <1>12, <1>14 DEF longer

(***************************************************************************)
(* The breaks of the last swings.                                          *)
(***************************************************************************)
Way(high) == IF high THEN "long" ELSE "short"

LEMMA BreakStays ==
  ASSUME NEW T, NEW candles \in Seq(T), NEW x \in T, NEW swing, swing.index \in Nat, NEW a, NEW b,
         NEW e \in ToSet(Break(candles, swing, a, 3))
  PROVE  \E f \in ToSet(Break(Append(candles, x), swing, b, 3)) :
           f.at = e.at /\ f.price = e.price /\ f.direction = e.direction
<1> DEFINE longer == Append(candles, x)
           Past(c, i) == IF swing.high THEN c[i].c > swing.price ELSE c[i].c < swing.price
           Crossing(c) == {i \in (swing.index + 3)..Len(c) : Past(c, i)}
           B == Crossing(candles)
           C == Crossing(longer)
           Event(c, s) == [type |-> IF s = IF swing.high THEN "bearish" ELSE "bullish"
                                      THEN "CHoCH" ELSE "BOS",
                           at |-> Min(Crossing(c)), direction |-> Way(swing.high),
                           price |-> swing.price, age |-> Len(c) - Min(Crossing(c))]
<1>1. /\ Len(candles) \in Nat /\ Len(longer) = Len(candles) + 1
      /\ \A k \in 1..Len(candles) : longer[k] = candles[k]
  BY AppendProperties
<1>2. Break(candles, swing, a, 3) = IF B = {} THEN <<>> ELSE <<Event(candles, a)>>
  BY DEF Break, Way
<1>3. Break(longer, swing, b, 3) = IF C = {} THEN <<>> ELSE <<Event(longer, b)>>
  BY DEF Break, Way
<1> HIDE DEF longer
<1>4. B \subseteq C /\ \A i \in C : i \notin B => i = Len(candles) + 1
  <2>1. \A i \in (swing.index + 3)..Len(longer) :
          \/ i = Len(candles) + 1
          \/ /\ i \in (swing.index + 3)..Len(candles)
             /\ i \in 1..Len(candles)
    BY <1>1
  <2>2. \A i \in (swing.index + 3)..Len(candles) :
          i \in 1..Len(candles) /\ i \in (swing.index + 3)..Len(longer)
    BY <1>1
  <2>3. \A i \in 1..Len(candles) : Past(longer, i) <=> Past(candles, i) BY <1>1
  <2> HIDE DEF Past
  <2> QED BY <2>1, <2>2, <2>3
<1>5. \A i \in B : i <= Len(candles) /\ i \in Nat BY <1>1
<1>6. B # {} /\ e = Event(candles, a)
  <2> HIDE DEF B, Event
  <2>1. CASE B = {} BY <1>2, <2>1 DEF ToSet
  <2>2. CASE B # {} BY <1>2, <2>2 DEF ToSet
  <2> QED BY <2>1, <2>2
<1>7. C # {} BY <1>4, <1>6
<1>8. Min(C) = Min(B)
  <2>1. C \subseteq Nat BY <1>1
  <2>2. B \subseteq Nat BY <1>5
  <2> HIDE DEF B, C
  <2>3. Min(B) \in B /\ \A y \in B : Min(B) <= y BY <1>6, <2>2, LeastOf
  <2>4. Min(C) \in C /\ \A y \in C : Min(C) <= y BY <1>7, <2>1, LeastOf
  <2>5. Min(C) <= Min(B) /\ Min(B) <= Len(candles) /\ Min(B) \in Nat /\ Min(C) \in Nat
    BY <1>4, <1>5, <2>1, <2>3, <2>4
  <2>6. Min(C) \in B BY <1>1, <1>4, <2>4, <2>5
  <2>7. Min(B) <= Min(C) BY <2>3, <2>6
  <2> QED BY <2>5, <2>7
<1>9. Event(longer, b) \in ToSet(Break(longer, swing, b, 3))
  <2> HIDE DEF Event, C
  <2>1. Break(longer, swing, b, 3) = <<Event(longer, b)>> BY <1>3, <1>7
  <2> QED BY <2>1 DEF ToSet
<1>10. Event(longer, b).at = e.at /\ Event(longer, b).price = e.price
       /\ Event(longer, b).direction = e.direction
  BY <1>6, <1>8
<1> HIDE DEF Event
<1> QED BY <1>9, <1>10 DEF longer

\* What is reported of a kind is the break of its last swing.
LEMMA ReportedOf ==
  ASSUME NEW P, NEW swings \in Seq(Kinds(P)), NEW candles, NEW state, NEW high \in BOOLEAN
  PROVE  {e \in ToSet(DetectEvents(candles, swings, state, 3)) : e.direction = Way(high)}
           = ToSet(BreakOfLast(candles, swings, high, state, 3))
<1> DEFINE Of(k) == BreakOfLast(candles, swings, k, state, 3)
<1>1. ASSUME NEW k \in BOOLEAN
      PROVE  Of(k) = <<>> \/ \E r : Of(k) = <<r>> /\ r.direction = Way(k)
  <2> DEFINE I == {i \in 1..Len(swings) : swings[i].high = k}
  <2>1. LastSwing(swings, k) = IF I # {} THEN Max(I) ELSE 0 BY DEF LastSwing, SelectLastInSeq
  <2>2. CASE I = {} BY <2>1, <2>2 DEF BreakOfLast
  <2>3. CASE I # {}
    <3>1. Len(swings) \in Nat OBVIOUS
    <3>2. IsFiniteSet(1..Len(swings)) BY <3>1, FS_Interval
    <3>3. I \subseteq 1..Len(swings) /\ I \subseteq Int OBVIOUS
    <3>4. IsFiniteSet(I) BY <3>2, <3>3, FS_Subset
    <3>5. Max(I) \in I BY <2>3, <3>3, <3>4, FiniteMinMax
    <3>6. LastSwing(swings, k) \in 1..Len(swings) /\ swings[LastSwing(swings, k)].high = k
      BY <2>1, <2>3, <3>5
    <3>7. LastSwing(swings, k) # 0 BY <3>1, <3>6
    <3> DEFINE sw == swings[LastSwing(swings, k)]
    <3>8. Of(k) = Break(candles, sw, state, 3) BY <3>7 DEF BreakOfLast
    <3>9. sw.high = k BY <3>6
    <3> HIDE DEF sw, Of
    <3>10. Break(candles, sw, state, 3) = <<>>
             \/ \E r : Break(candles, sw, state, 3) = <<r>> /\ r.direction = Way(k)
      <4> DEFINE S == {i \in (sw.index + 3)..Len(candles) :
                         IF sw.high THEN candles[i].c > sw.price ELSE candles[i].c < sw.price}
                 r == [type |-> IF state = IF sw.high THEN "bearish" ELSE "bullish"
                                  THEN "CHoCH" ELSE "BOS",
                       at |-> Min(S), direction |-> Way(sw.high),
                       price |-> sw.price, age |-> Len(candles) - Min(S)]
      <4>1. Break(candles, sw, state, 3) = IF S = {} THEN <<>> ELSE <<r>> BY DEF Break, Way
      <4>2. r.direction = Way(k) BY <3>9
      <4> HIDE DEF r, S
      <4> QED BY <4>1, <4>2
    <3> QED BY <3>8, <3>10
  <2> QED BY <2>2, <2>3
<1>2. DetectEvents(candles, swings, state, 3) = Of(TRUE) \o Of(FALSE) BY DEF DetectEvents
<1> HIDE DEF Of
<1>3. (Of(TRUE) = <<>> \/ \E r : Of(TRUE) = <<r>> /\ r.direction = "long")
      /\ (Of(FALSE) = <<>> \/ \E r : Of(FALSE) = <<r>> /\ r.direction = "short")
  BY <1>1 DEF Way
<1>4. ToSet(Of(TRUE) \o Of(FALSE)) = ToSet(Of(TRUE)) \cup ToSet(Of(FALSE))
  <2>1. \A r : <<>> \o <<r>> = <<r>> /\ <<r>> \o <<>> = <<r>> OBVIOUS
  <2>2. ToSet(<<>>) = {} /\ <<>> \o <<>> = <<>> BY DEF ToSet
  <2>3. \A r, q : ToSet(<<r>> \o <<q>>) = {r, q} BY DEF ToSet
  <2>4. \A r : ToSet(<<r>>) = {r} BY DEF ToSet
  <2>5. ASSUME NEW r, NEW q, Of(TRUE) = <<r>>, Of(FALSE) = <<q>>
        PROVE  ToSet(Of(TRUE) \o Of(FALSE)) = ToSet(Of(TRUE)) \cup ToSet(Of(FALSE))
    <3>1. ToSet(<<r>> \o <<q>>) = {r, q} BY <2>3
    <3>2. ToSet(<<r>>) = {r} /\ ToSet(<<q>>) = {q} BY <2>4
    <3> QED BY <2>5, <3>1, <3>2
  <2>6. CASE Of(TRUE) = <<>> /\ Of(FALSE) = <<>> BY <2>2, <2>6
  <2>7. ASSUME NEW r, Of(TRUE) = <<r>>, Of(FALSE) = <<>>
        PROVE  ToSet(Of(TRUE) \o Of(FALSE)) = ToSet(Of(TRUE)) \cup ToSet(Of(FALSE))
    BY <2>1, <2>2, <2>7
  <2>8. ASSUME NEW r, Of(TRUE) = <<>>, Of(FALSE) = <<r>>
        PROVE  ToSet(Of(TRUE) \o Of(FALSE)) = ToSet(Of(TRUE)) \cup ToSet(Of(FALSE))
    BY <2>1, <2>2, <2>8
  <2> QED BY <1>3, <2>5, <2>6, <2>7, <2>8
<1>5. \A e \in ToSet(Of(TRUE)) : e.direction = "long"
  <2>1. ToSet(<<>>) = {} /\ \A r : ToSet(<<r>>) = {r} BY DEF ToSet
  <2> QED BY <1>3, <2>1
<1>6. \A e \in ToSet(Of(FALSE)) : e.direction = "short"
  <2>1. ToSet(<<>>) = {} /\ \A r : ToSet(<<r>>) = {r} BY DEF ToSet
  <2> QED BY <1>3, <2>1
<1>7. CASE high = TRUE BY <1>2, <1>4, <1>5, <1>6, <1>7 DEF Way, Of
<1>8. CASE high = FALSE BY <1>2, <1>4, <1>5, <1>6, <1>8 DEF Way, Of
<1> QED BY <1>7, <1>8

(***************************************************************************)
(* A candle closes.                                                        *)
(***************************************************************************)
IsSeries(candles) == candles \in Seq(ToSet(candles))

LEMMA SeriesGrows ==
  ASSUME NEW candles, IsSeries(candles), NEW x
  PROVE  /\ IsSeries(Append(candles, x)) /\ Len(Append(candles, x)) = Len(candles) + 1
         /\ \E T : candles \in Seq(T) /\ x \in T
<1> DEFINE T == ToSet(candles) \cup {x}
           longer == Append(candles, x)
<1>1. candles \in Seq(T) /\ x \in T
  <2>1. Len(candles) \in Nat /\ candles \in [1..Len(candles) -> ToSet(candles)] BY DEF IsSeries
  <2>2. candles \in [1..Len(candles) -> T] BY <2>1
  <2> HIDE DEF T
  <2>3. candles \in Seq(T) BY <2>1, <2>2
  <2> QED BY <2>3 DEF T
<1> HIDE DEF T
<1>2. longer \in Seq(T) /\ Len(longer) = Len(candles) + 1 BY <1>1, AppendProperties
<1> HIDE DEF longer
<1>3. Len(longer) \in Nat /\ longer = [i \in 1..Len(longer) |-> longer[i]]
      /\ DOMAIN longer = 1..Len(longer)
  BY <1>2
<1>4. longer \in [1..Len(longer) -> ToSet(longer)] BY <1>3 DEF ToSet
<1>5. longer \in Seq(ToSet(longer))
  <2> DEFINE U == ToSet(longer)
  <2>1. longer \in [1..Len(longer) -> U] BY <1>4
  <2> HIDE DEF U
  <2>2. longer \in Seq(U) BY <1>3, <2>1
  <2> QED BY <2>2 DEF U
<1> QED BY <1>1, <1>2, <1>5 DEF IsSeries, longer

LEMMA GrowingKeeps ==
  ASSUME IsSeries(series), Len(series) >= 9, NEW x, series' = Append(series, x)
  PROVE  KeepsReported
<1> DEFINE longer == Append(series, x)
           s == FindSwings(series, 3)
           t == FindSwings(longer, 3)
           a == Classify(s)
           b == Classify(t)
           before == Analyze(series, 3)
           after == Analyze(longer, 3)
<1>1. Len(series) \in Nat /\ Len(longer) = Len(series) + 1 BY SeriesGrows DEF IsSeries
<1>2. PICK T : series \in Seq(T) /\ x \in T BY SeriesGrows
<1>3. PICK P : s \in Seq(Kinds(P)) /\ t \in Seq(Kinds(P)) BY <1>1, <1>2, SwingsGrow
<1>4. Extends(t, s, Len(series) - 2) BY <1>1, <1>2, SwingsGrow
<1>5. /\ before.swings = s /\ before.events = DetectEvents(series, s, a, 3)
      /\ after.swings = t /\ after.events = DetectEvents(longer, t, b, 3)
  BY <1>1 DEF Analyze
<1>6. KeepsReported <=> Kept(before, after) BY DEF KeepsReported, DefaultDepth
<1>7. Len(series') - 3 = Len(series) - 2 BY <1>1
<1> HIDE DEF longer, s, t, a, b, before, after
<1>8. Len(s) \in Nat /\ Len(t) \in Nat /\ DOMAIN s = 1..Len(s) /\ DOMAIN t = 1..Len(t) BY <1>3
<1>9. IsPrefix(s, t)
  <2>1. Len(s) <= Len(t) /\ \A k \in 1..Len(s) : t[k] = s[k] BY <1>4 DEF Extends
  <2>2. SubSeq(s, 1, Len(s)) = SubSeq(t, 1, Len(s)) BY <1>3, <1>8, <2>1
  <2> QED BY <2>1, <2>2 DEF IsPrefix
<1>10. \A n \in DOMAIN t \ DOMAIN s : t[n].index = Len(series') - 3
  <2> SUFFICES ASSUME NEW n \in DOMAIN t \ DOMAIN s PROVE t[n].index = Len(series') - 3 OBVIOUS
  <2>1. n \in 1..Len(t) /\ n > Len(s) BY <1>8
  <2> QED BY <2>1, <1>4, <1>7 DEF Extends
<1>11. ASSUME NEW high \in BOOLEAN, LastSwing(s, high) = LastSwing(t, high),
              NEW e \in EventsOf(before, high)
       PROVE  \E f \in EventsOf(after, high) : f.at = e.at /\ f.price = e.price
  <2> DEFINE n == LastSwing(s, high)
  <2>1. EventsOf(before, high) = ToSet(BreakOfLast(series, s, high, a, 3))
    BY <1>3, <1>5, ReportedOf DEF EventsOf, Way
  <2>2. EventsOf(after, high) = ToSet(BreakOfLast(longer, t, high, b, 3))
    BY <1>3, <1>5, ReportedOf DEF EventsOf, Way
  <2>3. n # 0
    <3>1. CASE n = 0
      <4>1. BreakOfLast(series, s, high, a, 3) = <<>> BY <3>1 DEF BreakOfLast
      <4> QED BY <4>1, <2>1, <1>11 DEF ToSet
    <3> QED BY <3>1
  <2>4. n \in 1..Len(s)
    <3> DEFINE I == {i \in 1..Len(s) : s[i].high = high}
    <3>1. n = IF I # {} THEN Max(I) ELSE 0 BY DEF LastSwing, SelectLastInSeq
    <3>2. IsFiniteSet(1..Len(s)) BY <1>8, FS_Interval
    <3>3. I \subseteq 1..Len(s) /\ I \subseteq Int BY <1>8
    <3>4. IsFiniteSet(I) BY <3>2, <3>3, FS_Subset
    <3>5. I # {} => Max(I) \in I BY <3>3, <3>4, FiniteMinMax
    <3> QED BY <3>1, <3>5, <2>3
  <2>5. t[n] = s[n] /\ s[n].index \in Nat
    <3>1. t[n] = s[n] BY <1>4, <2>4 DEF Extends
    <3>2. s[n] \in Kinds(P) BY <1>3, <2>4, ElementOfSeq
    <3> QED BY <3>1, <3>2 DEF Kinds
  <2>6. BreakOfLast(series, s, high, a, 3) = Break(series, s[n], a, 3) BY <2>3 DEF BreakOfLast
  <2>7. BreakOfLast(longer, t, high, b, 3) = Break(longer, s[n], b, 3)
    BY <1>11, <2>3, <2>5 DEF BreakOfLast
  <2> HIDE DEF n
  <2> QED BY <1>2, <1>11, <2>1, <2>2, <2>5, <2>6, <2>7, BreakStays DEF longer
<1>12. Kept(before, after) BY <1>5, <1>9, <1>10, <1>11 DEF Kept, DefaultDepth
<1> QED BY <1>6, <1>12

Charted == stage = "idle" => IsSeries(series) /\ Len(series) >= 9

LEMMA ChartedStays ==
  ASSUME Charted, [Next]_<<adviceVars, signalVars>>
  PROVE  Charted' /\ [stage' = "idle" => KeepsReported]_signalVars
<1>1. CASE UNCHANGED <<adviceVars, signalVars>>
  <2>1. stage' = stage /\ series' = series /\ UNCHANGED signalVars BY <1>1 DEF adviceVars, signalVars
  <2> QED BY <2>1 DEF Charted
<1>2. CASE stage = "idle" /\ SignalStep /\ UNCHANGED adviceVars
  <2>1. PICK x : series' = Append(series, x) BY <1>2 DEF SignalStep, CandleCloses
  <2>2. IsSeries(series) /\ Len(series) >= 9 BY <1>2 DEF Charted
  <2>3. Len(series) \in Nat BY <2>2 DEF IsSeries
  <2>4. IsSeries(series)' /\ Len(series') >= 9 BY <2>1, <2>2, <2>3, SeriesGrows DEF IsSeries
  <2> QED BY <2>1, <2>2, <2>4, GrowingKeeps DEF Charted
<1>3. CASE \E s \in Situations, p \in Policies, a \in Replies : Ask(s, a, p)
  <2>1. stage' = "answered" BY <1>3 DEF Ask, AskModel
  <2> QED BY <2>1 DEF Charted
<1>4. CASE AdviceStep /\ UNCHANGED signalVars
  <2>1. stage' # "idle" \/ stage' = stage
    BY <1>4 DEF AdviceStep, Validate, Assess, Insert, EditPolicy, Trade, StoreFine, StoreCoarse, ReadFine, Grade
  <2> QED BY <1>4, <2>1 DEF Charted, signalVars
<1> QED BY <1>1, <1>2, <1>3, <1>4 DEF Next

\* Anti-repainting: as candles close, what the structure analysis has
\* reported stays, at the same candle and with the same label, new swings are
\* at the candle that has just been confirmed, and the break of a swing that
\* stays the last stays where it was found (marketstructure/structure.go:51-217).
THEOREM NoRepaintHolds == Spec => NoRepaint
<1>1. Init => Charted
  <2> SUFFICES ASSUME Init PROVE Charted OBVIOUS
  <2>1. PICK start \in Starts : series = start.series BY DEF Init, SignalInit
  <2> QED BY <2>1, StartsAreLong DEF Charted, IsSeries, DefaultDepth
<1>2. Charted /\ [Next]_<<adviceVars, signalVars>>
        => Charted' /\ [stage' = "idle" => KeepsReported]_signalVars
  BY ChartedStays
<1> QED BY <1>1, <1>2, PTL DEF Spec, NoRepaint

(***************************************************************************)
(* The vote: totals, what one item is worth, and the confidence.           *)
(***************************************************************************)
LEMMA TotalIsSum ==
  ASSUME NEW n \in Nat, NEW t \in [1..n -> Int], NEW g, Sums(g, t, 1..n)
  PROVE  Total(t) = g[1..n]
<1> DEFINE D == 1..n
           Some(s) == CHOOSE x \in s : TRUE
           Iter(f) == [s \in SUBSET D |-> IF s = {} THEN 0 ELSE t[Some(s)] + f[s \ {Some(s)}]]
           iter == CHOOSE f : f = Iter(f)
<1>1. \A s \in SUBSET D : s # {} => Some(s) \in s OBVIOUS
<1>2. IsFiniteSet(D) BY FS_Interval
<1>3. DOMAIN t = D OBVIOUS
<1>4. \A i \in D : t[i] \in Int OBVIOUS
<1>5. /\ g \in [SUBSET D -> Int] /\ g[{}] = 0
      /\ \A S \in SUBSET D : \A x \in S : g[S] = g[S \ {x}] + t[x]
  BY DEF Sums
<1> HIDE DEF D, Some
<1>6. \A s \in SUBSET D : s # {} => g[s] = t[Some(s)] + g[s \ {Some(s)}]
  <2> SUFFICES ASSUME NEW s \in SUBSET D, s # {}
               PROVE  g[s] = t[Some(s)] + g[s \ {Some(s)}]
    OBVIOUS
  <2>1. PICK x : x = Some(s) OBVIOUS
  <2>2. x \in s BY <1>1, <2>1
  <2>3. g[s] = g[s \ {x}] + t[x] BY <2>2, <1>5
  <2>4. t[x] \in Int BY <2>2, <1>4
  <2>5. s \ {x} \in SUBSET D OBVIOUS
  <2>6. g[s \ {x}] \in Int BY <2>5, <1>5
  <2>7. g[s] = t[x] + g[s \ {x}] BY <2>3, <2>4, <2>6
  <2> QED BY <2>1, <2>7
<1>7. g = Iter(g)
  <2>1. \A s \in SUBSET D : g[s] = Iter(g)[s] BY <1>5, <1>6
  <2>2. g = [s \in SUBSET D |-> g[s]] BY <1>5
  <2> QED BY <2>1, <2>2
<1>8. iter = Iter(iter) BY <1>7
<1>9. Total(t) = iter[D] BY <1>3 DEF Total, MapThenSumSet, MapThenFoldSet, Some
<1> HIDE DEF iter
<1> DEFINE Bad == {s \in SUBSET D : iter[s] # g[s]}
<1>10. Bad = {}
  <2>1. SUFFICES ASSUME Bad # {} PROVE FALSE OBVIOUS
  <2>2. Bad \subseteq FiniteSubsetsOf(D) BY <1>2, FS_Subset DEF FiniteSubsetsOf
  <2>3. PICK U \in Bad : \A V \in Bad : ~ (<<V, U>> \in StrictSubsetOrdering(D))
    <3> HIDE DEF Bad
    <3> QED BY <2>1, <2>2, WFMin, FS_StrictSubsetOrderingWellFounded
  <2>4. U \in SUBSET D /\ iter[U] # g[U] OBVIOUS
  <2>5. CASE U = {}
    <3>1. iter[{}] = 0 BY <1>8
    <3> QED BY <3>1, <2>4, <2>5, <1>5
  <2>6. CASE U # {}
    <3> DEFINE x == Some(U)
               V == U \ {x}
    <3>1. x \in U BY <2>4, <2>6, <1>1
    <3>2. iter[U] = t[x] + iter[V] BY <1>8, <2>4, <2>6
    <3>3. g[U] = t[x] + g[V] BY <1>6, <2>4, <2>6
    <3> HIDE DEF x
    <3>4. V \in SUBSET D /\ V \subseteq U /\ V # U BY <3>1, <2>4
    <3>5. <<V, U>> \in StrictSubsetOrdering(D) BY <3>4, <2>4 DEF StrictSubsetOrdering
    <3>6. iter[V] = g[V] BY <2>3, <3>4, <3>5
    <3> QED BY <3>2, <3>3, <3>6, <2>4
  <2> QED BY <2>5, <2>6
<1> QED BY <1>9, <1>10 DEF D

LEMMA TotalsCompare ==
  ASSUME NEW n \in Nat, NEW t \in [1..n -> Int], NEW u \in [1..n -> Int],
         \A i \in 1..n : t[i] <= u[i]
  PROVE  Total(t) \in Int /\ Total(u) \in Int /\ Total(t) <= Total(u)
<1>1. PICK g : Sums(g, t, 1..n) BY SumsExist
<1>2. PICK h : Sums(h, u, 1..n) BY SumsExist
<1>3. Total(t) = g[1..n] BY <1>1, TotalIsSum
<1>4. Total(u) = h[1..n] BY <1>2, TotalIsSum
<1>5. \A k \in 0..n : g[1..k] \in Int /\ h[1..k] \in Int
  <2> SUFFICES ASSUME NEW k \in 0..n PROVE g[1..k] \in Int /\ h[1..k] \in Int OBVIOUS
  <2>1. 1..k \in SUBSET (1..n) OBVIOUS
  <2> QED BY <2>1, <1>1, <1>2 DEF Sums
<1> DEFINE Bad == {k \in 0..n : ~ (g[1..k] <= h[1..k])}
<1>6. Bad = {}
  <2>1. SUFFICES ASSUME Bad # {} PROVE FALSE OBVIOUS
  <2> DEFINE m == Min(Bad)
  <2>2. m \in Bad /\ \A y \in Bad : m <= y
    <3>1. Bad \subseteq Nat OBVIOUS
    <3> HIDE DEF Bad
    <3> QED BY <2>1, <3>1, LeastOf
  <2>3. m \in 0..n /\ ~ (g[1..m] <= h[1..m]) BY <2>2
  <2>4. \A k \in 0..n : k < m => g[1..k] <= h[1..k]
    <3> SUFFICES ASSUME NEW k \in 0..n, k < m PROVE k \notin Bad OBVIOUS
    <3>1. m \in Int BY <2>3
    <3> HIDE DEF m, Bad
    <3> QED BY <2>2, <3>1
  <2> HIDE DEF m, Bad
  <2>5. CASE m = 0
    <3>1. 1..m = {} BY <2>5
    <3>2. g[1..m] = 0 /\ h[1..m] = 0 BY <3>1, <1>1, <1>2 DEF Sums
    <3> QED BY <3>2, <2>3
  <2>6. CASE m # 0
    <3>1. m \in 1..n /\ m - 1 \in 0..n /\ m - 1 < m BY <2>3, <2>6
    <3>2. g[1..(m - 1)] <= h[1..(m - 1)] BY <3>1, <2>4
    <3>3. 1..m \in SUBSET (1..n) /\ m \in 1..m /\ (1..m) \ {m} = 1..(m - 1) BY <3>1
    <3>4. g[1..m] = g[1..(m - 1)] + t[m] BY <3>3, <1>1 DEF Sums
    <3>5. h[1..m] = h[1..(m - 1)] + u[m] BY <3>3, <1>2 DEF Sums
    <3>6. t[m] \in Int /\ u[m] \in Int /\ t[m] <= u[m] BY <3>1
    <3>7. g[1..(m - 1)] \in Int /\ h[1..(m - 1)] \in Int BY <3>1, <1>5
    <3> QED BY <3>2, <3>4, <3>5, <3>6, <3>7, <2>3
  <2> QED BY <2>5, <2>6
<1>7. n \in 0..n OBVIOUS
<1>8. g[1..n] <= h[1..n] BY <1>6, <1>7
<1> QED BY <1>3, <1>4, <1>5, <1>7, <1>8

LEMMA TimesIs ==
  ASSUME NEW x \in Int, NEW y \in Nat
  PROVE  /\ Times(x, y) \in Int
         /\ x >= 0 => Times(x, y) >= 0
         /\ x <= 0 => Times(x, y) <= 0
         /\ y <= 1000 => Size(Times(x, y)) <= Size(x)
         /\ y = 1000 => Times(x, y) = x
<1> DEFINE a == Size(x)
           z == (a * y + 500) \div 1000
<1>1. a \in Nat /\ Size(y) = y BY DEF Size
<1> HIDE DEF a
<1>2. PICK p \in Nat : p = a * y BY <1>1
<1>3. y <= 1000 => p <= a * 1000 BY <1>1, <1>2
<1>4. y = 1000 => p = a * 1000 BY <1>1, <1>2
<1>5. z \in Int /\ 1000 * z <= p + 500 /\ p + 500 < 1000 * z + 1000 BY <1>2, Quotient
<1>6. Times(x, y) = IF (x < 0) = (y < 0) THEN z ELSE -z BY <1>1 DEF Times, a
<1> HIDE DEF z
<1>7. z \in Nat /\ (y <= 1000 => z <= a) /\ (y = 1000 => z = a) BY <1>1, <1>2, <1>3, <1>4, <1>5
<1>8. x = 0 => z = 0 BY <1>1, <1>2, <1>5 DEF a, Size
<1>9. Times(x, y) = IF x < 0 THEN -z ELSE z BY <1>6
<1> QED BY <1>7, <1>8, <1>9 DEF a, Size

\* What is known of an item of the policy and its opinion.
Ballots(S) ==
  [id: S, kind: S, style: S, weight: Int, enabled: S, veto: S, says: S, strength: 0..1000]
IsBallot(b) == \E S : b \in Ballots(S)

LEMMA BallotFields ==
  ASSUME NEW b, IsBallot(b)
  PROVE  b.weight \in Int /\ b.strength \in Nat /\ b.strength <= 1000
BY DEF IsBallot, Ballots

LEMMA WeightedIs ==
  ASSUME NEW b, IsBallot(b), NEW r, NEW a
  PROVE  /\ Weighted(b, r, a) \in Int
         /\ b.weight > 0 => Weighted(b, r, a) >= 0
         /\ b.weight < 0 => Weighted(b, r, a) <= 0
<1>1. PICK m \in Nat : m = Multiplier(b, r, a) BY DEF Multiplier
<1>2. PICK w \in Int : w = b.weight BY BallotFields
<1>3. Times(w, m) \in Int /\ (w >= 0 => Times(w, m) >= 0) /\ (w <= 0 => Times(w, m) <= 0) BY TimesIs
<1> QED BY <1>1, <1>2, <1>3 DEF Weighted

Sides == {"long", "short"}

LEMMA SupportIs ==
  ASSUME NEW b, IsBallot(b), NEW r, NEW a, NEW side \in Sides
  PROVE  /\ Support(b, side, r, a) \in Int /\ Voice(b, r, a) \in Int
         /\ 0 <= Support(b, side, r, a) /\ Support(b, side, r, a) <= Voice(b, r, a)
<1>1. PICK w \in Int : w = Weighted(b, r, a) BY WeightedIs
<1>2. PICK s \in Nat : s = b.strength /\ s <= 1000 BY BallotFields
<1>3. PICK z \in Int : z = Times(w, s) /\ Size(z) <= Size(w) BY <1>2, TimesIs
<1>4. Ballot(b, r, a) \in {0, z, -z}
  <2>1. z * 1 = z /\ z * (-1) = -z OBVIOUS
  <2> QED BY <2>1, <1>1, <1>2, <1>3 DEF Ballot
<1>5. PICK v \in Int : v = Ballot(b, r, a) /\ Size(v) <= Size(w) BY <1>3, <1>4 DEF Size
<1> QED BY <1>1, <1>5 DEF Support, Voice, AtLeast, Size

LEMMA SpeakingIs ==
  ASSUME NEW b, IsBallot(b), Enabled(b), Directional(b), NEW side \in Sides, NEW r, NEW a
  PROVE  /\ IsBallot(Speaking(b, side))
         /\ Voice(Speaking(b, side), r, a) = Voice(b, r, a)
         /\ Support(Speaking(b, side), side, r, a) = Voice(b, r, a)
         /\ \A other \in Sides \ {side} : Support(Speaking(b, side), other, r, a) = 0
         /\ ~ Arguing(Speaking(b, side)) /\ ~ Arguing(b)
<1> DEFINE c == Speaking(b, side)
<1>1. PICK S : b \in Ballots(S) BY DEF IsBallot
<1>2. IsBallot(c)
  <2>1. For(b, side).says \in S \cup Sides BY DEF For, Says, Sides
  <2>2. PICK f : f = For(b, side).says OBVIOUS
  <2>3. b \in Ballots(S \cup Sides) BY <1>1 DEF Ballots
  <2>4. PICK T : b \in Ballots(T) /\ f \in T BY <2>1, <2>2, <2>3
  <2>5. [b EXCEPT !.says = f] \in Ballots(T) BY <2>4 DEF Ballots
  <2>6. PICK d \in Ballots(T) : d = [b EXCEPT !.says = f] BY <2>5
  <2>7. c = [d EXCEPT !.strength = 1000] BY <2>2, <2>6 DEF Speaking
  <2>8. [d EXCEPT !.strength = 1000] \in Ballots(T) BY DEF Ballots
  <2> QED BY <2>7, <2>8 DEF IsBallot
<1>3. c.weight = b.weight /\ c.style = b.style /\ c.enabled = b.enabled /\ c.kind = b.kind
  BY <1>1 DEF Ballots, Speaking
<1>4. /\ c.strength = 1000
      /\ c.says = IF (b.weight > 0) = (side = "long") THEN "long" ELSE "short"
  BY <1>1 DEF For, Says, Ballots, Speaking
<1> HIDE DEF c
<1>5. PICK w \in Int : w = Weighted(b, r, a) /\ (b.weight > 0 => w >= 0) /\ (b.weight < 0 => w <= 0)
  BY WeightedIs
<1>6. Weighted(c, r, a) = w BY <1>3, <1>5 DEF Weighted, Multiplier
<1>7. Times(w, 1000) = w BY TimesIs
<1>8. Ballot(c, r, a) = w * IF c.says = "short" THEN -1 ELSE 1 BY <1>4, <1>6, <1>7 DEF Ballot
<1>9. b.weight \in Int /\ b.weight # 0 BY BallotFields DEF Enabled
<1>10. Enabled(c) /\ Directional(c) BY <1>3 DEF Enabled, Directional
<1>11. Ballot(c, r, a) = IF side = "long" THEN Size(w) ELSE -Size(w)
  <2>1. w * 1 = w /\ w * (-1) = -w OBVIOUS
  <2>2. CASE side = "long" BY <2>1, <2>2, <1>4, <1>5, <1>8, <1>9 DEF Size
  <2>3. CASE side = "short" BY <2>1, <2>3, <1>4, <1>5, <1>8, <1>9 DEF Size
  <2> QED BY <2>2, <2>3 DEF Sides
<1>12. Voice(c, r, a) = Size(w) /\ Voice(b, r, a) = Size(w) BY <1>5, <1>6, <1>10 DEF Voice
<1>13. Support(c, side, r, a) = Size(w) BY <1>10, <1>11 DEF Support, AtLeast, Size, Sides
<1>14. \A other \in Sides \ {side} : Support(c, other, r, a) = 0
  BY <1>10, <1>11 DEF Support, AtLeast, Size, Sides
<1>15. ~ Arguing(c) /\ ~ Arguing(b) BY <1>10 DEF Arguing
<1> QED BY <1>2, <1>12, <1>13, <1>14, <1>15 DEF c

LEMMA BlockingIs ==
  ASSUME NEW b, IsBallot(b), NEW side
  PROVE  Blocking(b, side) \in Int /\ Blocking(b, side) >= 0
<1>1. PICK w \in Nat : w = Size(b.weight) BY BallotFields DEF Size
<1>2. PICK s \in Nat : s = b.strength BY BallotFields
<1>3. Times(w, s) \in Int /\ Times(w, s) >= 0 BY TimesIs
<1> QED BY <1>1, <1>2, <1>3 DEF Blocking

LEMMA SilencedIs ==
  ASSUME NEW b, IsBallot(b), ~ Directional(b), NEW r, NEW a
  PROVE  /\ IsBallot(Silenced(b))
         /\ Voice(Silenced(b), r, a) = Voice(b, r, a)
         /\ \A side \in Sides : Support(Silenced(b), side, r, a) = Support(b, side, r, a)
         /\ ~ Arguing(Silenced(b))
<1> DEFINE c == Silenced(b)
<1>1. PICK S : b \in Ballots(S) BY DEF IsBallot
<1>2. IsBallot(c)
  <2>1. b \in Ballots(S \cup {"none"}) BY <1>1 DEF Ballots
  <2>2. PICK T : b \in Ballots(T) /\ "none" \in T BY <2>1
  <2>3. [b EXCEPT !.says = "none"] \in Ballots(T) BY <2>2 DEF Ballots
  <2>4. PICK d \in Ballots(T) : d = [b EXCEPT !.says = "none"] BY <2>3
  <2>5. c = [d EXCEPT !.strength = 0] BY <2>4 DEF Silenced
  <2>6. [d EXCEPT !.strength = 0] \in Ballots(T) BY DEF Ballots
  <2> QED BY <2>5, <2>6 DEF IsBallot
<1>3. c.kind = b.kind /\ c.says = "none" BY <1>1 DEF Ballots, Silenced
<1> HIDE DEF c
<1>4. ~ Directional(c) BY <1>3 DEF Directional
<1> QED BY <1>2, <1>3, <1>4 DEF Voice, Support, Arguing, c

\* More on one side and less on the other is never less confident.
LEMMA ConfidenceGrows ==
  ASSUME NEW w \in Nat, NEW l \in Nat, NEW x \in Nat, NEW m \in Nat, NEW t \in Nat,
         t > 0, l < w, w <= x, m <= l
  PROVE  /\ ConfidenceOf(w, l, t) \in Int /\ ConfidenceOf(x, m, t) \in Int
         /\ ConfidenceOf(w, l, t) <= ConfidenceOf(x, m, t)
<1> DEFINE p == (1000 * (w - l)) \div (w + l)
           q == (1000 * (x - m)) \div (x + m)
           c == AtMost((2000 * w) \div t, 1000)
           d == AtMost((2000 * x) \div t, 1000)
<1>1. /\ p \in Int /\ (w + l) * p <= 1000 * (w - l)
      /\ 1000 * (w - l) < (w + l) * p + (w + l)
  BY Quotient
<1>2. /\ q \in Int /\ (x + m) * q <= 1000 * (x - m)
      /\ 1000 * (x - m) < (x + m) * q + (x + m)
  BY Quotient
<1>3. /\ (2000 * w) \div t \in Int /\ t * ((2000 * w) \div t) <= 2000 * w
      /\ 2000 * w < t * ((2000 * w) \div t) + t
  BY Quotient
<1>4. /\ (2000 * x) \div t \in Int /\ t * ((2000 * x) \div t) <= 2000 * x
      /\ 2000 * x < t * ((2000 * x) \div t) + t
  BY Quotient
<1>5. c \in Nat /\ d \in Nat /\ c <= d
  <2>1. PICK e \in Int : e = (2000 * w) \div t BY <1>3
  <2>2. PICK f \in Int : f = (2000 * x) \div t BY <1>4
  <2>3. t * e <= 2000 * w /\ 2000 * w < t * e + t BY <1>3, <2>1
  <2>4. t * f <= 2000 * x /\ 2000 * x < t * f + t BY <1>4, <2>2
  <2>5. e <= f
    <3> SUFFICES ASSUME f + 1 <= e PROVE FALSE OBVIOUS
    <3>1. t * (f + 1) <= t * e /\ t * (f + 1) = t * f + t OBVIOUS
    <3> QED BY <3>1, <2>3, <2>4
  <2>6. e >= 0
    <3> SUFFICES ASSUME e + 1 <= 0 PROVE FALSE OBVIOUS
    <3>1. t * (e + 1) <= t * 0 /\ t * (e + 1) = t * e + t OBVIOUS
    <3> QED BY <3>1, <2>3
  <2> QED BY <2>1, <2>2, <2>5, <2>6 DEF AtMost
<1> HIDE DEF p, q
<1>6. p >= 0
  <2> SUFFICES ASSUME p + 1 <= 0 PROVE FALSE BY <1>1
  <2>1. (w + l) * (p + 1) <= (w + l) * 0 /\ (w + l) * (p + 1) = (w + l) * p + (w + l) BY <1>1
  <2> QED BY <2>1, <1>1
<1>7. p <= q
  <2> SUFFICES ASSUME q + 1 <= p PROVE FALSE BY <1>1, <1>2
  <2>1. (x + m) * (q + 1) <= (x + m) * p /\ (x + m) * (q + 1) = (x + m) * q + (x + m) BY <1>1, <1>2
  <2>2. 1000 * (x - m) < (x + m) * p BY <2>1, <1>1, <1>2
  <2>3. PICK u \in Int : u = (x + m) * p BY <1>1
  <2>4. PICK v \in Int : v = (w + l) * p BY <1>1
  <2>5. (w + l) * (1000 * (x - m)) < (w + l) * u BY <2>2, <2>3
  <2>6. (w + l) * u = (x + m) * v BY <2>3, <2>4, <1>1
  <2>7. (x + m) * v <= (x + m) * (1000 * (w - l)) BY <1>1, <2>4
  <2>8. (x + m) * (1000 * (w - l)) <= (w + l) * (1000 * (x - m))
    <3>1. x * l >= w * l /\ w * l >= w * m OBVIOUS
    <3>2. PICK i \in Int : i = x * l OBVIOUS
    <3>3. PICK j \in Int : j = w * m OBVIOUS
    <3>4. PICK k \in Int : k = x * w OBVIOUS
    <3>5. PICK o \in Int : o = m * l OBVIOUS
    <3>6. (x + m) * (1000 * (w - l)) = 1000 * (k - i + j - o) BY <3>2, <3>3, <3>4, <3>5
    <3>7. (w + l) * (1000 * (x - m)) = 1000 * (k - j + i - o) BY <3>2, <3>3, <3>4, <3>5
    <3>8. i >= j BY <3>1, <3>2, <3>3
    <3> QED BY <3>6, <3>7, <3>8
  <2>9. (w + l) * (1000 * (x - m)) \in Int /\ (w + l) * u \in Int /\ (x + m) * v \in Int
    OBVIOUS
  <2>10. (x + m) * (1000 * (w - l)) \in Int OBVIOUS
  <2> QED BY <2>5, <2>6, <2>7, <2>8, <2>9, <2>10
<1>8. PICK y \in Int : y = (50000000 + 45 * p * c + 500000) BY <1>1, <1>5
<1>9. PICK z \in Int : z = (50000000 + 45 * q * d + 500000) BY <1>2, <1>5
<1>10. y <= z
  <2>1. p * c <= q * c BY <1>1, <1>2, <1>5, <1>7
  <2>2. q * c <= q * d BY <1>1, <1>2, <1>5, <1>6, <1>7
  <2>3. PICK i \in Int : i = p * c BY <1>1, <1>5
  <2>4. PICK j \in Int : j = q * d BY <1>2, <1>5
  <2>5. PICK k \in Int : k = q * c BY <1>2, <1>5
  <2>6. i <= j BY <2>1, <2>2, <2>3, <2>4, <2>5
  <2>7. 45 * p * c = 45 * i /\ 45 * q * d = 45 * j BY <2>3, <2>4, <1>1, <1>2, <1>5
  <2> QED BY <2>6, <2>7, <1>8, <1>9
<1>11. ConfidenceOf(w, l, t) = y \div 1000000 BY <1>8 DEF ConfidenceOf, p, c
<1>12. ConfidenceOf(x, m, t) = z \div 1000000 BY <1>9 DEF ConfidenceOf, q, d
<1>13. y \div 1000000 \in Int /\ 1000000 * (y \div 1000000) <= y BY Quotient
<1>14. z \div 1000000 \in Int /\ z < 1000000 * (z \div 1000000) + 1000000 BY Quotient
<1>15. y \div 1000000 <= z \div 1000000 BY <1>10, <1>13, <1>14
<1> QED BY <1>11, <1>12, <1>13, <1>14, <1>15

(***************************************************************************)
(* What is decided, and what one more voice or one filter less changes.    *)
(***************************************************************************)
Polls(V, n) == n \in Nat /\ DOMAIN V = 1..n /\ \A i \in 1..n : IsBallot(V[i])

Other(side) == IF side = "long" THEN "short" ELSE "long"
Scored(V, side, r, a) == Total([i \in DOMAIN V |-> Support(V[i], side, r, a)])
Heard(V, r, a) == Total([i \in DOMAIN V |-> Voice(V[i], r, a)])
Objections(V, side) == Total([i \in DOMAIN V |-> Blocking(V[i], side)])
Refused(V, side) == \E f \in {g \in ToSet(V) : Arguing(g)} : f.veto /\ Applies(f, side)

\* When an entry is taken on a side, and with which confidence.
Enters(rules, V, side, r) ==
  LET won == Scored(V, side, r, rules.adaptive)
      lost == Scored(V, Other(side), r, rules.adaptive)
  IN /\ side \in Sides /\ won > lost
     /\ Allows(rules.sides, side) /\ ~ Refused(V, side)
     /\ ~ (won - lost < rules.minSignal) /\ ~ (won - lost <= Objections(V, side))
Trusted(rules, V, side, r) ==
  ConfidenceOf(Scored(V, side, r, rules.adaptive), Scored(V, Other(side), r, rules.adaptive),
               Heard(V, r, rules.adaptive))
Entered(side, confidence) ==
  [action |-> IF side = "long" THEN "OPEN_LONG" ELSE "OPEN_SHORT", reason |-> "entry",
   confidence |-> confidence]

LEMMA ScoresAre ==
  ASSUME NEW n, NEW V, Polls(V, n), NEW r, NEW a, NEW side \in Sides
  PROVE  /\ Scored(V, side, r, a) \in Int /\ Heard(V, r, a) \in Int
         /\ 0 <= Scored(V, side, r, a) /\ Scored(V, side, r, a) <= Heard(V, r, a)
<1> DEFINE z == [i \in 1..n |-> 0]
           t == [i \in 1..n |-> Support(V[i], side, r, a)]
           u == [i \in 1..n |-> Voice(V[i], r, a)]
<1>1. n \in Nat /\ DOMAIN V = 1..n BY DEF Polls
<1>2. \A i \in 1..n : /\ Support(V[i], side, r, a) \in Int /\ Voice(V[i], r, a) \in Int
                      /\ 0 <= Support(V[i], side, r, a)
                      /\ Support(V[i], side, r, a) <= Voice(V[i], r, a)
  BY SupportIs DEF Polls
<1>3. t \in [1..n -> Int] /\ u \in [1..n -> Int] /\ z \in [1..n -> Int] BY <1>2
<1>4. \A i \in 1..n : z[i] <= t[i] /\ t[i] <= u[i] BY <1>2
<1>5. Scored(V, side, r, a) = Total(t) /\ Heard(V, r, a) = Total(u) BY <1>1 DEF Scored, Heard
<1>6. Total(z) = 0
  <2> DEFINE g == [S \in SUBSET (1..n) |-> 0]
  <2>1. Sums(g, z, 1..n) BY DEF Sums
  <2>2. g[1..n] = 0 OBVIOUS
  <2> HIDE DEF g, z
  <2> QED BY <1>1, <1>3, <2>1, <2>2, TotalIsSum
<1> HIDE DEF z, t, u
<1>7. Total(z) <= Total(t) /\ Total(t) <= Total(u) /\ Total(t) \in Int /\ Total(u) \in Int
  BY <1>1, <1>3, <1>4, TotalsCompare
<1> QED BY <1>5, <1>6, <1>7

LEMMA ObjectionsAre ==
  ASSUME NEW n, NEW V, Polls(V, n), NEW side
  PROVE  Objections(V, side) \in Int
<1> DEFINE t == [i \in 1..n |-> Blocking(V[i], side)]
<1>1. n \in Nat /\ DOMAIN V = 1..n BY DEF Polls
<1>2. t \in [1..n -> Int] BY BlockingIs DEF Polls
<1>3. \A i \in 1..n : t[i] <= t[i] BY <1>2
<1>4. Objections(V, side) = Total(t) BY <1>1 DEF Objections
<1> HIDE DEF t
<1> QED BY <1>1, <1>2, <1>3, <1>4, TotalsCompare

LEMMA ScoresCompare ==
  ASSUME NEW n, NEW V, NEW W, Polls(V, n), Polls(W, n), NEW r, NEW a, NEW side \in Sides,
         \A i \in 1..n : Support(V[i], side, r, a) <= Support(W[i], side, r, a)
  PROVE  Scored(V, side, r, a) <= Scored(W, side, r, a)
<1> DEFINE t == [i \in 1..n |-> Support(V[i], side, r, a)]
           u == [i \in 1..n |-> Support(W[i], side, r, a)]
<1>1. n \in Nat /\ DOMAIN V = 1..n /\ DOMAIN W = 1..n BY DEF Polls
<1>2. t \in [1..n -> Int] /\ u \in [1..n -> Int] BY SupportIs DEF Polls
<1>3. \A i \in 1..n : t[i] <= u[i] OBVIOUS
<1>4. Scored(V, side, r, a) = Total(t) /\ Scored(W, side, r, a) = Total(u) BY <1>1 DEF Scored
<1> HIDE DEF t, u
<1> QED BY <1>1, <1>2, <1>3, <1>4, TotalsCompare

LEMMA BlocksCompare ==
  ASSUME NEW n, NEW V, NEW W, Polls(V, n), Polls(W, n), NEW side,
         \A i \in 1..n : Blocking(V[i], side) <= Blocking(W[i], side)
  PROVE  Objections(V, side) <= Objections(W, side)
<1> DEFINE t == [i \in 1..n |-> Blocking(V[i], side)]
           u == [i \in 1..n |-> Blocking(W[i], side)]
<1>1. n \in Nat /\ DOMAIN V = 1..n /\ DOMAIN W = 1..n BY DEF Polls
<1>2. t \in [1..n -> Int] /\ u \in [1..n -> Int] BY BlockingIs DEF Polls
<1>3. \A i \in 1..n : t[i] <= u[i] OBVIOUS
<1>4. Objections(V, side) = Total(t) /\ Objections(W, side) = Total(u) BY <1>1 DEF Objections
<1> HIDE DEF t, u
<1> QED BY <1>1, <1>2, <1>3, <1>4, TotalsCompare

LEMMA HeardSame ==
  ASSUME NEW n, NEW V, NEW W, Polls(V, n), Polls(W, n), NEW r, NEW a,
         \A i \in 1..n : Voice(V[i], r, a) = Voice(W[i], r, a)
  PROVE  Heard(V, r, a) = Heard(W, r, a)
<1>1. DOMAIN V = DOMAIN W /\ DOMAIN V = 1..n BY DEF Polls
<1>2. [i \in DOMAIN V |-> Voice(V[i], r, a)] = [i \in DOMAIN W |-> Voice(W[i], r, a)] BY <1>1
<1> QED BY <1>2 DEF Heard

\* The decision is an entry on a side exactly when that side enters.
LEMMA DecideIs ==
  ASSUME NEW n, NEW rules, Polls(rules.items, n), rules.minSignal \in Int, NEW r
  PROVE  /\ Decide(rules, r).reason = "entry" =>
              \E side \in Sides : /\ Enters(rules, rules.items, side, r)
                                  /\ Decide(rules, r) = Entered(side, Trusted(rules, rules.items, side, r))
         /\ \A side \in Sides : Enters(rules, rules.items, side, r) =>
              Decide(rules, r) = Entered(side, Trusted(rules, rules.items, side, r))
<1> DEFINE V == rules.items
           a == rules.adaptive
           long == Scored(V, "long", r, a)
           short == Scored(V, "short", r, a)
           total == Heard(V, r, a)
<1>1. /\ long \in Int /\ short \in Int /\ total \in Int
      /\ 0 <= long /\ long <= total /\ 0 <= short /\ short <= total
  BY ScoresAre DEF Sides
<1>2. Decide(rules, r) = IF long < short THEN Concluding(rules, "short", short, long, total)
                          ELSE Concluding(rules, "long", long, short, total)
  BY DEF Decide, Counted, Tally, Scored, Heard
<1> DEFINE Result(side, won, lost) ==
             IF total = 0 /\ {g \in ToSet(V) : Arguing(g)} = {} THEN No("no_strategies")
             ELSE IF won - lost = 0 THEN No("no_direction")
             ELSE IF ~Allows(rules.sides, side) THEN No("side_disabled")
             ELSE IF Refused(V, side) THEN No("vetoed")
             ELSE IF won - lost < rules.minSignal THEN No("below_min_signal")
             ELSE IF won - lost <= Objections(V, side) THEN No("blocked")
             ELSE Entered(side, ConfidenceOf(won, lost, total))
<1>3. /\ Concluding(rules, "short", short, long, total) = Result("short", short, long)
      /\ Concluding(rules, "long", long, short, total) = Result("long", long, short)
  BY DEF Concluding, Objections, Refused, Entered
<1>4. \A x \in {"no_strategies", "no_direction", "side_disabled", "vetoed", "below_min_signal", "blocked"} :
        No(x).reason # "entry"
  BY DEF No
<1>5. /\ Enters(rules, V, "short", r) <=>
           /\ short > long /\ Allows(rules.sides, "short") /\ ~ Refused(V, "short")
           /\ ~ (short - long < rules.minSignal) /\ ~ (short - long <= Objections(V, "short"))
      /\ Enters(rules, V, "long", r) <=>
           /\ long > short /\ Allows(rules.sides, "long") /\ ~ Refused(V, "long")
           /\ ~ (long - short < rules.minSignal) /\ ~ (long - short <= Objections(V, "long"))
  BY DEF Enters, Other, Sides
<1>6. /\ Trusted(rules, V, "short", r) = ConfidenceOf(short, long, total)
      /\ Trusted(rules, V, "long", r) = ConfidenceOf(long, short, total)
  BY DEF Trusted, Other
<1> HIDE DEF long, short, total, V
<1>7. CASE long < short
  <2>1. Decide(rules, r) = Result("short", short, long) BY <1>2, <1>3, <1>7
  <2>2. Result("short", short, long).reason = "entry" =>
          /\ Enters(rules, V, "short", r)
          /\ Result("short", short, long) = Entered("short", ConfidenceOf(short, long, total))
    BY <1>1, <1>4, <1>5, <1>7
  <2>3. Enters(rules, V, "short", r) =>
          Result("short", short, long) = Entered("short", ConfidenceOf(short, long, total))
    BY <1>1, <1>5, <1>7
  <2>4. ~ Enters(rules, V, "long", r) BY <1>1, <1>5, <1>7
  <2> HIDE DEF Result
  <2> QED BY <2>1, <2>2, <2>3, <2>4, <1>6 DEF Sides, V
<1>8. CASE ~ (long < short)
  <2>1. Decide(rules, r) = Result("long", long, short) BY <1>2, <1>3, <1>8
  <2>2. Result("long", long, short).reason = "entry" =>
          /\ Enters(rules, V, "long", r)
          /\ Result("long", long, short) = Entered("long", ConfidenceOf(long, short, total))
    BY <1>1, <1>4, <1>5, <1>8
  <2>3. Enters(rules, V, "long", r) =>
          Result("long", long, short) = Entered("long", ConfidenceOf(long, short, total))
    BY <1>1, <1>5, <1>8
  <2>4. ~ Enters(rules, V, "short", r) BY <1>1, <1>5, <1>8
  <2> HIDE DEF Result
  <2> QED BY <2>1, <2>2, <2>3, <2>4, <1>6 DEF Sides, V
<1> QED BY <1>7, <1>8

(***************************************************************************)
(* Every strategy clamps what it reports.                                  *)
(***************************************************************************)
InRange(o) == o.strength \in 0..1000

LEMMA SaysIs == ASSUME NEW side, NEW n \in 0..1000 PROVE InRange(Says(side, n))
BY DEF InRange, Says

LEMMA FixedInRange ==
  \A side : /\ InRange(Says(side, 500)) /\ InRange(Says(side, 600))
            /\ InRange(Says(side, 800)) /\ InRange(Says(side, 1000))
BY DEF InRange, Says

LEMMA NoneInRange == InRange(NoOpinion)
BY SaysIs DEF NoOpinion

LEMMA SpokenInRange ==
  \A side, x : /\ InRange(Says(side, Clamp(x, 0, 1000))) /\ InRange(Says(side, Clamp(x, 300, 1000)))
               /\ InRange(Says(side, Clamp(x, 400, 1000))) /\ InRange(Says(side, Clamp(x, 500, 1000)))
<1> SUFFICES ASSUME NEW side, NEW x
             PROVE  /\ InRange(Says(side, Clamp(x, 0, 1000))) /\ InRange(Says(side, Clamp(x, 300, 1000)))
                    /\ InRange(Says(side, Clamp(x, 400, 1000))) /\ InRange(Says(side, Clamp(x, 500, 1000)))
  OBVIOUS
<1>1. /\ Clamp(x, 0, 1000) \in 0..1000 /\ Clamp(x, 300, 1000) \in 0..1000
      /\ Clamp(x, 400, 1000) \in 0..1000 /\ Clamp(x, 500, 1000) \in 0..1000
  BY DEF Clamp
<1> QED BY <1>1 DEF InRange, Says

LEMMA LeaningInRange == \A value, threshold : InRange(Leaning(value, threshold))
BY SpokenInRange, NoneInRange DEF Leaning

LEMMA ScoresInRange ==
  ASSUME NEW in
  PROVE  /\ InRange(CompositeScore(in)) /\ InRange(HigherTimeframe(in)) /\ InRange(EmaTrend(in))
         /\ InRange(MacdStrategy(in)) /\ InRange(MomentumOpinion(in)) /\ InRange(VolumeConfirmation(in))
         /\ InRange(VwapPosition(in)) /\ InRange(MarketStructureOpinion(in)) /\ InRange(RsiReversion(in))
<1>1. InRange(CompositeScore(in)) BY LeaningInRange DEF CompositeScore
<1>2. InRange(HigherTimeframe(in)) BY LeaningInRange, NoneInRange DEF HigherTimeframe
<1>3. InRange(EmaTrend(in)) BY LeaningInRange, NoneInRange DEF EmaTrend
<1>4. InRange(MacdStrategy(in)) BY LeaningInRange DEF MacdStrategy
<1>5. InRange(MomentumOpinion(in)) BY LeaningInRange DEF MomentumOpinion
<1>6. InRange(VolumeConfirmation(in)) BY LeaningInRange DEF VolumeConfirmation
<1>7. InRange(VwapPosition(in)) BY LeaningInRange, NoneInRange DEF VwapPosition
<1>8. InRange(MarketStructureOpinion(in)) BY LeaningInRange DEF MarketStructureOpinion
<1>9. InRange(RsiReversion(in)) BY LeaningInRange, NoneInRange DEF RsiReversion
<1> QED BY <1>1, <1>2, <1>3, <1>4, <1>5, <1>6, <1>7, <1>8, <1>9

LEMMA PatternsInRange ==
  ASSUME NEW in
  PROVE  InRange(ChartOpinion(in)) /\ InRange(CandleOpinion(in)) /\ InRange(DivergenceOpinion(in))
<1>1. \A found, maxAge, halfLife : InRange(PatternOpinion(found, maxAge, halfLife))
  BY LeaningInRange, NoneInRange DEF PatternOpinion
<1> QED BY <1>1 DEF ChartOpinion, CandleOpinion, DivergenceOpinion

LEMMA SystemsInRange ==
  ASSUME NEW in
  PROVE  /\ InRange(AdxDirectional(in)) /\ InRange(BreakoutOpinion(in)) /\ InRange(DonchianBreakout(in))
         /\ InRange(SuperTrend(in)) /\ InRange(Rsi2Reversion(in)) /\ InRange(RegimeMomentum(in))
         /\ InRange(CapitulationLong(in)) /\ InRange(BearRallyFade(in))
<1>1. InRange(AdxDirectional(in))
  <2>1. PICK s : s = AdxStrength(in.ind.adx, in.ind.plus, in.ind.minus) OBVIOUS
  <2>2. \A x : Clamp(x, 0, 1000) \in 0..1000 BY DEF Clamp
  <2>3. \E y : s = Clamp(y, 0, 1000)
    <3> DEFINE sum   == in.ind.plus + in.ind.minus
               apart == (1000 * Absolute(in.ind.plus - in.ind.minus)) \div (IF sum > 1 THEN sum ELSE 1)
               y     == (Clamp((1000 * in.ind.adx) \div 40, 0, 1000) * (400 + (6 * apart) \div 10)) \div 1000
    <3>1. AdxStrength(in.ind.adx, in.ind.plus, in.ind.minus) = Clamp(y, 0, 1000) BY DEF AdxStrength
    <3> HIDE DEF y
    <3> QED BY <2>1, <3>1
  <2>4. \A side : InRange(Says(side, s)) BY <2>2, <2>3, SaysIs
  <2> QED BY <2>1, <2>4, NoneInRange DEF AdxDirectional
<1>2. InRange(BreakoutOpinion(in)) BY SpokenInRange, NoneInRange DEF BreakoutOpinion
<1>3. InRange(DonchianBreakout(in)) BY SaysIs, NoneInRange DEF DonchianBreakout
<1>4. InRange(SuperTrend(in)) BY SpokenInRange, NoneInRange DEF SuperTrend
<1>5. InRange(Rsi2Reversion(in)) BY SpokenInRange, NoneInRange DEF Rsi2Reversion
<1>6. InRange(RegimeMomentum(in)) BY SpokenInRange, NoneInRange DEF RegimeMomentum
<1>7. InRange(CapitulationLong(in)) BY SpokenInRange, NoneInRange DEF CapitulationLong
<1>8. InRange(BearRallyFade(in)) BY SpokenInRange, NoneInRange DEF BearRallyFade
<1> QED BY <1>1, <1>2, <1>3, <1>4, <1>5, <1>6, <1>7, <1>8

LEMMA FiltersInRange ==
  ASSUME NEW in
  PROVE  /\ InRange(OpposingLevel(in)) /\ InRange(TimeframeConflict(in)) /\ InRange(VolatilityGuard(in))
         /\ InRange(RegimeGuard(in)) /\ InRange(CostFloor(in)) /\ InRange(ExtensionGuard(in))
         /\ InRange(TrendGate(in)) /\ InRange(MarketGate(in)) /\ InRange(RelativeStrengthGate(in))
         /\ InRange(CriticalNews(in))
<1>1. InRange(OpposingLevel(in)) BY SpokenInRange, FixedInRange, NoneInRange DEF OpposingLevel
<1>2. InRange(TimeframeConflict(in)) BY SpokenInRange, NoneInRange DEF TimeframeConflict
<1>3. InRange(VolatilityGuard(in)) BY SpokenInRange, FixedInRange, NoneInRange DEF VolatilityGuard
<1>4. InRange(RegimeGuard(in)) BY FixedInRange, NoneInRange DEF RegimeGuard
<1>5. InRange(CostFloor(in)) BY SpokenInRange, NoneInRange DEF CostFloor
<1>6. InRange(ExtensionGuard(in)) BY SpokenInRange, NoneInRange DEF ExtensionGuard
<1>7. InRange(TrendGate(in)) BY SpokenInRange, NoneInRange DEF TrendGate
<1>8. InRange(MarketGate(in)) BY SpokenInRange, NoneInRange DEF MarketGate
<1>9. InRange(RelativeStrengthGate(in)) BY SpokenInRange, FixedInRange, NoneInRange DEF RelativeStrengthGate
<1>10. InRange(CriticalNews(in)) BY FixedInRange, NoneInRange DEF CriticalNews
<1> QED BY <1>1, <1>2, <1>3, <1>4, <1>5, <1>6, <1>7, <1>8, <1>9, <1>10

LEMMA OpinionsInRange == ASSUME NEW id, NEW in PROVE InRange(EvaluateOne(id, in))
BY ScoresInRange, PatternsInRange, SystemsInRange, FiltersInRange, NoneInRange DEF EvaluateOne

LEMMA JoinedEnters ==
  ASSUME NEW n, NEW rules, NEW V, NEW W, Polls(V, n), Polls(W, n), NEW r, NEW side \in Sides,
         rules.minSignal \in Int, Enters(rules, V, side, r),
         NEW k \in 1..n, Enabled(V[k]), Directional(V[k]), W[k] = Speaking(V[k], side),
         \A i \in 1..n : i # k => W[i] = V[i]
  PROVE  /\ Enters(rules, W, side, r)
         /\ Trusted(rules, V, side, r) \in Int /\ Trusted(rules, W, side, r) \in Int
         /\ Trusted(rules, W, side, r) >= Trusted(rules, V, side, r)
<1> DEFINE a == rules.adaptive
           other == Other(side)
<1>1. other \in Sides /\ other # side BY DEF Other, Sides
<1> HIDE DEF other
<1>2. n \in Nat /\ DOMAIN V = 1..n /\ DOMAIN W = 1..n /\ \A i \in 1..n : IsBallot(V[i]) BY DEF Polls
<1>3. /\ Voice(W[k], r, a) = Voice(V[k], r, a)
      /\ Support(W[k], side, r, a) = Voice(V[k], r, a)
      /\ Support(W[k], other, r, a) = 0
      /\ ~ Arguing(W[k]) /\ ~ Arguing(V[k])
  BY <1>1, <1>2, SpeakingIs
<1>4. \A i \in 1..n : /\ Support(V[i], side, r, a) \in Int /\ Support(V[i], other, r, a) \in Int
                      /\ 0 <= Support(V[i], other, r, a)
                      /\ Support(V[i], side, r, a) <= Voice(V[i], r, a)
  BY <1>1, <1>2, SupportIs
<1>5. Scored(V, side, r, a) <= Scored(W, side, r, a)
  <2>1. \A i \in 1..n : Support(V[i], side, r, a) <= Support(W[i], side, r, a) BY <1>3, <1>4
  <2> QED BY <2>1, ScoresCompare
<1>6. Scored(W, other, r, a) <= Scored(V, other, r, a)
  <2>1. \A i \in 1..n : Support(W[i], other, r, a) <= Support(V[i], other, r, a) BY <1>3, <1>4
  <2> QED BY <1>1, <2>1, ScoresCompare
<1>7. Heard(V, r, a) = Heard(W, r, a)
  <2>1. \A i \in 1..n : Voice(V[i], r, a) = Voice(W[i], r, a) BY <1>3
  <2> QED BY <2>1, HeardSame
<1>8. Objections(W, side) = Objections(V, side)
  <2>1. \A i \in 1..n : Blocking(W[i], side) = Blocking(V[i], side) BY <1>3 DEF Blocking
  <2>2. [i \in DOMAIN W |-> Blocking(W[i], side)] = [i \in DOMAIN V |-> Blocking(V[i], side)]
    BY <1>2, <2>1
  <2> QED BY <2>2 DEF Objections
<1>9. ~ Refused(W, side)
  <2> SUFFICES ASSUME Refused(W, side) PROVE Refused(V, side) BY DEF Enters
  <2>1. PICK i \in 1..n : Arguing(W[i]) /\ W[i].veto /\ Applies(W[i], side)
    BY <1>2 DEF Refused, ToSet
  <2>2. W[i] = V[i] BY <2>1, <1>3
  <2> QED BY <2>1, <2>2, <1>2 DEF Refused, ToSet
<1>10. /\ Scored(V, side, r, a) \in Nat /\ Scored(W, side, r, a) \in Nat
       /\ Scored(V, other, r, a) \in Nat /\ Scored(W, other, r, a) \in Nat
       /\ Heard(V, r, a) \in Nat /\ Scored(V, side, r, a) <= Heard(V, r, a)
  <2>1. /\ Scored(V, side, r, a) \in Int /\ 0 <= Scored(V, side, r, a)
        /\ Heard(V, r, a) \in Int /\ Scored(V, side, r, a) <= Heard(V, r, a)
    BY ScoresAre
  <2>2. Scored(W, side, r, a) \in Int /\ 0 <= Scored(W, side, r, a) BY ScoresAre
  <2>3. Scored(V, other, r, a) \in Int /\ 0 <= Scored(V, other, r, a) BY <1>1, ScoresAre
  <2>4. Scored(W, other, r, a) \in Int /\ 0 <= Scored(W, other, r, a) BY <1>1, ScoresAre
  <2> QED BY <2>1, <2>2, <2>3, <2>4
<1>11. Objections(V, side) \in Int BY ObjectionsAre
<1>12. PICK w \in Nat, l \in Nat, x \in Nat, m \in Nat, t \in Nat :
         /\ w = Scored(V, side, r, a) /\ l = Scored(V, other, r, a)
         /\ x = Scored(W, side, r, a) /\ m = Scored(W, other, r, a)
         /\ t = Heard(V, r, a)
  BY <1>10
<1>13. w <= x /\ m <= l /\ w <= t BY <1>5, <1>6, <1>10, <1>12
<1>14. /\ w > l /\ Allows(rules.sides, side)
       /\ ~ (w - l < rules.minSignal) /\ ~ (w - l <= Objections(V, side))
  BY <1>12 DEF Enters, other
<1>15. Enters(rules, W, side, r)
  <2>1. x > m /\ ~ (x - m < rules.minSignal) /\ ~ (x - m <= Objections(W, side))
    BY <1>8, <1>11, <1>13, <1>14
  <2> QED BY <2>1, <1>9, <1>12, <1>14 DEF Enters, other
<1>16. Trusted(rules, V, side, r) = ConfidenceOf(w, l, t) BY <1>12 DEF Trusted, other
<1>17. Trusted(rules, W, side, r) = ConfidenceOf(x, m, t) BY <1>7, <1>12 DEF Trusted, other
<1>18. t > 0 BY <1>13, <1>14
<1>19. /\ ConfidenceOf(w, l, t) \in Int /\ ConfidenceOf(x, m, t) \in Int
       /\ ConfidenceOf(w, l, t) <= ConfidenceOf(x, m, t)
  BY <1>13, <1>14, <1>18, ConfidenceGrows
<1> QED BY <1>15, <1>16, <1>17, <1>19

LEMMA SilentEnters ==
  ASSUME NEW n, NEW rules, NEW V, NEW W, Polls(V, n), Polls(W, n), NEW r, NEW side \in Sides,
         Enters(rules, V, side, r),
         NEW k \in 1..n, ~ Directional(V[k]), W[k] = Silenced(V[k]),
         \A i \in 1..n : i # k => W[i] = V[i]
  PROVE  Enters(rules, W, side, r) /\ Trusted(rules, W, side, r) = Trusted(rules, V, side, r)
<1> DEFINE a == rules.adaptive
<1>1. Other(side) \in Sides BY DEF Other, Sides
<1>2. n \in Nat /\ DOMAIN V = 1..n /\ DOMAIN W = 1..n /\ \A i \in 1..n : IsBallot(V[i]) BY DEF Polls
<1>3. /\ Voice(W[k], r, a) = Voice(V[k], r, a)
      /\ \A s \in Sides : Support(W[k], s, r, a) = Support(V[k], s, r, a)
      /\ ~ Arguing(W[k])
  BY <1>2, SilencedIs
<1>4. ASSUME NEW s \in Sides PROVE Scored(W, s, r, a) = Scored(V, s, r, a)
  <2>1. [i \in DOMAIN W |-> Support(W[i], s, r, a)] = [i \in DOMAIN V |-> Support(V[i], s, r, a)]
    BY <1>2, <1>3
  <2> QED BY <2>1 DEF Scored
<1>5. Heard(W, r, a) = Heard(V, r, a)
  <2>1. \A i \in 1..n : Voice(W[i], r, a) = Voice(V[i], r, a) BY <1>3
  <2> QED BY <2>1, HeardSame
<1>6. Objections(W, side) <= Objections(V, side)
  <2>1. \A i \in 1..n : Blocking(V[i], side) \in Int /\ Blocking(V[i], side) >= 0
    BY <1>2, BlockingIs
  <2>2. \A i \in 1..n : Blocking(W[i], side) <= Blocking(V[i], side)
    BY <1>3, <2>1 DEF Blocking
  <2> QED BY <2>2, BlocksCompare
<1>7. ~ Refused(W, side)
  <2> SUFFICES ASSUME Refused(W, side) PROVE Refused(V, side) BY DEF Enters
  <2>1. PICK i \in 1..n : Arguing(W[i]) /\ W[i].veto /\ Applies(W[i], side)
    BY <1>2 DEF Refused, ToSet
  <2>2. W[i] = V[i] BY <2>1, <1>3
  <2> QED BY <2>1, <2>2, <1>2 DEF Refused, ToSet
<1>8. Objections(V, side) \in Int /\ Objections(W, side) \in Int BY ObjectionsAre
<1>9. Scored(V, side, r, a) \in Int /\ Scored(V, Other(side), r, a) \in Int BY <1>1, ScoresAre
<1>10. ~ (Scored(W, side, r, a) - Scored(W, Other(side), r, a) <= Objections(W, side))
  <2>1. ~ (Scored(V, side, r, a) - Scored(V, Other(side), r, a) <= Objections(V, side)) BY DEF Enters
  <2> QED BY <2>1, <1>1, <1>4, <1>6, <1>8, <1>9
<1>11. Enters(rules, W, side, r) BY <1>1, <1>4, <1>7, <1>10 DEF Enters
<1>12. Trusted(rules, W, side, r) = Trusted(rules, V, side, r) BY <1>1, <1>4, <1>5 DEF Trusted
<1> QED BY <1>11, <1>12

(***************************************************************************)
(* What is known of a decision.                                            *)
(***************************************************************************)
LEMMA CatalogIs ==
  /\ DOMAIN Catalog = 1..30
  /\ \A n \in 1..30 : Catalog[n].weight \in Int /\ "weight" \in DOMAIN Catalog[n]
<1>1. DOMAIN Catalog = 1..30 BY DEF Catalog
<1>2. \A n \in 1..30 : Catalog[n].weight \in Int /\ "weight" \in DOMAIN Catalog[n]
  BY DEF Catalog, Strategy, Filter
<1> QED BY <1>1, <1>2

LEMMA NormalizedIs ==
  ASSUME NEW start \in Starts
  PROVE  /\ {"minSignal", "sides", "adaptive", "items"} \subseteq DOMAIN Normalize(start.strategies)
         /\ Normalize(start.strategies).minSignal \in Int
         /\ DOMAIN Normalize(start.strategies).items = 1..30
         /\ \A n \in 1..30 : Normalize(start.strategies).items[n].weight \in Int
<1> DEFINE rules == start.strategies
           Place(id) == SelectLastInSeq(rules.items, LAMBDA item : item.id = id)
           Item(n) == IF Place(Catalog[n].id) = 0 THEN Catalog[n]
                      ELSE Repaired(rules.items[Place(Catalog[n].id)], Catalog[n])
           N == Normalize(rules)
<1>1. /\ rules \in [minSignal: Int, sides: STRING, adaptive: BOOLEAN, items: Seq(ToSet(rules.items))]
      /\ \A item \in ToSet(rules.items) : item.weight \in Int
  BY StrategiesAreDecoded
<1>2. Len(rules.items) \in Nat /\ DOMAIN rules.items = 1..Len(rules.items)
  BY <1>1, LenProperties
<1>3. \A id : Place(id) # 0 => Place(id) \in 1..Len(rules.items)
  <2> SUFFICES ASSUME NEW id, Place(id) # 0 PROVE Place(id) \in 1..Len(rules.items)
    OBVIOUS
  <2> DEFINE I == {i \in 1..Len(rules.items) : rules.items[i].id = id}
  <2>1. Place(id) = IF I # {} THEN Max(I) ELSE 0 BY DEF SelectLastInSeq
  <2>2. IsFiniteSet(1..Len(rules.items))
    <3>1. PICK m \in Nat : m = Len(rules.items) BY <1>2
    <3>2. IsFiniteSet(1..m) BY FS_Interval
    <3> QED BY <3>1, <3>2
  <2>3. I \subseteq 1..Len(rules.items) /\ I \subseteq Int BY <1>2
  <2>4. IsFiniteSet(I) BY <2>2, <2>3, FS_Subset
  <2>5. I # {} => Max(I) \in I BY <2>3, <2>4, FiniteMinMax
  <2> HIDE DEF Place, I
  <2> QED BY <2>1, <2>3, <2>5
<1>4. N = [rules EXCEPT
             !.minSignal = IF @ <= 0 \/ @ > 100000 THEN 1800 ELSE @,
             !.sides = IF @ \in {"both", "long", "short"} THEN @ ELSE "long",
             !.items = [n \in DOMAIN Catalog |-> Item(n)]]
  BY DEF Normalize
<1> HIDE DEF Place
<1>5. \A n \in 1..30 : Item(n).weight \in Int
  <2> SUFFICES ASSUME NEW n \in 1..30 PROVE Item(n).weight \in Int OBVIOUS
  <2>1. Catalog[n].weight \in Int /\ "weight" \in DOMAIN Catalog[n] BY CatalogIs
  <2>2. CASE Place(Catalog[n].id) = 0 BY <2>1, <2>2
  <2>3. CASE Place(Catalog[n].id) # 0
    <3>1. PICK item : item = rules.items[Place(Catalog[n].id)] OBVIOUS
    <3>2. item \in ToSet(rules.items) BY <3>1, <2>3, <1>2, <1>3 DEF ToSet
    <3>3. item.weight \in Int BY <3>2, <1>1
    <3>4. Item(n) = Repaired(item, Catalog[n]) BY <2>3, <3>1
    <3>5. PICK d : d = Catalog[n] OBVIOUS
    <3>6. Repaired(item, d).weight \in Int BY <2>1, <3>3, <3>5 DEF Repaired
    <3> QED BY <3>4, <3>5, <3>6
  <2> QED BY <2>2, <2>3
<1> HIDE DEF Item
<1>6. PICK items : items = [n \in 1..30 |-> Item(n)] OBVIOUS
<1>7. N = [rules EXCEPT
             !.minSignal = IF @ <= 0 \/ @ > 100000 THEN 1800 ELSE @,
             !.sides = IF @ \in {"both", "long", "short"} THEN @ ELSE "long",
             !.items = items]
  BY <1>4, <1>6, CatalogIs
<1>8. DOMAIN rules = {"minSignal", "sides", "adaptive", "items"} /\ rules.minSignal \in Int BY <1>1
<1> HIDE DEF N, rules
<1>9. /\ DOMAIN N = DOMAIN rules /\ N.items = items
      /\ N.minSignal = IF rules.minSignal <= 0 \/ rules.minSignal > 100000 THEN 1800 ELSE rules.minSignal
  BY <1>7, <1>8
<1>10. N.minSignal \in Int BY <1>8, <1>9
<1> QED BY <1>5, <1>6, <1>8, <1>9, <1>10 DEF N, rules

Voted ==
  stage = "idle" =>
    /\ \E start \in Starts : strategies = start.strategies
    /\ decision.verdict = Redecided(decision.votes)
    /\ Polls(decision.votes, 30)

LEMMA DecidedVotes ==
  ASSUME NEW start \in Starts, NEW in, NEW d, d = EvaluateStrategies(in, start.strategies)
  PROVE  /\ d.verdict = Decide([Normalize(start.strategies) EXCEPT !.items = d.votes], d.climate)
         /\ Polls(d.votes, 30)
<1>1. PICK N : N = Normalize(start.strategies) OBVIOUS
<1>2. DOMAIN N.items = 1..30 /\ \A n \in 1..30 : N.items[n].weight \in Int BY <1>1, NormalizedIs
<1>3. PICK votes : votes = [n \in 1..30 |-> Consulted(N.items[n], in)] OBVIOUS
<1>4. d = Concluded(in, N, votes) BY <1>1, <1>2, <1>3 DEF EvaluateStrategies, Polled
<1>5. /\ d.votes = votes /\ d.climate = Climate(in)
      /\ d.verdict = Decide([N EXCEPT !.items = votes], Climate(in))
  BY <1>4 DEF Concluded
<1>6. ASSUME NEW n \in 1..30 PROVE IsBallot(votes[n])
  <2>1. PICK item : item = N.items[n] OBVIOUS
  <2>2. PICK o : o = IF Enabled(item) THEN EvaluateOne(item.id, in) ELSE NoOpinion OBVIOUS
  <2>3. votes[n] = Stating(item, o) BY <1>3, <2>1, <2>2 DEF Consulted
  <2>4. item.weight \in Int BY <1>2, <2>1
  <2> DEFINE S == {item.id, item.kind, item.style, item.enabled, item.veto, o.says}
  <2>5. InRange(o) BY <2>2, OpinionsInRange, NoneInRange
  <2>6. o.strength \in 0..1000 BY <2>5 DEF InRange
  <2>7. Stating(item, o) \in Ballots(S) BY <2>4, <2>6 DEF Stating, Ballots
  <2> QED BY <2>3, <2>7 DEF IsBallot
<1>7. Polls(d.votes, 30) BY <1>3, <1>5, <1>6 DEF Polls
<1> QED BY <1>1, <1>5, <1>7

LEMMA VotedStays ==
  ASSUME Voted, [Next]_<<adviceVars, signalVars>>
  PROVE  Voted'
<1>1. CASE UNCHANGED <<adviceVars, signalVars>>
  BY <1>1 DEF Voted, adviceVars, signalVars, Redecided
<1>2. CASE stage = "idle" /\ SignalStep /\ UNCHANGED adviceVars
  <2>1. PICK start \in Starts : strategies = start.strategies BY <1>2 DEF Voted
  <2>2. /\ strategies' = strategies
        /\ decision' = EvaluateStrategies(Analysis(series', outlook), start.strategies)
    BY <1>2, <2>1 DEF SignalStep, CandleCloses, DecisionOn
  <2>3. PICK d : d = decision' OBVIOUS
  <2>4. PICK in : d = EvaluateStrategies(in, start.strategies) BY <2>2, <2>3
  <2>5. /\ d.verdict = Decide([Normalize(start.strategies) EXCEPT !.items = d.votes], d.climate)
        /\ Polls(d.votes, 30)
    BY <2>4, DecidedVotes
  <2> QED BY <2>1, <2>2, <2>3, <2>5 DEF Voted, Redecided
<1>3. CASE \E s \in Situations, p \in Policies, a \in Replies : Ask(s, a, p)
  <2>1. stage' = "answered" BY <1>3 DEF Ask, AskModel
  <2> QED BY <2>1 DEF Voted
<1>4. CASE AdviceStep /\ UNCHANGED signalVars
  <2>1. stage' # "idle" \/ stage' = stage
    BY <1>4 DEF AdviceStep, Validate, Assess, Insert, EditPolicy, Trade, StoreFine, StoreCoarse, ReadFine, Grade
  <2> QED BY <1>4, <2>1 DEF Voted, signalVars, Redecided
<1> QED BY <1>1, <1>2, <1>3, <1>4 DEF Next

LEMMA VotedFirst == Init => Voted
<1> SUFFICES ASSUME Init PROVE Voted OBVIOUS
<1>1. PICK start \in Starts :
        /\ strategies = start.strategies
        /\ decision = EvaluateStrategies(Analysis(series, outlook), start.strategies)
  BY DEF Init, SignalInit, DecisionOn
<1>2. PICK in : decision = EvaluateStrategies(in, start.strategies) BY <1>1
<1>3. /\ decision.verdict = Decide([Normalize(start.strategies) EXCEPT !.items = decision.votes], decision.climate)
      /\ Polls(decision.votes, 30)
  BY <1>2, DecidedVotes
<1> QED BY <1>1, <1>3 DEF Voted, Redecided

LEMMA VotedHelps ==
  ASSUME Voted, stage = "idle"
  PROVE  SupportNeverHurts
<1>1. PICK start \in Starts : strategies = start.strategies BY DEF Voted
<1>2. PICK N : N = Normalize(strategies) OBVIOUS
<1>3. {"minSignal", "sides", "adaptive", "items"} \subseteq DOMAIN N /\ N.minSignal \in Int
  BY <1>1, <1>2, NormalizedIs
<1>4. PICK V : V = decision.votes OBVIOUS
<1>5. PICK r : r = decision.climate OBVIOUS
<1> DEFINE Rules(W) == [N EXCEPT !.items = W]
<1>6. \A W : Redecided(W) = Decide(Rules(W), r) BY <1>2, <1>5 DEF Redecided
<1>7. DOMAIN V = 1..30 /\ Polls(V, 30) BY <1>4 DEF Voted, Polls
<1>8. Polls(V, 30) BY <1>7
<1>9. \A W : /\ Rules(W).items = W /\ Rules(W).minSignal = N.minSignal
             /\ Rules(W).sides = N.sides /\ Rules(W).adaptive = N.adaptive
  BY <1>3
<1>10. decision.verdict = Decide(Rules(V), r) BY <1>4, <1>6 DEF Voted
<1> HIDE DEF Rules
<1>11. \A W, side : Enters(Rules(W), W, side, r) <=> Enters(N, W, side, r) BY <1>9 DEF Enters
<1>12. \A W, side : Trusted(Rules(W), W, side, r) = Trusted(N, W, side, r) BY <1>9 DEF Trusted
<1>13. ASSUME NEW W, Polls(W, 30), NEW side \in Sides, Enters(N, W, side, r)
       PROVE  Redecided(W) = Entered(side, Trusted(N, W, side, r))
  <2>1. PICK R : R = Rules(W) OBVIOUS
  <2>2. R.items = W /\ R.minSignal \in Int BY <2>1, <1>3, <1>9
  <2>3. Enters(R, R.items, side, r) BY <2>1, <2>2, <1>11, <1>13
  <2>4. Decide(R, r) = Entered(side, Trusted(R, R.items, side, r)) BY <2>2, <2>3, <1>13, DecideIs
  <2> QED BY <2>1, <2>2, <2>4, <1>6, <1>12
<1> SUFFICES ASSUME decision.verdict.reason = "entry",
                    NEW k \in 1..30, Enabled(V[k])
             PROVE  IF Directional(V[k])
                      THEN NoWorse(Redecided([V EXCEPT ![k] = Speaking(@, TakenSide)]))
                      ELSE Redecided([V EXCEPT ![k] = Silenced(@)]) = decision.verdict
  BY <1>4, <1>7 DEF SupportNeverHurts
<1>14. PICK side \in Sides : Enters(N, V, side, r) /\ decision.verdict = Entered(side, Trusted(N, V, side, r))
  <2>1. PICK R : R = Rules(V) OBVIOUS
  <2>2. R.items = V /\ R.minSignal \in Int BY <2>1, <1>3, <1>9
  <2>3. Decide(R, r).reason = "entry" BY <2>1, <1>10
  <2>4. PICK side \in Sides : Enters(R, R.items, side, r) /\ Decide(R, r) = Entered(side, Trusted(R, R.items, side, r))
    BY <2>2, <2>3, <1>8, DecideIs
  <2> QED BY <2>1, <2>2, <2>4, <1>10, <1>11, <1>12
<1>15. side = TakenSide BY <1>14 DEF TakenSide, Entered, Sides
<1>16. IsBallot(V[k]) BY <1>8 DEF Polls
<1>17. CASE Directional(V[k])
  <2>1. PICK W : W = [V EXCEPT ![k] = Speaking(@, side)] OBVIOUS
  <2>2. DOMAIN W = 1..30 /\ W[k] = Speaking(V[k], side) /\ \A i \in 1..30 : i # k => W[i] = V[i]
    <3>1. PICK c : c = Speaking(V[k], side) OBVIOUS
    <3>2. W = [V EXCEPT ![k] = c] BY <2>1, <3>1
    <3>3. DOMAIN V = 1..30 BY <1>7
    <3> QED BY <3>1, <3>2, <3>3
  <2>3. IsBallot(Speaking(V[k], side)) BY <1>16, <1>17, SpeakingIs
  <2>4. Polls(W, 30) BY <1>8, <2>2, <2>3 DEF Polls
  <2>5. /\ Enters(N, W, side, r)
        /\ Trusted(N, V, side, r) \in Int /\ Trusted(N, W, side, r) \in Int
        /\ Trusted(N, W, side, r) >= Trusted(N, V, side, r)
    BY <1>3, <1>8, <1>14, <1>17, <2>2, <2>4, JoinedEnters
  <2>6. Redecided(W) = Entered(side, Trusted(N, W, side, r)) BY <1>13, <2>4, <2>5
  <2>7. NoWorse(Redecided(W)) BY <1>14, <2>5, <2>6 DEF NoWorse, Entered
  <2> QED BY <1>15, <1>17, <2>1, <2>7
<1>18. CASE ~ Directional(V[k])
  <2>1. PICK W : W = [V EXCEPT ![k] = Silenced(@)] OBVIOUS
  <2>2. DOMAIN W = 1..30 /\ W[k] = Silenced(V[k]) /\ \A i \in 1..30 : i # k => W[i] = V[i]
    <3>1. PICK c : c = Silenced(V[k]) OBVIOUS
    <3>2. W = [V EXCEPT ![k] = c] BY <2>1, <3>1
    <3>3. DOMAIN V = 1..30 BY <1>7
    <3> QED BY <3>1, <3>2, <3>3
  <2>3. IsBallot(Silenced(V[k])) BY <1>16, <1>18, SilencedIs
  <2>4. Polls(W, 30) BY <1>8, <2>2, <2>3 DEF Polls
  <2>5. Enters(N, W, side, r) /\ Trusted(N, W, side, r) = Trusted(N, V, side, r)
    <3>1. /\ Polls(V, 30) /\ Polls(W, 30) /\ Enters(N, V, side, r) /\ ~ Directional(V[k])
          /\ W[k] = Silenced(V[k]) /\ \A i \in 1..30 : i # k => W[i] = V[i]
      BY <1>8, <1>14, <1>18, <2>2, <2>4
    <3>2. Enters(N, W, side, r) BY <3>1, SilentEnters
    <3>3. Trusted(N, W, side, r) = Trusted(N, V, side, r) BY <3>1, SilentEnters
    <3> QED BY <3>2, <3>3
  <2>6. Redecided(W) = Entered(side, Trusted(N, W, side, r)) BY <1>13, <2>4, <2>5
  <2> QED BY <1>14, <1>18, <2>1, <2>5, <2>6
<1> QED BY <1>17, <1>18

\* Whatever the policy and the market: an entry that is taken is also taken
\* when one more strategy joins it or an opponent changes sides, with no less
\* confidence, and stays as it is when a filter falls silent
\* (strategies.go:63-178).
THEOREM SupportNeverHurtsHolds == Spec => []SupportNeverHurtsYet
<1>1. Init => Voted BY VotedFirst
<1>2. Voted /\ [Next]_<<adviceVars, signalVars>> => Voted' BY VotedStays
<1>3. Voted => SupportNeverHurtsYet BY VotedHelps DEF SupportNeverHurtsYet
<1> QED BY <1>1, <1>2, <1>3, PTL DEF Spec
=============================================================================
