------------------------- MODULE RouteGroupingProofs -------------------------
(***************************************************************************)
(* Proofs about RouteGrouping: the investigations of every payload have    *)
(* each of its rules once, in order, and rules of one scope together.      *)
(***************************************************************************)
EXTENDS RouteGrouping, Integers, FiniteSetTheorems, WellFoundedInduction, TLAPS

\* A set of naturals that has an element has a least one.
LEMMA LeastElement ==
  ASSUME NEW T \in SUBSET Nat, T # {}
  PROVE  \E k \in T : \A j \in T : k <= j
<1>1. \E k \in T : \A j \in T : ~(<<j, k>> \in OpToRel(<, Nat))
  BY NatLessThanWellFounded, WFMin, Zenon
<1>2. PICK k \in T : \A j \in T : ~(<<j, k>> \in OpToRel(<, Nat))
  BY <1>1
<1>3. \A j \in T : ~(j < k)
  BY <1>2, Zenon DEF OpToRel
<1> QED
  BY <1>3

Enumerates(q, S) ==
  /\ q \in [1..Cardinality(S) -> S]
  /\ \A i, j \in 1..Cardinality(S) : i < j => q[i] < q[j]

\* Every finite set of naturals has an increasing enumeration: otherwise there is
\* a smallest one without, and that of the set without its least element could be
\* put behind it.
LEMMA EnumerationExists ==
  ASSUME NEW S \in SUBSET Nat, IsFiniteSet(S)
  PROVE  \E q : Enumerates(q, S)
<1> DEFINE Bad == {n \in Nat : \E R \in SUBSET Nat : /\ IsFiniteSet(R) /\ Cardinality(R) = n
                                                     /\ ~\E q : Enumerates(q, R)}
<1> SUFFICES ASSUME ~\E q : Enumerates(q, S) PROVE FALSE
  OBVIOUS
<1>1. Bad \in SUBSET Nat /\ Bad # {}
  BY FS_CardinalityType
<1>2. PICK n \in Bad : \A m \in Bad : n <= m
  BY <1>1, LeastElement, Zenon
<1>3. PICK R \in SUBSET Nat : IsFiniteSet(R) /\ Cardinality(R) = n /\ ~\E q : Enumerates(q, R)
  BY <1>2
<1>4. R # {}
  <2>1. ASSUME R = {} PROVE Enumerates([i \in {} |-> 0], R)
    BY <2>1, FS_EmptySet DEF Enumerates
  <2> QED
    BY <2>1, <1>3
<1>5. PICK m \in R : \A j \in R : m <= j
  BY <1>3, <1>4, LeastElement, Zenon
<1> DEFINE Rest == R \ {m}
<1>6. IsFiniteSet(Rest) /\ Cardinality(Rest) = n - 1 /\ n - 1 \in Nat /\ n \in Nat
  <2>1. IsFiniteSet(Rest) /\ Cardinality(Rest) = Cardinality(R) - 1
    BY <1>3, <1>5, FS_RemoveElement, Zenon
  <2>2. Cardinality(Rest) \in Nat
    BY <2>1, FS_CardinalityType, Zenon
  <2> QED
    BY <1>3, <2>1, <2>2
<1>7. PICK q : Enumerates(q, Rest)
  <2>1. n - 1 \notin Bad
    BY <1>2, <1>6
  <2> QED
    BY <2>1, <1>6
<1> DEFINE p == [i \in 1..n |-> IF i = 1 THEN m ELSE q[i - 1]]
<1>8. \A i \in 1..n : i = 1 \/ (i - 1 \in 1..(n - 1) /\ q[i - 1] \in R /\ q[i - 1] # m)
  <2>1. \A i \in 1..(n - 1) : q[i] \in Rest
    BY <1>6, <1>7, Zenon DEF Enumerates
  <2> QED
    BY <2>1, <1>6
<1>9. p \in [1..n -> R] /\ \A i, j \in 1..n : i < j => p[i] < p[j]
  <2>1. p \in [1..n -> R]
    BY <1>5, <1>8
  <2>2. \A i, j \in 1..(n - 1) : i < j => q[i] < q[j]
    BY <1>6, <1>7, Zenon DEF Enumerates
  <2>3. ASSUME NEW i \in 1..n, NEW j \in 1..n, i < j PROVE p[i] < p[j]
    <3>1. j - 1 \in 1..(n - 1) /\ p[j] = q[j - 1] /\ q[j - 1] \in R /\ q[j - 1] # m
      BY <1>6, <1>8, <2>3
    <3>2. CASE i = 1
      <4>1. m \in Nat /\ q[j - 1] \in Nat /\ m <= q[j - 1] /\ p[i] = m
        BY <3>1, <3>2, <1>3, <1>5
      <4> QED
        BY <3>1, <4>1
    <3>3. CASE i # 1
      <4>1. i - 1 \in 1..(n - 1) /\ i - 1 < j - 1
        BY <3>3, <1>6, <2>3
      <4> QED
        BY <3>1, <3>3, <4>1, <2>2
    <3> QED
      BY <3>2, <3>3
  <2> QED
    BY <2>1, <2>3
<1>10. Enumerates(p, R)
  BY <1>3, <1>9, Zenon DEF Enumerates
<1> QED
  BY <1>3, <1>10

\* InOrder is that enumeration.
LEMMA InOrderEnumerates ==
  ASSUME NEW S \in SUBSET Nat, IsFiniteSet(S)
  PROVE  Enumerates(InOrder(S), S)
<1>1. PICK q : Enumerates(q, S)
  BY EnumerationExists
<1>2. /\ q \in [1..Cardinality(S) -> S]
      /\ \A i, j \in DOMAIN q : i < j => q[i] < q[j]
  BY <1>1 DEF Enumerates
<1> DEFINE x == InOrder(S)
<1>3. x \in [1..Cardinality(S) -> S] /\ \A i, j \in DOMAIN x : i < j => x[i] < x[j]
  BY <1>2, Zenon DEF InOrder
<1> QED
  BY <1>3 DEF Enumerates

\* It leaves out no element.
LEMMA InOrderIsOnto ==
  ASSUME NEW S \in SUBSET Nat, IsFiniteSet(S)
  PROVE  \A x \in S : \E i \in 1..Cardinality(S) : InOrder(S)[i] = x
<1> DEFINE n == Cardinality(S)
           q == InOrder(S)
<1>1. n \in Nat /\ q \in [1..n -> S] /\ \A i, j \in 1..n : i < j => q[i] < q[j]
  BY InOrderEnumerates, FS_CardinalityType DEF Enumerates
<1> HIDE DEF n, q
<1>2. ASSUME NEW i \in 1..n, NEW j \in 1..n, q[i] = q[j] PROVE i = j
  <2>1. q[i] \in Nat /\ q[j] \in Nat /\ i \in Nat /\ j \in Nat
    <3>1. q[i] \in S /\ q[j] \in S
      BY <1>1
    <3>2. \A x \in S : x \in Nat
      OBVIOUS
    <3>3. i \in Nat /\ j \in Nat
      BY <1>1
    <3> QED
      BY <3>1, <3>2, <3>3, Zenon
  <2>2. ~(i < j) /\ ~(j < i)
    BY <1>1, <1>2, <2>1
  <2> QED
    BY <2>1, <2>2
<1>3. q \in Injection(1..n, S)
  BY <1>1, <1>2 DEF Injection, IsInjective
<1>4. Cardinality(1..n) = n
  <2>1. Cardinality(1..n) = IF 1 > n THEN 0 ELSE n - 1 + 1
    BY <1>1, FS_Interval
  <2> QED
    BY <2>1, <1>1
<1>5. q \in Surjection(1..n, S)
  BY <1>3, <1>4, FS_Injection DEF n
<1> QED
  BY <1>5 DEF Surjection, n, q

\* What Enumerates says, as the set and the order of a sequence.
LEMMA EnumerationFacts ==
  ASSUME NEW S \in SUBSET Nat, IsFiniteSet(S)
  PROVE  /\ Cardinality(S) \in Nat
         /\ InOrder(S) \in Seq(S) /\ Len(InOrder(S)) = Cardinality(S)
         /\ DOMAIN InOrder(S) = 1..Cardinality(S)
         /\ ToSet(InOrder(S)) = S
         /\ \A i, j \in 1..Cardinality(S) : i < j => InOrder(S)[i] < InOrder(S)[j]
<1> DEFINE n == Cardinality(S)
           q == InOrder(S)
<1>1. n \in Nat
  BY FS_CardinalityType, Zenon
<1>2. q \in [1..n -> S] /\ \A i, j \in 1..n : i < j => q[i] < q[j]
  BY InOrderEnumerates, Zenon DEF Enumerates
<1>3. \A x \in S : \E i \in 1..n : q[i] = x
  BY InOrderIsOnto, Zenon
<1> HIDE DEF n, q
<1>4. q \in Seq(S) /\ Len(q) = n /\ DOMAIN q = 1..n
  BY <1>1, <1>2
<1>5. ToSet(q) = S
  BY <1>2, <1>3, <1>4, Zenon DEF ToSet
<1> QED
  BY <1>1, <1>2, <1>4, <1>5, Zenon DEF n, q
-----------------------------------------------------------------------------
\* The rules of an investigation and the first rules are finite sets of indexes.
LEMMA RuleSets ==
  ASSUME NEW a, NEW i, NEW R, a.rules \in Seq(R)
  PROVE  /\ Together(a, i) \in SUBSET (1..Len(a.rules)) /\ IsFiniteSet(Together(a, i))
         /\ Firsts(a) \in SUBSET (1..Len(a.rules)) /\ IsFiniteSet(Firsts(a))
         /\ Together(a, i) \in SUBSET Nat /\ Firsts(a) \in SUBSET Nat
         /\ Len(a.rules) \in Nat /\ DOMAIN a.rules = 1..Len(a.rules)
<1>1. Len(a.rules) \in Nat /\ DOMAIN a.rules = 1..Len(a.rules)
  OBVIOUS
<1>2. Together(a, i) \in SUBSET (1..Len(a.rules)) /\ Firsts(a) \in SUBSET (1..Len(a.rules))
  BY <1>1, Zenon DEF Together, Firsts
<1>3. IsFiniteSet(1..Len(a.rules)) /\ 1..Len(a.rules) \in SUBSET Nat
  BY <1>1, FS_Interval
<1>4. IsFiniteSet(Together(a, i)) /\ IsFiniteSet(Firsts(a))
  BY <1>2, <1>3, FS_Subset, Zenon
<1> QED
  BY <1>1, <1>2, <1>3, <1>4, Zenon

\* Every rule has the key of one of the first rules.
LEMMA HasFirst ==
  ASSUME NEW a, NEW R, a.rules \in Seq(R), NEW i \in DOMAIN a.rules
  PROVE  \E f \in Firsts(a) : KeyOf(a, f) = KeyOf(a, i)
<1>1. Together(a, i) \in SUBSET Nat /\ i \in Together(a, i) /\ DOMAIN a.rules = 1..Len(a.rules)
  BY RuleSets, Zenon DEF Together
<1>2. PICK f \in Together(a, i) : \A j \in Together(a, i) : f <= j
  BY <1>1, LeastElement, Zenon
<1>3. f \in DOMAIN a.rules /\ KeyOf(a, f) = KeyOf(a, i)
  BY Zenon DEF Together
<1>4. ASSUME NEW j \in 1..(f - 1), KeyOf(a, j) = KeyOf(a, f) PROVE FALSE
  <2>1. j \in DOMAIN a.rules /\ ~(f <= j)
    BY <1>1, <1>3
  <2>2. j \in Together(a, i)
    BY <2>1, <1>3, <1>4, Zenon DEF Together
  <2> QED
    BY <2>1, <2>2, <1>2
<1>5. f \in Firsts(a)
  BY <1>3, <1>4, Zenon DEF Firsts
<1> QED
  BY <1>3, <1>5

\* Two first rules have different keys.
LEMMA FirstsDiffer ==
  ASSUME NEW a, NEW R, a.rules \in Seq(R), NEW f \in Firsts(a), NEW e \in Firsts(a),
         KeyOf(a, f) = KeyOf(a, e)
  PROVE  f = e
<1>1. f \in Nat /\ e \in Nat /\ f \in 1..Len(a.rules) /\ e \in 1..Len(a.rules)
  BY RuleSets, Zenon
<1>2. ~(f \in 1..(e - 1)) /\ ~(e \in 1..(f - 1))
  BY Zenon DEF Firsts
<1> QED
  BY <1>1, <1>2

\* The investigations are a list, each with the rules of one first rule in order.
LEMMA GroupingIs ==
  ASSUME NEW a, NEW R, a.rules \in Seq(R)
  PROVE  LET g == Grouping(a)
             first == InOrder(Firsts(a))
         IN /\ Len(g) \in Nat /\ DOMAIN g = 1..Len(g) /\ Len(g) = Cardinality(Firsts(a))
            /\ \A k \in DOMAIN g : /\ g[k] = Group(a, first[k]) /\ first[k] \in Firsts(a)
                                   /\ g[k].rules \in Seq(1..Len(a.rules))
                                   /\ ToSet(g[k].rules) = Together(a, first[k])
<1> DEFINE n == Cardinality(Firsts(a))
           first == InOrder(Firsts(a))
           g == Grouping(a)
<1>1. n \in Nat /\ first \in Seq(Firsts(a)) /\ DOMAIN first = 1..n
  BY RuleSets, EnumerationFacts, Zenon
<1>2. g = [k \in 1..n |-> Group(a, first[k])]
  BY Zenon DEF Grouping
<1> HIDE DEF n, first, g
<1>3. DOMAIN g = 1..n /\ Len(g) = n
  BY <1>1, <1>2
<1>4. \A k \in DOMAIN g : g[k] = Group(a, first[k]) /\ first[k] \in Firsts(a)
  BY <1>1, <1>2, <1>3
<1>5. ASSUME NEW k \in DOMAIN g
      PROVE  /\ g[k].rules \in Seq(1..Len(a.rules))
             /\ ToSet(g[k].rules) = Together(a, first[k])
  <2>1. g[k].rules = InOrder(Together(a, first[k]))
    BY <1>4 DEF Group
  <2>2. /\ InOrder(Together(a, first[k])) \in Seq(Together(a, first[k]))
        /\ ToSet(InOrder(Together(a, first[k]))) = Together(a, first[k])
    BY RuleSets, EnumerationFacts, Zenon
  <2>3. Together(a, first[k]) \subseteq 1..Len(a.rules)
    BY RuleSets, Zenon
  <2> QED
    BY <2>1, <2>2, <2>3
<1> QED
  BY <1>1, <1>3, <1>4, <1>5, Zenon DEF n, first, g

\* A rule is in the investigation of the first rule with its key and in no other.
LEMMA PlaceIs ==
  ASSUME NEW a, NEW R, a.rules \in Seq(R), NEW i \in DOMAIN a.rules
  PROVE  \E k \in DOMAIN Grouping(a) : /\ Place(Grouping(a), i) = {k}
                                       /\ KeyOf(a, InOrder(Firsts(a))[k]) = KeyOf(a, i)
<1> DEFINE n == Cardinality(Firsts(a))
           first == InOrder(Firsts(a))
           g == Grouping(a)
<1>1. n \in Nat /\ DOMAIN g = 1..n
  BY GroupingIs
<1>2. \A k \in DOMAIN g : first[k] \in Firsts(a) /\ ToSet(g[k].rules) = Together(a, first[k])
  BY GroupingIs
<1>3. ToSet(first) = Firsts(a) /\ DOMAIN first = 1..n
  BY RuleSets, EnumerationFacts, Zenon
<1>4. \A k, l \in 1..n : k < l => first[k] < first[l]
  BY RuleSets, EnumerationFacts, Zenon
<1> HIDE DEF n, first, g
<1>5. PICK f \in Firsts(a) : KeyOf(a, f) = KeyOf(a, i)
  BY HasFirst, Zenon
<1>6. PICK k \in 1..n : first[k] = f
  BY <1>3, <1>5, Zenon DEF ToSet
<1>7. k \in Place(g, i)
  <2>1. i \in Together(a, first[k])
    BY <1>5, <1>6, Zenon DEF Together
  <2> QED
    BY <1>1, <1>2, <2>1, Zenon DEF Place
<1>8. ASSUME NEW l \in Place(g, i) PROVE l = k
  <2>1. l \in 1..n /\ i \in Together(a, first[l]) /\ first[l] \in Firsts(a)
    BY <1>1, <1>2, Zenon DEF Place
  <2>2. KeyOf(a, first[l]) = KeyOf(a, first[k])
    BY <2>1, <1>5, <1>6, Zenon DEF Together
  <2>3. first[l] = first[k]
    BY <2>1, <2>2, <1>5, <1>6, FirstsDiffer, Zenon
  <2>4. first[k] \in Nat
    BY <1>5, <1>6, RuleSets, Zenon
  <2> QED
    BY <2>1, <2>3, <2>4, <1>1, <1>4
<1>9. Place(g, i) = {k}
  BY <1>7, <1>8
<1> QED
  BY <1>1, <1>5, <1>6, <1>9, Zenon DEF n, first, g

\* The check of the resolver before it returns never fails: the investigations
\* cover each rule index once, whatever the payload and the registry.
THEOREM GroupingCovers ==
  ASSUME NEW a, NEW R, a.rules \in Seq(R)
  PROVE  CoversEachRule(Grouping(a), Len(a.rules))
<1> DEFINE n == Len(a.rules)
           g == Grouping(a)
<1>1. DOMAIN a.rules = 1..n
  BY RuleSets, Zenon
<1>2. \A k \in DOMAIN g : ToSet(g[k].rules) \subseteq 1..n
  <2>1. ASSUME NEW k \in DOMAIN g PROVE ToSet(g[k].rules) = Together(a, InOrder(Firsts(a))[k])
    BY GroupingIs
  <2> QED
    BY <2>1, RuleSets, Zenon
<1>3. \A i \in 1..n : \E k \in DOMAIN g : Place(g, i) = {k}
  BY <1>1, PlaceIs, Zenon
<1> HIDE DEF n, g
<1>4. UNION {ToSet(g[k].rules) : k \in DOMAIN g} = 1..n
  <2>1. ASSUME NEW i \in 1..n PROVE \E k \in DOMAIN g : i \in ToSet(g[k].rules)
    BY <1>3, Zenon DEF Place
  <2> QED
    BY <1>2, <2>1, Zenon
<1>5. ASSUME NEW k \in DOMAIN g, NEW l \in DOMAIN g, k # l,
             NEW i, i \in ToSet(g[k].rules), i \in ToSet(g[l].rules)
      PROVE  FALSE
  <2>1. i \in 1..n /\ k \in Place(g, i) /\ l \in Place(g, i)
    BY <1>2, <1>5, Zenon DEF Place
  <2>2. PICK m \in DOMAIN g : Place(g, i) = {m}
    BY <2>1, <1>3
  <2> QED
    BY <2>1, <2>2, <1>5
<1>6. \A k, l \in DOMAIN g : k # l => ToSet(g[k].rules) \cap ToSet(g[l].rules) = {}
  BY <1>5
<1> QED
  BY <1>4, <1>6, Zenon DEF CoversEachRule, n, g

\* Two rules have one key exactly if they are of one scope.
LEMMA KeysAreScopes ==
  ASSUME NEW a, NEW i, NEW j
  PROVE  KeyOf(a, i) = KeyOf(a, j) <=> SameScope(a, i, j)
<1> DEFINE known(n) == RouteOf(a, n) # None
           s(n) == RouteOf(a, n).scope
<1>2. \A n : ~known(n) => KeyOf(a, n) = <<"unknown", n>>
  BY Zenon DEF KeyOf, Key
<1>4. \A n : known(n) => KeyOf(a, n) = <<a.project, TableOf(a, n), PartitionOf(a, n), s(n)>>
  BY Zenon DEF KeyOf, Key
<1> HIDE DEF known, s
<1>5. CASE known(i) /\ known(j)
  <2>1. KeyOf(a, i) = KeyOf(a, j) <=> /\ TableOf(a, i) = TableOf(a, j)
                                      /\ PartitionOf(a, i) = PartitionOf(a, j) /\ s(i) = s(j)
    BY <1>4, <1>5
  <2>2. i = j => s(i) = s(j) /\ KeyOf(a, i) = KeyOf(a, j)
    BY Zenon
  <2> QED
    BY <2>1, <2>2, <1>5, Zenon DEF SameScope, known, s
<1>6. CASE ~known(i) /\ ~known(j)
  BY <1>2, <1>6 DEF SameScope, known
<1>7. ASSUME NEW n, NEW m, known(n), ~known(m) PROVE KeyOf(a, n) # KeyOf(a, m)
  BY <1>2, <1>4, <1>7
<1>8. CASE known(i) /\ ~known(j)
  BY <1>7, <1>8 DEF SameScope, known
<1>9. CASE ~known(i) /\ known(j)
  BY <1>7, <1>9 DEF SameScope, known
<1> QED
  BY <1>5, <1>6, <1>8, <1>9

\* The investigations answer the payload: every rule has one place, rules of one
\* scope and no others share it, and the order is that of the first rules.
THEOREM GroupingAnswers ==
  ASSUME NEW a, NEW R, a.rules \in Seq(R)
  PROVE  Answers(Grouping(a), a)
<1> DEFINE g == Grouping(a)
           first == InOrder(Firsts(a))
<1>1. ASSUME NEW i \in DOMAIN a.rules
      PROVE  \E k \in DOMAIN g : Place(g, i) = {k} /\ KeyOf(a, first[k]) = KeyOf(a, i)
  BY PlaceIs, Zenon
<1>2. DOMAIN g = 1..Len(g) /\ Len(g) \in Nat /\ Len(g) = Cardinality(Firsts(a))
  BY GroupingIs
<1>3. ASSUME NEW k \in DOMAIN g
      PROVE  /\ first[k] \in Firsts(a)
             /\ g[k].rules = InOrder(Together(a, first[k]))
  BY GroupingIs DEF Group
<1>4. ASSUME NEW k \in DOMAIN g, NEW l \in DOMAIN g, k < l PROVE first[k] < first[l]
  BY <1>2, <1>4, RuleSets, EnumerationFacts
<1> HIDE DEF g, first
<1>5. \A i \in DOMAIN a.rules : Cardinality(Place(g, i)) = 1
  BY <1>1, FS_Singleton, Zenon
<1>6. ASSUME NEW i \in DOMAIN a.rules, NEW j \in DOMAIN a.rules
      PROVE  Place(g, i) = Place(g, j) <=> SameScope(a, i, j)
  <2>1. PICK k \in DOMAIN g : Place(g, i) = {k} /\ KeyOf(a, first[k]) = KeyOf(a, i)
    BY <1>1
  <2>2. PICK l \in DOMAIN g : Place(g, j) = {l} /\ KeyOf(a, first[l]) = KeyOf(a, j)
    BY <1>1
  <2>3. k = l <=> KeyOf(a, i) = KeyOf(a, j)
    <3>1. first[k] \in Firsts(a) /\ first[l] \in Firsts(a) /\ first[k] \in Nat /\ first[l] \in Nat
      BY <1>3, RuleSets, Zenon
    <3>2. ASSUME KeyOf(a, i) = KeyOf(a, j) PROVE first[k] = first[l]
      BY <3>1, <3>2, <2>1, <2>2, FirstsDiffer, Zenon
    <3>3. ASSUME KeyOf(a, i) = KeyOf(a, j) PROVE k = l
      BY <3>1, <3>2, <3>3, <1>2, <1>4
    <3> QED
      BY <3>3, <2>1, <2>2
  <2>4. Place(g, i) = Place(g, j) <=> k = l
    BY <2>1, <2>2
  <2> QED
    BY <2>3, <2>4, KeysAreScopes, Zenon
<1>7. ASSUME NEW k \in DOMAIN g PROVE g[k].rules[1] = first[k]
  <2> DEFINE f == first[k]
             T == Together(a, f)
             q == InOrder(T)
             n == Cardinality(T)
  <2>1. f \in T /\ f \in Nat /\ T \in SUBSET Nat /\ f \in Firsts(a)
    BY <1>3, RuleSets, Zenon DEF Together, Firsts
  <2>2. /\ n \in Nat /\ DOMAIN q = 1..n /\ ToSet(q) = T
        /\ \A i, j \in 1..n : i < j => q[i] < q[j]
    BY RuleSets, EnumerationFacts, Zenon
  <2>3. \A j \in T : f <= j
    <3>1. ASSUME NEW j \in T PROVE ~(j \in 1..(f - 1))
      BY <2>1, Zenon DEF Together, Firsts
    <3>2. ASSUME NEW j \in T PROVE j \in Nat /\ 1 <= j
      <4>1. j \in 1..Len(a.rules) /\ Len(a.rules) \in Nat
        BY RuleSets, Zenon
      <4> QED
        BY <4>1
    <3> QED
      BY <3>1, <3>2, <2>1
  <2> HIDE DEF f, T, q, n
  <2>4. PICK m \in 1..n : q[m] = f
    BY <2>1, <2>2, Zenon DEF ToSet
  <2>5. 1 \in 1..n /\ q[1] \in T
    <3>1. 1 \in 1..n
      BY <2>2, <2>4
    <3> QED
      BY <3>1, <2>2, Zenon DEF ToSet
  <2>6. q[1] \in Nat /\ f <= q[1] /\ q[1] <= f
    <3>1. q[1] \in Nat /\ f <= q[1]
      BY <2>1, <2>3, <2>5
    <3>2. m = 1 \/ 1 < m
      BY <2>2, <2>4
    <3> QED
      BY <3>1, <3>2, <2>1, <2>2, <2>4, <2>5
  <2> QED
    BY <2>6, <2>1, <1>3 DEF f, q, T
<1>8. ASSUME NEW k \in DOMAIN g, NEW l \in DOMAIN g, k < l
      PROVE  g[k].rules[1] < g[l].rules[1]
  BY <1>4, <1>7, <1>8
<1> QED
  BY <1>5, <1>6, <1>8, Zenon DEF Answers, g
=============================================================================
