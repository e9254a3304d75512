-------------------------- MODULE FamilyRecordProofs --------------------------
(***************************************************************************)
(* Proofs about FamilyRecord, for every table of counts and every contract *)
(* that the assumptions of BucketEvidence and FamilyRecord allow.          *)
(*                                                                         *)
(* What a recursive function computes is proved without induction over an  *)
(* operator: a smallest counterexample (Least, FoldInduction take sets)    *)
(* and, for gcd and the folds, a function written without recursion that   *)
(* solves their equation.                                                  *)
(***************************************************************************)
EXTENDS FamilyRecord, FiniteSetTheorems, WellFoundedInduction, TLAPS
-----------------------------------------------------------------------------
(* Division and the greatest common divisor.                               *)

\* g divides x; the common divisors of two numbers; the largest number of a set.
Holds(x, g) == \E k \in Int : x = g * k
Common(a, b) == {g \in Nat \ {0} : Holds(a, g) /\ Holds(b, g)}
Top(S) == CHOOSE m \in S : \A x \in S : x <= m
\* The greatest common divisor, without recursion.
Divisor == [p \in Nat \X Nat |-> IF p[2] = 0 THEN p[1] ELSE Top(Common(p[1], p[2]))]

\* A set of natural numbers has a least one.
LEMMA Least ==
  ASSUME NEW S \in SUBSET Nat, S # {}
  PROVE  \E n \in S : \A m \in S : n <= m
<1>1. \E k \in S : \A j \in S : ~(<<j, k>> \in OpToRel(<, Nat))
  BY NatLessThanWellFounded, WFMin, Zenon
<1>2. PICK k \in S : \A j \in S : ~(<<j, k>> \in OpToRel(<, Nat))
  BY <1>1
<1>3. \A j \in S : ~(j < k)
  BY <1>2, Zenon DEF OpToRel
<1> QED
  BY <1>3

\* Quotient and remainder.
LEMMA Division ==
  ASSUME NEW a \in Nat, NEW b \in Nat \ {0}
  PROVE  /\ a \div b \in Nat /\ a % b \in Nat /\ a % b < b
         /\ a = b * (a \div b) + (a % b)
<1>1. a % b \in 0..(b - 1)
  OBVIOUS
<1>2. a \div b \in Int
  OBVIOUS
<1>3. a = b * (a \div b) + (a % b)
  <2>1. a \in Nat /\ b \in Nat /\ b > 0
    OBVIOUS
  <2> QED
    BY ONLY <2>1
<1>4. a \div b >= 0
  BY <1>1, <1>2, <1>3
<1> QED
  BY <1>1, <1>2, <1>3, <1>4

\* A step of gcd keeps the common divisors.
LEMMA CommonSame ==
  ASSUME NEW a \in Nat, NEW b \in Nat \ {0}
  PROVE  Common(a, b) = Common(b, a % b)
<1> DEFINE q == a \div b
           r == a % b
<1>1. q \in Int /\ r \in Int /\ a = b * q + r
  BY Division
<1> HIDE DEF q, r
<1>2. ASSUME NEW g \in Nat \ {0}, Holds(b, g), Holds(a, g)
      PROVE  Holds(r, g)
  <2>1. PICK x \in Int : a = g * x
    BY <1>2 DEF Holds
  <2>2. PICK y \in Int : b = g * y
    BY <1>2 DEF Holds
  <2>3. r = g * (x - y * q) /\ x - y * q \in Int
    <3>1. r = g * x - (g * y) * q
      BY <1>1, <2>1, <2>2
    <3> QED
      BY ONLY <3>1, <1>1, <2>1, <2>2, g \in Int
  <2> QED
    BY <2>3 DEF Holds
<1>3. ASSUME NEW g \in Nat \ {0}, Holds(b, g), Holds(r, g)
      PROVE  Holds(a, g)
  <2>1. PICK x \in Int : r = g * x
    BY <1>3 DEF Holds
  <2>2. PICK y \in Int : b = g * y
    BY <1>3 DEF Holds
  <2>3. a = g * (y * q + x) /\ y * q + x \in Int
    <3>1. a = (g * y) * q + g * x
      BY <1>1, <2>1, <2>2
    <3> QED
      BY <3>1, <1>1
  <2> QED
    BY <2>3 DEF Holds
<1>4. Common(a, b) = Common(b, r)
  BY <1>2, <1>3 DEF Common
<1> QED
  BY <1>4 DEF r

\* A divisor of a is the greatest one that it shares with a.
LEMMA TopItself ==
  ASSUME NEW a \in Nat, NEW b \in Nat \ {0}, a % b = 0
  PROVE  Top(Common(a, b)) = b
<1>1. b \in Common(a, b)
  <2>1. a = b * (a \div b) /\ b = b * 1 /\ a \div b \in Int
    BY Division
  <2> QED
    BY <2>1 DEF Common, Holds
<1>2. ASSUME NEW g \in Common(a, b) PROVE g <= b
  <2>1. g \in Nat \ {0} /\ \E k \in Int : b = g * k
    BY DEF Common, Holds
  <2>2. PICK k \in Int : b = g * k
    BY <2>1
  <2>3. k >= 1
    BY <2>1, <2>2
  <2> QED
    BY <2>1, <2>2, <2>3
<1>3. Common(a, b) \subseteq Int
  BY DEF Common
<1> QED
  BY <1>1, <1>2, <1>3 DEF Top

\* Divisor solves the equation that defines gcd.
LEMMA DivisorSolves ==
  Divisor = [p \in Nat \X Nat |-> IF p[2] = 0 THEN p[1] ELSE Divisor[<<p[2], p[1] % p[2]>>]]
<1>1. ASSUME NEW p \in Nat \X Nat
      PROVE  Divisor[p] = IF p[2] = 0 THEN p[1] ELSE Divisor[<<p[2], p[1] % p[2]>>]
  <2> DEFINE a == p[1]
             b == p[2]
             r == a % b
  <2>1. a \in Nat /\ b \in Nat /\ Divisor[p] = IF b = 0 THEN a ELSE Top(Common(a, b))
    BY DEF Divisor
  <2>2. CASE b = 0
    BY <2>1, <2>2
  <2>3. CASE b # 0
    <3>1. r \in Nat /\ <<b, r>> \in Nat \X Nat
      BY <2>1, <2>3, Division
    <3>2. Divisor[<<b, r>>] = IF r = 0 THEN b ELSE Top(Common(b, r))
      <4> HIDE DEF r
      <4> QED
        BY <3>1 DEF Divisor
    <3>3. r = 0 => Top(Common(a, b)) = b
      BY <2>1, <2>3, TopItself
    <3>4. Common(a, b) = Common(b, r)
      BY <2>1, <2>3, CommonSame
    <3> HIDE DEF a, b, r
    <3>5. Divisor[p] = Divisor[<<b, r>>]
      BY <2>1, <2>3, <3>2, <3>3, <3>4
    <3> QED
      BY <2>3, <3>5 DEF a, b, r
  <2> QED
    BY <2>2, <2>3
<1>2. Divisor = [p \in Nat \X Nat |-> Divisor[p]]
  BY DEF Divisor
<1> HIDE DEF Divisor
<1> QED
  BY <1>1, <1>2

\* The equation of gcd has a solution, so that gcd satisfies it.
LEMMA GcdIs ==
  ASSUME NEW a \in Nat, NEW b \in Nat
  PROVE  gcd[<<a, b>>] = IF b = 0 THEN a ELSE gcd[<<b, a % b>>]
<1> DEFINE R(g) == g = [p \in Nat \X Nat |-> IF p[2] = 0 THEN p[1] ELSE g[<<p[2], p[1] % p[2]>>]]
<1>1. R(Divisor)
  BY DivisorSolves
<1>2. gcd = CHOOSE g : R(g)
  BY DEF gcd
<1>3. R(gcd)
  <2> HIDE DEF R
  <2> QED
    BY <1>1, <1>2
<1> QED
  BY <1>3

\* gcd divides both numbers, and so Ratio divides without a remainder.
LEMMA GcdDivides ==
  ASSUME NEW a \in Nat, NEW b \in Nat \ {0}
  PROVE  gcd[<<a, b>>] \in Nat \ {0} /\ Holds(a, gcd[<<a, b>>]) /\ Holds(b, gcd[<<a, b>>])
<1> DEFINE Good(x, y) == /\ gcd[<<x, y>>] \in Nat \ {0}
                         /\ Holds(x, gcd[<<x, y>>]) /\ Holds(y, gcd[<<x, y>>])
           bad == {y \in Nat \ {0} : \E x \in Nat : ~Good(x, y)}
<1>1. ASSUME bad # {} PROVE FALSE
  <2>1. PICK y \in bad : \A z \in bad : y <= z
    BY <1>1, Least
  <2>2. PICK x \in Nat : ~Good(x, y)
    BY <2>1
  <2> DEFINE r == x % y
  <2>3. y \in Nat \ {0} /\ r \in Nat /\ r < y /\ x \div y \in Nat /\ x = (y * (x \div y)) + r
    BY <2>1, Division
  <2>4. gcd[<<x, y>>] = gcd[<<y, r>>]
    BY <2>3, GcdIs
  <2>5. CASE r = 0
    <3>1. gcd[<<y, r>>] = y
      BY <2>3, <2>5, GcdIs
    <3>2. x = y * (x \div y) /\ y = y * 1
      BY <2>3, <2>5
    <3>3. Holds(x, y) /\ Holds(y, y)
      BY <2>3, <3>2 DEF Holds
    <3> QED
      BY <2>2, <2>3, <2>4, <3>1, <3>3
  <2>6. CASE r # 0
    <3>1. r \notin bad
      <4> HIDE DEF bad, r
      <4> QED
        BY <2>1, <2>3
    <3>2. Good(y, r)
      BY <2>3, <2>6, <3>1
    <3> DEFINE g == gcd[<<y, r>>]
    <3>3. g \in Nat \ {0} /\ Holds(y, g) /\ Holds(r, g)
      BY <3>2
    <3>4. g \in Common(y, r)
      BY <3>3 DEF Common
    <3>5. g \in Common(x, y)
      BY <2>3, <3>4, CommonSame
    <3>6. Holds(x, g)
      BY <3>5 DEF Common
    <3> QED
      BY <2>2, <2>4, <3>3, <3>6
  <2> QED
    BY <2>5, <2>6
<1>2. b \notin bad
  BY <1>1
<1> QED
  BY <1>2
-----------------------------------------------------------------------------
(* Fractions.                                                              *)

\* A multiple divided by its factor.
LEMMA Quotient ==
  ASSUME NEW g \in Nat, g > 0, NEW k \in Int
  PROVE  (g * k) \div g = k
<1> DEFINE m == g * k
           q == m \div g
<1>1. m \in Int /\ q \in Int
  OBVIOUS
<1>2. g * q <= m /\ m < g * q + g
  <2> HIDE DEF m
  <2> QED
    BY <1>1
<1> HIDE DEF q
<1>3. g * (q - k) <= 0 /\ 0 < g * (q - k + 1)
  BY <1>1, <1>2
<1>4. q - k <= 0 /\ q - k > -1
  BY <1>1, <1>3
<1>5. q = k
  BY <1>1, <1>4
<1> QED
  BY <1>5 DEF q, m

\* A fraction in lowest terms has the value of the quotient.
LEMMA RatioIs ==
  ASSUME NEW n \in Int, NEW d \in Nat \ {0}
  PROVE  /\ Ratio(n, d) \in Fractions
         /\ Ratio(n, d).n * d = n * Ratio(n, d).d
<1> DEFINE a == Magnitude(n)
           g == gcd[<<a, d>>]
           c == Ratio(n, d)
<1>1. a \in Nat /\ (n = a \/ n = -a)
  BY DEF Magnitude
<1>2. g \in Nat /\ g > 0 /\ Holds(a, g) /\ Holds(d, g)
  <2> HIDE DEF a
  <2> QED
    BY <1>1, GcdDivides
<1>3. c = [n |-> n \div g, d |-> d \div g]
  BY DEF Ratio
<1> HIDE DEF a, g, c
<1>4. PICK x \in Int : a = g * x
  BY <1>2 DEF Holds
<1>5. PICK y \in Int : d = g * y
  BY <1>2 DEF Holds
<1>6. PICK z \in Int : n = g * z
  <2>1. n = g * x \/ n = g * (-x)
    BY <1>1, <1>2, <1>4
  <2> QED
    BY <2>1
<1>7. c.n = z /\ c.d = y
  BY <1>2, <1>3, <1>5, <1>6, Quotient
<1>8. y > 0
  BY <1>2, <1>5
<1>9. z * d = n * y
  <2>1. z * (g * y) = (g * z) * y
    BY <1>2
  <2> QED
    BY <2>1, <1>5, <1>6
<1>10. c \in Fractions
  BY <1>3, <1>7, <1>8 DEF Fractions
<1> QED
  BY <1>7, <1>9, <1>10 DEF c


\* What Plus returns: a fraction, of the value that the definition computes.
LEMMA PlusIs ==
  ASSUME NEW a \in Fractions, NEW b \in Fractions
  PROVE  Plus(a, b) \in Fractions
         /\ Plus(a, b).n * (a.d * b.d) = (a.n * b.d + b.n * a.d) * Plus(a, b).d
<1>1. a.n * b.d + b.n * a.d \in Int /\ a.d * b.d \in Nat \ {0}
  BY DEF Fractions
<1> QED
  BY <1>1, RatioIs DEF Plus

\* What Minus returns.
LEMMA MinusIs ==
  ASSUME NEW a \in Fractions, NEW b \in Fractions
  PROVE  Minus(a, b) \in Fractions
         /\ Minus(a, b).n * (a.d * b.d) = (a.n * b.d - b.n * a.d) * Minus(a, b).d
<1>1. a.n * b.d - b.n * a.d \in Int /\ a.d * b.d \in Nat \ {0}
  BY DEF Fractions
<1> QED
  BY <1>1, RatioIs DEF Minus

\* What Times returns.
LEMMA TimesIs ==
  ASSUME NEW a \in Fractions, NEW b \in Fractions
  PROVE  Times(a, b) \in Fractions
         /\ Times(a, b).n * (a.d * b.d) = (a.n * b.n) * Times(a, b).d
<1>1. a.n * b.n \in Int /\ a.d * b.d \in Nat \ {0}
  BY DEF Fractions
<1> QED
  BY <1>1, RatioIs DEF Times

\* What Half returns.
LEMMA HalfIs ==
  ASSUME NEW a \in Fractions
  PROVE  Half(a) \in Fractions /\ Half(a).n * (2 * a.d) = a.n * Half(a).d
<1>1. a.n \in Int /\ 2 * a.d \in Nat \ {0}
  BY DEF Fractions
<1> QED
  BY <1>1, RatioIs DEF Half
-----------------------------------------------------------------------------
(* Folds over finite sets.                                                 *)

\* Among finite sets there is a smallest.
LEMMA SmallestSet ==
  ASSUME NEW F, F # {}, \A s \in F : IsFiniteSet(s)
  PROVE  \E s \in F : \A t \in F : Cardinality(s) <= Cardinality(t)
<1> DEFINE N == {Cardinality(s) : s \in F}
<1>1. N \in SUBSET Nat /\ N # {}
  BY FS_CardinalityType
<1>2. PICK n \in N : \A m \in N : n <= m
  <2> HIDE DEF N
  <2> QED
    BY <1>1, Least
<1> QED
  BY <1>2

\* The element that a fold takes out of s.
Pick(s) == CHOOSE x \in s : TRUE

\* h is the fold of step over the subsets of S.
FoldsAs(h, S, base, step) ==
  \A s \in SUBSET S : h[s] = IF s = {} THEN base ELSE step[<<Pick(s), h[s \ {Pick(s)}]>>]

\* Every step function can be folded over a finite set.
LEMMA FoldExists ==
  ASSUME NEW S, IsFiniteSet(S), NEW V, NEW base \in V, NEW step \in [S \X V -> V]
  PROVE  \E h \in [SUBSET S -> V] : FoldsAs(h, S, base, step)
<1> DEFINE Small(n) == {s \in SUBSET S : Cardinality(s) <= n}
           Value(h, s) == IF s = {} THEN base ELSE step[<<Pick(s), h[s \ {Pick(s)}]>>]
           Good(n) == \E h \in [Small(n) -> V] : \A s \in Small(n) : h[s] = Value(h, s)
           bad == {n \in Nat : ~Good(n)}
<1>1. \A s \in SUBSET S : IsFiniteSet(s) /\ Cardinality(s) \in Nat
  BY FS_Subset, FS_CardinalityType
<1>2. ASSUME NEW n \in Nat, NEW s \in Small(n + 1), s # {}
      PROVE  Pick(s) \in S /\ s \ {Pick(s)} \in Small(n)
  <2>1. Pick(s) \in s
    BY <1>2 DEF Pick
  <2>2. Cardinality(s \ {Pick(s)}) = Cardinality(s) - 1
    BY <1>1, <2>1, FS_RemoveElement
  <2> QED
    BY <1>1, <2>1, <2>2
<1>3. Good(0)
  <2>1. Small(0) = {{}}
    BY <1>1, FS_EmptySet
  <2> DEFINE h == [s \in Small(0) |-> base]
  <2>2. h \in [Small(0) -> V] /\ \A s \in Small(0) : h[s] = Value(h, s)
    BY <2>1
  <2> QED
    BY <2>2
<1>4. ASSUME NEW n \in Nat, Good(n) PROVE Good(n + 1)
  <2>1. PICK h \in [Small(n) -> V] : \A s \in Small(n) : h[s] = Value(h, s)
    BY <1>4
  <2> DEFINE g == [s \in Small(n + 1) |-> Value(h, s)]
  <2>2. \A s \in Small(n + 1) : s # {} => h[s \ {Pick(s)}] \in V
    BY <1>2
  <2>3. g \in [Small(n + 1) -> V]
    <3>1. \A s \in Small(n + 1) : Value(h, s) \in V
      BY <1>2, <2>2
    <3> QED
      BY <3>1
  <2>4. \A s \in Small(n) : s \in Small(n + 1) /\ g[s] = h[s]
    BY <1>1, <2>1
  <2>5. ASSUME NEW s \in Small(n + 1) PROVE g[s] = Value(g, s)
    <3>1. CASE s = {}
      BY <3>1
    <3>2. CASE s # {}
      <4>1. g[s \ {Pick(s)}] = h[s \ {Pick(s)}]
        BY <1>2, <2>4, <3>2
      <4>2. g[s] = Value(h, s)
        OBVIOUS
      <4> HIDE DEF g
      <4> QED
        BY <3>2, <4>1, <4>2
    <3> QED
      BY <3>1, <3>2
  <2> HIDE DEF g, Value, Small
  <2> QED
    BY <2>3, <2>5
<1>5. bad = {}
  <2> SUFFICES ASSUME bad # {} PROVE FALSE
    OBVIOUS
  <2>1. bad \in SUBSET Nat
    OBVIOUS
  <2>2. PICK n \in bad : \A m \in bad : n <= m
    <3> HIDE DEF bad
    <3> QED
      BY <2>1, Least
  <2> HIDE DEF Good
  <2>3. n # 0 /\ n \in Nat /\ ~Good(n)
    BY <1>3, <2>2
  <2>4. n - 1 \in Nat /\ n - 1 \notin bad
    <3> HIDE DEF bad
    <3> QED
      BY <2>2, <2>3
  <2>5. Good(n - 1)
    BY <2>4
  <2>6. Good((n - 1) + 1)
    BY <1>4, <2>4, <2>5
  <2> QED
    BY <2>3, <2>6
<1>6. Good(Cardinality(S))
  <2> HIDE DEF Good
  <2> QED
    BY <1>1, <1>5
<1>7. Small(Cardinality(S)) = SUBSET S
  BY FS_Subset
<1> QED
  BY <1>6, <1>7 DEF FoldsAs

\* Induction over the subsets of a finite set, smaller ones first.
LEMMA SubsetInduction ==
  ASSUME NEW S, IsFiniteSet(S), NEW G,
         \A s \in SUBSET S :
           (\A t \in SUBSET S : Cardinality(t) < Cardinality(s) => t \in G) => s \in G
  PROVE  SUBSET S \subseteq G
<1> DEFINE bad == {s \in SUBSET S : s \notin G}
<1>1. ASSUME bad # {} PROVE FALSE
  <2>1. \A s \in SUBSET S : IsFiniteSet(s) /\ Cardinality(s) \in Nat
    BY FS_Subset, FS_CardinalityType
  <2>2. bad \subseteq SUBSET S
    OBVIOUS
  <2>3. PICK s \in bad : \A t \in bad : Cardinality(s) <= Cardinality(t)
    <3> HIDE DEF bad
    <3> QED
      BY <1>1, <2>1, <2>2, SmallestSet
  <2>4. ASSUME NEW t \in SUBSET S, Cardinality(t) < Cardinality(s) PROVE t \in G
    <3>1. t \notin bad
      <4> HIDE DEF bad
      <4> QED
        BY <2>1, <2>2, <2>3, <2>4
    <3> QED
      BY <3>1
  <2>5. s \in SUBSET S /\ s \notin G
    BY <2>3
  <2> HIDE DEF bad
  <2> QED
    BY <2>4, <2>5
<1> QED
  BY <1>1

\* G goes from what a fold has left of s to s.
Inherits(G, S) == \A s \in SUBSET S : s # {} /\ s \ {Pick(s)} \in G => s \in G

\* Induction the way a fold goes.
LEMMA FoldInduction ==
  ASSUME NEW S, IsFiniteSet(S), NEW G, {} \in G, Inherits(G, S)
  PROVE  SUBSET S \subseteq G
<1>1. ASSUME NEW s \in SUBSET S,
             \A t \in SUBSET S : Cardinality(t) < Cardinality(s) => t \in G
      PROVE  s \in G
  <2>1. CASE s = {}
    BY <2>1
  <2>2. CASE s # {}
    <3>1. Pick(s) \in s
      BY <2>2 DEF Pick
    <3>2. IsFiniteSet(s) /\ Cardinality(s) \in Nat
      BY FS_Subset, FS_CardinalityType
    <3>3. Cardinality(s \ {Pick(s)}) = Cardinality(s) - 1
      BY <3>1, <3>2, FS_RemoveElement, Zenon
    <3>4. Cardinality(s \ {Pick(s)}) < Cardinality(s) /\ s \ {Pick(s)} \in SUBSET S
      BY <3>2, <3>3
    <3> QED
      BY <1>1, <2>2, <3>4 DEF Inherits
  <2> QED
    BY <2>1, <2>2
<1> QED
  BY <1>1, SubsetInduction

\* At s, g and h go the same step of a fold.
SameStep(g, h, s) == (s # {} => g[s \ {Pick(s)}] = h[s \ {Pick(s)}]) => g[s] = h[s]

\* Two functions that go the way of the same fold are equal.
LEMMA FoldUnique ==
  ASSUME NEW S, IsFiniteSet(S), NEW g, NEW h, \A s \in SUBSET S : SameStep(g, h, s)
  PROVE  \A s \in SUBSET S : g[s] = h[s]
<1> DEFINE G == {s \in SUBSET S : g[s] = h[s]}
<1>1. {} \in G
  BY DEF SameStep
<1>2. Inherits(G, S)
  BY DEF Inherits, SameStep
<1> HIDE DEF G
<1>3. SUBSET S \subseteq G
  BY <1>1, <1>2, FoldInduction
<1> QED
  BY <1>3 DEF G
-----------------------------------------------------------------------------
(* Sums of integers.                                                       *)

\* h adds up the function f over the subsets of T.
Adds(h, f, T) ==
  h = [s \in SUBSET T |-> IF s = {} THEN 0 ELSE f[Pick(s)] + h[s \ {Pick(s)}]]

\* The sum of f over T.
IntSum(f, T) == (CHOOSE h : Adds(h, f, T))[T]

\* A sum over a set is one for each of its subsets.
LEMMA OneSum ==
  ASSUME NEW S, IsFiniteSet(S), NEW f, NEW h, Adds(h, f, S), NEW T \in SUBSET S
  PROVE  \A g : Adds(g, f, T) => g[T] = h[T]
<1> SUFFICES ASSUME NEW g, Adds(g, f, T) PROVE g[T] = h[T]
  OBVIOUS
<1>1. IsFiniteSet(T)
  BY FS_Subset
<1>2. ASSUME NEW s \in SUBSET T, s # {} => g[s \ {Pick(s)}] = h[s \ {Pick(s)}]
      PROVE  g[s] = h[s]
  <2>1. g[s] = IF s = {} THEN 0 ELSE f[Pick(s)] + g[s \ {Pick(s)}]
    BY Zenon DEF Adds
  <2>2. h[s] = IF s = {} THEN 0 ELSE f[Pick(s)] + h[s \ {Pick(s)}]
    <3>1. s \in SUBSET S
      OBVIOUS
    <3> QED
      BY <3>1, Zenon DEF Adds
  <2> QED
    BY <1>2, <2>1, <2>2
<1>3. \A s \in SUBSET T : SameStep(g, h, s)
  BY <1>2 DEF SameStep
<1>4. \A s \in SUBSET T : g[s] = h[s]
  BY <1>1, <1>3, FoldUnique
<1> QED
  BY <1>4

\* The sums over the subsets of a finite set.
LEMMA IntSumIs ==
  ASSUME NEW S, IsFiniteSet(S), NEW f \in [S -> Int]
  PROVE  /\ IntSum(f, {}) = 0
         /\ \A T \in SUBSET S : /\ IntSum(f, T) \in Int
                                /\ T # {} => IntSum(f, T) = f[Pick(T)] + IntSum(f, T \ {Pick(T)})
<1> DEFINE step == [p \in S \X Int |-> f[p[1]] + p[2]]
<1>1. step \in [S \X Int -> Int]
  OBVIOUS
<1>2. PICK h \in [SUBSET S -> Int] : FoldsAs(h, S, 0, step)
  <2> HIDE DEF step
  <2>1. 0 \in Int
    OBVIOUS
  <2> QED
    BY <1>1, <2>1, FoldExists, Zenon
<1>3. \A T \in SUBSET S : T # {} => Pick(T) \in T /\ T \ {Pick(T)} \in SUBSET S
  BY DEF Pick
<1>4. \A T \in SUBSET S : h[T] = IF T = {} THEN 0 ELSE f[Pick(T)] + h[T \ {Pick(T)}]
  BY <1>2, <1>3 DEF FoldsAs
<1>5. Adds(h, f, S)
  <2>1. h = [T \in SUBSET S |-> h[T]]
    BY <1>2
  <2> QED
    BY <1>4, <2>1 DEF Adds
<1>6. ASSUME NEW T \in SUBSET S PROVE IntSum(f, T) = h[T]
  <2> DEFINE g == [s \in SUBSET T |-> h[s]]
  <2>1. Adds(g, f, T)
    <3>1. \A s \in SUBSET T : /\ s \in SUBSET S /\ g[s] = h[s]
                              /\ s # {} => g[s \ {Pick(s)}] = h[s \ {Pick(s)}]
      OBVIOUS
    <3>2. \A s \in SUBSET T : h[s] = IF s = {} THEN 0 ELSE f[Pick(s)] + g[s \ {Pick(s)}]
      <4> HIDE DEF g
      <4> QED
        BY <1>4, <3>1
    <3>3. g = [s \in SUBSET T |-> IF s = {} THEN 0 ELSE f[Pick(s)] + g[s \ {Pick(s)}]]
      BY <3>2, Zenon
    <3> QED
      BY <3>3 DEF Adds
  <2> HIDE DEF g
  <2>2. Adds(CHOOSE x : Adds(x, f, T), f, T)
    BY <2>1
  <2>3. (CHOOSE x : Adds(x, f, T))[T] = h[T]
    BY <1>5, <2>2, OneSum
  <2> QED
    BY <2>3 DEF IntSum
<1>7. {} \in SUBSET S
  OBVIOUS
<1> QED
  BY <1>3, <1>4, <1>6, <1>7

\* Any element may be taken out of a sum.
LEMMA IntSumAny ==
  ASSUME NEW S, IsFiniteSet(S), NEW f \in [S -> Int], NEW T \in SUBSET S, NEW x \in T
  PROVE  IntSum(f, T) = f[x] + IntSum(f, T \ {x})
<1> DEFINE Good(s) == \A y \in s : IntSum(f, s) = f[y] + IntSum(f, s \ {y})
           G == {s \in SUBSET S : Good(s)}
<1>1. ASSUME NEW s \in SUBSET S,
             \A t \in SUBSET S : Cardinality(t) < Cardinality(s) => t \in G,
             NEW y \in s
      PROVE  IntSum(f, s) = f[y] + IntSum(f, s \ {y})
  <2> DEFINE p == Pick(s)
             a == s \ {p}
             b == s \ {y}
  <2>1. IsFiniteSet(s) /\ Cardinality(s) \in Nat
    BY FS_Subset, FS_CardinalityType
  <2>2. p \in s
    BY DEF Pick
  <2>3. IntSum(f, s) = f[p] + IntSum(f, a)
    BY IntSumIs
  <2>4. CASE p = y
    BY <2>3, <2>4
  <2>5. CASE p # y
    <3>1. /\ a \in SUBSET S /\ b \in SUBSET S /\ b \ {p} \in SUBSET S
          /\ y \in a /\ p \in b /\ a \ {y} = b \ {p}
      BY <2>2, <2>5
    <3>2. Cardinality(a) < Cardinality(s) /\ Cardinality(b) < Cardinality(s)
      <4>1. Cardinality(a) = Cardinality(s) - 1 /\ Cardinality(b) = Cardinality(s) - 1
        BY <2>1, <2>2, FS_RemoveElement, Zenon
      <4> QED
        BY <2>1, <4>1
    <3> HIDE DEF a, b, p
    <3>3. a \in G /\ b \in G
      <4> HIDE DEF G
      <4> QED
        BY <1>1, <3>1, <3>2
    <3>4. IntSum(f, a) = f[y] + IntSum(f, a \ {y}) /\ IntSum(f, b) = f[p] + IntSum(f, b \ {p})
      BY <3>1, <3>3, Zenon
    <3>5. IntSum(f, a \ {y}) = IntSum(f, b \ {p})
      BY <3>1, Zenon
    <3>6. f[p] \in Int /\ f[y] \in Int /\ IntSum(f, b \ {p}) \in Int
      BY <2>2, <3>1, IntSumIs
    <3>7. IntSum(f, s) = f[y] + IntSum(f, b)
      BY <2>3, <3>4, <3>5, <3>6
    <3> QED
      BY <3>7 DEF b
  <2> QED
    BY <2>4, <2>5
<1>2. \A s \in SUBSET S :
        (\A t \in SUBSET S : Cardinality(t) < Cardinality(s) => t \in G) => s \in G
  <2> SUFFICES ASSUME NEW s \in SUBSET S,
                      \A t \in SUBSET S : Cardinality(t) < Cardinality(s) => t \in G
               PROVE  Good(s)
    BY Zenon
  <2> HIDE DEF G
  <2> QED
    BY <1>1
<1>3. SUBSET S \subseteq G
  <2> HIDE DEF G
  <2> QED
    BY <1>2, SubsetInduction
<1> QED
  BY <1>3

\* The sum of a function exists.
LEMMA IntSumAdds ==
  ASSUME NEW S, IsFiniteSet(S), NEW f \in [S -> Int]
  PROVE  \E h : Adds(h, f, S) /\ IntSum(f, S) = h[S]
<1> DEFINE h == [T \in SUBSET S |-> IntSum(f, T)]
<1>1. \A T \in SUBSET S : T # {} => T \ {Pick(T)} \in SUBSET S
  OBVIOUS
<1>2. \A T \in SUBSET S : h[T] = IF T = {} THEN 0 ELSE f[Pick(T)] + h[T \ {Pick(T)}]
  <2>1. /\ IntSum(f, {}) = 0
        /\ \A T \in SUBSET S : T # {} => IntSum(f, T) = f[Pick(T)] + IntSum(f, T \ {Pick(T)})
    BY IntSumIs
  <2>2. \A T \in SUBSET S : h[T] = IntSum(f, T)
    OBVIOUS
  <2> HIDE DEF h
  <2> QED
    BY <1>1, <2>1, <2>2
<1>3. h = [T \in SUBSET S |-> h[T]]
  OBVIOUS
<1>4. h[S] = IntSum(f, S)
  OBVIOUS
<1> HIDE DEF h
<1>5. Adds(h, f, S)
  BY <1>2, <1>3 DEF Adds
<1> QED
  BY <1>4, <1>5

\* A sum of natural numbers is one, and none of them is larger.
LEMMA NatSum ==
  ASSUME NEW S, IsFiniteSet(S), NEW f \in [S -> Int], NEW T \in SUBSET S,
         \A x \in T : f[x] >= 0
  PROVE  IntSum(f, T) \in Nat /\ \A x \in T : f[x] <= IntSum(f, T)
<1> DEFINE G == {s \in SUBSET T : IntSum(f, s) \in Nat}
<1>1. \A s \in SUBSET T : s \in SUBSET S /\ IntSum(f, s) \in Int
  BY IntSumIs
<1>2. {} \in G
  BY IntSumIs
<1>3. ASSUME NEW s \in SUBSET T, s # {}, s \ {Pick(s)} \in G PROVE s \in G
  <2>1. Pick(s) \in s
    BY <1>3 DEF Pick
  <2>2. IntSum(f, s) = f[Pick(s)] + IntSum(f, s \ {Pick(s)})
    BY <1>1, <1>3, IntSumIs
  <2>3. f[Pick(s)] \in Int /\ f[Pick(s)] >= 0 /\ IntSum(f, s \ {Pick(s)}) \in Nat
    BY <1>3, <2>1
  <2>4. IntSum(f, s) \in Nat
    BY <2>2, <2>3
  <2> QED
    BY <2>4
<1>4. IsFiniteSet(T) /\ Inherits(G, T)
  <2> HIDE DEF G
  <2> QED
    BY <1>3, FS_Subset DEF Inherits
<1>5. SUBSET T \subseteq G
  <2> HIDE DEF G
  <2> QED
    BY <1>2, <1>4, FoldInduction
<1>6. ASSUME NEW x \in T PROVE f[x] <= IntSum(f, T)
  <2>1. IntSum(f, T) = f[x] + IntSum(f, T \ {x})
    BY IntSumAny
  <2>2. IntSum(f, T \ {x}) \in Nat /\ f[x] \in Int
    <3>1. T \ {x} \in SUBSET T
      OBVIOUS
    <3> QED
      BY <1>5, <3>1
  <2> QED
    BY <2>1, <2>2
<1> QED
  BY <1>5, <1>6

\* A field of the rows, as a function.
Column(field, T) == [r \in T |-> r[field]]

\* The sum of a field.
LEMMA FieldSumIs ==
  ASSUME NEW T, IsFiniteSet(T), NEW field, \A r \in T : r[field] \in Int, NEW U \in SUBSET T
  PROVE  FieldSum(field, U) = IntSum(Column(field, T), U)
<1> DEFINE f == Column(field, T)
           P(h) == h = [s \in SUBSET U |-> IF s = {} THEN 0 ELSE Pick(s)[field] + h[s \ {Pick(s)}]]
<1>1. f \in [T -> Int] /\ \A r \in T : f[r] = r[field]
  BY DEF Column
<1>2. IsFiniteSet(U)
  BY FS_Subset
<1> DEFINE g == [r \in U |-> f[r]]
<1>3. g \in [U -> Int] /\ \A r \in U : g[r] = r[field] /\ f[r] = r[field]
  BY <1>1
<1>4. \A s \in SUBSET U : s # {} => Pick(s) \in U
  BY DEF Pick
<1> HIDE DEF f, g
<1>5. \A h : Adds(h, g, U) => P(h)
  BY <1>3, <1>4 DEF Adds
<1>6. \A h : P(h) => Adds(h, f, U)
  BY <1>3, <1>4 DEF Adds
<1>7. FieldSum(field, U) = (CHOOSE h : P(h))[U]
  BY Zenon DEF FieldSum, MapThenSumSet, MapThenFoldSet, Pick
<1>8. \E h : P(h)
  <2>1. \E h : Adds(h, g, U)
    BY <1>2, <1>3, IntSumAdds
  <2> HIDE DEF P
  <2> QED
    BY <1>5, <2>1
<1>9. PICK H : Adds(H, f, T) /\ IntSum(f, T) = H[T]
  BY <1>1, IntSumAdds
<1>10. IntSum(f, U) = H[U]
  <2> DEFINE C == CHOOSE h : Adds(h, f, U)
  <2>1. \E h : Adds(h, f, U)
    <3> HIDE DEF P
    <3> QED
      BY <1>6, <1>8
  <2>2. Adds(C, f, U)
    BY <2>1
  <2>3. C[U] = H[U]
    <3> HIDE DEF C
    <3> QED
      BY <1>9, <2>2, OneSum
  <2> QED
    BY <2>3 DEF IntSum
<1> HIDE DEF P
<1>11. P(CHOOSE h : P(h))
  BY <1>8
<1>12. (CHOOSE h : P(h))[U] = H[U]
  BY <1>6, <1>9, <1>11, OneSum
<1> QED
  BY <1>7, <1>10, <1>12 DEF f
-----------------------------------------------------------------------------
(* The order of fractions, and what the formula returns.                   *)

\* A positive factor does not matter to an order.
LEMMA Cancel ==
  ASSUME NEW k \in Int, k > 0, NEW x \in Int, NEW y \in Int
  PROVE  (k * x <= k * y <=> x <= y) /\ (k * x = k * y <=> x = y)
<1>1. k * (y - x) = k * y - k * x
  OBVIOUS
<1>2. y - x >= 0 => k * (y - x) >= 0
  OBVIOUS
<1>3. y - x < 0 => k * (y - x) < 0
  OBVIOUS
<1>4. k * x \in Int /\ k * y \in Int
  OBVIOUS
<1>5. k * x = k * y => x = y
  <2>1. y - x > 0 => k * (y - x) > 0
    OBVIOUS
  <2> QED
    BY <1>1, <1>3, <1>4, <2>1
<1> QED
  BY <1>1, <1>2, <1>3, <1>4, <1>5

\* The order of fractions is transitive.
LEMMA AtMostTransitive ==
  ASSUME NEW a \in Fractions, NEW b \in Fractions, NEW c \in Fractions,
         AtMost(a, b), AtMost(b, c)
  PROVE  AtMost(a, c) /\ (Below(a, b) \/ Below(b, c) => Below(a, c))
<1> DEFINE x == a.n * c.d
           y == c.n * a.d
<1>1. /\ a.n \in Int /\ b.n \in Int /\ c.n \in Int
      /\ a.d \in Int /\ b.d \in Int /\ c.d \in Int
      /\ a.d > 0 /\ b.d > 0 /\ c.d > 0
  BY DEF Fractions
<1>2. x \in Int /\ y \in Int
  BY <1>1
<1>3. b.d * x = c.d * (a.n * b.d) /\ b.d * y = a.d * (c.n * b.d)
      /\ c.d * (b.n * a.d) = a.d * (b.n * c.d)
  BY <1>1
<1> DEFINE p == a.n * b.d
           q == b.n * a.d
           s == b.n * c.d
           t == c.n * b.d
<1>4. p \in Int /\ q \in Int /\ s \in Int /\ t \in Int /\ p <= q /\ s <= t
  BY <1>1 DEF AtMost
<1>5. /\ Below(a, b) <=> p < q
      /\ Below(b, c) <=> s < t
      /\ Below(a, c) <=> x < y
      /\ AtMost(a, c) <=> x <= y
  BY DEF Below, AtMost
<1> HIDE DEF x, y, p, q, s, t
<1>6. b.d * x = c.d * p /\ b.d * y = a.d * t /\ c.d * q = a.d * s
  BY <1>3 DEF x, y, p, q, s, t
<1>7. c.d * p <= c.d * q /\ a.d * s <= a.d * t
  BY <1>1, <1>4, Cancel
<1>8. b.d * x <= b.d * y
  <2>1. c.d * p \in Int /\ c.d * q \in Int /\ a.d * t \in Int
    BY <1>1, <1>4
  <2> QED
    BY <1>6, <1>7, <2>1
<1>9. x <= y
  BY <1>1, <1>2, <1>8, Cancel
<1>10. ASSUME x = y PROVE p = q /\ s = t
  <2>1. c.d * p = a.d * t
    BY <1>6, <1>10
  <2>2. c.d * p = c.d * q /\ a.d * s = a.d * t
    <3>1. c.d * p \in Int /\ c.d * q \in Int /\ a.d * t \in Int
      BY <1>1, <1>4
    <3> QED
      BY <1>6, <1>7, <2>1, <3>1
  <2> QED
    BY <1>1, <1>4, <2>2, Cancel
<1> QED
  BY <1>2, <1>4, <1>5, <1>9, <1>10

\* Of two fractions one is at most the other.
LEMMA NotBelow ==
  ASSUME NEW a \in Fractions, NEW b \in Fractions
  PROVE  (~Below(a, b) <=> AtMost(b, a)) /\ (Below(a, b) => AtMost(a, b))
BY DEF Fractions, Below, AtMost

\* Zero and one, and what they bound.
LEMMA ZeroOne == Zero \in Fractions /\ One \in Fractions /\ One.n = One.d
<1>1. One \in Fractions /\ One.n * 1 = 1 * One.d
  BY RatioIs DEF One
<1> QED
  BY <1>1 DEF Fractions, Zero

\* A part divided by its whole is at most one.
LEMMA AtMostOne ==
  ASSUME NEW n \in Nat, NEW d \in Nat \ {0}, n <= d
  PROVE  AtMost(Ratio(n, d), One)
<1> DEFINE r == Ratio(n, d)
<1>1. r \in Fractions /\ r.n * d = n * r.d
  BY RatioIs
<1> HIDE DEF r
<1>2. r.n \in Int /\ r.d \in Int /\ r.d > 0 /\ One.d \in Int /\ One.d > 0 /\ One.n = One.d
  BY <1>1, ZeroOne DEF Fractions
<1>3. r.d * n <= r.d * d
  BY <1>2, Cancel
<1>4. d * r.n <= d * r.d
  <2>1. d * r.n = r.d * n /\ d * r.d = r.d * d
    BY <1>1, <1>2
  <2> QED
    BY <1>3, <2>1
<1>5. r.n <= r.d
  BY <1>2, <1>4, Cancel
<1>6. One.d * r.n <= One.d * r.d
  BY <1>2, <1>5, Cancel
<1> QED
  <2>1. One.d * r.n = r.n * One.d /\ One.d * r.d = One.n * r.d
    BY <1>2
  <2> QED
    BY <1>6, <2>1 DEF AtMost, r
-----------------------------------------------------------------------------
(* What the operators of BucketEvidence return.                            *)

\* A row of counts, and overall counts that can be divided by.
RowSound(r) == \A field \in CountFields : r[field] \in Nat
OverallSound(o) == o.cn \in Int /\ o.bn \in Int /\ o.cd \in Nat \ {0} /\ o.bd \in Nat \ {0}

\* The fields of a row by their names.
LEMMA RowCounts ==
  ASSUME NEW r, RowSound(r)
  PROVE  r.cn \in Nat /\ r.cd \in Nat /\ r.bn \in Nat /\ r.bd \in Nat
<1>1. r["cn"] \in Nat /\ r["cd"] \in Nat /\ r["bn"] \in Nat /\ r["bd"] \in Nat
  BY DEF RowSound, CountFields
<1> QED
  BY <1>1

\* A pair of fractions, one for each day.
Pairs == [current : Fractions, baseline : Fractions]

\* The overall rates are fractions.
LEMMA RootTyped ==
  ASSUME NEW o, OverallSound(o)
  PROVE  RootRates(o) \in Pairs
<1>1. Ratio(o.cn, o.cd) \in Fractions /\ Ratio(o.bn, o.bd) \in Fractions
  BY RatioIs DEF OverallSound
<1> QED
  BY <1>1 DEF RootRates, Pairs

\* So are the midpoint and the difference of two fractions.
LEMMA MiddleTyped ==
  ASSUME NEW p \in Pairs
  PROVE  Half(Plus(p.current, p.baseline)) \in Fractions /\ Delta(p) \in Fractions
<1>1. p.current \in Fractions /\ p.baseline \in Fractions
  BY DEF Pairs
<1>2. Plus(p.current, p.baseline) \in Fractions
  BY <1>1, PlusIs
<1> QED
  BY <1>1, <1>2, HalfIs, MinusIs DEF Delta

\* The rates of a bucket are fractions, whichever of the days it is missing on.
LEMMA RatesTyped ==
  ASSUME NEW r, RowSound(r), NEW o, OverallSound(o)
  PROVE  Rates(r, o) \in Pairs
<1> DEFINE middle == Half(Plus(RootRates(o).current, RootRates(o).baseline))
<1>1. r.cn \in Nat /\ r.cd \in Nat /\ r.bn \in Nat /\ r.bd \in Nat
  BY RowCounts
<1>2. middle \in Fractions
  BY RootTyped, MiddleTyped
<1>3. r.cd > 0 => Ratio(r.cn, r.cd) \in Fractions
  BY <1>1, RatioIs
<1>4. r.bd > 0 => Ratio(r.bn, r.bd) \in Fractions
  BY <1>1, RatioIs
<1> HIDE DEF middle
<1>5. Rates(r, o) = IF r.cd > 0 /\ r.bd > 0
                    THEN [current |-> Ratio(r.cn, r.cd), baseline |-> Ratio(r.bn, r.bd)]
                    ELSE IF r.cd > 0
                    THEN [current |-> Ratio(r.cn, r.cd), baseline |-> Ratio(r.cn, r.cd)]
                    ELSE IF r.bd > 0
                    THEN [current |-> Ratio(r.bn, r.bd), baseline |-> Ratio(r.bn, r.bd)]
                    ELSE [current |-> middle, baseline |-> middle]
  BY Zenon DEF Rates, RootRates, middle
<1> QED
  BY <1>2, <1>3, <1>4, <1>5 DEF Pairs

\* The shares of a bucket in the denominators are fractions.
LEMMA SharesTyped ==
  ASSUME NEW r, RowSound(r), NEW o, OverallSound(o)
  PROVE  Shares(r, o) \in Pairs
<1>1. r.cd \in Int /\ r.bd \in Int
  BY RowCounts
<1>2. Ratio(r.cd, o.cd) \in Fractions /\ Ratio(r.bd, o.bd) \in Fractions
  BY <1>1, RatioIs DEF OverallSound
<1> QED
  BY <1>2 DEF Shares, Pairs

\* The contribution of a bucket is a fraction.
LEMMA TotalTyped ==
  ASSUME NEW r, RowSound(r), NEW o, OverallSound(o)
  PROVE  Total(r, o) \in Fractions
<1> DEFINE root == RootRates(o)
           middle == Half(Plus(root.current, root.baseline))
           rate == Rates(r, o)
           share == Shares(r, o)
<1>1. root \in Pairs /\ rate \in Pairs /\ share \in Pairs
  BY RootTyped, RatesTyped, SharesTyped
<1>2. middle \in Fractions
  BY <1>1, MiddleTyped
<1>3. /\ Delta(share) \in Fractions /\ Half(Plus(share.current, share.baseline)) \in Fractions
      /\ Delta(rate) \in Fractions /\ Half(Plus(rate.current, rate.baseline)) \in Fractions
  BY <1>1, MiddleTyped
<1>4. Minus(Half(Plus(rate.current, rate.baseline)), middle) \in Fractions
  BY <1>2, <1>3, MinusIs
<1> DEFINE composition == Times(Delta(share),
                                Minus(Half(Plus(rate.current, rate.baseline)), middle))
           performance == Times(Delta(rate), Half(Plus(share.current, share.baseline)))
<1>5. composition \in Fractions /\ performance \in Fractions
  BY <1>3, <1>4, TimesIs
<1>6. Total(r, o) = Plus(composition, performance)
  BY Zenon DEF Total
<1> QED
  BY <1>5, <1>6, PlusIs

\* An adverse impact is a fraction and not negative.
LEMMA AdverseTyped ==
  ASSUME NEW direction, NEW change \in Fractions
  PROVE  Adverse(direction, change) \in Fractions /\ Adverse(direction, change).n >= 0
<1>1. Minus(Zero, change) \in Fractions
  BY ZeroOne, MinusIs
<1>2. \A a \in Fractions : NonNegativePart(a) \in Fractions /\ NonNegativePart(a).n >= 0
  BY ZeroOne DEF Fractions, NonNegativePart, Zero
<1> QED
  BY <1>1, <1>2 DEF Adverse
-----------------------------------------------------------------------------
(* The ranking of the candidates.                                          *)

\* The order in which candidates are ranked is strict and total on S.
RankedSound(S) ==
  \A c, d, e \in S : /\ ~Ranked(c, c)
                     /\ c = d \/ Ranked(c, d) \/ Ranked(d, c)
                     /\ Ranked(c, d) /\ Ranked(d, e) => Ranked(c, e)

\* Sorted enumerates a finite set.
LEMMA SortedIn ==
  ASSUME NEW S, IsFiniteSet(S), RankedSound(S)
  PROVE  /\ Cardinality(S) \in Nat
         /\ DOMAIN Sorted(S, Ranked) = 1..Cardinality(S)
         /\ Len(Sorted(S, Ranked)) = Cardinality(S)
         /\ \A i \in 1..Cardinality(S) : Sorted(S, Ranked)[i] \in S
<1> DEFINE n == Cardinality(S)
           Earlier(x) == {y \in S : Ranked(y, x)}
           rank == [x \in S |-> Cardinality(Earlier(x)) + 1]
<1>1. n \in Nat
  BY FS_CardinalityType
<1>2. \A x \in S : /\ Earlier(x) \in SUBSET S /\ IsFiniteSet(Earlier(x))
                   /\ Cardinality(Earlier(x)) \in Nat
  BY FS_Subset, FS_CardinalityType
<1>3. ASSUME NEW x \in S PROVE rank[x] \in 1..n
  <2>1. x \notin Earlier(x)
    BY DEF RankedSound
  <2>2. Earlier(x) # S
    BY <2>1
  <2>3. Cardinality(Earlier(x)) <= n /\ Cardinality(Earlier(x)) # n
    BY <1>2, <2>2, FS_Subset
  <2> QED
    BY <1>1, <1>2, <2>3
<1>4. ASSUME NEW x \in S, NEW y \in S, Ranked(x, y) PROVE rank[x] # rank[y]
  <2>1. Earlier(x) \in SUBSET Earlier(y)
    BY <1>4 DEF RankedSound
  <2>2. x \in Earlier(y) /\ x \notin Earlier(x)
    BY <1>4 DEF RankedSound
  <2>3. Cardinality(Earlier(y)) # Cardinality(Earlier(x))
    <3>1. IsFiniteSet(Earlier(y)) /\ Earlier(x) # Earlier(y)
      BY <1>2, <2>2
    <3> HIDE DEF Earlier
    <3> QED
      BY <2>1, <3>1, FS_Subset
  <2>4. Cardinality(Earlier(x)) \in Nat /\ Cardinality(Earlier(y)) \in Nat
    BY <1>2
  <2>5. rank[x] = Cardinality(Earlier(x)) + 1 /\ rank[y] = Cardinality(Earlier(y)) + 1
    OBVIOUS
  <2> HIDE DEF rank, Earlier
  <2> QED
    BY <2>3, <2>4, <2>5
<1>5. \A x, y \in S : rank[x] = rank[y] => x = y
  <2> SUFFICES ASSUME NEW x \in S, NEW y \in S, x # y PROVE rank[x] # rank[y]
    OBVIOUS
  <2>1. Ranked(x, y) \/ Ranked(y, x)
    BY DEF RankedSound
  <2> QED
    BY <1>4, <2>1
<1>6. rank \in [S -> 1..n]
  BY <1>3
<1>7. \A x \in S : rank[x] - 1 = Cardinality(Earlier(x))
  BY <1>2
<1>8. Sorted(S, Ranked) = [i \in 1..n |-> CHOOSE x \in S : Cardinality(Earlier(x)) = i - 1]
  BY DEF Sorted
<1> HIDE DEF rank
<1>9. rank \in Injection(S, 1..n)
  BY <1>5, <1>6 DEF Injection, IsInjective
<1>10. IsFiniteSet(1..n) /\ Cardinality(1..n) = n
  <2>1. Cardinality(1..n) = IF 1 > n THEN 0 ELSE n - 1 + 1
    BY <1>1, FS_Interval
  <2> QED
    BY <1>1, <2>1, FS_Interval
<1>11. rank \in Surjection(S, 1..n)
  BY <1>9, <1>10, FS_Injection
<1>12. \A i \in 1..n : \E x \in S : rank[x] = i
  BY <1>11 DEF Surjection
<1> HIDE DEF n, Earlier
<1>13. \A i \in 1..n : \E x \in S : Cardinality(Earlier(x)) = i - 1
  BY <1>7, <1>12
<1>14. \A i \in 1..n : Sorted(S, Ranked)[i] \in S
  BY <1>8, <1>13
<1>15. DOMAIN Sorted(S, Ranked) = 1..n
  BY <1>8
<1>16. Len(Sorted(S, Ranked)) = n
  BY <1>1, <1>15
<1> QED
  BY <1>1, <1>14, <1>15, <1>16 DEF n

\* The rows of a table are finitely many, and sound.
LEMMA TableSound ==
  ASSUME NEW T \in Tables
  PROVE  IsFiniteSet(T) /\ \A r \in T : RowSound(r) /\ r.kind \in Kinds
BY TablesAssumption DEF RowSound

\* The candidates of a table before they are ranked.
CandidatesOf(T, o, direction) ==
  LET all == {Candidate(r, o, direction) : r \in {q \in T : Eligible(q, o)}}
  IN {c \in all : AtMost(MinAdverse, c.impact)}

\* They are finitely many, ranked by impact and text.
LEMMA CandidatesRanked ==
  ASSUME NEW T \in Tables, NEW o, OverallSound(o), NEW direction
  PROVE  /\ IsFiniteSet(CandidatesOf(T, o, direction))
         /\ RankedSound(CandidatesOf(T, o, direction))
<1> DEFINE E == {q \in T : Eligible(q, o)}
           all == {Candidate(r, o, direction) : r \in E}
           S == CandidatesOf(T, o, direction)
<1>1. IsFiniteSet(E)
  BY TableSound, FS_Subset
<1>2. IsFiniteSet(all)
  <2> DEFINE f == [r \in E |-> Candidate(r, o, direction)]
  <2>1. f \in Surjection(E, all)
    BY DEF Surjection
  <2> HIDE DEF f, E, all
  <2> QED
    BY <1>1, <2>1, FS_Surjection
<1>3. S \in SUBSET all
  BY DEF CandidatesOf
<1>4. IsFiniteSet(S)
  BY <1>2, <1>3, FS_Subset
<1>5. ASSUME NEW c \in S
      PROVE  \E r \in T : /\ r.kind = "business" /\ c = Candidate(r, o, direction)
                          /\ c.value = r.value /\ c.impact \in Fractions
  <2>1. PICK r \in T : Eligible(r, o) /\ c = Candidate(r, o, direction)
    BY <1>3
  <2>2. Total(r, o) \in Fractions
    BY TableSound, TotalTyped
  <2>3. Adverse(direction, Total(r, o)) \in Fractions
    BY <2>2, AdverseTyped
  <2>4. r.kind = "business"
    BY <2>1 DEF Eligible
  <2> QED
    BY <2>1, <2>3, <2>4 DEF Candidate
<1> HIDE DEF S
<1>6. ASSUME NEW c \in S, NEW d \in S, NEW e \in S
      PROVE  /\ ~Ranked(c, c)
             /\ c = d \/ Ranked(c, d) \/ Ranked(d, c)
             /\ Ranked(c, d) /\ Ranked(d, e) => Ranked(c, e)
  <2>1. PICK p \in T : /\ p.kind = "business" /\ c = Candidate(p, o, direction)
                       /\ c.value = p.value /\ c.impact \in Fractions
    BY <1>5
  <2>2. PICK q \in T : /\ q.kind = "business" /\ d = Candidate(q, o, direction)
                       /\ d.value = q.value /\ d.impact \in Fractions
    BY <1>5
  <2>3. PICK r \in T : /\ r.kind = "business" /\ e = Candidate(r, o, direction)
                       /\ e.value = r.value /\ e.impact \in Fractions
    BY <1>5
  <2>4. p.value = q.value => c = d
    <3>1. p.kind = q.kind /\ p.value = q.value => p = q
      BY TablesAssumption, Zenon
    <3> QED
      BY <2>1, <2>2, <3>1, Zenon
  <2>5. /\ ~TextBefore(c.value, c.value)
        /\ c.value = d.value \/ TextBefore(c.value, d.value) \/ TextBefore(d.value, c.value)
        /\ TextBefore(c.value, d.value) /\ TextBefore(d.value, e.value)
           => TextBefore(c.value, e.value)
    <3>1. /\ ~TextBefore(p.value, p.value)
          /\ p.value = q.value \/ TextBefore(p.value, q.value) \/ TextBefore(q.value, p.value)
          /\ TextBefore(p.value, q.value) /\ TextBefore(q.value, r.value)
             => TextBefore(p.value, r.value)
      BY TextAssumption, Zenon
    <3>2. c.value = p.value /\ d.value = q.value /\ e.value = r.value
      BY <2>1, <2>2, <2>3
    <3> QED
      BY <3>1, <3>2, Zenon
  <2>6. ~Ranked(c, c)
    BY <2>1, <2>5, NotBelow DEF Ranked, Below
  <2>7. c = d \/ Ranked(c, d) \/ Ranked(d, c)
    BY <2>1, <2>2, <2>4, <2>5 DEF Ranked
  <2>8. ASSUME Ranked(c, d), Ranked(d, e) PROVE Ranked(c, e)
    <3>1. AtMost(d.impact, c.impact) /\ AtMost(e.impact, d.impact)
      BY <2>1, <2>2, <2>3, <2>8, NotBelow DEF Ranked
    <3>2. /\ AtMost(e.impact, c.impact)
          /\ Below(e.impact, d.impact) \/ Below(d.impact, c.impact) => Below(e.impact, c.impact)
      BY <2>1, <2>2, <2>3, <3>1, AtMostTransitive
    <3>3. ~Below(c.impact, e.impact)
      BY <2>1, <2>3, <3>2, NotBelow
    <3> QED
      BY <2>5, <2>8, <3>2, <3>3 DEF Ranked
  <2> QED
    BY <2>6, <2>7, <2>8
<1>7. RankedSound(S)
  BY <1>6, Zenon DEF RankedSound
<1> QED
  BY <1>4, <1>7 DEF S
-----------------------------------------------------------------------------
(* What record accepts can be loaded.                                      *)

\* The overall counts that come with an answer.
OverallTyped(o) == o \in [cn : Int, cd : Nat, bn : Nat, bd : Nat]

\* The sums of the fields of a table.
LEMMA FieldTyped ==
  ASSUME NEW T \in Tables, NEW field \in CountFields
  PROVE  /\ Column(field, T) \in [T -> Int]
         /\ FieldSum(field, T) = IntSum(Column(field, T), T)
         /\ FieldSum(field, T) \in Nat
         /\ \A r \in T : r[field] \in Nat /\ r[field] <= FieldSum(field, T)
<1> DEFINE f == Column(field, T)
<1>1. IsFiniteSet(T) /\ \A r \in T : r[field] \in Nat
  BY TableSound DEF RowSound
<1>2. f \in [T -> Int] /\ \A r \in T : f[r] = r[field]
  BY <1>1 DEF Column
<1>3. FieldSum(field, T) = IntSum(f, T)
  BY <1>1, FieldSumIs
<1> HIDE DEF f
<1>4. \A r \in T : f[r] >= 0
  BY <1>1, <1>2
<1>5. IntSum(f, T) \in Nat /\ \A r \in T : f[r] <= IntSum(f, T)
  BY <1>1, <1>2, <1>4, NatSum
<1> QED
  BY <1>1, <1>2, <1>3, <1>5 DEF f

\* What record proves of a table.
Recorded(T, o) == Family(T, o, Direction, subset, Broad)

\* A family is refused, or holds what Succeeded says.
LEMMA FamilyIs ==
  ASSUME NEW T, NEW o
  PROVE  \/ Recorded(T, o) = Failed
         \/ /\ Recorded(T, o) = Succeeded(T, o, Direction, Broad)
            /\ o.cd > 0 /\ o.bd > 0 /\ Countable(T, subset) /\ Rehooks(T, o)
BY Zenon DEF Recorded, Family

\* The candidates of a family are candidates of its rows.
LEMMA CandidatesFrom ==
  ASSUME NEW T \in Tables, NEW o, OverallSound(o)
  PROVE  LET cands == Candidates(T, o, Direction)
         IN /\ Len(cands) \in Nat /\ DOMAIN cands = 1..Len(cands)
            /\ \A k \in 1..Len(cands) : \E r \in T :
                 /\ Eligible(r, o) /\ cands[k] = Candidate(r, o, Direction)
                 /\ AtMost(MinAdverse, cands[k].impact)
<1> DEFINE S == CandidatesOf(T, o, Direction)
           cands == Candidates(T, o, Direction)
<1>1. IsFiniteSet(S) /\ RankedSound(S)
  BY CandidatesRanked
<1>2. cands = Sorted(S, Ranked)
  BY DEF Candidates, CandidatesOf
<1> HIDE DEF S, cands
<1>3. /\ Cardinality(S) \in Nat /\ DOMAIN cands = 1..Cardinality(S) /\ Len(cands) = Cardinality(S)
      /\ \A k \in 1..Cardinality(S) : cands[k] \in S
  BY <1>1, <1>2, SortedIn
<1>4. \A c \in S : \E r \in T : /\ Eligible(r, o) /\ c = Candidate(r, o, Direction)
                                /\ AtMost(MinAdverse, c.impact)
  BY DEF S, CandidatesOf
<1> QED
  BY <1>3, <1>4 DEF cands

\* An eligible bucket whose numerators are subsets has rates of at most one.
LEMMA RatesBounded ==
  ASSUME NEW r, RowSound(r), NEW o, Eligible(r, o), r.cn <= r.cd, r.bn <= r.bd
  PROVE  AtMost(Rates(r, o).current, One) /\ AtMost(Rates(r, o).baseline, One)
<1>1. r.cn \in Nat /\ r.cd \in Nat /\ r.bn \in Nat /\ r.bd \in Nat
  BY RowCounts
<1>2. r.cd > 0 \/ r.bd > 0
  <2>1. MinSample * BaselineDays > 0
    BY CountAssumption
  <2> QED
    BY <1>1, <2>1, CountAssumption DEF Eligible
<1>3. r.cd > 0 => AtMost(Ratio(r.cn, r.cd), One)
  BY <1>1, AtMostOne
<1>4. r.bd > 0 => AtMost(Ratio(r.bn, r.bd), One)
  BY <1>1, AtMostOne
<1>5. CASE r.cd > 0 /\ r.bd > 0
  <2>1. Rates(r, o) = [current |-> Ratio(r.cn, r.cd), baseline |-> Ratio(r.bn, r.bd)]
    BY <1>5, Zenon DEF Rates, RootRates
  <2> QED
    BY <1>3, <1>4, <1>5, <2>1
<1>6. CASE r.cd > 0 /\ ~(r.bd > 0)
  <2>1. Rates(r, o) = [current |-> Ratio(r.cn, r.cd), baseline |-> Ratio(r.cn, r.cd)]
    BY <1>6, Zenon DEF Rates
  <2> QED
    BY <1>3, <1>6, <2>1
<1>7. CASE ~(r.cd > 0) /\ r.bd > 0
  <2>1. Rates(r, o) = [current |-> Ratio(r.bn, r.bd), baseline |-> Ratio(r.bn, r.bd)]
    BY <1>7, Zenon DEF Rates
  <2> QED
    BY <1>4, <1>7, <2>1
<1> QED
  BY <1>2, <1>5, <1>6, <1>7

\* A family whose numerators are subsets can be loaded.
LEMMA SubsetsLoad ==
  ASSUME NEW T \in Tables, NEW o, OverallTyped(o), subset
  PROVE  FamilyLoads(Recorded(T, o), Broad)
<1>1. CASE Recorded(T, o) = Failed
  BY <1>1 DEF FamilyLoads, Failed, NoFamily
<1>2. CASE Recorded(T, o) # Failed
  <2> DEFINE f == Succeeded(T, o, Direction, Broad)
             E == {q \in T : Eligible(q, o)}
  <2>1. Recorded(T, o) = f /\ o.cd > 0 /\ o.bd > 0 /\ Countable(T, subset)
    BY <1>2, FamilyIs
  <2>2. OverallSound(o)
    BY <2>1 DEF OverallTyped, OverallSound
  <2>3. /\ f.cands = Candidates(T, o, Direction) /\ f.counts.cd = o.cd /\ f.counts.bd = o.bd
        /\ f.buckets = IF Broad THEN {Bucket(r, o) : r \in E} ELSE {}
    BY DEF Succeeded, Counts
  <2> HIDE DEF f
  <2>4. PrivateCountsLoad(f)
    BY <2>1, <2>3 DEF PrivateCountsLoad
  <2>5. ASSUME Broad PROVE BreadthBucketsLoad(f, Broad)
    <3>1. \A r \in E : r \in T /\ Eligible(r, o) /\ r.kind = "business" /\ RowSound(r)
                       /\ r.cn <= r.cd /\ r.bn <= r.bd
      BY <2>1, TableSound DEF Eligible, Countable
    <3>2. \A r \in E : /\ Bucket(r, o).value = r.value
                       /\ Bucket(r, o).current = Rates(r, o).current
                       /\ Bucket(r, o).baseline = Rates(r, o).baseline
      BY DEF Bucket, Measured
    <3> HIDE DEF E
    <3>3. ASSUME NEW b \in f.buckets, NEW c \in f.buckets, b.value = c.value PROVE b = c
      <4>1. PICK q \in E : b = Bucket(q, o)
        BY <2>3, <2>5
      <4>2. PICK r \in E : c = Bucket(r, o)
        BY <2>3, <2>5
      <4>3. q \in T /\ r \in T /\ q.kind = r.kind /\ q.value = r.value
        BY <3>1, <3>2, <3>3, <4>1, <4>2
      <4>4. q = r
        BY <4>3, TablesAssumption
      <4> QED
        BY <4>1, <4>2, <4>4
    <3>4. ASSUME NEW b \in f.buckets PROVE AtMost(b.current, One) /\ AtMost(b.baseline, One)
      <4>1. PICK r \in E : b = Bucket(r, o)
        BY <2>3, <2>5
      <4>2. AtMost(Rates(r, o).current, One) /\ AtMost(Rates(r, o).baseline, One)
        BY <3>1, RatesBounded
      <4> QED
        BY <3>2, <4>1, <4>2
    <3>5. ASSUME NEW k \in 1..Len(f.cands)
          PROVE  Measured(f.cands[k].value, f.cands[k].rates) \in f.buckets
      <4>1. PICK r \in T : Eligible(r, o) /\ f.cands[k] = Candidate(r, o, Direction)
        BY <2>2, <2>3, CandidatesFrom
      <4>2. f.cands[k].value = r.value /\ f.cands[k].rates = Rates(r, o)
        BY <4>1 DEF Candidate
      <4>3. Measured(f.cands[k].value, f.cands[k].rates) = Bucket(r, o) /\ r \in E
        BY <4>1, <4>2 DEF Bucket, E
      <4> QED
        BY <2>3, <2>5, <4>3
    <3> QED
      BY <2>5, <3>3, <3>4, <3>5 DEF BreadthBucketsLoad
  <2>6. BreadthBucketsLoad(f, Broad)
    <3>1. ASSUME ~Broad PROVE BreadthBucketsLoad(f, Broad)
      BY <2>3, <3>1 DEF BreadthBucketsLoad
    <3> QED
      BY <2>5, <3>1
  <2> QED
    BY <2>1, <2>4, <2>6 DEF FamilyLoads
<1> QED
  BY <1>1, <1>2
-----------------------------------------------------------------------------
(* The invariant of the specification.                                     *)

\* The rows are those of a table, the family is what record made of them, and where the
\* numerators are subsets no load has been refused.
Inv ==
  /\ phase \in {"answered", "recorded"} => rows \in Tables /\ OverallTyped(overall)
  /\ phase = "recorded" => family = Recorded(rows, overall)
  /\ subset => phase # "refused"

\* Every state of a run on which answers, record and load alternate satisfies Inv: what record
\* wrote into the state is what the rows of the answer prove, until a load drops or refuses it.
THEOREM Invariant == Spec => []Inv
<1>1. Init => Inv
  BY DEF Init, Inv
<1>2. Inv /\ [Next]_vars => Inv'
  <2> SUFFICES ASSUME Inv, [Next]_vars PROVE Inv'
    OBVIOUS
  <2>1. ASSUME NEW table \in Tables, NEW off \in Offsets, Answer(table, off) PROVE Inv'
    <3>1. /\ FieldSum("cn", table) \in Nat /\ FieldSum("cd", table) \in Nat
          /\ FieldSum("bn", table) \in Nat /\ FieldSum("bd", table) \in Nat
      BY FieldTyped DEF CountFields
    <3>2. FieldSum("cn", table) + off \in Int
      BY <3>1, OffsetsAssumption
    <3>3. rows' = table /\ overall' = [Sums(table) EXCEPT !.cn = @ + off] /\ phase' = "answered"
      BY <2>1 DEF Answer
    <3>4. overall' = [cn |-> FieldSum("cn", table) + off, cd |-> FieldSum("cd", table),
                      bn |-> FieldSum("bn", table), bd |-> FieldSum("bd", table)]
      BY <3>3 DEF Sums
    <3>5. OverallTyped(overall')
      BY <3>1, <3>2, <3>4 DEF OverallTyped
    <3> QED
      BY <3>3, <3>5 DEF Inv, OverallTyped
  <2>2. ASSUME Record PROVE Inv'
    BY <2>2 DEF Record, Inv, Recorded, OverallTyped
  <2>3. ASSUME Load PROVE Inv'
    <3>1. CASE FamilyLoads(family, Broad)
      BY <2>3, <3>1 DEF Load, Inv
    <3>2. CASE ~FamilyLoads(family, Broad)
      <4>1. ~(subset /\ phase = "recorded")
        BY <3>2, SubsetsLoad DEF Inv
      <4> QED
        BY <2>3, <3>2, <4>1 DEF Load, Inv
    <3> QED
      BY <3>1, <3>2
  <2>4. ASSUME UNCHANGED vars PROVE Inv'
    BY <2>4 DEF vars, Inv, Recorded, OverallTyped
  <2> QED
    BY <2>1, <2>2, <2>3, <2>4 DEF Next
<1> QED
  BY <1>1, <1>2, PTL DEF Spec

\* The loader accepts every family that record wrote, where numerators are subsets of their
\* denominators: rates are at most one, buckets of one value are one bucket, and every
\* candidate is among the buckets.
THEOREM SubsetsAlwaysLoad == Spec => []SubsetLoads
<1>1. Inv => SubsetLoads
  BY DEF Inv, SubsetLoads, AcceptedLoads
<1> QED
  BY <1>1, Invariant, PTL
-----------------------------------------------------------------------------
(* The share of a candidate.                                               *)

\* h adds up the fractions of f over the subsets of T.
FracAdds(h, f, T) ==
  h = [s \in SUBSET T |-> IF s = {} THEN Zero ELSE Plus(f[Pick(s)], h[s \ {Pick(s)}])]

\* Fractions can be added up, and what adds them is typed.
LEMMA FracSumIs ==
  ASSUME NEW T, IsFiniteSet(T), NEW f \in [T -> Fractions]
  PROVE  /\ \E h : FracAdds(h, f, T)
         /\ \A h : FracAdds(h, f, T) => h \in [SUBSET T -> Fractions]
<1> DEFINE step == [p \in T \X Fractions |-> Plus(f[p[1]], p[2])]
<1>1. step \in [T \X Fractions -> Fractions]
  BY PlusIs
<1>2. PICK h \in [SUBSET T -> Fractions] : FoldsAs(h, T, Zero, step)
  <2> HIDE DEF step
  <2> QED
    BY <1>1, ZeroOne, FoldExists, Zenon
<1>3. \A s \in SUBSET T : s # {} => Pick(s) \in T /\ s \ {Pick(s)} \in SUBSET T
  BY DEF Pick
<1>4. \A s \in SUBSET T : h[s] = IF s = {} THEN Zero ELSE Plus(f[Pick(s)], h[s \ {Pick(s)}])
  BY <1>2, <1>3 DEF FoldsAs
<1>5. FracAdds(h, f, T)
  <2>1. h = [s \in SUBSET T |-> h[s]]
    BY <1>2
  <2> QED
    BY <1>4, <2>1, Zenon DEF FracAdds
<1>6. ASSUME NEW g, FracAdds(g, f, T) PROVE g \in [SUBSET T -> Fractions]
  <2>1. \A s \in SUBSET T : g[s] = IF s = {} THEN Zero ELSE Plus(f[Pick(s)], g[s \ {Pick(s)}])
    BY <1>6, Zenon DEF FracAdds
  <2>2. \A s \in SUBSET T : SameStep(g, h, s)
    BY <1>4, <2>1 DEF SameStep
  <2>3. \A s \in SUBSET T : g[s] = h[s]
    BY <2>2, FoldUnique
  <2>4. g = [s \in SUBSET T |-> g[s]]
    BY <1>6 DEF FracAdds
  <2> QED
    BY <1>2, <2>3, <2>4
<1> QED
  BY <1>5, <1>6

\* A sum of two fractions that are not negative.
LEMMA PlusGrows ==
  ASSUME NEW a \in Fractions, NEW b \in Fractions, a.n >= 0, b.n >= 0
  PROVE  Plus(a, b).n >= 0 /\ AtMost(a, Plus(a, b)) /\ AtMost(b, Plus(a, b))
<1> DEFINE p == Plus(a, b)
<1>1. p \in Fractions /\ p.n * (a.d * b.d) = (a.n * b.d + b.n * a.d) * p.d
  BY PlusIs
<1> HIDE DEF p
<1>2. /\ a.n \in Int /\ b.n \in Int /\ p.n \in Int
      /\ a.d \in Int /\ b.d \in Int /\ p.d \in Int
      /\ a.d > 0 /\ b.d > 0 /\ p.d > 0
  BY <1>1 DEF Fractions
<1> DEFINE x == a.n * p.d
           y == b.n * p.d
           u == p.n * a.d
           v == p.n * b.d
<1>3. x \in Int /\ y \in Int /\ u \in Int /\ v \in Int /\ x >= 0 /\ y >= 0
  BY <1>2
<1>4. b.d * u = b.d * x + a.d * y /\ a.d * v = b.d * x + a.d * y
  <2>1. (a.n * b.d + b.n * a.d) * p.d = b.d * x + a.d * y
    BY <1>2
  <2>2. b.d * u = p.n * (a.d * b.d) /\ a.d * v = p.n * (a.d * b.d)
    BY <1>2
  <2> QED
    BY <1>1, <2>1, <2>2
<1>5. p.n >= 0 <=> u >= 0
  <2>1. p.n < 0 => p.n * a.d < 0
    BY <1>2
  <2>2. p.n >= 0 => p.n * a.d >= 0
    BY <1>2
  <2> QED
    BY <1>2, <2>1, <2>2
<1>6. AtMost(a, p) <=> x <= u
  BY DEF AtMost
<1>7. AtMost(b, p) <=> y <= v
  BY DEF AtMost
<1> HIDE DEF x, y, u, v
<1>8. b.d * x >= 0 /\ a.d * y >= 0 /\ b.d * x \in Int /\ a.d * y \in Int
  BY <1>2, <1>3
<1>9. b.d * x <= b.d * u /\ a.d * y <= a.d * v
  BY <1>4, <1>8
<1>10. x <= u /\ y <= v
  BY <1>2, <1>3, <1>9, Cancel
<1>11. u >= 0
  BY <1>3, <1>10
<1> QED
  BY <1>5, <1>6, <1>7, <1>10, <1>11 DEF p

\* No term of a sum of fractions that are not negative is larger than the sum.
LEMMA TermAtMostSum ==
  ASSUME NEW T, IsFiniteSet(T), NEW f \in [T -> Fractions], \A x \in T : f[x].n >= 0,
         NEW h, FracAdds(h, f, T)
  PROVE  h[T] \in Fractions /\ \A x \in T : AtMost(f[x], h[T])
<1>1. h \in [SUBSET T -> Fractions]
  BY FracSumIs
<1> DEFINE Good(s) == h[s].n >= 0 /\ \A x \in s : AtMost(f[x], h[s])
           G == {s \in SUBSET T : Good(s)}
<1>2. {} \in G
  <2>1. h[{}] = Zero
    BY Zenon DEF FracAdds
  <2> QED
    BY <2>1 DEF Zero
<1>3. ASSUME NEW s \in SUBSET T, s # {}, s \ {Pick(s)} \in G PROVE Good(s)
  <2> DEFINE p == Pick(s)
             a == s \ {p}
  <2>1. h[s] = Plus(f[p], h[a])
    BY <1>3, Zenon DEF FracAdds
  <2>2. p \in s /\ a \in SUBSET T
    BY <1>3 DEF Pick
  <2>3. Good(a)
    BY <1>3
  <2> HIDE DEF p
  <2>4. h[a] \in Fractions /\ f[p] \in Fractions /\ f[p].n >= 0
    BY <1>1, <2>2
  <2>5. h[s].n >= 0 /\ AtMost(f[p], h[s]) /\ AtMost(h[a], h[s]) /\ h[s] \in Fractions
    BY <2>1, <2>3, <2>4, PlusGrows, PlusIs
  <2>6. ASSUME NEW x \in s PROVE AtMost(f[x], h[s])
    <3>1. CASE x = p
      BY <2>5, <3>1
    <3>2. CASE x # p
      <4>1. x \in a /\ x \in T
        BY <3>2
      <4>2. AtMost(f[x], h[a]) /\ f[x] \in Fractions
        BY <2>3, <4>1
      <4> HIDE DEF a
      <4> QED
        BY <2>4, <2>5, <4>2, AtMostTransitive
    <3> QED
      BY <3>1, <3>2
  <2> QED
    BY <2>5, <2>6
<1>4. Inherits(G, T)
  <2> HIDE DEF Good
  <2> QED
    BY <1>3 DEF Inherits
<1>5. T \in SUBSET T
  OBVIOUS
<1>6. Good(T)
  <2> HIDE DEF Good
  <2>1. SUBSET T \subseteq G
    <3> HIDE DEF G
    <3> QED
      BY <1>2, <1>4, FoldInduction
  <2> QED
    BY <1>5, <2>1
<1> QED
  BY <1>1, <1>5, <1>6
-----------------------------------------------------------------------------
(* A candidate and its family.                                             *)

\* The adverse impact of a family, as a sum.
LEMMA AdverseSum ==
  ASSUME NEW T \in Tables, NEW o, OverallSound(o), NEW direction
  PROVE  /\ FamilyAdverse(T, o, direction) \in Fractions
         /\ \A r \in T : r.kind # "quality" =>
              AtMost(Adverse(direction, Total(r, o)), FamilyAdverse(T, o, direction))
<1> DEFINE U == {q \in T : q.kind # "quality"}
           f == [r \in U |-> Adverse(direction, Total(r, o))]
           P(h) == h = [s \in SUBSET U |->
                          IF s = {} THEN Zero
                          ELSE Plus(Adverse(direction, Total(Pick(s), o)), h[s \ {Pick(s)}])]
           sum == FamilyAdverse(T, o, direction)
<1>1. IsFiniteSet(U) /\ \A r \in U : RowSound(r)
  BY TableSound, FS_Subset
<1>2. \A r \in U : Adverse(direction, Total(r, o)) \in Fractions
                   /\ Adverse(direction, Total(r, o)).n >= 0
  BY <1>1, TotalTyped, AdverseTyped
<1>3. /\ f \in [U -> Fractions]
      /\ \A r \in U : f[r] = Adverse(direction, Total(r, o)) /\ f[r].n >= 0
  BY <1>2
<1>4. sum = (CHOOSE h : P(h))[U]
  BY Zenon DEF FamilyAdverse, SumOf, FoldSet, MapThenFoldSet, Pick
<1>5. \A s \in SUBSET U : s # {} => Pick(s) \in U
  BY DEF Pick
<1> HIDE DEF f, sum, U
<1>6. \A h : P(h) => FracAdds(h, f, U)
  BY <1>3, <1>5 DEF FracAdds
<1>7. \A h : FracAdds(h, f, U) => P(h)
  BY <1>3, <1>5 DEF FracAdds
<1>8. \E h : FracAdds(h, f, U)
  BY <1>1, <1>3, FracSumIs
<1> HIDE DEF P
<1>9. P(CHOOSE h : P(h))
  BY <1>7, <1>8
<1>20. sum \in Fractions /\ \A r \in U : AtMost(f[r], sum)
  BY <1>1, <1>3, <1>4, <1>6, <1>9, TermAtMostSum
<1> QED
  BY <1>3, <1>20 DEF sum, U

\* The candidates of an accepted family are parts of it.
LEMMA CandidateParts ==
  ASSUME NEW T \in Tables, NEW o, OverallTyped(o), Recorded(T, o) # Failed,
         NEW k \in 1..Len(Recorded(T, o).cands)
  PROVE  LET f == Recorded(T, o)
             c == f.cands[k]
         IN /\ f.status = "succeeded" /\ AtMost(c.impact, f.adverse) /\ Below(Zero, f.adverse)
            /\ c.counts.cn <= f.counts.cn /\ c.counts.bn <= f.counts.bn
            /\ c.counts.cn \in Nat /\ c.counts.bn \in Nat
            /\ f.counts.cn \in Nat /\ f.counts.bn \in Nat
<1> DEFINE f == Recorded(T, o)
           c == f.cands[k]
<1>1. f = Succeeded(T, o, Direction, Broad) /\ o.cd > 0 /\ o.bd > 0 /\ Rehooks(T, o)
  BY FamilyIs
<1>2. OverallSound(o)
  BY <1>1 DEF OverallTyped, OverallSound
<1>3. /\ f.status = "succeeded" /\ f.cands = Candidates(T, o, Direction)
      /\ f.adverse = FamilyAdverse(T, o, Direction) /\ f.counts = Counts(o)
  BY <1>1 DEF Succeeded
<1>4. PICK r \in T : /\ Eligible(r, o) /\ c = Candidate(r, o, Direction)
                     /\ AtMost(MinAdverse, c.impact)
  <2>1. k \in 1..Len(f.cands)
    OBVIOUS
  <2> HIDE DEF f
  <2> QED
    BY <1>2, <1>3, <2>1, CandidatesFrom
<1>5. c.impact = Adverse(Direction, Total(r, o)) /\ c.counts = Counts(r)
  BY <1>4 DEF Candidate
<1>6. r.kind # "quality"
  BY <1>4 DEF Eligible
<1>7. f.adverse \in Fractions /\ AtMost(c.impact, f.adverse) /\ c.impact \in Fractions
  <2>1. c.impact \in Fractions
    BY <1>2, <1>5, TableSound, TotalTyped, AdverseTyped
  <2> HIDE DEF f
  <2> QED
    BY <1>2, <1>3, <1>5, <1>6, <2>1, AdverseSum
<1>8. Below(Zero, f.adverse)
  <2>1. MinAdverse \in Fractions /\ Below(Zero, MinAdverse)
    BY ThresholdAssumption DEF Fractions, Below, Zero
  <2>2. AtMost(MinAdverse, f.adverse)
    BY <1>4, <1>7, <2>1, AtMostTransitive
  <2>3. AtMost(Zero, MinAdverse)
    BY <2>1, ZeroOne, NotBelow
  <2> QED
    BY <1>7, <2>1, <2>2, <2>3, ZeroOne, AtMostTransitive
<1>9. /\ r.cn \in Nat /\ r.cn <= o.cn /\ o.cn \in Nat
      /\ r.bn \in Nat /\ r.bn <= o.bn /\ o.bn \in Nat
  <2>1. \A field \in CountFields : r[field] \in Nat /\ r[field] <= o[field] /\ o[field] \in Nat
    BY <1>1, FieldTyped DEF Rehooks
  <2>2. r["cn"] \in Nat /\ r["cn"] <= o["cn"] /\ o["cn"] \in Nat
    BY <2>1 DEF CountFields
  <2>3. r["bn"] \in Nat /\ r["bn"] <= o["bn"] /\ o["bn"] \in Nat
    BY <2>1 DEF CountFields
  <2> QED
    BY <2>2, <2>3
<1> HIDE DEF f
<1> QED
  BY <1>3, <1>5, <1>7, <1>8, <1>9 DEF Counts, f

\* Whatever rows the validator accepted, the counterfactual can be computed of their first
\* candidate: its impact is a term of the adverse impact of the family, which is therefore
\* positive, and its counts are terms of the sums, so that none left is negative.
THEOREM CounterfactualAlwaysComputes == Spec => []CounterfactualComputes
<1>1. ASSUME Inv PROVE CounterfactualComputes
  <2> SUFFICES ASSUME phase = "recorded", family # Failed, family.cands # <<>>
               PROVE  /\ AtMost(family.cands[1].impact, family.adverse)
                      /\ Counterfactual(Evidence) # Failed
    BY DEF CounterfactualComputes
  <2>1. rows \in Tables /\ OverallTyped(overall) /\ family = Recorded(rows, overall)
    BY <1>1 DEF Inv
  <2>2. 1 \in 1..Len(family.cands)
    <3>1. /\ family = Succeeded(rows, overall, Direction, Broad)
          /\ overall.cd > 0 /\ overall.bd > 0
      BY <2>1, FamilyIs
    <3>2. family.cands = Candidates(rows, overall, Direction) /\ OverallSound(overall)
      BY <2>1, <3>1 DEF Succeeded, OverallTyped, OverallSound
    <3>3. Len(family.cands) \in Nat /\ DOMAIN family.cands = 1..Len(family.cands)
      BY <2>1, <3>2, CandidatesFrom
    <3>4. Len(family.cands) # 0
      <4>1. \E F : family.cands = [i \in 1..Len(family.cands) |-> F[i]]
        BY <3>2, <3>3 DEF Candidates, Sorted
      <4> QED
        BY <3>3, <4>1
    <3> QED
      BY <3>3, <3>4
  <2> DEFINE c == family.cands[1]
  <2>3. /\ family.status = "succeeded" /\ AtMost(c.impact, family.adverse)
        /\ Below(Zero, family.adverse)
        /\ c.counts.cn <= family.counts.cn /\ c.counts.bn <= family.counts.bn
        /\ c.counts.cn \in Nat /\ c.counts.bn \in Nat
        /\ family.counts.cn \in Nat /\ family.counts.bn \in Nat
    BY <2>1, <2>2, CandidateParts
  <2>4. Games(Evidence) = family
    BY DEF Games, FamilyOf, Evidence
  <2>5. HasGames(Evidence)
    BY <2>3, <2>4 DEF HasGames, Answered, Games
  <2>6. ~(Without(family.counts, c.counts).cn < 0 \/ Without(family.counts, c.counts).bn < 0)
    BY <2>3 DEF Without
  <2>7. \A reason, game, dominant :
          /\ Skip(reason) # Failed
          /\ [status |-> "succeeded", game |-> game, dominant |-> dominant] # Failed
    BY DEF Skip, Failed, NoFamily
  <2>8. Counterfactual(Evidence) # Failed
    BY <2>3, <2>4, <2>5, <2>6, <2>7 DEF Counterfactual
  <2> QED
    BY <2>3, <2>8
<1> QED
  BY <1>1, Invariant, PTL
-----------------------------------------------------------------------------
(* The values of fractions.                                                *)

\* The fraction a has the value of p divided by q.
Worth(a, p, q) == a \in Fractions /\ a.n * q = p * a.d

\* A value does not depend on a common factor.
LEMMA WorthScale ==
  ASSUME NEW a, NEW p \in Int, NEW q \in Int, NEW k \in Int, k > 0
  PROVE  Worth(a, p, q) <=> Worth(a, k * p, k * q)
<1> SUFFICES ASSUME a \in Fractions
             PROVE  a.n * q = p * a.d <=> a.n * (k * q) = (k * p) * a.d
  BY DEF Worth
<1>1. a.n \in Int /\ a.d \in Int
  BY DEF Fractions
<1>2. a.n * (k * q) = k * (a.n * q) /\ (k * p) * a.d = k * (p * a.d)
  BY <1>1
<1>3. a.n * q \in Int /\ p * a.d \in Int
  BY <1>1
<1> QED
  BY <1>2, <1>3, Cancel

\* The value of Ratio, and then those of sums, differences, products and halves.
LEMMA RatioWorth ==
  ASSUME NEW n \in Int, NEW d \in Nat \ {0}
  PROVE  Worth(Ratio(n, d), n, d)
BY RatioIs DEF Worth

\* The value of a sum and of a difference.
LEMMA WorthPlus ==
  ASSUME NEW a, NEW p \in Int, NEW q \in Int, q > 0, Worth(a, p, q),
         NEW b, NEW u \in Int, Worth(b, u, q)
  PROVE  Worth(Plus(a, b), p + u, q) /\ Worth(Minus(a, b), p - u, q)
<1>1. a \in Fractions /\ b \in Fractions /\ a.n * q = p * a.d /\ b.n * q = u * b.d
  BY DEF Worth
<1>2. a.n \in Int /\ b.n \in Int /\ a.d \in Int /\ b.d \in Int /\ a.d > 0 /\ b.d > 0
  BY <1>1 DEF Fractions
<1> DEFINE m == a.d * b.d
<1>3. m \in Int /\ m > 0
  BY <1>2
<1>4. (a.n * b.d) * q = p * m /\ (b.n * a.d) * q = u * m
  <2>1. (a.n * b.d) * q = (a.n * q) * b.d /\ (b.n * a.d) * q = (b.n * q) * a.d
    BY <1>2
  <2>2. (p * a.d) * b.d = p * m /\ (u * b.d) * a.d = u * m
    BY <1>2
  <2> QED
    BY <1>1, <2>1, <2>2
<1>5. ASSUME NEW c \in Fractions, NEW t \in Int, NEW v \in Int, c.n * m = t * c.d, t * q = v * m
      PROVE  Worth(c, v, q)
  <2>1. c.n \in Int /\ c.d \in Int
    BY DEF Fractions
  <2>2. m * (c.n * q) = m * (v * c.d)
    <3>1. m * (c.n * q) = (c.n * m) * q
      BY <1>3, <2>1
    <3>2. (t * c.d) * q = (t * q) * c.d
      BY <2>1
    <3>3. (v * m) * c.d = m * (v * c.d)
      BY <1>3, <2>1
    <3> QED
      BY <1>5, <3>1, <3>2, <3>3
  <2>3. c.n * q \in Int /\ v * c.d \in Int
    BY <2>1
  <2>4. c.n * q = v * c.d
    <3> DEFINE x == c.n * q
               y == v * c.d
    <3> HIDE DEF m, x, y
    <3>1. x \in Int /\ y \in Int /\ m * x = m * y
      BY <2>2, <2>3 DEF x, y
    <3>2. x = y
      BY <1>3, <3>1, Cancel
    <3> QED
      BY <3>2 DEF x, y
  <2> QED
    BY <2>4 DEF Worth
<1>6. Plus(a, b) \in Fractions /\ Plus(a, b).n * m = (a.n * b.d + b.n * a.d) * Plus(a, b).d
  BY <1>1, PlusIs
<1>7. Minus(a, b) \in Fractions /\ Minus(a, b).n * m = (a.n * b.d - b.n * a.d) * Minus(a, b).d
  BY <1>1, MinusIs
<1> DEFINE x == a.n * b.d
           y == b.n * a.d
<1>8. x \in Int /\ y \in Int /\ x + y \in Int /\ x - y \in Int /\ p + u \in Int /\ p - u \in Int
  BY <1>2
<1>9. (x + y) * q = (p + u) * m /\ (x - y) * q = (p - u) * m
  <2> HIDE DEF x, y, m
  <2>1. x * q = p * m /\ y * q = u * m
    BY <1>4 DEF x, y
  <2>2. (x + y) * q = x * q + y * q /\ (x - y) * q = x * q - y * q
    BY <1>8
  <2>3. (p + u) * m = p * m + u * m /\ (p - u) * m = p * m - u * m
    BY <1>3
  <2> QED
    BY <2>1, <2>2, <2>3
<1> HIDE DEF m, x, y
<1>10. Plus(a, b).n * m = (x + y) * Plus(a, b).d /\ Minus(a, b).n * m = (x - y) * Minus(a, b).d
  BY <1>6, <1>7 DEF x, y
<1> QED
  BY <1>5, <1>6, <1>7, <1>8, <1>9, <1>10

\* The value of a product.
LEMMA WorthTimes ==
  ASSUME NEW a, NEW p \in Int, NEW q \in Int, Worth(a, p, q),
         NEW b, NEW u \in Int, NEW v \in Int, Worth(b, u, v)
  PROVE  Worth(Times(a, b), p * u, q * v)
<1>1. a \in Fractions /\ b \in Fractions /\ a.n * q = p * a.d /\ b.n * v = u * b.d
  BY DEF Worth
<1>2. a.n \in Int /\ b.n \in Int /\ a.d \in Int /\ b.d \in Int /\ a.d > 0 /\ b.d > 0
  BY <1>1 DEF Fractions
<1> DEFINE c == Times(a, b)
           m == a.d * b.d
<1>3. c \in Fractions /\ c.n * m = (a.n * b.n) * c.d
  BY <1>1, TimesIs
<1>4. m \in Int /\ m > 0
  BY <1>2
<1> HIDE DEF c
<1>5. c.n \in Int /\ c.d \in Int
  BY <1>3 DEF Fractions
<1>6. (a.n * b.n) * (q * v) = (p * u) * m
  <2>1. (a.n * b.n) * (q * v) = (a.n * q) * (b.n * v)
    BY <1>2
  <2>2. (p * a.d) * (u * b.d) = (p * u) * m
    BY <1>2
  <2> QED
    BY <1>1, <2>1, <2>2
<1> DEFINE t == a.n * b.n
           w == p * u
           z == q * v
<1>7. t \in Int /\ w \in Int /\ z \in Int
  BY <1>2
<1> HIDE DEF t, w, z, m
<1>8. c.n * m = t * c.d /\ t * z = w * m
  BY <1>3, <1>6 DEF t, w, z
<1>9. m * (c.n * z) = m * (w * c.d)
  <2>1. m * (c.n * z) = (c.n * m) * z /\ (t * c.d) * z = (t * z) * c.d
    BY <1>4, <1>5, <1>7
  <2>2. (w * m) * c.d = m * (w * c.d)
    BY <1>4, <1>5, <1>7
  <2> QED
    BY <1>8, <2>1, <2>2
<1>10. c.n * z = w * c.d
  <2>1. c.n * z \in Int /\ w * c.d \in Int
    BY <1>5, <1>7
  <2> QED
    BY <1>4, <1>9, <2>1, Cancel
<1> QED
  BY <1>3, <1>10 DEF Worth, c, w, z

\* The value of a half.
LEMMA WorthHalf ==
  ASSUME NEW a, NEW p \in Int, NEW q \in Int, Worth(a, p, q)
  PROVE  Worth(Half(a), p, 2 * q)
<1>1. a \in Fractions /\ a.n * q = p * a.d
  BY DEF Worth
<1>2. a.n \in Int /\ a.d \in Int /\ a.d > 0
  BY <1>1 DEF Fractions
<1> DEFINE c == Half(a)
<1>3. c \in Fractions /\ c.n * (2 * a.d) = a.n * c.d
  BY <1>1, HalfIs
<1> HIDE DEF c
<1>4. c.n \in Int /\ c.d \in Int
  BY <1>3 DEF Fractions
<1>5. a.d * (c.n * (2 * q)) = a.d * (p * c.d)
  <2>1. a.d * (c.n * (2 * q)) = (c.n * (2 * a.d)) * q /\ (a.n * c.d) * q = (a.n * q) * c.d
    BY <1>2, <1>4
  <2>2. (p * a.d) * c.d = a.d * (p * c.d)
    BY <1>2, <1>4
  <2> QED
    BY <1>1, <1>3, <2>1, <2>2
<1>6. c.n * (2 * q) = p * c.d
  <2>1. c.n * (2 * q) \in Int /\ p * c.d \in Int
    BY <1>4
  <2> QED
    BY <1>2, <1>5, <2>1, Cancel
<1> QED
  BY <1>3, <1>6 DEF Worth, c
-----------------------------------------------------------------------------
(* Sums of multiples.                                                      *)

\* f is made of multiples of a, b, c and d.
Combines(f, S, i, a, j, b, k, c, l, d) ==
  \A x \in S : f[x] = ((i * a[x] + j * b[x]) + k * c[x]) + l * d[x]

\* A sum of multiples is the multiple of the sums.
LEMMA SumCombines ==
  ASSUME NEW S, IsFiniteSet(S), NEW f \in [S -> Int],
         NEW a \in [S -> Int], NEW b \in [S -> Int], NEW c \in [S -> Int], NEW d \in [S -> Int],
         NEW i \in Int, NEW j \in Int, NEW k \in Int, NEW l \in Int,
         Combines(f, S, i, a, j, b, k, c, l, d)
  PROVE  IntSum(f, S) =
           ((i * IntSum(a, S) + j * IntSum(b, S)) + k * IntSum(c, S)) + l * IntSum(d, S)
<1> DEFINE R(s) == ((i * IntSum(a, s) + j * IntSum(b, s)) + k * IntSum(c, s)) + l * IntSum(d, s)
           Good(s) == IntSum(f, s) = R(s)
           G == {s \in SUBSET S : Good(s)}
<1>1. {} \in G
  <2>1. /\ IntSum(f, {}) = 0 /\ IntSum(a, {}) = 0 /\ IntSum(b, {}) = 0
        /\ IntSum(c, {}) = 0 /\ IntSum(d, {}) = 0
    BY IntSumIs
  <2> QED
    BY <2>1
<1>2. \A m, x, y \in Int : m * (x + y) = m * x + m * y /\ m * x \in Int
  OBVIOUS
<1>3. ASSUME NEW s \in SUBSET S, s # {}, s \ {Pick(s)} \in G PROVE Good(s)
  <2> DEFINE p == Pick(s)
             e == s \ {p}
  <2>1. p \in s /\ e \in SUBSET S
    BY <1>3 DEF Pick
  <2>2. /\ IntSum(f, s) = f[p] + IntSum(f, e)
        /\ IntSum(a, s) = a[p] + IntSum(a, e)
        /\ IntSum(b, s) = b[p] + IntSum(b, e)
        /\ IntSum(c, s) = c[p] + IntSum(c, e)
        /\ IntSum(d, s) = d[p] + IntSum(d, e)
    BY <1>3, IntSumIs
  <2>3. /\ IntSum(f, e) \in Int /\ IntSum(a, e) \in Int /\ IntSum(b, e) \in Int
        /\ IntSum(c, e) \in Int /\ IntSum(d, e) \in Int
    BY <2>1, IntSumIs
  <2>4. Good(e)
    BY <1>3
  <2> HIDE DEF p, e
  <2>5. /\ f[p] \in Int /\ a[p] \in Int /\ b[p] \in Int /\ c[p] \in Int /\ d[p] \in Int
        /\ f[p] = ((i * a[p] + j * b[p]) + k * c[p]) + l * d[p]
    BY <2>1 DEF Combines
  <2>6. /\ i * IntSum(a, s) = i * a[p] + i * IntSum(a, e)
        /\ j * IntSum(b, s) = j * b[p] + j * IntSum(b, e)
        /\ k * IntSum(c, s) = k * c[p] + k * IntSum(c, e)
        /\ l * IntSum(d, s) = l * d[p] + l * IntSum(d, e)
    BY <1>2, <2>2, <2>3, <2>5
  <2>7. /\ i * a[p] \in Int /\ j * b[p] \in Int /\ k * c[p] \in Int /\ l * d[p] \in Int
        /\ i * IntSum(a, e) \in Int /\ j * IntSum(b, e) \in Int
        /\ k * IntSum(c, e) \in Int /\ l * IntSum(d, e) \in Int
    BY <1>2, <2>3, <2>5
  <2> QED
    BY <2>2, <2>4, <2>5, <2>6, <2>7
<1>4. Inherits(G, S)
  <2> HIDE DEF Good
  <2> QED
    BY <1>3 DEF Inherits
<1> HIDE DEF Good
<1>5. SUBSET S \subseteq G
  <2> HIDE DEF G
  <2> QED
    BY <1>1, <1>4, FoldInduction
<1>6. Good(S)
  BY <1>5
<1> QED
  BY <1>6 DEF Good

\* A sum over all elements is one without those of Z and one over Z.
LEMMA SumSplits ==
  ASSUME NEW S, IsFiniteSet(S), NEW f \in [S -> Int], NEW g \in [S -> Int], NEW Z \in SUBSET S,
         \A x \in S : g[x] = IF x \in Z THEN 0 ELSE f[x]
  PROVE  IntSum(f, S) = IntSum(g, S) + IntSum(f, Z)
<1> DEFINE Good(s) == IntSum(f, s) = IntSum(g, s) + IntSum(f, s \cap Z)
           G == {s \in SUBSET S : Good(s)}
<1>1. {} \in G
  <2>1. IntSum(f, {}) = 0 /\ IntSum(g, {}) = 0 /\ {} \cap Z = {}
    BY IntSumIs
  <2> QED
    BY <2>1
<1>2. ASSUME NEW s \in SUBSET S, s # {}, s \ {Pick(s)} \in G PROVE Good(s)
  <2> DEFINE p == Pick(s)
             e == s \ {p}
  <2>1. p \in s /\ e \in SUBSET S
    BY <1>2 DEF Pick
  <2>2. IntSum(f, s) = f[p] + IntSum(f, e) /\ IntSum(g, s) = g[p] + IntSum(g, e)
    BY <1>2, IntSumIs
  <2>3. s \cap Z \in SUBSET S /\ e \cap Z \in SUBSET S
    OBVIOUS
  <2>4. /\ IntSum(f, e) \in Int /\ IntSum(g, e) \in Int
        /\ IntSum(f, s \cap Z) \in Int /\ IntSum(f, e \cap Z) \in Int
    BY <2>1, <2>3, IntSumIs
  <2>5. f[p] \in Int /\ g[p] = IF p \in Z THEN 0 ELSE f[p]
    BY <2>1
  <2>6. Good(e)
    BY <1>2
  <2>7. CASE p \in Z
    <3>1. p \in s \cap Z /\ (s \cap Z) \ {p} = e \cap Z
      BY <2>1, <2>7
    <3>2. IntSum(f, s \cap Z) = f[p] + IntSum(f, (s \cap Z) \ {p})
      BY <2>3, <3>1, IntSumAny
    <3>3. IntSum(f, s \cap Z) = f[p] + IntSum(f, e \cap Z)
      BY <3>1, <3>2, Zenon
    <3> HIDE DEF p, e
    <3> QED
      BY <2>2, <2>4, <2>5, <2>6, <2>7, <3>3
  <2>8. CASE p \notin Z
    <3>1. s \cap Z = e \cap Z
      BY <2>8
    <3>2. IntSum(f, s \cap Z) = IntSum(f, e \cap Z)
      BY <3>1, Zenon
    <3> HIDE DEF p, e
    <3> QED
      BY <2>2, <2>4, <2>5, <2>6, <2>8, <3>2
  <2> QED
    BY <2>7, <2>8
<1>3. Inherits(G, S)
  <2> HIDE DEF Good
  <2> QED
    BY <1>2 DEF Inherits
<1> HIDE DEF Good
<1>4. SUBSET S \subseteq G
  <2> HIDE DEF G
  <2> QED
    BY <1>1, <1>3, FoldInduction
<1>5. Good(S)
  BY <1>4
<1>6. S \cap Z = Z
  OBVIOUS
<1> QED
  BY <1>5, <1>6 DEF Good

\* The value of a sum of fractions with a common denominator.
LEMMA SumWorth ==
  ASSUME NEW T, IsFiniteSet(T), NEW f \in [T -> Fractions], NEW w \in [T -> Int],
         NEW q \in Int, q > 0, \A x \in T : Worth(f[x], w[x], q),
         NEW h, FracAdds(h, f, T)
  PROVE  Worth(h[T], IntSum(w, T), q)
<1> DEFINE Good(s) == Worth(h[s], IntSum(w, s), q)
           G == {s \in SUBSET T : Good(s)}
<1>1. \A s \in SUBSET T :
        /\ IntSum(w, s) \in Int
        /\ s # {} => IntSum(w, s) = w[Pick(s)] + IntSum(w, s \ {Pick(s)})
  BY IntSumIs
<1>2. {} \in G
  <2>1. h[{}] = Zero /\ IntSum(w, {}) = 0
    BY IntSumIs, Zenon DEF FracAdds
  <2>2. Worth(Zero, 0, q)
    BY ZeroOne DEF Worth, Zero
  <2> QED
    BY <2>1, <2>2
<1>3. ASSUME NEW s \in SUBSET T, s # {}, s \ {Pick(s)} \in G PROVE Good(s)
  <2> DEFINE p == Pick(s)
             e == s \ {p}
  <2>1. p \in s /\ e \in SUBSET T
    BY <1>3 DEF Pick
  <2>2. h[s] = Plus(f[p], h[e])
    BY <1>3, Zenon DEF FracAdds
  <2>3. IntSum(w, s) = w[p] + IntSum(w, e) /\ IntSum(w, e) \in Int
    BY <1>1, <1>3, <2>1, Zenon
  <2>4. w[p] \in Int /\ Worth(f[p], w[p], q)
    BY <2>1
  <2>5. Worth(h[e], IntSum(w, e), q)
    BY <1>3
  <2> HIDE DEF p, e
  <2>6. Worth(Plus(f[p], h[e]), w[p] + IntSum(w, e), q)
    BY <2>3, <2>4, <2>5, WorthPlus
  <2> QED
    BY <2>2, <2>3, <2>6
<1>4. Inherits(G, T)
  <2> HIDE DEF Good
  <2> QED
    BY <1>3 DEF Inherits
<1> HIDE DEF Good
<1>5. SUBSET T \subseteq G
  <2> HIDE DEF G
  <2> QED
    BY <1>2, <1>4, FoldInduction
<1>6. Good(T)
  BY <1>5
<1> QED
  BY <1>6 DEF Good
-----------------------------------------------------------------------------
(* The contribution formula.                                               *)

\* The identity behind the formula: x/X and y/Y are the rates, a and b the denominators of a
\* bucket, c and e the overall ones, n/d the midpoint; u and v what the bucket counts.
LEMMA Identity ==
  ASSUME NEW x \in Int, NEW X \in Int, NEW y \in Int, NEW Y \in Int,
         NEW a \in Int, NEW b \in Int, NEW c \in Int, NEW e \in Int,
         NEW n \in Int, NEW d \in Int, NEW u \in Int, NEW v \in Int,
         a * x = u * X, b * y = v * Y
  PROVE  (a * e - b * c) * ((x * Y + y * X) * d - n * (2 * (X * Y)))
         + ((x * Y - y * X) * (a * e + b * c)) * d
         = (2 * (X * Y)) * ((u * (e * d) - v * (c * d)) - n * (a * e - b * c))
<1>1. (a * e - b * c) * ((x * Y + y * X) * d - n * (2 * (X * Y)))
      + ((x * Y - y * X) * (a * e + b * c)) * d
      = ((a * x) * (2 * e * d * Y) - (b * y) * (2 * c * d * X))
        - (2 * (X * Y)) * (n * (a * e - b * c))
  OBVIOUS
<1>2. (u * X) * (2 * e * d * Y) - (v * Y) * (2 * c * d * X)
      = (2 * (X * Y)) * (u * (e * d) - v * (c * d))
  OBVIOUS
<1> DEFINE k == 2 * (X * Y)
           s == u * (e * d) - v * (c * d)
           t == n * (a * e - b * c)
<1>3. k * (s - t) = k * s - k * t
  OBVIOUS
<1>4. (a * x) * (2 * e * d * Y) - (b * y) * (2 * c * d * X) = k * s
  BY <1>2
<1> HIDE DEF k, s, t
<1> QED
  BY <1>1, <1>3, <1>4 DEF k, s, t

\* What a bucket counts on a day on which it has a denominator.
Seen(n, d) == IF d > 0 THEN n ELSE 0

\* The part of a bucket in the change of the whole, over the denominator q of all parts.
Weight(r, o, m) ==
  (Seen(r.cn, r.cd) * (o.bd * m.d) - Seen(r.bn, r.bd) * (o.cd * m.d))
    - m.n * (r.cd * o.bd - r.bd * o.cd)

\* The contribution of a bucket is worth its Weight: composition and performance together leave
\* what the bucket counts, less the midpoint times the change of its denominators.
LEMMA TotalWorth ==
  ASSUME NEW r, RowSound(r), NEW o, OverallSound(o), NEW m,
         m = Half(Plus(RootRates(o).current, RootRates(o).baseline))
  PROVE  Worth(Total(r, o), Weight(r, o, m), (o.cd * o.bd) * m.d)
<1> DEFINE rate == Rates(r, o)
           share == Shares(r, o)
           x == rate.current.n
           X == rate.current.d
           y == rate.baseline.n
           Y == rate.baseline.d
           a == r.cd
           b == r.bd
           c == o.cd
           e == o.bd
           n == m.n
           d == m.d
           u == Seen(r.cn, r.cd)
           v == Seen(r.bn, r.bd)
<1>1. r.cn \in Nat /\ r.cd \in Nat /\ r.bn \in Nat /\ r.bd \in Nat
  BY RowCounts
<1>2. rate \in Pairs /\ share \in Pairs /\ m \in Fractions
  BY RatesTyped, SharesTyped, RootTyped, MiddleTyped
<1>3. /\ x \in Int /\ y \in Int /\ n \in Int
      /\ X \in Int /\ Y \in Int /\ d \in Int /\ X > 0 /\ Y > 0 /\ d > 0
      /\ rate.current \in Fractions /\ rate.baseline \in Fractions
  BY <1>2 DEF Pairs, Fractions
<1>4. /\ a \in Int /\ b \in Int /\ c \in Int /\ e \in Int /\ c > 0 /\ e > 0
      /\ u \in Int /\ v \in Int
  BY <1>1 DEF OverallSound, Seen
<1>5. a * x = u * X
  <2>1. CASE r.cd > 0
    <3>1. rate.current = Ratio(r.cn, r.cd)
      BY <2>1, Zenon DEF Rates, RootRates
    <3>2. x * a = r.cn * X
      BY <1>1, <2>1, <3>1, RatioIs
    <3> QED
      BY <1>1, <1>3, <2>1, <3>2 DEF Seen
  <2>2. CASE ~(r.cd > 0)
    <3>1. a = 0 /\ u = 0
      BY <1>1, <2>2 DEF Seen
    <3> QED
      BY <1>3, <3>1
  <2> QED
    BY <2>1, <2>2
<1>6. b * y = v * Y
  <2>1. CASE r.bd > 0
    <3>1. rate.baseline = Ratio(r.bn, r.bd)
      BY <2>1, Zenon DEF Rates, RootRates
    <3>2. y * b = r.bn * Y
      BY <1>1, <2>1, <3>1, RatioIs
    <3> QED
      BY <1>1, <1>3, <2>1, <3>2 DEF Seen
  <2>2. CASE ~(r.bd > 0)
    <3>1. b = 0 /\ v = 0
      BY <1>1, <2>2 DEF Seen
    <3> QED
      BY <1>3, <3>1
  <2> QED
    BY <2>1, <2>2
<1>7. Worth(rate.current, x, X) /\ Worth(rate.baseline, y, Y) /\ Worth(m, n, d)
  BY <1>2, <1>3 DEF Worth
<1>8. Worth(share.current, a, c) /\ Worth(share.baseline, b, e)
  <2>1. share.current = Ratio(r.cd, o.cd) /\ share.baseline = Ratio(r.bd, o.bd)
    BY DEF Shares
  <2> QED
    BY <1>1, <2>1, RatioWorth DEF OverallSound
<1>9. Total(r, o) = Plus(Times(Delta(share), Minus(Half(Plus(rate.current, rate.baseline)), m)),
                         Times(Delta(rate), Half(Plus(share.current, share.baseline))))
  BY Zenon DEF Total
<1> HIDE DEF rate, share, x, X, y, Y, a, b, c, e, n, d, u, v
<1>10. X * Y \in Int /\ X * Y > 0 /\ c * e \in Int /\ c * e > 0
  BY <1>3, <1>4
<1>11. Worth(rate.current, Y * x, Y * X) /\ Worth(rate.baseline, X * y, X * Y)
  BY <1>3, <1>7, WorthScale
<1>12. Worth(share.current, e * a, e * c) /\ Worth(share.baseline, c * b, c * e)
  BY <1>4, <1>8, WorthScale
<1>13. /\ Y * x = x * Y /\ Y * X = X * Y /\ X * y = y * X
       /\ e * a = a * e /\ e * c = c * e /\ c * b = b * c
       /\ x * Y \in Int /\ y * X \in Int /\ a * e \in Int /\ b * c \in Int
  BY <1>3, <1>4
<1>14. /\ Worth(rate.current, x * Y, X * Y) /\ Worth(rate.baseline, y * X, X * Y)
       /\ Worth(share.current, a * e, c * e) /\ Worth(share.baseline, b * c, c * e)
  BY <1>11, <1>12, <1>13
<1>15. /\ Worth(Plus(rate.current, rate.baseline), x * Y + y * X, X * Y)
       /\ Worth(Delta(rate), x * Y - y * X, X * Y)
  BY <1>10, <1>13, <1>14, WorthPlus DEF Delta
<1>16. /\ Worth(Plus(share.current, share.baseline), a * e + b * c, c * e)
       /\ Worth(Delta(share), a * e - b * c, c * e)
  BY <1>10, <1>13, <1>14, WorthPlus DEF Delta
<1> DEFINE P == x * Y + y * X
           M == x * Y - y * X
           G == a * e + b * c
           D == a * e - b * c
           Z == X * Y
           C == c * e
<1>17. P \in Int /\ M \in Int /\ G \in Int /\ D \in Int /\ Z \in Int /\ C \in Int /\ Z > 0 /\ C > 0
  BY <1>10, <1>13
<1>18. /\ Worth(Plus(rate.current, rate.baseline), P, Z) /\ Worth(Delta(rate), M, Z)
       /\ Worth(Plus(share.current, share.baseline), G, C) /\ Worth(Delta(share), D, C)
  BY <1>15, <1>16
<1>19. D * (P * d - n * (2 * Z)) + (M * G) * d
       = (2 * Z) * ((u * (e * d) - v * (c * d)) - n * D)
  BY <1>3, <1>4, <1>5, <1>6, Identity
<1>20. Weight(r, o, m) = (u * (e * d) - v * (c * d)) - n * D /\ (o.cd * o.bd) * m.d = C * d
  BY DEF Weight, a, b, c, e, n, d, u, v
<1> DEFINE W == (u * (e * d) - v * (c * d)) - n * D
<1>21. W \in Int
  BY <1>3, <1>4, <1>17
<1> HIDE DEF P, M, G, D, Z, C, W
<1>22. Worth(Half(Plus(rate.current, rate.baseline)), P, 2 * Z)
       /\ Worth(Half(Plus(share.current, share.baseline)), G, 2 * C)
  BY <1>17, <1>18, WorthHalf
<1>23. Worth(Minus(Half(Plus(rate.current, rate.baseline)), m), P * d - n * (2 * Z), (2 * Z) * d)
  <2>1. 2 * Z \in Int /\ 2 * Z > 0 /\ (2 * Z) * d \in Int /\ (2 * Z) * d > 0
        /\ d * P \in Int /\ (2 * Z) * n \in Int
    BY <1>3, <1>17
  <2>2. Worth(Half(Plus(rate.current, rate.baseline)), d * P, d * (2 * Z))
    BY <1>3, <1>17, <1>22, <2>1, WorthScale
  <2>3. Worth(m, (2 * Z) * n, (2 * Z) * d)
    BY <1>3, <1>7, <2>1, WorthScale
  <2>4. d * (2 * Z) = (2 * Z) * d /\ d * P = P * d /\ (2 * Z) * n = n * (2 * Z)
    BY <1>3, <1>17
  <2>5. /\ Worth(Half(Plus(rate.current, rate.baseline)), P * d, (2 * Z) * d)
        /\ Worth(m, n * (2 * Z), (2 * Z) * d)
    BY <2>2, <2>3, <2>4
  <2>6. P * d \in Int /\ n * (2 * Z) \in Int
    BY <2>1, <2>4
  <2> QED
    BY <2>1, <2>5, <2>6, WorthPlus
<1> DEFINE B == P * d - n * (2 * Z)
<1>24. B \in Int /\ (2 * Z) * d \in Int /\ 2 * C \in Int
  BY <1>3, <1>17
<1> HIDE DEF B
<1>25. Worth(Times(Delta(share), Minus(Half(Plus(rate.current, rate.baseline)), m)),
             D * B, C * ((2 * Z) * d))
  BY <1>17, <1>18, <1>23, <1>24, WorthTimes DEF B
<1>26. Worth(Times(Delta(rate), Half(Plus(share.current, share.baseline))), M * G, Z * (2 * C))
  BY <1>17, <1>18, <1>22, <1>24, WorthTimes
<1> DEFINE q == C * ((2 * Z) * d)
<1>27. Worth(Times(Delta(rate), Half(Plus(share.current, share.baseline))), (M * G) * d, q)
  <2>1. M * G \in Int /\ Z * (2 * C) \in Int
    BY <1>17
  <2>2. Worth(Times(Delta(rate), Half(Plus(share.current, share.baseline))),
              d * (M * G), d * (Z * (2 * C)))
    BY <1>3, <1>26, <2>1, WorthScale
  <2>3. d * (M * G) = (M * G) * d /\ d * (Z * (2 * C)) = q
    BY <1>3, <1>17
  <2> QED
    BY <2>2, <2>3
<1>28. q \in Int /\ q > 0 /\ D * B \in Int /\ (M * G) * d \in Int
  <2>1. Z * d > 0 /\ Z * d \in Int
    BY <1>3, <1>17
  <2>2. C * (Z * d) > 0 /\ C * (Z * d) \in Int
    BY <1>17, <2>1
  <2>3. q = 2 * (C * (Z * d))
    BY <1>3, <1>17
  <2>4. D * B \in Int /\ (M * G) * d \in Int
    BY <1>3, <1>17, <1>24
  <2> QED
    BY <2>2, <2>3, <2>4
<1>29. Worth(Total(r, o), D * B + (M * G) * d, q)
  <2> HIDE DEF q
  <2> QED
    BY <1>9, <1>25, <1>27, <1>28, WorthPlus DEF q
<1>30. D * B + (M * G) * d = (2 * Z) * W /\ q = (2 * Z) * (C * d)
  <2>1. q = (2 * Z) * (C * d)
    BY <1>3, <1>17
  <2> QED
    BY <1>19, <2>1 DEF B, W
<1>31. Worth(Total(r, o), W, C * d)
  <2>1. 2 * Z \in Int /\ 2 * Z > 0 /\ C * d \in Int
    BY <1>3, <1>17
  <2>2. Worth(Total(r, o), (2 * Z) * W, (2 * Z) * (C * d))
    BY <1>29, <1>30
  <2> QED
    BY <1>21, <2>1, <2>2, WorthScale
<1> QED
  BY <1>20, <1>31 DEF W
-----------------------------------------------------------------------------
(* What the closure gate sees.                                             *)

\* Fractions of the same value are interchangeable in comparisons.
LEMMA SameValue ==
  ASSUME NEW a, NEW b, NEW p \in Int, NEW q \in Int, q > 0, Worth(a, p, q), Worth(b, p, q),
         NEW t \in Fractions
  PROVE  AtMost(a, t) <=> AtMost(b, t)
<1>1. a \in Fractions /\ b \in Fractions /\ a.n * q = p * a.d /\ b.n * q = p * b.d
  BY DEF Worth
<1>2. a.n \in Int /\ b.n \in Int /\ a.d \in Int /\ b.d \in Int
  BY <1>1 DEF Fractions
<1>3. a.n * b.d = b.n * a.d
  <2> DEFINE x == a.n * b.d
             y == b.n * a.d
  <2>1. x \in Int /\ y \in Int
    BY <1>2
  <2>2. q * x = (a.n * q) * b.d /\ q * y = (b.n * q) * a.d
    BY <1>2
  <2>3. (p * a.d) * b.d = (p * b.d) * a.d
    BY <1>2
  <2>4. q * x = q * y
    <3> HIDE DEF x, y
    <3> QED
      BY <1>1, <2>2, <2>3
  <2> HIDE DEF x, y
  <2>5. x = y
    BY <2>1, <2>4, Cancel
  <2> QED
    BY <2>5 DEF x, y
<1>4. AtMost(a, b) /\ AtMost(b, a)
  BY <1>2, <1>3 DEF AtMost
<1> QED
  BY <1>1, <1>4, AtMostTransitive

\* The distance from zero.
LEMMA AbsWorth ==
  ASSUME NEW a, NEW p \in Int, NEW q \in Int, q > 0, Worth(a, p, q)
  PROVE  Worth(AbsRatio(a), Magnitude(p), q)
<1>1. a \in Fractions /\ a.n * q = p * a.d
  BY DEF Worth
<1>2. a.n \in Int /\ a.d \in Int /\ a.d > 0
  BY <1>1 DEF Fractions
<1>3. /\ AbsRatio(a).n = Magnitude(a.n) /\ AbsRatio(a).d = a.d
      /\ AbsRatio(a) \in Fractions
  BY <1>1 DEF AbsRatio, Fractions, Magnitude
<1>4. Magnitude(a.n) * q = Magnitude(p) * a.d
  <2>1. a.n < 0 <=> p < 0
    <3>1. a.n < 0 => a.n * q < 0
      BY <1>2
    <3>2. a.n >= 0 => a.n * q >= 0
      BY <1>2
    <3>3. p < 0 => p * a.d < 0
      BY <1>2
    <3>4. p >= 0 => p * a.d >= 0
      BY <1>2
    <3> QED
      BY <1>1, <1>2, <3>1, <3>2, <3>3, <3>4
  <2>2. (-a.n) * q = (-p) * a.d
    <3>1. (-a.n) * q = -(a.n * q) /\ (-p) * a.d = -(p * a.d)
      BY <1>2
    <3> QED
      BY <1>1, <3>1
  <2> QED
    BY <1>1, <2>1, <2>2 DEF Magnitude
<1> QED
  BY <1>3, <1>4 DEF Worth

\* The contributions of a table, as a sum.
LEMMA ContributionsWorth ==
  ASSUME NEW T \in Tables, NEW o, OverallSound(o), NEW w \in [T -> Int], NEW q \in Int, q > 0,
         \A r \in T : Worth(Total(r, o), w[r], q)
  PROVE  Worth(ContributionSum(T, o), IntSum(w, T), q)
<1> DEFINE f == [r \in T |-> Total(r, o)]
           P(h) == h = [s \in SUBSET T |->
                          IF s = {} THEN Zero ELSE Plus(Total(Pick(s), o), h[s \ {Pick(s)}])]
           sum == ContributionSum(T, o)
<1>1. IsFiniteSet(T)
  BY TableSound
<1>2. f \in [T -> Fractions] /\ \A r \in T : f[r] = Total(r, o)
  BY TableSound, TotalTyped
<1>3. sum = (CHOOSE h : P(h))[T]
  BY Zenon DEF ContributionSum, SumOf, FoldSet, MapThenFoldSet, Pick
<1>4. \A s \in SUBSET T : s # {} => Pick(s) \in T
  BY DEF Pick
<1> HIDE DEF f, sum
<1>5. \A h : P(h) <=> FracAdds(h, f, T)
  BY <1>2, <1>4 DEF FracAdds
<1>6. \E h : FracAdds(h, f, T)
  BY <1>1, <1>2, FracSumIs
<1> HIDE DEF P
<1>7. P(CHOOSE h : P(h))
  BY <1>5, <1>6
<1>8. FracAdds(CHOOSE h : P(h), f, T)
  BY <1>5, <1>7
<1>9. \A r \in T : Worth(f[r], w[r], q)
  BY <1>2
<1>10. Worth((CHOOSE h : P(h))[T], IntSum(w, T), q)
  BY <1>1, <1>2, <1>8, <1>9, SumWorth
<1> QED
  BY <1>3, <1>10 DEF sum

\* What a day counts, and the rows it does not see.
SeenColumn(field, under, T) == [r \in T |-> Seen(r[field], r[under])]
Hidden(under, T) == {r \in T : r[under] = 0}

\* All that a day counts is seen or hidden; nothing is hidden where the counts are of subsets.
LEMMA SeenAndHidden ==
  ASSUME NEW T \in Tables, NEW field \in CountFields, NEW under \in CountFields
  PROVE  /\ SeenColumn(field, under, T) \in [T -> Int]
         /\ IntSum(SeenColumn(field, under, T), T) \in Int
         /\ FieldSum(field, Hidden(under, T)) \in Int
         /\ FieldSum(field, T) =
              IntSum(SeenColumn(field, under, T), T) + FieldSum(field, Hidden(under, T))
         /\ (\A r \in T : r[field] <= r[under]) => FieldSum(field, Hidden(under, T)) = 0
<1> DEFINE f == Column(field, T)
           g == SeenColumn(field, under, T)
           Z == Hidden(under, T)
<1>1. IsFiniteSet(T) /\ \A r \in T : r[field] \in Nat /\ r[under] \in Nat
  BY TableSound DEF RowSound
<1>2. f \in [T -> Int] /\ \A r \in T : f[r] = r[field]
  BY <1>1 DEF Column
<1>3. Z \in SUBSET T /\ \A r \in T : r \in Z <=> r[under] = 0
  BY DEF Hidden
<1>4. g \in [T -> Int] /\ \A r \in T : g[r] = IF r[under] > 0 THEN r[field] ELSE 0
  BY <1>1 DEF SeenColumn, Seen
<1>5. FieldSum(field, T) = IntSum(f, T)
  BY <1>1, FieldSumIs
<1>6. FieldSum(field, Z) = IntSum(f, Z)
  BY <1>1, <1>3, FieldSumIs
<1> HIDE DEF f, g, Z
<1>7. \A r \in T : g[r] = IF r \in Z THEN 0 ELSE f[r]
  BY <1>1, <1>2, <1>3, <1>4
<1>8. IntSum(f, T) = IntSum(g, T) + IntSum(f, Z)
  BY <1>1, <1>2, <1>3, <1>4, <1>7, SumSplits
<1>9. IntSum(g, T) \in Int /\ IntSum(f, Z) \in Int
  BY <1>1, <1>2, <1>3, <1>4, IntSumIs
<1>10. ASSUME \A r \in T : r[field] <= r[under] PROVE IntSum(f, Z) = 0
  <2>1. \A r \in T : g[r] = f[r]
    BY <1>1, <1>2, <1>4, <1>10
  <2>2. g = f
    BY <1>2, <1>4, <2>1
  <2> QED
    BY <1>8, <1>9, <2>2
<1> QED
  BY <1>4, <1>5, <1>6, <1>8, <1>9, <1>10 DEF g, Z

\* What the rows of a table hide.
UnseenIn(T, o) ==
  Minus(Ratio(FieldSum("cn", Hidden("cd", T)), o.cd), Ratio(FieldSum("bn", Hidden("bd", T)), o.bd))

\* Two quotients over their common denominator.
LEMMA DifferenceWorth ==
  ASSUME NEW a \in Int, NEW c \in Nat \ {0}, NEW b \in Int, NEW e \in Nat \ {0}
  PROVE  Worth(Minus(Ratio(a, c), Ratio(b, e)), a * e - b * c, c * e)
<1>1. Worth(Ratio(a, c), a, c) /\ Worth(Ratio(b, e), b, e)
  BY RatioWorth
<1>2. Worth(Ratio(a, c), e * a, e * c) /\ Worth(Ratio(b, e), c * b, c * e)
  <2>1. c \in Int /\ c > 0 /\ e \in Int /\ e > 0
    OBVIOUS
  <2>2. Worth(Ratio(a, c), e * a, e * c)
    BY <1>1, <2>1, WorthScale
  <2>3. Worth(Ratio(b, e), c * b, c * e)
    BY <1>1, <2>1, WorthScale
  <2> QED
    BY <2>2, <2>3
<1>3. e * a = a * e /\ e * c = c * e /\ c * b = b * c
  OBVIOUS
<1>4. Worth(Ratio(a, c), a * e, c * e) /\ Worth(Ratio(b, e), b * c, c * e)
  BY <1>2, <1>3
<1>5. a * e \in Int /\ b * c \in Int /\ c * e \in Int /\ c * e > 0
  OBVIOUS
<1> QED
  BY <1>4, <1>5, WorthPlus

\* The sum of the contributions is the change of what the days have seen.
LEMMA ContributionsAre ==
  ASSUME NEW T \in Tables, NEW o, OverallSound(o), Rehooks(T, o)
  PROVE  Worth(ContributionSum(T, o),
               o.bd * IntSum(SeenColumn("cn", "cd", T), T)
                 - o.cd * IntSum(SeenColumn("bn", "bd", T), T),
               o.cd * o.bd)
<1> DEFINE m == Half(Plus(RootRates(o).current, RootRates(o).baseline))
           w == [r \in T |-> Weight(r, o, m)]
           q == (o.cd * o.bd) * m.d
           a == SeenColumn("cn", "cd", T)
           b == SeenColumn("bn", "bd", T)
           c == Column("cd", T)
           d == Column("bd", T)
           C == o.cd
           E == o.bd
           A == IntSum(a, T)
           B == IntSum(b, T)
<1>1. IsFiniteSet(T) /\ \A r \in T : RowSound(r)
  BY TableSound
<1>2. C \in Int /\ E \in Int /\ C > 0 /\ E > 0
  BY DEF OverallSound
<1>3. m \in Fractions
  BY RootTyped, MiddleTyped
<1>4. m.n \in Int /\ m.d \in Int /\ m.d > 0
  <2> HIDE DEF m
  <2> QED
    BY <1>3 DEF Fractions
<1>5. a \in [T -> Int] /\ b \in [T -> Int] /\ A \in Int /\ B \in Int
  BY SeenAndHidden DEF CountFields
<1>6. c \in [T -> Int] /\ d \in [T -> Int] /\ IntSum(c, T) = C /\ IntSum(d, T) = E
  <2>1. FieldSum("cd", T) = o["cd"] /\ FieldSum("bd", T) = o["bd"]
    BY DEF Rehooks, CountFields
  <2> QED
    BY <2>1, FieldTyped DEF CountFields
<1>7. \A r \in T : /\ a[r] = Seen(r.cn, r.cd) /\ b[r] = Seen(r.bn, r.bd)
                   /\ c[r] = r.cd /\ d[r] = r.bd
                   /\ a[r] \in Int /\ b[r] \in Int /\ c[r] \in Int /\ d[r] \in Int
  BY <1>5, <1>6 DEF SeenColumn, Column
<1>8. \A r \in T : Worth(Total(r, o), Weight(r, o, m), q)
  <2> HIDE DEF w
  <2> QED
    BY <1>1, TotalWorth
<1> DEFINE i == E * m.d
           j == -(C * m.d)
           k == -(m.n * E)
           l == m.n * C
<1>9. i \in Int /\ j \in Int /\ k \in Int /\ l \in Int /\ q \in Int /\ q > 0
  <2>1. C * E \in Int /\ C * E > 0
    BY <1>2
  <2>2. q \in Int /\ q > 0
    <3> DEFINE x == C * E
    <3>1. x \in Int /\ x > 0
      BY <2>1
    <3> HIDE DEF x, m
    <3>2. x * m.d \in Int /\ x * m.d > 0
      BY <1>4, <3>1
    <3> QED
      BY <3>2 DEF x
  <2> HIDE DEF m, C, E, q
  <2> QED
    BY <1>2, <1>4, <2>2
<1> HIDE DEF m, q, a, b, c, d
<1>10. ASSUME NEW r \in T
       PROVE  Weight(r, o, m) = ((i * a[r] + j * b[r]) + k * c[r]) + l * d[r]
  <2>1. Weight(r, o, m) = (a[r] * (E * m.d) - b[r] * (C * m.d)) - m.n * (c[r] * E - d[r] * C)
    BY <1>7 DEF Weight
  <2> DEFINE u == a[r]
             v == b[r]
             x == c[r]
             y == d[r]
             n == m.n
             g == m.d
  <2>2. u \in Int /\ v \in Int /\ x \in Int /\ y \in Int /\ n \in Int /\ g \in Int
    BY <1>4, <1>7
  <2> HIDE DEF u, v, x, y, n, g, C, E
  <2>3. (u * (E * g) - v * (C * g)) - n * (x * E - y * C)
        = (((E * g) * u + (-(C * g)) * v) + (-(n * E)) * x) + (n * C) * y
    BY <1>2, <2>2
  <2> QED
    BY <2>1, <2>3 DEF u, v, x, y, n, g
<1>11. w \in [T -> Int] /\ \A r \in T : w[r] = Weight(r, o, m)
  <2>1. ASSUME NEW r \in T PROVE Weight(r, o, m) \in Int
    <3> HIDE DEF i, j, k, l
    <3>1. i * a[r] \in Int /\ j * b[r] \in Int /\ k * c[r] \in Int /\ l * d[r] \in Int
      BY <1>7, <1>9
    <3> QED
      BY <1>10, <3>1
  <2> QED
    BY <2>1
<1> HIDE DEF w, A, B, C, E
<1>12. Worth(ContributionSum(T, o), IntSum(w, T), q)
  BY <1>8, <1>9, <1>11, ContributionsWorth
<1>13. IntSum(w, T) = ((i * IntSum(a, T) + j * IntSum(b, T)) + k * IntSum(c, T)) + l * IntSum(d, T)
  <2> HIDE DEF i, j, k, l
  <2>1. Combines(w, T, i, a, j, b, k, c, l, d)
    BY <1>10, <1>11 DEF Combines
  <2> QED
    BY <1>1, <1>5, <1>6, <1>9, <1>11, <2>1, SumCombines
<1>14. IntSum(w, T) = m.d * (E * A - C * B)
  <2>1. IntSum(w, T) = ((i * A + j * B) + k * C) + l * E
    BY <1>6, <1>13 DEF A, B
  <2> DEFINE n == m.n
             g == m.d
  <2>2. n \in Int /\ g \in Int
    BY <1>4
  <2> HIDE DEF n, g
  <2>3. (((E * g) * A + (-(C * g)) * B) + (-(n * E)) * C) + (n * C) * E = g * (E * A - C * B)
    BY <1>2, <1>5, <2>2
  <2> QED
    BY <2>1, <2>3 DEF n, g
<1>15. q = m.d * (C * E)
  BY <1>2, <1>4 DEF q, C, E
<1>16. E * A - C * B \in Int /\ C * E \in Int
  BY <1>2, <1>5
<1>17. Worth(ContributionSum(T, o), E * A - C * B, C * E)
  BY <1>4, <1>12, <1>14, <1>15, <1>16, WorthScale
<1> QED
  BY <1>17 DEF A, B, C, E, a, b

\* The closure gate compares what the rows hide.
LEMMA ClosesIs ==
  ASSUME NEW T \in Tables, NEW o, OverallSound(o), Rehooks(T, o)
  PROVE  /\ Closes(T, o) <=> ~Below(Tolerance, AbsRatio(UnseenIn(T, o)))
         /\ Countable(T, TRUE) => ~Below(Tolerance, AbsRatio(UnseenIn(T, o)))
<1> DEFINE A == IntSum(SeenColumn("cn", "cd", T), T)
           B == IntSum(SeenColumn("bn", "bd", T), T)
           H == FieldSum("cn", Hidden("cd", T))
           K == FieldSum("bn", Hidden("bd", T))
           C == o.cd
           E == o.bd
           M == o.cn
           N == o.bn
           gap == Minus(ContributionSum(T, o), Delta(RootRates(o)))
           unseen == UnseenIn(T, o)
<1>1. A \in Int /\ B \in Int /\ H \in Int /\ K \in Int
  BY SeenAndHidden DEF CountFields
<1>2. M = A + H /\ N = B + K
  <2>1. FieldSum("cn", T) = o["cn"] /\ FieldSum("bn", T) = o["bn"]
    BY DEF Rehooks, CountFields
  <2> QED
    BY <2>1, SeenAndHidden DEF CountFields
<1>3. Countable(T, TRUE) => H = 0 /\ K = 0
  <2> SUFFICES ASSUME Countable(T, TRUE) PROVE H = 0 /\ K = 0
    OBVIOUS
  <2>1. \A r \in T : r["cn"] <= r["cd"] /\ r["bn"] <= r["bd"]
    BY DEF Countable
  <2> QED
    BY <2>1, SeenAndHidden DEF CountFields
<1>4. /\ M \in Int /\ N \in Int /\ C \in Int /\ E \in Int /\ C > 0 /\ E > 0
      /\ C \in Nat \ {0} /\ E \in Nat \ {0}
  BY DEF OverallSound
<1>5. Worth(ContributionSum(T, o), E * A - C * B, C * E)
  BY ContributionsAre
<1>6. Worth(Delta(RootRates(o)), M * E - N * C, C * E)
  <2>1. Delta(RootRates(o)) = Minus(Ratio(M, C), Ratio(N, E))
    BY DEF Delta, RootRates
  <2> HIDE DEF M, N, C, E
  <2> QED
    BY <1>4, <2>1, DifferenceWorth
<1>7. Worth(unseen, H * E - K * C, C * E)
  <2>1. unseen = Minus(Ratio(H, C), Ratio(K, E))
    BY DEF UnseenIn
  <2> HIDE DEF H, K, C, E, unseen
  <2> QED
    BY <1>1, <1>4, <2>1, DifferenceWorth
<1>8. gap = Minus(ContributionSum(T, o), Delta(RootRates(o)))
  OBVIOUS
<1>9. Closes(T, o) <=> AtMost(AbsRatio(gap), Tolerance)
  BY DEF Closes
<1> HIDE DEF A, B, H, K, C, E, M, N, gap, unseen
<1> DEFINE x == E * A - C * B
           y == M * E - N * C
           z == H * E - K * C
<1>10. x \in Int /\ y \in Int /\ z \in Int /\ C * E \in Int /\ C * E > 0
  BY <1>1, <1>4
<1>11. x - y = -z
  BY <1>1, <1>2, <1>4
<1>12. Worth(ContributionSum(T, o), x, C * E) /\ Worth(Delta(RootRates(o)), y, C * E)
       /\ Worth(unseen, z, C * E)
  BY <1>5, <1>6, <1>7
<1>13. H = 0 /\ K = 0 => z = 0
  BY <1>4
<1> HIDE DEF x, y, z
<1>14. Worth(gap, x - y, C * E)
  BY <1>8, <1>10, <1>12, WorthPlus
<1>15. Worth(AbsRatio(gap), Magnitude(x - y), C * E) /\ Worth(AbsRatio(unseen), Magnitude(z), C * E)
  <2>1. x - y \in Int
    BY <1>10
  <2> QED
    BY <1>10, <1>12, <1>14, <2>1, AbsWorth
<1>16. Magnitude(x - y) = Magnitude(z) /\ Magnitude(z) \in Int
  BY <1>10, <1>11 DEF Magnitude
<1>17. AbsRatio(unseen) \in Fractions /\ Tolerance \in Fractions /\ Tolerance.n >= 0
  BY <1>15, ThresholdAssumption DEF Worth
<1>18. AtMost(AbsRatio(gap), Tolerance) <=> AtMost(AbsRatio(unseen), Tolerance)
  BY <1>10, <1>15, <1>16, <1>17, SameValue
<1>19. AtMost(AbsRatio(unseen), Tolerance) <=> ~Below(Tolerance, AbsRatio(unseen))
  BY <1>17, NotBelow
<1>20. ASSUME z = 0 PROVE AtMost(AbsRatio(unseen), Tolerance)
  <2>1. Magnitude(z) = 0
    BY <1>20 DEF Magnitude
  <2> DEFINE u == AbsRatio(unseen)
  <2>2. u.n * (C * E) = 0 /\ u.n \in Int /\ u.d \in Int /\ u.d > 0
    BY <1>15, <1>17, <2>1 DEF Worth, Fractions
  <2> HIDE DEF u
  <2>3. u.n = 0
    <3>1. (C * E) * u.n = (C * E) * 0
      BY <1>10, <2>2
    <3> QED
      BY <1>10, <2>2, <3>1, Cancel
  <2>4. Tolerance.n \in Int /\ Tolerance.d \in Int
    BY <1>17 DEF Fractions
  <2>5. Tolerance.n * u.d >= 0 /\ u.n * Tolerance.d = 0
    BY <1>17, <2>2, <2>3, <2>4
  <2> QED
    BY <2>5 DEF AtMost, u
<1> QED
  BY <1>3, <1>9, <1>13, <1>18, <1>19, <1>20 DEF unseen

\* The rows that pass the count gates are refused exactly if the numerators without a denominator
\* weigh differently on the two days, and never where the numerators are subsets: composition
\* and performance of all buckets add up to the change of the overall rate.
THEOREM RefusedForUnseenAlone == Spec => []RefusedOnlyForUnseen
<1>1. ASSUME Inv, Gated
      PROVE  /\ family = Failed <=> Below(Tolerance, AbsRatio(Unseen))
             /\ subset => family # Failed
  <2>1. /\ rows \in Tables /\ OverallTyped(overall) /\ family = Recorded(rows, overall)
        /\ overall.cd > 0 /\ overall.bd > 0 /\ Countable(rows, subset) /\ Rehooks(rows, overall)
    BY <1>1 DEF Inv, Gated
  <2>2. OverallSound(overall)
    BY <2>1 DEF OverallTyped, OverallSound
  <2>3. family = IF Closes(rows, overall)
                 THEN Succeeded(rows, overall, Direction, Broad)
                 ELSE Failed
    BY <2>1, Zenon DEF Recorded, Family
  <2>4. Succeeded(rows, overall, Direction, Broad) # Failed
    BY DEF Succeeded, Failed, NoFamily
  <2>5. Unseen = UnseenIn(rows, overall)
    BY DEF Unseen, UnseenIn, Hidden
  <2>6. subset => Countable(rows, TRUE)
    BY <2>1 DEF Countable
  <2> QED
    BY <2>1, <2>2, <2>3, <2>4, <2>5, <2>6, ClosesIs
<1>2. Inv => RefusedOnlyForUnseen
  BY <1>1 DEF RefusedOnlyForUnseen
<1> QED
  BY <1>2, Invariant, PTL
=============================================================================
