------------------------------- MODULE Ratios -------------------------------
(***************************************************************************)
(* Exact fractions in lowest terms, for the rates, shares and impacts that *)
(* the code computes in floating point with a tolerance of 1e-9 to 1e-15   *)
(* around each comparison.                                                 *)
(***************************************************************************)
EXTENDS Integers, FiniteSetsExt

Fractions == [n : Int, d : Nat \ {0}]

gcd[p \in Nat \X Nat] == IF p[2] = 0 THEN p[1] ELSE gcd[<<p[2], p[1] % p[2]>>]

Magnitude(i) == IF i < 0 THEN -i ELSE i

Ratio(n, d) == LET g == gcd[<<Magnitude(n), d>>] IN [n |-> n \div g, d |-> d \div g]

Zero == [n |-> 0, d |-> 1]

Plus(a, b) == Ratio(a.n * b.d + b.n * a.d, a.d * b.d)
Minus(a, b) == Ratio(a.n * b.d - b.n * a.d, a.d * b.d)
Times(a, b) == Ratio(a.n * b.n, a.d * b.d)
Half(a) == Ratio(a.n, 2 * a.d)

AtMost(a, b) == a.n * b.d <= b.n * a.d
Below(a, b) == a.n * b.d < b.n * a.d

AbsRatio(a) == [a EXCEPT !.n = Magnitude(a.n)]
NonNegativePart(a) == IF a.n > 0 THEN a ELSE Zero
LargerOf(a, b) == IF AtMost(a, b) THEN b ELSE a

SumOf(op(_), S) == FoldSet(LAMBDA x, acc : Plus(op(x), acc), Zero, S)
=============================================================================
