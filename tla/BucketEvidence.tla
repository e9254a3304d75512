--------------------------- MODULE BucketEvidence ---------------------------
(***************************************************************************)
(* What one primary family query proves: runtime/contribution.py and the   *)
(* contribution part of runtime/result_validator.py, and what the loader   *)
(* of runtime/runner.py asks of the evidence when it reads it back.        *)
(*                                                                         *)
(* A result is a set of rows                                               *)
(*   [value, kind, cn, cd, bn, bd]                                         *)
(* numerator and denominator of the current day (cn, cd) and of the        *)
(* baseline (bn, bd), with the overall counts, repeated on every row of    *)
(* the real result, kept once.  Values are numbers; kind separates the     *)
(* business buckets from quality and residual ones.                        *)
(***************************************************************************)
EXTENDS Ratios, SequencesExt

CONSTANTS
  MinSample,    \* minimum_sample of a bucket, per day
  BaselineDays, \* baseline_day_count
  MinShare,     \* minimum_share of a bucket
  MinAdverse,   \* minimum_adverse_impact of a candidate
  Tolerance,    \* contribution_tolerance
  TextBefore(_, _) \* the order of two values as text

ASSUME CountAssumption == MinSample \in Nat \ {0} /\ BaselineDays \in Nat \ {0}
ASSUME ThresholdAssumption ==
  /\ {MinShare, MinAdverse, Tolerance} \subseteq Fractions
  /\ MinAdverse.n > 0 /\ Tolerance.n >= 0

Kinds == {"business", "quality", "residual"}

\* A family that has no result, or whose result was refused.
NoFamily(status) == [status |-> status]
Failed == NoFamily("failed")

Counts(r) == [cn |-> r.cn, cd |-> r.cd, bn |-> r.bn, bd |-> r.bd]
-----------------------------------------------------------------------------
(* The count gates of the validator.                                       *)

CountFields == {"cn", "cd", "bn", "bd"}
FieldSum(field, rows) == MapThenSumSet(LAMBDA r : r[field], rows)

\* Mutant: only the current day is compared.
CountableToday(rows, subset) == \A r \in rows : subset => r.cn <= r.cd

Countable(rows, subset) == \A r \in rows : subset => r.cn <= r.cd /\ r.bn <= r.bd

Rehooks(rows, overall) == \A field \in CountFields : FieldSum(field, rows) = overall[field]
-----------------------------------------------------------------------------
(* calculate_contributions.                                                *)

RootRates(o) == [current |-> Ratio(o.cn, o.cd), baseline |-> Ratio(o.bn, o.bd)]
Delta(rates) == Minus(rates.current, rates.baseline)

\* A bucket that is missing on one day takes the rate of the other one.
Rates(r, overall) ==
  LET root == RootRates(overall)
      middle == Half(Plus(root.current, root.baseline))
  IN IF r.cd > 0 /\ r.bd > 0 THEN RootRates(r)
     ELSE IF r.cd > 0 THEN [current |-> Ratio(r.cn, r.cd), baseline |-> Ratio(r.cn, r.cd)]
     ELSE IF r.bd > 0 THEN [current |-> Ratio(r.bn, r.bd), baseline |-> Ratio(r.bn, r.bd)]
     ELSE [current |-> middle, baseline |-> middle]

Shares(r, overall) == [current |-> Ratio(r.cd, overall.cd), baseline |-> Ratio(r.bd, overall.bd)]

\* Mutant: the composition of a bucket is not measured from the midpoint.
TotalFromZero(r, overall) ==
  LET rate == Rates(r, overall)
      share == Shares(r, overall)
  IN Plus(Times(Delta(share), rate.current),
          Times(Delta(rate), Half(Plus(share.current, share.baseline))))

Total(r, overall) ==
  LET root == RootRates(overall)
      middle == Half(Plus(root.current, root.baseline))
      rate == Rates(r, overall)
      share == Shares(r, overall)
      composition == Times(Delta(share), Minus(Half(Plus(rate.current, rate.baseline)), middle))
      performance == Times(Delta(rate), Half(Plus(share.current, share.baseline)))
  IN Plus(composition, performance)

Adverse(direction, change) ==
  NonNegativePart(IF direction = "higher_is_better" THEN Minus(Zero, change) ELSE change)

ContributionSum(rows, overall) == SumOf(LAMBDA r : Total(r, overall), rows)

Closes(rows, overall) ==
  AtMost(AbsRatio(Minus(ContributionSum(rows, overall), Delta(RootRates(overall)))), Tolerance)
-----------------------------------------------------------------------------
(* _validate_contribution_buckets.                                         *)

\* Large enough to be a candidate or a breadth bucket.
Eligible(r, overall) ==
  /\ r.kind = "business"
  /\ r.cd >= MinSample \/ r.bd >= MinSample * BaselineDays
  /\ LET share == Shares(r, overall)
     IN AtMost(MinShare, share.current) \/ AtMost(MinShare, share.baseline)

Measured(value, rates) == [value |-> value, current |-> rates.current, baseline |-> rates.baseline]
Bucket(r, overall) == Measured(r.value, Rates(r, overall))

Candidate(r, overall, direction) ==
  [value |-> r.value, impact |-> Adverse(direction, Total(r, overall)),
   rates |-> Rates(r, overall), counts |-> Counts(r)]

\* The elements of S in the strict total order before.
Sorted(S, before(_, _)) ==
  [i \in 1..Cardinality(S) |-> CHOOSE x \in S : Cardinality({y \in S : before(y, x)}) = i - 1]

\* Largest impact first, then the value as text.
Ranked(c, d) ==
  \/ Below(d.impact, c.impact)
  \/ ~Below(c.impact, d.impact) /\ TextBefore(c.value, d.value)

Candidates(rows, overall, direction) ==
  LET all == {Candidate(r, overall, direction) : r \in {q \in rows : Eligible(q, overall)}}
  IN Sorted({c \in all : AtMost(MinAdverse, c.impact)}, Ranked)

\* Mutant: the favourable buckets of the family are set off against the adverse ones.
FamilyAdverseNet(rows, overall, direction) ==
  Adverse(direction, SumOf(LAMBDA r : Total(r, overall), {q \in rows : q.kind # "quality"}))

FamilyAdverse(rows, overall, direction) ==
  SumOf(LAMBDA r : Adverse(direction, Total(r, overall)), {q \in rows : q.kind # "quality"})

\* broad: the family is one of the three that the breadth check compares.
Succeeded(rows, overall, direction, broad) ==
  [status |-> "succeeded",
   cands |-> Candidates(rows, overall, direction),
   adverse |-> FamilyAdverse(rows, overall, direction),
   counts |-> Counts(overall),
   buckets |-> IF broad THEN {Bucket(r, overall) : r \in {q \in rows : Eligible(q, overall)}}
               ELSE {}]

Family(rows, overall, direction, subset, broad) ==
  IF /\ overall.cd > 0 /\ overall.bd > 0
     /\ Countable(rows, subset) /\ Rehooks(rows, overall) /\ Closes(rows, overall)
  THEN Succeeded(rows, overall, direction, broad)
  ELSE Failed
-----------------------------------------------------------------------------
(* _validate_private_primary_counts, _validate_private_breadth_buckets.    *)

PrivateCountsLoad(f) == f.counts.cd > 0 /\ f.counts.bd > 0

One == Ratio(1, 1)

BreadthBucketsLoad(f, broad) ==
  IF ~broad THEN f.buckets = {}
  ELSE /\ \A b, c \in f.buckets : b.value = c.value => b = c
       /\ \A b \in f.buckets : AtMost(b.current, One) /\ AtMost(b.baseline, One)
       /\ \A k \in 1..Len(f.cands) : Measured(f.cands[k].value, f.cands[k].rates) \in f.buckets

FamilyLoads(f, broad) ==
  f.status = "succeeded" => PrivateCountsLoad(f) /\ BreadthBucketsLoad(f, broad)
=============================================================================
