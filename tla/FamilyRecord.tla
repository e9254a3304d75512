---------------------------- MODULE FamilyRecord ----------------------------
(***************************************************************************)
(* The result of one primary family query on its way into the run: DView   *)
(* answers, record validates the rows and writes what they prove, and the  *)
(* next operation loads the state that holds it.  The arithmetic is that   *)
(* of BucketEvidence; this module asks whether its parts fit together: the *)
(* gates with the contribution formula, the validator with the loader and  *)
(* with the counterfactual that starts from its candidates.                *)
(***************************************************************************)
EXTENDS PostPrimarySelectors

CONSTANTS
  Tables,    \* sets of rows DView may answer with
  Offsets,   \* by how much the overall current numerator may be off the rows
  Direction, \* of the metric
  Broad,     \* the family is compared by the breadth check
  None

\* Two gates before these refuse negative counts and two rows of a kind with the same value.
ASSUME TablesAssumption ==
  \A table \in Tables :
    /\ IsFiniteSet(table)
    /\ \A r \in table : r.kind \in Kinds /\ \A field \in CountFields : r[field] \in Nat
    /\ \A q, r \in table : q.kind = r.kind /\ q.value = r.value => q = r
ASSUME OffsetsAssumption == Offsets \subseteq Int
\* TextBefore orders the values of a table.
ASSUME TextAssumption ==
  \A table \in Tables : \A p, q, r \in table :
    /\ ~TextBefore(p.value, p.value)
    /\ p.value = q.value \/ TextBefore(p.value, q.value) \/ TextBefore(q.value, p.value)
    /\ TextBefore(p.value, q.value) /\ TextBefore(q.value, r.value) => TextBefore(p.value, r.value)

VARIABLES
  rows, overall, family, phase,
  subset     \* numerator_subset of the metric of this run

vars == <<rows, overall, family, phase, subset>>

Sums(table) ==
  [cn |-> FieldSum("cn", table), cd |-> FieldSum("cd", table),
   bn |-> FieldSum("bn", table), bd |-> FieldSum("bd", table)]

Init == /\ rows = {} /\ overall = None /\ family = None /\ phase = "idle"
        /\ subset \in BOOLEAN

\* The overall counts come with the rows, from the same query or from one of a
\* table that changed meanwhile.
Answer(table, off) ==
  /\ phase = "idle"
  /\ rows' = table /\ overall' = [Sums(table) EXCEPT !.cn = @ + off]
  /\ family' = None /\ phase' = "answered"
  /\ UNCHANGED subset

Record ==
  /\ phase = "answered"
  /\ family' = Family(rows, overall, Direction, subset, Broad)
  /\ phase' = "recorded"
  /\ UNCHANGED <<rows, overall, subset>>

\* Every operation begins by loading the state; a refusal is for ever.
Load ==
  /\ phase \in {"recorded", "refused"}
  /\ IF FamilyLoads(family, Broad)
     THEN rows' = {} /\ overall' = None /\ family' = None /\ phase' = "idle"
     ELSE phase' = "refused" /\ UNCHANGED <<rows, overall, family>>
  /\ UNCHANGED subset

Next == (\E table \in Tables, off \in Offsets : Answer(table, off)) \/ Record \/ Load

Spec == Init /\ [][Next]_vars
-----------------------------------------------------------------------------
(* Properties.                                                             *)

Gated == /\ phase = "recorded" /\ overall.cd > 0 /\ overall.bd > 0
         /\ Countable(rows, subset) /\ Rehooks(rows, overall)

\* What the formula cannot see: numerators of buckets without a denominator.
Unseen ==
  Minus(Ratio(FieldSum("cn", {r \in rows : r.cd = 0}), overall.cd),
        Ratio(FieldSum("bn", {r \in rows : r.bd = 0}), overall.bd))

\* Rows that pass the count gates are refused as contribution_not_closed in one
\* case only: the metric allows numerators without a denominator, and what they
\* weigh on the two days differs.  In particular entrant, exit and empty buckets
\* never open a gap, and a metric of subsets is never refused here.
RefusedOnlyForUnseen ==
  Gated => /\ family = Failed <=> Below(Tolerance, AbsRatio(Unseen))
           /\ subset => family # Failed

\* The evidence as the post-primary steps see it, this family being the games.
Evidence == [chain |-> "download", direction |-> Direction, trigger |-> FALSE,
             root |-> RootRates(overall), families |-> [dim \in {"game_id"} |-> family]]

\* The counterfactual never fails on evidence the validator accepted: a candidate
\* is part of its family's adverse impact and of its root's counts, so the share
\* is defined and at most one, and nothing negative remains.
CounterfactualComputes ==
  phase = "recorded" /\ family # Failed /\ family.cands # <<>> =>
    /\ AtMost(family.cands[1].impact, family.adverse)
    /\ Counterfactual(Evidence) # Failed

\* The loader accepts every family that record wrote into the state.
AcceptedLoads == phase # "refused"

\* It does where the numerators are subsets of their denominators.
SubsetLoads == subset => AcceptedLoads
=============================================================================
