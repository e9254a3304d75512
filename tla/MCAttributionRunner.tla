------------------------- MODULE MCAttributionRunner -------------------------
(* Constants of the TLC runs of AttributionRunner. *)
EXTENDS AttributionRunner, TLC

CONSTANTS v1, v2, base, fix, more, q1, q2, q3, q4, q5, q6, r1, r2, good, bad

\* install_sandbox in small: a family, the automatic step, a family.
MCQuery == [k \in 1..K |-> base]

\* Stale and unsolicited events, and the current ones, straight from a caller.
MCExternal == {e \in QueryEvents : e.body \in {r1, "semantic_analysis"}}
              \cup RepairEvents

\* No property tells one worker from another, nor one repaired text, where no
\* registered query is among them.
WorkerSymmetry == Permutations(Workers)
RepairSymmetry == WorkerSymmetry \cup Permutations(Rewrites)
=============================================================================
