--------------------------- MODULE CalibrationPlan ---------------------------
(***************************************************************************)
(* What the post-primary analysis promises, with no file, query or failure *)
(* in sight: the steps of the plan get their verdicts in the order of the  *)
(* plan, a verdict is never taken back, and the run reports its evidence   *)
(* once, when every step has one, and with exactly those verdicts.         *)
(* PostPrimary implements this specification.                              *)
(***************************************************************************)
EXTENDS Naturals, Sequences

CONSTANTS
  Plan,     \* the steps, a sequence
  Verdicts, \* what a step may end with
  None      \* no verdict, no report yet

VARIABLES verdict, report

vars == <<verdict, report>>

Positions == DOMAIN Plan
Settled == \A k \in Positions : verdict[k] # None

Init == verdict = [k \in Positions |-> None] /\ report = None

\* The next steps, up to m, are settled at once; those that ask no query are
\* settled together with the one before them.
Settle(m) ==
  /\ report = None /\ verdict[m] = None
  /\ verdict' \in [Positions -> Verdicts \cup {None}]
  /\ \A k \in Positions :
       /\ verdict[k] # None \/ k > m => verdict'[k] = verdict[k]
       /\ k <= m => verdict'[k] # None
  /\ UNCHANGED report

Report ==
  /\ report = None /\ Settled
  /\ report' = verdict
  /\ UNCHANGED verdict

Next == Report \/ \E m \in Positions : Settle(m)

Spec == Init /\ [][Next]_vars
=============================================================================
