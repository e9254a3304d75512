----------------------------- MODULE TaskPromise -----------------------------
(***************************************************************************)
(* What a task promises to its caller, with no file, queue or failure in   *)
(* sight: the investigations of a task get their results one at a time, in *)
(* the order the resolver gave them, a result that was accepted is never   *)
(* replaced, and the task result is sealed once, from exactly those        *)
(* results (references/task-coordinator.md, "Assembly and Sink" and        *)
(* "Resume").  TaskCoordinator implements this specification.              *)
(***************************************************************************)
EXTENDS Naturals

CONSTANTS
  N,        \* how many investigations the task has
  Results,  \* what an investigation may end with
  None      \* no result yet

VARIABLES
  results,  \* results[i]: the accepted result of investigation i, or None
  sealed    \* the authoritative task result, or None

vars == <<results, sealed>>

Investigations == 1..N

Init ==
  /\ results = [i \in Investigations |-> None]
  /\ sealed = None

\* The next investigation in order gets its result, for good.
Accept(i) ==
  /\ sealed = None
  /\ results[i] = None
  /\ \A j \in 1..(i - 1) : results[j] # None
  /\ \E r \in Results : results' = [results EXCEPT ![i] = r]
  /\ UNCHANGED sealed

\* The task result is assembled once every investigation has one.
Seal ==
  /\ sealed = None
  /\ \A i \in Investigations : results[i] # None
  /\ sealed' = results
  /\ UNCHANGED results

Next == Seal \/ \E i \in Investigations : Accept(i)

Spec == Init /\ [][Next]_vars
=============================================================================
