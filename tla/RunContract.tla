----------------------------- MODULE RunContract -----------------------------
(***************************************************************************)
(* One attribution run as the task coordinator sees it: a fixed number of  *)
(* queries answered in order, each with at most two repairs, and then one  *)
(* final analysis.  It says which steps a run may take, and nothing of the *)
(* files and events behind them (runtime/runner.py, references/            *)
(* host-boundary-integration.md).  AttributionRunner implements it, and    *)
(* every run inside TaskCoordinator is one, which is what entitles the     *)
(* coordinator's module to its small view of a run.                        *)
(***************************************************************************)
EXTENDS Naturals

CONSTANTS
  Steps,    \* queries in the frozen queue
  Roots,    \* canonical root metrics a run may be created with
  Patches,  \* writer patches a run may be finalized with
  None

MaxRepairs == 2

VARIABLE run

NoRun == [state |-> "absent", root |-> None, cursor |-> 0, attempt |-> 0,
          step |-> "pending", repairs |-> {}, final |-> None]

Init == run = NoRun

At(step) == run.state = "active" /\ run.step = step

Create == run.state = "absent" /\ run' = [run EXCEPT !.state = "dir"]

Start(r) ==
  /\ run.state = "dir"
  /\ run' = [run EXCEPT !.state = "active", !.root = r]

Issue == At("pending") /\ run' = [run EXCEPT !.step = "in_progress"]

Answer ==
  /\ At("in_progress")
  /\ run' = [run EXCEPT !.cursor = @ + 1, !.attempt = 0, !.step = "pending",
                        !.state = IF run.cursor + 1 = Steps THEN "queue_complete" ELSE @]

Lock ==
  /\ At("in_progress") /\ run.attempt < MaxRepairs
  /\ run' = [run EXCEPT !.step = "repair_required"]

Repair ==
  /\ At("repair_required")
  /\ run' = [run EXCEPT !.attempt = @ + 1, !.step = "in_progress",
                        !.repairs = @ \cup {<<run.cursor + 1, run.attempt + 1>>}]

Finish(p) ==
  /\ run.state = "queue_complete"
  /\ run' = [run EXCEPT !.state = "finalized", !.final = p]

Next == \/ Create \/ Issue \/ Answer \/ Lock \/ Repair
        \/ \E r \in Roots : Start(r)
        \/ \E p \in Patches : Finish(p)

Spec == Init /\ [][Next]_run
=============================================================================
