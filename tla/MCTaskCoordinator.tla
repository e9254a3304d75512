--------------------------- MODULE MCTaskCoordinator ---------------------------
(* Constants of the TLC runs of TaskCoordinator. *)
EXTENDS TaskCoordinator

CONSTANTS s1, s2, stop, low, thin, deep, p1, p2, w1, w2, w3

\* Every pc an operation can be at, whatever call brought it there.
MCFailPoints ==
  {"run_task", "submit_repair", "finalize"} \X
  {"init_write", "advance", "init_run", "run_write", "execute", "repair",
   "machine_result", "host_finalize", "validate", "run_sink", "task_result", "seal"}

\* The instants after which no retry helps: a directory made but no state in it,
\* and a repair the run has accepted but the task state does not know of.
MCStranding ==
  {<<c, pc>> \in MCFailPoints : pc \in {"init_write", "run_write"}}
  \cup {<<"submit_repair", "execute">>}
MCSafeFailPoints == MCFailPoints \ MCStranding
MCRepairFails == {<<"submit_repair", "execute">>}

\* Three investigations: the first two share a snapshot and read it
\* differently, the third has one of its own; or the last is undefined.
MCScope == <<s1, s1, s2>>
MCScope2 == <<s1, s1>>
MCRoots == {stop, low, thin, deep}
Decide(r) == CASE r = stop -> "existing_anomaly_stop"
               [] r = thin -> "root_precheck_failed"
               [] OTHER -> "full_queue"
MCPreflight == <<[r \in MCRoots |-> Decide(r)],
                 [r \in MCRoots |-> IF r = low THEN "existing_anomaly_stop" ELSE Decide(r)],
                 [r \in MCRoots |-> Decide(r)]>>
MCPreflight2 == <<MCPreflight[1], MCPreflight[2]>>
=============================================================================
