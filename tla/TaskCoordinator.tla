--------------------------- MODULE TaskCoordinator ---------------------------
(***************************************************************************)
(* One task under the three public operations run_task, submit_repair and  *)
(* finalize: runtime/task_coordinator.py together with the calls it makes  *)
(* into host_integration/service.py, runtime/runner.py, the root snapshots *)
(* of runtime/root_preflight.py and the two sinks of host_service/sink.py. *)
(*                                                                         *)
(* The per-task lock of host_service/runtime.py lets one operation in at a *)
(* time, so there is one volatile operation `op`.  Every action below is   *)
(* one durable write (an os.replace or a mkdir) or one return to the       *)
(* caller; Fail ends the operation between any two of them, as an          *)
(* exception, a ToolError, or the death and restart of the process does.   *)
(*                                                                         *)
(* A run is reduced to what the coordinator can tell apart: how many of    *)
(* its queries are terminal, the state of the current one, and the final   *)
(* artifacts.  AttributionRunner has the run itself.                       *)
(***************************************************************************)
EXTENDS Naturals

CONSTANTS
  N,            \* investigations RouteResolver makes of the payload
  Undefined,    \* those whose route resolution is insufficient_definition
  Scopes,       \* root snapshot scopes: object table, game type, alert date
  Scope,        \* Scope[i]: the scope of investigation i
  Roots,        \* complete eight-day root results DView may give for a scope
  Preflight,    \* Preflight[i][r]: what RootPreflight decides for i from r
  Payloads,     \* DQC payloads (by hash) a caller may send under this task id
  Patches,      \* writer patches (by hash) a caller may send
  Unsound,      \* patches that assemble but fail the final evidence validator
  Steps,        \* queries in a run's frozen queue
  FailPoints,   \* <<call, pc>> pairs at which an operation may die
  None          \* absence of a value

MaxRepairs == 2

Investigations == 1..N
Modes == {"definition_failed", "root_precheck_failed",
          "existing_anomaly_stop", "full_queue"}
Packets == (1..Steps) \X (1..MaxRepairs)    \* a repair: <<step, repair_attempt>>
Results == [mode : Modes, patch : Patches, receipt : Patches \cup {None}]

ASSUME ConstantsAssumption ==
  /\ N \in Nat \ {0} /\ Steps \in Nat \ {0}
  /\ Undefined \subseteq Investigations
  /\ Scope \in [Investigations -> Scopes]
  /\ Preflight \in [Investigations -> [Roots -> Modes \ {"definition_failed"}]]
  /\ Unsound \subseteq Patches
  /\ None \notin Roots \cup Payloads \cup Patches \cup Modes \cup Results \cup Packets
  /\ None \notin [Investigations -> Results]

VARIABLES
  \* <tasks_root>/<task>/state.json, replaced as a whole by _write_state
  taskState,  \* "absent", "dir" (mkdir done, no state.json), "executing", "completed"
  payload,    \* payload_sha256
  index,      \* current_investigation_index, from 1
  inv,        \* the investigations: status, machine_mode, repair packet, result,
              \* writer_patch_sha256
  snapshot,   \* root-snapshots/<scope>.json, by scope
  run,        \* <runs_root>/<run_id>: the run of investigation i
  assembled,  \* final/assembled-analysis.json of run i, by the patch it holds
  runSink,    \* validated-result.json of run i
  taskSink,   \* validated-task-result.json
  op,         \* the operation holding the task lock: volatile
  reply       \* what the last operation returned to the caller

taskVars == <<taskState, payload, index, inv>>
runVars  == <<run, assembled>>
sinkVars == <<runSink, taskSink>>
vars == <<taskVars, snapshot, runVars, sinkVars, op, reply>>
-----------------------------------------------------------------------------
(* The operation in progress and what it returns.                          *)

NoOp == [call |-> "none", pc |-> "idle", payload |-> None, patch |-> None,
         packet |-> None, root |-> None]

Idle == op = NoOp

At(pc) == op.pc = pc

Start(call, pc, p, w, k) ==
  op' = [call |-> call, pc |-> pc, payload |-> p, patch |-> w, packet |-> k,
         root |-> None]

Goto(pc) == op' = [op EXCEPT !.pc = pc] /\ UNCHANGED reply

Return(r) == op' = NoOp /\ reply' = r

Silent == [action |-> "none", inv |-> 0, packet |-> None]
Error == [action |-> "error", inv |-> 0, packet |-> None]     \* refused, typed
Failed == [action |-> "failed", inv |-> 0, packet |-> None]   \* unexpected, or no answer
TaskComplete == [action |-> "task_complete", inv |-> 0, packet |-> None]
WriteConclusion(i) == [action |-> "write_conclusion", inv |-> i, packet |-> None]
RepairRequired(i, k) == [action |-> "repair_required", inv |-> i, packet |-> k]

Reject == Return(Error) /\ UNCHANGED <<taskVars, snapshot, runVars, sinkVars>>
-----------------------------------------------------------------------------
FreshInvestigation == [status |-> "pending", mode |-> None, packet |-> None,
                       result |-> None, patch |-> None]
NoRun == [state |-> "absent", root |-> None, cursor |-> 0, attempt |-> 0,
          step |-> "pending", repairs |-> {}, final |-> None]

HasState == taskState \in {"executing", "completed"}
HasCurrent == HasState /\ index <= N
Loadable(i) == run[i].state \notin {"absent", "dir"}

Init ==
  /\ taskState = "absent" /\ payload = None /\ index = 1
  /\ inv = [i \in Investigations |-> FreshInvestigation]
  /\ snapshot = [s \in Scopes |-> None]
  /\ run = [i \in Investigations |-> NoRun]
  /\ assembled = [i \in Investigations |-> None]
  /\ runSink = [i \in Investigations |-> None]
  /\ taskSink = None
  /\ op = NoOp /\ reply = Silent
-----------------------------------------------------------------------------
(* run_task: resume the task the state file holds, or create it.           *)

ResumeTask(p) ==
  /\ Idle /\ HasState /\ payload = p
  /\ Start("run_task", "advance", p, None, None)
  /\ UNCHANGED <<taskVars, snapshot, runVars, sinkVars, reply>>

\* _initialize_task creates the directory first and refuses one that exists.
InitializeTask(p) ==
  /\ Idle /\ taskState = "absent"
  /\ taskState' = "dir"
  /\ Start("run_task", "init_write", p, None, None)
  /\ UNCHANGED <<payload, index, inv, snapshot, runVars, sinkVars, reply>>

\* Another payload under this task id, or a directory that holds no state.
RejectTask(p) ==
  /\ Idle
  /\ (HasState /\ payload # p) \/ taskState = "dir"
  /\ Reject

WriteInitialState ==
  /\ At("init_write")
  /\ taskState' = "executing" /\ payload' = op.payload
  /\ Goto("advance")
  /\ UNCHANGED <<index, inv, snapshot, runVars, sinkVars>>

RunTask(p) == ResumeTask(p) \/ InitializeTask(p) \/ RejectTask(p)
-----------------------------------------------------------------------------
(* _advance: reply with what is pending, or take the next investigation.   *)

ReplyPending ==
  /\ At("advance") /\ taskState = "executing" /\ index <= N
  /\ \/ /\ inv[index].status = "awaiting_repair"
        /\ Return(RepairRequired(index, inv[index].packet))
     \/ /\ inv[index].status = "awaiting_writer"
        /\ Return(WriteConclusion(index))
  /\ UNCHANGED <<taskVars, snapshot, runVars, sinkVars>>

\* _task_complete_response answers from the task sink, never from memory.
ReplyComplete ==
  /\ At("advance") /\ taskState = "completed"
  /\ Return(IF taskSink = None THEN Error ELSE TaskComplete)
  /\ UNCHANGED <<taskVars, snapshot, runVars, sinkVars>>

\* _await_machine_writer: no query is run, the writer is asked at once.
AwaitMachineWriter(mode) ==
  /\ inv' = [inv EXCEPT ![index].status = "awaiting_writer", ![index].mode = mode]
  /\ Return(WriteConclusion(index))
  /\ UNCHANGED <<taskState, payload, index, snapshot, runVars, sinkVars>>

AtPending == /\ At("advance") /\ taskState = "executing" /\ index <= N
             /\ inv[index].status = "pending"

DefinitionFails ==
  AtPending /\ index \in Undefined /\ AwaitMachineWriter("definition_failed")

AtPreflight == AtPending /\ index \notin Undefined
RootSnapshot == snapshot[Scope[index]]

\* Mutant: the root is queried again although a snapshot is there.
FreezeSnapshotAgain(r) ==
  /\ AtPreflight
  /\ snapshot' = [snapshot EXCEPT ![Scope[index]] = r]
  /\ UNCHANGED <<taskVars, runVars, sinkVars, op, reply>>

\* Eight queries, one file: a snapshot is complete or not there at all.
FreezeSnapshot(r) ==
  /\ AtPreflight /\ RootSnapshot = None
  /\ snapshot' = [snapshot EXCEPT ![Scope[index]] = r]
  /\ UNCHANGED <<taskVars, runVars, sinkVars, op, reply>>

\* A root query ended in a typed error: RootPreflightError before any file.
RootQueryFails ==
  AtPreflight /\ RootSnapshot = None /\ AwaitMachineWriter("root_precheck_failed")

PreflightStops ==
  /\ AtPreflight /\ RootSnapshot # None
  /\ Preflight[index][RootSnapshot] # "full_queue"
  /\ AwaitMachineWriter(Preflight[index][RootSnapshot])

PreflightContinues ==
  /\ AtPreflight /\ RootSnapshot # None
  /\ Preflight[index][RootSnapshot] = "full_queue"
  /\ op' = [op EXCEPT !.pc = "init_run", !.root = RootSnapshot]
  /\ UNCHANGED <<taskVars, snapshot, runVars, sinkVars, reply>>
-----------------------------------------------------------------------------
(* xuanji_run_investigation: init_run(resume=True), then the query loop.   *)

CreateRun ==
  /\ At("init_run") /\ run[index].state = "absent"
  /\ run' = [run EXCEPT ![index].state = "dir"]
  /\ Goto("run_write")
  /\ UNCHANGED <<taskVars, snapshot, assembled, sinkVars>>

\* The first state.json of a run: everything but its root is as in NoRun.
WriteRun ==
  /\ At("run_write")
  /\ run' = [run EXCEPT ![index].state = "active", ![index].root = op.root]
  /\ Goto("execute")
  /\ UNCHANGED <<taskVars, snapshot, assembled, sinkVars>>

\* A run resumes only under its immutable arguments, the frozen root included.
ResumeRun ==
  /\ At("init_run") /\ Loadable(index) /\ run[index].root = op.root
  /\ Goto("execute")
  /\ UNCHANGED <<taskVars, snapshot, runVars, sinkVars>>

RejectRun ==
  /\ At("init_run")
  /\ run[index].state = "dir" \/ (Loadable(index) /\ run[index].root # op.root)
  /\ Reject

AtStep(s) == At("execute") /\ run[index].state = "active" /\ run[index].step = s

\* next_action, of the query loop or of submit_repair before it looks at the run.
IssueQuery ==
  /\ At("execute") \/ At("repair")
  /\ run[index].state = "active" /\ run[index].step = "pending"
  /\ run' = [run EXCEPT ![index].step = "in_progress"]
  /\ UNCHANGED <<taskVars, snapshot, assembled, sinkVars, op, reply>>

\* Mutant: the attempts of a step are counted on in the next.
RecordTerminalCounting ==
  /\ AtStep("in_progress")
  /\ run' = [run EXCEPT
       ![index].cursor = @ + 1, ![index].step = "pending",
       ![index].state = IF run[index].cursor + 1 = Steps THEN "queue_complete"
                                                         ELSE "active"]
  /\ UNCHANGED <<taskVars, snapshot, assembled, sinkVars, op, reply>>

\* A result, or an error no repair can follow: the cursor moves on.
RecordTerminal ==
  /\ AtStep("in_progress")
  /\ run' = [run EXCEPT
       ![index].cursor = @ + 1, ![index].attempt = 0, ![index].step = "pending",
       ![index].state = IF run[index].cursor + 1 = Steps THEN "queue_complete"
                                                         ELSE "active"]
  /\ UNCHANGED <<taskVars, snapshot, assembled, sinkVars, op, reply>>

\* Mutant: the limit of two repairs is not looked at.
RecordSemanticErrorUnbounded ==
  /\ AtStep("in_progress")
  /\ run' = [run EXCEPT ![index].step = "repair_required"]
  /\ UNCHANGED <<taskVars, snapshot, assembled, sinkVars, op, reply>>

\* A semantic_analysis error with repairs left locks the cursor.
RecordSemanticError ==
  /\ AtStep("in_progress") /\ run[index].attempt < MaxRepairs
  /\ run' = [run EXCEPT ![index].step = "repair_required"]
  /\ UNCHANGED <<taskVars, snapshot, assembled, sinkVars, op, reply>>

CurrentRepair(i) == <<run[i].cursor + 1, run[i].attempt + 1>>

\* Mutant: the pending response of an earlier repair is left in the state.
RecordRepairRequiredStale ==
  /\ AtStep("repair_required")
  /\ inv' = [inv EXCEPT ![index].status = "awaiting_repair",
                        ![index].mode = "full_queue",
                        ![index].packet = IF @ = None THEN CurrentRepair(index) ELSE @]
  /\ Return(RepairRequired(index, CurrentRepair(index)))
  /\ UNCHANGED <<taskState, payload, index, snapshot, runVars, sinkVars>>

\* _record_host_action, action repair_required.
RecordRepairRequired ==
  /\ AtStep("repair_required")
  /\ inv' = [inv EXCEPT ![index].status = "awaiting_repair",
                        ![index].mode = "full_queue",
                        ![index].packet = CurrentRepair(index)]
  /\ Return(RepairRequired(index, CurrentRepair(index)))
  /\ UNCHANGED <<taskState, payload, index, snapshot, runVars, sinkVars>>

\* _record_host_action, action write_conclusion.
RecordWriteConclusion ==
  /\ At("execute") /\ run[index].state = "queue_complete"
  /\ inv' = [inv EXCEPT ![index].status = "awaiting_writer",
                        ![index].mode = "full_queue",
                        ![index].packet = None]
  /\ Return(WriteConclusion(index))
  /\ UNCHANGED <<taskState, payload, index, snapshot, runVars, sinkVars>>
-----------------------------------------------------------------------------
(* submit_repair.  A repair whose SQL the query builder refuses ends the   *)
(* operation with no write: that is Fail at "repair".                      *)

SubmitRepair(i, k) ==
  /\ Idle
  /\ \/ /\ HasCurrent /\ i = index /\ inv[i].status = "awaiting_repair"
        /\ Start("submit_repair", "repair", None, None, k)
        /\ UNCHANGED <<taskVars, snapshot, runVars, sinkVars, reply>>
     \/ /\ ~(HasCurrent /\ i = index /\ inv[i].status = "awaiting_repair")
        /\ Reject

RunAwaitsRepair ==
  run[index].state = "active" /\ run[index].step = "repair_required"

AcceptRepair ==
  /\ At("repair") /\ RunAwaitsRepair
  /\ op.packet \notin run[index].repairs /\ op.packet = CurrentRepair(index)
  /\ run' = [run EXCEPT ![index].attempt = @ + 1, ![index].step = "in_progress",
                        ![index].repairs = @ \cup {op.packet}]
  /\ Goto("execute")
  /\ UNCHANGED <<taskVars, snapshot, assembled, sinkVars>>

\* record answers an event it has processed before with idempotent_replay.
ReplayRepair ==
  /\ At("repair") /\ RunAwaitsRepair /\ op.packet \in run[index].repairs
  /\ Goto("execute")
  /\ UNCHANGED <<taskVars, snapshot, runVars, sinkVars>>

\* Not the current repair, and not, text and all, one the run has processed.  A run
\* whose next query is not out yet has it issued first (IssueQuery).
RejectRepair ==
  /\ At("repair") /\ ~(run[index].state = "active" /\ run[index].step = "pending")
  /\ ~RunAwaitsRepair \/ op.packet # CurrentRepair(index)
  /\ Reject
-----------------------------------------------------------------------------
(* finalize.  A patch the assembler refuses ends the operation with no     *)
(* write: that is Fail at "machine_result" or "host_finalize".             *)

Replays(i, w) == HasState /\ inv[i].status = "completed" /\ inv[i].patch = w
Accepts(i) == HasCurrent /\ i = index /\ inv[i].status = "awaiting_writer"

Finalize(i, w) ==
  /\ Idle
  /\ \/ /\ Replays(i, w)
        /\ Start("finalize", "advance", None, w, None)
        /\ UNCHANGED <<taskVars, snapshot, runVars, sinkVars, reply>>
     \/ /\ Accepts(i)
        /\ Start("finalize", IF inv[i].mode = "full_queue" THEN "host_finalize"
                                                           ELSE "machine_result",
                 None, w, None)
        /\ UNCHANGED <<taskVars, snapshot, runVars, sinkVars, reply>>
     \/ ~Replays(i, w) /\ ~Accepts(i) /\ Reject

\* Mutant: the index is left to the next pass of _advance.
CompleteInvestigationOnly(r) ==
  /\ inv' = [inv EXCEPT ![index].status = "completed", ![index].result = r,
                        ![index].patch = op.patch]
  /\ Goto("advance")
  /\ UNCHANGED <<taskState, payload, index, snapshot, runVars, sinkVars>>

\* The single write that completes an investigation and moves the index.
CompleteInvestigation(r) ==
  /\ inv' = [inv EXCEPT ![index].status = "completed", ![index].result = r,
                        ![index].patch = op.patch]
  /\ index' = index + 1
  /\ Goto("advance")
  /\ UNCHANGED <<taskState, payload, snapshot, runVars, sinkVars>>

MachineResult ==
  /\ At("machine_result")
  /\ CompleteInvestigation([mode |-> inv[index].mode, patch |-> op.patch,
                            receipt |-> None])

\* Mutant: a finalized run is assembled again.
AssembleFinalAgain ==
  /\ At("host_finalize") /\ run[index].state \in {"queue_complete", "finalized"}
  /\ assembled' = [assembled EXCEPT ![index] = op.patch]
  /\ Goto("validate")
  /\ UNCHANGED <<taskVars, snapshot, run, sinkVars>>

AssembleFinal ==
  /\ At("host_finalize") /\ run[index].state = "queue_complete"
  /\ assembled' = [assembled EXCEPT ![index] = op.patch]
  /\ Goto("validate")
  /\ UNCHANGED <<taskVars, snapshot, run, sinkVars>>

\* validate_final hashes the file, whoever wrote it.
ValidateFinal ==
  /\ At("validate") /\ assembled[index] \notin Unsound
  /\ run' = [run EXCEPT ![index].state = "finalized", ![index].final = assembled[index]]
  /\ Goto("run_sink")
  /\ UNCHANGED <<taskVars, snapshot, assembled, sinkVars>>

RefuseFinal == At("validate") /\ assembled[index] \in Unsound /\ Reject

\* Mutants: the stored analysis is checked and the new patch is not; or there is
\* no answer for a finalized run.
SameFinalFile == assembled[index] = run[index].final
SameFinalNever == FALSE

\* A finalized run answers again only for the patch it was finalized with.
SameFinal == assembled[index] = run[index].final /\ run[index].final = op.patch

ReplayFinal ==
  /\ At("host_finalize") /\ run[index].state = "finalized" /\ SameFinal
  /\ Goto("run_sink")
  /\ UNCHANGED <<taskVars, snapshot, runVars, sinkVars>>

RejectFinal ==
  At("host_finalize") /\ run[index].state = "finalized" /\ ~SameFinal /\ Reject

RunArtifact == [mode |-> "full_queue", patch |-> op.patch, receipt |-> run[index].final]

\* FileValidatedResultSink: write once, equal bytes again, conflict refused.
StoreRunResult ==
  /\ At("run_sink")
  /\ IF runSink[index] \in {None, RunArtifact}
     THEN /\ runSink' = [runSink EXCEPT ![index] = RunArtifact]
          /\ Goto("task_result")
          /\ UNCHANGED <<taskVars, snapshot, runVars, taskSink>>
     ELSE Reject

\* The coordinator records what the run sink holds, not what it sent there.
RecordResult == At("task_result") /\ CompleteInvestigation(runSink[index])
-----------------------------------------------------------------------------
(* Assembly and seal, when no investigation is left.                       *)

TaskArtifact == [i \in Investigations |-> inv[i].result]

\* Mutants: the task is sealed one investigation early; the state says completed
\* before the sink has the result.
StoreTaskResultEarly ==
  /\ At("advance") /\ taskState = "executing" /\ index >= N
  /\ taskSink' = TaskArtifact
  /\ Goto("seal")
  /\ UNCHANGED <<taskVars, snapshot, runVars, runSink>>
StoreTaskResultLast ==
  /\ At("advance") /\ taskState = "executing" /\ index = N + 1
  /\ taskState' = "completed"
  /\ Goto("seal")
  /\ UNCHANGED <<payload, index, inv, snapshot, runVars, sinkVars>>

StoreTaskResult ==
  /\ At("advance") /\ taskState = "executing" /\ index = N + 1
  /\ IF taskSink \in {None, TaskArtifact}
     THEN /\ taskSink' = TaskArtifact
          /\ Goto("seal")
          /\ UNCHANGED <<taskVars, snapshot, runVars, runSink>>
     ELSE Reject

WriteCompletedState ==
  /\ At("seal")
  /\ taskState' = "completed"
  /\ Return(TaskComplete)
  /\ UNCHANGED <<payload, index, inv, snapshot, runVars, sinkVars>>
-----------------------------------------------------------------------------
\* An exception or the death of the process: what is on disk stays as it is.
Fail ==
  /\ ~Idle /\ <<op.call, op.pc>> \in FailPoints
  /\ Return(Failed)
  /\ UNCHANGED <<taskVars, snapshot, runVars, sinkVars>>

Step ==
  \/ WriteInitialState \/ ReplyPending \/ ReplyComplete
  \/ DefinitionFails \/ RootQueryFails \/ PreflightStops \/ PreflightContinues
  \/ \E r \in Roots : FreezeSnapshot(r)
  \/ CreateRun \/ WriteRun \/ ResumeRun \/ RejectRun
  \/ IssueQuery \/ RecordTerminal \/ RecordSemanticError
  \/ RecordRepairRequired \/ RecordWriteConclusion
  \/ AcceptRepair \/ ReplayRepair \/ RejectRepair
  \/ MachineResult \/ AssembleFinal \/ ValidateFinal \/ RefuseFinal
  \/ ReplayFinal \/ RejectFinal \/ StoreRunResult \/ RecordResult
  \/ StoreTaskResult \/ WriteCompletedState

Call ==
  \/ \E p \in Payloads : RunTask(p)
  \/ \E i \in Investigations, k \in Packets : SubmitRepair(i, k)
  \/ \E i \in Investigations, w \in Patches : Finalize(i, w)

Next == Call \/ Step \/ Fail

Spec == Init /\ [][Next]_vars
-----------------------------------------------------------------------------
(* Properties.                                                             *)

InvestigationTypes ==
  [status : {"pending", "awaiting_repair", "awaiting_writer", "completed"},
   mode : Modes \cup {None}, packet : Packets \cup {None},
   result : Results \cup {None}, patch : Patches \cup {None}]
RunTypes ==
  [state : {"absent", "dir", "active", "queue_complete", "finalized"},
   root : Roots \cup {None}, cursor : 0..Steps, attempt : 0..MaxRepairs,
   step : {"pending", "in_progress", "repair_required"},
   repairs : SUBSET Packets, final : Patches \cup {None}]
OpTypes ==
  [call : {"none", "run_task", "submit_repair", "finalize"},
   pc : {"idle", "init_write", "advance", "init_run", "run_write", "execute",
         "repair", "machine_result", "host_finalize", "validate", "run_sink",
         "task_result", "seal"},
   payload : Payloads \cup {None}, patch : Patches \cup {None},
   packet : Packets \cup {None}, root : Roots \cup {None}]
ReplyTypes ==
  [action : {"none", "error", "failed", "task_complete", "write_conclusion", "repair_required"},
   inv : 0..N, packet : Packets \cup {None}]

\* Every field of the state files, the sinks and the operation has its type.
TypeOK ==
  /\ taskState \in {"absent", "dir", "executing", "completed"}
  /\ payload \in Payloads \cup {None}
  /\ index \in 1..(N + 1)
  /\ inv \in [Investigations -> InvestigationTypes]
  /\ snapshot \in [Scopes -> Roots \cup {None}]
  /\ run \in [Investigations -> RunTypes]
  /\ assembled \in [Investigations -> Patches \cup {None}]
  /\ runSink \in [Investigations -> Results \cup {None}]
  /\ taskSink \in [Investigations -> Results] \cup {None}
  /\ op \in OpTypes
  /\ reply \in ReplyTypes

\* Investigations execute serially: exactly those before the index are
\* completed, and nothing of those after it exists, neither in the task state
\* nor as a run or a sink artifact.
\* (_advance never meets a completed investigation at the index.)
SerialOrder ==
  \A i \in Investigations :
    /\ (inv[i].status = "completed") <=> (i < index)
    /\ i > index => /\ inv[i] = FreshInvestigation
                    /\ run[i] = NoRun
                    /\ assembled[i] = None /\ runSink[i] = None

\* A run that can be loaded was created from the root its snapshot froze, and
\* that root sent this investigation to the full queue.  Otherwise a resumed
\* init_run would refuse the run for ever ("same canonical root metric").
ResumeIdentity ==
  \A i \in Investigations :
    Loadable(i) => /\ i \notin Undefined
                   /\ snapshot[Scope[i]] # None
                   /\ run[i].root = snapshot[Scope[i]]
                   /\ Preflight[i][run[i].root] = "full_queue"

\* What a completed investigation says is what its run was finalized with and
\* what its sink holds; a patch the validator refuses gets nowhere, and a sink
\* artifact always stands on a finalized run.  The patch hash the task answers
\* replays for is the hash of the patch in the result.
SinkAgreement ==
  \A i \in Investigations :
    /\ run[i].state = "finalized" =>
         assembled[i] = run[i].final /\ run[i].final \in Patches \ Unsound
    /\ runSink[i] # None =>
         /\ run[i].state = "finalized"
         /\ runSink[i] = [mode |-> "full_queue", patch |-> run[i].final,
                          receipt |-> run[i].final]
    /\ inv[i].status = "completed" /\ inv[i].mode = "full_queue" =>
         runSink[i] # None /\ inv[i].result = runSink[i]
    /\ inv[i].status = "completed" /\ inv[i].mode # "full_queue" =>
         runSink[i] = None /\ inv[i].result.mode = inv[i].mode
    /\ inv[i].status = "completed" => inv[i].result.patch = inv[i].patch

\* The task sink holds the result of every investigation and nothing else; a
\* task whose state says completed has it.
TaskSinkFaithful ==
  /\ taskSink # None =>
       /\ index = N + 1
       /\ \A i \in Investigations : taskSink[i] = inv[i].result /\ inv[i].result # None
  /\ taskState = "completed" => taskSink # None

\* The caller is never sent to a writer or to a repair that is not the current
\* one: as long as nothing else ran, the last reply names the investigation the
\* index is at, in the state the reply speaks of.
ReplyCurrent ==
  Idle =>
    /\ reply.action = "write_conclusion" =>
         /\ HasCurrent /\ index = reply.inv
         /\ inv[index].status = "awaiting_writer"
         /\ inv[index].mode = "full_queue" =>
              run[index].state \in {"queue_complete", "finalized"}
    /\ reply.action = "repair_required" =>
         /\ HasCurrent /\ index = reply.inv
         /\ inv[index].status = "awaiting_repair"
         /\ inv[index].packet = reply.packet
    /\ reply.action = "task_complete" => taskState = "completed"

\* What one step must keep of what was reached before it: see Settled.
SettledStays ==
  /\ payload # None => payload' = payload
  /\ \A s \in Scopes : snapshot[s] # None => snapshot'[s] = snapshot[s]
  /\ \A i \in Investigations :
       /\ Loadable(i) => /\ run'[i].root = run[i].root
                         /\ run'[i].cursor >= run[i].cursor
                         /\ run[i].repairs \subseteq run'[i].repairs
       /\ run[i].state = "finalized" =>
            run'[i] = run[i] /\ assembled'[i] = assembled[i]
       /\ runSink[i] # None => runSink'[i] = runSink[i]
  /\ taskSink # None => taskSink' = taskSink

\* What was settled stays: the payload, a snapshot, the root and the processed
\* repairs of a run, a finalized run with its assembled file, both sinks, and
\* how far the queue got.
Settled == [][SettledStays]_vars

\* The whole coordinator, failures included, keeps the promise made to the
\* caller: results accepted once and in order, the task sealed once from them.
Promise == INSTANCE TaskPromise
             WITH results <- [i \in Investigations |-> inv[i].result],
                  sealed <- taskSink
KeepsPromise == Promise!Spec

\* What the coordinator does to the run of an investigation, over all resumes,
\* repairs and failures, is what AttributionRunner lets a run do.
RunOf(i) == INSTANCE RunContract WITH run <- run[i], Patches <- Patches \ Unsound
RunsKeepContract ==
  /\ \A i \in Investigations : RunOf(i)!Init
  /\ [][\A i \in Investigations : RunOf(i)!Next \/ UNCHANGED run[i]]_vars
-----------------------------------------------------------------------------
(* The inductive invariant of the proofs (TaskCoordinatorProofs): the       *)
(* invariants above, what an operation knows at each pc, and what the status *)
(* of an investigation says of its run.                                      *)

\* pcs at which the operation works on the current investigation, and those of
\* finalize on a full-queue run.
Finalizing == {"host_finalize", "validate", "run_sink", "task_result"}
Working == {"init_run", "run_write", "execute", "repair", "machine_result"} \cup Finalizing

OpKnows ==
  /\ At("init_write") => taskState = "dir" /\ op.payload \in Payloads
  /\ At("advance") => HasState
  /\ op.pc \in Working => taskState = "executing" /\ index <= N
  /\ op.pc \in {"init_run", "run_write"} =>
       /\ inv[index].status = "pending" /\ index \notin Undefined
       /\ op.root # None /\ op.root = RootSnapshot
       /\ Preflight[index][op.root] = "full_queue"
  /\ At("run_write") => run[index].state = "dir"
  /\ At("execute") => /\ Loadable(index)
                      /\ inv[index].status \in {"pending", "awaiting_repair"}
  /\ At("repair") => inv[index].status = "awaiting_repair" /\ op.packet \in Packets
  /\ At("machine_result") => /\ inv[index].status = "awaiting_writer"
                             /\ inv[index].mode # "full_queue" /\ op.patch \in Patches
  /\ op.pc \in Finalizing => /\ inv[index].status = "awaiting_writer"
                             /\ inv[index].mode = "full_queue" /\ op.patch \in Patches
  /\ At("validate") => run[index].state = "queue_complete" /\ assembled[index] = op.patch
  /\ op.pc \in {"run_sink", "task_result"} =>
       run[index].state = "finalized" /\ run[index].final = op.patch
  /\ At("task_result") => runSink[index] # None
  /\ At("seal") => taskState = "executing" /\ taskSink # None

Untouched ==
  /\ index = 1 /\ payload = None
  /\ inv[1] = FreshInvestigation /\ run[1] = NoRun
  /\ assembled[1] = None /\ runSink[1] = None

StatusKnows ==
  /\ ~HasState => Untouched
  /\ \A i \in Investigations :
       /\ inv[i].status = "awaiting_repair" => Loadable(i) /\ inv[i].packet # None
       /\ inv[i].status = "awaiting_writer" =>
            /\ inv[i].mode # None
            /\ inv[i].mode = "full_queue" =>
                 run[i].state \in {"queue_complete", "finalized"}
       /\ inv[i].status = "completed" <=> inv[i].result # None
       /\ run[i].state = "finalized" =>
            inv[i].mode = "full_queue" /\ inv[i].status \in {"awaiting_writer", "completed"}
       /\ run[i].state \notin {"queue_complete", "finalized"} =>
            /\ run[i].cursor < Steps
            /\ run[i].step = "repair_required" => run[i].attempt < MaxRepairs

DiskInv == SerialOrder /\ ResumeIdentity /\ SinkAgreement /\ TaskSinkFaithful /\ StatusKnows

IInv == TypeOK /\ DiskInv /\ OpKnows /\ ReplyCurrent
-----------------------------------------------------------------------------
(* Liveness.  An operation is synchronous code, so it runs on until it     *)
(* returns or fails (WF).  The caller keeps sending run_task with its      *)
(* payload, and relays what a reply asks for: the structured continuation  *)
(* relay of references/task-coordinator.md.  Other calls may come between  *)
(* and take the lock, so each kind of retry needs SF.                      *)

RelayRepair == reply.action = "repair_required" /\ SubmitRepair(reply.inv, reply.packet)
RelayWriter(w) == reply.action = "write_conclusion" /\ Finalize(reply.inv, w)

Fairness ==
  /\ WF_vars(Step)
  /\ \A p \in Payloads : SF_vars(RunTask(p))
  /\ SF_vars(RelayRepair)
  /\ \A w \in Patches : SF_vars(RelayWriter(w))

FairSpec == Spec /\ Fairness

\* If operations fail only finitely often, identical retries complete the task:
\* "leaves the task available for an identical retry".
RetryCompletesTask == (<>[][~Fail]_vars) => <>(taskState = "completed")
=============================================================================
