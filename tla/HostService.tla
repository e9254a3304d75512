----------------------------- MODULE HostService -----------------------------
(***************************************************************************)
(* The threads of one task: host_service/runtime.py runs every operation   *)
(* of RegisteredAlertCoordinator in a thread of its own, under the task    *)
(* lock.  A cancelled tool call gives up the lock and its DView session    *)
(* while the thread runs on with the copy of the task state it loaded, and *)
(* the next call begins beside it.  What they share is files: the task     *)
(* state, the runs with assembled-analysis.json, and the two sinks, whose  *)
(* writers look whether the file exists before they replace it.            *)
(*                                                                         *)
(* A run is reduced to its status: TaskCoordinator has the task with one   *)
(* thread and AttributionRunner the run.  An analysis stands for its hash. *)
(***************************************************************************)
EXTENDS RouteGrouping

CONSTANTS
  Workers,   \* threads that may be alive at once
  Alerts,    \* DQC payloads
  Patches,   \* writer patches
  Cases,     \* see Cancels and Rewrites
  MaxFaults  \* deaths and cancellations of one behavior

Analyses == [patch : Patches, rules : Seq(Nat)]

ASSUME CallerAssumption == Patches # {} /\ MaxFaults \in Nat
ASSUME PayloadAssumption == \A a \in Alerts : a.rules \in Seq(ToSet(a.rules))
ASSUME NoneAssumption == None \notin Analyses \cup [analysis : Analyses, receipt : Analyses]

VARIABLES
  case,      \* of Cases: fixed
  alert,     \* the payload: fixed
  groups,    \* the investigations run_task makes of its rules
  task,      \* tasks/<task>/state.json
  run,       \* runs/<run>/state.json, by investigation
  assembled, \* runs/<run>/final/assembled-analysis.json
  runSink,   \* validated-result.json, by investigation
  taskSink,  \* validated-task-result.json
  delivered, \* the task artifacts handed over to the pipeline
  op,        \* what each thread is doing: volatile
  faults     \* deaths and cancellations so far

frozen == <<case, alert, groups>>
disk == <<task, run, assembled, runSink, taskSink>>
vars == <<frozen, disk, delivered, op, faults>>

\* A caller whose calls are cancelled, and one whose writer changes its mind.
Cancels == case \in {"cancels", "both"}
Rewrites == case \in {"rewrites", "both"}
-----------------------------------------------------------------------------
FreshInvestigation == [status |-> "pending", patch |-> None, result |-> None, receipt |-> None]

\* _initialize_task, its two writes done.
InitialTask(g) == [status |-> "executing", index |-> 1, inv |-> [i \in DOMAIN g |-> FreshInvestigation]]

NoOp == [pc |-> "idle", mem |-> None, analysis |-> None, receipt |-> None,
         reply |-> None, abandoned |-> FALSE]

Init ==
  /\ case \in Cases
  /\ alert \in Alerts
  /\ groups = Grouping(alert) /\ CoversEachRule(groups, Len(alert.rules))
  /\ task = InitialTask(groups)
  /\ run = [i \in DOMAIN groups |-> [status |-> "active", final |-> None]]
  /\ assembled = [i \in DOMAIN groups |-> None]
  /\ runSink = [i \in DOMAIN groups |-> None]
  /\ taskSink = None /\ delivered = {}
  /\ op = [w \in Workers |-> NoOp]
  /\ faults = 0

At(w, pc) == op[w].pc = pc
Becomes(w, o) == op' = [op EXCEPT ![w] = o]
Goto(w, pc) == Becomes(w, [op[w] EXCEPT !.pc = pc])
Receives(w, pc, receipt) == Becomes(w, [op[w] EXCEPT !.pc = pc, !.receipt = receipt])
Changes(w, pc, mem) == Becomes(w, [op[w] EXCEPT !.pc = pc, !.mem = mem])
End(w) == Becomes(w, NoOp)
Kept == UNCHANGED <<frozen, delivered, faults>>

\* Mutant: every call has a lock of its own.
LockPerCall(w) == op[w] = NoOp

\* No call but a cancelled one is under way.
LockFree(w) == op[w] = NoOp /\ \A v \in Workers : op[v] = NoOp \/ op[v].abandoned

\* The operation begins by loading the task state; every later step of the thread
\* works on its copy of it.
Begin(w, pc, mem, analysis) ==
  Becomes(w, [NoOp EXCEPT !.pc = pc, !.mem = mem, !.analysis = analysis,
                          !.abandoned = op[w].abandoned])

Mem(w) == op[w].mem
Current(w) == Mem(w).index
-----------------------------------------------------------------------------
(* run_task, and finalize of what is completed with the same patch: both go *)
(* on from the state they load.                                            *)

RunTask(w) ==
  /\ LockFree(w)
  /\ Begin(w, "advance", task, None)
  /\ UNCHANGED disk /\ Kept

(* finalize of the current investigation; what it refuses leaves no trace. *)

Analysis(i, p) == [patch |-> p, rules |-> groups[i].rules]
FullQueue(i) == groups[i].status = "pending"

\* Mutant: the index passes over the next investigation.
CompletedTwo(t, i, p, artifact) ==
  [t EXCEPT !.inv[i] = [status |-> "completed", patch |-> p, result |-> artifact.analysis,
                        receipt |-> artifact.receipt],
            !.index = i + 2]

Completed(t, i, p, artifact) ==
  [t EXCEPT !.inv[i] = [status |-> "completed", patch |-> p, result |-> artifact.analysis,
                        receipt |-> artifact.receipt],
            !.index = i + 1]

Finalize(w, p) ==
  LET i == task.index
  IN /\ LockFree(w)
     /\ i \in DOMAIN groups /\ task.inv[i].status = "awaiting_writer"
     /\ IF FullQueue(i)
        THEN Begin(w, "assemble", task, Analysis(i, p))
        ELSE LET blocked == [analysis |-> Analysis(i, p), receipt |-> None]
             IN Begin(w, "write", Completed(task, i, p, blocked), None)
     /\ UNCHANGED disk /\ Kept

\* Mutant: a run that is finalized takes no patch at all, not even its own.
SamePatchNever(w) == FALSE

\* The candidate is what the finalized run holds, file and state.
SameAnalysis(w) ==
  /\ op[w].analysis = assembled[Current(w)]
  /\ run[Current(w)].final = assembled[Current(w)]

\* xuanji_finalize of a finalized run compares; of another one it assembles, also
\* when a second thread finalizes the run in between.
Compare(w) ==
  /\ At(w, "assemble") /\ run[Current(w)].status = "finalized"
  /\ IF SameAnalysis(w)
     THEN Receives(w, "sink", assembled[Current(w)])
     ELSE End(w)
  /\ UNCHANGED disk /\ Kept

NotFinalized(w) ==
  /\ At(w, "assemble") /\ run[Current(w)].status # "finalized"
  /\ Goto(w, "replace") /\ UNCHANGED disk /\ Kept

\* Mutant: the file of an earlier call is kept.
AssembleOnce(w) ==
  /\ At(w, "replace")
  /\ assembled' = [assembled EXCEPT ![Current(w)] = Or(@, op[w].analysis)]
  /\ Goto(w, "validate")
  /\ UNCHANGED <<task, run, runSink, taskSink>> /\ Kept

Assemble(w) ==
  /\ At(w, "replace")
  /\ assembled' = [assembled EXCEPT ![Current(w)] = op[w].analysis]
  /\ Goto(w, "validate")
  /\ UNCHANGED <<task, run, runSink, taskSink>> /\ Kept

\* validate_final reads the run and the file again: the receipt is of the analysis
\* in the file, whoever put it there.
Validate(w) ==
  /\ At(w, "validate")
  /\ LET r == run[Current(w)]
         read == assembled[Current(w)]
     IN IF r.status = "queue_complete"
        THEN Receives(w, "finalize", read)
        ELSE IF r.final = read THEN Receives(w, "sink", read)
        ELSE End(w)
  /\ UNCHANGED disk /\ Kept

FinalizeRun(w) ==
  /\ At(w, "finalize")
  /\ run' = [run EXCEPT ![Current(w)] = [status |-> "finalized", final |-> op[w].receipt]]
  /\ Goto(w, "sink")
  /\ UNCHANGED <<task, assembled, runSink, taskSink>> /\ Kept
-----------------------------------------------------------------------------
(* The sinks: a file that exists must have the content, else it is written. *)

RunArtifact(w) == [analysis |-> op[w].analysis, receipt |-> op[w].receipt]

LookRunSink(w) ==
  /\ At(w, "sink")
  /\ IF runSink[Current(w)] = None THEN Goto(w, "store")
     ELSE IF runSink[Current(w)] = RunArtifact(w) THEN Goto(w, "load") ELSE End(w)
  /\ UNCHANGED disk /\ Kept

StoreRunSink(w) ==
  /\ At(w, "store")
  /\ runSink' = [runSink EXCEPT ![Current(w)] = RunArtifact(w)]
  /\ Goto(w, "load")
  /\ UNCHANGED <<task, run, assembled, taskSink>> /\ Kept

\* The coordinator takes the result from the sink.
LoadResult(w) ==
  /\ At(w, "load")
  /\ Begin(w, "write", Completed(Mem(w), Current(w), op[w].analysis.patch, runSink[Current(w)]), None)
  /\ UNCHANGED disk /\ Kept

\* _write_state replaces the task state by the copy of the thread.
WriteTask(w) ==
  /\ At(w, "write")
  /\ task' = Mem(w)
  /\ Goto(w, IF Mem(w).status = "completed" THEN "respond" ELSE "advance")
  /\ UNCHANGED <<run, assembled, runSink, taskSink>> /\ Kept
-----------------------------------------------------------------------------
(* _advance.                                                               *)

AtCurrent(w, status) ==
  /\ At(w, "advance") /\ Mem(w).status = "executing" /\ Current(w) \in DOMAIN groups
  /\ Mem(w).inv[Current(w)].status = status

ReplyPending(w) ==
  /\ AtCurrent(w, "awaiting_writer")
  /\ End(w) /\ UNCHANGED disk /\ Kept

Awaiting(t, i) == [t EXCEPT !.inv[i].status = "awaiting_writer"]

\* The writer is asked at once, or after the queue of the run: only a run whose
\* queue is not complete sends queries.
AwaitWriter(w) ==
  LET i == Current(w)
      queries == FullQueue(i) /\ run[i].status = "active"
  IN /\ AtCurrent(w, "pending")
     /\ IF queries THEN ~op[w].abandoned ELSE TRUE
     /\ run' = IF queries THEN [run EXCEPT ![i].status = "queue_complete"] ELSE run
     /\ Changes(w, "write", Awaiting(Mem(w), i))
     /\ UNCHANGED <<task, assembled, runSink, taskSink>> /\ Kept

\* The session of a cancelled call is closed: its query raises.
QueryRaises(w) ==
  /\ AtCurrent(w, "pending") /\ op[w].abandoned
  /\ FullQueue(Current(w)) /\ run[Current(w)].status = "active"
  /\ End(w) /\ UNCHANGED disk /\ Kept

\* assemble_task: all results, in order, with their receipts; every rule once.
TaskArtifact(t) ==
  [results |-> [i \in DOMAIN t.inv |-> t.inv[i].result],
   receipts |-> [i \in DOMAIN t.inv |-> t.inv[i].receipt]]

Assembles(t) ==
  /\ \A i \in DOMAIN groups : t.inv[i].status = "completed"
  /\ CoversEachRule(TaskArtifact(t).results, Len(alert.rules))

Sealed(t) == [t EXCEPT !.status = "completed"]

LookTaskSink(w) ==
  /\ At(w, "advance") /\ Mem(w).status = "executing" /\ Current(w) \notin DOMAIN groups
  /\ IF ~Assembles(Mem(w)) THEN End(w)
     ELSE IF taskSink = None THEN Goto(w, "store_task")
     ELSE IF taskSink = TaskArtifact(Mem(w)) THEN Changes(w, "write", Sealed(Mem(w))) ELSE End(w)
  /\ UNCHANGED disk /\ Kept

StoreTaskSink(w) ==
  /\ At(w, "store_task")
  /\ taskSink' = TaskArtifact(Mem(w))
  /\ Changes(w, "write", Sealed(Mem(w)))
  /\ UNCHANGED <<task, run, assembled, runSink>> /\ Kept

ReplyComplete(w) ==
  /\ At(w, "advance") /\ Mem(w).status = "completed"
  /\ Goto(w, "respond")
  /\ UNCHANGED disk /\ Kept

\* _task_complete_response loads the sink; no one takes a cancelled call's reply.
Respond(w) ==
  /\ At(w, "respond")
  /\ IF taskSink = None \/ op[w].abandoned THEN End(w)
     ELSE Becomes(w, [op[w] EXCEPT !.pc = "handoff", !.reply = taskSink])
  /\ UNCHANGED disk /\ Kept

\* _attach_pipeline_handoff loads it again, in the event loop, and compares.
Handoff(w) ==
  /\ At(w, "handoff")
  /\ delivered' = IF taskSink = op[w].reply THEN delivered \cup {taskSink} ELSE delivered
  /\ End(w)
  /\ UNCHANGED <<frozen, disk, faults>>
-----------------------------------------------------------------------------
Faulty == faults < MaxFaults /\ faults' = faults + 1 /\ UNCHANGED <<frozen, disk, delivered>>

Fail(w) == op[w] # NoOp /\ Faulty /\ End(w)

\* The handoff is no work of the thread: a call cancelled there is over.
Cancel(w) ==
  /\ Cancels /\ op[w] # NoOp /\ ~op[w].abandoned /\ ~At(w, "handoff")
  /\ Faulty /\ Becomes(w, [op[w] EXCEPT !.abandoned = TRUE])

Step(w) ==
  \/ Compare(w) \/ NotFinalized(w) \/ Assemble(w) \/ Validate(w) \/ FinalizeRun(w)
  \/ LookRunSink(w) \/ StoreRunSink(w) \/ LoadResult(w) \/ WriteTask(w)
  \/ ReplyPending(w) \/ AwaitWriter(w) \/ QueryRaises(w)
  \/ LookTaskSink(w) \/ StoreTaskSink(w) \/ ReplyComplete(w) \/ Respond(w) \/ Handoff(w)

\* What the writer of this behavior may send.
OnlyPatch == CHOOSE p \in Patches : TRUE
Written == IF Rewrites THEN Patches ELSE {OnlyPatch}

Next == \E w \in Workers :
          RunTask(w) \/ (\E p \in Written : Finalize(w, p)) \/ Step(w) \/ Fail(w) \/ Cancel(w)

Spec == Init /\ [][Next]_vars
-----------------------------------------------------------------------------
(* Properties.                                                             *)

Count == Len(groups)
Investigations ==
  [status : {"pending", "awaiting_writer", "completed"}, patch : Patches \cup {None},
   result : Analyses \cup {None}, receipt : Analyses \cup {None}]
Tasks == [status : {"executing", "completed"}, index : 1..(Count + 1), inv : [1..Count -> Investigations]]
Runs == [status : {"active", "queue_complete", "finalized"}, final : Analyses \cup {None}]
RunArtifacts == [analysis : Analyses, receipt : Analyses]
TaskArtifacts == [results : [1..Count -> Analyses], receipts : [1..Count -> Analyses \cup {None}]]
PCs == {"idle", "advance", "assemble", "replace", "validate", "finalize", "sink", "store", "load", "write",
        "store_task", "respond", "handoff"}
Operations ==
  [pc : PCs, mem : Tasks \cup {None}, analysis : Analyses \cup {None},
   receipt : Analyses \cup {None}, reply : TaskArtifacts \cup {None}, abandoned : BOOLEAN]

\* Every field of the files and of the threads has its type.
TypeOK ==
  /\ case \in Cases /\ alert \in Alerts /\ faults \in 0..MaxFaults
  /\ task \in Tasks /\ run \in [1..Count -> Runs]
  /\ assembled \in [1..Count -> Analyses \cup {None}]
  /\ runSink \in [1..Count -> RunArtifacts \cup {None}]
  /\ taskSink \in TaskArtifacts \cup {None} /\ delivered \subseteq TaskArtifacts
  /\ op \in [Workers -> Operations]

\* No result is ever replaced: not the validated result of a run, not that of the
\* task, and the pipeline is handed one artifact, however often it is asked for.
SinksSettled ==
  [][/\ \A i \in DOMAIN groups : runSink[i] # None => runSink'[i] = runSink[i]
     /\ taskSink # None => taskSink' = taskSink
     /\ Cardinality(delivered') <= 1]_vars

\* A stored result has the receipt of its own analysis, and that receipt is the one
\* in the run: the seal of the task covers what the validator read.
ReceiptsMatch ==
  /\ \A i \in DOMAIN groups : runSink[i] # None =>
       /\ runSink[i].receipt = runSink[i].analysis
       /\ run[i].status = "finalized" /\ run[i].final = runSink[i].receipt
  /\ taskSink # None => \A i \in DOMAIN groups :
       FullQueue(i) => /\ taskSink.results[i] = runSink[i].analysis
                       /\ taskSink.receipts[i] = runSink[i].receipt
  /\ delivered \subseteq {taskSink}

\* The sealed result answers every alert rule in one place, rules of one scope and
\* no others together, in the order of their first rules; and no analysis is in it
\* without a validator's receipt but those of rules that define no investigation.
RulesAnswered ==
  taskSink # None => /\ Answers(taskSink.results, alert)
                     /\ \A k \in DOMAIN groups : taskSink.receipts[k] = None <=> ~FullQueue(k)
-----------------------------------------------------------------------------
(* What makes them inductive.  The first half holds of every caller.        *)

HasResults(t) ==
  \A i \in DOMAIN groups : t.inv[i].status = "completed" =>
    /\ t.inv[i].result \in Analyses /\ t.inv[i].result.rules = groups[i].rules
    /\ t.inv[i].receipt = None <=> ~FullQueue(i)

Concludes(w) == op[w].pc \in {"assemble", "replace", "validate", "finalize", "sink", "store", "load"}
Validated(w) == op[w].pc \in {"finalize", "sink", "store", "load"}

\* What a thread has in hand, or has seen on disk.
Knows(w) ==
  /\ op[w].pc # "idle" => Mem(w) \in Tasks /\ HasResults(Mem(w))
  /\ Concludes(w) => /\ Current(w) \in DOMAIN groups /\ FullQueue(Current(w))
                     /\ \E p \in Patches : op[w].analysis = Analysis(Current(w), p)
  /\ At(w, "validate") => assembled[Current(w)] \in Analyses
  /\ Validated(w) => op[w].receipt \in Analyses
  /\ At(w, "load") => runSink[Current(w)] \in RunArtifacts
  /\ At(w, "store_task") => \A i \in DOMAIN groups : Mem(w).inv[i].status = "completed"
  /\ At(w, "handoff") => op[w].reply \in TaskArtifacts

SinksAnswer ==
  /\ \A i \in DOMAIN groups : runSink[i] # None => runSink[i].analysis.rules = groups[i].rules
  /\ taskSink # None => \A i \in DOMAIN groups :
       /\ taskSink.results[i].rules = groups[i].rules
       /\ taskSink.receipts[i] = None <=> ~FullQueue(i)

Typed ==
  /\ TypeOK /\ groups = Grouping(alert)
  /\ HasResults(task) /\ SinksAnswer /\ \A w \in Workers : Knows(w)

\* The second one needs a caller that does not do both.  Threads that run side by
\* side write the same, for there is only one answer; where there may be two,
\* there is one thread.
Alone ==
  ~Cancels => /\ \A w \in Workers : ~op[w].abandoned
              /\ \A v, w \in Workers : v # w => op[v] = NoOp \/ op[w] = NoOp

Uniform(t) ==
  \A i \in DOMAIN groups : t.inv[i].status = "completed" /\ ~FullQueue(i) =>
    t.inv[i].result = Analysis(i, OnlyPatch)

SameAnswer(w) ==
  ~Rewrites => /\ op[w].pc # "idle" => Uniform(Mem(w))
               /\ Concludes(w) => op[w].analysis = Analysis(Current(w), OnlyPatch)

FromSinks(t) ==
  \A i \in DOMAIN groups : t.inv[i].status = "completed" /\ FullQueue(i) =>
    /\ runSink[i] # None
    /\ t.inv[i].result = runSink[i].analysis /\ t.inv[i].receipt = runSink[i].receipt

FilesAgree ==
  /\ ReceiptsMatch
  /\ \A i \in DOMAIN groups : run[i].status # "finalized" => run[i].final = None
  /\ taskSink # None => \A i \in DOMAIN groups : FullQueue(i) => runSink[i] # None
  /\ delivered # {} => taskSink # None

\* What the disk holds agrees with what the thread is about to make of it.
InStep(w) ==
  LET c == Current(w)
      a == op[w].analysis
  IN /\ op[w].pc # "idle" => FromSinks(Mem(w))
     /\ At(w, "validate") => assembled[c] = a
     /\ Validated(w) => op[w].receipt = a
     /\ op[w].pc \in {"replace", "validate", "finalize"} =>
          (run[c].status = "finalized" => run[c].final = a)
     /\ op[w].pc \in {"sink", "store", "load"} => run[c].status = "finalized" /\ run[c].final = a
     /\ At(w, "store") => runSink[c] = None \/ runSink[c] = RunArtifact(w)
     /\ At(w, "load") => runSink[c] = RunArtifact(w)
     /\ At(w, "store_task") => taskSink = None \/ taskSink = TaskArtifact(Mem(w))
     /\ At(w, "handoff") => op[w].reply = taskSink /\ taskSink # None

Settled ==
  /\ Alone /\ (~Rewrites => Uniform(task)) /\ FilesAgree /\ FromSinks(task)
  /\ \A w \in Workers : SameAnswer(w) /\ InStep(w)
-----------------------------------------------------------------------------
(* Liveness.  A thread runs on until it returns or dies.  The caller keeps  *)
(* asking with run_task and repeats the conclusion it was asked for.        *)

Fairness ==
  /\ \A w \in Workers : WF_vars(Step(w))
  /\ SF_vars(\E w \in Workers : RunTask(w))
  /\ \A p \in Patches : SF_vars(p \in Written /\ \E w \in Workers : Finalize(w, p))

FairSpec == Spec /\ Fairness

\* After the last death and the last cancellation, the task is completed for good
\* and its artifact handed over: also when a thread that outlived its call took the
\* task state back to an earlier investigation.
TaskSettles == <>[](task.status = "completed" /\ delivered # {})
=============================================================================
