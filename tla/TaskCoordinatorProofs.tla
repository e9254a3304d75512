------------------------ MODULE TaskCoordinatorProofs ------------------------
(***************************************************************************)
(* Proofs about TaskCoordinator: its inductive invariant IInv, every safety *)
(* invariant the runs check, what is settled for good, and that it          *)
(* implements TaskPromise.  One lemma per action or family of actions shows *)
(* that it preserves IInv; lemmas that several of them share come first.    *)
(***************************************************************************)
EXTENDS TaskCoordinator, TLAPS

\* An empty tasks root satisfies the inductive invariant.
THEOREM InitIInv == Init => IInv
<1> SUFFICES ASSUME Init PROVE IInv
  OBVIOUS
<1> USE ConstantsAssumption DEF Init, Investigations
<1>1. TypeOK
  BY DEF TypeOK, InvestigationTypes, RunTypes, OpTypes, ReplyTypes, FreshInvestigation,
         NoRun, NoOp, Silent, Packets, MaxRepairs
<1>2. SerialOrder
  BY DEF SerialOrder, FreshInvestigation
<1>3. ResumeIdentity
  BY DEF ResumeIdentity, NoRun, Loadable
<1>4. SinkAgreement
  BY DEF SinkAgreement, NoRun, FreshInvestigation
<1>5. TaskSinkFaithful
  BY DEF TaskSinkFaithful
<1>6. StatusKnows
  BY DEF StatusKnows, Untouched, HasState, FreshInvestigation, NoRun, Loadable
<1>7. OpKnows
  BY DEF OpKnows, At, NoOp, Working, Finalizing
<1>8. ReplyCurrent
  BY DEF ReplyCurrent, Silent
<1> QED
  BY <1>1, <1>2, <1>3, <1>4, <1>5, <1>6, <1>7, <1>8 DEF IInv, DiskInv


-----------------------------------------------------------------------------
(* Steps that write no file.                                               *)

\* What is said of the disk alone survives a step that writes nothing.
LEMMA DiskFrame ==
  ASSUME DiskInv, UNCHANGED <<taskVars, snapshot, runVars, sinkVars>>
  PROVE  DiskInv'
BY DEF DiskInv, SerialOrder, ResumeIdentity, SinkAgreement, TaskSinkFaithful, StatusKnows,
       HasState, Untouched, Loadable, taskVars, runVars, sinkVars

\* An operation that ends with an error leaves what it wrote, and nothing else.
LEMMA ErrorStep ==
  ASSUME IInv, NEW r \in {Error, Failed}, Return(r),
         UNCHANGED <<taskVars, snapshot, runVars, sinkVars>>
  PROVE  IInv'
<1> USE DEF Return, NoOp, Error, Failed
<1>1. TypeOK'
  BY ConstantsAssumption
  DEF IInv, TypeOK, OpTypes, ReplyTypes, taskVars, runVars, sinkVars
<1>2. DiskInv'
  BY DiskFrame DEF IInv
<1>3. OpKnows'
  BY DEF OpKnows, At, Working, Finalizing
<1>4. ReplyCurrent'
  BY DEF ReplyCurrent
<1> QED
  BY <1>1, <1>2, <1>3, <1>4 DEF IInv

\* A refused call.
LEMMA RejectStep == ASSUME IInv, Reject PROVE IInv'
BY ErrorStep, Error \in {Error, Failed} DEF Reject

\* A call that starts, or moves to its next pc, writing nothing.
LEMMA MoveStep ==
  ASSUME IInv, op' \in OpTypes, op'.pc # "idle", OpKnows',
         UNCHANGED <<taskVars, snapshot, runVars, sinkVars, reply>>
  PROVE  IInv'
<1>1. TypeOK'
  BY DEF IInv, TypeOK, taskVars, runVars, sinkVars
<1>2. DiskInv'
  BY DiskFrame DEF IInv
<1>3. ReplyCurrent'
  BY DEF ReplyCurrent, Idle, NoOp
<1> QED
  BY <1>1, <1>2, <1>3 DEF IInv

\* A pending reply is read from the task state it speaks of.
LEMMA ReplyPendingStep == ASSUME IInv, ReplyPending PROVE IInv'
<1> USE ConstantsAssumption DEF ReplyPending, Return, NoOp, RepairRequired, WriteConclusion
<1>0. index \in Investigations /\ inv[index] \in InvestigationTypes
  BY DEF IInv, TypeOK, Investigations
<1>1. TypeOK'
  BY <1>0 DEF IInv, TypeOK, OpTypes, ReplyTypes, InvestigationTypes, Investigations,
              taskVars, runVars, sinkVars
<1>2. DiskInv'
  BY DiskFrame DEF IInv
<1>3. OpKnows'
  BY DEF OpKnows, At, Working, Finalizing
<1>4. ReplyCurrent'
  BY <1>0 DEF ReplyCurrent, HasCurrent, HasState, IInv, DiskInv, StatusKnows, taskVars, runVars
<1> QED
  BY <1>1, <1>2, <1>3, <1>4 DEF IInv

\* A completed task answers from its sink.
LEMMA ReplyCompleteStep == ASSUME IInv, ReplyComplete PROVE IInv'
<1> USE DEF ReplyComplete, Return, NoOp, Error, TaskComplete
<1>1. TypeOK'
  BY ConstantsAssumption
  DEF IInv, TypeOK, OpTypes, ReplyTypes, taskVars, runVars, sinkVars
<1>2. DiskInv'
  BY DiskFrame DEF IInv
<1>3. OpKnows'
  BY DEF OpKnows, At, Working, Finalizing
<1>4. ReplyCurrent'
  BY DEF ReplyCurrent, taskVars
<1> QED
  BY <1>1, <1>2, <1>3, <1>4 DEF IInv

\* submit_repair starts only at the repair the task awaits.
LEMMA SubmitRepairStep ==
  ASSUME IInv, NEW i \in Investigations, NEW k \in Packets, SubmitRepair(i, k)
  PROVE  IInv'
<1> USE DEF Start
<1>1. CASE HasCurrent /\ i = index /\ inv[i].status = "awaiting_repair"
  <2>1. taskState = "executing"
    BY <1>1, ConstantsAssumption DEF IInv, TypeOK, DiskInv, TaskSinkFaithful, HasCurrent, HasState
  <2>2. op' \in OpTypes /\ op'.pc # "idle" /\ OpKnows'
    BY <1>1, <2>1
    DEF SubmitRepair, OpTypes, OpKnows, At, Working, Finalizing, HasCurrent, taskVars
  <2> QED
    BY <1>1, <2>2, MoveStep DEF SubmitRepair
<1>2. CASE ~(HasCurrent /\ i = index /\ inv[i].status = "awaiting_repair")
  BY <1>2, RejectStep DEF SubmitRepair
<1> QED
  BY <1>1, <1>2

\* finalize starts only as a replay, or where a writer is awaited.
LEMMA FinalizeStep ==
  ASSUME IInv, NEW i \in Investigations, NEW w \in Patches, Finalize(i, w)
  PROVE  IInv'
<1> USE DEF Start
<1>1. CASE Replays(i, w)
  <2>1. op' \in OpTypes /\ op'.pc # "idle" /\ OpKnows'
    BY <1>1
    DEF Finalize, Accepts, Replays, OpTypes, OpKnows, At, Working, Finalizing, HasState, taskVars
  <2> QED
    BY <2>1, <1>1, MoveStep DEF Finalize, Accepts, Replays
<1>2. CASE Accepts(i)
  <2>1. taskState = "executing"
    BY <1>2, ConstantsAssumption DEF IInv, TypeOK, DiskInv, TaskSinkFaithful, Accepts, HasCurrent, HasState
  <2>2. op' \in OpTypes /\ op'.pc # "idle" /\ OpKnows'
    BY <1>2, <2>1
    DEF Finalize, Replays, Accepts, OpTypes, OpKnows, At, Working, Finalizing,
        HasCurrent, taskVars
  <2> QED
    BY <2>2, <1>2, MoveStep DEF Finalize, Accepts, Replays
<1>3. CASE ~Replays(i, w) /\ ~Accepts(i)
  BY <1>3, RejectStep DEF Finalize
<1> QED
  BY <1>1, <1>2, <1>3

\* Passing a check and going on: preflight, resume and the two replays.
LEMMA PassStep ==
  ASSUME IInv, PreflightContinues \/ ResumeRun \/ ReplayRepair \/ ReplayFinal
  PROVE  IInv'
<1> USE DEF Goto, IInv, TypeOK
<1>1. op' \in OpTypes /\ op'.pc # "idle"
  <2>1. ASSUME PreflightContinues PROVE RootSnapshot \in Roots \cup {None}
    BY <2>1, ConstantsAssumption
    DEF PreflightContinues, AtPreflight, AtPending, RootSnapshot, Investigations
  <2>2. CASE PreflightContinues
    BY <2>1, <2>2 DEF PreflightContinues, OpTypes
  <2> QED
    BY <2>2 DEF ResumeRun, ReplayRepair, ReplayFinal, OpTypes
<1>2. CASE PreflightContinues
  <2>1. OpKnows'
    BY <1>1, <1>2
    DEF OpKnows, PreflightContinues, AtPreflight, AtPending, At, Working, Finalizing, RootSnapshot,
        taskVars, runVars
  <2> QED
    BY <1>1, <1>2, <2>1, MoveStep DEF PreflightContinues
<1>3. CASE ResumeRun
  <2>1. OpKnows'
    BY <1>1, <1>3
    DEF OpKnows, ResumeRun, At, Working, Finalizing, Loadable, taskVars, runVars
  <2> QED
    BY <1>1, <1>3, <2>1, MoveStep DEF ResumeRun
<1>4. CASE ReplayRepair
  <2>1. OpKnows'
    BY <1>1, <1>4
    DEF OpKnows, ReplayRepair, RunAwaitsRepair, At, Working, Finalizing, Loadable,
        taskVars, runVars
  <2> QED
    BY <1>1, <1>4, <2>1, MoveStep DEF ReplayRepair
<1>5. CASE ReplayFinal
  <2>1. OpKnows'
    BY <1>1, <1>5
    DEF OpKnows, ReplayFinal, SameFinal, At, Working, Finalizing, taskVars, runVars
  <2> QED
    BY <1>1, <1>5, <2>1, MoveStep DEF ReplayFinal
<1> QED
  BY <1>2, <1>3, <1>4, <1>5

-----------------------------------------------------------------------------
(* Steps that write the task state.                                        *)

\* The task directory is made.
LEMMA InitializeTaskStep ==
  ASSUME IInv, NEW p \in Payloads, InitializeTask(p) PROVE IInv'
<1> USE DEF InitializeTask, Start, runVars, sinkVars
<1>1. TypeOK'
  BY DEF IInv, TypeOK, OpTypes
<1>2. DiskInv'
  BY DEF IInv, DiskInv, SerialOrder, ResumeIdentity, SinkAgreement, TaskSinkFaithful,
         StatusKnows, HasState, Untouched, Loadable
<1>3. OpKnows'
  BY DEF OpKnows, At, Working, Finalizing
<1>4. ReplyCurrent'
  BY DEF ReplyCurrent, Idle, NoOp
<1> QED
  BY <1>1, <1>2, <1>3, <1>4 DEF IInv

\* The first state.json.
LEMMA WriteInitialStateStep == ASSUME IInv, WriteInitialState PROVE IInv'
<1> USE DEF WriteInitialState, Goto, At, IInv, TypeOK, OpKnows, runVars, sinkVars
<1>1. TypeOK'
  BY DEF OpTypes
<1>2. DiskInv'
  BY DEF DiskInv, SerialOrder, ResumeIdentity, SinkAgreement, TaskSinkFaithful,
         StatusKnows, HasState, Untouched, Loadable
<1>3. OpKnows'
  BY DEF OpTypes, Working, Finalizing, HasState
<1>4. ReplyCurrent'
  BY DEF ReplyCurrent, Idle, NoOp, OpTypes
<1> QED
  BY <1>1, <1>2, <1>3, <1>4

\* A new record of the current investigation, not completed and not fresh.
LEMMA InvestigationWrite ==
  ASSUME IInv, taskState = "executing", index \in Investigations,
         inv[index].status \in {"pending", "awaiting_repair"},
         NEW v \in InvestigationTypes,
         v.status \in {"awaiting_repair", "awaiting_writer"}, v.result = None,
         v.mode # None, v.mode = "full_queue" => Loadable(index),
         v.status = "awaiting_repair" => Loadable(index) /\ v.packet # None,
         v.status = "awaiting_writer" /\ v.mode = "full_queue" =>
           run[index].state = "queue_complete",
         inv' = [inv EXCEPT ![index] = v],
         UNCHANGED <<taskState, payload, index, snapshot, runVars, sinkVars>>
  PROVE  DiskInv' /\ inv' \in [Investigations -> InvestigationTypes]
<1> USE DEF IInv, DiskInv, TypeOK, runVars, sinkVars
<1>0. /\ inv' \in [Investigations -> InvestigationTypes] /\ inv'[index] = v
      /\ \A i \in Investigations \ {index} : inv'[i] = inv[i]
      /\ index \in Nat /\ index <= N /\ N \in Nat
      /\ run[index].state # "finalized"
  BY ConstantsAssumption DEF InvestigationTypes, StatusKnows, Investigations
<1>1. SerialOrder'
  BY <1>0 DEF SerialOrder, Investigations
<1>2. ResumeIdentity'
  BY DEF ResumeIdentity, Loadable
<1>3. SinkAgreement'
  BY <1>0 DEF SinkAgreement
<1>4. TaskSinkFaithful'
  BY <1>0 DEF TaskSinkFaithful
<1>5. StatusKnows'
  BY <1>0 DEF StatusKnows, HasState, Loadable
<1> QED
  BY <1>0, <1>1, <1>2, <1>3, <1>4, <1>5

\* A machine outcome without a queue asks for the writer.
LEMMA AwaitMachineWriterStep ==
  ASSUME IInv, AtPending, NEW mode \in Modes \ {"full_queue"}, AwaitMachineWriter(mode)
  PROVE  IInv'
<1> DEFINE v == [inv[index] EXCEPT !.status = "awaiting_writer", !.mode = mode]
<1> USE DEF AtPending, AwaitMachineWriter, Return, WriteConclusion
<1>0. index \in Investigations /\ inv[index] \in InvestigationTypes /\ N \in Nat
  BY ConstantsAssumption DEF IInv, TypeOK, Investigations
<1>1. v \in InvestigationTypes /\ v.status = "awaiting_writer" /\ v.mode = mode
      /\ v.result = None
  BY <1>0 DEF InvestigationTypes, IInv, DiskInv, StatusKnows
<1>2. inv' = [inv EXCEPT ![index] = v]
  BY <1>0 DEF IInv, TypeOK, InvestigationTypes
<1>3. DiskInv' /\ inv' \in [Investigations -> InvestigationTypes]
  <2> HIDE DEF v
  <2>1. mode # None /\ mode # "full_queue"
    BY ConstantsAssumption
  <2> QED
    BY <1>0, <1>1, <1>2, <2>1, InvestigationWrite
<1>4. TypeOK'
  BY <1>0, <1>3
  DEF IInv, TypeOK, OpTypes, NoOp, ReplyTypes, Investigations, runVars, sinkVars
<1>5. OpKnows'
  BY DEF OpKnows, At, NoOp, Working, Finalizing
<1>6. ReplyCurrent'
  <2>1. inv'[index] = v
    BY <1>0, <1>2 DEF IInv, TypeOK
  <2>2. mode # "full_queue"
    OBVIOUS
  <2> QED
    BY <1>0, <1>1, <2>1, <2>2 DEF ReplyCurrent, HasCurrent, HasState
<1> QED
  BY <1>3, <1>4, <1>5, <1>6 DEF IInv

\* _record_host_action keeps task state and run state in step.
LEMMA RecordHostActionStep ==
  ASSUME IInv, RecordRepairRequired \/ RecordWriteConclusion
  PROVE  IInv'
<1> DEFINE r == [inv[index] EXCEPT !.status = "awaiting_repair", !.mode = "full_queue",
                                   !.packet = CurrentRepair(index)]
           w == [inv[index] EXCEPT !.status = "awaiting_writer", !.mode = "full_queue",
                                   !.packet = None]
<1> USE DEF AtStep, At, Return
<1>0. /\ index \in Investigations /\ inv[index] \in InvestigationTypes /\ N \in Nat
      /\ At("execute") /\ taskState = "executing" /\ Loadable(index)
      /\ inv[index].status \in {"pending", "awaiting_repair"}
      /\ inv[index].result = None
  BY ConstantsAssumption
  DEF IInv, DiskInv, TypeOK, Investigations, RecordRepairRequired, RecordWriteConclusion,
      OpKnows, Working, StatusKnows
<1>1. CASE RecordRepairRequired
  <2>1. CurrentRepair(index) \in Packets
    <3>1. /\ run[index].cursor \in 0..Steps /\ run[index].cursor < Steps
          /\ run[index].attempt \in 0..MaxRepairs /\ run[index].attempt < MaxRepairs
      BY <1>0, <1>1 DEF IInv, DiskInv, TypeOK, RunTypes, StatusKnows, RecordRepairRequired
    <3>2. /\ run[index].cursor + 1 \in 1..Steps
          /\ run[index].attempt + 1 \in 1..MaxRepairs
      BY <3>1, ConstantsAssumption DEF MaxRepairs
    <3> QED
      BY <3>2 DEF CurrentRepair, Packets
  <2>2. /\ r \in InvestigationTypes /\ r.status = "awaiting_repair"
        /\ r.mode = "full_queue" /\ r.packet = CurrentRepair(index) /\ r.result = None
    BY <1>0, <2>1 DEF InvestigationTypes, Modes
  <2>3. inv' = [inv EXCEPT ![index] = r]
    BY <1>0, <1>1 DEF IInv, TypeOK, InvestigationTypes, RecordRepairRequired
  <2>4. r.packet # None /\ r.mode # None
    BY <2>1, <2>2, ConstantsAssumption DEF Modes
  <2>5. DiskInv' /\ inv' \in [Investigations -> InvestigationTypes] /\ inv'[index] = r
    <3> HIDE DEF r
    <3> QED
      BY <1>0, <1>1, <2>2, <2>3, <2>4, InvestigationWrite
      DEF RecordRepairRequired, IInv, TypeOK
  <2>6. TypeOK'
    BY <1>0, <1>1, <2>1, <2>5
    DEF RecordRepairRequired, RepairRequired, IInv, TypeOK, OpTypes, NoOp, ReplyTypes,
        Investigations, runVars, sinkVars
  <2>7. OpKnows'
    BY <1>1 DEF RecordRepairRequired, OpKnows, NoOp, Working, Finalizing
  <2>8. ReplyCurrent'
    BY <1>0, <1>1, <2>2, <2>5
    DEF RecordRepairRequired, RepairRequired, ReplyCurrent, HasCurrent, HasState,
        Investigations
  <2> QED
    BY <2>5, <2>6, <2>7, <2>8 DEF IInv
<1>2. CASE RecordWriteConclusion
  <2>2. /\ w \in InvestigationTypes /\ w.status = "awaiting_writer"
        /\ w.mode = "full_queue" /\ w.packet = None /\ w.result = None
    BY <1>0 DEF InvestigationTypes, Modes
  <2>3. inv' = [inv EXCEPT ![index] = w]
    BY <1>0, <1>2 DEF IInv, TypeOK, InvestigationTypes, RecordWriteConclusion
  <2>4. w.mode # None
    BY <2>2, ConstantsAssumption DEF Modes
  <2>5. DiskInv' /\ inv' \in [Investigations -> InvestigationTypes] /\ inv'[index] = w
    <3> HIDE DEF w
    <3> QED
      BY <1>0, <1>2, <2>2, <2>3, <2>4, InvestigationWrite
      DEF RecordWriteConclusion, IInv, TypeOK
  <2>6. TypeOK'
    BY <1>0, <1>2, <2>5
    DEF RecordWriteConclusion, WriteConclusion, IInv, TypeOK, OpTypes, NoOp, ReplyTypes,
        Investigations, runVars, sinkVars
  <2>7. OpKnows'
    BY <1>2 DEF RecordWriteConclusion, OpKnows, NoOp, Working, Finalizing
  <2>8. ReplyCurrent'
    BY <1>0, <1>2, <2>2, <2>5
    DEF RecordWriteConclusion, WriteConclusion, ReplyCurrent, HasCurrent, HasState,
        Investigations, runVars
  <2> QED
    BY <2>5, <2>6, <2>7, <2>8 DEF IInv
<1> QED
  BY <1>1, <1>2

\* Result, status and index change in one write.
LEMMA CompleteInvestigationStep ==
  ASSUME IInv, NEW r \in Results, op.pc \in {"machine_result", "task_result"},
         r.patch = op.patch, r.mode = inv[index].mode,
         At("task_result") => r = runSink[index], CompleteInvestigation(r)
  PROVE  IInv'
<1> DEFINE v == [inv[index] EXCEPT !.status = "completed", !.result = r, !.patch = op.patch]
<1> USE DEF CompleteInvestigation, Goto, At, runVars, sinkVars
<1>0. /\ index \in Investigations /\ inv[index] \in InvestigationTypes /\ N \in Nat
      /\ index \in Nat /\ index <= N
      /\ taskState = "executing" /\ inv[index].status = "awaiting_writer"
      /\ op.patch \in Patches /\ taskSink = None
      /\ inv[index].mode # None
      /\ At("task_result") <=> inv[index].mode = "full_queue"
      /\ At("task_result") => runSink[index] # None /\ run[index].state = "finalized"
      /\ inv[index].mode # "full_queue" => run[index].state # "finalized"
  BY ConstantsAssumption
  DEF IInv, DiskInv, TypeOK, Investigations, OpKnows, Working, Finalizing, StatusKnows,
      TaskSinkFaithful
<1>1. /\ v \in InvestigationTypes /\ v.status = "completed" /\ v.result = r
      /\ v.patch = op.patch /\ v.mode = inv[index].mode
  BY <1>0 DEF InvestigationTypes
<1>2. inv' = [inv EXCEPT ![index] = v]
  BY <1>0 DEF IInv, TypeOK, InvestigationTypes
<1>3. /\ inv' \in [Investigations -> InvestigationTypes] /\ inv'[index] = v
      /\ \A i \in Investigations \ {index} : inv'[i] = inv[i]
      /\ index' = index + 1 /\ r # None
  BY <1>0, <1>1, <1>2, ConstantsAssumption DEF IInv, TypeOK
<1> HIDE DEF v
<1>4. TypeOK'
  BY <1>0, <1>3 DEF IInv, TypeOK, OpTypes
<1>5. SerialOrder'
  BY <1>0, <1>1, <1>3 DEF IInv, DiskInv, SerialOrder, Investigations
<1>6. ResumeIdentity'
  BY DEF IInv, DiskInv, ResumeIdentity, Loadable
<1>7. SinkAgreement'
  BY <1>0, <1>1, <1>3 DEF IInv, DiskInv, SinkAgreement
<1>8. TaskSinkFaithful'
  BY <1>0 DEF IInv, DiskInv, TaskSinkFaithful
<1>9. StatusKnows'
  BY <1>0, <1>1, <1>3 DEF IInv, DiskInv, StatusKnows, HasState, Loadable
<1>10. OpKnows'
  BY <1>0 DEF IInv, TypeOK, OpTypes, OpKnows, Working, Finalizing, HasState
<1>11. ReplyCurrent'
  BY DEF IInv, TypeOK, OpTypes, ReplyCurrent, Idle, NoOp
<1> QED
  BY <1>4, <1>5, <1>6, <1>7, <1>8, <1>9, <1>10, <1>11 DEF IInv, DiskInv

-----------------------------------------------------------------------------
(* Steps that write a snapshot or a run.                                   *)

\* A root snapshot appears once.
LEMMA FreezeSnapshotStep == ASSUME IInv, NEW r \in Roots, FreezeSnapshot(r) PROVE IInv'
<1> USE DEF FreezeSnapshot, AtPreflight, AtPending, RootSnapshot, runVars, sinkVars, taskVars
<1>1. TypeOK' /\ Scope[index] \in Scopes
  BY ConstantsAssumption DEF IInv, TypeOK, Investigations
<1>2. SerialOrder' /\ SinkAgreement' /\ TaskSinkFaithful'
  BY DEF IInv, DiskInv, SerialOrder, SinkAgreement, TaskSinkFaithful
<1>3. ResumeIdentity'
  BY ConstantsAssumption DEF IInv, DiskInv, TypeOK, ResumeIdentity, Loadable
<1>4. StatusKnows'
  BY DEF IInv, DiskInv, StatusKnows, HasState, Untouched, Loadable
<1>5. OpKnows'
  BY DEF IInv, OpKnows, At, Working, Finalizing, HasState
<1>6. ReplyCurrent'
  BY DEF ReplyCurrent, Idle, NoOp, At
<1> QED
  BY <1>1, <1>2, <1>3, <1>4, <1>5, <1>6 DEF IInv, DiskInv

\* A new record of the current run, while its investigation still queries.
LEMMA RunWrite ==
  ASSUME IInv, taskState = "executing", index \in Investigations,
         inv[index].status \in {"pending", "awaiting_repair"},
         NEW r \in RunTypes, r.state \in {"dir", "active", "queue_complete"},
         r.state = "dir" => inv[index].status = "pending",
         r.state # "dir" => /\ index \notin Undefined /\ RootSnapshot # None
                            /\ r.root = RootSnapshot
                            /\ Preflight[index][RootSnapshot] = "full_queue",
         r.state # "queue_complete" =>
           /\ r.cursor < Steps
           /\ r.step = "repair_required" => r.attempt < MaxRepairs,
         run' = [run EXCEPT ![index] = r],
         UNCHANGED <<taskVars, snapshot, assembled, sinkVars>>
  PROVE  DiskInv' /\ run' \in [Investigations -> RunTypes]
<1> USE DEF IInv, DiskInv, TypeOK, taskVars, sinkVars
<1>0. /\ run' \in [Investigations -> RunTypes] /\ run'[index] = r
      /\ \A i \in Investigations \ {index} : run'[i] = run[i]
      /\ run[index].state # "finalized"
  BY DEF StatusKnows
<1>1. SerialOrder'
  BY <1>0 DEF SerialOrder, Investigations
<1>2. ResumeIdentity'
  BY <1>0 DEF ResumeIdentity, Loadable, RootSnapshot
<1>3. SinkAgreement'
  BY <1>0 DEF SinkAgreement
<1>4. TaskSinkFaithful'
  BY DEF TaskSinkFaithful
<1>5. StatusKnows'
  BY <1>0 DEF StatusKnows, HasState, Loadable
<1> QED
  BY <1>0, <1>1, <1>2, <1>3, <1>4, <1>5

\* init_run: the run directory, then its first state under the frozen root.
LEMMA CreateRunStep == ASSUME IInv, CreateRun \/ WriteRun PROVE IInv'
<1> DEFINE d == [run[index] EXCEPT !.state = "dir"]
           a == [run[index] EXCEPT !.state = "active", !.root = op.root]
<1>0. /\ index \in Investigations /\ run[index] \in RunTypes /\ index <= N
      /\ taskState = "executing" /\ inv[index].status = "pending"
      /\ index \notin Undefined /\ op.root # None /\ op.root = RootSnapshot
      /\ Preflight[index][op.root] = "full_queue" /\ op.root \in Roots
      /\ run \in [Investigations -> RunTypes]
      /\ op \in OpTypes
      /\ run[index].cursor < Steps
      /\ run[index].step = "repair_required" => run[index].attempt < MaxRepairs
  <2>1. run[index].state \in {"absent", "dir"}
    BY DEF IInv, OpKnows, CreateRun, WriteRun, At
  <2> QED
    BY <2>1, ConstantsAssumption
    DEF IInv, DiskInv, StatusKnows, TypeOK, Investigations, OpKnows, Working, OpTypes,
        CreateRun, WriteRun, At
<1>1. CASE CreateRun
  <2>1. /\ d \in RunTypes /\ d.state = "dir" /\ run' = [run EXCEPT ![index] = d]
        /\ d.cursor < Steps /\ (d.step = "repair_required" => d.attempt < MaxRepairs)
    BY <1>0, <1>1 DEF RunTypes, CreateRun
  <2> HIDE DEF d
  <2>2. DiskInv' /\ run' \in [Investigations -> RunTypes] /\ run'[index] = d
    BY <1>0, <1>1, <2>1, RunWrite DEF CreateRun
  <2>3. TypeOK'
    BY <1>0, <1>1, <2>2
    DEF CreateRun, Goto, IInv, TypeOK, OpTypes, taskVars, sinkVars
  <2>4. OpKnows'
    BY <1>0, <1>1, <2>1, <2>2
    DEF CreateRun, Goto, OpKnows, At, Working, Finalizing, OpTypes, taskVars, RootSnapshot
  <2>5. ReplyCurrent'
    BY <1>0, <1>1 DEF CreateRun, Goto, ReplyCurrent, Idle, NoOp, OpTypes
  <2> QED
    BY <2>2, <2>3, <2>4, <2>5 DEF IInv
<1>2. CASE WriteRun
  <2>1. /\ a \in RunTypes /\ a.state = "active" /\ a.root = op.root
        /\ a.cursor < Steps /\ (a.step = "repair_required" => a.attempt < MaxRepairs)
        /\ run' = [run EXCEPT ![index] = a]
    BY <1>0, <1>2 DEF RunTypes, WriteRun
  <2> HIDE DEF a
  <2>2. DiskInv' /\ run' \in [Investigations -> RunTypes] /\ run'[index] = a
    BY <1>0, <1>2, <2>1, RunWrite DEF WriteRun
  <2>3. TypeOK'
    BY <1>0, <1>2, <2>2
    DEF WriteRun, Goto, IInv, TypeOK, OpTypes, taskVars, sinkVars
  <2>4. OpKnows'
    BY <1>0, <1>2, <2>1, <2>2
    DEF WriteRun, Goto, OpKnows, At, Working, Finalizing, Loadable, OpTypes, taskVars
  <2>5. ReplyCurrent'
    BY <1>0, <1>2 DEF WriteRun, Goto, ReplyCurrent, Idle, NoOp, OpTypes
  <2> QED
    BY <2>2, <2>3, <2>4, <2>5 DEF IInv
<1> QED
  BY <1>1, <1>2

\* next, and record of a result or of an error.
LEMMA QueryStep ==
  ASSUME IInv, IssueQuery \/ RecordTerminal \/ RecordSemanticError
  PROVE  IInv'
<1> DEFINE q == [run[index] EXCEPT !.step = "in_progress"]
           t == [run[index] EXCEPT
                   !.cursor = @ + 1, !.attempt = 0, !.step = "pending",
                   !.state = IF run[index].cursor + 1 = Steps THEN "queue_complete"
                                                             ELSE "active"]
           e == [run[index] EXCEPT !.step = "repair_required"]
<1>0. /\ index \in Investigations /\ run[index] \in RunTypes /\ index <= N
      /\ taskState = "executing" /\ inv[index].status \in {"pending", "awaiting_repair"}
      /\ op.pc \in {"execute", "repair"}
      /\ run[index].state = "active" /\ run[index].cursor < Steps
      /\ index \notin Undefined /\ RootSnapshot # None
      /\ run[index].root = RootSnapshot /\ Preflight[index][RootSnapshot] = "full_queue"
      /\ run \in [Investigations -> RunTypes]
      /\ UNCHANGED <<taskVars, snapshot, assembled, sinkVars, op, reply>>
  BY ConstantsAssumption
  DEF IInv, DiskInv, TypeOK, Investigations, OpKnows, Working, StatusKnows, ResumeIdentity,
      RootSnapshot, Loadable, IssueQuery, RecordTerminal, RecordSemanticError, AtStep, At
<1>1. PICK r \in RunTypes :
        /\ r.state \in {"active", "queue_complete"} /\ r.root = run[index].root
        /\ r.state = "active" => /\ r.cursor < Steps
                                 /\ r.step = "repair_required" => r.attempt < MaxRepairs
        /\ run' = [run EXCEPT ![index] = r]
  <2>1. CASE IssueQuery
    <3>1. q \in RunTypes /\ run' = [run EXCEPT ![index] = q] /\ q.step = "in_progress"
          /\ q.state = "active" /\ q.root = run[index].root /\ q.cursor = run[index].cursor
      BY <1>0, <2>1 DEF IssueQuery, RunTypes
    <3> HIDE DEF q
    <3> QED
      BY <1>0, <3>1
  <2>2. CASE RecordTerminal
    <3>1. /\ t \in RunTypes /\ run' = [run EXCEPT ![index] = t] /\ t.step # "repair_required"
          /\ t.state \in {"active", "queue_complete"} /\ t.root = run[index].root
          /\ t.state = "active" => t.cursor < Steps
      <4>1. /\ run[index].cursor + 1 \in 0..Steps /\ 0 \in 0..MaxRepairs
            /\ run[index].cursor + 1 # Steps => run[index].cursor + 1 < Steps
        BY <1>0, ConstantsAssumption DEF RunTypes, MaxRepairs
      <4> QED
        BY <1>0, <2>2, <4>1 DEF RecordTerminal, RunTypes
    <3> HIDE DEF t
    <3> QED
      BY <1>0, <3>1
  <2>3. CASE RecordSemanticError
    <3>1. e \in RunTypes /\ run' = [run EXCEPT ![index] = e] /\ e.step = "repair_required"
          /\ e.state = "active" /\ e.root = run[index].root /\ e.cursor = run[index].cursor
          /\ e.attempt < MaxRepairs
      BY <1>0, <2>3 DEF RecordSemanticError, AtStep, RunTypes
    <3> HIDE DEF e
    <3> QED
      BY <1>0, <3>1
  <2> QED
    BY <2>1, <2>2, <2>3
<1>2. DiskInv' /\ run' \in [Investigations -> RunTypes] /\ run'[index] = r
  BY <1>0, <1>1, RunWrite
<1>3. TypeOK'
  BY <1>0, <1>2 DEF IInv, TypeOK, taskVars, sinkVars
<1>4. OpKnows'
  BY <1>0, <1>1, <1>2
  DEF IInv, OpKnows, At, Working, Finalizing, Loadable, HasState, taskVars, sinkVars
<1>5. ReplyCurrent'
  BY <1>0 DEF ReplyCurrent, Idle, NoOp, At
<1> QED
  BY <1>2, <1>3, <1>4, <1>5 DEF IInv

\* record of a repair.
LEMMA AcceptRepairStep == ASSUME IInv, AcceptRepair PROVE IInv'
<1> DEFINE r == [run[index] EXCEPT !.attempt = @ + 1, !.step = "in_progress",
                                   !.repairs = @ \cup {op.packet}]
<1>0. /\ index \in Investigations /\ run[index] \in RunTypes /\ index <= N
      /\ taskState = "executing" /\ inv[index].status = "awaiting_repair"
      /\ run[index].state = "active" /\ run[index].cursor < Steps
      /\ run[index].attempt < MaxRepairs /\ op.packet \in Packets
      /\ index \notin Undefined /\ RootSnapshot # None
      /\ run[index].root = RootSnapshot /\ Preflight[index][RootSnapshot] = "full_queue"
      /\ run \in [Investigations -> RunTypes] /\ op \in OpTypes
  BY ConstantsAssumption
  DEF IInv, DiskInv, TypeOK, Investigations, OpKnows, Working, StatusKnows, ResumeIdentity,
      RootSnapshot, Loadable, AcceptRepair, RunAwaitsRepair, At
<1>1. /\ r \in RunTypes /\ run' = [run EXCEPT ![index] = r] /\ r.step = "in_progress"
      /\ r.state = "active" /\ r.root = run[index].root /\ r.cursor = run[index].cursor
  BY <1>0 DEF AcceptRepair, RunTypes, MaxRepairs
<1> HIDE DEF r
<1>2. DiskInv' /\ run' \in [Investigations -> RunTypes] /\ run'[index] = r
  BY <1>0, <1>1, RunWrite DEF AcceptRepair
<1>3. TypeOK'
  BY <1>0, <1>2 DEF AcceptRepair, Goto, IInv, TypeOK, OpTypes, taskVars, sinkVars
<1>4. OpKnows'
  BY <1>0, <1>1, <1>2
  DEF AcceptRepair, Goto, OpKnows, At, Working, Finalizing, Loadable, OpTypes, taskVars
<1>5. ReplyCurrent'
  BY <1>0 DEF AcceptRepair, Goto, ReplyCurrent, Idle, NoOp, OpTypes
<1> QED
  BY <1>2, <1>3, <1>4, <1>5 DEF IInv
-----------------------------------------------------------------------------
(* Steps of finalize, and the seal of the task.                            *)

\* The assembled file is written only before the run is finalized.
LEMMA AssembleFinalStep == ASSUME IInv, AssembleFinal PROVE IInv'
<1> USE DEF AssembleFinal, Goto, At, taskVars, sinkVars
<1>0. /\ index \in Investigations /\ index <= N /\ taskState = "executing"
      /\ op.patch \in Patches /\ op \in OpTypes
      /\ inv[index].status = "awaiting_writer" /\ inv[index].mode = "full_queue"
      /\ assembled' \in [Investigations -> Patches \cup {None}]
      /\ assembled'[index] = op.patch
      /\ \A i \in Investigations \ {index} : assembled'[i] = assembled[i]
  BY ConstantsAssumption DEF IInv, TypeOK, Investigations, OpKnows, Working, Finalizing
<1>1. TypeOK'
  BY <1>0 DEF IInv, TypeOK, OpTypes
<1>2. DiskInv'
  BY <1>0 DEF IInv, DiskInv, SerialOrder, ResumeIdentity, SinkAgreement, TaskSinkFaithful,
              StatusKnows, HasState, Loadable, Investigations
<1>3. OpKnows'
  BY <1>0 DEF OpKnows, Working, Finalizing, OpTypes
<1>4. ReplyCurrent'
  BY <1>0 DEF ReplyCurrent, Idle, NoOp, OpTypes
<1> QED
  BY <1>1, <1>2, <1>3, <1>4 DEF IInv

\* validate_final finalizes the run with the patch the file holds.
LEMMA ValidateFinalStep == ASSUME IInv, ValidateFinal PROVE IInv'
<1> DEFINE f == [run[index] EXCEPT !.state = "finalized", !.final = assembled[index]]
<1> USE DEF ValidateFinal, Goto, At, taskVars, sinkVars
<1>0. /\ index \in Investigations /\ index <= N /\ taskState = "executing"
      /\ op.patch \in Patches /\ op \in OpTypes
      /\ inv[index].status = "awaiting_writer" /\ inv[index].mode = "full_queue"
      /\ assembled[index] = op.patch /\ run[index].state = "queue_complete"
      /\ run \in [Investigations -> RunTypes]
  BY ConstantsAssumption DEF IInv, TypeOK, Investigations, OpKnows, Working, Finalizing
<1>1. /\ f \in RunTypes /\ f.state = "finalized" /\ f.final = op.patch
      /\ f.root = run[index].root /\ run' = [run EXCEPT ![index] = f]
  BY <1>0 DEF RunTypes
<1> HIDE DEF f
<1>2. /\ run' \in [Investigations -> RunTypes] /\ run'[index] = f
      /\ \A i \in Investigations \ {index} : run'[i] = run[i]
  BY <1>0, <1>1
<1>3. TypeOK'
  BY <1>0, <1>2 DEF IInv, TypeOK, OpTypes
<1>4. SerialOrder'
  BY <1>0, <1>2 DEF IInv, DiskInv, SerialOrder, Investigations
<1>5. ResumeIdentity'
  BY <1>0, <1>1, <1>2 DEF IInv, DiskInv, ResumeIdentity, Loadable
<1>6. SinkAgreement'
  <2>1. op.patch \notin Unsound /\ runSink[index] = None
    BY <1>0 DEF IInv, DiskInv, SinkAgreement
  <2> QED
    BY <1>0, <1>1, <1>2, <2>1 DEF IInv, DiskInv, SinkAgreement
<1>7. TaskSinkFaithful'
  BY DEF IInv, DiskInv, TaskSinkFaithful
<1>8. StatusKnows'
  BY <1>0, <1>1, <1>2 DEF IInv, DiskInv, StatusKnows, HasState, Loadable
<1>9. OpKnows'
  BY <1>0, <1>1, <1>2 DEF OpKnows, Working, Finalizing, OpTypes
<1>10. ReplyCurrent'
  BY <1>0 DEF ReplyCurrent, Idle, NoOp, OpTypes
<1> QED
  BY <1>3, <1>4, <1>5, <1>6, <1>7, <1>8, <1>9, <1>10 DEF IInv, DiskInv

\* The run sink takes the finalized run, or the same bytes again.
LEMMA StoreRunResultStep == ASSUME IInv, StoreRunResult PROVE IInv'
<1> USE DEF StoreRunResult, Goto, At, taskVars, runVars
<1>1. CASE runSink[index] \notin {None, RunArtifact}
  BY <1>1, RejectStep
<1>2. CASE runSink[index] \in {None, RunArtifact}
  <2>0. /\ index \in Investigations /\ index <= N /\ taskState = "executing"
        /\ op.patch \in Patches /\ op \in OpTypes
        /\ inv[index].status = "awaiting_writer" /\ inv[index].mode = "full_queue"
        /\ run[index].state = "finalized" /\ run[index].final = op.patch
    BY ConstantsAssumption DEF IInv, TypeOK, Investigations, OpKnows, Working, Finalizing
  <2>1. RunArtifact \in Results /\ RunArtifact # None
        /\ RunArtifact = [mode |-> "full_queue", patch |-> run[index].final,
                          receipt |-> run[index].final]
    BY <2>0, ConstantsAssumption DEF RunArtifact, Results, Modes
  <2>2. /\ runSink' \in [Investigations -> Results \cup {None}]
        /\ runSink'[index] = RunArtifact
        /\ \A i \in Investigations \ {index} : runSink'[i] = runSink[i]
        /\ op' = [op EXCEPT !.pc = "task_result"]
        /\ UNCHANGED <<taskVars, snapshot, runVars, taskSink, reply>>
    BY <1>2, <2>0, <2>1 DEF IInv, TypeOK
  <2>3. TypeOK'
    BY <2>0, <2>2 DEF IInv, TypeOK, OpTypes
  <2>4. DiskInv'
    <3>1. SerialOrder'
      BY <2>0, <2>2 DEF IInv, DiskInv, SerialOrder, Investigations
    <3>2. ResumeIdentity' /\ TaskSinkFaithful'
      BY <2>2 DEF IInv, DiskInv, ResumeIdentity, Loadable, TaskSinkFaithful
    <3>3. SinkAgreement'
      <4>1. runVars' = runVars /\ inv' = inv
        BY <2>2
      <4>2. \A i \in Investigations \ {index} : runSink'[i] = runSink[i]
        BY <2>2
      <4>3. runSink'[index] = [mode |-> "full_queue", patch |-> run[index].final,
                               receipt |-> run[index].final]
        BY <2>1, <2>2
      <4> QED
        BY <2>0, <4>1, <4>2, <4>3 DEF IInv, DiskInv, SinkAgreement
    <3>4. StatusKnows'
      BY <2>0, <2>2 DEF IInv, DiskInv, StatusKnows, HasState, Loadable
    <3> QED
      BY <3>1, <3>2, <3>3, <3>4 DEF DiskInv
  <2>5. OpKnows'
    BY <2>0, <2>1, <2>2 DEF OpKnows, Working, Finalizing, OpTypes
  <2>6. ReplyCurrent'
    BY <2>0, <2>2 DEF ReplyCurrent, Idle, NoOp, OpTypes
  <2> QED
    BY <2>3, <2>4, <2>5, <2>6 DEF IInv
<1> QED
  BY <1>1, <1>2

\* The result finalize accepts is of the mode and the patch it was called for.
LEMMA AcceptedResult ==
  ASSUME IInv, MachineResult \/ RecordResult
  PROVE  \E r \in Results :
           /\ op.pc \in {"machine_result", "task_result"} /\ r.patch = op.patch
           /\ r.mode = inv[index].mode /\ (At("task_result") => r = runSink[index])
           /\ CompleteInvestigation(r)
<1> DEFINE m == [mode |-> inv[index].mode, patch |-> op.patch, receipt |-> None]
<1>0. index \in Investigations /\ inv[index] \in InvestigationTypes
  BY ConstantsAssumption
  DEF IInv, TypeOK, Investigations, MachineResult, RecordResult, At, OpKnows, Working, Finalizing
<1>1. CASE MachineResult
  <2>1. m \in Results
    BY <1>0, <1>1
    DEF IInv, DiskInv, MachineResult, At, OpKnows, StatusKnows, InvestigationTypes, Results
  <2>2. /\ op.pc = "machine_result" /\ CompleteInvestigation(m)
        /\ m.patch = op.patch /\ m.mode = inv[index].mode
    BY <1>1 DEF MachineResult, At
  <2> HIDE DEF m
  <2> QED
    BY <2>1, <2>2 DEF At
<1>2. CASE RecordResult
  <2>1. /\ runSink[index] \in Results /\ op.pc = "task_result"
        /\ runSink[index].patch = op.patch /\ runSink[index].mode = inv[index].mode
        /\ CompleteInvestigation(runSink[index])
    BY <1>0, <1>2
    DEF IInv, DiskInv, TypeOK, RecordResult, At, OpKnows, Finalizing, SinkAgreement
  <2> QED
    BY <2>1
<1> QED
  BY <1>1, <1>2

\* The task sink takes every result at once.
LEMMA StoreTaskResultStep == ASSUME IInv, StoreTaskResult PROVE IInv'
<1> USE DEF StoreTaskResult, Goto, At, taskVars, runVars
<1>1. CASE taskSink \notin {None, TaskArtifact}
  BY <1>1, RejectStep
<1>2. CASE taskSink \in {None, TaskArtifact}
  <2>1. \A i \in Investigations : inv[i].result \in Results /\ inv[i].result # None
    BY ConstantsAssumption
    DEF IInv, DiskInv, TypeOK, SerialOrder, StatusKnows, Investigations, InvestigationTypes
  <2>2. TaskArtifact \in [Investigations -> Results] /\ TaskArtifact # None
    BY <2>1, ConstantsAssumption DEF TaskArtifact
  <2>3. /\ taskSink' = TaskArtifact /\ op' = [op EXCEPT !.pc = "seal"]
        /\ UNCHANGED <<taskVars, snapshot, runVars, runSink, reply>>
    BY <1>2
  <2>4. TypeOK'
    BY <2>2, <2>3 DEF IInv, TypeOK, OpTypes
  <2>5. DiskInv'
    BY <2>1, <2>2, <2>3
    DEF IInv, DiskInv, SerialOrder, ResumeIdentity, SinkAgreement, TaskSinkFaithful,
        StatusKnows, HasState, Untouched, Loadable, TaskArtifact
  <2>6. OpKnows'
    BY <2>2, <2>3 DEF IInv, TypeOK, OpKnows, Working, Finalizing, OpTypes
  <2>7. ReplyCurrent'
    BY <2>3 DEF IInv, TypeOK, ReplyCurrent, Idle, NoOp, OpTypes
  <2> QED
    BY <2>4, <2>5, <2>6, <2>7 DEF IInv
<1> QED
  BY <1>1, <1>2

\* The task is completed only after its sink has it.
LEMMA WriteCompletedStateStep == ASSUME IInv, WriteCompletedState PROVE IInv'
<1> USE DEF WriteCompletedState, Return, At, TaskComplete, runVars, sinkVars
<1>1. TypeOK'
  BY ConstantsAssumption DEF IInv, TypeOK, OpTypes, NoOp, ReplyTypes
<1>2. DiskInv'
  BY DEF IInv, DiskInv, OpKnows, SerialOrder, ResumeIdentity, SinkAgreement,
         TaskSinkFaithful, StatusKnows, HasState, Loadable
<1>3. OpKnows'
  BY DEF OpKnows, NoOp, Working, Finalizing
<1>4. ReplyCurrent'
  BY DEF ReplyCurrent
<1> QED
  BY <1>1, <1>2, <1>3, <1>4 DEF IInv
-----------------------------------------------------------------------------
\* Every step keeps the inductive invariant.
LEMMA NextIInv == ASSUME IInv, [Next]_vars PROVE IInv'
<1>1. CASE Call
  <2>1. ASSUME NEW p \in Payloads, RunTask(p) PROVE IInv'
    <3>1. CASE ResumeTask(p)
      <4>1. op' \in OpTypes /\ op'.pc # "idle" /\ OpKnows'
        BY <3>1 DEF ResumeTask, Start, OpTypes, OpKnows, At, Working, Finalizing, HasState,
                    taskVars
      <4> QED
        BY <3>1, <4>1, MoveStep DEF ResumeTask
    <3> QED
      BY <2>1, <3>1, InitializeTaskStep, RejectStep DEF RunTask, RejectTask
  <2>2. ASSUME NEW i \in Investigations, NEW k \in Packets, SubmitRepair(i, k) PROVE IInv'
    BY <2>2, SubmitRepairStep
  <2>3. ASSUME NEW i \in Investigations, NEW w \in Patches, Finalize(i, w) PROVE IInv'
    BY <2>3, FinalizeStep
  <2> QED
    BY <1>1, <2>1, <2>2, <2>3 DEF Call
<1>2. CASE Step
  <2>1. ASSUME DefinitionFails PROVE IInv'
    BY <2>1, AwaitMachineWriterStep, "definition_failed" \in Modes \ {"full_queue"}
    DEF DefinitionFails, Modes
  <2>2. ASSUME RootQueryFails PROVE IInv'
    BY <2>2, AwaitMachineWriterStep DEF RootQueryFails, AtPreflight, Modes
  <2>3. ASSUME PreflightStops PROVE IInv'
    <3>1. Preflight[index][RootSnapshot] \in Modes \ {"full_queue"}
      BY <2>3, ConstantsAssumption
      DEF IInv, TypeOK, PreflightStops, AtPreflight, AtPending, RootSnapshot, Investigations
    <3> QED
      BY <2>3, <3>1, AwaitMachineWriterStep DEF PreflightStops, AtPreflight
  <2>4. ASSUME NEW r \in Roots, FreezeSnapshot(r) PROVE IInv'
    BY <2>4, FreezeSnapshotStep
  <2>5. ASSUME MachineResult \/ RecordResult PROVE IInv'
    <3>1. PICK r \in Results :
            /\ op.pc \in {"machine_result", "task_result"} /\ r.patch = op.patch
            /\ r.mode = inv[index].mode /\ (At("task_result") => r = runSink[index])
            /\ CompleteInvestigation(r)
      BY <2>5, AcceptedResult
    <3> QED
      BY <3>1, CompleteInvestigationStep
  <2>6. ASSUME RejectRun \/ RejectRepair \/ RefuseFinal \/ RejectFinal PROVE IInv'
    BY <2>6, RejectStep DEF RejectRun, RejectRepair, RefuseFinal, RejectFinal
  <2>7. ASSUME PreflightContinues \/ ResumeRun \/ ReplayRepair \/ ReplayFinal PROVE IInv'
    BY <2>7, PassStep
  <2>8. ASSUME IssueQuery \/ RecordTerminal \/ RecordSemanticError PROVE IInv'
    BY <2>8, QueryStep
  <2> QED
    BY <1>2, <2>1, <2>2, <2>3, <2>4, <2>5, <2>6, <2>7, <2>8, WriteInitialStateStep,
       ReplyPendingStep, ReplyCompleteStep, CreateRunStep, RecordHostActionStep,
       AcceptRepairStep, AssembleFinalStep, ValidateFinalStep, StoreRunResultStep,
       StoreTaskResultStep, WriteCompletedStateStep
    DEF Step
<1>3. CASE Fail
  BY <1>3, ErrorStep DEF Fail
<1>4. CASE UNCHANGED vars
  BY <1>4
  DEF vars, taskVars, runVars, sinkVars, IInv, TypeOK, DiskInv, SerialOrder, ResumeIdentity,
      SinkAgreement, TaskSinkFaithful, StatusKnows, HasState, Untouched, Loadable, OpKnows,
      At, Working, Finalizing, RootSnapshot, ReplyCurrent, Idle, HasCurrent
<1> QED
  BY <1>1, <1>2, <1>3, <1>4 DEF Next

\* The inductive invariant holds in every behaviour.
THEOREM Inductive == Spec => []IInv
BY InitIInv, NextIInv, PTL DEF Spec

-----------------------------------------------------------------------------
(* What holds in every behaviour, for every value of the constants.        *)

\* The state files, the sinks and the operation in progress have their types:
\* no attempt counter passes the two repairs, no cursor the queue, no index the
\* end of the investigations.
THEOREM TypeCorrect == Spec => []TypeOK
BY Inductive, PTL DEF IInv

\* The investigations of a task are worked on strictly one after the other.
THEOREM SerialExecution == Spec => []SerialOrder
BY Inductive, PTL DEF IInv, DiskInv

\* No restart can meet a run that its frozen root snapshot does not explain.
THEOREM ResumeKeepsIdentity == Spec => []ResumeIdentity
BY Inductive, PTL DEF IInv, DiskInv

\* Task state, run state, assembled file and run sink agree on every result.
THEOREM SinksAgree == Spec => []SinkAgreement
BY Inductive, PTL DEF IInv, DiskInv

\* A sealed task sink holds exactly the accepted results.
THEOREM SealIsFaithful == Spec => []TaskSinkFaithful
BY Inductive, PTL DEF IInv, DiskInv

\* The last reply never sends the caller to a step the task is not at.
THEOREM RepliesAreCurrent == Spec => []ReplyCurrent
BY Inductive, PTL DEF IInv

\* No step of the coordinator touches what is settled.
LEMMA SettledStep == ASSUME IInv, [Next]_vars PROVE SettledStays \/ UNCHANGED vars
<1> USE DEF SettledStays
<1>a. /\ \A i \in Investigations : run[i].cursor \in Nat
      /\ run \in [Investigations -> RunTypes] /\ snapshot \in [Scopes -> Roots \cup {None}]
      /\ index \in Nat /\ N \in Nat
  BY ConstantsAssumption DEF IInv, TypeOK, RunTypes
<1>1. CASE UNCHANGED <<payload, snapshot, runVars, sinkVars>>
  BY <1>1, <1>a DEF runVars, sinkVars
<1>2. CASE WriteInitialState
  BY <1>2, <1>a
  DEF WriteInitialState, At, runVars, sinkVars, IInv, DiskInv, OpKnows, StatusKnows,
      HasState, Untouched
<1>3. ASSUME NEW r \in Roots, FreezeSnapshot(r) PROVE SettledStays
  BY <1>3, <1>a DEF FreezeSnapshot, RootSnapshot, taskVars, runVars, sinkVars
<1>4. CASE CreateRun \/ WriteRun
  BY <1>4, <1>a
  DEF CreateRun, WriteRun, At, IInv, OpKnows, Loadable, NoRun, taskVars, sinkVars
<1>5. CASE IssueQuery \/ RecordTerminal \/ RecordSemanticError
  BY <1>5, <1>a
  DEF IssueQuery, RecordTerminal, RecordSemanticError, AtStep, RunTypes, taskVars, sinkVars
<1>6. CASE AcceptRepair
  BY <1>6, <1>a DEF AcceptRepair, RunAwaitsRepair, RunTypes, taskVars, sinkVars
<1>7. CASE AssembleFinal
  BY <1>7, <1>a DEF AssembleFinal, IInv, TypeOK, taskVars, sinkVars
<1>8. CASE ValidateFinal
  BY <1>8, <1>a DEF ValidateFinal, IInv, OpKnows, At, RunTypes, taskVars, sinkVars
<1>9. CASE StoreRunResult
  BY <1>9, <1>a DEF StoreRunResult, IInv, TypeOK, taskVars, runVars, Reject, sinkVars
<1>10. CASE StoreTaskResult
  BY <1>10, <1>a DEF StoreTaskResult, taskVars, runVars, Reject, sinkVars
<1> QED
  <2>1. ASSUME Next, ~UNCHANGED <<payload, snapshot, runVars, sinkVars>>
        PROVE  \/ WriteInitialState \/ CreateRun \/ WriteRun
               \/ IssueQuery \/ RecordTerminal \/ RecordSemanticError \/ AcceptRepair
               \/ AssembleFinal \/ ValidateFinal \/ StoreRunResult \/ StoreTaskResult
               \/ \E r \in Roots : FreezeSnapshot(r)
    <3>1. ~Call /\ ~Fail
      BY <2>1
      DEF Call, Fail, RunTask, ResumeTask, InitializeTask, RejectTask, SubmitRepair, Finalize,
          Reject, taskVars
    <3>2. ~(\/ ReplyPending \/ ReplyComplete \/ DefinitionFails \/ RootQueryFails
            \/ PreflightStops \/ PreflightContinues \/ ResumeRun \/ RejectRun
            \/ RecordRepairRequired \/ RecordWriteConclusion \/ ReplayRepair \/ RejectRepair
            \/ MachineResult \/ RefuseFinal \/ ReplayFinal \/ RejectFinal \/ RecordResult
            \/ WriteCompletedState)
      BY <2>1
      DEF ReplyPending, ReplyComplete, DefinitionFails, RootQueryFails, PreflightStops,
          PreflightContinues, AwaitMachineWriter, ResumeRun, RejectRun, RecordRepairRequired,
          RecordWriteConclusion, ReplayRepair, RejectRepair, MachineResult, RefuseFinal,
          ReplayFinal, RejectFinal, RecordResult, CompleteInvestigation, WriteCompletedState,
          Reject, taskVars
    <3> QED
      BY <2>1, <3>1, <3>2 DEF Next, Step
  <2> QED
    BY <2>1, <1>1, <1>2, <1>3, <1>4, <1>5, <1>6, <1>7, <1>8, <1>9, <1>10

\* What was settled stays: payload, snapshots, roots, processed repairs, finalized
\* runs and both sinks are write-once, and no cursor moves back.
THEOREM SettledForGood == Spec => Settled
<1>1. IInv /\ [Next]_vars => [SettledStays]_vars
  BY SettledStep
<1> QED
  BY <1>1, Inductive, PTL DEF Spec, Settled
-----------------------------------------------------------------------------
(* The coordinator implements TaskPromise: completing an investigation is  *)
(* Accept, the write of the task sink is Seal, every other step stutters.   *)

ResultsOf == [i \in Investigations |-> inv[i].result]

\* Completing an investigation is the Accept step of TaskPromise.
LEMMA AcceptIsPromised ==
  ASSUME IInv, NEW r \in Results, CompleteInvestigation(r),
         op.pc \in {"machine_result", "task_result"}
  PROVE  \E i \in Promise!Investigations : Promise!Accept(i)
<1>1. /\ index \in Investigations /\ index \in Nat /\ N \in Nat /\ index <= N
      /\ taskSink = None /\ inv[index].status = "awaiting_writer"
      /\ inv[index] \in InvestigationTypes
      /\ inv \in [Investigations -> InvestigationTypes]
  BY ConstantsAssumption
  DEF IInv, DiskInv, TypeOK, Investigations, OpKnows, Working, Finalizing, At,
      TaskSinkFaithful
<1>2. ResultsOf[index] = None
  BY <1>1 DEF IInv, DiskInv, StatusKnows, ResultsOf
<1>3. \A j \in 1..(index - 1) : ResultsOf[j] # None
  BY <1>1 DEF IInv, DiskInv, StatusKnows, SerialOrder, ResultsOf, Investigations
<1>4. ResultsOf' = [ResultsOf EXCEPT ![index] = r] /\ taskSink' = taskSink
  BY <1>1 DEF CompleteInvestigation, ResultsOf, InvestigationTypes, sinkVars
<1> QED
  BY <1>1, <1>2, <1>3, <1>4
  DEF Promise!Accept, Promise!Investigations, Investigations, ResultsOf

\* Writing the task sink is the Seal step of TaskPromise.
LEMMA SealIsPromised ==
  ASSUME IInv, StoreTaskResult PROVE Promise!Seal \/ UNCHANGED Promise!vars
<1>1. CASE taskSink' = taskSink
  <2>1. inv' = inv
    BY DEF StoreTaskResult, Reject, taskVars
  <2> QED
    BY <1>1, <2>1 DEF Promise!vars
<1>2. CASE taskSink' # taskSink
  <2>1. taskSink = None /\ taskSink' = TaskArtifact /\ inv' = inv /\ index = N + 1
    BY <1>2 DEF StoreTaskResult, Reject, taskVars, sinkVars
  <2>2. \A i \in Investigations : inv[i].result # None
    BY <2>1, ConstantsAssumption
    DEF IInv, DiskInv, SerialOrder, StatusKnows, Investigations
  <2> QED
    BY <2>1, <2>2 DEF Promise!Seal, Promise!Investigations, TaskArtifact, Investigations
<1> QED
  BY <1>1, <1>2

\* A step that is neither leaves results and task sink alone.
LEMMA OthersStutter ==
  ASSUME IInv, [Next]_vars, ~MachineResult, ~RecordResult, ~StoreTaskResult
  PROVE  UNCHANGED Promise!vars
<1> SUFFICES UNCHANGED <<ResultsOf, taskSink>>
  BY DEF Promise!vars, ResultsOf
<1>1. CASE UNCHANGED <<inv, taskSink>>
  BY <1>1 DEF ResultsOf
<1>2. ASSUME inv' = [inv EXCEPT ![index] = inv'[index]], inv'[index].result = inv[index].result,
             taskSink' = taskSink
      PROVE  UNCHANGED <<ResultsOf, taskSink>>
  <2>1. \A i \in Investigations : inv'[i].result = inv[i].result
    BY <1>2 DEF IInv, TypeOK
  <2> QED
    BY <1>2, <2>1 DEF ResultsOf
<1>3. inv \in [Investigations -> InvestigationTypes] /\ N \in Nat /\ index \in 1..(N + 1)
  BY ConstantsAssumption DEF IInv, TypeOK
<1>4. ASSUME AtPending, NEW mode, AwaitMachineWriter(mode)
      PROVE  UNCHANGED <<ResultsOf, taskSink>>
  BY <1>2, <1>3, <1>4
  DEF AtPending, AwaitMachineWriter, InvestigationTypes, Investigations, sinkVars
<1>5. CASE RecordRepairRequired \/ RecordWriteConclusion
  BY <1>2, <1>3, <1>5
  DEF RecordRepairRequired, RecordWriteConclusion, AtStep, At, IInv, OpKnows, Working,
      InvestigationTypes, Investigations, sinkVars
<1>6. CASE DefinitionFails \/ RootQueryFails \/ PreflightStops
  BY <1>4, <1>6 DEF DefinitionFails, RootQueryFails, PreflightStops, AtPreflight
<1>7. CASE Call \/ Fail
  BY <1>1, <1>7
  DEF Call, Fail, RunTask, ResumeTask, InitializeTask, RejectTask, SubmitRepair, Finalize,
      Reject, taskVars, sinkVars
<1>8. CASE \/ WriteInitialState \/ ReplyPending \/ ReplyComplete \/ PreflightContinues
           \/ \E r \in Roots : FreezeSnapshot(r)
           \/ CreateRun \/ WriteRun \/ ResumeRun \/ RejectRun
           \/ IssueQuery \/ RecordTerminal \/ RecordSemanticError
           \/ AcceptRepair \/ ReplayRepair \/ RejectRepair
           \/ AssembleFinal \/ ValidateFinal \/ RefuseFinal \/ ReplayFinal \/ RejectFinal
           \/ StoreRunResult \/ WriteCompletedState
  BY <1>1, <1>8
  DEF WriteInitialState, ReplyPending, ReplyComplete, PreflightContinues, FreezeSnapshot,
      CreateRun, WriteRun, ResumeRun, RejectRun, IssueQuery, RecordTerminal,
      RecordSemanticError, AcceptRepair, ReplayRepair, RejectRepair, AssembleFinal,
      ValidateFinal, RefuseFinal, ReplayFinal, RejectFinal, StoreRunResult,
      WriteCompletedState, Reject, taskVars, sinkVars
<1>9. CASE UNCHANGED vars
  BY <1>1, <1>9 DEF vars, taskVars, sinkVars
<1> QED
  BY <1>5, <1>6, <1>7, <1>8, <1>9 DEF Next, Step

\* Every behaviour of the coordinator, failures included, is one of TaskPromise.
THEOREM ImplementsPromise == Spec => KeepsPromise
<1>1. Init => Promise!Init
  BY DEF Init, Promise!Init, FreshInvestigation, Promise!Investigations, Investigations
<1>2. IInv /\ [Next]_vars => [Promise!Next]_Promise!vars
  <2> SUFFICES ASSUME IInv, [Next]_vars PROVE Promise!Next \/ UNCHANGED Promise!vars
    OBVIOUS
  <2>1. CASE MachineResult \/ RecordResult
    BY <2>1, AcceptedResult, AcceptIsPromised DEF Promise!Next
  <2>2. CASE StoreTaskResult
    BY <2>2, SealIsPromised DEF Promise!Next
  <2> QED
    BY <2>1, <2>2, OthersStutter
<1> QED
  BY <1>1, <1>2, Inductive, PTL DEF Spec, KeepsPromise, Promise!Spec
-----------------------------------------------------------------------------
(* The runs of the coordinator take the steps of RunContract.              *)

\* No step but these nine touches a run, and these touch the current one.
LEMMA RunsLeftAlone ==
  ASSUME IInv, [Next]_vars,
         ~(CreateRun \/ WriteRun \/ IssueQuery \/ RecordTerminal \/ RecordSemanticError
           \/ AcceptRepair \/ ValidateFinal)
  PROVE  UNCHANGED run
<1>1. CASE Call \/ Fail
  BY <1>1
  DEF Call, Fail, RunTask, ResumeTask, InitializeTask, RejectTask, SubmitRepair, Finalize,
      Reject, runVars
<1>2. CASE Step
  BY <1>2
  DEF Step, WriteInitialState, ReplyPending, ReplyComplete, DefinitionFails, RootQueryFails,
      PreflightStops, PreflightContinues, FreezeSnapshot, AwaitMachineWriter, ResumeRun,
      RejectRun, RecordRepairRequired, RecordWriteConclusion, ReplayRepair, RejectRepair,
      MachineResult, AssembleFinal, RefuseFinal, ReplayFinal, RejectFinal, StoreRunResult,
      RecordResult, CompleteInvestigation, StoreTaskResult, WriteCompletedState, Reject, runVars
<1>3. CASE UNCHANGED vars
  BY <1>3 DEF vars, runVars
<1> QED
  BY <1>1, <1>2, <1>3 DEF Next

\* Each of them is a step RunContract allows to that run, and only to that run.
LEMMA CurrentRunFollows ==
  ASSUME IInv, NEW i \in Investigations,
         CreateRun \/ WriteRun \/ IssueQuery \/ RecordTerminal \/ RecordSemanticError
           \/ AcceptRepair \/ ValidateFinal
  PROVE  RunOf(i)!Next \/ UNCHANGED run[i]
<1>1. /\ run \in [Investigations -> RunTypes] /\ op \in OpTypes
      /\ assembled \in [Investigations -> Patches \cup {None}]
      /\ index \in Nat
  BY ConstantsAssumption DEF IInv, TypeOK
<1>2. CASE i # index
  <2>1. run'[i] = run[i]
    BY <1>1, <1>2
    DEF CreateRun, WriteRun, IssueQuery, RecordTerminal, RecordSemanticError, AcceptRepair,
        ValidateFinal
  <2> QED
    BY <2>1
<1>3. CASE i = index
  <2>1. CASE CreateRun
    BY <1>1, <1>3, <2>1 DEF CreateRun, RunOf!Next, RunOf!Create
  <2>2. CASE WriteRun
    <3>1. op.root \in Roots /\ run[index].state = "dir"
      BY <1>1, <2>2 DEF WriteRun, At, IInv, OpKnows, OpTypes
    <3>2. RunOf(i)!Start(op.root)
      BY <1>1, <1>3, <2>2, <3>1 DEF WriteRun, RunOf!Start, RunTypes
    <3> QED
      BY <3>1, <3>2 DEF RunOf!Next
  <2>3. CASE IssueQuery
    BY <1>1, <1>3, <2>3 DEF IssueQuery, AtStep, RunTypes, RunOf!Next, RunOf!Issue, RunOf!At
  <2>4. CASE RecordTerminal
    BY <1>1, <1>3, <2>4 DEF RecordTerminal, AtStep, RunTypes, RunOf!Next, RunOf!Answer, RunOf!At
  <2>5. CASE RecordSemanticError
    BY <1>1, <1>3, <2>5
    DEF RecordSemanticError, AtStep, RunTypes, MaxRepairs, RunOf!Next, RunOf!Lock, RunOf!At,
        RunOf!MaxRepairs
  <2>6. CASE AcceptRepair
    BY <1>1, <1>3, <2>6
    DEF AcceptRepair, RunAwaitsRepair, CurrentRepair, RunTypes, RunOf!Next, RunOf!Repair,
        RunOf!At
  <2>7. CASE ValidateFinal
    <3>1. assembled[index] \in Patches \ Unsound /\ run[index].state = "queue_complete"
      BY <1>1, <1>3, <2>7, ConstantsAssumption DEF ValidateFinal, At, IInv, OpKnows, Finalizing
    <3>2. RunOf(i)!Finish(assembled[index])
      BY <1>1, <1>3, <2>7, <3>1 DEF ValidateFinal, RunOf!Finish, RunTypes
    <3> QED
      BY <3>1, <3>2 DEF RunOf!Next
  <2> QED
    BY <2>1, <2>2, <2>3, <2>4, <2>5, <2>6, <2>7
<1> QED
  BY <1>2, <1>3

\* Whatever the coordinator does to a run, over resumes, repairs and failures, the
\* run contract allows: the reduction of a run to its record is a sound one.
THEOREM RunsFollowContract == Spec => RunsKeepContract
<1>1. Init => \A i \in Investigations : RunOf(i)!Init
  BY DEF Init, NoRun, RunOf!Init, RunOf!NoRun
<1>2. IInv /\ [Next]_vars => [\A i \in Investigations : RunOf(i)!Next \/ UNCHANGED run[i]]_vars
  <2> SUFFICES ASSUME IInv, [Next]_vars, NEW i \in Investigations
               PROVE  RunOf(i)!Next \/ UNCHANGED run[i]
    OBVIOUS
  <2>1. CASE UNCHANGED run
    BY <2>1
  <2> QED
    BY <2>1, RunsLeftAlone, CurrentRunFollows
<1> QED
  BY <1>1, <1>2, Inductive, PTL DEF Spec, RunsKeepContract
=============================================================================
