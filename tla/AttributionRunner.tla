-------------------------- MODULE AttributionRunner --------------------------
(***************************************************************************)
(* One attribution run: runtime/runner.py with the loop that drives it     *)
(* (runtime/host_adapter.py, host_integration/service.py) for the analysis *)
(* profile primary_v1.                                                     *)
(*                                                                         *)
(* state.json is loaded as a whole, changed in memory and replaced as a    *)
(* whole; the SQL, event, export and final files are written one by one    *)
(* before it.  An operation is a worker with its own copy of the state, so *)
(* every action is one load with its checks, or one write, and a worker    *)
(* may die between any two.                                                *)
(*                                                                         *)
(* The task lock of host_service/runtime.py admits one worker at a time.   *)
(* A cancelled tool call gives the lock up and closes its DView session    *)
(* while the thread behind asyncio.to_thread runs on: Abandon.             *)
(***************************************************************************)
EXTENDS Naturals, Sequences, FiniteSets

CONSTANTS
  Workers,    \* operations that may be under way at once
  MayAbandon, \* whether a tool call may be cancelled
  K,          \* steps of the fixed queue
  RepairLimit, \* repairs of a step: 2 in the code, 1 in the largest runs
  Automatic,       \* steps the plan skips (automatic_status)
  Producing,  \* steps that produce candidates
  Query,      \* Query[k]: the registered SQL of step k
  Rewrites,   \* SQL texts a repair may submit and validate_repair admits
  QueryIds,   \* ids DView gives its queries
  Classes,    \* error classes DView answers with: only semantic_analysis is repairable
  Roots,      \* root metrics a candidate family may hook to
  Canonical,  \* the root the run is created with, None if self-reported
  Invalid,    \* a result the result validator refuses
  External,   \* events the command line may record
  Patches,    \* writer patches
  Unsound,    \* patches whose analysis the final validator refuses
  None

Queue == 1..K
SQLs == Rewrites \cup {Query[k] : k \in Queue}
Results == Roots \cup {Invalid}

QueryEvents ==
  [kind : {"query_returned"}, step : Queue, attempt : 0..RepairLimit, sql : SQLs,
   qid : QueryIds, body : Results]
  \cup
  [kind : {"query_error"}, step : Queue, attempt : 0..RepairLimit, sql : SQLs,
   qid : QueryIds, body : Classes]
RepairEvents ==
  [kind : {"repair_submitted"}, step : Queue, attempt : 1..RepairLimit, sql : Rewrites,
   qid : {None}, body : {None}]
Events == QueryEvents \cup RepairEvents

ASSUME RunnerAssumption ==
  /\ RepairLimit \in {1, 2} /\ "semantic_analysis" \in Classes
  /\ K \in Nat \ {0} /\ Automatic \subseteq Queue /\ K \notin Automatic
  /\ Producing \subseteq Queue \ Automatic
  /\ MayAbandon \in BOOLEAN
  /\ Canonical \in Roots \cup {None}
  /\ External \subseteq Events
  /\ Unsound \subseteq Patches
  /\ Invalid \notin Roots
  /\ None \notin Roots \cup Patches \cup QueryIds \cup SQLs \cup Events

VARIABLES
  created,   \* the run directory exists
  state,     \* state.json, or None
  sql,       \* sql/<step>-<attempt>.sql
  events,    \* the files of events/, by the event
  exported,  \* exports/attribution-execution.json
  assembled, \* final/assembled-analysis.json, by its patch
  op         \* what each worker is doing: volatile

disk == <<created, state, sql, events, exported, assembled>>
vars == <<disk, op>>
-----------------------------------------------------------------------------
Terminal == {"succeeded", "failed", "skipped_not_applicable"}

Current(s) == s.steps[s.cursor]
LastAttempt(step) == step.attempts[Len(step.attempts)]

\* The attempts of step k are numbered from 1 here and from 0 in the files.
Numbers(s, k) == 1..Len(s.steps[k].attempts)
Attempt(s, k, n) == s.steps[k].attempts[n]

Issued(text, e) == [status |-> "issued", sql |-> text, qid |-> None,
                    event |-> None, repair |-> e]

PendingStep == [status |-> "pending", attempts |-> <<>>, root |-> None]

InitialState ==
  [status |-> "active", cursor |-> 1, steps |-> [k \in Queue |-> PendingStep],
   root |-> Canonical, processed |-> {}, evidence |-> None, final |-> None]

NoOp == [call |-> "none", pc |-> "idle", mem |-> None, then |-> "idle",
         ticket |-> None, event |-> None, patch |-> None, abandoned |-> FALSE,
         died |-> FALSE]

Init ==
  /\ created = FALSE /\ state = None
  /\ sql = [ka \in Queue \X (0..RepairLimit) |-> None]
  /\ events = {} /\ exported = None /\ assembled = None
  /\ op = [w \in Workers |-> NoOp]

At(w, pc) == op[w].pc = pc
Idle(w) == At(w, "idle")
Goto(w, pc) == op' = [op EXCEPT ![w].pc = pc]
End(w) == op' = [op EXCEPT ![w] = NoOp]

\* The worker is new and no worker that still holds the lock is busy.
LockFree(w) == Idle(w) /\ \A v \in Workers : Idle(v) \/ op[v].abandoned

Begin(w, call, pc, e, p) ==
  op' = [op EXCEPT ![w] = [NoOp EXCEPT !.call = call, !.pc = pc,
                                       !.event = e, !.patch = p]]

\* The new state is in memory; the next step of w replaces the file.
Commit(w, s, pc) == op' = [op EXCEPT ![w].pc = "write", ![w].mem = s, ![w].then = pc]
-----------------------------------------------------------------------------
(* _load_state: what _validate_state_contract accepts.                     *)

AttemptAccepted(k, n, a) ==
  /\ n <= RepairLimit + 1
  /\ sql[<<k, n - 1>>] = a.sql
  /\ a.status # "issued" => a.qid # None
  /\ (n = 1) <=> (a.repair = None)

AttemptContract(s) ==
  \A k \in Queue : \A n \in Numbers(s, k) : AttemptAccepted(k, n, Attempt(s, k, n))

QueryIdContract(s) ==
  \A k, l \in Queue : \A m \in Numbers(s, k), n \in Numbers(s, l) :
    /\ Attempt(s, k, m).qid # None
    /\ Attempt(s, k, m).qid = Attempt(s, l, n).qid
    => k = l /\ m = n

CursorContract(s) ==
  /\ s.cursor \in 1..(K + 1)
  /\ \A k \in Queue :
       /\ k < s.cursor => s.steps[k].status \in Terminal
       /\ k = s.cursor => s.steps[k].status \notin Terminal
       /\ k > s.cursor => s.steps[k].status = "pending"

StepContract(s) ==
  \A k \in Queue :
    LET step == s.steps[k] IN
      \/ step.status = "pending" /\ step.attempts = <<>>
      \/ step.status = "skipped_not_applicable" /\ k \in Automatic /\ step.attempts = <<>>
      \/ /\ step.attempts # <<>>
         /\ LET a == LastAttempt(step) IN
              \/ step.status = "in_progress" /\ a.status = "issued"
              \/ step.status = "succeeded" /\ a.status = "succeeded"
              \/ step.status = "failed" /\ a.status \in {"failed", "error"}
              \/ /\ step.status = "repair_required" /\ a.status = "error"
                 /\ a.event.body = "semantic_analysis"
                 /\ Len(step.attempts) <= RepairLimit

RootContract(s) ==
  \A k \in Queue : IF s.steps[k].status = "succeeded" /\ k \in Producing
                   THEN s.steps[k].root # None /\ s.steps[k].root = s.root
                   ELSE s.steps[k].root = None

RunStatusContract(s) ==
  IF s.cursor <= K
  THEN s.status = "active" /\ s.evidence = None /\ s.final = None
  ELSE \/ s.status = "queue_complete" /\ s.final = None
       \/ s.status = "finalized" /\ s.evidence # None /\ s.final # None

StateContract(s) == /\ AttemptContract(s) /\ QueryIdContract(s) /\ CursorContract(s)
                    /\ StepContract(s) /\ RootContract(s) /\ RunStatusContract(s)

Loadable == state # None /\ StateContract(state)

\* An operation that loads a state the contract refuses, or finds none, ends.
RefuseState(w) ==
  /\ op[w].pc \in {"next", "record", "export", "validate"} /\ ~Loadable
  /\ End(w) /\ UNCHANGED disk
-----------------------------------------------------------------------------
(* xuanji_run_investigation: init_run(resume=True), then the query loop.   *)
(* The arguments are the run's own here; TaskCoordinator changes them.     *)

RunInvestigation(w) ==
  /\ LockFree(w)
  /\ \/ Loadable /\ Begin(w, "run", "next", None, None) /\ UNCHANGED created
     \/ /\ ~created /\ created' = TRUE
        /\ op' = [op EXCEPT ![w] = [NoOp EXCEPT !.call = "run", !.pc = "write",
                                      !.mem = InitialState, !.then = "next"]]
  /\ UNCHANGED <<state, sql, events, exported, assembled>>

WriteState(w) ==
  /\ At(w, "write")
  /\ state' = op[w].mem
  /\ IF op[w].then = "idle"
     THEN End(w)
     ELSE op' = [op EXCEPT ![w].pc = op[w].then, ![w].mem = None, ![w].then = "idle"]
  /\ UNCHANGED <<created, sql, events, exported, assembled>>
-----------------------------------------------------------------------------
(* next_action.  submit_repair calls it first and goes on only with a      *)
(* repair ticket, though next_action may have issued a query by then.      *)

Resubmitting(w) == op[w].event # None

\* The automatic steps at the cursor are skipped on the way.
NextManual(s) == CHOOSE k \in s.cursor..(K + 1) :
                   k \notin Automatic /\ \A j \in s.cursor..(k - 1) : j \in Automatic
Skipped(s) ==
  [s EXCEPT !.cursor = NextManual(s),
            !.steps = [k \in Queue |->
              IF k \in s.cursor..(NextManual(s) - 1)
              THEN [s.steps[k] EXCEPT !.status = "skipped_not_applicable"]
              ELSE s.steps[k]]]

\* Mutant: a repair takes the place of the attempt it repairs.
WithAttemptInPlace(s, a) ==
  [s EXCEPT !.steps[s.cursor].status = "in_progress",
            !.steps[s.cursor].attempts = Append(SubSeq(@, 1, Len(@) - 1), a)]

WithAttempt(s, a) ==
  [s EXCEPT !.steps[s.cursor].status = "in_progress",
            !.steps[s.cursor].attempts = Append(@, a)]

Ticket(s) == [step |-> s.cursor, attempt |-> Len(Current(s).attempts) - 1,
              sql |-> LastAttempt(Current(s)).sql]

AtNext(w) == At(w, "next") /\ Loadable

\* The SQL file is written before the state that names it.
IssueQuery(w) ==
  /\ AtNext(w) /\ state.cursor <= K
  /\ LET s == Skipped(state)
         issued == WithAttempt(s, Issued(Query[s.cursor], None))
     IN /\ Current(s).status = "pending"
        /\ sql' = [sql EXCEPT ![<<s.cursor, 0>>] = Query[s.cursor]]
        /\ op' = [op EXCEPT ![w].pc = "write", ![w].mem = issued, ![w].then = "ticket",
                            ![w].ticket = Ticket(issued)]
  /\ UNCHANGED <<created, state, events, exported, assembled>>

\* Mutant: a query that was out when its worker died is not asked again.
ResumeQueryNever(w) == AtNext(w) /\ FALSE /\ UNCHANGED vars

ResumeQuery(w) ==
  /\ AtNext(w) /\ state.cursor <= K /\ Current(state).status = "in_progress"
  /\ op' = [op EXCEPT ![w].pc = "ticket", ![w].ticket = Ticket(state)]
  /\ UNCHANGED disk

\* _execution_ticket reads the SQL file back and compares its hash.
ExecutionTicket(w) ==
  /\ At(w, "ticket")
  /\ LET t == op[w].ticket IN
       IF sql[<<t.step, t.attempt>>] = t.sql /\ ~Resubmitting(w) THEN Goto(w, "query") ELSE End(w)
  /\ UNCHANGED disk

RepairTicket(w) ==
  /\ AtNext(w) /\ state.cursor <= K /\ Current(state).status = "repair_required"
  /\ IF Resubmitting(w) THEN Goto(w, "record") ELSE End(w)
  /\ UNCHANGED disk

\* _execute_until_model_action exports the evidence for the writer pack.
QueueComplete(w) ==
  /\ AtNext(w) /\ state.cursor = K + 1
  /\ IF Resubmitting(w) THEN End(w) ELSE Goto(w, "export")
  /\ UNCHANGED disk
-----------------------------------------------------------------------------
(* DView answers the query of the ticket.  An answer without a query id is *)
(* an exception (Fail), and so is a query on a session that was closed.    *)

DViewAnswers(w, kind, q, b) ==
  /\ At(w, "query") /\ ~op[w].abandoned
  /\ LET t == op[w].ticket IN
       op' = [op EXCEPT ![w].pc = "record", ![w].ticket = None,
                        ![w].event = [kind |-> kind, step |-> t.step, attempt |-> t.attempt,
                                      sql |-> t.sql, qid |-> q, body |-> b]]
  /\ UNCHANGED disk

\* Nothing tells one id from another: of the ids nobody has seen, one will do.
Seen == {e.qid : e \in (events \cup {op[v].event : v \in Workers}) \ {None}} \ {None}
Offered == Seen \cup (IF QueryIds = Seen THEN {} ELSE {CHOOSE q \in QueryIds : q \notin Seen})

DViewReturns(w) == \E q \in Offered, b \in Results : DViewAnswers(w, "query_returned", q, b)
DViewFails(w) == \E q \in Offered, c \in Classes : DViewAnswers(w, "query_error", q, c)
-----------------------------------------------------------------------------
(* record.                                                                 *)

UsedIds(s) ==
  UNION {{Attempt(s, k, n).qid : n \in Numbers(s, k)} : k \in Queue}

\* Mutants: the attempt number is not compared; a query id may come back.
AnswersAttemptBySQL(s, e) ==
  e.sql = LastAttempt(Current(s)).sql /\ e.qid \notin UsedIds(s)
AnswersAttemptAnyId(s, e) ==
  e.attempt = Len(Current(s).attempts) - 1 /\ e.sql = LastAttempt(Current(s)).sql

\* The event answers the attempt that is out, with an id never seen before.
AnswersAttempt(s, e) ==
  /\ e.attempt = Len(Current(s).attempts) - 1
  /\ e.sql = LastAttempt(Current(s)).sql
  /\ e.qid \notin UsedIds(s)

QueryRecordable(s, e) ==
  /\ e \in QueryEvents
  /\ s.cursor <= K /\ e.step = s.cursor /\ Current(s).status = "in_progress"
  /\ AnswersAttempt(s, e)

RepairRecordable(s, e) ==
  /\ e \in RepairEvents
  /\ s.cursor <= K /\ e.step = s.cursor /\ Current(s).status = "repair_required"
  /\ e.attempt = Len(Current(s).attempts) /\ e.sql # LastAttempt(Current(s)).sql

\* A family must hook to the root of the run; the first one sets it if there is none.
OffRoot(s, e) == s.cursor \in Producing /\ s.root # None /\ e.body # s.root

Outcome(s, e) == IF e.kind = "query_error" THEN "error"
                 ELSE IF e.body = Invalid \/ OffRoot(s, e) THEN "failed" ELSE "succeeded"

\* Mutant: a third repair is offered.
RepairableOnceMore(e) ==
  e.kind = "query_error" /\ e.body = "semantic_analysis" /\ e.attempt <= RepairLimit

Repairable(e) ==
  e.kind = "query_error" /\ e.body = "semantic_analysis" /\ e.attempt < RepairLimit

Recorded(s, e) ==
  LET k == s.cursor
      n == Len(Current(s).attempts)
      outcome == Outcome(s, e)
      hooks == outcome = "succeeded" /\ k \in Producing
      answered == [LastAttempt(Current(s)) EXCEPT !.status = outcome, !.qid = e.qid, !.event = e]
      status == IF Repairable(e) THEN "repair_required"
                ELSE IF outcome = "succeeded" THEN "succeeded" ELSE "failed"
  IN [s EXCEPT
       !.steps[k] = [status |-> status, root |-> IF hooks THEN e.body ELSE None,
                     attempts |-> [Current(s).attempts EXCEPT ![n] = answered]],
       !.root = IF hooks THEN e.body ELSE @,
       !.processed = @ \cup {e},
       !.cursor = IF Repairable(e) THEN @ ELSE @ + 1,
       !.status = IF ~Repairable(e) /\ k = K THEN "queue_complete" ELSE @]

Repaired(s, e) == [WithAttempt(s, Issued(e.sql, e)) EXCEPT !.processed = @ \cup {e}]

AtRecord(w) == At(w, "record") /\ Loadable
AfterRecord(w) == IF op[w].call = "record" THEN "idle" ELSE "next"

RecordReplay(w) ==
  /\ AtRecord(w) /\ op[w].event \in state.processed
  /\ op' = [op EXCEPT ![w].pc = "next", ![w].event = None]
  /\ UNCHANGED disk

RecordRefuses(w) ==
  /\ AtRecord(w) /\ op[w].event \notin state.processed
  /\ ~QueryRecordable(state, op[w].event) /\ ~RepairRecordable(state, op[w].event)
  /\ End(w) /\ UNCHANGED disk

\* The event file, then the state.
RecordQuery(w) ==
  /\ AtRecord(w) /\ op[w].event \notin state.processed /\ QueryRecordable(state, op[w].event)
  /\ op' = [op EXCEPT ![w].pc = "log", ![w].mem = Recorded(state, op[w].event)]
  /\ UNCHANGED disk

\* _record_repair: the SQL file, the event file, then the state.
RecordRepair(w) ==
  /\ AtRecord(w) /\ op[w].event \notin state.processed /\ RepairRecordable(state, op[w].event)
  /\ sql' = [sql EXCEPT ![<<op[w].event.step, op[w].event.attempt>>] = op[w].event.sql]
  /\ op' = [op EXCEPT ![w].pc = "log", ![w].mem = Repaired(state, op[w].event)]
  /\ UNCHANGED <<created, state, events, exported, assembled>>

\* An event file that no state refers to is never read: the model forgets it.
Referenced(workers) ==
  UNION {s.processed : s \in ({state} \cup {op[v].mem : v \in workers}) \ {None}}

LogEvent(w) ==
  /\ At(w, "log")
  /\ events' = (events \cap Referenced(Workers)) \cup {op[w].event}
  /\ op' = [op EXCEPT ![w].pc = "write", ![w].then = AfterRecord(w), ![w].event = None]
  /\ UNCHANGED <<created, state, sql, exported, assembled>>

\* xuanji_submit_repair: any repair packet, the current one or not.
SubmitRepair(w, e) ==
  /\ LockFree(w) /\ Loadable
  /\ Begin(w, "run", "next", e, None)
  /\ UNCHANGED disk

\* "python3 -m runtime.runner record": one event, with no loop after it.  What
\* record refuses or has processed leaves no trace, so only the rest begins.
RecordExternal(w, e) ==
  /\ LockFree(w) /\ Loadable /\ e \notin state.processed /\ e.qid \in Offered \cup {None}
  /\ QueryRecordable(state, e) \/ RepairRecordable(state, e)
  /\ Begin(w, "record", "record", e, None)
  /\ UNCHANGED disk
-----------------------------------------------------------------------------
(* export, assemble_final and validate_final.                              *)

LastQueryId(step) ==
  LET ids == {n \in 1..Len(step.attempts) : step.attempts[n].qid # None}
  IN IF ids = {} THEN None
     ELSE step.attempts[CHOOSE n \in ids : \A m \in ids : m <= n].qid

Evidence(s) == [k \in Queue |-> [status |-> s.steps[k].status, qid |-> LastQueryId(s.steps[k])]]

AfterExport(w) == IF op[w].call = "finalize" THEN "assemble" ELSE "idle"

\* Mutant: the last step need not be terminal.
ExportableEarly(s) == s.cursor >= K

Exportable(s) == s.cursor = K + 1

AtExport(w) == At(w, "export") /\ Loadable

ExportRefuses(w) ==
  /\ AtExport(w)
  /\ \/ ~Exportable(state)
     \/ state.evidence # None /\ (state.evidence # Evidence(state) \/ exported # state.evidence)
  /\ End(w) /\ UNCHANGED disk

\* Evidence is exported once: the file, then its hash in the state.
Export(w) ==
  /\ AtExport(w) /\ Exportable(state) /\ state.evidence = None
  /\ exported' = Evidence(state)
  /\ Commit(w, [state EXCEPT !.evidence = Evidence(state)], AfterExport(w))
  /\ UNCHANGED <<created, state, sql, events, assembled>>

ExportAgain(w) ==
  /\ AtExport(w) /\ Exportable(state)
  /\ state.evidence # None /\ state.evidence = Evidence(state) /\ exported = state.evidence
  /\ IF AfterExport(w) = "idle" THEN End(w) ELSE Goto(w, AfterExport(w))
  /\ UNCHANGED disk

\* Mutant: a finalized run is assembled again.
FinalizeAnytime(w, p) ==
  /\ LockFree(w) /\ Loadable
  /\ Begin(w, "finalize", "export", None, p)
  /\ UNCHANGED disk

\* xuanji_finalize of a run that is not finalized yet.  A finalized run only
\* compares artifacts and answers, so nothing begins.
Finalize(w, p) ==
  /\ LockFree(w) /\ Loadable /\ state.status # "finalized"
  /\ Begin(w, "finalize", "export", None, p)
  /\ UNCHANGED disk

AssembleFinal(w) ==
  /\ At(w, "assemble")
  /\ assembled' = op[w].patch
  /\ Goto(w, "validate")
  /\ UNCHANGED <<created, state, sql, events, exported>>

Finalizable == state.status = "queue_complete" /\ state.evidence # None

ValidateFinal(w) ==
  /\ At(w, "validate") /\ Loadable /\ Finalizable /\ assembled \notin Unsound
  /\ Commit(w, [state EXCEPT !.status = "finalized", !.final = assembled], "idle")
  /\ UNCHANGED disk

\* Refused, or the receipt of a run that was finalized meanwhile.
ValidateEnds(w) ==
  /\ At(w, "validate") /\ Loadable /\ ~(Finalizable /\ assembled \notin Unsound)
  /\ End(w) /\ UNCHANGED disk
-----------------------------------------------------------------------------
\* An exception or the death of the process, the only end that leaves a mark.
Fail(w) ==
  /\ ~Idle(w)
  /\ op' = [op EXCEPT ![w] = [NoOp EXCEPT !.died = TRUE]]
  /\ events' = events \cap Referenced(Workers \ {w})
  /\ UNCHANGED <<created, state, sql, exported, assembled>>

Abandon(w) ==
  /\ MayAbandon /\ ~Idle(w) /\ ~op[w].abandoned
  /\ op' = [op EXCEPT ![w].abandoned = TRUE]
  /\ UNCHANGED disk

Local(w) ==
  \/ RefuseState(w) \/ WriteState(w)
  \/ IssueQuery(w) \/ ResumeQuery(w) \/ ExecutionTicket(w) \/ RepairTicket(w) \/ QueueComplete(w)
  \/ RecordReplay(w) \/ RecordRefuses(w) \/ RecordQuery(w) \/ RecordRepair(w) \/ LogEvent(w)
  \/ ExportRefuses(w) \/ Export(w) \/ ExportAgain(w)
  \/ AssembleFinal(w) \/ ValidateFinal(w) \/ ValidateEnds(w)

Step(w) == Local(w) \/ DViewReturns(w) \/ DViewFails(w)

Call(w) ==
  \/ RunInvestigation(w)
  \/ \E e \in RepairEvents : SubmitRepair(w, e)
  \/ \E e \in External : RecordExternal(w, e)
  \/ \E p \in Patches : Finalize(w, p)

Next == \E w \in Workers : Call(w) \/ Step(w) \/ Fail(w) \/ Abandon(w)

Spec == Init /\ [][Next]_vars
-----------------------------------------------------------------------------
(* Properties.                                                             *)

Attempts == [status : {"issued", "succeeded", "failed", "error"}, sql : SQLs,
             qid : QueryIds \cup {None}, event : QueryEvents \cup {None},
             repair : RepairEvents \cup {None}]
StepTypes == [status : Terminal \cup {"pending", "in_progress", "repair_required"},
              attempts : Seq(Attempts), root : Roots \cup {None}]
EvidenceTypes == [Queue -> [status : Terminal, qid : QueryIds \cup {None}]]
States == [status : {"active", "queue_complete", "finalized"}, cursor : 1..(K + 1),
           steps : [Queue -> StepTypes], root : Roots \cup {None},
           processed : SUBSET Events, evidence : EvidenceTypes \cup {None},
           final : Patches \cup {None}]
Tickets == [step : Queue, attempt : 0..RepairLimit, sql : SQLs]
PCs == {"idle", "write", "next", "ticket", "query", "record", "log", "export",
        "assemble", "validate"}
OpTypes == [call : {"none", "run", "record", "finalize"}, pc : PCs, mem : {None} \cup States,
            then : PCs, ticket : {None} \cup Tickets, event : {None} \cup Events,
            patch : {None} \cup Patches, abandoned : BOOLEAN, died : BOOLEAN]

ASSUME NoneAssumption == None \notin States \cup Tickets \cup EvidenceTypes

\* Every field of the state file, the other files and the workers has its type.
TypeOK ==
  /\ created \in BOOLEAN
  /\ state = None \/ state \in States
  /\ sql \in [Queue \X (0..RepairLimit) -> SQLs \cup {None}]
  /\ events \subseteq Events
  /\ exported = None \/ exported \in EvidenceTypes
  /\ assembled \in Patches \cup {None}
  /\ op \in [Workers -> OpTypes]

\* Whatever instant an operation dies at, the state on disk is one that the
\* strict loader accepts, SQL files included: a run can always be resumed.
StateLoads == state # None => StateContract(state)

Consistent(s) ==
  /\ QueryIdContract(s) /\ CursorContract(s) /\ StepContract(s)
  /\ RootContract(s) /\ RunStatusContract(s)

\* Even when workers overwrite each other, a state file is never a mixture: it
\* satisfies all of the loader's contract that does not look at other files.
StateConsistent == state # None => Consistent(state)

Fits(e, k, n, a) == e.step = k /\ e.attempt = n - 1 /\ e.sql = a.sql

EventsPlaced(s) ==
  /\ \A k \in Queue : \A n \in Numbers(s, k) :
       LET a == Attempt(s, k, n) IN
         /\ a.event # None => a.event \in s.processed /\ Fits(a.event, k, n, a) /\ a.event.qid = a.qid
         /\ a.repair # None => a.repair \in s.processed /\ Fits(a.repair, k, n, a)
  /\ \A e \in s.processed : \E k \in Queue : \E n \in Numbers(s, k) :
       e \in {Attempt(s, k, n).event, Attempt(s, k, n).repair}

\* Each processed event stands in exactly the attempt it answers or opens, with
\* that attempt's number, SQL and query id; there are no others, and the file of
\* every one of them was written first.
EventsOnce == state # None => EventsPlaced(state) /\ state.processed \subseteq events

\* The exported evidence is what the finished queue says and stays so; a run is
\* finalized with the patch its assembled file holds, and that passed validation.
EvidenceFaithful ==
  /\ exported # None => state # None /\ state.cursor = K + 1 /\ exported = Evidence(state)
  /\ state # None =>
       /\ state.evidence # None => state.evidence = exported
       /\ state.final # None => state.final = assembled /\ state.final \notin Unsound

\* What a step that finds the state s must keep of it in the state t it leaves.
Advances(s, t) ==
  /\ t.cursor >= s.cursor
  /\ \A k \in Queue :
       /\ s.steps[k].status \in Terminal => t.steps[k] = s.steps[k]
       /\ \A n \in Numbers(s, k) :
            /\ n \in Numbers(t, k)
            /\ Attempt(t, k, n).sql = Attempt(s, k, n).sql
            /\ Attempt(s, k, n).status # "issued" => Attempt(t, k, n) = Attempt(s, k, n)
  /\ s.root # None => t.root = s.root
  /\ s.processed \subseteq t.processed
  /\ s.evidence # None => t.evidence = s.evidence
  /\ s.status = "finalized" => t = s

GoesForward == state # None => state' # None /\ Advances(state, state')

\* A run only goes forward: the cursor, the attempts, the processed events and
\* the root are kept, terminal steps, answered attempts, the evidence and a
\* finalized run are never rewritten.
Forward == [][GoesForward]_vars

\* The run as the coordinator sees it.
QueryNumber(k) == Cardinality({j \in 1..k : j \notin Automatic})
Repairs(s) == {<<QueryNumber(e.step), e.attempt>> : e \in s.processed \cap RepairEvents}
AtCursor(s) == IF s.cursor > K THEN PendingStep ELSE Current(s)
RunOf(s) ==
  [state |-> s.status, root |-> Canonical, cursor |-> QueryNumber(s.cursor - 1),
   attempt |-> IF AtCursor(s).attempts = <<>> THEN 0 ELSE Len(AtCursor(s).attempts) - 1,
   step |-> AtCursor(s).status, repairs |-> Repairs(s), final |-> s.final]
AbstractRun ==
  IF state # None THEN RunOf(state)
  ELSE [state |-> IF created THEN "dir" ELSE "absent", root |-> None, cursor |-> 0,
        attempt |-> 0, step |-> "pending", repairs |-> {}, final |-> None]

Contract == INSTANCE RunContract
              WITH run <- AbstractRun, Steps <- QueryNumber(K),
                   Roots <- {Canonical}, Patches <- Patches \ Unsound

\* The run with all its files, events and crashes takes the steps of the abstract
\* run that TaskCoordinator is built on, and no others.
KeepsRunContract == Contract!Spec
-----------------------------------------------------------------------------
(* The inductive invariants of the proofs (AttributionRunnerProofs).  The  *)
(* first holds of every behavior; the second of those without a cancelled  *)
(* call, where one worker at a time has the files for itself.              *)

\* What StateContract leaves open of attempts and of automatic steps.
Shaped(n, a) ==
  /\ n <= RepairLimit + 1
  /\ IF a.status = "issued" THEN a.qid = None /\ a.event = None
     ELSE a.qid # None /\ a.event # None
  /\ (n = 1) <=> (a.repair = None)

AttemptShape(s) ==
  /\ \A k \in Queue : \A n \in Numbers(s, k) : Shaped(n, Attempt(s, k, n))
  /\ \A k \in Automatic : s.steps[k].attempts = <<>>
                    /\ s.steps[k].status \in {"pending", "skipped_not_applicable"}

WellFormed(s) == s \in States /\ Consistent(s) /\ AttemptShape(s) /\ EventsPlaced(s)

\* What a worker knows at each pc, whatever other workers write meanwhile.
WorkerKnows(w) ==
  /\ op[w].mem # None <=> op[w].pc \in {"log", "write"}
  /\ op[w].mem # None => created /\ WellFormed(op[w].mem)
  /\ op[w].pc \in {"record", "log"} => op[w].event # None
  /\ op[w].pc \in {"ticket", "query"} => op[w].ticket # None
  /\ At(w, "log") => op[w].mem.processed \subseteq events \cup {op[w].event}
  /\ At(w, "write") => op[w].mem.processed \subseteq events
  /\ op[w].call = "finalize" =>
       /\ op[w].patch # None /\ op[w].pc \in {"export", "write", "assemble", "validate"}
       /\ op[w].then \in {"idle", "assemble"}
  /\ "assemble" \in {op[w].pc, op[w].then} => op[w].call = "finalize"
  /\ op[w].then \in {"idle", "next", "ticket", "assemble"}
  /\ op[w].then # "idle" => At(w, "write")
  /\ op[w].then = "ticket" => op[w].ticket # None
  /\ At(w, "validate") => assembled # None

Inv ==
  /\ TypeOK
  /\ state # None => created /\ WellFormed(state) /\ state.processed \subseteq events
  /\ \A w \in Workers : WorkerKnows(w)

\* What an operation makes of the state s it loads.
Asked(s) == LET t == Skipped(s) IN WithAttempt(t, Issued(Query[t.cursor], None))
Finished(s, p) == [s EXCEPT !.status = "finalized", !.final = p]

Follows(s, m) ==
  \/ s.cursor <= K /\ Current(Skipped(s)).status = "pending" /\ m = Asked(s)
  \/ \E e \in Events \ s.processed :
       \/ QueryRecordable(s, e) /\ m = Recorded(s, e)
       \/ RepairRecordable(s, e) /\ m = Repaired(s, e)
  \/ Exportable(s) /\ s.evidence = None /\ m = [s EXCEPT !.evidence = Evidence(s)]
  \/ /\ s.status = "queue_complete" /\ s.evidence # None
     /\ \E p \in Patches \ Unsound : m = Finished(s, p)

\* The other files are those that the state s names.
Filed(s, files) ==
  \A k \in Queue : \A n \in Numbers(s, k) : files[<<k, n - 1>>] = Attempt(s, k, n).sql

FilesAgree(s, files, evidence, final) ==
  s # None =>
    /\ Filed(s, files)
    /\ s.evidence # None => s.evidence = evidence
    /\ s.final # None => s.final = final /\ s.final \notin Unsound

\* The state in the memory of the one worker follows from the state on disk, and
\* the other files are those of both.
Serial ==
  /\ \A v, w \in Workers : ~Idle(v) /\ ~Idle(w) => v = w
  /\ \A w \in Workers : ~op[w].abandoned
  /\ exported # None => state # None /\ state.cursor = K + 1 /\ exported = Evidence(state)
  /\ FilesAgree(state, sql, exported, assembled)
  /\ \A w \in Workers :
       /\ FilesAgree(op[w].mem, sql, exported, assembled)
       /\ op[w].mem # None =>
            IF state = None THEN op[w].mem = InitialState ELSE Follows(state, op[w].mem)
       /\ op[w].then = "assemble" => op[w].mem.final = None
       /\ op[w].call = "finalize" /\ ~Idle(w) => state # None /\ state.final = None
-----------------------------------------------------------------------------
(* Liveness.  A worker runs on until it returns or dies.  The caller keeps *)
(* sending run_task, and a repair of the current step once it is asked for *)
(* one; DView does not repeat its query ids for ever.                      *)

FreshAnswer(w) ==
  state # None /\ \E q \in Offered \ UsedIds(state) :
    \/ \E b \in Results : DViewAnswers(w, "query_returned", q, b)
    \/ \E c \in Classes : DViewAnswers(w, "query_error", q, c)

RelayRepair(w) ==
  \E e \in RepairEvents : state # None /\ RepairRecordable(state, e) /\ SubmitRepair(w, e)

Fairness ==
  \A w \in Workers :
    /\ WF_vars(Step(w)) /\ SF_vars(FreshAnswer(w))
    /\ SF_vars(RunInvestigation(w)) /\ SF_vars(RelayRepair(w))

FairSpec == Spec /\ Fairness

\* If operations die only finitely often, the queue completes and its evidence is
\* exported for the writer.  The exception is a directory without state.json, left
\* by a death between the two writes that create a run: it is refused for ever.
QueueCompletes ==
  /\ <>[](\A w \in Workers : ~op[w].died)
  /\ ~<>[](created /\ state = None)
  => <>(state # None /\ state.evidence # None)
=============================================================================
