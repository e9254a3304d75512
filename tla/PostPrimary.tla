----------------------------- MODULE PostPrimary -----------------------------
(***************************************************************************)
(* The post-primary analysis of a run of the profile primary_v2, from the  *)
(* complete primary queue to the exported evidence: runtime/runner.py and  *)
(* runtime/post_primary_executor.py, driven by runtime/host_adapter.py.    *)
(*                                                                         *)
(* As in AttributionRunner an operation loads the state as a whole and     *)
(* replaces it as a whole, after the SQL, event and export files that it   *)
(* refers to, and may die between any two writes.  One operation runs at a *)
(* time; the interleavings of several are the subject of AttributionRunner.*)
(***************************************************************************)
EXTENDS PostPrimaryPlan

CONSTANT
  Cases \* the evidence a primary queue may end with; each with the error classes
        \* DView answers with (classes) and the number of answers the operator of
        \* a self-reported run keeps to record later (keeps)

VARIABLES
  ev,       \* the evidence of the primary queue, frozen
  state,    \* the post-primary fields of state.json
  sql,      \* sql/<path id>-<attempt>.sql
  events,   \* the files of events/, by the event
  exported, \* exports/attribution-execution.json
  kept,     \* answers that were not recorded when they came
  op        \* the operation under way: volatile

files == <<sql, events, exported>>
vars == <<ev, state, files, kept, op>>

Keys == ((Asking \ {"game_background"}) \X {0}) \cup ({"game_background"} \X (1..BackgroundGames))

-----------------------------------------------------------------------------
States(e) ==
  [ready : BOOLEAN, post : Posts(e) \cup {None}, processed : SUBSET Events(e),
   evidence : Reports \cup {None}]

\* Nothing a variable may hold is None.
ASSUME CasesAssumption == \A e \in Cases : None \notin Posts(e) \cup Events(e)
-----------------------------------------------------------------------------
NoOp == [pc |-> "idle", mem |-> None, then |-> "idle", ticket |-> None, event |-> None,
         once |-> FALSE, died |-> FALSE]

Init ==
  /\ ev \in Cases
  /\ state = [ready |-> FALSE, post |-> None, processed |-> {}, evidence |-> None]
  /\ sql = [pn \in {PathId(key) : key \in Keys} \X (0..RepairLimit) |-> None]
  /\ events = {} /\ exported = None /\ kept = {} /\ op = NoOp

At(pc) == op.pc = pc
Idle == At("idle")
Goto(pc) == op' = [op EXCEPT !.pc = pc]
End == op' = NoOp
Commit(s, pc) == op' = [op EXCEPT !.pc = "write", !.mem = s, !.then = pc]
-----------------------------------------------------------------------------
(* _load_state.                                                            *)

RunHolds(s) ==
  /\ s.ready <=> s.post # None /\ s.post.status = "completed"
  /\ s.evidence # None => s.ready

StateContract(s) ==
  /\ RunHolds(s)
  /\ s.post # None =>
       /\ Identity(s.post)
       /\ SecondarySelected(ev, s.post) /\ BackgroundSelected(ev, s.post)
       /\ ErrorCodeSelected(ev, s.post) /\ OverlapSelected(ev, s.post)
       /\ SecondaryLoads(s.post, sql, events, s.processed)
       /\ BackgroundItemsLoad(s.post, sql, events, s.processed)
       /\ ErrorCodeLoads(s.post, sql, events, s.processed)
       /\ OverlapLoads(s.post, sql, events, s.processed)
       /\ QueryIdsDiffer(s.post)
       /\ PlanHolds(ev, s.post)
-----------------------------------------------------------------------------
(* xuanji_run_investigation: next_action in a loop.                        *)

RunInvestigation ==
  /\ Idle
  /\ op' = [NoOp EXCEPT !.pc = "next"]
  /\ UNCHANGED <<ev, state, files, kept>>

WriteState ==
  /\ At("write")
  /\ state' = op.mem
  /\ IF op.then = "idle" THEN End
     ELSE op' = [op EXCEPT !.pc = op.then, !.mem = None, !.then = "idle"]
  /\ UNCHANGED <<ev, files, kept>>

\* _ensure_post_primary: the plan is created, carried on and, if that changed
\* anything, saved; then the operation goes on at pc.
WithPost(s, post) == [s EXCEPT !.post = post, !.ready = post.status = "completed"]

Ensured(post, pc) ==
  IF post = Raises THEN End
  ELSE IF post = state.post THEN Goto(pc)
  ELSE Commit(WithPost(state, post), pc)

Ensure ==
  /\ At("next") \/ At("export")
  /\ Ensured(Execute(ev, IF state.post = None THEN Created ELSE state.post),
             IF At("next") THEN "ask" ELSE "deliver")
  /\ UNCHANGED <<ev, state, files, kept>>

CurrentKey == CHOOSE key \in CurrentKeys(state.post) : TRUE
Current == QueryItem(state.post, CurrentKey)
CurrentStatus == IF CurrentKeys(state.post) = {} THEN "none" ELSE Current.status

Issued(text) == [status |-> "issued", sql |-> text, qid |-> None, event |-> None]

WithAttempt(item, text) ==
  [item EXCEPT !.status = "in_progress", !.attempts = Append(@, Issued(text))]

\* _build_current_post_primary_query; the first item starts the background.
Issuing(post, key) ==
  LET item == QueryItem(post, key)
      begun == WithItem(post, key, WithAttempt(item, Text(post, key, 0)))
  IN IF key[2] = 0 THEN begun ELSE [begun EXCEPT !.steps[key[1]].status = "in_progress"]

Ticket(post, key) ==
  LET item == QueryItem(post, key)
  IN [key |-> key, attempt |-> Len(item.attempts) - 1, sql |-> LastAttempt(item).sql]

\* The SQL file is written before the state that names it.
IssueQuery ==
  /\ At("ask") /\ CurrentStatus = "planned"
  /\ LET post == Issuing(state.post, CurrentKey) IN
       /\ sql' = [sql EXCEPT ![<<PathId(CurrentKey), 0>>] = Text(post, CurrentKey, 0)]
       /\ op' = [op EXCEPT !.pc = "write", !.mem = WithPost(state, post), !.then = "ticket",
                           !.ticket = Ticket(post, CurrentKey)]
  /\ UNCHANGED <<ev, state, events, exported, kept>>

ResumeQuery ==
  /\ At("ask") /\ CurrentStatus = "in_progress"
  /\ op' = [op EXCEPT !.pc = "ticket", !.ticket = Ticket(state.post, CurrentKey)]
  /\ UNCHANGED <<ev, state, files, kept>>

\* _execution_ticket reads the SQL file back and compares its hash.
ExecutionTicket ==
  /\ At("ticket")
  /\ IF sql[<<PathId(op.ticket.key), op.ticket.attempt>>] = op.ticket.sql THEN Goto("query") ELSE End
  /\ UNCHANGED <<ev, state, files, kept>>

\* The ticket for a repair, or the error that no query can be executed.
RepairTicket ==
  /\ At("ask") /\ state.post.status # "completed"
  /\ CurrentStatus \in {"none", "repair_required"}
  /\ End /\ UNCHANGED <<ev, state, files, kept>>

QueueComplete ==
  /\ At("ask") /\ state.post.status = "completed"
  /\ Goto("export") /\ UNCHANGED <<ev, state, files, kept>>
-----------------------------------------------------------------------------
(* DView answers the query of the ticket, with an id of its own.           *)

Mentioned ==
  {e.qid : e \in events \cup kept} \cup (IF state.post = None THEN {} ELSE QueryIds(state.post))

\* The first id that is not mentioned.
FreshIds ==
  {q \in 1..(Cardinality(Mentioned) + 1) :
     q \notin Mentioned /\ \A p \in 1..(q - 1) : p \in Mentioned}

FromDView(kind, body, qid) ==
  [kind |-> kind, step |-> op.ticket.key[1], attempt |-> op.ticket.attempt,
   sql |-> op.ticket.sql, qid |-> qid, body |-> body]

DViewAnswers(kind, body) ==
  /\ At("query")
  /\ \E qid \in FreshIds :
       op' = [op EXCEPT !.pc = "record", !.ticket = None, !.event = FromDView(kind, body, qid)]
  /\ UNCHANGED <<ev, state, files, kept>>

DViewReturns == \E body \in {"valid", "invalid"} : DViewAnswers("query_returned", body)
DViewFails == \E class \in ev.classes : DViewAnswers("query_error", class)

\* The operation dies with the answer in hand; the operator has it and may
\* record it at any time: late, twice, or after the query was asked again.
AnswerKept ==
  /\ At("record") /\ op.event.kind # "repair_submitted" /\ Cardinality(kept) < ev.keeps
  /\ kept' = kept \cup {op.event}
  /\ op' = [NoOp EXCEPT !.died = TRUE]
  /\ UNCHANGED <<ev, state, files>>

RecordLate ==
  /\ Idle
  /\ \E e \in kept : op' = [NoOp EXCEPT !.pc = "record", !.event = e, !.once = TRUE]
  /\ UNCHANGED <<ev, state, files, kept>>
-----------------------------------------------------------------------------
(* record.                                                                 *)

\* active_query.
Active == state.post # None /\ CurrentStatus \in Waiting

\* Mutant: an answer is matched by its step and attempt number alone.
MatchesByNumber(item, e) ==
  e.attempt = Len(item.attempts) - 1 /\ e.qid \notin QueryIds(state.post)

Matches(item, e) ==
  /\ e.attempt = Len(item.attempts) - 1
  /\ e.sql = LastAttempt(item).sql
  /\ e.qid \notin QueryIds(state.post)

QueryRecordable(e) ==
  /\ e.kind # "repair_submitted" /\ Active
  /\ e.step = CurrentKey[1] /\ Current.status = "in_progress" /\ Matches(Current, e)

RepairRecordable(e) ==
  /\ e.kind = "repair_submitted" /\ Active
  /\ e.step = CurrentKey[1] /\ Current.status = "repair_required"
  /\ e.attempt = Len(Current.attempts) /\ e.attempt <= RepairLimit
  /\ e.sql # LastAttempt(Current).sql

Repairable(e) ==
  e.kind = "query_error" /\ e.body = "semantic_analysis" /\ e.attempt < RepairLimit

\* record_returned and record_error, for the query item.
Answer(item, e) ==
  LET outcome == IF e.kind = "query_error" THEN "error"
                 ELSE IF e.body = "valid" THEN "succeeded" ELSE "failed"
  IN [item EXCEPT
        !.status = IF Repairable(e) THEN "repair_required"
                   ELSE IF outcome = "succeeded" THEN "succeeded" ELSE "failed",
        !.attempts[Len(item.attempts)] = [@ EXCEPT !.status = outcome, !.qid = e.qid, !.event = e]]

\* Mutant: the background ends with the fate of its last item.
AdvanceLast(post) ==
  LET step == post.steps["game_background"]
      next == step.cursor + 1
  IN [post EXCEPT !.steps["game_background"] =
        [step EXCEPT !.cursor = next,
                     !.status = IF next <= Len(step.items) THEN "in_progress"
                                ELSE step.items[step.cursor].status]]

\* advance_background: one success is enough.
AdvanceBackground(post) ==
  LET step == post.steps["game_background"]
      next == step.cursor + 1
  IN [post EXCEPT !.steps["game_background"] =
        [step EXCEPT !.cursor = next,
                     !.status = IF next <= Len(step.items) THEN "in_progress"
                                ELSE Aggregate(step.items)]]

\* The answer is entered; unless a repair is due, the plan is carried on.
Entered(e) == WithItem(state.post, CurrentKey, Answer(Current, e))
MovedOn(entered) == IF CurrentKey[2] = 0 THEN entered ELSE AdvanceBackground(entered)
Recorded(e) == IF Repairable(e) THEN Entered(e) ELSE Execute(ev, MovedOn(Entered(e)))

AtRecord == At("record") /\ op.event \notin state.processed
AfterRecord == IF op.once THEN "idle" ELSE "next"

RecordReplay ==
  /\ At("record") /\ op.event \in state.processed
  /\ End /\ UNCHANGED <<ev, state, files, kept>>

RecordRefuses ==
  /\ AtRecord /\ ~QueryRecordable(op.event) /\ ~RepairRecordable(op.event)
  /\ End /\ UNCHANGED <<ev, state, files, kept>>

\* The event file, then the plan, then the state: a plan that cannot be carried
\* on loses the answer.
Saved(post) ==
  IF post = Raises THEN End /\ UNCHANGED events
  ELSE /\ events' = events \cup {op.event}
       /\ Commit([WithPost(state, post) EXCEPT !.processed = @ \cup {op.event}], AfterRecord)

RecordQuery ==
  /\ AtRecord /\ QueryRecordable(op.event) /\ Saved(Recorded(op.event))
  /\ UNCHANGED <<ev, state, sql, exported, kept>>

\* _record_repair: the SQL file, the event file, then the state.
RecordRepair ==
  /\ AtRecord /\ RepairRecordable(op.event)
  /\ sql' = [sql EXCEPT ![<<PathId(CurrentKey), op.event.attempt>>] = op.event.sql]
  /\ Goto("log")
  /\ UNCHANGED <<ev, state, events, exported, kept>>

LogRepair ==
  /\ At("log")
  /\ events' = events \cup {op.event}
  /\ LET post == WithItem(state.post, CurrentKey, WithAttempt(Current, op.event.sql))
     IN Commit([WithPost(state, post) EXCEPT !.processed = @ \cup {op.event}], "next")
  /\ UNCHANGED <<ev, state, sql, exported, kept>>

\* xuanji_submit_repair with a packet for the repair that is asked for; any other
\* one ends as RunInvestigation does, or is refused.
SubmitRepair ==
  /\ Idle /\ Active /\ Current.status = "repair_required"
  /\ op' = [NoOp EXCEPT !.pc = "record",
              !.event = [kind |-> "repair_submitted", step |-> CurrentKey[1],
                         attempt |-> Len(Current.attempts),
                         sql |-> Text(state.post, CurrentKey, Len(Current.attempts)),
                         qid |-> None, body |-> None]]
  /\ UNCHANGED <<ev, state, files, kept>>
-----------------------------------------------------------------------------
(* export.                                                                 *)

LastQueryId(item) ==
  LET asked == {n \in DOMAIN item.attempts : item.attempts[n].qid # None}
  IN IF asked = {} THEN None ELSE item.attempts[Max(asked)].qid

Evidence(post) ==
  [verdicts |-> [k \in DOMAIN StepOrder |-> post.steps[StepOrder[k]].status],
   plan |-> post.plan,
   secondary |-> IF "attempts" \in DOMAIN post.steps["secondary"]
                 THEN LastQueryId(post.steps["secondary"]) ELSE None]

MayExport(post) == post.status = "completed"

Export ==
  /\ At("deliver")
  /\ IF MayExport(state.post) /\ state.evidence = None
     THEN /\ exported' = Evidence(state.post)
          /\ Commit([state EXCEPT !.evidence = Evidence(state.post)], "idle")
     ELSE End /\ UNCHANGED exported
  /\ UNCHANGED <<ev, state, sql, events, kept>>

\* "python3 -m runtime.runner export", at any time.
ExportNow ==
  /\ Idle
  /\ op' = [NoOp EXCEPT !.pc = "export"]
  /\ UNCHANGED <<ev, state, files, kept>>

\* An exception or the death of the process.  An event file that no state refers to
\* is never read: the model forgets it.
Fail ==
  /\ ~Idle
  /\ events' = events \cap state.processed
  /\ op' = [NoOp EXCEPT !.died = TRUE]
  /\ UNCHANGED <<ev, state, sql, exported, kept>>
-----------------------------------------------------------------------------
Local ==
  \/ WriteState \/ Ensure \/ IssueQuery \/ ResumeQuery \/ ExecutionTicket
  \/ RepairTicket \/ QueueComplete
  \/ RecordReplay \/ RecordRefuses \/ RecordQuery \/ RecordRepair \/ LogRepair \/ Export

Answers == DViewReturns \/ DViewFails

Next ==
  \/ RunInvestigation \/ SubmitRepair \/ ExportNow \/ RecordLate
  \/ Local \/ Answers
  \/ AnswerKept \/ Fail

Spec == Init /\ [][Next]_vars
-----------------------------------------------------------------------------
(* Properties.                                                             *)

\* What each step was to do, from the evidence alone.
Frozen == [id \in StepIds |-> Asked(Selection(ev)[id])]

Begun(steps) == {id \in StepIds : steps[id] # Unplanned}

\* The whole plan is a function of the frozen primary evidence: whatever the
\* queries of earlier steps answer, in which order repairs, late answers and
\* restarts come, every step is selected for what the evidence alone asks for,
\* and so is the enhancement plan.
PlanFromEvidence ==
  state.post # None =>
    \A id \in Begun(state.post.steps) : Asked(state.post.steps[id]) = Frozen[id]

\* When one game dominates, all that is asked about games is asked about that one:
\* the secondary family below it, the background and the error-code focus.  If its id
\* is no number there is no background, and only the focus may be another game.
OneStory ==
  state.post # None =>
    LET steps == state.post.steps
        game == steps["counterfactual"].game
    IN Dominant(steps["counterfactual"]) =>
         /\ "pick" \in DOMAIN steps["secondary"] => steps["secondary"].pick.parent = game
         /\ \A i \in DOMAIN BackgroundItems(steps["game_background"]) :
              game > 0 /\ steps["game_background"].items[i].pick.game = game
         /\ game > 0 /\ "pick" \in DOMAIN steps["error_code"] =>
              steps["error_code"].pick.focus \in {0, game}

\* Whatever instant an operation dies at, and whatever the operator records late,
\* the state on disk is one that the strict loader accepts and the plan can be
\* carried on from, its selections recomputed and its files read back.
StateLoads == StateContract(state)

\* Every answer stands in the query it was given to, be it one of three items of
\* the background that share a step id and an attempt number; a query is asked
\* at most three times, and the whole analysis asks at most six.
AnswersAsked ==
  state.post # None =>
    /\ Cardinality(QueryKeys(state.post)) <= 6
    /\ \A key \in QueryKeys(state.post) :
         LET item == QueryItem(state.post, key)
         IN /\ Len(item.attempts) <= RepairLimit + 1
            /\ \A n \in DOMAIN item.attempts :
                 LET e == item.attempts[n].event
                 IN e # None => /\ e.sql = Text(state.post, key, n - 1)
                                /\ e.attempt = n - 1 /\ e \in state.processed

\* The exported report is the completed plan's, every query asked was used or
\* failed for good, and the background counts as one success if any item has one.
ReportFaithful ==
  exported # None =>
    /\ state.post.status = "completed" /\ exported = Evidence(state.post)
    /\ \A key \in QueryKeys(state.post) :
         QueryItem(state.post, key).status \in {"succeeded", "failed"}
    /\ BackgroundItems(state.post.steps["game_background"]) # <<>> =>
         (state.post.steps["game_background"].status = "succeeded" <=>
          \E i \in DOMAIN state.post.steps["game_background"].items :
            state.post.steps["game_background"].items[i].status = "succeeded")

\* What becomes of a query: its pick and its answers stay, and so does what it ended with.
QueryKept(item, after) ==
  /\ after.pick = item.pick
  /\ item.status \in {"succeeded", "failed"} => after = item
  /\ Len(after.attempts) >= Len(item.attempts)
  /\ \A n \in DOMAIN item.attempts :
       item.attempts[n].event # None => after.attempts[n] = item.attempts[n]

PlanKept(post, after) ==
  \A key \in QueryKeys(post) :
    /\ key \in QueryKeys(after)
    /\ QueryKept(QueryItem(post, key), QueryItem(after, key))

\* What one step keeps: see Forward.
QueriesKept ==
  /\ state.post # None => state'.post # None /\ PlanKept(state.post, state'.post)
  /\ state.processed \subseteq state'.processed
  /\ state.evidence # None => state'.evidence = state.evidence
  /\ exported # None => exported' = exported

\* The analysis only goes forward: a selection is never changed, an answer never
\* replaced or lost, and the report never rewritten, also after it was exported
\* by an operation that died before its state was saved.
Forward == [][QueriesKept]_vars

\* The verdicts as the report shows them.
Verdict(id) ==
  IF state.post = None \/ state.post.steps[id].status \notin Terminal THEN None
  ELSE state.post.steps[id].status

Abstract == INSTANCE CalibrationPlan
              WITH Plan <- StepOrder, Verdicts <- Terminal,
                   verdict <- [k \in DOMAIN StepOrder |-> Verdict(StepOrder[k])],
                   report <- IF exported = None THEN None ELSE exported.verdicts

\* With its files, crashes, repairs and late answers the analysis takes the steps
\* of the abstract plan: verdicts in order, for good, and one report of them all.
KeepsPlan == Abstract!Spec
-----------------------------------------------------------------------------
(* Liveness.  An operation returns or dies: at every pc one of its steps is *)
(* possible, none waits for anything but DView, whose queries end, and they *)
(* are finitely many.  The caller keeps sending run_task, and a repair once *)
(* it is asked for one.                                                    *)

Fairness ==
  /\ []<>Idle
  /\ SF_vars(RunInvestigation) /\ SF_vars(SubmitRepair)

FairSpec == Spec /\ Fairness

\* Neither enhancement selector raises, whatever the queries before them answer.
EverySelectorAnswers ==
  ~SelectionRaises(Selections(ev, [game_background |-> Background(ev, Counterfactual(ev))]))

\* If operations die only finitely often, the analysis completes and its report is
\* exported exactly when every selector answers on the evidence: a query that fails,
\* whose answer is late or that needs a repair fails its step and never the run, and
\* a selector that raises inside record or next strands the run for good.
Completes ==
  <>[](~op.died) => \/ EverySelectorAnswers /\ <>(state.evidence # None)
                    \/ ~EverySelectorAnswers /\ [](state.evidence = None)

\* What download-install-playbook.md:697-699 says: a gate that fails skips its module,
\* and no enhancement that fails keeps the analysis from its report.
AlwaysCompletes == <>[](~op.died) => <>(state.evidence # None)
=============================================================================
