--------------------------- MODULE PostPrimaryPlan ---------------------------
(***************************************************************************)
(* The post-primary part of the state file: how the plan is created and    *)
(* carried on, and what the loader asks of it.                             *)
(* runtime/post_primary_planner.py, runtime/calibration_runner.py and the  *)
(* runtime contracts of runtime/runner.py.                                 *)
(*                                                                         *)
(*   post = [status, plan, steps]                                          *)
(*                                                                         *)
(* steps maps the id of each step to a record: [status], with the reason   *)
(* or the result of a step that asks no query; [status, pick, attempts]    *)
(* once a query is planned for it, and [status, cursor, items] for the     *)
(* background, whose items are such records, one for each game.  plan is   *)
(* the enhancement plan, None until the prerequisites are terminal.        *)
(***************************************************************************)
EXTENDS PostPrimarySelectors

CONSTANTS
  RepairLimit, \* repairs of a query: 2 in the code
  None

StepOrder == <<"counterfactual", "secondary", "game_background", "breadth_check",
               "error_code", "cross_dimension_overlap">>
StepIds == ToSet(StepOrder)
Asking == {"secondary", "game_background", "error_code", "cross_dimension_overlap"}

Terminal == {"succeeded", "failed", "skipped_by_policy"}
Waiting == {"in_progress", "repair_required"}
AllTerminal(steps) == \A id \in StepIds : steps[id].status \in Terminal

Unplanned == [status |-> "planned"]

Created == [status |-> "executing", plan |-> None, steps |-> [id \in StepIds |-> Unplanned]]
-----------------------------------------------------------------------------
(* execute.                                                                *)

Selections(ev, steps) == [error_code |-> ErrorCode(ev, steps["game_background"]),
                          cross_dimension_overlap |-> Overlap(ev)]
SelectionRaises(selection) == \E module \in EnabledModules : selection[module] = Raises

Enhancement(selection, id) == Allocated(selection[id], EnhancementPlan(selection)[id])

Chosen(ev, steps, id) ==
  CASE id = "counterfactual" -> Counterfactual(ev)
    [] id = "secondary" -> Secondary(ev, steps["counterfactual"])
    [] id = "game_background" -> Background(ev, steps["counterfactual"])
    [] id = "breadth_check" -> Breadth(ev)
    [] OTHER -> Enhancement(Selections(ev, steps), id)

\* One planned step: it gets its selection, and halts the walk if that is a query.
Took(walk, id, chosen, plan) ==
  [steps |-> [walk.steps EXCEPT ![id] = chosen], plan |-> plan,
   halted |-> chosen.status = "planned", raised |-> FALSE]

\* The plan of the enhancements is made anew for each of them.
Enhanced(walk, id, selection) ==
  IF \/ SelectionRaises(selection)
     \/ id = "cross_dimension_overlap" /\ EnhancementPlan(selection) # walk.plan
  THEN [walk EXCEPT !.raised = TRUE, !.halted = TRUE]
  ELSE Took(walk, id, Enhancement(selection, id), EnhancementPlan(selection))

Advanced(ev, walk, id) ==
  IF id \in EnabledModules THEN Enhanced(walk, id, Selections(ev, walk.steps))
  ELSE Took(walk, id, Chosen(ev, walk.steps, id), walk.plan)

\* Mutants: a step that waits for its query does not hold up the ones behind it;
\* a settled step is selected again.
WalkOn(ev, walk, id) ==
  IF walk.halted \/ walk.steps[id].status # "planned" THEN walk ELSE Advanced(ev, walk, id)

WalkAgain(ev, walk, id) ==
  IF walk.halted THEN walk
  ELSE IF walk.steps[id].status \in Waiting THEN [walk EXCEPT !.halted = TRUE]
  ELSE Advanced(ev, walk, id)

Walk(ev, walk, id) ==
  IF walk.halted \/ walk.steps[id].status \in Terminal THEN walk
  ELSE IF walk.steps[id].status \in Waiting THEN [walk EXCEPT !.halted = TRUE]
  ELSE Advanced(ev, walk, id)

\* What a step was selected to do, without what its queries made of it.
Asked(step) ==
  IF "items" \in DOMAIN step THEN [i \in DOMAIN step.items |-> step.items[i].pick]
  ELSE IF "pick" \in DOMAIN step THEN step.pick ELSE step

\* _validate_completed: every step recomputed from the evidence.
EndsAs(step, chosen) ==
  /\ step.status \in Terminal
  /\ Asked(step) = Asked(chosen)
  /\ chosen.status = "planned" => step.status \in {"succeeded", "failed"}

Completed(ev, post) == \A id \in StepIds : EndsAs(post.steps[id], Chosen(ev, post.steps, id))

Aggregate(items) ==
  IF \E i \in DOMAIN items : items[i].status = "succeeded" THEN "succeeded" ELSE "failed"

Concluded(ev, walk) ==
  LET post == [status |-> IF AllTerminal(walk.steps) THEN "completed" ELSE "executing",
               plan |-> walk.plan, steps |-> walk.steps]
  IN IF walk.raised \/ (post.status = "completed" /\ ~Completed(ev, post)) THEN Raises ELSE post

PlannedFrom(plan, selection) ==
  ~SelectionRaises(selection) /\ plan = EnhancementPlan(selection)

\* What execute asks of a plan before it goes on, and so the loader of a completed one.
PlanHolds(ev, post) ==
  /\ post.steps["counterfactual"] \in {Unplanned, Counterfactual(ev)}
  /\ post.plan # None => PlannedFrom(post.plan, Selections(ev, post.steps))
  /\ post.status = "completed" => Completed(ev, post)

Start(post) == [steps |-> post.steps, plan |-> post.plan, halted |-> FALSE, raised |-> FALSE]

\* The walk past the six steps, in the order of StepOrder.
Walked(ev, post) ==
  LET first == Walk(ev, Start(post), "counterfactual")
      second == Walk(ev, first, "secondary")
      third == Walk(ev, second, "game_background")
      fourth == Walk(ev, third, "breadth_check")
      fifth == Walk(ev, fourth, "error_code")
  IN Walk(ev, fifth, "cross_dimension_overlap")

Execute(ev, post) ==
  IF PlanHolds(ev, post) THEN Concluded(ev, Walked(ev, post)) ELSE Raises

\* What each step is to do by the evidence alone: as if every query had been
\* planned and none asked.
Selection(ev) ==
  LET cf == Counterfactual(ev)
      background == Background(ev, cf)
      steps == [id \in StepIds |-> IF id = "counterfactual" THEN cf
                                   ELSE IF id = "game_background" THEN background
                                   ELSE Unplanned]
  IN [id \in StepIds |-> Chosen(ev, steps, id)]
-----------------------------------------------------------------------------
(* The queries of the plan: a key is <<step id, 0>> or <<step id, item>>.  *)

QueryKeys(post) ==
  {<<id, 0>> : id \in {i \in Asking : "attempts" \in DOMAIN post.steps[i]}}
  \cup {<<"game_background", i>> : i \in DOMAIN BackgroundItems(post.steps["game_background"])}

QueryItem(post, key) ==
  IF key[2] = 0 THEN post.steps[key[1]] ELSE post.steps[key[1]].items[key[2]]

WithItem(post, key, item) ==
  IF key[2] = 0 THEN [post EXCEPT !.steps[key[1]] = item]
  ELSE [post EXCEPT !.steps[key[1]].items[key[2]] = item]

LastAttempt(item) == item.attempts[Len(item.attempts)]

\* Mutant: a query that is out is not found again.
CurrentKeysForgotten(post) ==
  {key \in QueryKeys(post) :
     /\ QueryItem(post, key).status \in {"planned", "repair_required"}
     /\ key[2] # 0 => key[2] = post.steps[key[1]].cursor}

\* current_query: the query that is planned, out, or waits for a repair.
CurrentKeys(post) ==
  {key \in QueryKeys(post) :
     /\ QueryItem(post, key).status \in {"planned"} \cup Waiting
     /\ key[2] # 0 => key[2] = post.steps[key[1]].cursor}

\* The text of a query is its step, what it was selected for and the repair.
Text(post, key, n) == [step |-> key[1], pick |-> QueryItem(post, key).pick, repair |-> n]

\* Mutant: the items of the background share their files.
PathIdShared(key) == key[1]

PathId(key) == key

QueryIds(post) ==
  UNION {{QueryItem(post, key).attempts[n].qid :
            n \in {m \in DOMAIN QueryItem(post, key).attempts :
                     QueryItem(post, key).attempts[m].qid # None}} : key \in QueryKeys(post)}
-----------------------------------------------------------------------------
(* What the loader accepts.  files maps the path id and number of an       *)
(* attempt to its SQL, logged are the event files, processed the events    *)
(* the state names.                                                        *)

\* validate_identity.
Identity(post) ==
  /\ post.steps["error_code"].status # "planned" => post.plan # None
  /\ post.plan # None =>
       \A id \in StepIds \ EnabledModules : post.steps[id].status \in Terminal
  /\ post.status = "completed" => AllTerminal(post.steps)

\* A step may be selected only when the one before it is terminal; then its
\* selection is what the evidence says.
Selected(ev, steps, id, before) ==
  IF steps[before].status \notin Terminal THEN steps[id] = Unplanned
  ELSE Asked(steps[id]) = Asked(Chosen(ev, steps, id))

SecondarySelected(ev, post) ==
  Selected(ev, post.steps, "secondary", "counterfactual")

\* The items before the cursor are terminal, those behind it planned.
CursorHolds(step) ==
  LET items == step.items
  IN /\ step.cursor \in 1..(Len(items) + 1)
     /\ \A i \in DOMAIN items :
          /\ i < step.cursor => items[i].status \in {"succeeded", "failed"}
          /\ i = step.cursor => items[i].status \in {"planned"} \cup Waiting
          /\ i > step.cursor => items[i].status = "planned"
     /\ step.status = IF step.cursor > Len(items) THEN Aggregate(items)
                      ELSE IF step.cursor = 1 /\ items[1].status = "planned"
                      THEN "planned" ELSE "in_progress"

BackgroundSelected(ev, post) ==
  LET step == post.steps["game_background"]
  IN /\ Selected(ev, post.steps, "game_background", "secondary")
     /\ "items" \in DOMAIN step => CursorHolds(step)

\* What the selector answers is compared, without the budget of the enhancements.
ErrorCodeSelected(ev, post) ==
  LET step == post.steps["error_code"]
      selected == ErrorCode(ev, post.steps["game_background"])
  IN IF post.steps["game_background"].status \notin Terminal THEN step = Unplanned
     ELSE selected # Raises /\ Asked(step) = Asked(selected)

OverlapSelected(ev, post) ==
  /\ post.steps["error_code"].status \in Terminal => Overlap(ev) # Raises
  /\ Selected(ev, post.steps, "cross_dimension_overlap", "error_code")

\* One attempt: its file holds its SQL, its event was logged and answers it.
AttemptHolds(key, a, n, files, logged, processed) ==
  /\ files[<<PathId(key), n - 1>>] = a.sql
  /\ (a.qid = None) <=> (a.event = None)
  /\ a.event # None => /\ a.event \in processed /\ a.event \in logged
                       /\ a.event.qid = a.qid /\ a.event.sql = a.sql

\* The status of a query is that of its last attempt, whose answer is
\* validated again.
ItemHolds(item) ==
  LET last == LastAttempt(item)
  IN IF item.attempts = <<>> THEN item.status = "planned"
     ELSE /\ Len(item.attempts) <= RepairLimit + 1
          /\ \/ item.status = "in_progress" /\ last.status = "issued" /\ last.qid = None
             \/ /\ item.status = "repair_required" /\ last.status = "error"
                /\ last.event.body = "semantic_analysis" /\ Len(item.attempts) <= RepairLimit
             \/ /\ item.status = "succeeded" /\ last.status = "succeeded"
                /\ last.event.body = "valid"
             \/ /\ item.status = "failed"
                /\ \/ last.status = "failed" /\ last.event.body = "invalid"
                   \/ last.status = "error"

ItemLoads(post, id, files, logged, processed) ==
  \A key \in {k \in QueryKeys(post) : k[1] = id} :
    LET item == QueryItem(post, key)
    IN /\ ItemHolds(item)
       /\ \A n \in DOMAIN item.attempts :
            AttemptHolds(key, item.attempts[n], n, files, logged, processed)

SecondaryLoads(post, files, logged, processed) ==
  ItemLoads(post, "secondary", files, logged, processed)
BackgroundItemsLoad(post, files, logged, processed) ==
  ItemLoads(post, "game_background", files, logged, processed)
ErrorCodeLoads(post, files, logged, processed) ==
  ItemLoads(post, "error_code", files, logged, processed)
OverlapLoads(post, files, logged, processed) ==
  ItemLoads(post, "cross_dimension_overlap", files, logged, processed)

QueryIdsDiffer(post) ==
  \A k, l \in QueryKeys(post) :
    \A m \in DOMAIN QueryItem(post, k).attempts, n \in DOMAIN QueryItem(post, l).attempts :
      /\ QueryItem(post, k).attempts[m].qid # None
      /\ QueryItem(post, k).attempts[m].qid = QueryItem(post, l).attempts[n].qid
      => k = l /\ m = n
-----------------------------------------------------------------------------
(* Types, for the evidence e.                                              *)

PicksOf(chosen) ==
  IF "items" \in DOMAIN chosen THEN {chosen.items[i].pick : i \in DOMAIN chosen.items}
  ELSE IF "pick" \in DOMAIN chosen THEN {chosen.pick} ELSE {}
Picks(e) == UNION {PicksOf(Selection(e)[id]) : id \in StepIds}

Texts(e) == [step : Asking, pick : Picks(e), repair : Nat]

Events(e) ==
  [kind : {"query_returned", "query_error", "repair_submitted"}, step : Asking, attempt : Nat,
   sql : Texts(e), qid : Nat \cup {None}, body : {"valid", "invalid", None} \cup e.classes]

Attempts(e) ==
  [status : {"issued", "succeeded", "failed", "error"}, sql : Texts(e),
   qid : Nat \cup {None}, event : Events(e) \cup {None}]

Statuses == {"planned"} \cup Waiting \cup Terminal
Items(e) == [status : Statuses, pick : Picks(e), attempts : Seq(Attempts(e))]
Backgrounds(e) == [status : Statuses, cursor : Nat, items : Seq(Items(e))]
Steps(e) ==
  {Unplanned} \cup {Selection(e)[id] : id \in StepIds} \cup Items(e) \cup Backgrounds(e)

Plans ==
  [ToSet(Modules) -> {"skipped_by_policy", "not_triggered", "selected", "skipped_by_budget"}]

Posts(e) ==
  [status : {"executing", "completed"}, plan : Plans \cup {None}, steps : [StepIds -> Steps(e)]]

Reports ==
  [verdicts : [DOMAIN StepOrder -> Terminal], plan : Plans \cup {None},
   secondary : Nat \cup {None}]

\* Nothing a field may hold is None, and the policy allows three games.
ASSUME NoneAssumption == None \notin Plans \cup Reports \cup Terminal \cup Nat
ASSUME LimitAssumption == RepairLimit \in Nat /\ BackgroundGames \in 1..3

\* The contracts are refused unless the budget is two modules; one would do here.
ASSUME BudgetAssumption == MaxQueryModules \in Nat \ {0}
=============================================================================
