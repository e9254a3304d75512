------------------------ MODULE PostPrimaryPlanProofs ------------------------
(***************************************************************************)
(* What the selectors return, and what Execute makes of a plan: proofs     *)
(* about PostPrimaryPlan.                                                  *)
(***************************************************************************)
EXTENDS PostPrimaryPlan, FiniteSetTheorems, TLAPS

\* The six steps of _plan, in the order execute walks them.
LEMMA Order ==
  /\ DOMAIN StepOrder = 1..6
  /\ StepOrder[1] = "counterfactual" /\ StepOrder[2] = "secondary"
  /\ StepOrder[3] = "game_background" /\ StepOrder[4] = "breadth_check"
  /\ StepOrder[5] = "error_code" /\ StepOrder[6] = "cross_dimension_overlap"
PROOF BY DEF StepOrder

\* Every step has its place in the order.
LEMMA Ids ==
  StepIds = {"counterfactual", "secondary", "game_background", "breadth_check",
             "error_code", "cross_dimension_overlap"}
<1>1. StepIds = {StepOrder[k] : k \in 1..6}
  BY Order DEF StepIds, ToSet
<1> QED
  BY <1>1, Order
-----------------------------------------------------------------------------
(* The selectors.                                                          *)

\* A selection that asks no query.
Plain(chosen) ==
  chosen.status \in Terminal /\ DOMAIN chosen \cap {"pick", "items", "attempts"} = {}

\* A selection that asks one.
Single(chosen) == chosen = [status |-> "planned", pick |-> chosen.pick, attempts |-> <<>>]

\* A selection that asks one for each of several games.
Queue(chosen) ==
  \E n \in 1..BackgroundGames :
    /\ chosen = [status |-> "planned", cursor |-> 1, items |-> chosen.items]
    /\ chosen.items = [i \in 1..n |-> chosen.items[i]]
    /\ \A i \in 1..n : Single(chosen.items[i])

\* The results of _skip and of _planned.
LEMMA Answers1 ==
  /\ \A reason : Plain(Skip(reason))
  /\ \A pick : Single(Planned(pick))
  /\ Plain(Failed)
<1>1. \A reason : Plain(Skip(reason))
  BY DEF Plain, Skip, Terminal
<1>2. \A pick : Single(Planned(pick))
  BY DEF Single, Planned
<1>3. Plain(Failed)
  BY DEF Plain, Failed, NoFamily, Terminal
<1> QED
  BY <1>1, <1>2, <1>3

\* The queue of the background has one item for each of its games.
LEMMA QueueOfGames ==
  ASSUME NEW games, NEW n \in 1..BackgroundGames, DOMAIN games = 1..n
  PROVE  /\ Queue(PlannedGames(games))
         /\ PlannedGames(games).items[1].pick.game = games[1]
         /\ DOMAIN PlannedGames(games).items = 1..n
         /\ \A i \in 1..n : PlannedGames(games).items[i].pick.game = games[i]
<1> DEFINE c == PlannedGames(games)
<1>1. c = [status |-> "planned", cursor |-> 1, items |-> c.items]
  BY DEF PlannedGames
<1>2. c.items = [i \in 1..n |-> Planned([game |-> games[i]])]
  BY DEF PlannedGames
<1>3. \A i \in 1..n : c.items[i] = Planned([game |-> games[i]])
  BY <1>2
<1>4. \A i \in 1..n : Single(c.items[i])
  BY <1>3, Answers1
<1>5. c.items = [i \in 1..n |-> c.items[i]]
  BY <1>2
<1>6. \A i \in 1..n : c.items[i].pick.game = games[i]
  <2>1. ASSUME NEW i \in 1..n PROVE c.items[i].pick.game = games[i]
    <3>1. c.items[i] = Planned([game |-> games[i]])
      BY <1>3
    <3>2. c.items[i].pick = [game |-> games[i]]
      BY <3>1 DEF Planned
    <3> QED
      BY <3>2
  <2> QED
    BY <2>1
<1>7. 1 \in 1..n
  BY LimitAssumption
<1> QED
  BY <1>1, <1>2, <1>4, <1>5, <1>6, <1>7 DEF Queue

\* counterfactual.py asks no query.
LEMMA CounterfactualPlain == ASSUME NEW e PROVE Plain(Counterfactual(e))
<1>1. ASSUME NEW g, NEW d PROVE Plain([status |-> "succeeded", game |-> g, dominant |-> d])
  BY DEF Plain, Terminal
<1> QED
  BY <1>1, Answers1 DEF Counterfactual

\* breadth_selector asks none.
LEMMA BreadthPlain == ASSUME NEW e PROVE Plain(Breadth(e))
<1>1. ASSUME NEW b PROVE Plain([status |-> "succeeded", calibrations |-> b])
  BY DEF Plain, Terminal
<1> QED
  BY <1>1, Answers1 DEF Breadth

\* The secondary family is one query.
LEMMA SecondaryKind ==
  ASSUME NEW e, NEW cf
  PROVE  Plain(Secondary(e, cf)) \/ Single(Secondary(e, cf))
BY Answers1 DEF Secondary

\* The error codes are one query, unless the selector raises.
LEMMA ErrorCodeKind ==
  ASSUME NEW e, NEW bg
  PROVE  \/ Plain(ErrorCode(e, bg)) \/ Single(ErrorCode(e, bg)) \/ ErrorCode(e, bg) = Raises
BY Answers1 DEF ErrorCode

\* So is the overlap.
LEMMA OverlapKind ==
  ASSUME NEW e
  PROVE  Plain(Overlap(e)) \/ Single(Overlap(e)) \/ Overlap(e) = Raises
BY Answers1 DEF Overlap

\* The background asks about at most three games.
LEMMA BackgroundKind ==
  ASSUME NEW e, NEW cf
  PROVE  Plain(Background(e, cf)) \/ Queue(Background(e, cf))
<1> DEFINE games == LegalGames(e)
           reached == Reaching(e)
<1>1. Queue(PlannedGames(<<cf.game>>))
  <2>1. DOMAIN <<cf.game>> = 1..1 /\ 1 \in 1..BackgroundGames
    BY LimitAssumption
  <2> QED
    BY <2>1, QueueOfGames
<1>2. ASSUME reached # {}
      PROVE  Queue(PlannedGames([i \in 1..Min(reached) |-> games[i].value]))
  <2>1. reached \subseteq 1..BackgroundGames
    <3>1. ASSUME NEW m \in reached PROVE m \in 1..BackgroundGames
      <4>1. m \in 1..Len(games) /\ m <= BackgroundGames
        BY DEF Reaching
      <4> QED
        BY <4>1, LimitAssumption
    <3> QED
      BY <3>1
  <2>2. \E m \in reached : \A l \in reached : m =< l
    <3> HIDE DEF reached
    <3>1. reached \subseteq {1, 2, 3}
      BY <2>1, LimitAssumption
    <3>2. CASE 1 \in reached
      BY <3>1, <3>2
    <3>3. CASE 1 \notin reached /\ 2 \in reached
      BY <3>1, <3>3
    <3>4. CASE 1 \notin reached /\ 2 \notin reached
      <4>1. reached = {3}
        BY <3>1, <3>4, <1>2
      <4> QED
        BY <4>1
    <3> QED
      BY <3>2, <3>3, <3>4
  <2>3. Min(reached) \in reached
    <3> HIDE DEF reached
    <3> QED
      BY <2>2 DEF Min
  <2>4. Min(reached) \in 1..BackgroundGames
    BY <2>1, <2>3
  <2> HIDE DEF reached, games
  <2> DEFINE n == Min(reached)
             picked == [i \in 1..n |-> games[i].value]
  <2>5. DOMAIN picked = 1..n
    OBVIOUS
  <2>6. n \in 1..BackgroundGames
    BY <2>4
  <2> HIDE DEF picked, n
  <2>7. Queue(PlannedGames(picked))
    BY <2>5, <2>6, QueueOfGames
  <2> QED
    BY <2>7 DEF picked, n
<1> QED
  BY <1>1, <1>2, Answers1 DEF Background
-----------------------------------------------------------------------------
(* The whole selection.                                                    *)

\* What the selectors of the enhancements answer by the evidence alone.
Enhancements(e) == Selections(e, Selection(e))

\* The selector of each step, as execute calls it.
LEMMA ChosenIs ==
  ASSUME NEW e, NEW steps
  PROVE  /\ Chosen(e, steps, "counterfactual") = Counterfactual(e)
         /\ Chosen(e, steps, "secondary") = Secondary(e, steps["counterfactual"])
         /\ Chosen(e, steps, "game_background") = Background(e, steps["counterfactual"])
         /\ Chosen(e, steps, "breadth_check") = Breadth(e)
         /\ \A id \in EnabledModules :
              Chosen(e, steps, id) = Enhancement(Selections(e, steps), id)
BY DEF Chosen, EnabledModules

\* The selection of each step, from the selectors.
LEMMA SelectionIs ==
  ASSUME NEW e
  PROVE  /\ Selection(e)["counterfactual"] = Counterfactual(e)
         /\ Selection(e)["secondary"] = Secondary(e, Counterfactual(e))
         /\ Selection(e)["game_background"] = Background(e, Counterfactual(e))
         /\ Selection(e)["breadth_check"] = Breadth(e)
         /\ \A id \in EnabledModules : Selection(e)[id] = Enhancement(Enhancements(e), id)
<1> DEFINE cf == Counterfactual(e)
           steps == [id \in StepIds |-> IF id = "counterfactual" THEN cf
                                        ELSE IF id = "game_background" THEN Background(e, cf)
                                        ELSE Unplanned]
<1>1. /\ steps["counterfactual"] = cf
      /\ steps["game_background"] = Background(e, cf)
  BY Ids
<1>2. \A id \in StepIds : Selection(e)[id] = Chosen(e, steps, id)
  BY DEF Selection
<1>3. /\ Selection(e)["counterfactual"] = cf
      /\ Selection(e)["secondary"] = Secondary(e, cf)
      /\ Selection(e)["game_background"] = Background(e, cf)
      /\ Selection(e)["breadth_check"] = Breadth(e)
  <2> HIDE DEF steps
  <2> QED
    BY <1>1, <1>2, Ids, ChosenIs
<1>4. Selections(e, steps) = Enhancements(e)
  <2> HIDE DEF steps, cf
  <2> QED
    BY <1>1, <1>3 DEF Enhancements, Selections
<1>5. ASSUME NEW id \in EnabledModules
      PROVE  Selection(e)[id] = Enhancement(Enhancements(e), id)
  <2> HIDE DEF steps
  <2>1. id \in StepIds
    BY Ids DEF EnabledModules
  <2> QED
    BY <2>1, <1>2, <1>4, ChosenIs
<1> QED
  BY <1>3, <1>5

\* The kind of each selection.
LEMMA SelectionKinds ==
  ASSUME NEW e
  PROVE  /\ Plain(Selection(e)["counterfactual"]) /\ Plain(Selection(e)["breadth_check"])
         /\ Plain(Selection(e)["secondary"]) \/ Single(Selection(e)["secondary"])
         /\ Plain(Selection(e)["game_background"]) \/ Queue(Selection(e)["game_background"])
         /\ \A id \in EnabledModules :
              ~SelectionRaises(Enhancements(e)) =>
                Plain(Selection(e)[id]) \/ Single(Selection(e)[id])
<1>1. ASSUME NEW id \in EnabledModules, ~SelectionRaises(Enhancements(e))
      PROVE  Plain(Selection(e)[id]) \/ Single(Selection(e)[id])
  <2>1. Enhancements(e)[id] # Raises
    BY <1>1 DEF SelectionRaises
  <2>2. Plain(Enhancements(e)[id]) \/ Single(Enhancements(e)[id])
    <3>1. \/ Enhancements(e)[id] = Overlap(e)
          \/ Enhancements(e)[id] = ErrorCode(e, Selection(e)["game_background"])
      BY DEF EnabledModules, Enhancements, Selections
    <3> QED
      BY <3>1, <2>1, ErrorCodeKind, OverlapKind
  <2>3. Plain(Enhancement(Enhancements(e), id)) \/ Single(Enhancement(Enhancements(e), id))
    BY <2>2, Answers1 DEF Enhancement, Allocated
  <2> QED
    BY <2>3, SelectionIs
<1> QED
  BY <1>1, SelectionIs, CounterfactualPlain, BreadthPlain, SecondaryKind, BackgroundKind

\* _focus_game looks at the first game of the background only.
LEMMA FocusSame ==
  ASSUME NEW e, NEW bg, NEW other,
         (BackgroundItems(bg) = <<>>) <=> (BackgroundItems(other) = <<>>),
         BackgroundItems(bg) # <<>> => bg.items[1].pick = other.items[1].pick
  PROVE  ErrorCode(e, bg) = ErrorCode(e, other)
<1>1. FocusGame(e, bg) = FocusGame(e, other)
  BY DEF FocusGame
<1> QED
  BY <1>1 DEF ErrorCode

\* enhancement_planner.create gives every module a verdict.
LEMMA PlanTyped == ASSUME NEW selection PROVE EnhancementPlan(selection) \in Plans
BY DEF EnhancementPlan, Plans

\* No module that may ask a query comes before the error codes, so no budget of one
\* or more keeps them from their query.
LEMMA ErrorCodeInBudget ==
  ASSUME NEW selection
  PROVE  Enhancement(selection, "error_code") = selection["error_code"]
<1> DEFINE Triggered(k) == Modules[k] \in EnabledModules /\ selection[Modules[k]].status = "planned"
           Before(k) == {j \in 1..k : Triggered(j)}
           position == CHOOSE j \in DOMAIN Modules : Modules[j] = "error_code"
<1>1. DOMAIN Modules = 1..5 /\ Modules[1] \notin EnabledModules /\ Modules[2] = "error_code"
      /\ \A j \in 1..5 : Modules[j] = "error_code" => j = 2
  BY DEF Modules, EnabledModules
<1>2. position = 2
  BY <1>1
<1>3. Cardinality(Before(2)) <= MaxQueryModules
  <2>1. Before(2) \subseteq {2}
    BY <1>1
  <2>2. IsFiniteSet({2}) /\ Cardinality({2}) = 1
    BY FS_Singleton
  <2>3. Cardinality(Before(2)) <= 1 /\ Cardinality(Before(2)) \in Nat
    BY <2>1, <2>2, FS_Subset, FS_CardinalityType
  <2> QED
    BY <2>3, BudgetAssumption
<1>4. EnhancementPlan(selection)["error_code"] # "skipped_by_budget"
  <2>1. "error_code" \in ToSet(Modules)
    BY <1>1 DEF ToSet
  <2>2. EnhancementPlan(selection)["error_code"] =
          IF "error_code" \notin EnabledModules THEN "skipped_by_policy"
          ELSE IF ~Triggered(position) THEN "not_triggered"
          ELSE IF Cardinality(Before(position)) <= MaxQueryModules THEN "selected"
          ELSE "skipped_by_budget"
    BY <2>1 DEF EnhancementPlan
  <2> HIDE DEF Triggered, Before, position
  <2> QED
    BY <1>2, <1>3, <2>2
<1> QED
  BY <1>4 DEF Enhancement, Allocated
-----------------------------------------------------------------------------
(* The steps and their queries.                                            *)

\* What the selection chosen may have become.
Fits(e, step, chosen) ==
  \/ Plain(chosen) /\ step = chosen
  \/ Single(chosen) /\ step \in Items(e) /\ step.pick = chosen.pick
  \/ /\ Queue(chosen) /\ step \in Backgrounds(e)
     /\ DOMAIN step.items = DOMAIN chosen.items
     /\ \A i \in DOMAIN chosen.items : step.items[i].pick = chosen.items[i].pick

\* A step is not yet selected, or what its selection became.
Shape(e, steps) ==
  /\ steps = [id \in StepIds |-> steps[id]]
  /\ \A id \in StepIds : steps[id] = Unplanned \/ Fits(e, steps[id], Selection(e)[id])

\* The fields a step has by the kind of its selection.
LEMMA KindFields ==
  ASSUME NEW chosen
  PROVE  /\ Plain(chosen) => /\ DOMAIN chosen \cap {"pick", "items", "attempts"} = {}
                             /\ chosen.status \in Terminal
         /\ Single(chosen) => /\ DOMAIN chosen = {"status", "pick", "attempts"}
                              /\ chosen.status = "planned" /\ chosen.attempts = <<>>
         /\ Queue(chosen) => /\ DOMAIN chosen = {"status", "cursor", "items"}
                             /\ chosen.status = "planned" /\ chosen.cursor = 1
<1>1. Plain(chosen) => /\ DOMAIN chosen \cap {"pick", "items", "attempts"} = {}
                       /\ chosen.status \in Terminal
  BY DEF Plain
<1>2. ASSUME Single(chosen)
      PROVE  /\ DOMAIN chosen = {"status", "pick", "attempts"}
             /\ chosen.status = "planned" /\ chosen.attempts = <<>>
  <2>1. PICK p : chosen = [status |-> "planned", pick |-> p, attempts |-> <<>>]
    BY <1>2 DEF Single
  <2> QED
    BY <2>1
<1>3. ASSUME Queue(chosen)
      PROVE  /\ DOMAIN chosen = {"status", "cursor", "items"}
             /\ chosen.status = "planned" /\ chosen.cursor = 1
  <2>1. PICK q : chosen = [status |-> "planned", cursor |-> 1, items |-> q]
    BY <1>3 DEF Queue
  <2> QED
    BY <2>1
<1> QED
  BY <1>1, <1>2, <1>3

\* A step has the fields of its selection.
LEMMA StepFields ==
  ASSUME NEW e, NEW step, NEW chosen, Fits(e, step, chosen)
  PROVE  /\ Plain(chosen) => DOMAIN step \cap {"pick", "items", "attempts"} = {}
         /\ Single(chosen) => DOMAIN step = {"status", "pick", "attempts"}
         /\ Queue(chosen) => DOMAIN step = {"status", "cursor", "items"}
         /\ Plain(chosen) \/ Single(chosen) \/ Queue(chosen)
<1>1. CASE Plain(chosen)
  BY <1>1, KindFields DEF Fits, Terminal
<1>2. CASE Single(chosen)
  <2>1. step \in Items(e)
    BY <1>2, KindFields DEF Fits, Terminal
  <2>2. DOMAIN step = {"status", "pick", "attempts"}
    BY <2>1 DEF Items
  <2> QED
    BY <1>2, <2>2, KindFields DEF Terminal
<1>3. CASE Queue(chosen)
  <2>1. step \in Backgrounds(e)
    BY <1>3, KindFields DEF Fits, Terminal
  <2>2. DOMAIN step = {"status", "cursor", "items"}
    BY <2>1 DEF Backgrounds
  <2> QED
    BY <1>3, <2>2, KindFields DEF Terminal
<1> QED
  BY <1>1, <1>2, <1>3 DEF Fits

\* Only the background is a queue, and what it does not ask it is never a query.
LEMMA KindsById ==
  ASSUME NEW e, NEW id \in StepIds
  PROVE  /\ Queue(Selection(e)[id]) => id = "game_background"
         /\ Single(Selection(e)[id]) => id \in Asking /\ id # "game_background"
<1>1. \A c : ~(Plain(c) /\ Queue(c)) /\ ~(Plain(c) /\ Single(c)) /\ ~(Single(c) /\ Queue(c))
  BY KindFields DEF Terminal
<1>2. ASSUME id \in EnabledModules PROVE ~Queue(Selection(e)[id])
  <2>1. \/ Enhancements(e)[id] = Overlap(e)
        \/ Enhancements(e)[id] = ErrorCode(e, Selection(e)["game_background"])
    BY <1>2 DEF EnabledModules, Enhancements, Selections
  <2>2. ~Queue(Raises)
    BY KindFields DEF Raises
  <2>3. \A reason : ~Queue(Skip(reason))
    BY <1>1, Answers1
  <2>4. ~Queue(Enhancements(e)[id])
    BY <2>1, <2>2, <1>1, ErrorCodeKind, OverlapKind
  <2>5. ~Queue(Enhancement(Enhancements(e), id))
    BY <2>3, <2>4 DEF Enhancement, Allocated
  <2> QED
    BY <1>2, <2>5, SelectionIs
<1> QED
  BY <1>1, <1>2, Ids, SelectionKinds DEF Asking, EnabledModules

\* The keys of the queries the selection asks, and what each is selected for.
AllKeys(e) ==
  {<<id, 0>> : id \in {i \in Asking : Single(Selection(e)[i])}}
  \cup {<<"game_background", i>> :
          i \in {j \in 1..BackgroundGames : /\ Queue(Selection(e)["game_background"])
                                            /\ j \in DOMAIN Selection(e)["game_background"].items}}

PickAt(e, key) ==
  IF key[2] = 0 THEN Selection(e)[key[1]].pick ELSE Selection(e)[key[1]].items[key[2]].pick

\* The form of a key.
LEMMA KeyForm ==
  ASSUME NEW e, NEW key \in AllKeys(e)
  PROVE  /\ key = <<key[1], key[2]>> /\ key[1] \in Asking /\ key[1] \in StepIds
         /\ \/ key[2] = 0 /\ key[1] # "game_background" /\ Single(Selection(e)[key[1]])
            \/ /\ key[1] = "game_background" /\ key[2] \in 1..BackgroundGames
               /\ key[2] \in DOMAIN Selection(e)[key[1]].items /\ Queue(Selection(e)[key[1]])
<1>1. CASE \E id \in Asking : key = <<id, 0>> /\ Single(Selection(e)[id])
  <2>1. PICK id \in Asking : key = <<id, 0>> /\ Single(Selection(e)[id])
    BY <1>1
  <2>2. id \in StepIds
    BY Ids DEF Asking
  <2> QED
    BY <2>1, <2>2, KindsById
<1>2. CASE \E i \in 1..BackgroundGames :
             /\ key = <<"game_background", i>> /\ Queue(Selection(e)["game_background"])
             /\ i \in DOMAIN Selection(e)["game_background"].items
  BY <1>2, Ids DEF Asking
<1> QED
  BY <1>1, <1>2 DEF AllKeys

\* The keys of a plan are those of its selected steps.
LEMMA KeysOfPlan ==
  ASSUME NEW e, NEW post, Shape(e, post.steps)
  PROVE  QueryKeys(post) = {key \in AllKeys(e) : post.steps[key[1]] # Unplanned}
<1> DEFINE bg == "game_background"
<1>1. DOMAIN Unplanned = {"status"}
  BY DEF Unplanned
<1>2. ASSUME NEW id \in Asking
      PROVE  "attempts" \in DOMAIN post.steps[id]
               <=> Single(Selection(e)[id]) /\ post.steps[id] # Unplanned
  <2>1. id \in StepIds
    BY Ids DEF Asking
  <2>2. post.steps[id] = Unplanned \/ Fits(e, post.steps[id], Selection(e)[id])
    BY <2>1 DEF Shape
  <2>3. CASE post.steps[id] = Unplanned
    BY <2>3, <1>1
  <2>4. CASE post.steps[id] # Unplanned /\ Fits(e, post.steps[id], Selection(e)[id])
    <3>1. ~(Single(Selection(e)[id]) /\ (Plain(Selection(e)[id]) \/ Queue(Selection(e)[id])))
      BY KindFields DEF Terminal
    <3> QED
      BY <2>4, <3>1, StepFields
  <2> QED
    BY <2>2, <2>3, <2>4
<1>3. DOMAIN BackgroundItems(post.steps[bg])
        = {j \in 1..BackgroundGames : /\ Queue(Selection(e)[bg]) /\ post.steps[bg] # Unplanned
                                      /\ j \in DOMAIN Selection(e)[bg].items}
  <2>1. bg \in StepIds
    BY Ids
  <2>2. post.steps[bg] = Unplanned \/ Fits(e, post.steps[bg], Selection(e)[bg])
    BY <2>1 DEF Shape
  <2>3. DOMAIN <<>> = {}
    OBVIOUS
  <2>4. CASE post.steps[bg] = Unplanned
    BY <2>4, <1>1, <2>3 DEF BackgroundItems
  <2>5. CASE post.steps[bg] # Unplanned /\ Queue(Selection(e)[bg])
    <3>1. DOMAIN post.steps[bg] = {"status", "cursor", "items"}
      BY <2>2, <2>5, StepFields
    <3>2. DOMAIN post.steps[bg].items = DOMAIN Selection(e)[bg].items
      BY <2>2, <2>5, KindFields DEF Fits, Terminal
    <3>3. DOMAIN Selection(e)[bg].items \subseteq 1..BackgroundGames
      <4>1. PICK n \in 1..BackgroundGames :
              Selection(e)[bg].items = [i \in 1..n |-> Selection(e)[bg].items[i]]
        BY <2>5 DEF Queue
      <4>2. DOMAIN Selection(e)[bg].items = 1..n
        BY <4>1
      <4> QED
        BY <4>2, LimitAssumption
    <3> QED
      BY <2>5, <3>1, <3>2, <3>3 DEF BackgroundItems
  <2>6. CASE post.steps[bg] # Unplanned /\ ~Queue(Selection(e)[bg])
    <3>1. "items" \notin DOMAIN post.steps[bg]
      BY <2>2, <2>6, StepFields
    <3> QED
      BY <2>6, <3>1, <2>3 DEF BackgroundItems
  <2> QED
    BY <2>4, <2>5, <2>6
<1>4. \A i : <<bg, i>>[1] = bg
  OBVIOUS
<1> QED
  BY <1>2, <1>3, <1>4 DEF QueryKeys, AllKeys

\* What a query is selected for is in Picks.
LEMMA PickTyped ==
  ASSUME NEW e, NEW key \in AllKeys(e)
  PROVE  PickAt(e, key) \in Picks(e)
<1> DEFINE chosen == Selection(e)[key[1]]
<1>1. PickAt(e, key) \in PicksOf(chosen)
  <2>1. CASE key[2] = 0 /\ Single(chosen)
    <3>1. "items" \notin DOMAIN chosen /\ "pick" \in DOMAIN chosen
      BY <2>1, KindFields
    <3> QED
      BY <2>1, <3>1 DEF PicksOf, PickAt
  <2>2. CASE key[2] # 0 /\ Queue(chosen) /\ key[2] \in DOMAIN chosen.items
    <3>1. "items" \in DOMAIN chosen
      BY <2>2, KindFields
    <3> QED
      BY <2>2, <3>1 DEF PicksOf, PickAt
  <2> QED
    BY <2>1, <2>2, KeyForm, LimitAssumption
<1> QED
  BY <1>1, KeyForm DEF Picks

\* What stands at a key.
LEMMA ItemAt ==
  ASSUME NEW e, NEW post, Shape(e, post.steps), NEW key \in QueryKeys(post)
  PROVE  /\ QueryItem(post, key) \in Items(e)
         /\ QueryItem(post, key).pick = PickAt(e, key)
         /\ key \in AllKeys(e) /\ post.steps[key[1]] # Unplanned
         /\ key[2] = 0 => post.steps[key[1]] \in Items(e)
         /\ key[2] # 0 => /\ key[1] = "game_background" /\ post.steps[key[1]] \in Backgrounds(e)
                          /\ post.steps[key[1]].items \in Seq(Items(e))
                          /\ key[2] \in 1..Len(post.steps[key[1]].items)
<1> DEFINE step == post.steps[key[1]]
           chosen == Selection(e)[key[1]]
<1>1. key \in AllKeys(e) /\ step # Unplanned
  BY KeysOfPlan
<1>2. Fits(e, step, chosen)
  BY <1>1, KeyForm DEF Shape
<1>3. CASE key[2] = 0 /\ Single(chosen)
  BY <1>1, <1>2, <1>3, KindFields DEF Fits, QueryItem, PickAt, Terminal
<1>4. CASE key[2] # 0 /\ key[1] = "game_background" /\ Queue(chosen) /\ key[2] \in DOMAIN chosen.items
  <2>1. /\ step \in Backgrounds(e) /\ DOMAIN step.items = DOMAIN chosen.items
        /\ step.items[key[2]].pick = chosen.items[key[2]].pick
    BY <1>2, <1>4, KindFields DEF Fits, Terminal
  <2>2. step.items \in Seq(Items(e))
    BY <2>1 DEF Backgrounds
  <2>3. key[2] \in 1..Len(step.items)
    BY <1>4, <2>1, <2>2
  <2>4. step.items[key[2]] \in Items(e)
    BY <2>2, <2>3
  <2> QED
    BY <1>1, <1>4, <2>1, <2>2, <2>3, <2>4 DEF QueryItem, PickAt
<1> QED
  BY <1>1, <1>3, <1>4, KeyForm, LimitAssumption
-----------------------------------------------------------------------------
(* A sound plan.                                                           *)

\* The n-th attempt of the query at key, selected for pick, asks for that and has
\* the answer to that, if any.
AnswerFits(key, pick, n, a) ==
  /\ a.sql = [step |-> key[1], pick |-> pick, repair |-> n - 1]
  /\ (a.qid = None) <=> (a.event = None)
  /\ a.event # None => /\ a.event.qid = a.qid /\ a.event.sql = a.sql /\ a.event.attempt = n - 1

ItemFits(key, item) ==
  /\ ItemHolds(item)
  /\ \A n \in DOMAIN item.attempts : AnswerFits(key, item.pick, n, item.attempts[n])

ItemsFit(post) == \A key \in QueryKeys(post) : ItemFits(key, QueryItem(post, key))

CursorFits(steps) ==
  "items" \in DOMAIN steps["game_background"] => CursorHolds(steps["game_background"])

\* A step is selected only behind terminal ones, and the enhancements by their plan.
Ordered(e, post) ==
  /\ \A k \in 1..5 : post.steps[StepOrder[k + 1]] # Unplanned =>
                       post.steps[StepOrder[k]].status \in Terminal
  /\ post.steps["error_code"] = Unplanned => post.plan = None
  /\ post.steps["error_code"] # Unplanned =>
       ~SelectionRaises(Enhancements(e)) /\ post.plan = EnhancementPlan(Enhancements(e))

\* What holds of the plan whenever it is carried on.
Sound(e, post) ==
  /\ Shape(e, post.steps) /\ ItemsFit(post) /\ CursorFits(post.steps)
  /\ Ordered(e, post) /\ QueryIdsDiffer(post)

\* Nothing is left to select before a query is answered.
Closed(steps) ==
  /\ steps["counterfactual"] # Unplanned
  /\ \A k \in 1..5 : steps[StepOrder[k]].status \in Terminal => steps[StepOrder[k + 1]] # Unplanned

\* The counterfactual is not selected, or it is that of the evidence.
LEMMA CounterfactualIs ==
  ASSUME NEW e, NEW steps, Shape(e, steps)
  PROVE  steps["counterfactual"] \in {Unplanned, Counterfactual(e)}
<1>1. "counterfactual" \in StepIds
  BY Ids
<1>2. ~Single(Selection(e)["counterfactual"]) /\ ~Queue(Selection(e)["counterfactual"])
  BY <1>1, KindsById DEF Asking
<1> QED
  BY <1>1, <1>2, SelectionIs DEF Shape, Fits

\* Once the background is selected the selectors of the enhancements answer what
\* the evidence alone asks for.
LEMMA EnhancementsAre ==
  ASSUME NEW e, NEW steps, Shape(e, steps), steps["game_background"] # Unplanned
  PROVE  Selections(e, steps) = Enhancements(e)
<1> DEFINE bg == steps["game_background"]
           chosen == Selection(e)["game_background"]
<1>1. Fits(e, bg, chosen)
  BY Ids DEF Shape
<1>2. ~Single(chosen)
  BY Ids, KindsById
<1>3. ErrorCode(e, bg) = ErrorCode(e, chosen)
  <2>1. CASE bg = chosen
    BY <2>1
  <2>2. CASE Queue(chosen)
    <3>1. "items" \in DOMAIN bg /\ "items" \in DOMAIN chosen
      BY <1>1, <2>2, StepFields, KindFields
    <3>2. PICK n \in 1..BackgroundGames : chosen.items = [i \in 1..n |-> chosen.items[i]]
      BY <2>2 DEF Queue
    <3>3. DOMAIN chosen.items = 1..n /\ 1 \in 1..n
      BY <3>2, LimitAssumption
    <3>4. DOMAIN bg.items = DOMAIN chosen.items /\ bg.items[1].pick = chosen.items[1].pick
      BY <1>1, <2>2, <3>3, KindFields DEF Fits, Terminal
    <3>5. bg.items # <<>> /\ chosen.items # <<>>
      <4>1. DOMAIN <<>> = {}
        OBVIOUS
      <4> QED
        BY <4>1, <3>3, <3>4
    <3> HIDE DEF bg, chosen
    <3> QED
      BY <3>1, <3>4, <3>5, FocusSame DEF BackgroundItems
  <2> QED
    BY <1>1, <1>2, <2>1, <2>2 DEF Fits
<1> QED
  BY <1>3 DEF Selections, Enhancements

\* A query that is planned has not been asked.
LEMMA PlannedItem ==
  ASSUME NEW item, ItemHolds(item), item.status = "planned"
  PROVE  item.attempts = <<>>
BY DEF ItemHolds

\* A step that is planned is as it was selected.
LEMMA PlannedSame ==
  ASSUME NEW e, NEW post, Shape(e, post.steps), ItemsFit(post), CursorFits(post.steps),
         NEW id \in StepIds, post.steps[id] # Unplanned, post.steps[id].status = "planned"
  PROVE  post.steps[id] = Selection(e)[id]
<1> DEFINE step == post.steps[id]
           chosen == Selection(e)[id]
<1>1. Fits(e, step, chosen)
  BY DEF Shape
<1>2. CASE Plain(chosen)
  BY <1>1, <1>2, KindFields DEF Fits
<1>3. CASE Single(chosen)
  <2>1. id \in Asking /\ <<id, 0>> \in AllKeys(e)
    BY <1>3, KindsById DEF AllKeys
  <2>2. <<id, 0>> \in QueryKeys(post)
    <3>1. <<id, 0>>[1] = id
      OBVIOUS
    <3> QED
      BY <2>1, <3>1, KeysOfPlan
  <2>3. QueryItem(post, <<id, 0>>) = step
    BY DEF QueryItem
  <2>4. step.attempts = <<>>
    BY <2>2, <2>3, PlannedItem DEF ItemsFit, ItemFits
  <2>5. step \in Items(e) /\ step.pick = chosen.pick
    BY <1>1, <1>3, KindFields DEF Fits, Terminal
  <2>6. step = [status |-> step.status, pick |-> step.pick, attempts |-> step.attempts]
    BY <2>5 DEF Items
  <2> QED
    BY <1>3, <2>4, <2>5, <2>6 DEF Single
<1>4. CASE Queue(chosen)
  <2>1. id = "game_background"
    BY <1>4, KindsById
  <2>2. PICK n \in 1..BackgroundGames :
          /\ chosen = [status |-> "planned", cursor |-> 1, items |-> chosen.items]
          /\ chosen.items = [i \in 1..n |-> chosen.items[i]]
          /\ \A i \in 1..n : Single(chosen.items[i])
    BY <1>4 DEF Queue
  <2>3. step \in Backgrounds(e) /\ DOMAIN step.items = DOMAIN chosen.items
    BY <1>1, <1>4, KindFields DEF Fits, Terminal
  <2>4. DOMAIN chosen.items = 1..n /\ n \in {1, 2, 3}
    BY <2>2, LimitAssumption
  <2>5. step.items \in Seq(Items(e)) /\ Len(step.items) = n
    <3>1. step.items \in Seq(Items(e))
      BY <2>3 DEF Backgrounds
    <3>2. DOMAIN step.items = 1..Len(step.items) /\ Len(step.items) \in Nat
      BY <3>1
    <3> QED
      BY <3>1, <3>2, <2>3, <2>4
  <2>6. step.cursor = 1 /\ \A i \in 1..n : step.items[i].status = "planned"
    <3>1. CursorHolds(step)
      BY <1>1, <1>4, <2>1, StepFields DEF CursorFits
    <3>2. step.cursor = 1 /\ step.items[1].status = "planned"
      BY <3>1, <2>4, <2>5 DEF CursorHolds, Aggregate
    <3> QED
      BY <3>1, <3>2, <2>3, <2>4 DEF CursorHolds
  <2>7. ASSUME NEW i \in 1..n PROVE step.items[i] = chosen.items[i]
    <3>1. <<id, i>> \in AllKeys(e)
      BY <1>4, <2>1, <2>4, LimitAssumption DEF AllKeys
    <3>2. <<id, i>> \in QueryKeys(post)
      <4>1. <<id, i>>[1] = id
        OBVIOUS
      <4> QED
        BY <3>1, <4>1, KeysOfPlan
    <3>3. QueryItem(post, <<id, i>>) = step.items[i]
      BY <2>4 DEF QueryItem
    <3>4. step.items[i].attempts = <<>>
      BY <3>2, <3>3, <2>6, PlannedItem DEF ItemsFit, ItemFits
    <3>5. step.items[i] \in Items(e)
      BY <2>4, <2>5
    <3>6. step.items[i].pick = chosen.items[i].pick
      BY <1>1, <1>4, <2>4, KindFields DEF Fits, Terminal
    <3>7. step.items[i] = [status |-> step.items[i].status, pick |-> step.items[i].pick,
                           attempts |-> step.items[i].attempts]
      BY <3>5 DEF Items
    <3> QED
      BY <3>4, <3>6, <3>7, <2>2, <2>6 DEF Single
  <2>8. step.items = chosen.items
    <3>1. step.items = [i \in 1..n |-> step.items[i]]
      BY <2>3, <2>4, <2>5
    <3> QED
      BY <3>1, <2>2, <2>7
  <2>9. step = [status |-> step.status, cursor |-> step.cursor, items |-> step.items]
    BY <2>3 DEF Backgrounds
  <2> QED
    BY <2>2, <2>6, <2>8, <2>9
<1> QED
  BY <1>1, <1>2, <1>3, <1>4 DEF Fits
-----------------------------------------------------------------------------
(* One step of the walk.                                                   *)

\* A selection as it is made.
LEMMA FitsItself ==
  ASSUME NEW e, NEW id \in StepIds,
         \/ Plain(Selection(e)[id]) \/ Single(Selection(e)[id]) \/ Queue(Selection(e)[id])
  PROVE  /\ Fits(e, Selection(e)[id], Selection(e)[id])
         /\ Queue(Selection(e)[id]) => CursorHolds(Selection(e)[id])
<1> DEFINE chosen == Selection(e)[id]
<1>1. ASSUME NEW c, Single(c), c.pick \in Picks(e) PROVE c \in Items(e)
  <2>1. <<>> \in Seq(Attempts(e)) /\ "planned" \in Statuses
    BY DEF Statuses
  <2>2. [status |-> "planned", pick |-> c.pick, attempts |-> <<>>] \in Items(e)
    BY <1>1, <2>1 DEF Items
  <2> QED
    BY <1>1, <2>2 DEF Single
<1>2. CASE Plain(chosen)
  BY <1>2, KindFields DEF Fits, Terminal
<1>3. CASE Single(chosen)
  <2>1. <<id, 0>> \in AllKeys(e)
    BY <1>3, KindsById DEF AllKeys
  <2>2. chosen.pick \in Picks(e)
    BY <2>1, PickTyped DEF PickAt
  <2>3. ~Queue(chosen)
    BY <1>3, KindFields
  <2> QED
    BY <1>1, <1>3, <2>2, <2>3 DEF Fits
<1>4. CASE Queue(chosen)
  <2>1. id = "game_background"
    BY <1>4, KindsById
  <2>2. PICK n \in 1..BackgroundGames :
          /\ chosen = [status |-> "planned", cursor |-> 1, items |-> chosen.items]
          /\ chosen.items = [i \in 1..n |-> chosen.items[i]]
          /\ \A i \in 1..n : Single(chosen.items[i])
    BY <1>4 DEF Queue
  <2>3. DOMAIN chosen.items = 1..n /\ n \in {1, 2, 3}
    BY <2>2, LimitAssumption
  <2>4. ASSUME NEW i \in 1..n PROVE chosen.items[i] \in Items(e)
    <3>1. <<id, i>> \in AllKeys(e)
      BY <1>4, <2>1, <2>3, LimitAssumption DEF AllKeys
    <3>2. PickAt(e, <<id, i>>) = chosen.items[i].pick
      BY <2>3 DEF PickAt
    <3> QED
      BY <1>1, <2>2, <3>1, <3>2, PickTyped
  <2>5. chosen.items \in Seq(Items(e)) /\ Len(chosen.items) = n
    <3>1. chosen.items \in [1..n -> Items(e)] /\ n \in Nat
      BY <2>2, <2>3, <2>4
    <3> QED
      BY <3>1
  <2>6. chosen \in Backgrounds(e)
    BY <2>2, <2>5 DEF Backgrounds, Statuses
  <2>7. chosen.cursor = 1 /\ chosen.status = "planned"
    BY <2>2
  <2>8. \A i \in 1..n : chosen.items[i].status = "planned"
    BY <2>2, KindFields
  <2>9. CursorHolds(chosen)
    <3> HIDE DEF chosen
    <3> QED
      BY <2>3, <2>5, <2>7, <2>8 DEF CursorHolds
  <2> QED
    BY <1>4, <2>6, <2>9 DEF Fits
<1> QED
  BY <1>2, <1>3, <1>4

\* A query that was just planned.
LEMMA FreshItem ==
  ASSUME NEW e, NEW post, NEW key \in AllKeys(e),
         post.steps[key[1]] = Selection(e)[key[1]]
  PROVE  /\ QueryItem(post, key).attempts = <<>> /\ QueryItem(post, key).status = "planned"
         /\ ItemFits(key, QueryItem(post, key))
<1> DEFINE chosen == Selection(e)[key[1]]
           item == QueryItem(post, key)
<1>1. item.attempts = <<>> /\ item.status = "planned"
  <2>1. CASE key[2] = 0 /\ Single(chosen)
    BY <2>1, KindFields DEF QueryItem
  <2>2. CASE key[2] # 0 /\ Queue(chosen) /\ key[2] \in DOMAIN chosen.items
    <3>1. PICK n \in 1..BackgroundGames :
            /\ chosen.items = [i \in 1..n |-> chosen.items[i]]
            /\ \A i \in 1..n : Single(chosen.items[i])
      BY <2>2 DEF Queue
    <3>2. Single(chosen.items[key[2]])
      BY <2>2, <3>1
    <3> QED
      BY <2>2, <3>2, KindFields DEF QueryItem
  <2> QED
    BY <2>1, <2>2, KeyForm, LimitAssumption
<1>2. DOMAIN <<>> = {}
  OBVIOUS
<1>3. ItemHolds(item)
  <2> HIDE DEF item
  <2> QED
    BY <1>1 DEF ItemHolds
<1> QED
  BY <1>1, <1>2, <1>3 DEF ItemFits

\* A sound plan stays sound when its next step is selected.
LEMMA Taking ==
  ASSUME NEW e, NEW w, NEW q, Sound(e, w), NEW k \in 1..6,
         w.steps[StepOrder[k]] = Unplanned,
         \A j \in 1..(k - 1) : w.steps[StepOrder[j]].status \in Terminal,
         \/ Plain(Selection(e)[StepOrder[k]]) \/ Single(Selection(e)[StepOrder[k]])
         \/ Queue(Selection(e)[StepOrder[k]]),
         q.steps = [w.steps EXCEPT ![StepOrder[k]] = Selection(e)[StepOrder[k]]],
         k < 5 => q.plan = w.plan,
         k >= 5 => /\ q.plan = EnhancementPlan(Enhancements(e))
                   /\ ~SelectionRaises(Enhancements(e))
  PROVE  Sound(e, q)
<1> DEFINE id == StepOrder[k]
           chosen == Selection(e)[id]
<1>1. id \in StepIds /\ \A j \in 1..6 : StepOrder[j] \in StepIds /\ (j # k => StepOrder[j] # id)
  BY Order, Ids
<1>2. q.steps[id] = chosen /\ \A i \in StepIds : i # id => q.steps[i] = w.steps[i]
  BY <1>1 DEF Sound, Shape
<1>3. Fits(e, chosen, chosen) /\ (Queue(chosen) => CursorHolds(chosen))
  BY <1>1, FitsItself
<1>4. Shape(e, q.steps)
  <2>1. q.steps = [i \in StepIds |-> q.steps[i]]
    BY <1>1 DEF Sound, Shape
  <2>2. ASSUME NEW i \in StepIds
        PROVE  q.steps[i] = Unplanned \/ Fits(e, q.steps[i], Selection(e)[i])
    BY <1>2, <1>3 DEF Sound, Shape
  <2> QED
    BY <2>1, <2>2 DEF Shape
<1>5. ASSUME NEW key \in QueryKeys(q)
      PROVE  /\ key[1] = id => /\ QueryItem(q, key).attempts = <<>>
                               /\ ItemFits(key, QueryItem(q, key))
             /\ key[1] # id => /\ key \in QueryKeys(w) /\ QueryItem(q, key) = QueryItem(w, key)
  <2>1. key \in AllKeys(e) /\ q.steps[key[1]] # Unplanned
    BY ONLY <1>4, <1>5, ItemAt
  <2>2. key[1] \in StepIds
    BY <2>1, KeyForm
  <2>3. ASSUME key[1] = id
        PROVE  QueryItem(q, key).attempts = <<>> /\ ItemFits(key, QueryItem(q, key))
    BY <1>2, <2>1, <2>3, FreshItem
  <2>4. ASSUME key[1] # id
        PROVE  key \in QueryKeys(w) /\ QueryItem(q, key) = QueryItem(w, key)
    <3>1. q.steps[key[1]] = w.steps[key[1]]
      BY <1>2, <2>2, <2>4
    <3>2. key \in QueryKeys(w)
      BY <2>1, <3>1, KeysOfPlan DEF Sound
    <3> QED
      BY <3>1, <3>2 DEF QueryItem
  <2> QED
    BY <2>3, <2>4
<1>6. ItemsFit(q)
  BY <1>5 DEF ItemsFit, Sound
<1>7. CursorFits(q.steps)
  <2>1. "game_background" \in StepIds
    BY Ids
  <2>2. CASE id = "game_background"
    <3>1. "items" \in DOMAIN chosen => Queue(chosen)
      BY <1>3, StepFields
    <3> QED
      BY <1>2, <1>3, <2>2, <3>1 DEF CursorFits
  <2>3. CASE id # "game_background"
    BY <1>2, <2>1, <2>3 DEF CursorFits, Sound
  <2> QED
    BY <2>2, <2>3
<1>8. Ordered(e, q)
  <2>1. ASSUME NEW j \in 1..5, q.steps[StepOrder[j + 1]] # Unplanned
        PROVE  q.steps[StepOrder[j]].status \in Terminal
    <3>1. CASE j + 1 = k
      <4>1. w.steps[StepOrder[j]].status \in Terminal /\ q.steps[StepOrder[j]] = w.steps[StepOrder[j]]
        BY <1>1, <1>2, <3>1
      <4> QED
        BY <4>1
    <3>2. CASE j = k
      <4>1. w.steps[StepOrder[j + 1]] # Unplanned
        BY <1>1, <1>2, <2>1, <3>2
      <4>2. w.steps[StepOrder[j]].status \in Terminal
        BY <4>1 DEF Sound, Ordered
      <4> QED
        BY <4>2, <3>2 DEF Unplanned, Terminal
    <3>3. CASE j + 1 # k /\ j # k
      <4>1. /\ q.steps[StepOrder[j]] = w.steps[StepOrder[j]]
            /\ q.steps[StepOrder[j + 1]] = w.steps[StepOrder[j + 1]]
        BY <1>1, <1>2, <3>3
      <4> QED
        BY <4>1, <2>1 DEF Sound, Ordered
    <3> QED
      BY <3>1, <3>2, <3>3
  <2>2. CASE k < 5
    <3>1. q.steps["error_code"] = w.steps["error_code"]
      BY <1>1, <1>2, <2>2, Order
    <3> QED
      BY <2>1, <2>2, <3>1 DEF Sound, Ordered
  <2>3. CASE k >= 5
    <3>1. q.steps["error_code"] # Unplanned
      <4>1. CASE k = 5
        <5>1. id = "error_code"
          BY <4>1, Order
        <5>2. chosen # Unplanned
          <6>1. \A c : Plain(c) \/ Single(c) \/ Queue(c) => c # Unplanned
            <7>1. DOMAIN Unplanned = {"status"} /\ Unplanned.status = "planned"
              BY DEF Unplanned
            <7>2. {"status"} # {"status", "pick", "attempts"}
              OBVIOUS
            <7>3. {"status"} # {"status", "cursor", "items"}
              OBVIOUS
            <7> QED
              BY <7>1, <7>2, <7>3, KindFields DEF Terminal
          <6> QED
            BY <6>1
        <5> QED
          BY <1>2, <5>1, <5>2
      <4>2. CASE k = 6
        <5>1. StepOrder[5] = "error_code" /\ StepOrder[5] # id /\ StepOrder[5] \in StepIds
          BY <1>1, <4>2, Order
        <5>2. w.steps["error_code"].status \in Terminal
          BY <4>2, <5>1
        <5> QED
          BY <1>2, <5>1, <5>2 DEF Unplanned, Terminal
      <4> QED
        BY <2>3, <4>1, <4>2
    <3> QED
      BY <2>1, <2>3, <3>1 DEF Ordered
  <2> QED
    BY <2>2, <2>3
<1>9. QueryIdsDiffer(q)
  <2>1. DOMAIN <<>> = {}
    OBVIOUS
  <2>2. ASSUME NEW a \in QueryKeys(q), NEW m \in DOMAIN QueryItem(q, a).attempts
        PROVE  a \in QueryKeys(w) /\ QueryItem(q, a) = QueryItem(w, a)
    BY <1>5, <2>1
  <2> QED
    BY <2>2 DEF QueryIdsDiffer, Sound
<1> QED
  BY <1>4, <1>6, <1>7, <1>8, <1>9 DEF Sound

\* Of the steps of p, w has selected some that were not, and left the others alone.
Carried(e, p, w) ==
  \A id \in StepIds : \/ w.steps[id] = p.steps[id]
                      \/ p.steps[id] = Unplanned /\ w.steps[id] = Selection(e)[id]

\* What the walk has made of the plan p when it is past the first k steps.
WalkFits(e, p, w, k) ==
  /\ w = [steps |-> w.steps, plan |-> w.plan, halted |-> w.halted, raised |-> w.raised]
  /\ w.raised => w.halted
  /\ ~w.raised =>
       /\ Sound(e, w)
       /\ Carried(e, p, w)
       /\ ~w.halted => \A j \in 1..k : w.steps[StepOrder[j]].status \in Terminal
       /\ w.halted => Closed(w.steps)

\* Soundness is about the steps and the plan.
LEMMA SoundSame ==
  ASSUME NEW e, NEW a, NEW b, Sound(e, a), b.steps = a.steps, b.plan = a.plan
  PROVE  Sound(e, b)
<1>1. QueryKeys(b) = QueryKeys(a)
  BY DEF QueryKeys
<1>2. \A key : QueryItem(b, key) = QueryItem(a, key)
  BY DEF QueryItem
<1>3. Shape(e, b.steps) /\ CursorFits(b.steps)
  BY DEF Sound
<1>4. ItemsFit(b)
  BY <1>1, <1>2 DEF Sound, ItemsFit
<1>5. Ordered(e, b)
  BY DEF Sound, Ordered
<1>6. QueryIdsDiffer(b)
  BY <1>1, <1>2 DEF Sound, QueryIdsDiffer
<1> QED
  BY <1>3, <1>4, <1>5, <1>6 DEF Sound

\* The status of a step.
LEMMA StatusTyped ==
  ASSUME NEW e, NEW steps, Shape(e, steps), NEW id \in StepIds
  PROVE  steps[id].status \in Statuses
<1>1. CASE steps[id] = Unplanned
  BY <1>1 DEF Unplanned, Statuses
<1>2. CASE Fits(e, steps[id], Selection(e)[id])
  BY <1>2 DEF Fits, Plain, Items, Backgrounds, Statuses
<1> QED
  BY <1>1, <1>2 DEF Shape

\* Behind a selected step every step is terminal.
LEMMA TerminalBefore ==
  ASSUME NEW e, NEW p, Ordered(e, p), NEW j \in 1..6, NEW i \in 1..(j - 1),
         p.steps[StepOrder[j]] # Unplanned
  PROVE  p.steps[StepOrder[i]].status \in Terminal
<1> DEFINE Past(k) == p.steps[StepOrder[k]].status \in Terminal
           Made(k) == p.steps[StepOrder[k]] # Unplanned
<1>1. \A k \in 1..5 : Made(k + 1) => Past(k)
  BY DEF Ordered
<1>2. \A k \in 1..6 : Past(k) => Made(k)
  BY DEF Unplanned, Terminal
<1>3. Made(j)
  OBVIOUS
<1> HIDE DEF Past, Made
<1>4. (Made(2) => Past(1)) /\ (Made(3) => Past(2)) /\ (Made(4) => Past(3))
      /\ (Made(5) => Past(4)) /\ (Made(6) => Past(5))
  BY <1>1
<1>5. (Past(2) => Made(2)) /\ (Past(3) => Made(3)) /\ (Past(4) => Made(4)) /\ (Past(5) => Made(5))
  BY <1>2
<1>6. Past(i)
  BY <1>3, <1>4, <1>5
<1> QED
  BY <1>6 DEF Past

\* The walk halts where nothing is left to select.
LEMMA ClosedHere ==
  ASSUME NEW e, NEW q, Sound(e, q), NEW k \in 1..6,
         \A j \in 1..(k - 1) : q.steps[StepOrder[j]].status \in Terminal,
         q.steps[StepOrder[k]] # Unplanned, q.steps[StepOrder[k]].status \notin Terminal
  PROVE  Closed(q.steps)
<1>1. \A j \in 1..6 : q.steps[StepOrder[j]].status \in Terminal => q.steps[StepOrder[j]] # Unplanned
  BY DEF Unplanned, Terminal
<1>2. ASSUME NEW j \in 1..5, q.steps[StepOrder[j]].status \in Terminal
      PROVE  q.steps[StepOrder[j + 1]] # Unplanned
  <2>1. CASE j > k
    <3>1. q.steps[StepOrder[j]] # Unplanned /\ k \in 1..(j - 1) /\ j \in 1..6
      BY <1>1, <1>2, <2>1
    <3>2. q.steps[StepOrder[k]].status \in Terminal
      BY <3>1, TerminalBefore DEF Sound
    <3> QED
      BY <3>2
  <2>2. CASE j = k
    BY <1>2, <2>2
  <2>3. CASE j < k
    <3>1. j + 1 \in 1..6 /\ (j + 1 = k \/ j + 1 \in 1..(k - 1))
      BY <2>3
    <3> QED
      BY <1>1, <3>1
  <2> QED
    BY <2>1, <2>2, <2>3
<1>3. q.steps["counterfactual"] # Unplanned
  <2>1. 1 \in 1..6 /\ (k = 1 \/ 1 \in 1..(k - 1))
    OBVIOUS
  <2> QED
    BY <1>1, <2>1, Order
<1> QED
  BY <1>2, <1>3 DEF Closed

\* A step that is selected, for the first time or again before it was begun.
LEMMA TookFits ==
  ASSUME NEW e, NEW p, NEW w, NEW k \in 1..6, WalkFits(e, p, w, k - 1), ~w.halted,
         w.steps[StepOrder[k]].status = "planned", NEW plan,
         k < 5 => plan = w.plan,
         k >= 5 => /\ plan = EnhancementPlan(Enhancements(e))
                   /\ ~SelectionRaises(Enhancements(e))
  PROVE  WalkFits(e, p, Took(w, StepOrder[k], Selection(e)[StepOrder[k]], plan), k)
<1> DEFINE id == StepOrder[k]
           chosen == Selection(e)[id]
           q == Took(w, id, chosen, plan)
<1>1. id \in StepIds /\ \A j \in 1..6 : StepOrder[j] \in StepIds /\ (j # k => StepOrder[j] # id)
  BY Order, Ids
<1>2. /\ w = [steps |-> w.steps, plan |-> w.plan, halted |-> w.halted, raised |-> w.raised]
      /\ ~w.raised
      /\ Sound(e, w)
      /\ Carried(e, p, w)
      /\ \A j \in 1..(k - 1) : w.steps[StepOrder[j]].status \in Terminal
  BY DEF WalkFits
<1>3. q = [steps |-> [w.steps EXCEPT ![id] = chosen], plan |-> plan,
           halted |-> chosen.status = "planned", raised |-> FALSE]
  BY DEF Took
<1>4. /\ q.steps = [w.steps EXCEPT ![id] = chosen] /\ q.plan = plan /\ ~q.raised
      /\ q.halted <=> chosen.status = "planned"
      /\ q = [steps |-> q.steps, plan |-> q.plan, halted |-> q.halted, raised |-> q.raised]
  <2> HIDE DEF q, chosen, id
  <2>1. q.steps = [w.steps EXCEPT ![id] = chosen]
    BY <1>3
  <2>2. q.plan = plan
    BY <1>3
  <2>3. ~q.raised
    BY <1>3, Zenon
  <2>4. q.halted <=> chosen.status = "planned"
    BY <1>3, Zenon
  <2>5. q = [steps |-> q.steps, plan |-> q.plan, halted |-> q.halted, raised |-> q.raised]
    BY <1>3, Zenon
  <2> QED
    BY <2>1, <2>2, <2>3, <2>4, <2>5
<1>5. /\ q.steps[id] = chosen
      /\ \A i \in StepIds : i # id => q.steps[i] = w.steps[i]
  <2>1. w.steps = [i \in StepIds |-> w.steps[i]]
    BY <1>2 DEF Sound, Shape
  <2> HIDE DEF q, chosen, id
  <2> QED
    BY <1>1, <1>4, <2>1
<1>6. Plain(chosen) \/ Single(chosen) \/ Queue(chosen)
  <2>1. CASE k < 5
    BY <2>1, Order, SelectionKinds
  <2>2. CASE k >= 5
    <3>1. id \in EnabledModules
      BY <2>2, Order DEF EnabledModules
    <3> QED
      BY <2>2, <3>1, SelectionKinds
  <2> QED
    BY <2>1, <2>2
<1>7. w.steps[id] # Unplanned => chosen = w.steps[id] /\ plan = w.plan
  <2>1. ASSUME w.steps[id] # Unplanned PROVE chosen = w.steps[id]
    BY <1>1, <1>2, <2>1, PlannedSame DEF Sound
  <2>2. ASSUME w.steps[id] # Unplanned, k >= 5 PROVE plan = w.plan
    <3>1. w.steps["error_code"] # Unplanned
      <4>1. CASE k = 5
        BY <2>2, <4>1, Order
      <4>2. CASE k = 6
        <5>1. w.steps[StepOrder[5]].status \in Terminal
          BY <1>2, <4>2
        <5> QED
          BY <5>1, Order DEF Unplanned, Terminal
      <4> QED
        BY <2>2, <4>1, <4>2
    <3> QED
      BY <1>2, <2>2, <3>1 DEF Sound, Ordered
  <2> QED
    BY <2>1, <2>2
<1>8. Sound(e, q)
  <2>1. CASE w.steps[id] = Unplanned
    <3>1. /\ Sound(e, w) /\ w.steps[id] = Unplanned
          /\ \A j \in 1..(k - 1) : w.steps[StepOrder[j]].status \in Terminal
          /\ Plain(chosen) \/ Single(chosen) \/ Queue(chosen)
          /\ q.steps = [w.steps EXCEPT ![id] = chosen]
          /\ k < 5 => q.plan = w.plan
          /\ k >= 5 => /\ q.plan = EnhancementPlan(Enhancements(e))
                       /\ ~SelectionRaises(Enhancements(e))
      BY <1>2, <1>4, <1>6, <2>1
    <3> QED
      BY ONLY <3>1, k \in 1..6, Taking
  <2>2. CASE w.steps[id] # Unplanned
    <3>1. w.steps = [i \in StepIds |-> w.steps[i]]
      BY <1>2 DEF Sound, Shape
    <3>2. q.steps = w.steps /\ q.plan = w.plan
      <4> HIDE DEF q, chosen, id
      <4> QED
        BY <1>1, <1>4, <1>5, <1>7, <2>2, <3>1
    <3> HIDE DEF q
    <3> QED
      BY <1>2, <3>2, SoundSame
  <2> QED
    BY <2>1, <2>2
<1> HIDE DEF q, chosen
<1>9. Carried(e, p, q)
  BY <1>1, <1>2, <1>5, <1>7 DEF Carried, chosen
<1>10. ~q.halted => \A j \in 1..k : q.steps[StepOrder[j]].status \in Terminal
  <2>1. ASSUME ~q.halted PROVE chosen.status \in Terminal
    BY <1>4, <1>6, <2>1, KindFields
  <2>2. ASSUME NEW j \in 1..k, j # k PROVE q.steps[StepOrder[j]].status \in Terminal
    <3>1. q.steps[StepOrder[j]] = w.steps[StepOrder[j]] /\ j \in 1..(k - 1)
      BY <1>1, <1>5, <2>2
    <3> QED
      BY <1>2, <3>1
  <2> QED
    BY <1>5, <2>1, <2>2
<1>11. q.halted => Closed(q.steps)
  <2>1. ASSUME q.halted PROVE chosen # Unplanned /\ chosen.status \notin Terminal
    <3>1. DOMAIN Unplanned = {"status"} /\ {"status"} # {"status", "pick", "attempts"}
          /\ {"status"} # {"status", "cursor", "items"}
      BY DEF Unplanned
    <3> QED
      BY <1>4, <1>6, <2>1, <3>1, KindFields DEF Terminal
  <2>2. \A j \in 1..(k - 1) : q.steps[StepOrder[j]].status \in Terminal
    <3>1. \A j \in 1..(k - 1) : q.steps[StepOrder[j]] = w.steps[StepOrder[j]]
      BY <1>1, <1>5
    <3> QED
      BY <1>2, <3>1
  <2> QED
    BY <1>5, <1>8, <2>1, <2>2, ClosedHere
<1> QED
  BY <1>2, <1>4, <1>8, <1>9, <1>10, <1>11 DEF WalkFits, q, chosen

\* CalibrationRunner.execute, one step of the plan after the other.
LEMMA WalkStep ==
  ASSUME NEW e, NEW p, NEW w, NEW k \in 1..6, WalkFits(e, p, w, k - 1)
  PROVE  WalkFits(e, p, Walk(e, w, StepOrder[k]), k)
<1> DEFINE id == StepOrder[k]
           q == Walk(e, w, id)
<1>1. id \in StepIds
  BY Order, Ids
<1>2. w = [steps |-> w.steps, plan |-> w.plan, halted |-> w.halted, raised |-> w.raised]
  BY DEF WalkFits
<1>3. CASE w.halted
  <2>1. q = w
    BY <1>3 DEF Walk
  <2> QED
    BY <1>3, <2>1 DEF WalkFits
<1>4. CASE ~w.halted
  <2>1. /\ ~w.raised /\ Sound(e, w)
        /\ Carried(e, p, w)
        /\ \A j \in 1..(k - 1) : w.steps[StepOrder[j]].status \in Terminal
    BY <1>4 DEF WalkFits
  <2>2. CASE w.steps[id].status \in Terminal
    <3>1. q = w
      BY <2>2 DEF Walk
    <3>2. \A j \in 1..k : w.steps[StepOrder[j]].status \in Terminal
      BY <2>1, <2>2
    <3> QED
      BY <1>2, <1>4, <2>1, <3>1, <3>2 DEF WalkFits
  <2>3. CASE w.steps[id].status \in Waiting
    <3>1. w.steps[id].status \notin Terminal /\ w.steps[id] # Unplanned
      BY <2>3 DEF Waiting, Terminal, Unplanned
    <3>2. q = [w EXCEPT !.halted = TRUE]
      BY <1>4, <2>3, <3>1 DEF Walk
    <3>3. Closed(w.steps)
      BY <2>1, <3>1, ClosedHere
    <3>4. /\ q.steps = w.steps /\ q.plan = w.plan /\ q.halted = TRUE /\ q.raised = w.raised
          /\ q = [steps |-> q.steps, plan |-> q.plan, halted |-> q.halted, raised |-> q.raised]
      <4>1. PICK s, l, h, r : w = [steps |-> s, plan |-> l, halted |-> h, raised |-> r]
        BY <1>2
      <4>2. q = [steps |-> s, plan |-> l, halted |-> TRUE, raised |-> r]
        BY <3>2, <4>1
      <4> QED
        BY <4>1, <4>2
    <3>5. Sound(e, q)
      <4> HIDE DEF q
      <4> QED
        BY <2>1, <3>4, SoundSame
    <3> HIDE DEF q
    <3>6. Carried(e, p, q)
      BY <2>1, <3>4 DEF Carried
    <3>7. WalkFits(e, p, q, k)
      BY <2>1, <3>3, <3>4, <3>5, <3>6 DEF WalkFits
    <3> QED
      BY <3>7 DEF q
  <2>4. CASE w.steps[id].status = "planned"
    <3>1. q = Advanced(e, w, id)
      BY <1>4, <2>4 DEF Walk, Terminal, Waiting
    <3>2. k >= 2 => w.steps["counterfactual"] = Counterfactual(e)
      <4>1. ASSUME k >= 2 PROVE w.steps["counterfactual"] # Unplanned
        <5>1. w.steps[StepOrder[1]].status \in Terminal
          BY <2>1, <4>1
        <5> QED
          BY <5>1, Order DEF Unplanned, Terminal
      <4> QED
        BY <2>1, <4>1, CounterfactualIs DEF Sound
    <3>3. CASE k < 5
      <4>1. id \notin EnabledModules
        BY <3>3, Order DEF EnabledModules
      <4>2. Chosen(e, w.steps, id) = Selection(e)[id]
        <5>1. k \in {1, 2, 3, 4}
          BY <3>3
        <5> QED
          BY <3>2, <5>1, Order, ChosenIs, SelectionIs
      <4>3. q = Took(w, id, Selection(e)[id], w.plan)
        BY <3>1, <4>1, <4>2 DEF Advanced
      <4> QED
        BY <1>4, <2>4, <3>3, <4>3, TookFits
    <3>4. CASE k >= 5
      <4>1. id \in EnabledModules /\ (k = 6 <=> id = "cross_dimension_overlap")
        BY <3>4, Order DEF EnabledModules
      <4>2. Selections(e, w.steps) = Enhancements(e)
        <5>1. w.steps["game_background"] # Unplanned
          <6>1. w.steps[StepOrder[3]].status \in Terminal
            BY <2>1, <3>4
          <6> QED
            BY <6>1, Order DEF Unplanned, Terminal
        <5> QED
          BY <2>1, <5>1, EnhancementsAre DEF Sound
      <4>3. q = Enhanced(w, id, Enhancements(e))
        BY <3>1, <4>1, <4>2 DEF Advanced
      <4>4. CASE \/ SelectionRaises(Enhancements(e))
                 \/ id = "cross_dimension_overlap" /\ EnhancementPlan(Enhancements(e)) # w.plan
        <5>1. q = [w EXCEPT !.raised = TRUE, !.halted = TRUE]
          BY <4>3, <4>4 DEF Enhanced
        <5>2. PICK s, l, h, r : w = [steps |-> s, plan |-> l, halted |-> h, raised |-> r]
          BY <1>2
        <5>3. q = [steps |-> s, plan |-> l, halted |-> TRUE, raised |-> TRUE]
          BY <5>1, <5>2
        <5> HIDE DEF q
        <5>4. /\ q = [steps |-> q.steps, plan |-> q.plan, halted |-> q.halted, raised |-> q.raised]
              /\ q.raised /\ q.halted
          BY <5>3
        <5>5. WalkFits(e, p, q, k)
          BY <5>4 DEF WalkFits
        <5> QED
          BY <5>5 DEF q
      <4>5. CASE ~(\/ SelectionRaises(Enhancements(e))
                   \/ id = "cross_dimension_overlap" /\ EnhancementPlan(Enhancements(e)) # w.plan)
        <5>1. q = Took(w, id, Enhancement(Enhancements(e), id), EnhancementPlan(Enhancements(e)))
          BY <4>3, <4>5 DEF Enhanced
        <5>2. q = Took(w, id, Selection(e)[id], EnhancementPlan(Enhancements(e)))
          BY <4>1, <5>1, SelectionIs
        <5> QED
          BY <1>4, <2>4, <3>4, <4>5, <5>2, TookFits
      <4> QED
        BY <4>4, <4>5
    <3> QED
      BY <3>3, <3>4
  <2> QED
    BY <1>1, <2>1, <2>2, <2>3, <2>4, StatusTyped DEF Sound, Statuses
<1> QED
  BY <1>3, <1>4
-----------------------------------------------------------------------------
(* The whole plan.                                                         *)

\* The types follow from the shape and the order.
LEMMA StepsTyped ==
  ASSUME NEW e, NEW post, Sound(e, post)
  PROVE  post.steps \in [StepIds -> Steps(e)] /\ post.plan \in Plans \cup {None}
<1>1. ASSUME NEW id \in StepIds PROVE post.steps[id] \in Steps(e)
  <2>1. post.steps[id] = Unplanned \/ Fits(e, post.steps[id], Selection(e)[id])
    BY DEF Sound, Shape
  <2> QED
    BY <2>1 DEF Fits, Steps
<1>2. post.steps = [id \in StepIds |-> post.steps[id]]
  BY DEF Sound, Shape
<1>3. post.plan \in Plans \cup {None}
  BY PlanTyped DEF Sound, Ordered
<1> QED
  BY <1>1, <1>2, <1>3

\* A plan that was carried on as far as it goes.
Settled(e, post) ==
  /\ post \in Posts(e) /\ Sound(e, post) /\ Closed(post.steps)
  /\ post.status = "completed" <=> AllTerminal(post.steps)

\* Walked leaves nothing to select.
LEMMA WalkedFits ==
  ASSUME NEW e, NEW p, Sound(e, p), ~Walked(e, p).raised
  PROVE  /\ Sound(e, Walked(e, p)) /\ Closed(Walked(e, p).steps)
         /\ Carried(e, p, Walked(e, p))
<1> DEFINE w0 == Start(p)
           w1 == Walk(e, w0, "counterfactual")
           w2 == Walk(e, w1, "secondary")
           w3 == Walk(e, w2, "game_background")
           w4 == Walk(e, w3, "breadth_check")
           w5 == Walk(e, w4, "error_code")
           w6 == Walk(e, w5, "cross_dimension_overlap")
<1>1. WalkFits(e, p, w0, 0)
  <2>1. /\ w0 = [steps |-> w0.steps, plan |-> w0.plan, halted |-> w0.halted, raised |-> w0.raised]
        /\ w0.steps = p.steps /\ w0.plan = p.plan /\ ~w0.raised /\ ~w0.halted
    BY DEF Start
  <2> HIDE DEF w0
  <2>2. Sound(e, w0)
    BY <2>1, SoundSame
  <2>3. Carried(e, p, w0)
    BY <2>1 DEF Carried
  <2> QED
    BY <2>1, <2>2, <2>3 DEF WalkFits
<1>2. w6 = Walked(e, p)
  BY DEF Walked
<1> HIDE DEF w0, w1, w2, w3, w4, w5, w6
<1>3. WalkFits(e, p, w1, 1)
  BY <1>1, WalkStep, Order DEF w1
<1>4. WalkFits(e, p, w2, 2)
  BY <1>3, WalkStep, Order DEF w2
<1>5. WalkFits(e, p, w3, 3)
  BY <1>4, WalkStep, Order DEF w3
<1>6. WalkFits(e, p, w4, 4)
  BY <1>5, WalkStep, Order DEF w4
<1>7. WalkFits(e, p, w5, 5)
  BY <1>6, WalkStep, Order DEF w5
<1>8. WalkFits(e, p, w6, 6)
  BY <1>7, WalkStep, Order DEF w6
<1>9. /\ Sound(e, w6)
      /\ Carried(e, p, w6)
      /\ ~w6.halted => \A j \in 1..6 : w6.steps[StepOrder[j]].status \in Terminal
      /\ w6.halted => Closed(w6.steps)
  BY <1>2, <1>8 DEF WalkFits
<1>10. ASSUME ~w6.halted PROVE Closed(w6.steps)
  <2>1. \A j \in 1..6 : w6.steps[StepOrder[j]] # Unplanned
    BY <1>9, <1>10 DEF Unplanned, Terminal
  <2> QED
    BY <2>1, Order DEF Closed
<1> QED
  BY <1>2, <1>9, <1>10

\* What execute returns, unless it raises, keeps every step that was selected and
\* has nothing left to select.
LEMMA ExecuteFits ==
  ASSUME NEW e, NEW p, Sound(e, p), Execute(e, p) # Raises
  PROVE  /\ Settled(e, Execute(e, p))
         /\ Carried(e, p, Execute(e, p))
<1> DEFINE w == Walked(e, p)
           q == Execute(e, p)
<1>1. q = Concluded(e, w)
  BY DEF Execute
<1>2. /\ ~w.raised
      /\ q = [status |-> IF AllTerminal(w.steps) THEN "completed" ELSE "executing",
              plan |-> w.plan, steps |-> w.steps]
  BY <1>1 DEF Concluded
<1>3. /\ Sound(e, w) /\ Closed(w.steps)
      /\ Carried(e, p, w)
  BY <1>2, WalkedFits
<1>4. w.steps \in [StepIds -> Steps(e)] /\ w.plan \in Plans \cup {None}
  BY <1>3, StepsTyped
<1> HIDE DEF w, q
<1>5. q \in Posts(e) /\ q.steps = w.steps /\ q.plan = w.plan
  BY <1>2, <1>4 DEF Posts
<1>6. q.status = "completed" <=> AllTerminal(q.steps)
  BY <1>2
<1>7. Sound(e, q)
  BY <1>3, <1>5, SoundSame
<1>8. Carried(e, p, q)
  BY <1>3, <1>5 DEF Carried
<1> QED
  BY <1>3, <1>5, <1>6, <1>7, <1>8 DEF Settled, q

\* A completed plan is carried on no further.
LEMMA ExecuteCompleted ==
  ASSUME NEW e, NEW p, Settled(e, p), p.status = "completed", Execute(e, p) # Raises
  PROVE  Execute(e, p) = p
<1>1. \A id \in StepIds : p.steps[id].status \in Terminal
  BY DEF Settled, AllTerminal
<1>2. Start(p).steps = p.steps /\ Start(p).plan = p.plan
  BY DEF Start
<1>3. \A id \in StepIds : Walk(e, Start(p), id) = Start(p)
  BY <1>1, <1>2 DEF Walk
<1>4. Walked(e, p) = Start(p)
  <2>1. /\ "counterfactual" \in StepIds /\ "secondary" \in StepIds /\ "game_background" \in StepIds
        /\ "breadth_check" \in StepIds /\ "error_code" \in StepIds
        /\ "cross_dimension_overlap" \in StepIds
    BY Ids
  <2> QED
    BY <1>3, <2>1 DEF Walked
<1>5. Execute(e, p) = [status |-> IF AllTerminal(p.steps) THEN "completed" ELSE "executing",
                       plan |-> p.plan, steps |-> p.steps]
  BY <1>2, <1>4 DEF Execute, Concluded
<1>6. AllTerminal(p.steps)
  BY DEF Settled
<1>7. p = [status |-> p.status, plan |-> p.plan, steps |-> p.steps]
  BY DEF Settled, Posts
<1> QED
  BY <1>5, <1>6, <1>7
-----------------------------------------------------------------------------
(* What the loader asks of the plan.                                       *)

\* A step asks what its selection asks.
LEMMA AskedFits ==
  ASSUME NEW e, NEW step, NEW chosen, Fits(e, step, chosen)
  PROVE  Asked(step) = Asked(chosen)
<1>1. CASE Plain(chosen)
  BY <1>1, KindFields DEF Fits, Terminal
<1>2. CASE Single(chosen)
  <2>1. step.pick = chosen.pick
    BY <1>2, KindFields DEF Fits, Terminal
  <2>2. "items" \notin DOMAIN chosen /\ "pick" \in DOMAIN chosen
    BY <1>2, KindFields
  <2>3. "items" \notin DOMAIN step /\ "pick" \in DOMAIN step
    BY <1>2, StepFields
  <2> QED
    BY <2>1, <2>2, <2>3 DEF Asked
<1>3. CASE Queue(chosen)
  <2>1. /\ DOMAIN step.items = DOMAIN chosen.items
        /\ \A i \in DOMAIN chosen.items : step.items[i].pick = chosen.items[i].pick
    BY <1>3, KindFields DEF Fits, Terminal
  <2>2. "items" \in DOMAIN chosen
    BY <1>3, KindFields
  <2>3. "items" \in DOMAIN step
    BY <1>3, StepFields
  <2>4. Asked(step) = [i \in DOMAIN chosen.items |-> step.items[i].pick]
    BY <2>1, <2>3 DEF Asked
  <2>5. Asked(chosen) = [i \in DOMAIN chosen.items |-> chosen.items[i].pick]
    BY <2>2 DEF Asked
  <2> QED
    BY <2>1, <2>4, <2>5
<1> QED
  BY <1>1, <1>2, <1>3, StepFields

\* Behind the steps it looks at, a selector chooses what the evidence alone says.
LEMMA ChosenSame ==
  ASSUME NEW e, NEW steps, Shape(e, steps), NEW id \in StepIds,
         id \in {"secondary", "game_background"} => steps["counterfactual"] # Unplanned,
         id \in EnabledModules => steps["game_background"] # Unplanned
  PROVE  Chosen(e, steps, id) = Selection(e)[id]
<1>1. id \in {"secondary", "game_background"} => steps["counterfactual"] = Counterfactual(e)
  BY CounterfactualIs
<1>2. id \in EnabledModules => Selections(e, steps) = Enhancements(e)
  BY EnhancementsAre
<1> QED
  BY <1>1, <1>2, Ids, ChosenIs, SelectionIs DEF EnabledModules

\* A step that asks queries ends as they do.
LEMMA EndsAsked ==
  ASSUME NEW e, NEW post, Sound(e, post), NEW id \in StepIds, post.steps[id].status \in Terminal
  PROVE  EndsAs(post.steps[id], Selection(e)[id])
<1> DEFINE step == post.steps[id]
           chosen == Selection(e)[id]
<1>1. step # Unplanned
  BY DEF Unplanned, Terminal
<1>2. Fits(e, step, chosen)
  BY <1>1 DEF Sound, Shape
<1>3. ASSUME chosen.status = "planned" PROVE step.status \in {"succeeded", "failed"}
  <2>1. CASE Plain(chosen)
    BY <1>3, <2>1, KindFields DEF Terminal
  <2>2. CASE Single(chosen)
    <3>1. <<id, 0>> \in AllKeys(e)
      BY <2>2, KindsById DEF AllKeys
    <3>2. <<id, 0>>[1] = id
      OBVIOUS
    <3>3. <<id, 0>> \in QueryKeys(post)
      BY <1>1, <3>1, <3>2, KeysOfPlan DEF Sound
    <3>4. QueryItem(post, <<id, 0>>) = step
      BY DEF QueryItem
    <3>5. ItemHolds(step)
      BY <3>3, <3>4 DEF Sound, ItemsFit, ItemFits
    <3> QED
      BY <3>5 DEF ItemHolds, Terminal
  <2>3. CASE Queue(chosen)
    <3>1. id = "game_background"
      BY <2>3, KindsById
    <3>2. CursorHolds(step)
      BY <1>2, <2>3, <3>1, StepFields DEF Sound, CursorFits
    <3> QED
      BY <3>2 DEF CursorHolds, Aggregate, Terminal
  <2> QED
    BY <1>2, <2>1, <2>2, <2>3 DEF Fits
<1> QED
  BY <1>2, <1>3, AskedFits DEF EndsAs

\* _validate_completed accepts every plan that was carried through.
LEMMA CompletedHolds ==
  ASSUME NEW e, NEW post, Sound(e, post), AllTerminal(post.steps)
  PROVE  Completed(e, post)
<1>1. \A id \in StepIds : post.steps[id] # Unplanned
  BY DEF AllTerminal, Unplanned, Terminal
<1>2. ASSUME NEW id \in StepIds PROVE EndsAs(post.steps[id], Chosen(e, post.steps, id))
  <2>1. post.steps["counterfactual"] # Unplanned /\ post.steps["game_background"] # Unplanned
    BY <1>1, Ids
  <2>2. Chosen(e, post.steps, id) = Selection(e)[id]
    BY <2>1, ChosenSame DEF Sound
  <2> QED
    BY <2>2, EndsAsked DEF AllTerminal
<1> QED
  BY <1>2 DEF Completed

\* What execute asks of a plan before it goes on.
LEMMA PlanHoldsSettled ==
  ASSUME NEW e, NEW post, Settled(e, post)
  PROVE  PlanHolds(e, post)
<1>1. post.steps["counterfactual"] \in {Unplanned, Counterfactual(e)}
  BY CounterfactualIs DEF Settled, Sound
<1>2. ASSUME post.plan # None PROVE PlannedFrom(post.plan, Selections(e, post.steps))
  <2>1. post.steps["error_code"] # Unplanned
    BY <1>2 DEF Settled, Sound, Ordered
  <2>2. post.steps["game_background"] # Unplanned
    <3>1. 5 \in 1..6 /\ 3 \in 1..(5 - 1)
      OBVIOUS
    <3>2. post.steps[StepOrder[3]].status \in Terminal
      BY <2>1, <3>1, Order, TerminalBefore DEF Settled, Sound
    <3> QED
      BY <3>2, Order DEF Unplanned, Terminal
  <2> QED
    BY <2>1, <2>2, EnhancementsAre DEF Settled, Sound, Ordered, PlannedFrom
<1>3. post.status = "completed" => Completed(e, post)
  BY CompletedHolds DEF Settled
<1> QED
  BY <1>1, <1>2, <1>3 DEF PlanHolds

\* A step is selected as the loader selects it again.
LEMMA SelectedSettled ==
  ASSUME NEW e, NEW post, Settled(e, post), NEW k \in 2..6, k # 4
  PROVE  Selected(e, post.steps, StepOrder[k], StepOrder[IF k = 5 THEN 3 ELSE k - 1])
<1> DEFINE id == StepOrder[k]
           last == StepOrder[k - 1]
           before == StepOrder[IF k = 5 THEN 3 ELSE k - 1]
<1>1. id \in StepIds /\ Sound(e, post)
  BY Order, Ids DEF Settled
<1>2. ASSUME post.steps[before].status \notin Terminal PROVE post.steps[id] = Unplanned
  <2>1. k \in 1..6 /\ (IF k = 5 THEN 3 ELSE k - 1) \in 1..(k - 1)
    OBVIOUS
  <2> QED
    BY <1>1, <1>2, <2>1, TerminalBefore DEF Sound
<1>3. ASSUME post.steps[before].status \in Terminal
      PROVE  Asked(post.steps[id]) = Asked(Chosen(e, post.steps, id))
  <2>1. post.steps[last].status \in Terminal
    <3>1. CASE k = 5
      <4>1. post.steps[StepOrder[4]] # Unplanned
        <5>1. 3 \in 1..5 /\ post.steps[StepOrder[3]].status \in Terminal
          BY <1>3, <3>1
        <5>2. post.steps[StepOrder[3 + 1]] # Unplanned
          BY <5>1 DEF Settled, Closed
        <5> QED
          BY <5>2
      <4>2. post.steps["breadth_check"] = Selection(e)["breadth_check"]
        <5>1. "breadth_check" \in StepIds
          BY Ids
        <5>2. Fits(e, post.steps["breadth_check"], Selection(e)["breadth_check"])
          BY <1>1, <4>1, <5>1, Order DEF Sound, Shape
        <5>3. ~Single(Selection(e)["breadth_check"]) /\ ~Queue(Selection(e)["breadth_check"])
          BY <5>1, KindsById DEF Asking
        <5> QED
          BY <5>2, <5>3 DEF Fits
      <4> QED
        BY <3>1, <4>2, Order, SelectionKinds, KindFields
    <3>2. CASE k # 5
      BY <1>3, <3>2
    <3> QED
      BY <3>1, <3>2
  <2>2. post.steps[id] # Unplanned
    <3>1. k - 1 \in 1..5 /\ (k - 1) + 1 = k
      OBVIOUS
    <3> QED
      BY <2>1, <3>1 DEF Settled, Closed
  <2>3. \A j \in 1..(k - 1) : post.steps[StepOrder[j]] # Unplanned
    BY <1>1, <2>2, TerminalBefore DEF Sound, Unplanned, Terminal
  <2>4. Chosen(e, post.steps, id) = Selection(e)[id]
    <3>1. k >= 2 => post.steps["counterfactual"] # Unplanned
      BY <2>3, Order
    <3>2. k >= 4 => post.steps["game_background"] # Unplanned
      BY <2>3, Order
    <3>3. id \in EnabledModules => k >= 4
      BY Order DEF EnabledModules
    <3> QED
      BY <1>1, <3>1, <3>2, <3>3, ChosenSame DEF Sound
  <2>5. Fits(e, post.steps[id], Selection(e)[id])
    BY <1>1, <2>2 DEF Sound, Shape
  <2> QED
    BY <2>4, <2>5, AskedFits
<1> QED
  BY <1>2, <1>3 DEF Selected

\* validate_identity.
LEMMA IdentityHolds ==
  ASSUME NEW e, NEW post, Settled(e, post)
  PROVE  Identity(post)
<1>1. Sound(e, post) /\ (post.status = "completed" => AllTerminal(post.steps))
  BY DEF Settled
<1>2. ASSUME post.steps["error_code"].status # "planned" PROVE post.plan # None
  <2>1. post.steps["error_code"] # Unplanned
    BY <1>2 DEF Unplanned
  <2>2. post.plan \in Plans
    BY <1>1, <2>1, PlanTyped DEF Sound, Ordered
  <2> QED
    BY <2>2, NoneAssumption
<1>3. ASSUME post.plan # None, NEW id \in StepIds \ EnabledModules
      PROVE  post.steps[id].status \in Terminal
  <2>1. post.steps["error_code"] # Unplanned
    BY <1>1, <1>3 DEF Sound, Ordered
  <2>2. \A k \in 1..4 : post.steps[StepOrder[k]].status \in Terminal
    <3>1. 5 \in 1..6 /\ \A k \in 1..4 : k \in 1..(5 - 1)
      OBVIOUS
    <3> QED
      BY <1>1, <2>1, <3>1, Order, TerminalBefore DEF Sound
  <2>3. id \in {StepOrder[1], StepOrder[2], StepOrder[3], StepOrder[4]}
    BY Ids, Order DEF EnabledModules
  <2> QED
    BY <2>2, <2>3
<1> QED
  BY <1>1, <1>2, <1>3 DEF Identity

\* No selector raises behind a settled step.
LEMMA SelectorsAnswer ==
  ASSUME NEW e, NEW post, Settled(e, post)
  PROVE  /\ post.steps["game_background"].status \in Terminal =>
              ErrorCode(e, post.steps["game_background"]) # Raises
         /\ post.steps["error_code"].status \in Terminal => Overlap(e) # Raises
<1>1. Sound(e, post) /\ Closed(post.steps)
  BY DEF Settled
<1>2. ASSUME post.steps["error_code"] # Unplanned
      PROVE  /\ ErrorCode(e, post.steps["game_background"]) # Raises
             /\ Overlap(e) # Raises
  <2>1. \A module \in EnabledModules : Enhancements(e)[module] # Raises
    BY <1>1, <1>2 DEF Sound, Ordered, SelectionRaises
  <2>2. post.steps["game_background"] # Unplanned
    <3>1. 5 \in 1..6 /\ 3 \in 1..(5 - 1)
      OBVIOUS
    <3>2. post.steps[StepOrder[3]].status \in Terminal
      BY <1>1, <1>2, <3>1, Order, TerminalBefore DEF Sound
    <3> QED
      BY <3>2, Order DEF Unplanned, Terminal
  <2>3. Selections(e, post.steps) = Enhancements(e)
    BY <1>1, <2>2, EnhancementsAre DEF Sound
  <2> QED
    BY <2>1, <2>3 DEF Selections, EnabledModules
<1>3. post.steps["game_background"].status \in Terminal => post.steps["error_code"] # Unplanned
  <2> SUFFICES ASSUME post.steps["game_background"].status \in Terminal
               PROVE  post.steps["error_code"] # Unplanned
    OBVIOUS
  <2>1. post.steps["breadth_check"] # Unplanned
    <3>1. 3 \in 1..5 /\ post.steps[StepOrder[3]].status \in Terminal
      BY Order
    <3>2. post.steps[StepOrder[3 + 1]] # Unplanned
      BY <1>1, <3>1 DEF Closed
    <3> QED
      BY <3>2, Order
  <2>2. post.steps["breadth_check"].status \in Terminal
    <3>1. Fits(e, post.steps["breadth_check"], Selection(e)["breadth_check"])
      BY <1>1, <2>1, Ids DEF Sound, Shape
    <3>2. Plain(Selection(e)["breadth_check"])
      BY SelectionKinds
    <3> QED
      BY <3>1, <3>2, KindFields DEF Fits, Terminal
  <2>3. 4 \in 1..5 /\ post.steps[StepOrder[4]].status \in Terminal
    BY <2>2, Order
  <2>4. post.steps[StepOrder[4 + 1]] # Unplanned
    BY <1>1, <2>3 DEF Closed
  <2> QED
    BY <2>4, Order
<1>4. post.steps["error_code"].status \in Terminal => post.steps["error_code"] # Unplanned
  BY DEF Unplanned, Terminal
<1> QED
  BY <1>2, <1>3, <1>4

\* A set of at most n elements.
AtMostMany(S, n) == IsFiniteSet(S) /\ Cardinality(S) \in 0..n

\* One more element is one more at most.
LEMMA OneMore ==
  ASSUME NEW S, NEW x, NEW n \in Nat, AtMostMany(S, n)
  PROVE  AtMostMany(S \cup {x}, n + 1)
<1>1. IsFiniteSet(S) /\ Cardinality(S) \in 0..n
  BY DEF AtMostMany
<1>2. /\ IsFiniteSet(S \cup {x})
      /\ Cardinality(S \cup {x}) = IF x \in S THEN Cardinality(S) ELSE Cardinality(S) + 1
  BY <1>1, FS_AddElement, Zenon
<1> QED
  BY <1>1, <1>2 DEF AtMostMany

\* The whole analysis asks at most six queries.
LEMMA KeysFew ==
  ASSUME NEW e, NEW post, Sound(e, post)
  PROVE  Cardinality(QueryKeys(post)) <= 6
<1> DEFINE all == {<<"secondary", 0>>, <<"error_code", 0>>, <<"cross_dimension_overlap", 0>>,
                   <<"game_background", 1>>, <<"game_background", 2>>, <<"game_background", 3>>}
<1>1. QueryKeys(post) \subseteq all
  <2>1. ASSUME NEW key \in QueryKeys(post) PROVE key \in all
    <3>1. key \in AllKeys(e)
      BY ItemAt DEF Sound
    <3>2. /\ key = <<key[1], key[2]>> /\ key[1] \in Asking
          /\ \/ key[2] = 0 /\ key[1] # "game_background"
             \/ key[1] = "game_background" /\ key[2] \in {1, 2, 3}
      BY <3>1, KeyForm, LimitAssumption
    <3> QED
      BY <3>2 DEF Asking
  <2> QED
    BY <2>1
<1>2. IsFiniteSet(all) /\ Cardinality(all) <= 6
  <2> DEFINE s1 == {} \cup {<<"secondary", 0>>}
             s2 == s1 \cup {<<"error_code", 0>>}
             s3 == s2 \cup {<<"cross_dimension_overlap", 0>>}
             s4 == s3 \cup {<<"game_background", 1>>}
             s5 == s4 \cup {<<"game_background", 2>>}
             s6 == s5 \cup {<<"game_background", 3>>}
  <2>1. AtMostMany({}, 0)
    BY FS_EmptySet DEF AtMostMany
  <2>2. AtMostMany(s1, 1)
    <3>1. AtMostMany({} \cup {<<"secondary", 0>>}, 0 + 1)
      BY <2>1, OneMore
    <3> QED
      BY <3>1
  <2> HIDE DEF s1
  <2>3. AtMostMany(s2, 2)
    <3>1. AtMostMany(s1 \cup {<<"error_code", 0>>}, 1 + 1)
      BY <2>2, OneMore
    <3> QED
      BY <3>1
  <2> HIDE DEF s2
  <2>4. AtMostMany(s3, 3)
    <3>1. AtMostMany(s2 \cup {<<"cross_dimension_overlap", 0>>}, 2 + 1)
      BY <2>3, OneMore
    <3> QED
      BY <3>1
  <2> HIDE DEF s3
  <2>5. AtMostMany(s4, 4)
    <3>1. AtMostMany(s3 \cup {<<"game_background", 1>>}, 3 + 1)
      BY <2>4, OneMore
    <3> QED
      BY <3>1
  <2> HIDE DEF s4
  <2>6. AtMostMany(s5, 5)
    <3>1. AtMostMany(s4 \cup {<<"game_background", 2>>}, 4 + 1)
      BY <2>5, OneMore
    <3> QED
      BY <3>1
  <2> HIDE DEF s5
  <2>7. AtMostMany(s6, 6)
    <3>1. AtMostMany(s5 \cup {<<"game_background", 3>>}, 5 + 1)
      BY <2>6, OneMore
    <3> QED
      BY <3>1
  <2>8. s6 = all
    BY DEF s1, s2, s3, s4, s5
  <2> QED
    BY <2>7, <2>8 DEF AtMostMany
<1> HIDE DEF all
<1>3. Cardinality(QueryKeys(post)) <= Cardinality(all) /\ Cardinality(QueryKeys(post)) \in Nat
      /\ Cardinality(all) \in Nat
  BY <1>1, <1>2, FS_Subset, FS_CardinalityType, Zenon
<1> QED
  BY <1>2, <1>3
=============================================================================
