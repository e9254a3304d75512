------------------------ MODULE PostPrimarySelectors ------------------------
(***************************************************************************)
(* What each post-primary step asks for, as a function of the frozen       *)
(* primary evidence ev and of the steps settled before it:                 *)
(* runtime/counterfactual.py, runtime/*_selector.py and                    *)
(* runtime/enhancement_planner.py.                                         *)
(*                                                                         *)
(*   ev = [chain, direction, trigger, root, families]                      *)
(*                                                                         *)
(* trigger says whether the error-code trigger is enabled for the metric,  *)
(* root holds the canonical current and baseline rates, families maps each *)
(* dimension of the plan to the outcome of its query (BucketEvidence).     *)
(* A game id of 0 stands for every value that is not a positive integer.   *)
(***************************************************************************)
EXTENDS BucketEvidence

CONSTANTS
  Children(_),        \* secondary relations of game_id for a chain, in order
  BreadthDimensions,  \* dimensions of the breadth check, in order
  RootTolerance,      \* ROOT_TOLERANCE of the counterfactual
  MinRootAdverse,     \* error-code trigger: root_adverse_delta_bp
  MinEntities,        \* error-code trigger: current_affected_entity_count
  BackgroundGames,    \* max_games of the background
  MinOtherBuckets,    \* minimum_other_buckets of the breadth check
  FocusLimit,         \* max_focus_candidates_per_family
  MaxQueryModules     \* enhancement query modules that may be selected

Skip(reason) == [status |-> "skipped_by_policy", reason |-> reason]
Raises == [status |-> "raises"]

FamilyOf(ev, dim) ==
  IF dim \in DOMAIN ev.families THEN ev.families[dim] ELSE NoFamily("absent")
Answered(ev, dim) == FamilyOf(ev, dim).status = "succeeded"

Games(ev) == FamilyOf(ev, "game_id")
HasGames(ev) == Answered(ev, "game_id") /\ Games(ev).cands # <<>>

RootDelta(ev) == Delta(ev.root)
RootAdverse(ev) == Adverse(ev.direction, RootDelta(ev))
-----------------------------------------------------------------------------
(* counterfactual.py: the root without its first game.                     *)

Without(all, part) == [cn |-> all.cn - part.cn, cd |-> all.cd - part.cd,
                       bn |-> all.bn - part.bn, bd |-> all.bd - part.bd]

\* Half of the family's adverse impact, or as much as the whole root moved.
CounterfactualTriggered(ev) ==
  LET impact == Games(ev).cands[1].impact
  IN AtMost(Half(Games(ev).adverse), impact) \/ AtMost(RootAdverse(ev), impact)

\* removal: what the root would have moved by without the game.
Dominates(root, removal) ==
  \/ AtMost(AbsRatio(removal), Half(AbsRatio(root)))
  \/ AtMost(AbsRatio(removal), RootTolerance)
  \/ Below(Times(root, removal), Zero)

Counterfactual(ev) ==
  LET game == Games(ev).cands[1]
      rest == Without(Games(ev).counts, game.counts)
  IN IF ~HasGames(ev) THEN Skip("no_legal_game_candidate")
     ELSE IF ~Below(Zero, Games(ev).adverse) THEN Failed
     ELSE IF ~CounterfactualTriggered(ev) THEN Skip("counterfactual_trigger_not_met")
     ELSE IF rest.cd <= 0 \/ rest.bd <= 0 THEN Skip("non_positive_remaining_denominator")
     ELSE IF rest.cn < 0 \/ rest.bn < 0 THEN Failed
     ELSE IF RootDelta(ev) = Zero THEN Skip("zero_root_delta")
     ELSE [status |-> "succeeded", game |-> game.value,
           dominant |-> Dominates(RootDelta(ev), Delta(RootRates(rest)))]

Dominant(cf) == cf.status = "succeeded" /\ cf.dominant
-----------------------------------------------------------------------------
(* secondary_selector.py: one child family below one game.                 *)

Planned(pick) == [status |-> "planned", pick |-> pick, attempts |-> <<>>]

\* The child whose first candidate weighs most, then the order of the relation;
\* without candidates, the first child that was answered.
HeaviestChild(ev) ==
  LET children == Children(ev.chain)
      eligible == {k \in DOMAIN children : Answered(ev, children[k])}
      weighed == {k \in eligible : FamilyOf(ev, children[k]).cands # <<>>}
      Weight(k) == FamilyOf(ev, children[k]).cands[1].impact
      Heaviest(k) == \A l \in weighed : \/ Below(Weight(l), Weight(k))
                                        \/ Weight(k) = Weight(l) /\ k <= l
  IN IF weighed # {} THEN children[CHOOSE k \in weighed : Heaviest(k)]
     ELSE children[CHOOSE k \in eligible : \A l \in eligible : k <= l]

Secondary(ev, cf) ==
  IF ~HasGames(ev) THEN Skip("no_legal_game_candidate")
  ELSE IF ~\E k \in DOMAIN Children(ev.chain) : Answered(ev, Children(ev.chain)[k])
  THEN Skip("no_eligible_secondary_child_dimension")
  ELSE Planned([parent |-> IF Dominant(cf) THEN cf.game ELSE Games(ev).cands[1].value,
                child |-> HeaviestChild(ev)])
-----------------------------------------------------------------------------
(* game_background_selector.py: the operations calendar of up to three     *)
(* games, of the dominant one alone if there is one.                       *)

\* Positive game ids only, with ties in the order of the numbers.
LegalGames(ev) ==
  Sorted({c \in ToSet(Games(ev).cands) : c.value > 0},
         LAMBDA c, d : \/ Below(d.impact, c.impact)
                       \/ c.impact = d.impact /\ c.value < d.value)

PlannedGames(games) ==
  [status |-> "planned", cursor |-> 1,
   items |-> [i \in DOMAIN games |-> Planned([game |-> games[i]])]]

\* The shortest prefix of the games that carries half of the root's change.
Reaching(ev) ==
  LET games == LegalGames(ev)
      Carried(m) == SumOf(LAMBDA c : c.impact, {games[i] : i \in 1..m})
  IN {m \in 1..Len(games) : m <= BackgroundGames /\ AtMost(Half(RootAdverse(ev)), Carried(m))}

\* Mutant: the dominant game is not preferred.
BackgroundByImpact(ev, cf) ==
  LET games == LegalGames(ev)
  IN IF ~Answered(ev, "game_id") \/ games = <<>> THEN Skip("no_legal_game_candidate")
     ELSE PlannedGames(<<games[1].value>>)

Background(ev, cf) ==
  LET games == LegalGames(ev)
      reached == Reaching(ev)
  IN IF ~Answered(ev, "game_id") \/ games = <<>> THEN Skip("no_legal_game_candidate")
     ELSE IF Dominant(cf)
     THEN IF cf.game > 0 THEN PlannedGames(<<cf.game>>) ELSE Skip("no_legal_game_candidate")
     ELSE IF RootAdverse(ev) = Zero THEN Skip("non_positive_root_adverse_delta")
     ELSE IF reached = {} THEN Skip("game_candidates_do_not_reach_background_threshold")
     ELSE PlannedGames([i \in 1..Min(reached) |-> games[i].value])
-----------------------------------------------------------------------------
(* breadth_selector.py: does a family move as a whole?  No query.          *)

RateChange(ev, b) == Adverse(ev.direction, Minus(b.current, b.baseline))

\* The other buckets that moved at least half as much.
Supporting(ev, dim, focus) ==
  {b \in FamilyOf(ev, dim).buckets :
     /\ b.value # focus.value
     /\ Below(Zero, RateChange(ev, b))
     /\ AtMost(Half(RateChange(ev, focus)), RateChange(ev, b))}

BroadFoci(ev, dim) ==
  LET family == FamilyOf(ev, dim)
      BucketOf(c) == CHOOSE b \in family.buckets : b.value = c.value
      foci == {BucketOf(family.cands[k]) : k \in {j \in DOMAIN family.cands : j <= FocusLimit}}
  IN IF ~Answered(ev, dim) THEN {}
     ELSE {b \in foci : /\ Below(Zero, RateChange(ev, b))
                        /\ Cardinality(Supporting(ev, dim, b)) >= MinOtherBuckets}

Breadth(ev) ==
  LET broad == [dim \in BreadthDimensions |-> {b.value : b \in BroadFoci(ev, dim)}]
  IN IF \A dim \in BreadthDimensions : broad[dim] = {} THEN Skip("no_broad_primary_family")
     ELSE [status |-> "succeeded", calibrations |-> broad]
-----------------------------------------------------------------------------
(* error_code_selector.py: the codes of the whole scope and of one game.   *)

WithCandidates(ev) ==
  {dim \in DOMAIN ev.families : Answered(ev, dim) /\ FamilyOf(ev, dim).cands # <<>>}
FamilyRoots(ev) == {FamilyOf(ev, dim).counts : dim \in WithCandidates(ev)}

FocusDenominators(ev) ==
  \A k \in DOMAIN LegalGames(ev) :
    LegalGames(ev)[k].counts.cd > 0 /\ LegalGames(ev)[k].counts.bd > 0

BackgroundItems(bg) == IF "items" \in DOMAIN bg THEN bg.items ELSE <<>>

\* Mutant: only a background that could be answered is preferred.
FocusGameAnswered(ev, bg) ==
  LET answered == SelectSeq(BackgroundItems(bg), LAMBDA item : item.status = "succeeded")
  IN IF ~Answered(ev, "game_id") \/ LegalGames(ev) = <<>> THEN 0
     ELSE IF answered # <<>> THEN answered[1].pick.game ELSE LegalGames(ev)[1].value

\* The first game of the background, then the largest; 0 if there is none.
FocusGame(ev, bg) ==
  IF ~Answered(ev, "game_id") \/ LegalGames(ev) = <<>> THEN 0
  ELSE IF BackgroundItems(bg) # <<>> THEN bg.items[1].pick.game
  ELSE LegalGames(ev)[1].value

ErrorCode(ev, bg) ==
  IF ~ev.trigger THEN Skip("error_code_trigger_disabled")
  ELSE IF WithCandidates(ev) = {} THEN Skip("no_legal_primary_candidate")
  ELSE IF Cardinality(FamilyRoots(ev)) > 1 THEN Raises
  ELSE IF Below(RootAdverse(ev), MinRootAdverse) THEN Skip("root_adverse_delta_below_threshold")
  ELSE IF \A root \in FamilyRoots(ev) : root.cn < MinEntities
  THEN Skip("current_affected_entity_count_below_threshold")
  ELSE IF Answered(ev, "game_id") /\ ~FocusDenominators(ev) THEN Raises
  ELSE Planned([focus |-> FocusGame(ev, bg), overall |-> CHOOSE root \in FamilyRoots(ev) : TRUE])
-----------------------------------------------------------------------------
(* cross_dimension_overlap_selector.py: the first game with the first      *)
(* value of the reservation flag.                                          *)

Reserve == "is_reserve_auto_download"

Overlap(ev) ==
  LET game == Games(ev).cands[1]
      reserve == FamilyOf(ev, Reserve).cands[1]
      weaker == IF AtMost(game.impact, reserve.impact) THEN game.impact ELSE reserve.impact
      floor == LargerOf(MinAdverse, Times(Ratio(1, 4), RootAdverse(ev)))
  IN IF ev.chain # "download" THEN Skip("unsupported_chain")
     ELSE IF ~Answered(ev, "game_id") \/ ~Answered(ev, Reserve)
     THEN Skip("required_primary_family_unavailable")
     ELSE IF ~{"game_id", Reserve} \subseteq WithCandidates(ev)
     THEN Skip("required_primary_candidate_missing")
     ELSE IF game.value = 0 \/ reserve.value \notin {0, 1} THEN Raises
     ELSE IF Games(ev).counts # FamilyOf(ev, Reserve).counts THEN Raises
     ELSE IF Below(weaker, floor) THEN Skip("weaker_candidate_below_overlap_threshold")
     ELSE Planned([game |-> game.value, reserve |-> reserve.value])
-----------------------------------------------------------------------------
(* enhancement_planner.py: the modules that may ask a query, by priority.  *)

Modules == <<"install_strict_funnel", "error_code", "cross_dimension_overlap",
             "same_day_version_quasi_experiment", "peer_negative_control">>
EnabledModules == {"error_code", "cross_dimension_overlap"}

\* selection[m] is what the selector of the enabled module m answered.
EnhancementPlan(selection) ==
  LET Triggered(k) == Modules[k] \in EnabledModules /\ selection[Modules[k]].status = "planned"
      Before(k) == {j \in 1..k : Triggered(j)}
  IN [m \in ToSet(Modules) |->
        LET k == CHOOSE j \in DOMAIN Modules : Modules[j] = m
        IN IF m \notin EnabledModules THEN "skipped_by_policy"
           ELSE IF ~Triggered(k) THEN "not_triggered"
           ELSE IF Cardinality(Before(k)) <= MaxQueryModules THEN "selected"
           ELSE "skipped_by_budget"]

\* What a module's step becomes under the plan.
Allocated(selection, verdict) ==
  IF verdict = "skipped_by_budget" THEN Skip("enhancement_query_module_budget_exhausted")
  ELSE selection
=============================================================================
