---------------------------- MODULE MCPostPrimary ----------------------------
(* Evidence for the TLC runs of PostPrimary, each family computed from small *)
(* results by the code's own formula: <<value, cn, cd, bn, bd>> is a bucket. *)
(* A family of the queue that a case does not name is one without an answer, as  *)
(* is one without buckets.                                                      *)
EXTENDS PostPrimary

\* The order of two values below 100 as decimal texts.
AsText(n) == IF n >= 10 THEN n * 10 + 1 ELSE n * 100
MCBefore(a, b) == AsText(a) < AsText(b)

MCMinShare == Ratio(1, 10)
MCMinAdverse == Ratio(1, 100)
MCTolerance == Ratio(1, 50)
MCRootTolerance == Ratio(1, 1000)

MCChildren(chain) ==
  IF chain = "download" THEN <<"device_brand", "channel_group">>
  ELSE <<"os_major_version", "device_brand">>
MCBreadthDimensions == {"channel_group", "device_brand"}

Rows(buckets) ==
  {[value |-> b[1], kind |-> "business", cn |-> b[2], cd |-> b[3], bn |-> b[4], bd |-> b[5]] :
     b \in buckets}
Sums(rows) ==
  [cn |-> MapThenSumSet(LAMBDA r : r.cn, rows), cd |-> MapThenSumSet(LAMBDA r : r.cd, rows),
   bn |-> MapThenSumSet(LAMBDA r : r.bn, rows), bd |-> MapThenSumSet(LAMBDA r : r.bd, rows)]
Result(dim, buckets) ==
  Family(Rows(buckets), Sums(Rows(buckets)), "lower_is_better", TRUE, dim \in MCBreadthDimensions)

Evidenced(chain, trigger, root, results) ==
  [chain |-> chain, direction |-> "lower_is_better", trigger |-> trigger,
   root |-> [current |-> Ratio(root[1], root[2]), baseline |-> Ratio(root[3], root[4])],
   families |-> [dim \in DOMAIN results |->
                   IF results[dim] = {} THEN Failed ELSE Result(dim, results[dim])]]

\* Two games weigh the same and either would explain the root: 10 comes first as
\* a text, 9 as a number.  The reservation overlaps with it.
OneGame == Evidenced("download", TRUE, <<7, 30, 5, 30>>,
  [game_id |-> {<<10, 3, 10, 1, 10>>, <<9, 3, 10, 1, 10>>, <<3, 1, 10, 3, 10>>},
   device_brand |-> {<<1, 4, 15, 2, 15>>, <<2, 3, 15, 3, 15>>},
   channel_group |-> {},
   is_reserve_auto_download |-> {<<1, 5, 15, 2, 15>>, <<0, 2, 15, 3, 15>>}])

\* Two of three games carry half of the root; every channel moved alike.
TwoGames == Evidenced("download", TRUE, <<9, 30, 3, 30>>,
  [game_id |-> {<<10, 3, 10, 1, 10>>, <<9, 3, 10, 1, 10>>, <<3, 3, 10, 1, 10>>},
   device_brand |-> {<<1, 3, 15, 2, 15>>, <<2, 6, 15, 1, 15>>},
   channel_group |-> {<<1, 3, 10, 1, 10>>, <<2, 3, 10, 1, 10>>, <<3, 3, 10, 1, 10>>},
   is_reserve_auto_download |-> {}])

\* Three of six games carry half of the root; no error codes, no second dimension.
ThreeGames == Evidenced("install", FALSE, <<18, 60, 6, 60>>,
  [game_id |-> {<<g, 3, 10, 1, 10>> : g \in {1, 2, 3, 4, 5, 10}}])

\* Eight games: the first three do not carry half of the root.
ManyGames == Evidenced("install", FALSE, <<24, 80, 8, 80>>,
  [game_id |-> {<<g, 3, 10, 1, 10>> : g \in 1..8}, os_major_version |-> {<<1, 24, 80, 8, 80>>}])

\* No game was answered for, or only ones whose id is no number.
NoGames == Evidenced("download", TRUE, <<7, 30, 5, 30>>,
  [game_id |-> {}, device_brand |-> {<<1, 4, 15, 2, 15>>, <<2, 3, 15, 3, 15>>},
   is_reserve_auto_download |-> {<<1, 5, 15, 2, 15>>, <<0, 2, 15, 3, 15>>}])
Nothing == Evidenced("install", FALSE, <<7, 30, 5, 30>>, [game_id |-> {}])

\* The game that explains the root has no legal id, another one has.  With the
\* reservation unanswered no step compares the game with it.
Unlisted == Evidenced("download", TRUE, <<7, 30, 5, 30>>,
  [game_id |-> {<<0, 3, 10, 1, 10>>, <<9, 3, 10, 1, 10>>, <<3, 1, 10, 3, 10>>},
   device_brand |-> {<<1, 4, 15, 2, 15>>, <<2, 3, 15, 3, 15>>},
   is_reserve_auto_download |-> {}])

\* Evidence on which a selector raises: a game without a baseline; the reservation
\* answered beside a game without a legal id, or with counts that are not those of
\* the games, at the same rates (no error codes, so that they are compared by the
\* overlap alone); brands whose counts are not those of the games, with error codes.
Entrant == Evidenced("download", TRUE, <<7, 30, 5, 30>>,
  [game_id |-> {<<10, 3, 10, 0, 0>>, <<9, 4, 20, 5, 30>>}, device_brand |-> {},
   is_reserve_auto_download |-> {}])
UnlistedReserve == Evidenced("download", TRUE, <<7, 30, 5, 30>>,
  [game_id |-> {<<0, 3, 10, 1, 10>>, <<9, 3, 10, 1, 10>>, <<3, 1, 10, 3, 10>>},
   device_brand |-> {<<1, 4, 15, 2, 15>>, <<2, 3, 15, 3, 15>>},
   is_reserve_auto_download |-> {<<1, 5, 15, 2, 15>>, <<0, 2, 15, 3, 15>>}])
MovedReserve == Evidenced("download", FALSE, <<7, 30, 5, 30>>,
  [game_id |-> {<<10, 3, 10, 1, 10>>, <<9, 3, 10, 1, 10>>, <<3, 1, 10, 3, 10>>},
   device_brand |-> {<<1, 4, 15, 2, 15>>, <<2, 3, 15, 3, 15>>},
   is_reserve_auto_download |-> {<<1, 10, 30, 4, 30>>, <<0, 4, 30, 6, 30>>}])

MovedFamily == Evidenced("download", TRUE, <<7, 30, 5, 30>>,
  [game_id |-> {<<10, 3, 10, 1, 10>>, <<9, 3, 10, 1, 10>>, <<3, 1, 10, 3, 10>>},
   device_brand |-> {<<1, 8, 30, 4, 30>>, <<2, 6, 30, 6, 30>>},
   is_reserve_auto_download |-> {}])

\* One game of two, and nothing below it: one query in all.
SingleGame == Evidenced("install", FALSE, <<4, 20, 2, 20>>,
  [game_id |-> {<<10, 3, 10, 1, 10>>, <<9, 1, 10, 1, 10>>}])

\* Two games of the background below one secondary family.
Pair == Evidenced("install", FALSE, <<9, 30, 3, 30>>,
  [game_id |-> {<<10, 3, 10, 1, 10>>, <<9, 3, 10, 1, 10>>, <<3, 3, 10, 1, 10>>},
   os_major_version |-> {<<1, 9, 30, 3, 30>>}])

\* Final errors where the plan branches, repairs below one query, late answers where
\* the background has two items, and both where there is one query.
Failing == [classes |-> {"query_execution"}, keeps |-> 0]
Repairing == [classes |-> {"semantic_analysis"}, keeps |-> 0]
Late == [classes |-> {"query_execution"}, keeps |-> 1]
Both == [classes |-> {"query_execution", "semantic_analysis"}, keeps |-> 1]

\* A branch of the selectors each; on the last four one of them raises.
PlanCases == {e @@ Failing : e \in {OneGame, TwoGames, ThreeGames, ManyGames, NoGames, Nothing,
                                    Unlisted, Entrant, UnlistedReserve, MovedReserve, MovedFamily}}
             \cup {e @@ Repairing : e \in {Pair, NoGames}}
             \cup {Pair @@ Late, SingleGame @@ Both}
EntrantCases == {Entrant @@ Failing}
=============================================================================
