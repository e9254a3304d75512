---------------------------- MODULE RouteGrouping ----------------------------
(***************************************************************************)
(* How one DQC payload becomes the investigations of a task: normalize of  *)
(* runtime/alert_normalizer.py and RouteResolver.resolve of                *)
(* runtime/route_resolver.py.  A rule name is a value; RuleIdentity says   *)
(* which metric hint and rule kind the parser finds in it, if any, and     *)
(* Date which day it reads in a partition.                                 *)
(***************************************************************************)
EXTENDS Naturals, Sequences, FiniteSets, SequencesExt

CONSTANTS
  Routes,       \* the registry: [table, names, identity, scope], scope being
                \* <<canonical_metric, chain, game_type>>
  RuleIdentity, \* RuleIdentity[name]: <<metric hint, rule kind>>, or None
  Date,         \* Date[partition]: the one day named in it, or None
  None

\* What DqcRouteRegistry refuses to load otherwise.
ASSUME RegistryAssumption ==
  \A r, s \in Routes :
    r.table = s.table /\ (r.identity = s.identity \/ r.names \cap s.names # {}) => r = s

Or(a, b) == IF a # None THEN a ELSE b

\* A rule that is no object keeps its place, without a name.
Normalized(payload) ==
  [i \in DOMAIN payload.rules |->
     LET r == payload.rules[i]
     IN IF r = None
        THEN [name |-> None, table |-> payload.table, partition |-> payload.partition]
        ELSE [name |-> r.name, table |-> Or(r.table, payload.table),
              partition |-> Or(r.partition, payload.partition)]]

\* "project.table", the project being the alert's for a bare table name.
Qualified(project, table) ==
  IF table = None \/ table[1] # None THEN table ELSE <<project, table[2]>>

\* By the observed name first, then by what the name says.
Resolve(table, name) ==
  LET observed == {r \in Routes : r.table = table /\ name \in r.names}
      identified == {r \in Routes : r.table = table /\ r.identity = RuleIdentity[name]}
  IN IF table = None \/ name = None THEN None
     ELSE IF observed # {} THEN CHOOSE r \in observed : TRUE
     ELSE IF identified # {} THEN CHOOSE r \in identified : TRUE
     ELSE None

\* Mutant: the games of sandbox and app share an investigation.
KeyOfMetric(project, table, partition, route, i) ==
  IF route = None THEN <<"unknown", i>>
  ELSE <<project, table, partition, route.scope[1], route.scope[2]>>

\* Rules with one key are one investigation; an unknown rule is one of its own.
Key(project, table, partition, route, i) ==
  IF route = None THEN <<"unknown", i>> ELSE <<project, table, partition, route.scope>>

TableOf(a, i) == Qualified(a.project, Normalized(a)[i].table)
PartitionOf(a, i) == Normalized(a)[i].partition
RouteOf(a, i) == Resolve(TableOf(a, i), Normalized(a)[i].name)
KeyOf(a, i) == Key(a.project, TableOf(a, i), PartitionOf(a, i), RouteOf(a, i), i)

\* The rules with the key of rule i, and those that open an investigation.
Together(a, i) == {j \in DOMAIN a.rules : KeyOf(a, j) = KeyOf(a, i)}
Firsts(a) == {i \in DOMAIN a.rules : \A j \in 1..(i - 1) : KeyOf(a, j) # KeyOf(a, i)}

InOrder(S) ==
  CHOOSE q \in [1..Cardinality(S) -> S] : \A i, j \in DOMAIN q : i < j => q[i] < q[j]

Defined(a, i) ==
  /\ RouteOf(a, i) # None /\ a.project # None
  /\ PartitionOf(a, i) # None /\ Date[PartitionOf(a, i)] # None

\* The investigations in the order of their first rules.  The date is a function
\* of the partition, so rules of one group never differ in it.
Group(a, i) ==
  [rules |-> InOrder(Together(a, i)),
   status |-> IF Defined(a, i) THEN "pending" ELSE "insufficient_definition"]

Grouping(a) == [k \in 1..Cardinality(Firsts(a)) |-> Group(a, InOrder(Firsts(a))[k])]

CoversEachRule(groups, n) ==
  /\ UNION {ToSet(groups[k].rules) : k \in DOMAIN groups} = 1..n
  /\ \A k, l \in DOMAIN groups : k # l => ToSet(groups[k].rules) \cap ToSet(groups[l].rules) = {}

\* Two rules are one investigation if they are of the same metric, chain and game
\* on the same table and partition.
SameScope(a, i, j) ==
  \/ i = j
  \/ /\ RouteOf(a, i) # None /\ RouteOf(a, j) # None
     /\ TableOf(a, i) = TableOf(a, j) /\ PartitionOf(a, i) = PartitionOf(a, j)
     /\ RouteOf(a, i).scope = RouteOf(a, j).scope

\* Every rule of the payload has one place in groups, rules of one scope and no
\* others have it together, and the groups are in the order of their first rules.
Place(groups, i) == {k \in DOMAIN groups : i \in ToSet(groups[k].rules)}

Answers(groups, a) ==
  /\ \A i \in DOMAIN a.rules : Cardinality(Place(groups, i)) = 1
  /\ \A i, j \in DOMAIN a.rules : Place(groups, i) = Place(groups, j) <=> SameScope(a, i, j)
  /\ \A k, l \in DOMAIN groups : k < l => groups[k].rules[1] < groups[l].rules[1]
=============================================================================
