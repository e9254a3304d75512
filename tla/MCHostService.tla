---------------------------- MODULE MCHostService ----------------------------
(* Constants of the TLC runs of HostService. *)
EXTENDS HostService

CONSTANTS t1, t2, t3, p1, p2, success, apps, latency, strange, dated, undated

Table == <<"pk", "downloads">>
MCRoutes ==
  {[table |-> Table, names |-> {success}, identity |-> <<"success", "absolute_1d">>,
    scope |-> <<"success_rate", "download", "sandbox">>],
   [table |-> Table, names |-> {apps}, identity |-> <<"success_apps", "absolute_1d">>,
    scope |-> <<"success_rate", "download", "app">>],
   [table |-> Table, names |-> {}, identity |-> <<"success", "relative_7d">>,
    scope |-> <<"success_rate", "download", "sandbox">>]}
MCRuleIdentity ==
  [n \in {success, apps, latency, strange} |->
     IF n = success THEN <<"success", "absolute_1d">>
     ELSE IF n = latency THEN <<"success", "relative_7d">> ELSE None]
MCDate == [d \in {dated, undated} |-> IF d = dated THEN "2026-01-01" ELSE None]

Rule(name, table, partition) == [name |-> name, table |-> table, partition |-> partition]
Payload(rules) ==
  [project |-> "pk", table |-> <<None, "downloads">>, partition |-> dated, rules |-> rules]

\* Two scopes, one of two rules that are not neighbours; a known and an unknown
\* rule; rules without a name or a day; one rule alone.
MCAlerts ==
  {Payload(<<Rule(success, None, None)>>),
   Payload(<<Rule(success, None, None), Rule(apps, None, None), Rule(latency, Table, dated)>>),
   Payload(<<Rule(strange, None, None), Rule(success, None, None)>>),
   Payload(<<Rule(success, None, undated), None>>)}
=============================================================================
