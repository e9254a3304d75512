--------------------------- MODULE MCFamilyRecord ---------------------------
(* Constants of the TLC runs of FamilyRecord: a business bucket with *)
(* all counts up to Limit, a second one, and a quality, residual or no     *)
(* third bucket.                                                           *)
EXTENDS FamilyRecord

CONSTANT Limit

MCBefore(a, b) == a < b
MCChildren(chain) == <<>>
MCMinShare == Ratio(1, 10)
MCMinAdverse == Ratio(1, 20)
MCTolerance == Ratio(1, 50)

Row(value, kind, counts) ==
  [value |-> value, kind |-> kind, cn |-> counts[1], cd |-> counts[2],
   bn |-> counts[3], bd |-> counts[4]]
UpTo == 0..Limit
AllCounts == {<<a, b, c, d>> : a \in UpTo, b \in UpTo, c \in UpTo, d \in UpTo}
\* The second bucket: common, entrant, exit and empty ones, failing and not.
Second == {<<1, 2, 0, 2>>, <<0, 2, 1, 1>>, <<2, 2, 0, 0>>, <<0, 0, 1, 2>>, <<0, 0, 0, 0>>,
           <<2, 1, 1, 1>>, <<1, 0, 0, 1>>}
MCTables ==
  {{Row(1, "business", x), Row(2, "business", y)} \cup z :
     x \in AllCounts, y \in Second,
     z \in {{}, {Row(0, "quality", <<0, 1, 1, 1>>)}, {Row(0, "residual", <<2, 2, 0, 2>>)}}}
=============================================================================
