------------------------ MODULE PostPrimaryQueryProofs ------------------------
(***************************************************************************)
(* What the operations of PostPrimary do to one query of a sound plan:     *)
(* proofs about PostPrimary.                                               *)
(***************************************************************************)
EXTENDS PostPrimary, PostPrimaryPlanProofs

\* The id of the n-th attempt of item, which takes the place of the query at key in
\* the plan p: none, the one that was there, or a new one in the last attempt.
IdKept(p, key, item, n) ==
  LET old == QueryItem(p, key).attempts
      qid == item.attempts[n].qid
  IN \/ qid = None
     \/ n \in DOMAIN old /\ old[n].qid = qid
     \/ n = Len(item.attempts) /\ qid \notin QueryIds(p)

\* query_ids has the id of every attempt.
LEMMA IdListed ==
  ASSUME NEW p, NEW key \in QueryKeys(p), NEW n \in DOMAIN QueryItem(p, key).attempts,
         QueryItem(p, key).attempts[n].qid # None
  PROVE  QueryItem(p, key).attempts[n].qid \in QueryIds(p)
BY DEF QueryIds

\* q is p with another step in the place of the one that the unanswered query at key
\* belongs to, and item in the place of that query.
Differs(e, p, q, key, step, item) ==
  /\ p.steps[key[1]].status \notin Terminal
  /\ q.steps = [p.steps EXCEPT ![key[1]] = step] /\ q.plan = p.plan
  /\ Fits(e, step, Selection(e)[key[1]]) /\ ("items" \in DOMAIN step => CursorHolds(step))
  /\ key[2] = 0 => step = item
  /\ key[2] # 0 => step.items = [p.steps[key[1]].items EXCEPT ![key[2]] = item]
  /\ ItemFits(key, item) /\ \A n \in DOMAIN item.attempts : IdKept(p, key, item, n)

\* Such a plan is sound if p is.
LEMMA StepChanged ==
  ASSUME NEW e, NEW p, NEW q, Sound(e, p), NEW key \in QueryKeys(p), NEW step, NEW item,
         Differs(e, p, q, key, step, item)
  PROVE  /\ Sound(e, q) /\ QueryKeys(q) = QueryKeys(p) /\ QueryItem(q, key) = item
         /\ \A k \in QueryKeys(p) : k # key => QueryItem(q, k) = QueryItem(p, k)
<1> DEFINE id == key[1]
<1>0. /\ p.steps[key[1]].status \notin Terminal
      /\ q.steps = [p.steps EXCEPT ![key[1]] = step] /\ q.plan = p.plan
      /\ Fits(e, step, Selection(e)[key[1]]) /\ ("items" \in DOMAIN step => CursorHolds(step))
      /\ key[2] = 0 => step = item
      /\ key[2] # 0 => step.items = [p.steps[key[1]].items EXCEPT ![key[2]] = item]
      /\ ItemFits(key, item) /\ \A n \in DOMAIN item.attempts : IdKept(p, key, item, n)
  BY DEF Differs
<1>1. /\ key \in AllKeys(e) /\ p.steps[id] # Unplanned
      /\ key[2] # 0 => key[2] \in 1..Len(p.steps[id].items) /\ p.steps[id].items \in Seq(Items(e))
  <2>1. Shape(e, p.steps)
    BY DEF Sound
  <2>2. key \in QueryKeys(p)
    OBVIOUS
  <2> QED
    BY ONLY <2>1, <2>2, ItemAt
<1>2. /\ key = <<id, key[2]>> /\ id \in Asking /\ id \in StepIds
      /\ \/ key[2] = 0 /\ id # "game_background" /\ Single(Selection(e)[id])
         \/ /\ id = "game_background" /\ key[2] \in 1..BackgroundGames
            /\ Queue(Selection(e)[id])
  BY <1>1, KeyForm
<1>3. q.steps[id] = step /\ \A i \in StepIds : i # id => q.steps[i] = p.steps[i]
  BY <1>0, <1>2 DEF Sound, Shape
<1>4. step # Unplanned
  <2>1. DOMAIN Unplanned = {"status"} /\ {"status"} # {"status", "pick", "attempts"}
        /\ {"status"} # {"status", "cursor", "items"}
    BY DEF Unplanned
  <2> QED
    BY <1>0, <1>2, <2>1, StepFields
<1>5. Shape(e, q.steps)
  <2>1. q.steps = [i \in StepIds |-> q.steps[i]]
    BY <1>0, <1>2 DEF Sound, Shape
  <2>2. ASSUME NEW i \in StepIds
        PROVE  q.steps[i] = Unplanned \/ Fits(e, q.steps[i], Selection(e)[i])
    BY <1>0, <1>3 DEF Sound, Shape
  <2> QED
    BY <2>1, <2>2 DEF Shape
<1>6. QueryKeys(q) = QueryKeys(p)
  <2>1. \A k \in AllKeys(e) : q.steps[k[1]] # Unplanned <=> p.steps[k[1]] # Unplanned
    BY <1>1, <1>3, <1>4, KeyForm
  <2>2. QueryKeys(q) = {k \in AllKeys(e) : q.steps[k[1]] # Unplanned}
    BY ONLY <1>5, KeysOfPlan
  <2>3. QueryKeys(p) = {k \in AllKeys(e) : p.steps[k[1]] # Unplanned}
    BY KeysOfPlan DEF Sound
  <2> QED
    BY <2>1, <2>2, <2>3
<1>7. QueryItem(q, key) = item
  <2>1. CASE key[2] = 0
    BY <1>0, <1>3, <2>1 DEF QueryItem
  <2>2. CASE key[2] # 0
    BY <1>0, <1>1, <1>3, <2>2 DEF QueryItem
  <2> QED
    BY <2>1, <2>2
<1>8. ASSUME NEW k \in QueryKeys(p), k # key PROVE QueryItem(q, k) = QueryItem(p, k)
  <2>1. k \in AllKeys(e) /\ (k[2] # 0 => k[2] \in 1..Len(p.steps[k[1]].items))
    BY ItemAt DEF Sound
  <2>2. /\ k = <<k[1], k[2]>> /\ k[1] \in StepIds
        /\ \/ k[2] = 0 /\ k[1] # "game_background"
           \/ k[2] # 0 /\ k[1] = "game_background"
    BY <2>1, KeyForm, LimitAssumption
  <2>3. CASE k[1] # id
    BY <1>3, <2>2, <2>3 DEF QueryItem
  <2>4. CASE k[1] = id
    <3>1. key[2] # 0 /\ k[2] # 0 /\ k[2] # key[2]
      BY <1>2, <1>8, <2>2, <2>4, LimitAssumption
    <3>2. step.items[k[2]] = p.steps[id].items[k[2]]
      BY <1>0, <1>1, <2>1, <2>4, <3>1
    <3> QED
      BY <1>3, <1>2, <2>4, <3>1, <3>2 DEF QueryItem
  <2> QED
    BY <2>3, <2>4
<1>9. ItemsFit(q)
  BY <1>0, <1>6, <1>7, <1>8 DEF ItemsFit, Sound
<1>10. CursorFits(q.steps)
  <2>1. "game_background" \in StepIds
    BY Ids
  <2>2. CASE id = "game_background"
    BY <1>0, <1>3, <2>2 DEF CursorFits
  <2>3. CASE id # "game_background"
    BY <1>3, <2>1, <2>3 DEF CursorFits, Sound
  <2> QED
    BY <2>2, <2>3
<1>11. Ordered(e, q)
  <2>1. \A i \in StepIds : q.steps[i] = Unplanned <=> p.steps[i] = Unplanned
    BY <1>1, <1>3, <1>4
  <2>2. \A j \in 1..6 : StepOrder[j] \in StepIds
    BY Order, Ids
  <2>3. ASSUME NEW j \in 1..5, q.steps[StepOrder[j + 1]] # Unplanned
        PROVE  q.steps[StepOrder[j]].status \in Terminal
    <3>1. p.steps[StepOrder[j + 1]] # Unplanned
      <4>1. j + 1 \in 1..6
        OBVIOUS
      <4> QED
        BY <2>1, <2>2, <2>3, <4>1
    <3>2. p.steps[StepOrder[j]].status \in Terminal
      BY <3>1 DEF Sound, Ordered
    <3>3. StepOrder[j] # id
      BY <1>0, <3>2
    <3>4. j \in 1..6
      OBVIOUS
    <3> QED
      BY <1>3, <2>2, <3>2, <3>3, <3>4
  <2>4. "error_code" \in StepIds
    BY Ids
  <2> QED
    BY <1>0, <2>1, <2>3, <2>4 DEF Sound, Ordered
<1>12. QueryIdsDiffer(q)
  <2> SUFFICES ASSUME NEW k \in QueryKeys(p), NEW l \in QueryKeys(p),
                      NEW m \in DOMAIN QueryItem(q, k).attempts,
                      NEW n \in DOMAIN QueryItem(q, l).attempts,
                      QueryItem(q, k).attempts[m].qid # None,
                      QueryItem(q, k).attempts[m].qid = QueryItem(q, l).attempts[n].qid
               PROVE  k = l /\ m = n
    BY <1>6 DEF QueryIdsDiffer
  <2> DEFINE qid == QueryItem(q, k).attempts[m].qid
             Old(x, y) == /\ y \in DOMAIN QueryItem(p, x).attempts
                          /\ QueryItem(p, x).attempts[y].qid = qid
             New(x, y) == x = key /\ y = Len(item.attempts) /\ qid \notin QueryIds(p)
  <2>1. Old(k, m) \/ New(k, m)
    BY <1>0, <1>7, <1>8 DEF IdKept
  <2>2. Old(l, n) \/ New(l, n)
    BY <1>0, <1>7, <1>8 DEF IdKept
  <2>3. Old(k, m) \/ Old(l, n) => qid \in QueryIds(p)
    BY IdListed
  <2>4. Old(k, m) /\ Old(l, n) => k = l /\ m = n
    BY DEF Sound, QueryIdsDiffer
  <2> QED
    BY <2>1, <2>2, <2>3, <2>4
<1> QED
  BY <1>5, <1>6, <1>7, <1>8, <1>9, <1>10, <1>11, <1>12 DEF Sound
-----------------------------------------------------------------------------
(* One query.                                                              *)

\* A query that is asked, for the first time or as a repair.
LEMMA Attempted ==
  ASSUME NEW e, NEW p, NEW key, NEW item \in Items(e), item = QueryItem(p, key),
         ItemFits(key, item), item.status \in {"planned", "repair_required"},
         NEW text \in Texts(e), text = [step |-> key[1], pick |-> item.pick,
                                        repair |-> Len(item.attempts)]
  PROVE  /\ WithAttempt(item, text) \in Items(e) /\ WithAttempt(item, text).pick = item.pick
         /\ WithAttempt(item, text).status = "in_progress"
         /\ WithAttempt(item, text).attempts = Append(item.attempts, Issued(text))
         /\ ItemFits(key, WithAttempt(item, text)) /\ QueryKept(item, WithAttempt(item, text))
         /\ \A n \in DOMAIN WithAttempt(item, text).attempts :
              IdKept(p, key, WithAttempt(item, text), n)
<1> DEFINE r == WithAttempt(item, text)
           l == Len(item.attempts)
<1>1. /\ item = [status |-> item.status, pick |-> item.pick, attempts |-> item.attempts]
      /\ item.pick \in Picks(e) /\ item.attempts \in Seq(Attempts(e)) /\ l \in Nat
  BY DEF Items
<1>2. r = [status |-> "in_progress", pick |-> item.pick,
           attempts |-> Append(item.attempts, Issued(text))]
  <2>1. r = [item EXCEPT !.status = "in_progress", !.attempts = Append(@, Issued(text))]
    BY DEF WithAttempt
  <2> HIDE DEF r
  <2>2. item \in [status : Statuses, pick : Picks(e), attempts : Seq(Attempts(e))]
    BY DEF Items
  <2> QED
    BY ONLY <2>1, <2>2
<1>3. Issued(text) \in Attempts(e) /\ Issued(text).sql = text /\ Issued(text).status = "issued"
      /\ Issued(text).qid = None /\ Issued(text).event = None
  BY DEF Issued, Attempts
<1> HIDE DEF r
<1>4. /\ r.status = "in_progress" /\ r.pick = item.pick
      /\ r.attempts = Append(item.attempts, Issued(text))
  BY <1>2
<1>5. r.attempts \in Seq(Attempts(e)) /\ r \in Items(e)
  BY <1>1, <1>2, <1>3, <1>4 DEF Items, Statuses, Waiting
<1>6. /\ Len(r.attempts) = l + 1 /\ DOMAIN r.attempts = 1..(l + 1) /\ r.attempts # <<>>
      /\ r.attempts[l + 1] = Issued(text)
      /\ DOMAIN item.attempts = 1..l /\ \A n \in 1..l : r.attempts[n] = item.attempts[n]
  BY <1>1, <1>3, <1>4
<1>7. l <= RepairLimit
  BY <1>1, LimitAssumption DEF ItemFits, ItemHolds
<1>8. ItemHolds(r)
  BY <1>3, <1>4, <1>6, <1>7, LimitAssumption DEF ItemHolds, LastAttempt
<1>9. ASSUME NEW n \in DOMAIN r.attempts PROVE AnswerFits(key, r.pick, n, r.attempts[n])
  <2>1. CASE n \in 1..l
    BY <1>4, <1>6, <2>1 DEF ItemFits
  <2>2. CASE n = l + 1
    <3>1. text = [step |-> key[1], pick |-> r.pick, repair |-> n - 1]
      BY <1>1, <1>4, <2>2
    <3> QED
      BY <1>3, <1>6, <2>2, <3>1 DEF AnswerFits
  <2> QED
    BY <1>1, <1>6, <2>1, <2>2
<1>10. ASSUME NEW n \in DOMAIN r.attempts PROVE IdKept(p, key, r, n)
  BY <1>1, <1>3, <1>6 DEF IdKept
<1>11. QueryKept(item, r)
  BY <1>1, <1>4, <1>6 DEF QueryKept
<1> QED
  BY <1>4, <1>5, <1>8, <1>9, <1>10, <1>11 DEF ItemFits, r

\* What an event of DView is like.
Answering(a) ==
  /\ a.kind \in {"query_returned", "query_error"} /\ a.qid \in Nat
  /\ a.kind = "query_returned" => a.body \in {"valid", "invalid"}

\* record_returned and record_error, with an answer that matches.
LEMMA Answered1 ==
  ASSUME NEW e \in Cases, NEW p, NEW key, NEW item \in Items(e), item = QueryItem(p, key),
         ItemFits(key, item), item.status = "in_progress",
         NEW a \in Events(e), Answering(a), a.attempt = Len(item.attempts) - 1,
         a.sql = LastAttempt(item).sql, a.qid \notin QueryIds(p)
  PROVE  /\ Answer(item, a) \in Items(e) /\ Answer(item, a).pick = item.pick
         /\ Answer(item, a).status \in
              IF Repairable(a) THEN {"repair_required"} ELSE {"succeeded", "failed"}
         /\ Answer(item, a).attempts # <<>>
         /\ Len(Answer(item, a).attempts) = Len(item.attempts)
         /\ \A n \in 1..(Len(item.attempts) - 1) :
              Answer(item, a).attempts[n] = item.attempts[n]
         /\ LastAttempt(Answer(item, a)).sql = LastAttempt(item).sql
         /\ LastAttempt(Answer(item, a)).event = a
         /\ ItemFits(key, Answer(item, a)) /\ QueryKept(item, Answer(item, a))
         /\ \A n \in DOMAIN Answer(item, a).attempts : IdKept(p, key, Answer(item, a), n)
<1> DEFINE outcome == IF a.kind = "query_error" THEN "error"
                      ELSE IF a.body = "valid" THEN "succeeded" ELSE "failed"
           ends == IF Repairable(a) THEN "repair_required"
                   ELSE IF outcome = "succeeded" THEN "succeeded" ELSE "failed"
           l == Len(item.attempts)
           last == item.attempts[l]
           r == Answer(item, a)
           b == r.attempts[l]
<1>1. /\ item.pick \in Picks(e) /\ item.attempts \in Seq(Attempts(e)) /\ l \in Nat
      /\ item \in [status : Statuses, pick : Picks(e), attempts : Seq(Attempts(e))]
  BY DEF Items
<1>2. item.attempts # <<>> /\ last.qid = None /\ l <= RepairLimit + 1
  BY DEF ItemFits, ItemHolds, LastAttempt
<1>3. l \in 1..l /\ DOMAIN item.attempts = 1..l /\ last \in Attempts(e)
  BY <1>1, <1>2
<1>4. r = [status |-> ends, pick |-> item.pick,
           attempts |-> [item.attempts EXCEPT ![l] = [@ EXCEPT !.status = outcome,
                                                               !.qid = a.qid, !.event = a]]]
  <2>1. r = [item EXCEPT !.status = ends,
                         !.attempts[l] = [@ EXCEPT !.status = outcome, !.qid = a.qid,
                                                   !.event = a]]
    BY DEF Answer
  <2> HIDE DEF r, ends, outcome, l
  <2> QED
    BY ONLY <1>1, <2>1
<1>5. [last EXCEPT !.status = outcome, !.qid = a.qid, !.event = a]
        = [status |-> outcome, sql |-> last.sql, qid |-> a.qid, event |-> a]
  <2> DEFINE x == [last EXCEPT !.status = outcome, !.qid = a.qid, !.event = a]
  <2>1. x = [last EXCEPT !.status = outcome, !.qid = a.qid, !.event = a]
    OBVIOUS
  <2>2. last \in [status : {"issued", "succeeded", "failed", "error"}, sql : Texts(e),
                  qid : Nat \cup {None}, event : Events(e) \cup {None}]
    BY <1>3 DEF Attempts
  <2> HIDE DEF x, outcome, last
  <2>3. x = [status |-> outcome, sql |-> last.sql, qid |-> a.qid, event |-> a]
    BY ONLY <2>1, <2>2
  <2> QED
    BY <2>3 DEF x
<1>6. /\ b = [status |-> outcome, sql |-> last.sql, qid |-> a.qid, event |-> a]
      /\ r.status = ends /\ r.pick = item.pick
      /\ r.attempts = [item.attempts EXCEPT ![l] = b]
  <2> DEFINE x == [last EXCEPT !.status = outcome, !.qid = a.qid, !.event = a]
  <2>1. /\ r = [status |-> ends, pick |-> item.pick,
                attempts |-> [item.attempts EXCEPT ![l] = x]]
        /\ x = [status |-> outcome, sql |-> last.sql, qid |-> a.qid, event |-> a]
    BY <1>4, <1>5
  <2> HIDE DEF r, ends, x, last, outcome, l
  <2>2. r.attempts = [item.attempts EXCEPT ![l] = x] /\ r.status = ends /\ r.pick = item.pick
    BY <2>1
  <2>3. b = x
    BY <2>2, <1>3
  <2> QED
    BY <2>1, <2>2, <2>3
<1>7. r = [status |-> ends, pick |-> item.pick, attempts |-> r.attempts]
  BY <1>4
<1> HIDE DEF r, ends, outcome
<1>8. outcome \in {"error", "succeeded", "failed"} /\ b \in Attempts(e)
  <2>1. outcome \in {"error", "succeeded", "failed"}
    BY DEF outcome
  <2>2. last.sql \in Texts(e) /\ a.qid \in Nat
    BY <1>3 DEF Attempts, Answering
  <2> HIDE DEF b, last
  <2> QED
    BY <1>6, <2>1, <2>2 DEF Attempts
<1> HIDE DEF b
<1>9. /\ r.attempts \in Seq(Attempts(e)) /\ Len(r.attempts) = l /\ DOMAIN r.attempts = 1..l
      /\ r.attempts # <<>> /\ r.attempts[l] = b
      /\ \A n \in 1..(l - 1) : r.attempts[n] = item.attempts[n]
  <2>1. /\ r.attempts \in Seq(Attempts(e)) /\ Len(r.attempts) = l /\ DOMAIN r.attempts = 1..l
    BY <1>1, <1>3, <1>6, <1>8
  <2>2. r.attempts # <<>>
    BY <1>3, <2>1
  <2> QED
    BY <1>1, <1>3, <1>6, <2>1, <2>2
<1>10. ends \in Statuses /\ r \in Items(e)
  <2>1. ends \in Statuses
    BY DEF ends, Statuses, Waiting, Terminal
  <2> QED
    BY <1>1, <1>7, <1>9, <2>1 DEF Items
<1>11. ends \in IF Repairable(a) THEN {"repair_required"} ELSE {"succeeded", "failed"}
  BY DEF ends
<1>12. /\ b.status = outcome /\ b.sql = last.sql /\ b.qid = a.qid /\ b.event = a
       /\ LastAttempt(r) = b
  BY <1>6, <1>9 DEF LastAttempt
<1>13. ItemHolds(r)
  <2>1. Repairable(a) => a.body = "semantic_analysis" /\ l <= RepairLimit /\ outcome = "error"
    BY <1>1, LimitAssumption DEF Repairable, outcome
  <2>2. outcome = "succeeded" => a.body = "valid"
    BY DEF outcome
  <2>3. outcome = "failed" => a.body = "invalid"
    BY DEF outcome, Answering
  <2> QED
    BY <1>2, <1>6, <1>8, <1>9, <1>12, <2>1, <2>2, <2>3 DEF ItemHolds, ends
<1>14. ASSUME NEW n \in DOMAIN r.attempts PROVE AnswerFits(key, r.pick, n, r.attempts[n])
  <2>1. AnswerFits(key, r.pick, n, item.attempts[n])
    BY <1>3, <1>6, <1>9 DEF ItemFits
  <2>2. CASE n \in 1..(l - 1)
    BY <1>9, <2>1, <2>2
  <2>3. CASE n = l
    <3>1. b.sql = [step |-> key[1], pick |-> r.pick, repair |-> n - 1]
      BY <1>12, <2>1, <2>3 DEF AnswerFits
    <3>2. a # None /\ a.qid # None
      BY CasesAssumption, NoneAssumption DEF Answering
    <3>3. b.event.sql = b.sql
      BY <1>12 DEF LastAttempt
    <3> QED
      BY <1>9, <1>12, <2>3, <3>1, <3>2, <3>3 DEF AnswerFits
  <2> QED
    BY <1>1, <1>9, <2>2, <2>3
<1>15. ASSUME NEW n \in DOMAIN r.attempts PROVE IdKept(p, key, r, n)
  BY <1>1, <1>3, <1>9, <1>12 DEF IdKept
<1>16. QueryKept(item, r)
  <2>1. AnswerFits(key, item.pick, l, last)
    BY <1>3 DEF ItemFits
  <2>2. last.event = None
    BY <1>2, <2>1 DEF AnswerFits
  <2> QED
    BY <1>1, <1>3, <1>6, <1>9, <2>2 DEF QueryKept
<1>17. r.status \in IF Repairable(a) THEN {"repair_required"} ELSE {"succeeded", "failed"}
  BY <1>6, <1>11
<1>18. LastAttempt(r).sql = LastAttempt(item).sql /\ LastAttempt(r).event = a
  BY <1>12 DEF LastAttempt
<1> QED
  BY <1>6, <1>9, <1>10, <1>13, <1>14, <1>15, <1>16, <1>17, <1>18 DEF ItemFits, r
-----------------------------------------------------------------------------
(* The step of the query.                                                  *)

\* The query that is planned, out or waits for a repair stands in a step that has no
\* verdict yet; in the background it is the item at the cursor.
LEMMA CurrentOpen ==
  ASSUME NEW e, NEW p, Sound(e, p), NEW key \in CurrentKeys(p)
  PROVE  /\ key \in QueryKeys(p) /\ QueryItem(p, key) \in Items(e)
         /\ QueryItem(p, key).pick = PickAt(e, key) /\ ItemFits(key, QueryItem(p, key))
         /\ QueryItem(p, key).status \in {"planned", "in_progress", "repair_required"}
         /\ key \in AllKeys(e) /\ key[1] \in StepIds
         /\ p.steps[key[1]].status \notin Terminal
         /\ key[2] = 0 => p.steps[key[1]] = QueryItem(p, key) /\ Single(Selection(e)[key[1]])
         /\ key[2] # 0 => /\ key[1] = "game_background" /\ Queue(Selection(e)[key[1]])
                          /\ p.steps[key[1]] \in Backgrounds(e)
                          /\ p.steps[key[1]].cursor = key[2]
                          /\ key[2] \in 1..Len(p.steps[key[1]].items)
                          /\ CursorHolds(p.steps[key[1]])
                          /\ QueryItem(p, key) = p.steps[key[1]].items[key[2]]
<1> DEFINE step == p.steps[key[1]]
           item == QueryItem(p, key)
<1>1. /\ key \in QueryKeys(p) /\ item.status \in {"planned", "in_progress", "repair_required"}
      /\ key[2] # 0 => step.cursor = key[2]
  BY DEF CurrentKeys, Waiting
<1>2. /\ item \in Items(e) /\ item.pick = PickAt(e, key) /\ key \in AllKeys(e)
      /\ step # Unplanned
      /\ key[2] # 0 => /\ key[1] = "game_background" /\ step \in Backgrounds(e)
                       /\ key[2] \in 1..Len(step.items)
  BY <1>1, ItemAt DEF Sound
<1>3. ItemFits(key, item)
  BY <1>1 DEF Sound, ItemsFit
<1>4. /\ key[1] \in StepIds
      /\ key[2] = 0 => Single(Selection(e)[key[1]])
      /\ key[2] # 0 => Queue(Selection(e)[key[1]])
  BY <1>2, KeyForm, LimitAssumption
<1>5. key[2] = 0 => step = item
  BY DEF QueryItem
<1>6. ASSUME key[2] # 0 PROVE CursorHolds(step) /\ item = step.items[key[2]]
  <2>1. Fits(e, step, Selection(e)[key[1]])
    BY <1>2, <1>4 DEF Sound, Shape
  <2>2. "items" \in DOMAIN step
    BY <1>4, <1>6, <2>1, StepFields
  <2>3. CursorHolds(step)
    BY <1>2, <1>6, <2>2 DEF Sound, CursorFits
  <2> QED
    BY <1>6, <2>3 DEF QueryItem
<1>7. step.status \notin Terminal
  <2>1. CASE key[2] = 0
    BY <1>1, <1>5, <2>1 DEF Terminal
  <2>2. CASE key[2] # 0
    <3>1. ~(step.cursor > Len(step.items))
      BY <1>1, <1>2, <2>2
    <3> QED
      BY <1>6, <2>2, <3>1 DEF CursorHolds, Terminal
  <2> QED
    BY <2>1, <2>2
<1> QED
  BY <1>1, <1>2, <1>3, <1>4, <1>5, <1>6, <1>7

\* The background whose item at the cursor was asked, or was answered and left behind.
LEMMA BackgroundChanged ==
  ASSUME NEW e, NEW p, Sound(e, p), NEW key \in CurrentKeys(p), key[2] # 0,
         NEW item \in Items(e), item.pick = QueryItem(p, key).pick, NEW new,
         new = [status |-> new.status, cursor |-> new.cursor,
                items |-> [p.steps[key[1]].items EXCEPT ![key[2]] = item]],
         \/ /\ item.status \in Waiting /\ new.cursor = key[2] /\ new.status = "in_progress"
         \/ /\ item.status \in {"succeeded", "failed"} /\ new.cursor = key[2] + 1
            /\ new.status = IF new.cursor <= Len(p.steps[key[1]].items) THEN "in_progress"
                            ELSE Aggregate(new.items)
  PROVE  Fits(e, new, Selection(e)[key[1]]) /\ CursorHolds(new)
<1> DEFINE step == p.steps[key[1]]
           i == key[2]
           chosen == Selection(e)[key[1]]
<1>1. /\ Queue(chosen) /\ step \in Backgrounds(e) /\ step.cursor = i /\ i \in 1..Len(step.items)
      /\ CursorHolds(step) /\ QueryItem(p, key) = step.items[i]
      /\ key \in QueryKeys(p) /\ key[1] \in StepIds
  BY CurrentOpen
<1>2. step.items \in Seq(Items(e)) /\ DOMAIN step.items = 1..Len(step.items)
      /\ Len(step.items) \in Nat /\ item \in Items(e)
  BY <1>1 DEF Backgrounds
<1>3. /\ new.items = [step.items EXCEPT ![i] = item]
      /\ new.items \in Seq(Items(e)) /\ Len(new.items) = Len(step.items)
      /\ DOMAIN new.items = DOMAIN step.items
  <2>1. new.items = [step.items EXCEPT ![i] = item]
    OBVIOUS
  <2> HIDE DEF step, i
  <2> QED
    BY ONLY <1>1, <1>2, <2>1
<1>4. new.items[i] = item /\ \A j \in DOMAIN step.items : j # i => new.items[j] = step.items[j]
  <2> HIDE DEF step, i
  <2> QED
    BY ONLY <1>1, <1>2, <1>3
<1>5. new.status \in Statuses /\ new.cursor \in Nat
  BY <1>1, <1>2 DEF Statuses, Waiting, Aggregate, Terminal
<1>6. new \in Backgrounds(e)
  <2>1. new = [status |-> new.status, cursor |-> new.cursor, items |-> new.items]
    BY <1>3
  <2> QED
    BY ONLY <1>3, <1>5, <2>1 DEF Backgrounds
<1>7. step # Unplanned
  BY <1>1, ItemAt DEF Sound
<1>8. Fits(e, step, chosen)
  BY <1>1, <1>7 DEF Sound, Shape
<1>9. /\ DOMAIN step.items = DOMAIN chosen.items
      /\ \A j \in DOMAIN chosen.items : step.items[j].pick = chosen.items[j].pick
  <2>1. Queue(chosen)
    BY <1>1
  <2>2. ~Plain(chosen) /\ ~Single(chosen)
    BY ONLY <2>1, KindFields DEF Terminal
  <2> HIDE DEF step, chosen
  <2> QED
    BY ONLY <1>8, <2>2 DEF Fits
<1>10. \A j \in DOMAIN chosen.items : new.items[j].pick = chosen.items[j].pick
  <2>1. item.pick = step.items[i].pick
    BY <1>1
  <2> HIDE DEF step, i, chosen
  <2> QED
    BY ONLY <1>4, <1>9, <2>1
<1>11. Fits(e, new, chosen)
  <2> HIDE DEF step, i, chosen
  <2> QED
    BY ONLY <1>1, <1>3, <1>6, <1>9, <1>10 DEF Fits
<1>12. CursorHolds(new)
  <2>1. \A j \in DOMAIN step.items :
          /\ j < i => step.items[j].status \in {"succeeded", "failed"}
          /\ j > i => step.items[j].status = "planned"
    <3> HIDE DEF step, i
    <3> QED
      BY ONLY <1>1 DEF CursorHolds
  <2>2. CASE /\ item.status \in Waiting /\ new.cursor = i /\ new.status = "in_progress"
    <3>1. \A j \in DOMAIN new.items :
            /\ j < i => new.items[j].status \in {"succeeded", "failed"}
            /\ j = i => new.items[j].status \in {"planned"} \cup Waiting
            /\ j > i => new.items[j].status = "planned"
      <4> HIDE DEF step, i
      <4> QED
        BY ONLY <1>1, <1>2, <1>3, <1>4, <2>1, <2>2
    <3>2. new.cursor \in 1..(Len(new.items) + 1) /\ ~(new.cursor > Len(new.items))
      <4> HIDE DEF step, i
      <4> QED
        BY ONLY <1>1, <1>2, <1>3, <2>2
    <3>3. ~(new.cursor = 1 /\ new.items[1].status = "planned")
      BY <1>4, <2>2 DEF Waiting
    <3> HIDE DEF step, i
    <3> QED
      BY ONLY <2>2, <3>1, <3>2, <3>3 DEF CursorHolds
  <2>3. CASE /\ item.status \in {"succeeded", "failed"} /\ new.cursor = i + 1
             /\ new.status = IF new.cursor <= Len(step.items) THEN "in_progress"
                             ELSE Aggregate(new.items)
    <3>1. \A j \in DOMAIN new.items :
            /\ j < i + 1 => new.items[j].status \in {"succeeded", "failed"}
            /\ j = i + 1 => new.items[j].status \in {"planned"} \cup Waiting
            /\ j > i + 1 => new.items[j].status = "planned"
      <4>1. ASSUME NEW j \in DOMAIN step.items
            PROVE  /\ j < i + 1 => new.items[j].status \in {"succeeded", "failed"}
                   /\ j > i => new.items[j].status = "planned"
        <5>1. j = i => new.items[j].status \in {"succeeded", "failed"}
          BY <1>4, <2>3
        <5>2. j # i => new.items[j] = step.items[j]
          BY <1>4
        <5>3. /\ j < i => step.items[j].status \in {"succeeded", "failed"}
              /\ j > i => step.items[j].status = "planned"
          BY <2>1
        <5>4. i \in Int /\ j \in Int
          BY <1>1, <1>2
        <5> QED
          BY ONLY <5>1, <5>2, <5>3, <5>4
      <4>2. i \in Int /\ DOMAIN new.items \subseteq Int /\ DOMAIN new.items = DOMAIN step.items
        <5> HIDE DEF step, i
        <5> QED
          BY ONLY <1>1, <1>2, <1>3
      <4> HIDE DEF step, i
      <4> QED
        BY ONLY <4>1, <4>2
    <3>2. new.cursor \in 1..(Len(new.items) + 1)
          /\ new.cursor # 1 /\ (new.cursor <= Len(step.items) <=> ~(new.cursor > Len(new.items)))
      <4> HIDE DEF step, i
      <4> QED
        BY ONLY <1>1, <1>2, <1>3, <2>3
    <3> HIDE DEF step, i
    <3> QED
      BY ONLY <2>3, <3>1, <3>2 DEF CursorHolds
  <2> QED
    BY <2>2, <2>3
<1> QED
  BY <1>11, <1>12

\* What an operation on the query at key makes of the plan p.
Replaces(p, q, key, item) ==
  /\ q = [status |-> p.status, plan |-> p.plan, steps |-> q.steps]
  /\ q.steps = [p.steps EXCEPT ![key[1]] = q.steps[key[1]]]
  /\ key[2] = 0 => q.steps[key[1]] = item
  /\ key[2] # 0 =>
       /\ q.steps[key[1]] = [status |-> q.steps[key[1]].status, cursor |-> q.steps[key[1]].cursor,
                             items |-> [p.steps[key[1]].items EXCEPT ![key[2]] = item]]
       /\ \/ /\ item.status \in Waiting /\ q.steps[key[1]].cursor = key[2]
             /\ q.steps[key[1]].status = "in_progress"
          \/ /\ item.status \in {"succeeded", "failed"} /\ q.steps[key[1]].cursor = key[2] + 1
             /\ q.steps[key[1]].status =
                  IF q.steps[key[1]].cursor <= Len(p.steps[key[1]].items) THEN "in_progress"
                  ELSE Aggregate(q.steps[key[1]].items)

\* The plan stays sound, and settled if its step is not done with.
LEMMA Replaced ==
  ASSUME NEW e, NEW p, Settled(e, p), NEW key \in CurrentKeys(p),
         NEW item \in Items(e), item.pick = QueryItem(p, key).pick, ItemFits(key, item),
         \A n \in DOMAIN item.attempts : IdKept(p, key, item, n),
         QueryKept(QueryItem(p, key), item),
         NEW q, Replaces(p, q, key, item)
  PROVE  /\ Sound(e, q) /\ PlanKept(p, q) /\ QueryItem(q, key) = item
         /\ QueryKeys(q) = QueryKeys(p)
         /\ \A k \in QueryKeys(p) : k # key => QueryItem(q, k) = QueryItem(p, k)
         /\ \A id \in StepIds : p.steps[id].status \in Terminal => q.steps[id] = p.steps[id]
         /\ q.steps[key[1]].status \notin Terminal => Settled(e, q)
         /\ p.status # "completed"
<1> DEFINE id == key[1]
           step == p.steps[id]
           new == q.steps[id]
<1>1. /\ Sound(e, p) /\ p \in Posts(e) /\ Closed(p.steps)
      /\ p.status = "completed" <=> AllTerminal(p.steps)
  BY DEF Settled
<1>2. /\ key \in QueryKeys(p) /\ id \in StepIds /\ step.status \notin Terminal
      /\ key \in AllKeys(e) /\ step # Unplanned
      /\ key[2] = 0 => Single(Selection(e)[id])
      /\ key[2] # 0 => Queue(Selection(e)[id])
  <2>1. key \in QueryKeys(p)
    BY <1>1, CurrentOpen
  <2>2. step # Unplanned
    BY <1>1, <2>1, ItemAt DEF Sound
  <2> QED
    BY <1>1, <2>2, CurrentOpen
<1>3. Fits(e, new, Selection(e)[id]) /\ ("items" \in DOMAIN new => CursorHolds(new))
  <2>1. CASE key[2] = 0
    <3>1. new = item /\ "items" \notin DOMAIN item
      BY <2>1 DEF Replaces, Items
    <3>2. item.pick = Selection(e)[id].pick
      BY <1>1, <2>1, CurrentOpen DEF PickAt
    <3> QED
      BY <1>2, <2>1, <3>1, <3>2 DEF Fits
  <2>2. CASE key[2] # 0
    <3>1. /\ new = [status |-> new.status, cursor |-> new.cursor,
                    items |-> [p.steps[key[1]].items EXCEPT ![key[2]] = item]]
          /\ \/ /\ item.status \in Waiting /\ new.cursor = key[2] /\ new.status = "in_progress"
             \/ /\ item.status \in {"succeeded", "failed"} /\ new.cursor = key[2] + 1
                /\ new.status = IF new.cursor <= Len(p.steps[key[1]].items) THEN "in_progress"
                                ELSE Aggregate(new.items)
      BY <2>2 DEF Replaces
    <3>2. item.pick = QueryItem(p, key).pick
      OBVIOUS
    <3> HIDE DEF new
    <3> QED
      BY ONLY <1>1, <2>2, <3>1, <3>2, item \in Items(e), key \in CurrentKeys(p), BackgroundChanged
  <2> QED
    BY <2>1, <2>2
<1>4. /\ Sound(e, q) /\ QueryKeys(q) = QueryKeys(p) /\ QueryItem(q, key) = item
      /\ \A k \in QueryKeys(p) : k # key => QueryItem(q, k) = QueryItem(p, k)
  <2>1. /\ q.steps = [p.steps EXCEPT ![key[1]] = new] /\ q.plan = p.plan
        /\ key[2] = 0 => new = item
        /\ key[2] # 0 => new.items = [p.steps[key[1]].items EXCEPT ![key[2]] = item]
    <3>1. q.steps = [p.steps EXCEPT ![key[1]] = new]
      BY DEF Replaces
    <3>2. q = [status |-> p.status, plan |-> p.plan, steps |-> q.steps]
      BY DEF Replaces
    <3>3. q.plan = p.plan
      BY ONLY <3>2
    <3>4. ASSUME key[2] # 0
          PROVE  new.items = [p.steps[key[1]].items EXCEPT ![key[2]] = item]
      <4>1. new = [status |-> new.status, cursor |-> new.cursor,
                   items |-> [p.steps[key[1]].items EXCEPT ![key[2]] = item]]
        BY <3>4 DEF Replaces
      <4> HIDE DEF new
      <4> QED
        BY ONLY <4>1
    <3> QED
      BY <3>1, <3>3, <3>4 DEF Replaces
  <2>2. ItemFits(key, item) /\ \A n \in DOMAIN item.attempts : IdKept(p, key, item, n)
    OBVIOUS
  <2>3. /\ Sound(e, p) /\ key \in QueryKeys(p) /\ p.steps[key[1]].status \notin Terminal
        /\ Fits(e, new, Selection(e)[key[1]]) /\ ("items" \in DOMAIN new => CursorHolds(new))
    BY <1>1, <1>2, <1>3
  <2>4. Differs(e, p, q, key, new, item)
    BY ONLY <2>1, <2>2, <2>3 DEF Differs
  <2> HIDE DEF new, id, step
  <2> QED
    BY ONLY <2>3, <2>4, StepChanged
<1>5. PlanKept(p, q)
  BY <1>4 DEF PlanKept, QueryKept
<1>6. \A i \in StepIds : i # id => q.steps[i] = p.steps[i]
  <2>1. p.steps = [i \in StepIds |-> p.steps[i]]
    BY <1>1 DEF Sound, Shape
  <2> QED
    BY <1>2, <2>1 DEF Replaces
<1>7. p.status # "completed"
  BY <1>1, <1>2 DEF AllTerminal
<1>8. ASSUME new.status \notin Terminal PROVE Settled(e, q)
  <2>1. Closed(q.steps)
    <3>1. new # Unplanned
      <4>1. DOMAIN Unplanned = {"status"} /\ {"status"} # {"status", "pick", "attempts"}
            /\ {"status"} # {"status", "cursor", "items"}
        BY DEF Unplanned
      <4> HIDE DEF new
      <4> QED
        BY <1>2, <1>3, <4>1, StepFields
    <3>2. \A j \in 1..6 : StepOrder[j] \in StepIds
      BY Order, Ids
    <3>3. \A i \in StepIds : p.steps[i] # Unplanned => q.steps[i] # Unplanned
      BY <1>6, <3>1
    <3>4. ASSUME NEW j \in 1..5, q.steps[StepOrder[j]].status \in Terminal
          PROVE  q.steps[StepOrder[j + 1]] # Unplanned
      <4>1. j \in 1..6 /\ j + 1 \in 1..6
        OBVIOUS
      <4>2. q.steps[StepOrder[j]] = p.steps[StepOrder[j]]
        BY <1>6, <1>8, <3>2, <3>4, <4>1
      <4>3. p.steps[StepOrder[j + 1]] # Unplanned
        BY <1>1, <3>4, <4>2 DEF Closed
      <4> QED
        BY <3>2, <3>3, <4>1, <4>3
    <3> QED
      BY <1>1, <3>3, <3>4, Ids DEF Closed
  <2>2. q \in Posts(e)
    <3>1. q.steps \in [StepIds -> Steps(e)] /\ q.plan \in Plans \cup {None}
      BY <1>4, StepsTyped
    <3>2. p.status \in {"executing", "completed"} /\ p.plan \in Plans \cup {None}
      BY <1>1 DEF Posts
    <3>3. q = [status |-> p.status, plan |-> p.plan, steps |-> q.steps]
      BY DEF Replaces
    <3> QED
      BY ONLY <3>1, <3>2, <3>3 DEF Posts
  <2>3. q.status = p.status
    <3>1. q = [status |-> p.status, plan |-> p.plan, steps |-> q.steps]
      BY DEF Replaces
    <3> QED
      BY ONLY <3>1
  <2>4. ~AllTerminal(q.steps)
    BY <1>2, <1>8 DEF AllTerminal
  <2> QED
    BY <1>4, <1>7, <2>1, <2>2, <2>3, <2>4 DEF Settled
<1>9. \A i \in StepIds : p.steps[i].status \in Terminal => q.steps[i] = p.steps[i]
  BY <1>2, <1>6
<1> QED
  BY <1>4, <1>5, <1>7, <1>8, <1>9

\* The query at key is replaced where it stands.
LEMMA PlacedIs ==
  ASSUME NEW e, NEW p \in Posts(e), NEW key, key[1] \in StepIds, NEW item,
         key[2] # 0 => p.steps[key[1]] \in Backgrounds(e)
  PROVE  /\ WithItem(p, key, item) = [status |-> p.status, plan |-> p.plan,
                                      steps |-> WithItem(p, key, item).steps]
         /\ WithItem(p, key, item).steps =
              [p.steps EXCEPT ![key[1]] = WithItem(p, key, item).steps[key[1]]]
         /\ key[2] = 0 => WithItem(p, key, item).steps[key[1]] = item
         /\ key[2] # 0 =>
              WithItem(p, key, item).steps[key[1]] =
                [status |-> p.steps[key[1]].status, cursor |-> p.steps[key[1]].cursor,
                 items |-> [p.steps[key[1]].items EXCEPT ![key[2]] = item]]
<1> DEFINE q == WithItem(p, key, item)
           step == p.steps[key[1]]
           new == IF key[2] = 0 THEN item
                  ELSE [step EXCEPT !.items = [@ EXCEPT ![key[2]] = item]]
<1>1. p \in [status : {"executing", "completed"}, plan : Plans \cup {None},
             steps : [StepIds -> Steps(e)]]
  BY DEF Posts
<1>2. q = [p EXCEPT !.steps = [@ EXCEPT ![key[1]] = new]]
  <2>1. CASE key[2] = 0
    <3>1. q = [p EXCEPT !.steps[key[1]] = item]
      BY <2>1 DEF WithItem
    <3>2. new = item
      BY <2>1
    <3> HIDE DEF q, new
    <3> QED
      BY ONLY <3>1, <3>2
  <2>2. CASE key[2] # 0
    <3>1. q = [p EXCEPT !.steps[key[1]].items[key[2]] = item]
      BY <2>2 DEF WithItem
    <3>2. new = [step EXCEPT !.items = [@ EXCEPT ![key[2]] = item]]
      BY <2>2
    <3> HIDE DEF q, new
    <3> QED
      BY ONLY <3>1, <3>2, <1>1
  <2> QED
    BY <2>1, <2>2
<1> HIDE DEF q, new
<1>3. /\ q = [status |-> p.status, plan |-> p.plan, steps |-> q.steps]
      /\ q.steps = [p.steps EXCEPT ![key[1]] = new]
  BY ONLY <1>1, <1>2
<1>4. q.steps[key[1]] = new /\ q.steps = [p.steps EXCEPT ![key[1]] = q.steps[key[1]]]
  <2>1. q.steps[key[1]] = new
    BY ONLY <1>1, <1>3, key[1] \in StepIds
  <2> QED
    BY ONLY <1>3, <2>1
<1>5. key[2] = 0 => new = item
  BY DEF new
<1>6. ASSUME key[2] # 0
      PROVE  new = [status |-> step.status, cursor |-> step.cursor,
                    items |-> [step.items EXCEPT ![key[2]] = item]]
  <2>1. new = [step EXCEPT !.items = [@ EXCEPT ![key[2]] = item]]
    BY <1>6 DEF new
  <2>2. step \in [status : Statuses, cursor : Nat, items : Seq(Items(e))]
    BY <1>6 DEF Backgrounds
  <2> HIDE DEF step
  <2> QED
    BY ONLY <2>1, <2>2
<1> QED
  BY <1>3, <1>4, <1>5, <1>6 DEF q
-----------------------------------------------------------------------------
(* The operations.                                                         *)

\* q is p with item at key, and as settled as p.
Advances(e, p, q, key, item) ==
  /\ Settled(e, q) /\ PlanKept(p, q)
  /\ p.status # "completed" /\ q.status # "completed"
  /\ QueryKeys(q) = QueryKeys(p) /\ QueryItem(q, key) = item
  /\ \A k \in QueryKeys(p) : k # key => QueryItem(q, k) = QueryItem(p, k)
  /\ \A id \in StepIds : p.steps[id].status \in Terminal => q.steps[id] = p.steps[id]

\* An item that waits leaves the plan settled.
LEMMA Advancing ==
  ASSUME NEW e, NEW p, Settled(e, p), NEW key \in CurrentKeys(p),
         NEW item \in Items(e), item.pick = QueryItem(p, key).pick, ItemFits(key, item),
         \A n \in DOMAIN item.attempts : IdKept(p, key, item, n),
         QueryKept(QueryItem(p, key), item), item.status \in Waiting,
         NEW q, Replaces(p, q, key, item)
  PROVE  Advances(e, p, q, key, item)
<1>1. q.steps[key[1]].status \notin Terminal
  <2>1. CASE key[2] = 0
    BY <2>1 DEF Replaces, Waiting, Terminal
  <2>2. CASE key[2] # 0
    BY <2>2 DEF Replaces, Waiting, Terminal
  <2> QED
    BY <2>1, <2>2
<1>2. /\ Sound(e, q) /\ PlanKept(p, q) /\ QueryItem(q, key) = item
      /\ QueryKeys(q) = QueryKeys(p)
      /\ \A k \in QueryKeys(p) : k # key => QueryItem(q, k) = QueryItem(p, k)
      /\ \A id \in StepIds : p.steps[id].status \in Terminal => q.steps[id] = p.steps[id]
      /\ q.steps[key[1]].status \notin Terminal => Settled(e, q)
      /\ p.status # "completed"
  BY Replaced
<1>3. key[1] \in StepIds
  BY CurrentOpen DEF Settled
<1>4. q.status # "completed"
  BY <1>1, <1>2, <1>3 DEF Settled, AllTerminal
<1> QED
  BY <1>1, <1>2, <1>4 DEF Advances

\* What a query asks is a text of the evidence.
LEMMA TextTyped ==
  ASSUME NEW e, NEW p, Sound(e, p), NEW key \in QueryKeys(p), NEW n \in Nat
  PROVE  Text(p, key, n) \in Texts(e)
<1>1. key \in AllKeys(e) /\ QueryItem(p, key).pick = PickAt(e, key)
  BY ItemAt DEF Sound
<1>2. key[1] \in Asking /\ PickAt(e, key) \in Picks(e)
  BY <1>1, KeyForm, PickTyped
<1> QED
  BY <1>1, <1>2 DEF Text, Texts

\* A query of the background that is out or waits for a repair: the background is under way.
LEMMA BackgroundBegun ==
  ASSUME NEW e, NEW p, Sound(e, p), NEW key \in CurrentKeys(p), key[2] # 0,
         QueryItem(p, key).status # "planned"
  PROVE  p.steps[key[1]].status = "in_progress"
<1> DEFINE step == p.steps[key[1]]
<1>1. /\ step.cursor = key[2] /\ key[2] \in 1..Len(step.items) /\ CursorHolds(step)
      /\ QueryItem(p, key) = step.items[key[2]]
  BY CurrentOpen
<1>2. ~(step.cursor > Len(step.items)) /\ ~(step.cursor = 1 /\ step.items[1].status = "planned")
  BY <1>1
<1> QED
  BY <1>1, <1>2 DEF CursorHolds

\* _build_current_post_primary_query.
LEMMA QueryIssued ==
  ASSUME NEW e, NEW p, Settled(e, p), NEW key \in CurrentKeys(p),
         QueryItem(p, key).status = "planned"
  PROVE  /\ Advances(e, p, Issuing(p, key), key, WithAttempt(QueryItem(p, key), Text(p, key, 0)))
         /\ Text(p, key, 0) \in Texts(e) /\ QueryItem(p, key).attempts = <<>>
<1> DEFINE item == QueryItem(p, key)
           text == Text(p, key, 0)
           r == WithAttempt(item, text)
           begun == WithItem(p, key, r)
           q == Issuing(p, key)
<1>1. Sound(e, p) /\ p \in Posts(e)
  BY DEF Settled
<1>2. /\ key \in QueryKeys(p) /\ item \in Items(e) /\ ItemFits(key, item) /\ key[1] \in StepIds
      /\ key[2] # 0 => p.steps[key[1]] \in Backgrounds(e) /\ p.steps[key[1]].cursor = key[2]
  BY <1>1, CurrentOpen
<1>3. item.attempts = <<>>
  BY <1>2, PlannedItem DEF ItemFits
<1>4. text \in Texts(e)
  BY <1>1, <1>2, TextTyped
<1>5. text = [step |-> key[1], pick |-> item.pick, repair |-> Len(item.attempts)]
  BY <1>3 DEF Text
<1>6. /\ r \in Items(e) /\ r.pick = item.pick /\ r.status = "in_progress"
      /\ ItemFits(key, r) /\ QueryKept(item, r)
      /\ \A n \in DOMAIN r.attempts : IdKept(p, key, r, n)
  <2> HIDE DEF item, text
  <2> QED
    BY <1>2, <1>4, <1>5, Attempted DEF item
<1> HIDE DEF item, text, r
<1>7. Replaces(p, q, key, r)
  <2>1. /\ begun = [status |-> p.status, plan |-> p.plan, steps |-> begun.steps]
        /\ begun.steps = [p.steps EXCEPT ![key[1]] = begun.steps[key[1]]]
        /\ key[2] = 0 => begun.steps[key[1]] = r
        /\ key[2] # 0 =>
             begun.steps[key[1]] =
               [status |-> p.steps[key[1]].status, cursor |-> p.steps[key[1]].cursor,
                items |-> [p.steps[key[1]].items EXCEPT ![key[2]] = r]]
    BY ONLY <1>1, <1>2, PlacedIs
  <2>2. CASE key[2] = 0
    <3>1. q = begun
      BY <2>2 DEF Issuing, r, item, text
    <3> HIDE DEF begun, q
    <3> QED
      BY <2>1, <2>2, <3>1 DEF Replaces
  <2>3. CASE key[2] # 0
    <3> DEFINE new == [status |-> "in_progress", cursor |-> p.steps[key[1]].cursor,
                       items |-> [p.steps[key[1]].items EXCEPT ![key[2]] = r]]
    <3>1. q = [begun EXCEPT !.steps[key[1]].status = "in_progress"]
      BY <2>3 DEF Issuing, r, item, text
    <3>2. key[1] \in DOMAIN p.steps
      BY <1>1, <1>2 DEF Posts
    <3> HIDE DEF begun, q
    <3>3. q.steps = [begun.steps EXCEPT ![key[1]] = [@ EXCEPT !.status = "in_progress"]]
      BY ONLY <2>1, <3>1
    <3>4. q = [status |-> p.status, plan |-> p.plan, steps |-> q.steps]
      BY ONLY <2>1, <3>1
    <3>5. q.steps[key[1]] = [begun.steps[key[1]] EXCEPT !.status = "in_progress"]
      BY ONLY <2>1, <3>2, <3>3
    <3>6. q.steps[key[1]] = new
      BY ONLY <2>1, <2>3, <3>5
    <3>7. q.steps = [p.steps EXCEPT ![key[1]] = q.steps[key[1]]]
      BY ONLY <2>1, <3>2, <3>3
    <3>8. /\ new.status = "in_progress" /\ new.cursor = key[2]
          /\ new = [status |-> new.status, cursor |-> new.cursor,
                    items |-> [p.steps[key[1]].items EXCEPT ![key[2]] = r]]
      BY <1>2, <2>3
    <3> HIDE DEF new
    <3>9. r.status \in Waiting
      BY <1>6 DEF Waiting
    <3> QED
      BY ONLY <2>3, <3>4, <3>6, <3>7, <3>8, <3>9 DEF Replaces
  <2> QED
    BY <2>2, <2>3
<1>8. Advances(e, p, q, key, r)
  <2>1. r.status \in Waiting /\ r.pick = QueryItem(p, key).pick /\ QueryKept(QueryItem(p, key), r)
    BY <1>6 DEF Waiting, item
  <2> HIDE DEF q
  <2> QED
    BY <1>6, <1>7, <2>1, Advancing
<1> QED
  BY <1>3, <1>4, <1>8 DEF r, item, text

\* A query that is out or waits for a repair is replaced by one that waits.
LEMMA WaitingReplaced ==
  ASSUME NEW e, NEW p, Settled(e, p), NEW key \in CurrentKeys(p),
         QueryItem(p, key).status # "planned", NEW item, item.status \in Waiting \/ key[2] = 0
  PROVE  Replaces(p, WithItem(p, key, item), key, item)
<1> DEFINE q == WithItem(p, key, item)
<1>1. Sound(e, p) /\ p \in Posts(e)
  BY DEF Settled
<1>2. /\ key[1] \in StepIds
      /\ key[2] # 0 => p.steps[key[1]] \in Backgrounds(e) /\ p.steps[key[1]].cursor = key[2]
                       /\ p.steps[key[1]].status = "in_progress"
  BY <1>1, CurrentOpen, BackgroundBegun
<1>3. /\ q = [status |-> p.status, plan |-> p.plan, steps |-> q.steps]
      /\ q.steps = [p.steps EXCEPT ![key[1]] = q.steps[key[1]]]
      /\ key[2] = 0 => q.steps[key[1]] = item
      /\ key[2] # 0 =>
           q.steps[key[1]] =
             [status |-> p.steps[key[1]].status, cursor |-> p.steps[key[1]].cursor,
              items |-> [p.steps[key[1]].items EXCEPT ![key[2]] = item]]
  BY ONLY <1>1, <1>2, PlacedIs
<1> SUFFICES Replaces(p, q, key, item)
  OBVIOUS
<1> HIDE DEF q
<1>4. CASE key[2] = 0
  BY ONLY <1>3, <1>4 DEF Replaces
<1>5. CASE key[2] # 0
  <2> DEFINE new == q.steps[key[1]]
  <2>1. new = [status |-> "in_progress", cursor |-> key[2],
               items |-> [p.steps[key[1]].items EXCEPT ![key[2]] = item]]
    BY ONLY <1>2, <1>3, <1>5
  <2> HIDE DEF new
  <2>2. /\ new.status = "in_progress" /\ new.cursor = key[2]
        /\ new = [status |-> new.status, cursor |-> new.cursor,
                  items |-> [p.steps[key[1]].items EXCEPT ![key[2]] = item]]
    BY ONLY <2>1
  <2>3. item.status \in Waiting
    BY <1>5
  <2> QED
    BY ONLY <1>3, <1>5, <2>2, <2>3 DEF Replaces, new
<1> QED
  BY <1>4, <1>5

\* advance_background.
LEMMA BackgroundAdvanced ==
  ASSUME NEW e, NEW p, Settled(e, p), NEW key \in CurrentKeys(p), key[2] # 0,
         NEW item \in Items(e), item.status \in {"succeeded", "failed"}
  PROVE  Replaces(p, AdvanceBackground(WithItem(p, key, item)), key, item)
<1> DEFINE placed == WithItem(p, key, item)
           q == AdvanceBackground(placed)
           bg == "game_background"
           step == placed.steps[bg]
           ends == IF step.cursor + 1 <= Len(step.items) THEN "in_progress"
                   ELSE Aggregate(step.items)
<1>1. Sound(e, p) /\ p \in Posts(e)
  BY DEF Settled
<1>2. /\ key[1] = bg /\ bg \in StepIds /\ p.steps[bg] \in Backgrounds(e)
      /\ p.steps[bg].cursor = key[2] /\ key[2] \in 1..Len(p.steps[bg].items)
  <2>1. key[1] = bg
    BY <1>1, CurrentOpen
  <2>2. /\ key[1] \in StepIds /\ p.steps[key[1]] \in Backgrounds(e)
        /\ p.steps[key[1]].cursor = key[2] /\ key[2] \in 1..Len(p.steps[key[1]].items)
    BY <1>1, CurrentOpen
  <2> QED
    BY <2>1, <2>2
<1>3. /\ placed = [status |-> p.status, plan |-> p.plan, steps |-> placed.steps]
      /\ placed.steps = [p.steps EXCEPT ![key[1]] = placed.steps[key[1]]]
      /\ placed.steps[key[1]] =
           [status |-> p.steps[key[1]].status, cursor |-> p.steps[key[1]].cursor,
            items |-> [p.steps[key[1]].items EXCEPT ![key[2]] = item]]
  <2>1. key[1] \in StepIds /\ (key[2] # 0 => p.steps[key[1]] \in Backgrounds(e))
    BY <1>2
  <2>2. key[2] # 0
    OBVIOUS
  <2> QED
    BY ONLY <1>1, <2>1, <2>2, PlacedIs
<1>4. q = [placed EXCEPT !.steps[bg] = [step EXCEPT !.cursor = step.cursor + 1, !.status = ends]]
  BY DEF AdvanceBackground
<1>5. bg \in DOMAIN p.steps
  BY <1>1, <1>2 DEF Posts
<1> HIDE DEF placed, q
<1>6. /\ step.cursor = key[2] /\ step.items = [p.steps[bg].items EXCEPT ![key[2]] = item]
      /\ step = [status |-> step.status, cursor |-> step.cursor, items |-> step.items]
      /\ Len(step.items) = Len(p.steps[bg].items)
  <2>1. step = [status |-> p.steps[bg].status, cursor |-> key[2],
                items |-> [p.steps[bg].items EXCEPT ![key[2]] = item]]
    BY ONLY <1>2, <1>3
  <2> HIDE DEF step
  <2>2. /\ step.cursor = key[2] /\ step.items = [p.steps[bg].items EXCEPT ![key[2]] = item]
        /\ step = [status |-> step.status, cursor |-> step.cursor, items |-> step.items]
    BY ONLY <2>1
  <2>3. p.steps[bg].items \in Seq(Items(e))
    BY <1>2 DEF Backgrounds
  <2>4. Len(step.items) = Len(p.steps[bg].items)
    BY ONLY <2>2, <2>3
  <2> QED
    BY <2>2, <2>4
<1> DEFINE new == [status |-> ends, cursor |-> key[2] + 1,
                   items |-> [p.steps[bg].items EXCEPT ![key[2]] = item]]
<1>7. [step EXCEPT !.cursor = step.cursor + 1, !.status = ends] = new
  <2> DEFINE x == [step EXCEPT !.cursor = step.cursor + 1, !.status = ends]
  <2>1. x = [step EXCEPT !.cursor = step.cursor + 1, !.status = ends]
    OBVIOUS
  <2> HIDE DEF x, step, ends
  <2>2. x = [status |-> ends, cursor |-> step.cursor + 1, items |-> step.items]
    BY ONLY <1>6, <2>1
  <2>3. x = new
    BY ONLY <1>6, <2>2
  <2> QED
    BY <2>3 DEF x
<1>8. /\ q = [status |-> p.status, plan |-> p.plan, steps |-> q.steps]
      /\ q.steps = [placed.steps EXCEPT ![bg] = new]
  <2>1. q = [placed EXCEPT !.steps = [@ EXCEPT ![bg] = new]]
    BY <1>4, <1>7
  <2> HIDE DEF new
  <2> QED
    BY ONLY <1>3, <2>1
<1>9. q.steps[key[1]] = new /\ q.steps = [p.steps EXCEPT ![key[1]] = q.steps[key[1]]]
  <2> HIDE DEF new
  <2>1. q.steps = [p.steps EXCEPT ![bg] = new]
    BY ONLY <1>2, <1>3, <1>5, <1>8
  <2>2. q.steps[bg] = new
    BY ONLY <1>5, <2>1
  <2> QED
    BY ONLY <1>2, <2>1, <2>2
<1>10. /\ new.cursor = key[2] + 1
       /\ new.status = IF new.cursor <= Len(p.steps[key[1]].items) THEN "in_progress"
                       ELSE Aggregate(new.items)
       /\ new = [status |-> new.status, cursor |-> new.cursor,
                 items |-> [p.steps[key[1]].items EXCEPT ![key[2]] = item]]
  <2>1. new.items = step.items
    BY <1>6
  <2> QED
    BY <1>2, <1>6, <2>1
<1> HIDE DEF new
<1> QED
  BY <1>8, <1>9, <1>10 DEF Replaces, q, placed

\* _record_repair.
LEMMA QueryRepaired ==
  ASSUME NEW e, NEW p, Settled(e, p), NEW key \in CurrentKeys(p),
         QueryItem(p, key).status = "repair_required", NEW text \in Texts(e),
         text = Text(p, key, Len(QueryItem(p, key).attempts))
  PROVE  Advances(e, p, WithItem(p, key, WithAttempt(QueryItem(p, key), text)), key,
                  WithAttempt(QueryItem(p, key), text))
<1> DEFINE item == QueryItem(p, key)
           r == WithAttempt(item, text)
<1>1. Sound(e, p)
  BY DEF Settled
<1>2. item \in Items(e) /\ ItemFits(key, item)
  BY <1>1, CurrentOpen
<1>3. text = [step |-> key[1], pick |-> item.pick, repair |-> Len(item.attempts)]
  BY DEF Text
<1>4. /\ r \in Items(e) /\ r.pick = item.pick /\ r.status = "in_progress"
      /\ ItemFits(key, r) /\ QueryKept(item, r)
      /\ \A n \in DOMAIN r.attempts : IdKept(p, key, r, n)
  <2> HIDE DEF item
  <2> QED
    BY <1>2, <1>3, Attempted DEF item
<1> HIDE DEF r
<1>5. r.status \in Waiting
  BY <1>4 DEF Waiting
<1>6. Replaces(p, WithItem(p, key, r), key, r)
  BY <1>5, WaitingReplaced
<1> QED
  BY <1>4, <1>5, <1>6, Advancing DEF r

\* What execute makes of a plan: it leaves every query alone, and plans others.
LEMMA ExecuteKeeps ==
  ASSUME NEW e, NEW p, Sound(e, p), Execute(e, p) # Raises
  PROVE  /\ \A k \in QueryKeys(p) : /\ k \in QueryKeys(Execute(e, p))
                                    /\ QueryItem(Execute(e, p), k) = QueryItem(p, k)
         /\ \A k \in QueryKeys(Execute(e, p)) \ QueryKeys(p) :
              QueryItem(Execute(e, p), k).attempts = <<>>
         /\ \A id \in StepIds : p.steps[id].status \in Terminal =>
                                  Execute(e, p).steps[id] = p.steps[id]
<1> DEFINE q == Execute(e, p)
<1>1. Settled(e, q) /\ Carried(e, p, q)
  BY ExecuteFits
<1> HIDE DEF q
<1>2. QueryKeys(q) = {k \in AllKeys(e) : q.steps[k[1]] # Unplanned}
  BY <1>1, KeysOfPlan DEF Settled, Sound
<1>3. QueryKeys(p) = {k \in AllKeys(e) : p.steps[k[1]] # Unplanned}
  BY KeysOfPlan DEF Sound
<1>4. ASSUME NEW k \in QueryKeys(p) PROVE k \in QueryKeys(q) /\ QueryItem(q, k) = QueryItem(p, k)
  <2>1. k[1] \in StepIds
    BY <1>3, KeyForm
  <2>2. q.steps[k[1]] = p.steps[k[1]]
    BY <1>1, <1>3, <2>1 DEF Carried
  <2> QED
    BY <1>2, <1>3, <2>2 DEF QueryItem
<1>5. ASSUME NEW k \in QueryKeys(q) \ QueryKeys(p) PROVE QueryItem(q, k).attempts = <<>>
  <2>1. k \in AllKeys(e) /\ k[1] \in StepIds /\ q.steps[k[1]] # Unplanned
        /\ p.steps[k[1]] = Unplanned
    BY <1>2, <1>3, KeyForm
  <2>2. q.steps[k[1]] = Selection(e)[k[1]]
    BY <1>1, <2>1 DEF Carried
  <2> QED
    BY <2>1, <2>2, FreshItem
<1>6. ASSUME NEW id \in StepIds, p.steps[id].status \in Terminal PROVE q.steps[id] = p.steps[id]
  BY <1>1, <1>6 DEF Carried, Unplanned, Terminal
<1> QED
  BY <1>4, <1>5, <1>6 DEF q

\* What is recorded of the answer a to the query at key.
RecordedAt(e, p, key, a) ==
  LET entered == WithItem(p, key, Answer(QueryItem(p, key), a))
  IN IF Repairable(a) THEN entered
     ELSE Execute(e, IF key[2] = 0 THEN entered ELSE AdvanceBackground(entered))

\* q is p with item at key, carried on.
Grows(e, p, q, key, item) ==
  /\ Settled(e, q) /\ PlanKept(p, q) /\ p.status # "completed"
  /\ key \in QueryKeys(q) /\ QueryItem(q, key) = item
  /\ \A k \in QueryKeys(q) :
       k # key => \/ k \in QueryKeys(p) /\ QueryItem(q, k) = QueryItem(p, k)
                  \/ QueryItem(q, k).attempts = <<>>
  /\ \A id \in StepIds : p.steps[id].status \in Terminal => q.steps[id] = p.steps[id]

\* An answer that matches the query that is out.
Matching(e, p, key, a) ==
  LET item == QueryItem(p, key)
  IN /\ item.status = "in_progress" /\ a \in Events(e) /\ Answering(a)
     /\ a.attempt = Len(item.attempts) - 1 /\ a.sql = LastAttempt(item).sql
     /\ a.qid \notin QueryIds(p)

\* _record_query: the answer is entered and the plan carried on.
LEMMA QueryRecorded ==
  ASSUME NEW e \in Cases, NEW p, Settled(e, p), NEW key \in CurrentKeys(p), NEW a,
         Matching(e, p, key, a), RecordedAt(e, p, key, a) # Raises
  PROVE  Grows(e, p, RecordedAt(e, p, key, a), key, Answer(QueryItem(p, key), a))
<1> DEFINE item == QueryItem(p, key)
           r == Answer(item, a)
           entered == WithItem(p, key, r)
           moved == IF key[2] = 0 THEN entered ELSE AdvanceBackground(entered)
           q == RecordedAt(e, p, key, a)
<1>1. Sound(e, p) /\ a \in Events(e)
  BY DEF Settled, Matching
<1>2. item \in Items(e) /\ ItemFits(key, item) /\ item.status = "in_progress" /\ key \in QueryKeys(p)
  BY <1>1, CurrentOpen DEF Matching
<1>3. /\ r \in Items(e) /\ r.pick = item.pick
      /\ r.status \in IF Repairable(a) THEN {"repair_required"} ELSE {"succeeded", "failed"}
      /\ ItemFits(key, r) /\ QueryKept(item, r)
      /\ \A n \in DOMAIN r.attempts : IdKept(p, key, r, n)
  <2>1. /\ Answering(a) /\ a.attempt = Len(item.attempts) - 1 /\ a.sql = LastAttempt(item).sql
        /\ a.qid \notin QueryIds(p)
    BY DEF Matching
  <2>2. item = QueryItem(p, key)
    OBVIOUS
  <2> HIDE DEF item
  <2> QED
    BY ONLY <1>1, <1>2, <2>1, <2>2, e \in Cases, Answered1
<1> HIDE DEF r
<1>4. CASE Repairable(a)
  <2>1. r.status \in Waiting /\ item.status # "planned"
    BY <1>2, <1>3, <1>4 DEF Waiting
  <2>2. Replaces(p, entered, key, r)
    BY <2>1, WaitingReplaced
  <2> HIDE DEF entered
  <2>3. Advances(e, p, entered, key, r)
    BY <1>3, <2>1, <2>2, Advancing
  <2>4. q = entered
    BY <1>4 DEF RecordedAt, entered, r
  <2> QED
    BY <1>2, <2>3, <2>4 DEF Advances, Grows, r
<1>5. CASE ~Repairable(a)
  <2>1. r.status \in {"succeeded", "failed"} /\ item.status # "planned"
    BY <1>2, <1>3, <1>5
  <2>2. Replaces(p, moved, key, r)
    <3>1. CASE key[2] = 0
      BY <2>1, <3>1, WaitingReplaced
    <3>2. CASE key[2] # 0
      BY <1>3, <2>1, <3>2, BackgroundAdvanced
    <3> QED
      BY <3>1, <3>2
  <2> HIDE DEF moved, entered
  <2>3. /\ Sound(e, moved) /\ PlanKept(p, moved) /\ QueryItem(moved, key) = r
        /\ QueryKeys(moved) = QueryKeys(p)
        /\ \A k \in QueryKeys(p) : k # key => QueryItem(moved, k) = QueryItem(p, k)
        /\ \A id \in StepIds : p.steps[id].status \in Terminal => moved.steps[id] = p.steps[id]
        /\ p.status # "completed"
    BY <1>3, <2>2, Replaced
  <2>4. q = Execute(e, moved)
    BY <1>5 DEF RecordedAt, moved, entered, r
  <2>5. q # Raises
    OBVIOUS
  <2> HIDE DEF q
  <2>6. /\ Settled(e, q)
        /\ \A k \in QueryKeys(moved) : k \in QueryKeys(q) /\ QueryItem(q, k) = QueryItem(moved, k)
        /\ \A k \in QueryKeys(q) \ QueryKeys(moved) : QueryItem(q, k).attempts = <<>>
        /\ \A id \in StepIds : moved.steps[id].status \in Terminal => q.steps[id] = moved.steps[id]
    BY <2>3, <2>4, <2>5, ExecuteFits, ExecuteKeeps
  <2>7. PlanKept(p, q)
    BY <2>3, <2>6 DEF PlanKept
  <2>8. \A k \in QueryKeys(q) :
          k # key => \/ k \in QueryKeys(p) /\ QueryItem(q, k) = QueryItem(p, k)
                     \/ QueryItem(q, k).attempts = <<>>
    BY <2>3, <2>6
  <2>9. \A id \in StepIds : p.steps[id].status \in Terminal => q.steps[id] = p.steps[id]
    BY <2>3, <2>6
  <2> QED
    BY <1>2, <2>3, <2>6, <2>7, <2>8, <2>9 DEF Grows, q, r
<1> QED
  BY <1>4, <1>5
=============================================================================
