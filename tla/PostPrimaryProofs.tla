-------------------------- MODULE PostPrimaryProofs --------------------------
(***************************************************************************)
(* What holds of a run of the post-primary analysis, and of each of its    *)
(* steps: proofs about PostPrimary.                                        *)
(*                                                                         *)
(* The invariant is Inv: the state on disk is Sound for the evidence e,    *)
(* with every attempt in its file and every answer in the log, and so is   *)
(* the state that is about to be saved, which goes on from it.             *)
(***************************************************************************)
EXTENDS PostPrimaryQueryProofs

\* The attempts of a plan are written down: the SQL in its file, the answer in the log.
OnFile(post, file, processed) ==
  \A key \in QueryKeys(post) :
    \A n \in DOMAIN QueryItem(post, key).attempts :
      LET attempt == QueryItem(post, key).attempts[n]
      IN /\ file[<<key, n - 1>>] = attempt.sql
         /\ attempt.event # None => attempt.event \in processed

\* A state that the files agree with.
StateSound(e, s, file, logged) ==
  /\ s \in States(e) /\ RunHolds(s) /\ s.processed \subseteq logged
  /\ s.post # None => Settled(e, s.post) /\ OnFile(s.post, file, s.processed)

\* s goes on from the state before.
Succeeds(before, s) ==
  /\ s.post # None
  /\ before.post # None =>
       /\ PlanKept(before.post, s.post)
       /\ \A id \in StepIds : before.post.steps[id].status \in Terminal =>
                                s.post.steps[id] = before.post.steps[id]
       /\ before.post.status = "completed" => s.post = before.post
  /\ before.processed \subseteq s.processed
  /\ before.evidence # None => s.evidence = before.evidence

\* The report is the one of the completed plan.
ReportSound(s, report) ==
  report # None =>
    s.post # None /\ s.post.status = "completed" /\ report = Evidence(s.post)

SqlFiles(e) == [Keys \X (0..RepairLimit) -> Texts(e) \cup {None}]

FilesTyped(e, file, logged, answers) ==
  /\ file \in SqlFiles(e)
  /\ logged \subseteq Events(e) /\ answers \subseteq Events(e)
  /\ \A a \in answers : Answering(a)

Tickets(e) == [key : Keys, attempt : Nat, sql : Texts(e)]

Ops(e) ==
  [pc : {"idle", "next", "ask", "ticket", "query", "record", "log", "export", "deliver", "write"},
   mem : States(e) \cup {None}, then : {"idle", "next", "ask", "ticket", "deliver"},
   ticket : Tickets(e) \cup {None}, event : Events(e) \cup {None},
   once : BOOLEAN, died : BOOLEAN]

KeyIn(post) == CHOOSE key \in CurrentKeys(post) : TRUE

\* A repair packet is the one that was asked for.
PacketSound(post, a) ==
  /\ post # None /\ KeyIn(post) \in CurrentKeys(post)
  /\ QueryItem(post, KeyIn(post)).status = "repair_required"
  /\ a.attempt = Len(QueryItem(post, KeyIn(post)).attempts)
  /\ a.sql = Text(post, KeyIn(post), a.attempt)

\* What the operation o carries.
OpSound(e, s, file, logged, o) ==
  /\ o \in Ops(e)
  /\ o.pc \in {"ask", "deliver", "log"} => s.post # None
  /\ o.pc \in {"ticket", "query"} => o.ticket \in Tickets(e)
  /\ o.pc \in {"record", "log"} =>
       /\ o.event \in Events(e)
       /\ IF o.event.kind = "repair_submitted" THEN PacketSound(s.post, o.event)
          ELSE Answering(o.event)
  /\ o.pc = "log" =>
       /\ o.event.kind = "repair_submitted" /\ o.event.attempt <= RepairLimit
       /\ file[<<KeyIn(s.post), o.event.attempt>>] = o.event.sql
  /\ o.pc = "write" =>
       /\ StateSound(e, o.mem, file, logged) /\ Succeeds(s, o.mem)
       /\ o.then = "ticket" => o.ticket \in Tickets(e)

Inv ==
  /\ ev \in Cases /\ StateSound(ev, state, sql, events) /\ ReportSound(state, exported)
  /\ FilesTyped(ev, sql, events, kept) /\ OpSound(ev, state, sql, events, op)
-----------------------------------------------------------------------------
\* Before the walk of the first plan nothing is selected.
LEMMA CreatedSound == ASSUME NEW e PROVE Sound(e, Created)
<1>1. \A id \in StepIds : Created.steps[id] = Unplanned
  BY DEF Created
<1>2. /\ Created.steps = [id \in StepIds |-> Created.steps[id]]
      /\ Created.plan = None
  BY DEF Created
<1>3. Shape(e, Created.steps)
  BY <1>1, <1>2 DEF Shape
<1>4. QueryKeys(Created) = {}
  BY <1>1, <1>3, KeysOfPlan, KeyForm
<1>5. CursorFits(Created.steps)
  BY <1>1, Ids DEF CursorFits, Unplanned
<1>6. Ordered(e, Created)
  BY <1>1, <1>2, Ids, Order DEF Ordered
<1> QED
  BY <1>3, <1>4, <1>5, <1>6 DEF Sound, ItemsFit, QueryIdsDiffer

\* Every query of a plan has a place for its files.
LEMMA KeysListed == ASSUME NEW e PROVE AllKeys(e) \subseteq Keys
BY KeyForm DEF Keys, Asking

\* current_query finds the query whose status it answers.
LEMMA CurrentIs ==
  ASSUME CurrentStatus # "none"
  PROVE  CurrentKey \in CurrentKeys(state.post) /\ CurrentStatus = Current.status
BY DEF CurrentStatus, CurrentKey

\* Two fields change: the plan, and whether the run is ready for its report.
LEMMA WithPostIs ==
  ASSUME NEW e, NEW s \in States(e), NEW post
  PROVE  WithPost(s, post) = [ready |-> post.status = "completed", post |-> post,
                              processed |-> s.processed, evidence |-> s.evidence]
<1> DEFINE done == post.status = "completed"
           new == WithPost(s, post)
<1>1. s \in [ready : BOOLEAN, post : Posts(e) \cup {None}, processed : SUBSET Events(e),
             evidence : Reports \cup {None}]
  BY DEF States
<1>2. s = [ready |-> s.ready, post |-> s.post, processed |-> s.processed, evidence |-> s.evidence]
  BY ONLY <1>1
<1>3. new = [s EXCEPT !.post = post, !.ready = done]
  BY Zenon DEF WithPost
<1> HIDE DEF done, new
<1>4. new = [ready |-> done, post |-> post, processed |-> s.processed, evidence |-> s.evidence]
  BY ONLY <1>2, <1>3, Zenon
<1> QED
  BY <1>4, Zenon DEF done, new

\* The state after s, with the plan q and the answers of X.
After(s, q, X) ==
  [ready |-> q.status = "completed", post |-> q, processed |-> s.processed \cup X,
   evidence |-> s.evidence]

\* WithPost and the entry of an answer, together.
LEMMA AfterIs ==
  ASSUME NEW e, NEW s \in States(e), NEW q
  PROVE  /\ WithPost(s, q) = After(s, q, {})
         /\ \A a : [WithPost(s, q) EXCEPT !.processed = @ \cup {a}] = After(s, q, {a})
<1> DEFINE done == q.status = "completed"
<1>1. WithPost(s, q) = [ready |-> done, post |-> q, processed |-> s.processed,
                        evidence |-> s.evidence]
  BY WithPostIs
<1>2. s.processed \cup {} = s.processed
  OBVIOUS
<1>3. After(s, q, {}) = [ready |-> done, post |-> q, processed |-> s.processed,
                         evidence |-> s.evidence]
  BY <1>2, Zenon DEF After
<1>4. ASSUME NEW a
      PROVE  [WithPost(s, q) EXCEPT !.processed = @ \cup {a}] = After(s, q, {a})
  <2> DEFINE w == WithPost(s, q)
             new == [w EXCEPT !.processed = @ \cup {a}]
             more == s.processed \cup {a}
  <2>1. w \in [ready : BOOLEAN, post : {q}, processed : {s.processed}, evidence : {s.evidence}]
    BY <1>1
  <2>2. w.ready = done /\ w.post = q /\ w.processed = s.processed /\ w.evidence = s.evidence
    <3> HIDE DEF done
    <3>1. w.ready = done
      BY <1>1
    <3>2. w.post = q /\ w.processed = s.processed /\ w.evidence = s.evidence
      BY <1>1
    <3> QED
      BY <3>1, <3>2, Zenon
  <2>3. new = [w EXCEPT !.processed = more]
    BY <2>2, Zenon
  <2> HIDE DEF w, new, more
  <2>4. new = [ready |-> w.ready, post |-> w.post, processed |-> more, evidence |-> w.evidence]
    BY ONLY <2>1, <2>3
  <2>5. new = After(s, q, {a})
    BY <2>2, <2>4, Zenon DEF After, more
  <2> QED
    BY <2>5 DEF new, w
<1> QED
  BY <1>1, <1>3, <1>4

\* A plan that is settled, on file and goes on from the one before may be saved.
LEMMA AfterSound ==
  ASSUME NEW e \in Cases, NEW s, NEW file, NEW logged, StateSound(e, s, file, logged),
         NEW q, Settled(e, q), NEW X \in SUBSET Events(e), OnFile(q, file, s.processed \cup X),
         s.post # None =>
           /\ PlanKept(s.post, q)
           /\ \A id \in StepIds : s.post.steps[id].status \in Terminal =>
                                    q.steps[id] = s.post.steps[id]
           /\ s.post.status = "completed" => q = s.post
  PROVE  /\ StateSound(e, After(s, q, X), file, logged \cup X)
         /\ Succeeds(s, After(s, q, X))
<1> DEFINE new == After(s, q, X)
<1>1. /\ new.post = q /\ new.processed = s.processed \cup X /\ new.evidence = s.evidence
      /\ new.ready <=> q.status = "completed"
      /\ new.ready \in BOOLEAN
  BY Zenon DEF After
<1>2. q \in Posts(e) /\ q # None
  BY CasesAssumption DEF Settled
<1>3. s \in [ready : BOOLEAN, post : Posts(e) \cup {None}, processed : SUBSET Events(e),
             evidence : Reports \cup {None}]
  BY DEF StateSound, States
<1>4. new \in States(e)
  <2>1. new = [ready |-> new.ready, post |-> new.post, processed |-> new.processed,
               evidence |-> new.evidence]
    BY <1>1, Zenon DEF After
  <2> QED
    BY <1>1, <1>2, <1>3, <2>1 DEF States
<1>5. RunHolds(new)
  <2>1. s.evidence # None => s.post # None /\ s.post.status = "completed"
    BY DEF StateSound, RunHolds
  <2> QED
    BY <1>1, <1>2, <2>1 DEF RunHolds
<1>6. new.processed \subseteq logged \cup X
  BY <1>1 DEF StateSound
<1>7. Succeeds(s, new)
  BY <1>1, <1>2 DEF Succeeds
<1> QED
  BY <1>1, <1>4, <1>5, <1>6, <1>7 DEF StateSound

\* execute, from the plan on file or the first one.
LEMMA EnsureSound ==
  ASSUME NEW e \in Cases, NEW s, NEW file, NEW logged, StateSound(e, s, file, logged),
         NEW q, q = Execute(e, IF s.post = None THEN Created ELSE s.post), q # Raises
  PROVE  /\ q \in Posts(e) /\ q # None
         /\ StateSound(e, WithPost(s, q), file, logged) /\ Succeeds(s, WithPost(s, q))
<1> DEFINE from == IF s.post = None THEN Created ELSE s.post
<1>1. Sound(e, from)
  BY CreatedSound DEF StateSound, Settled
<1>2. Settled(e, q)
  BY <1>1, ExecuteFits
<1>3. q \in Posts(e) /\ q # None
  BY <1>2, CasesAssumption DEF Settled
<1>4. s.post = None => QueryKeys(from) = {}
  <2>1. \A id \in StepIds : Created.steps[id] = Unplanned
    BY DEF Created
  <2> QED
    BY <2>1, CreatedSound, KeysOfPlan, KeyForm DEF Sound
<1>5. /\ \A k \in QueryKeys(from) : k \in QueryKeys(q) /\ QueryItem(q, k) = QueryItem(from, k)
      /\ \A k \in QueryKeys(q) \ QueryKeys(from) : QueryItem(q, k).attempts = <<>>
      /\ \A id \in StepIds : from.steps[id].status \in Terminal => q.steps[id] = from.steps[id]
  BY <1>1, ExecuteKeeps
<1>6. OnFile(q, file, s.processed \cup {})
  <2>1. \A k \in QueryKeys(from) : s.post # None /\ k \in QueryKeys(s.post)
                                   /\ QueryItem(q, k) = QueryItem(s.post, k)
    BY <1>4, <1>5
  <2>2. s.post # None => OnFile(s.post, file, s.processed)
    BY DEF StateSound
  <2>3. s.processed \cup {} = s.processed
    OBVIOUS
  <2> HIDE DEF from
  <2>4. ASSUME NEW k \in QueryKeys(q), NEW n \in DOMAIN QueryItem(q, k).attempts
        PROVE  /\ file[<<k, n - 1>>] = QueryItem(q, k).attempts[n].sql
               /\ QueryItem(q, k).attempts[n].event # None =>
                    QueryItem(q, k).attempts[n].event \in s.processed
    <3>1. k \in QueryKeys(from)
      BY <1>5
    <3> QED
      BY <2>1, <2>2, <3>1 DEF OnFile
  <2>5. OnFile(q, file, s.processed)
    BY <2>4 DEF OnFile
  <2> QED
    BY <2>3, <2>5
<1>7. ASSUME s.post # None
      PROVE  /\ PlanKept(s.post, q)
             /\ \A id \in StepIds : s.post.steps[id].status \in Terminal =>
                                      q.steps[id] = s.post.steps[id]
             /\ s.post.status = "completed" => q = s.post
  <2>1. Settled(e, s.post)
    BY <1>7 DEF StateSound
  <2>2. \A k \in QueryKeys(s.post) : QueryItem(s.post, k) \in Items(e)
    BY <2>1, ItemAt DEF Settled, Sound
  <2>3. PlanKept(s.post, q)
    BY <1>5, <1>7, <2>2 DEF PlanKept, QueryKept, Items
  <2> QED
    BY <1>5, <1>7, <2>1, <2>3, ExecuteCompleted
<1>8. s \in States(e)
  BY DEF StateSound
<1>9. /\ StateSound(e, After(s, q, {}), file, logged \cup {})
      /\ Succeeds(s, After(s, q, {}))
  BY <1>2, <1>6, <1>7, AfterSound
<1>10. logged \cup {} = logged
  OBVIOUS
<1> QED
  BY <1>3, <1>8, <1>9, <1>10, AfterIs
Writes(file, new, place, text) == new = [file EXCEPT ![place] = text]

\* The SQL of the next attempt gets a file of its own.
LEMMA FileWritten ==
  ASSUME NEW e, NEW s, NEW file, NEW logged, StateSound(e, s, file, logged), s.post # None,
         file \in SqlFiles(e),
         NEW key \in CurrentKeys(s.post), NEW text \in Texts(e), NEW m \in 0..RepairLimit,
         m = Len(QueryItem(s.post, key).attempts),
         NEW new, Writes(file, new, <<key, m>>, text)
  PROVE  /\ new \in SqlFiles(e)
         /\ new[<<key, m>>] = text /\ StateSound(e, s, new, logged)
<1>1. Settled(e, s.post) /\ OnFile(s.post, file, s.processed)
  BY DEF StateSound
<1>2. Sound(e, s.post)
  BY <1>1 DEF Settled
<1>3. key \in Keys /\ key \in QueryKeys(s.post)
  BY <1>2, CurrentOpen, KeysListed
<1>4. <<key, m>> \in Keys \X (0..RepairLimit)
  BY <1>3
<1>5. /\ new \in SqlFiles(e)
      /\ new[<<key, m>>] = text
      /\ \A pn \in Keys \X (0..RepairLimit) : pn # <<key, m>> => new[pn] = file[pn]
  BY <1>4 DEF Writes, SqlFiles
<1>6. ASSUME NEW k \in QueryKeys(s.post), NEW n \in DOMAIN QueryItem(s.post, k).attempts
      PROVE  new[<<k, n - 1>>] = file[<<k, n - 1>>]
  <2> DEFINE item == QueryItem(s.post, k)
  <2>1. item \in Items(e) /\ k \in AllKeys(e)
    BY <1>2, ItemAt DEF Sound
  <2>2. ItemHolds(item)
    BY <1>2 DEF Sound, ItemsFit, ItemFits
  <2>3. item.attempts \in Seq(Attempts(e))
    BY <2>1 DEF Items
  <2>4. n \in 1..Len(item.attempts)
    BY <2>3
  <2>5. n - 1 \in 0..RepairLimit
    BY <2>2, <2>3, <2>4, LimitAssumption DEF ItemHolds
  <2>6. k = key => n - 1 # m
    BY <2>3, <2>4
  <2>7. <<k, n - 1>> # <<key, m>>
    BY <2>6
  <2>8. <<k, n - 1>> \in Keys \X (0..RepairLimit)
    BY <2>1, <2>5, KeysListed
  <2> QED
    BY <1>5, <2>7, <2>8
<1>7. OnFile(s.post, new, s.processed)
  <2>1. ASSUME NEW k \in QueryKeys(s.post), NEW n \in DOMAIN QueryItem(s.post, k).attempts
        PROVE  /\ new[<<k, n - 1>>] = QueryItem(s.post, k).attempts[n].sql
               /\ QueryItem(s.post, k).attempts[n].event # None =>
                    QueryItem(s.post, k).attempts[n].event \in s.processed
    BY <1>1, <1>6, <2>1 DEF OnFile
  <2> QED
    BY <2>1 DEF OnFile
<1> QED
  BY <1>1, <1>5, <1>7 DEF StateSound

\* What of a plan that has changed at one query is on file.
LEMMA OnFileGrows ==
  ASSUME NEW p, NEW q, NEW file, NEW old, NEW new, old \subseteq new, OnFile(p, file, old),
         NEW key,
         \A k \in QueryKeys(q) :
           k # key => \/ k \in QueryKeys(p) /\ QueryItem(q, k) = QueryItem(p, k)
                      \/ QueryItem(q, k).attempts = <<>>,
         \A n \in DOMAIN QueryItem(q, key).attempts :
           /\ file[<<key, n - 1>>] = QueryItem(q, key).attempts[n].sql
           /\ QueryItem(q, key).attempts[n].event # None =>
                QueryItem(q, key).attempts[n].event \in new
  PROVE  OnFile(q, file, new)
<1>1. ASSUME NEW k \in QueryKeys(q), NEW n \in DOMAIN QueryItem(q, k).attempts
      PROVE  /\ file[<<k, n - 1>>] = QueryItem(q, k).attempts[n].sql
             /\ QueryItem(q, k).attempts[n].event # None =>
                  QueryItem(q, k).attempts[n].event \in new
  <2>1. CASE k = key
    BY <1>1, <2>1
  <2>2. CASE k # key
    <3>1. QueryItem(q, k).attempts # <<>>
      BY <1>1
    <3>2. k \in QueryKeys(p) /\ QueryItem(q, k) = QueryItem(p, k)
      BY <2>2, <3>1
    <3> QED
      BY <1>1, <3>2 DEF OnFile
  <2> QED
    BY <2>1, <2>2
<1> QED
  BY <1>1 DEF OnFile

\* The state that the next attempt is saved in.
LEMMA AttemptSaved ==
  ASSUME NEW e \in Cases, NEW s, NEW file, NEW logged, StateSound(e, s, file, logged),
         s.post # None, NEW key \in CurrentKeys(s.post), NEW q, NEW text \in Texts(e),
         NEW item, item = QueryItem(s.post, key),
         Advances(e, s.post, q, key, WithAttempt(item, text)),
         file[<<key, Len(item.attempts)>>] = text, NEW X \in SUBSET Events(e)
  PROVE  /\ StateSound(e, After(s, q, X), file, logged \cup X)
         /\ Succeeds(s, After(s, q, X))
<1> DEFINE new == WithAttempt(item, text)
<1>1. Settled(e, s.post) /\ OnFile(s.post, file, s.processed)
  BY DEF StateSound
<1>2. /\ key \in QueryKeys(s.post) /\ item \in Items(e)
  BY <1>1, CurrentOpen DEF Settled
<1>3. item.attempts \in Seq(Attempts(e))
  BY <1>2 DEF Items
<1>4. new.attempts = Append(item.attempts, Issued(text))
  BY <1>2 DEF WithAttempt, Items
<1>5. /\ QueryItem(q, key) = new /\ QueryKeys(q) = QueryKeys(s.post)
      /\ \A k \in QueryKeys(s.post) : k # key => QueryItem(q, k) = QueryItem(s.post, k)
      /\ Settled(e, q) /\ PlanKept(s.post, q) /\ s.post.status # "completed"
      /\ \A id \in StepIds : s.post.steps[id].status \in Terminal =>
                               q.steps[id] = s.post.steps[id]
  BY DEF Advances
<1> HIDE DEF new
<1>6. ASSUME NEW n \in DOMAIN new.attempts
      PROVE  /\ file[<<key, n - 1>>] = new.attempts[n].sql
             /\ new.attempts[n].event # None => new.attempts[n].event \in s.processed \cup X
  <2>1. CASE n = Len(item.attempts) + 1
    <3>1. new.attempts[n] = Issued(text)
      BY <1>3, <1>4, <2>1
    <3>2. n - 1 = Len(item.attempts)
      BY <1>3, <2>1
    <3> QED
      BY <3>1, <3>2 DEF Issued
  <2>2. CASE n # Len(item.attempts) + 1
    <3>1. n \in DOMAIN item.attempts /\ new.attempts[n] = item.attempts[n]
      BY <1>3, <1>4, <2>2
    <3> QED
      BY <1>1, <1>2, <3>1 DEF OnFile
  <2> QED
    BY <2>1, <2>2
<1>7. OnFile(q, file, s.processed \cup X)
  BY <1>1, <1>5, <1>6, OnFileGrows
<1> QED
  BY <1>5, <1>7, AfterSound

\* The state that an answer is saved in.
LEMMA AnswerSaved ==
  ASSUME NEW e \in Cases, NEW s, NEW file, NEW logged, StateSound(e, s, file, logged),
         s.post # None, NEW key \in CurrentKeys(s.post), NEW a,
         Matching(e, s.post, key, a), NEW q, q = RecordedAt(e, s.post, key, a), q # Raises
  PROVE  /\ StateSound(e, After(s, q, {a}), file, logged \cup {a})
         /\ Succeeds(s, After(s, q, {a}))
<1> DEFINE item == QueryItem(s.post, key)
           new == Answer(item, a)
<1>1. Settled(e, s.post) /\ OnFile(s.post, file, s.processed)
  BY DEF StateSound
<1>2. /\ key \in QueryKeys(s.post) /\ item \in Items(e) /\ ItemFits(key, item)
  BY <1>1, CurrentOpen DEF Settled
<1>3. item.attempts \in Seq(Attempts(e))
  BY <1>2 DEF Items
<1>4. Grows(e, s.post, q, key, new)
  BY <1>1, QueryRecorded
<1>5. a \in Events(e)
  BY DEF Matching
<1>6. /\ new \in Items(e) /\ Len(new.attempts) = Len(item.attempts) /\ new.attempts # <<>>
      /\ \A n \in 1..(Len(item.attempts) - 1) : new.attempts[n] = item.attempts[n]
      /\ LastAttempt(new).sql = LastAttempt(item).sql /\ LastAttempt(new).event = a
  BY <1>2, Answered1 DEF Matching
<1> HIDE DEF item, new
<1>7. new.attempts \in Seq(Attempts(e))
  BY <1>6 DEF Items
<1>8. Len(item.attempts) \in 1..Len(item.attempts)
  BY <1>3, <1>6, <1>7
<1>9. ASSUME NEW n \in DOMAIN new.attempts
      PROVE  /\ file[<<key, n - 1>>] = new.attempts[n].sql
             /\ new.attempts[n].event # None => new.attempts[n].event \in s.processed \cup {a}
  <2>1. n \in 1..Len(item.attempts)
    BY <1>6, <1>7
  <2>2. file[<<key, n - 1>>] = item.attempts[n].sql
        /\ (item.attempts[n].event # None => item.attempts[n].event \in s.processed)
    BY <1>1, <1>2, <1>3, <2>1 DEF OnFile, item
  <2>3. CASE n = Len(item.attempts)
    BY <1>6, <2>2, <2>3 DEF LastAttempt
  <2>4. CASE n # Len(item.attempts)
    <3>1. n \in 1..(Len(item.attempts) - 1)
      BY <1>3, <2>1, <2>4
    <3>2. new.attempts[n] = item.attempts[n]
      BY <1>6, <3>1
    <3> QED
      BY <2>2, <3>2
  <2> QED
    BY <2>3, <2>4
<1>10. OnFile(q, file, s.processed \cup {a})
  <2>1. /\ QueryItem(q, key) = new
        /\ \A k \in QueryKeys(q) :
             k # key => \/ k \in QueryKeys(s.post) /\ QueryItem(q, k) = QueryItem(s.post, k)
                        \/ QueryItem(q, k).attempts = <<>>
    BY <1>4 DEF Grows
  <2> QED
    BY <1>1, <1>9, <2>1, OnFileGrows
<1> QED
  BY <1>4, <1>5, <1>10, AfterSound DEF Grows

\* The ticket of a query that was asked.
LEMMA TicketTyped ==
  ASSUME NEW e, NEW q, Settled(e, q), NEW key \in QueryKeys(q),
         QueryItem(q, key).attempts # <<>>
  PROVE  Ticket(q, key) \in Tickets(e)
<1> DEFINE item == QueryItem(q, key)
<1>1. item \in Items(e) /\ key \in Keys
  BY ItemAt, KeysListed DEF Settled, Sound
<1>2. item.attempts \in Seq(Attempts(e)) /\ item.attempts # <<>>
  BY <1>1 DEF Items
<1> HIDE DEF item
<1>3. Len(item.attempts) \in DOMAIN item.attempts /\ Len(item.attempts) - 1 \in Nat
  BY <1>2
<1>4. LastAttempt(item) \in Attempts(e)
  BY <1>2, <1>3 DEF LastAttempt
<1>5. LastAttempt(item).sql \in Texts(e)
  BY <1>4 DEF Attempts
<1> QED
  BY <1>1, <1>3, <1>5 DEF Ticket, Tickets, item

\* A finite set of numbers has a greatest one.
LEMMA MaxOf ==
  ASSUME NEW n \in Nat, NEW S \in SUBSET (1..n), S # {}
  PROVE  Max(S) \in S /\ \A j \in S : j <= Max(S)
<1> DEFINE Less == OpToRel(<, Nat)
           T == {n - i : i \in S}
<1>1. T \subseteq Nat /\ T # {}
  OBVIOUS
<1>2. IsWellFoundedOn(Less, Nat)
  BY NatLessThanWellFounded
<1> HIDE DEF T, Less
<1>3. PICK x \in T : \A y \in T : <<y, x>> \notin Less
  BY <1>1, <1>2, WFMin
<1>4. \A y \in T : ~(y < x)
  BY <1>1, <1>3 DEF Less, OpToRel
<1>5. PICK i \in S : x = n - i
  BY <1>3 DEF T
<1>6. \A j \in S : i >= j
  BY <1>4, <1>5 DEF T
<1> QED
  BY <1>5, <1>6 DEF Max

\* The report of a completed plan.
LEMMA EvidenceTyped ==
  ASSUME NEW e, NEW post, Settled(e, post), post.status = "completed"
  PROVE  Evidence(post) \in Reports /\ Evidence(post) # None
<1>1. Sound(e, post) /\ post \in Posts(e) /\ AllTerminal(post.steps)
  BY DEF Settled
<1>2. \A k \in DOMAIN StepOrder : post.steps[StepOrder[k]].status \in Terminal
  BY <1>1, Order, Ids DEF AllTerminal
<1>3. post.plan \in Plans \cup {None}
  BY <1>1 DEF Posts
<1> DEFINE step == post.steps["secondary"]
           asked == {n \in DOMAIN step.attempts : step.attempts[n].qid # None}
           last == IF "attempts" \in DOMAIN step THEN LastQueryId(step) ELSE None
<1>4. ASSUME "attempts" \in DOMAIN step
      PROVE  step \in Items(e)
  <2>1. step # Unplanned /\ "secondary" \in StepIds
    BY <1>4, Ids DEF Unplanned
  <2>2. Fits(e, step, Selection(e)["secondary"])
    BY <1>1, <2>1 DEF Sound, Shape
  <2>3. ~Queue(Selection(e)["secondary"])
    BY <2>1, KindsById
  <2>4. ~Plain(Selection(e)["secondary"])
    BY <1>4, <2>2, StepFields
  <2> QED
    BY <2>2, <2>3, <2>4 DEF Fits
<1>5. last \in Nat \cup {None}
  <2>1. ASSUME "attempts" \in DOMAIN step, asked # {}
        PROVE  step.attempts[Max(asked)].qid \in Nat
    <3>1. step.attempts \in Seq(Attempts(e))
      BY <1>4, <2>1 DEF Items
    <3>2. Len(step.attempts) \in Nat /\ asked \in SUBSET (1..Len(step.attempts))
      <4>1. Len(step.attempts) \in Nat /\ DOMAIN step.attempts = 1..Len(step.attempts)
        <5> HIDE DEF step
        <5> QED
          BY ONLY <3>1
      <4>2. asked \subseteq DOMAIN step.attempts
        OBVIOUS
      <4> HIDE DEF asked, step
      <4> QED
        BY ONLY <4>1, <4>2
    <3> HIDE DEF step
    <3>3. Max(asked) \in asked
      <4> HIDE DEF asked
      <4> QED
        BY <2>1, <3>2, MaxOf
    <3>4. /\ Max(asked) \in DOMAIN step.attempts
          /\ step.attempts[Max(asked)].qid # None
      <4> DEFINE m == Max(asked)
      <4>1. m \in asked
        BY <3>3
      <4> HIDE DEF m
      <4>2. m \in DOMAIN step.attempts /\ step.attempts[m].qid # None
        BY <4>1
      <4> QED
        BY <4>2 DEF m
    <3>5. step.attempts[Max(asked)] \in Attempts(e)
      <4> HIDE DEF asked
      <4> QED
        BY <3>1, <3>4
    <3> QED
      BY <3>4, <3>5 DEF Attempts
  <2> QED
    BY <2>1 DEF LastQueryId
<1> HIDE DEF last
<1>6. Evidence(post) = [verdicts |-> [k \in DOMAIN StepOrder |-> post.steps[StepOrder[k]].status],
                        plan |-> post.plan, secondary |-> last]
  BY DEF Evidence, last
<1>7. Evidence(post) \in Reports
  BY <1>2, <1>3, <1>5, <1>6 DEF Reports
<1> QED
  BY <1>7, NoneAssumption
-----------------------------------------------------------------------------
(* The invariant.                                                          *)

\* It holds before the first call.
LEMMA InitInv == Init => Inv
<1> SUFFICES ASSUME Init PROVE Inv
  OBVIOUS
<1>1. ev \in Cases /\ state = [ready |-> FALSE, post |-> None, processed |-> {}, evidence |-> None]
  BY DEF Init
<1>2. StateSound(ev, state, sql, events)
  BY <1>1 DEF StateSound, States, RunHolds
<1>3. ReportSound(state, exported)
  BY DEF Init, ReportSound
<1>4. FilesTyped(ev, sql, events, kept)
  BY DEF Init, FilesTyped, PathId, SqlFiles
<1>5. OpSound(ev, state, sql, events, op)
  BY DEF Init, OpSound, Ops, NoOp
<1> QED
  BY <1>1, <1>2, <1>3, <1>4, <1>5 DEF Inv

\* A step that leaves everything but the operation as it is.
LEMMA OperationSteps ==
  ASSUME Inv, UNCHANGED <<ev, state, files, kept>>, OpSound(ev, state, sql, events, op')
  PROVE  Inv'
<1>1. ev' = ev /\ state' = state /\ sql' = sql /\ events' = events /\ exported' = exported
      /\ kept' = kept
  BY DEF files
<1> QED
  BY <1>1 DEF Inv

\* An operation that carries nothing.
LEMMA NothingCarried ==
  ASSUME NEW e, NEW s, NEW file, NEW logged, NEW o \in Ops(e),
         o.pc \in {"idle", "next", "export"}
  PROVE  OpSound(e, s, file, logged, o)
BY DEF OpSound
PCs == {"idle", "next", "ask", "ticket", "query", "record", "log", "export", "deliver", "write"}

\* An operation goes on at another step.
LEMMA OpGoes ==
  ASSUME NEW e, NEW o \in Ops(e), NEW pc \in PCs, NEW new, new = [o EXCEPT !.pc = pc]
  PROVE  /\ new \in Ops(e) /\ new.pc = pc /\ new.then = o.then /\ new.ticket = o.ticket
         /\ new.event = o.event
BY DEF Ops, PCs

\* A new one begins, or the old one has ended.
LEMMA OpBegins ==
  ASSUME NEW e, NEW new
  PROVE  /\ new = NoOp \/ new = [NoOp EXCEPT !.died = TRUE] =>
              new \in Ops(e) /\ new.pc = "idle" /\ new.then = "idle"
         /\ \A pc \in PCs : new = [NoOp EXCEPT !.pc = pc] =>
              new \in Ops(e) /\ new.pc = pc /\ new.then = "idle"
         /\ \A a \in Events(e) :
              \/ new = [NoOp EXCEPT !.pc = "record", !.event = a]
              \/ new = [NoOp EXCEPT !.pc = "record", !.event = a, !.once = TRUE]
              => new \in Ops(e) /\ new.pc = "record" /\ new.then = "idle" /\ new.event = a
<1>1. ASSUME new = NoOp \/ new = [NoOp EXCEPT !.died = TRUE]
      PROVE  new \in Ops(e) /\ new.pc = "idle" /\ new.then = "idle"
  <2>1. CASE new = NoOp
    BY <2>1 DEF NoOp, Ops
  <2>2. CASE new = [NoOp EXCEPT !.died = TRUE]
    BY <2>2 DEF NoOp, Ops
  <2> QED
    BY <1>1, <2>1, <2>2
<1>2. ASSUME NEW pc \in PCs, new = [NoOp EXCEPT !.pc = pc]
      PROVE  new \in Ops(e) /\ new.pc = pc /\ new.then = "idle"
  BY <1>2 DEF NoOp, Ops, PCs
<1>3. ASSUME NEW a \in Events(e),
             \/ new = [NoOp EXCEPT !.pc = "record", !.event = a]
             \/ new = [NoOp EXCEPT !.pc = "record", !.event = a, !.once = TRUE]
      PROVE  new \in Ops(e) /\ new.pc = "record" /\ new.then = "idle" /\ new.event = a
  BY <1>3 DEF NoOp, Ops
<1> QED
  BY <1>1, <1>2, <1>3

\* The steps that begin, end or route an operation.
LEMMA RoutingInv ==
  ASSUME Inv,
         \/ RunInvestigation \/ ExportNow \/ ResumeQuery \/ ExecutionTicket
         \/ RepairTicket \/ QueueComplete \/ RecordReplay \/ RecordRefuses
  PROVE  Inv'
<1> DEFINE Carries == OpSound(ev, state, sql, events, op')
<1>1. UNCHANGED <<ev, state, files, kept>>
  BY Zenon DEF RunInvestigation, ExportNow, ResumeQuery, ExecutionTicket, RepairTicket,
               QueueComplete, RecordReplay, RecordRefuses
<1>2. op \in Ops(ev)
  BY DEF Inv, OpSound
<1>3. CASE RunInvestigation \/ ExportNow
  <2>1. op' = [NoOp EXCEPT !.pc = "next"] \/ op' = [NoOp EXCEPT !.pc = "export"]
    BY <1>3 DEF RunInvestigation, ExportNow
  <2>2. op' \in Ops(ev) /\ op'.pc \in {"next", "export"}
    BY <2>1, OpBegins DEF PCs
  <2>3. Carries
    BY <2>2, NothingCarried
  <2> QED
    BY <1>1, <2>3, OperationSteps
<1>4. CASE RepairTicket \/ RecordReplay \/ RecordRefuses
  <2>1. op' = NoOp
    BY <1>4 DEF RepairTicket, RecordReplay, RecordRefuses, End
  <2>2. Carries
    BY <2>1, OpBegins, NothingCarried
  <2> QED
    BY <1>1, <2>2, OperationSteps
<1>5. CASE ResumeQuery
  <2> DEFINE t == Ticket(state.post, CurrentKey)
  <2>1. /\ op.pc = "ask" /\ CurrentStatus = "in_progress"
        /\ op' = [op EXCEPT !.pc = "ticket", !.ticket = t]
    BY <1>5 DEF ResumeQuery, At
  <2>2. state.post # None /\ Settled(ev, state.post)
    BY <2>1 DEF Inv, OpSound, StateSound
  <2>3. /\ CurrentKey \in CurrentKeys(state.post)
        /\ QueryItem(state.post, CurrentKey).status = "in_progress"
    BY <2>1, CurrentIs DEF Current
  <2>4. /\ CurrentKey \in QueryKeys(state.post)
        /\ ItemHolds(QueryItem(state.post, CurrentKey))
    BY <2>2, <2>3, CurrentOpen DEF Settled, ItemFits
  <2>5. QueryItem(state.post, CurrentKey).attempts # <<>>
    BY <2>3, <2>4 DEF ItemHolds
  <2>6. t \in Tickets(ev)
    BY <2>2, <2>4, <2>5, TicketTyped
  <2> HIDE DEF t
  <2>7. op' = [op EXCEPT !.pc = "ticket", !.ticket = t]
    BY <2>1
  <2>8. op' \in Ops(ev) /\ op'.pc = "ticket" /\ op'.ticket = t
    BY ONLY <1>2, <2>6, <2>7 DEF Ops
  <2>9. Carries
    BY <2>6, <2>8 DEF OpSound
  <2> QED
    BY <1>1, <2>9, OperationSteps
<1>6. CASE ExecutionTicket
  <2>1. op.pc = "ticket" /\ op.ticket \in Tickets(ev)
    BY <1>6 DEF ExecutionTicket, At, Inv, OpSound
  <2>2. ASSUME op' = NoOp
        PROVE  Carries
    BY <2>2, OpBegins, NothingCarried
  <2>3. ASSUME op' = [op EXCEPT !.pc = "query"]
        PROVE  Carries
    <3>1. op' \in Ops(ev) /\ op'.pc = "query" /\ op'.ticket \in Tickets(ev)
      BY <1>2, <2>1, <2>3, OpGoes DEF PCs
    <3> QED
      BY <3>1 DEF OpSound
  <2>4. Carries
    BY <1>6, <2>2, <2>3 DEF ExecutionTicket, Goto, End
  <2> QED
    BY <1>1, <2>4, OperationSteps
<1>7. CASE QueueComplete
  <2>1. op' = [op EXCEPT !.pc = "export"]
    BY <1>7 DEF QueueComplete, Goto
  <2>2. op' \in Ops(ev) /\ op'.pc = "export"
    BY <1>2, <2>1, OpGoes DEF PCs
  <2>3. Carries
    BY <2>2, NothingCarried
  <2> QED
    BY <1>1, <2>3, OperationSteps
<1> QED
  BY <1>3, <1>4, <1>5, <1>6, <1>7

\* A repair packet for the query that waits for one.
LEMMA SubmitRepairInv == ASSUME Inv, SubmitRepair PROVE Inv'
<1> DEFINE key == CurrentKey
           text == Text(state.post, key, Len(Current.attempts))
           a == [kind |-> "repair_submitted", step |-> key[1],
                 attempt |-> Len(Current.attempts), sql |-> text, qid |-> None, body |-> None]
<1>1. /\ Active /\ Current.status = "repair_required"
      /\ op' = [NoOp EXCEPT !.pc = "record", !.event = a]
      /\ UNCHANGED <<ev, state, files, kept>>
  BY DEF SubmitRepair
<1>2. state.post # None /\ Settled(ev, state.post) /\ key \in CurrentKeys(state.post)
  BY <1>1, CurrentIs DEF Active, Waiting, Inv, StateSound
<1>3. /\ key \in QueryKeys(state.post) /\ key \in AllKeys(ev)
      /\ Current \in Items(ev)
  BY <1>2, CurrentOpen DEF Settled, Current
<1>4. Len(Current.attempts) \in Nat
  <2>1. Current.attempts \in Seq(Attempts(ev))
    BY <1>3 DEF Items
  <2> HIDE DEF key
  <2> QED
    BY <2>1
<1>5. text \in Texts(ev)
  BY <1>2, <1>3, <1>4, TextTyped DEF Settled
<1>6. key[1] \in Asking
  BY <1>3, KeyForm
<1>7. a \in Events(ev)
  <2> HIDE DEF text, key
  <2> QED
    BY <1>4, <1>5, <1>6 DEF Events
<1>8. PacketSound(state.post, a)
  BY <1>1, <1>2, Zenon DEF PacketSound, KeyIn, CurrentKey, Current
<1>9. a.kind = "repair_submitted"
  OBVIOUS
<1> HIDE DEF a
<1>10. op' \in Ops(ev) /\ op'.pc = "record" /\ op'.event = a
  BY <1>1, <1>7, OpBegins
<1>11. OpSound(ev, state, sql, events, op')
  BY <1>7, <1>8, <1>9, <1>10 DEF OpSound
<1> QED
  BY <1>1, <1>11, OperationSteps

\* An answer that was kept is recorded at last.
LEMMA RecordLateInv == ASSUME Inv, RecordLate PROVE Inv'
<1>1. PICK a \in kept : op' = [NoOp EXCEPT !.pc = "record", !.event = a, !.once = TRUE]
  BY DEF RecordLate
<1>2. UNCHANGED <<ev, state, files, kept>>
  BY DEF RecordLate
<1>3. a \in Events(ev) /\ Answering(a)
  BY DEF Inv, FilesTyped
<1>4. op' \in Ops(ev) /\ op'.pc = "record" /\ op'.event = a
  BY <1>1, <1>3, OpBegins
<1>5. OpSound(ev, state, sql, events, op')
  BY <1>3, <1>4 DEF OpSound, Answering
<1> QED
  BY <1>2, <1>5, OperationSteps

\* DView answers the ticket.
LEMMA DViewAnswersInv ==
  ASSUME Inv, NEW kind \in {"query_returned", "query_error"}, NEW body,
         body \in IF kind = "query_returned" THEN {"valid", "invalid"} ELSE ev.classes,
         DViewAnswers(kind, body)
  PROVE  Inv'
<1>1. PICK qid \in FreshIds :
        op' = [op EXCEPT !.pc = "record", !.ticket = None, !.event = FromDView(kind, body, qid)]
  BY DEF DViewAnswers
<1>2. op.pc = "query" /\ UNCHANGED <<ev, state, files, kept>>
  BY DEF DViewAnswers, At
<1> DEFINE a == FromDView(kind, body, qid)
<1>3. op \in Ops(ev) /\ op.ticket \in Tickets(ev)
  BY <1>2 DEF Inv, OpSound
<1>4. qid \in Nat
  BY DEF FreshIds
<1>5. op.ticket.key[1] \in Asking
  BY <1>3 DEF Tickets, Keys, Asking
<1>6. a \in Events(ev)
  BY <1>3, <1>4, <1>5 DEF FromDView, Events, Tickets
<1>7. a.kind = kind /\ a.qid = qid /\ a.body = body
  BY DEF FromDView
<1>8. Answering(a)
  BY <1>4, <1>7 DEF Answering
<1> HIDE DEF a
<1>9. op' = [op EXCEPT !.pc = "record", !.ticket = None, !.event = a]
  BY <1>1 DEF a
<1>10. op' \in Ops(ev) /\ op'.pc = "record" /\ op'.event = a
  BY ONLY <1>3, <1>6, <1>9 DEF Ops
<1>11. OpSound(ev, state, sql, events, op')
  BY <1>6, <1>8, <1>10 DEF OpSound, Answering
<1> QED
  BY <1>2, <1>11, OperationSteps

\* A state is sound with more answers in the log.
LEMMA MoreLogged ==
  ASSUME NEW e, NEW s, NEW file, NEW logged, StateSound(e, s, file, logged), NEW more,
         s.processed \subseteq more
  PROVE  StateSound(e, s, file, more)
BY DEF StateSound

\* Nothing moves but the operation, which saves a state that goes on from this one.
LEMMA SavingSteps ==
  ASSUME Inv, UNCHANGED <<ev, state, exported, kept>>,
         FilesTyped(ev, sql', events', kept), StateSound(ev, state, sql', events'),
         OpSound(ev, state, sql', events', op')
  PROVE  Inv'
BY DEF Inv

\* An operation that saves a state.
LEMMA OpSaving ==
  ASSUME NEW e, NEW s, NEW file, NEW logged, NEW o \in Ops(e), o.pc = "write",
         StateSound(e, o.mem, file, logged), Succeeds(s, o.mem),
         o.then = "ticket" => o.ticket \in Tickets(e)
  PROVE  OpSound(e, s, file, logged, o)
BY DEF OpSound

\* The state is replaced as a whole.
LEMMA WriteStateInv == ASSUME Inv, WriteState PROVE Inv'
<1>1. op.pc = "write" /\ state' = op.mem /\ UNCHANGED <<ev, files, kept>>
  BY DEF WriteState, At
<1>2. ev' = ev /\ sql' = sql /\ events' = events /\ exported' = exported /\ kept' = kept
  BY <1>1 DEF files
<1>3. /\ op \in Ops(ev) /\ StateSound(ev, op.mem, sql, events) /\ Succeeds(state, op.mem)
      /\ op.then = "ticket" => op.ticket \in Tickets(ev)
  BY <1>1 DEF Inv, OpSound
<1>4. ReportSound(op.mem, exported)
  BY <1>3 DEF Inv, ReportSound, Succeeds
<1>5. OpSound(ev, op.mem, sql, events, op')
  <2>1. CASE op.then = "idle"
    <3>1. op' = NoOp
      BY <2>1 DEF WriteState, End
    <3> QED
      BY <3>1, OpBegins, NothingCarried
  <2>2. CASE op.then # "idle"
    <3>1. op' = [op EXCEPT !.pc = op.then, !.mem = None, !.then = "idle"]
      BY <2>2 DEF WriteState
    <3>2. op' \in Ops(ev) /\ op'.pc = op.then /\ op'.ticket = op.ticket
      BY ONLY <1>3, <3>1 DEF Ops
    <3>3. op.then \in {"idle", "next", "ask", "ticket", "deliver"} /\ op.mem.post # None
      BY <1>3 DEF Ops, Succeeds
    <3> QED
      BY <1>3, <3>2, <3>3 DEF OpSound
  <2> QED
    BY <2>1, <2>2
<1> QED
  BY <1>1, <1>2, <1>3, <1>4, <1>5 DEF Inv

\* execute, at the start of each round and before the export.
LEMMA EnsureInv == ASSUME Inv, Ensure PROVE Inv'
<1> DEFINE q == Execute(ev, IF state.post = None THEN Created ELSE state.post)
           pc == IF At("next") THEN "ask" ELSE "deliver"
           Carries == OpSound(ev, state, sql, events, op')
<1>1. Ensured(q, pc) /\ UNCHANGED <<ev, state, files, kept>>
  BY DEF Ensure
<1>2. op \in Ops(ev) /\ ev \in Cases /\ StateSound(ev, state, sql, events)
  BY DEF Inv, OpSound
<1>3. pc \in {"ask", "deliver"}
  OBVIOUS
<1> HIDE DEF pc, q
<1>4. CASE q = Raises
  <2>1. op' = NoOp
    BY <1>1, <1>4 DEF Ensured, End
  <2>2. Carries
    BY <2>1, OpBegins, NothingCarried
  <2> QED
    BY <1>1, <2>2, OperationSteps
<1>5. CASE q # Raises /\ q = state.post
  <2>1. op' = [op EXCEPT !.pc = pc]
    BY <1>1, <1>5 DEF Ensured, Goto
  <2>2. op' \in Ops(ev) /\ op'.pc = pc
    BY <1>2, <1>3, <2>1, OpGoes DEF PCs
  <2>3. state.post # None
    BY <1>2, <1>5, EnsureSound DEF q
  <2>4. Carries
    BY <1>3, <2>2, <2>3 DEF OpSound
  <2> QED
    BY <1>1, <2>4, OperationSteps
<1>6. CASE q # Raises /\ q # state.post
  <2> DEFINE s == WithPost(state, q)
  <2>1. op' = [op EXCEPT !.pc = "write", !.mem = s, !.then = pc]
    BY <1>1, <1>6 DEF Ensured, Commit
  <2>2. StateSound(ev, s, sql, events) /\ Succeeds(state, s)
    BY <1>2, <1>6, EnsureSound DEF q
  <2>3. s \in States(ev)
    BY <2>2 DEF StateSound
  <2> HIDE DEF s
  <2>4. op' \in Ops(ev) /\ op'.pc = "write" /\ op'.mem = s /\ op'.then = pc
    BY ONLY <1>2, <1>3, <2>1, <2>3 DEF Ops
  <2>5. Carries
    BY <1>3, <2>2, <2>4, OpSaving
  <2> QED
    BY <1>1, <2>5, OperationSteps
<1> QED
  BY <1>4, <1>5, <1>6

\* The first attempt of a query: its SQL file, then the state.
LEMMA IssueQueryInv == ASSUME Inv, IssueQuery PROVE Inv'
<1> DEFINE key == CurrentKey
           item == QueryItem(state.post, key)
           q == Issuing(state.post, key)
           text == Text(state.post, key, 0)
           s == WithPost(state, q)
           t == Ticket(q, key)
<1>1. /\ op.pc = "ask" /\ CurrentStatus = "planned"
      /\ sql' = [sql EXCEPT ![<<key, 0>>] = Text(q, key, 0)]
      /\ op' = [op EXCEPT !.pc = "write", !.mem = s, !.then = "ticket", !.ticket = t]
      /\ UNCHANGED <<ev, state, events, exported, kept>>
  BY DEF IssueQuery, At, PathId
<1>2. /\ op \in Ops(ev) /\ ev \in Cases /\ StateSound(ev, state, sql, events)
      /\ FilesTyped(ev, sql, events, kept) /\ state.post # None
  BY <1>1 DEF Inv, OpSound
<1>3. Settled(ev, state.post) /\ state \in States(ev)
  BY <1>2 DEF StateSound
<1>4. key \in CurrentKeys(state.post) /\ item.status = "planned"
  BY <1>1, CurrentIs DEF Current
<1>5. /\ Advances(ev, state.post, q, key, WithAttempt(item, text)) /\ text \in Texts(ev)
      /\ item.attempts = <<>>
  BY <1>3, <1>4, QueryIssued
<1>6. /\ QueryItem(q, key) = WithAttempt(item, text) /\ Settled(ev, q)
      /\ key \in QueryKeys(q) /\ key \in QueryKeys(state.post) /\ item \in Items(ev)
      /\ QueryItem(q, key).pick = item.pick
  BY <1>3, <1>4, <1>5, CurrentOpen DEF Advances, PlanKept, QueryKept, Settled
<1>7. QueryItem(q, key).attempts # <<>>
  <2>1. WithAttempt(item, text).attempts = Append(item.attempts, Issued(text))
    BY <1>6 DEF WithAttempt, Items
  <2>2. item.attempts \in Seq(Attempts(ev))
    BY <1>6 DEF Items
  <2>3. Append(item.attempts, Issued(text)) # <<>>
    <3> HIDE DEF item, text
    <3> QED
      BY <2>2
  <2> QED
    BY <1>6, <2>1, <2>3
<1>8. t \in Tickets(ev)
  BY <1>6, <1>7, TicketTyped
<1>9. Text(q, key, 0) = text
  BY <1>6 DEF Text
<1> DEFINE new == sql'
<1>10. /\ new \in SqlFiles(ev)
       /\ new[<<key, 0>>] = text /\ StateSound(ev, state, new, events)
  <2>1. 0 \in 0..RepairLimit /\ 0 = Len(item.attempts)
    BY <1>5, LimitAssumption
  <2>2. Writes(sql, new, <<key, 0>>, text)
    BY <1>1, <1>9 DEF Writes
  <2> HIDE DEF new, text
  <2> QED
    BY <1>2, <1>4, <1>5, <2>1, <2>2, FileWritten DEF FilesTyped
<1>11. StateSound(ev, s, new, events) /\ Succeeds(state, s)
  <2>1. new[<<key, Len(item.attempts)>>] = text
    BY <1>5, <1>10
  <2>2. /\ StateSound(ev, After(state, q, {}), new, events \cup {})
        /\ Succeeds(state, After(state, q, {}))
    <3> HIDE DEF new, text, q, item, key
    <3>1. item = QueryItem(state.post, key)
      BY DEF item
    <3> QED
      BY <1>2, <1>4, <1>5, <1>10, <2>1, <3>1, AttemptSaved
  <2>3. events \cup {} = events
    OBVIOUS
  <2> QED
    BY <1>3, <2>2, <2>3, AfterIs
<1>12. s \in States(ev)
  BY <1>11 DEF StateSound
<1>13. op' \in Ops(ev) /\ op'.pc = "write" /\ op'.mem = s /\ op'.ticket = t
  <2> HIDE DEF s, t
  <2>1. op' = [op EXCEPT !.pc = "write", !.mem = s, !.then = "ticket", !.ticket = t]
    BY <1>1
  <2> QED
    BY ONLY <1>2, <1>8, <1>12, <2>1 DEF Ops
<1>14. OpSound(ev, state, new, events, op')
  BY <1>8, <1>11, <1>13, OpSaving
<1>15. FilesTyped(ev, new, events, kept)
  BY <1>2, <1>10 DEF FilesTyped
<1> QED
  BY <1>1, <1>10, <1>14, <1>15, SavingSteps

\* The SQL file of a repair.
LEMMA RecordRepairInv == ASSUME Inv, RecordRepair PROVE Inv'
<1> DEFINE key == CurrentKey
           item == QueryItem(state.post, key)
           a == op.event
           new == sql'
<1>1. /\ op.pc = "record" /\ RepairRecordable(a)
      /\ sql' = [sql EXCEPT ![<<key, a.attempt>>] = a.sql]
      /\ op' = [op EXCEPT !.pc = "log"]
      /\ UNCHANGED <<ev, state, events, exported, kept>>
  BY DEF RecordRepair, AtRecord, At, PathId, Goto
<1>2. /\ op \in Ops(ev) /\ ev \in Cases /\ StateSound(ev, state, sql, events)
      /\ FilesTyped(ev, sql, events, kept) /\ a \in Events(ev)
      /\ a.kind = "repair_submitted" /\ PacketSound(state.post, a)
  BY <1>1 DEF Inv, OpSound, RepairRecordable
<1>3. key = KeyIn(state.post)
  BY Zenon DEF CurrentKey, KeyIn
<1>4. /\ state.post # None /\ key \in CurrentKeys(state.post)
      /\ a.attempt = Len(item.attempts) /\ a.attempt \in 0..RepairLimit /\ a.sql \in Texts(ev)
  BY <1>1, <1>2, <1>3, LimitAssumption DEF PacketSound, RepairRecordable, Events
<1>5. /\ new \in SqlFiles(ev)
      /\ new[<<key, a.attempt>>] = a.sql /\ StateSound(ev, state, new, events)
  <2>1. Writes(sql, new, <<key, a.attempt>>, a.sql)
    BY <1>1 DEF Writes
  <2> HIDE DEF new
  <2> QED
    BY <1>2, <1>4, <2>1, FileWritten DEF FilesTyped
<1>6. op' \in Ops(ev) /\ op'.pc = "log" /\ op'.event = a
  BY <1>1, <1>2, OpGoes DEF PCs
<1>7. OpSound(ev, state, new, events, op')
  BY <1>2, <1>3, <1>4, <1>5, <1>6 DEF OpSound
<1>8. FilesTyped(ev, new, events, kept)
  BY <1>2, <1>5 DEF FilesTyped
<1> QED
  BY <1>1, <1>5, <1>7, <1>8, SavingSteps

\* The event file of a repair, then the state.
LEMMA LogRepairInv == ASSUME Inv, LogRepair PROVE Inv'
<1> DEFINE key == CurrentKey
           item == QueryItem(state.post, key)
           a == op.event
           q == WithItem(state.post, key, WithAttempt(item, a.sql))
           s == [WithPost(state, q) EXCEPT !.processed = @ \cup {a}]
           new == events \cup {a}
<1>1. /\ op.pc = "log" /\ events' = new
      /\ op' = [op EXCEPT !.pc = "write", !.mem = s, !.then = "next"]
      /\ UNCHANGED <<ev, state, sql, exported, kept>>
  BY DEF LogRepair, At, Commit, Current
<1>2. /\ op \in Ops(ev) /\ ev \in Cases /\ StateSound(ev, state, sql, events)
      /\ FilesTyped(ev, sql, events, kept) /\ a \in Events(ev)
      /\ a.kind = "repair_submitted" /\ PacketSound(state.post, a)
      /\ sql[<<KeyIn(state.post), a.attempt>>] = a.sql
  BY <1>1 DEF Inv, OpSound
<1>3. key = KeyIn(state.post)
  BY Zenon DEF CurrentKey, KeyIn
<1>4. /\ state.post # None /\ key \in CurrentKeys(state.post)
      /\ item.status = "repair_required" /\ a.attempt = Len(item.attempts)
      /\ a.sql \in Texts(ev) /\ a.sql = Text(state.post, key, Len(item.attempts))
  BY <1>2, <1>3 DEF PacketSound, Events
<1>5. Settled(ev, state.post) /\ state \in States(ev)
  BY <1>2, <1>4 DEF StateSound
<1>6. Advances(ev, state.post, q, key, WithAttempt(item, a.sql))
  BY <1>4, <1>5, QueryRepaired
<1>7. s = After(state, q, {a})
  <2> HIDE DEF q, a
  <2> QED
    BY <1>5, AfterIs
<1>8. StateSound(ev, s, sql, new) /\ Succeeds(state, s)
  <2>1. sql[<<key, Len(item.attempts)>>] = a.sql
    BY <1>2, <1>3, <1>4
  <2>2. item = QueryItem(state.post, key) /\ {a} \in SUBSET Events(ev)
    BY <1>2
  <2> HIDE DEF key, item, q, s, a
  <2>3. /\ StateSound(ev, After(state, q, {a}), sql, events \cup {a})
        /\ Succeeds(state, After(state, q, {a}))
    BY <1>2, <1>4, <1>6, <2>1, <2>2, AttemptSaved
  <2> QED
    BY <1>7, <2>3
<1>9. s \in States(ev)
  BY <1>8 DEF StateSound
<1>10. op' \in Ops(ev) /\ op'.pc = "write" /\ op'.mem = s /\ op'.then = "next"
  <2> HIDE DEF s
  <2>1. op' = [op EXCEPT !.pc = "write", !.mem = s, !.then = "next"]
    BY <1>1
  <2> QED
    BY ONLY <1>2, <1>9, <2>1 DEF Ops
<1>11. OpSound(ev, state, sql, new, op')
  BY <1>8, <1>10, OpSaving
<1>12. StateSound(ev, state, sql, new) /\ FilesTyped(ev, sql, new, kept)
  BY <1>2 DEF StateSound, FilesTyped
<1> QED
  BY <1>1, <1>11, <1>12, SavingSteps

\* An answer: the event file, then the state.
LEMMA RecordQueryInv == ASSUME Inv, RecordQuery PROVE Inv'
<1> DEFINE key == CurrentKey
           a == op.event
           q == Recorded(a)
           s == [WithPost(state, q) EXCEPT !.processed = @ \cup {a}]
           new == events \cup {a}
<1>1. /\ op.pc = "record" /\ QueryRecordable(a) /\ Saved(q)
      /\ UNCHANGED <<ev, state, sql, exported, kept>>
  BY DEF RecordQuery, AtRecord, At
<1>2. /\ op \in Ops(ev) /\ ev \in Cases /\ StateSound(ev, state, sql, events)
      /\ FilesTyped(ev, sql, events, kept) /\ a \in Events(ev) /\ Answering(a)
  BY <1>1 DEF Inv, OpSound, QueryRecordable
<1>3. state.post # None /\ key \in CurrentKeys(state.post)
  BY <1>1, CurrentIs DEF QueryRecordable, Active, Waiting
<1>4. Matching(ev, state.post, key, a)
  BY <1>1, <1>2 DEF QueryRecordable, Matches, Matching, Current
<1>5. q = RecordedAt(ev, state.post, key, a)
  BY Zenon DEF Recorded, RecordedAt, Entered, MovedOn, Current
<1>6. CASE q = Raises
  <2>1. op' = NoOp /\ events' = events
    BY <1>1, <1>6 DEF Saved, End
  <2>2. OpSound(ev, state, sql, events, op')
    BY <2>1, OpBegins, NothingCarried
  <2> QED
    BY <1>1, <1>2, <2>1, <2>2, SavingSteps
<1>7. CASE q # Raises
  <2> DEFINE pc == AfterRecord
  <2>1. events' = new /\ op' = [op EXCEPT !.pc = "write", !.mem = s, !.then = pc]
    BY <1>1, <1>7 DEF Saved, Commit
  <2>2. state \in States(ev)
    BY <1>2 DEF StateSound
  <2>3. s = After(state, q, {a})
    BY <2>2, AfterIs
  <2>4. StateSound(ev, s, sql, new) /\ Succeeds(state, s)
    <3> HIDE DEF key, q, s, a
    <3>1. /\ StateSound(ev, After(state, q, {a}), sql, events \cup {a})
          /\ Succeeds(state, After(state, q, {a}))
      BY <1>2, <1>3, <1>4, <1>5, <1>7, AnswerSaved
    <3> QED
      BY <2>3, <3>1
  <2>5. s \in States(ev)
    BY <2>4 DEF StateSound
  <2>6. pc \in {"idle", "next"}
    BY DEF AfterRecord
  <2>7. op' \in Ops(ev) /\ op'.pc = "write" /\ op'.mem = s /\ op'.then = pc
    <3> HIDE DEF s, pc
    <3>1. op' = [op EXCEPT !.pc = "write", !.mem = s, !.then = pc]
      BY <2>1
    <3> QED
      BY ONLY <1>2, <2>5, <2>6, <3>1 DEF Ops
  <2>8. OpSound(ev, state, sql, new, op')
    BY <2>4, <2>6, <2>7, OpSaving
  <2>9. StateSound(ev, state, sql, new) /\ FilesTyped(ev, sql, new, kept)
    BY <1>2 DEF StateSound, FilesTyped
  <2> QED
    BY <1>1, <2>1, <2>8, <2>9, SavingSteps
<1> QED
  BY <1>6, <1>7

\* The report, then the state that names it.
LEMMA ExportInv == ASSUME Inv, Export PROVE Inv'
<1>1. /\ op.pc = "deliver" /\ UNCHANGED <<ev, state, sql, events, kept>>
  BY DEF Export, At
<1>2. /\ op \in Ops(ev) /\ ev \in Cases /\ StateSound(ev, state, sql, events)
      /\ FilesTyped(ev, sql, events, kept) /\ state.post # None /\ ReportSound(state, exported)
  BY <1>1 DEF Inv, OpSound
<1>3. CASE ~(MayExport(state.post) /\ state.evidence = None)
  <2>1. op' = NoOp /\ exported' = exported
    BY <1>3, Zenon DEF Export, End
  <2>2. OpSound(ev, state, sql, events, op')
    BY <2>1, OpBegins, NothingCarried
  <2> QED
    BY <1>1, <1>2, <2>1, <2>2 DEF Inv
<1>4. CASE MayExport(state.post) /\ state.evidence = None
  <2> DEFINE s == [state EXCEPT !.evidence = Evidence(state.post)]
  <2>1. /\ exported' = Evidence(state.post)
        /\ op' = [op EXCEPT !.pc = "write", !.mem = s, !.then = "idle"]
    BY <1>4, Zenon DEF Export, Commit
  <2>2. /\ state \in States(ev) /\ Settled(ev, state.post) /\ state.post.status = "completed"
        /\ RunHolds(state)
    BY <1>2, <1>4 DEF StateSound, MayExport
  <2>3. Evidence(state.post) \in Reports
    BY <2>2, EvidenceTyped
  <2>4. /\ s \in States(ev) /\ s.post = state.post /\ s.processed = state.processed
        /\ s.ready = state.ready
    <3> DEFINE r == Evidence(state.post)
    <3>1. r \in Reports
      BY <2>3
    <3> HIDE DEF r
    <3>2. s = [state EXCEPT !.evidence = r]
      BY DEF r
    <3> HIDE DEF s
    <3> QED
      BY ONLY <2>2, <3>1, <3>2 DEF States
  <2>5. StateSound(ev, s, sql, events)
    <3>1. state.ready
      BY <1>2, <2>2 DEF RunHolds
    <3> HIDE DEF s
    <3>2. RunHolds(s)
      BY <2>2, <2>4, <3>1 DEF RunHolds
    <3> QED
      BY <1>2, <2>4, <3>2 DEF StateSound
  <2>6. Succeeds(state, s)
    <3>1. \A k \in QueryKeys(state.post) : QueryItem(state.post, k) \in Items(ev)
      BY <2>2, ItemAt DEF Settled, Sound
    <3>2. PlanKept(state.post, state.post)
      BY <3>1 DEF PlanKept, QueryKept, Items
    <3> HIDE DEF s
    <3> QED
      BY <1>2, <1>4, <2>4, <3>2 DEF Succeeds
  <2>7. op' \in Ops(ev) /\ op'.pc = "write" /\ op'.mem = s /\ op'.then = "idle"
    <3> HIDE DEF s
    <3> QED
      BY ONLY <1>2, <2>1, <2>4 DEF Ops
  <2>8. OpSound(ev, state, sql, events, op')
    BY <2>5, <2>6, <2>7, OpSaving
  <2>9. ReportSound(state, exported')
    BY <1>2, <2>1, <2>2 DEF ReportSound
  <2> QED
    BY <1>1, <1>2, <2>8, <2>9 DEF Inv
<1> QED
  BY <1>3, <1>4

\* The operation dies, with an answer in hand or not.
LEMMA DeathInv == ASSUME Inv, AnswerKept \/ Fail PROVE Inv'
<1>1. /\ op' = [NoOp EXCEPT !.died = TRUE] /\ UNCHANGED <<ev, state, sql, exported>>
      /\ events' \in {events, events \cap state.processed}
      /\ \/ kept' = kept
         \/ /\ op.pc = "record" /\ op.event.kind # "repair_submitted"
            /\ kept' = kept \cup {op.event}
  BY DEF AnswerKept, Fail, files, At
<1>2. OpSound(ev, state, sql, events', op')
  BY <1>1, OpBegins, NothingCarried
<1>3. StateSound(ev, state, sql, events')
  BY <1>1, MoreLogged DEF Inv, StateSound
<1>4. FilesTyped(ev, sql, events', kept')
  <2>1. op.pc = "record" /\ op.event.kind # "repair_submitted" =>
          op.event \in Events(ev) /\ Answering(op.event)
    BY DEF Inv, OpSound
  <2>2. FilesTyped(ev, sql, events, kept)
    BY DEF Inv
  <2> QED
    BY <1>1, <2>1, <2>2 DEF FilesTyped
<1> QED
  BY <1>1, <1>2, <1>3, <1>4 DEF Inv

\* Every step keeps the invariant.
LEMMA NextInv == Inv /\ [Next]_vars => Inv'
<1> SUFFICES ASSUME Inv, [Next]_vars PROVE Inv'
  OBVIOUS
<1>1. CASE UNCHANGED vars
  BY <1>1 DEF vars, files, Inv
<1>2. CASE RunInvestigation \/ ExportNow
  BY <1>2, RoutingInv
<1>3. CASE SubmitRepair
  BY <1>3, SubmitRepairInv
<1>4. CASE RecordLate
  BY <1>4, RecordLateInv
<1>5. CASE Local
  BY <1>5, RoutingInv, WriteStateInv, EnsureInv, IssueQueryInv, RecordQueryInv, RecordRepairInv,
     LogRepairInv, ExportInv DEF Local
<1>6. CASE Answers
  BY <1>6, DViewAnswersInv DEF Answers, DViewReturns, DViewFails
<1>7. CASE AnswerKept \/ Fail
  BY <1>7, DeathInv
<1> QED
  BY <1>1, <1>2, <1>3, <1>4, <1>5, <1>6, <1>7 DEF Next

\* Whatever queries are asked and answered, refused, repaired or recorded late, and
\* wherever operations die: the state on disk is settled for the evidence, every
\* attempt is in its file and every answer in the log, a report is the completed
\* plan's, and a state that is about to be saved goes on from the one on disk.
THEOREM Invariant == Spec => []Inv
<1> QED
  BY InitInv, NextInv, PTL DEF Spec
-----------------------------------------------------------------------------
(* What the runs check.                                                    *)

\* The loader finds every attempt in its files, and each query's status to be that of
\* its last attempt.
LEMMA LoadsItems ==
  ASSUME NEW e, NEW s, NEW file, NEW logged, StateSound(e, s, file, logged), s.post # None,
         NEW id
  PROVE  ItemLoads(s.post, id, file, logged, s.processed)
<1>1. Sound(e, s.post) /\ OnFile(s.post, file, s.processed) /\ s.processed \subseteq logged
  BY DEF StateSound, Settled
<1>2. ASSUME NEW key \in QueryKeys(s.post)
      PROVE  /\ ItemHolds(QueryItem(s.post, key))
             /\ \A n \in DOMAIN QueryItem(s.post, key).attempts :
                  AttemptHolds(key, QueryItem(s.post, key).attempts[n], n, file, logged,
                               s.processed)
  <2> DEFINE item == QueryItem(s.post, key)
  <2>1. ItemFits(key, item)
    BY <1>1 DEF Sound, ItemsFit
  <2>2. ASSUME NEW n \in DOMAIN item.attempts
        PROVE  AttemptHolds(key, item.attempts[n], n, file, logged, s.processed)
    <3>1. AnswerFits(key, item.pick, n, item.attempts[n])
      BY <2>1 DEF ItemFits
    <3>2. /\ file[<<key, n - 1>>] = item.attempts[n].sql
          /\ item.attempts[n].event # None => item.attempts[n].event \in s.processed
      BY <1>1 DEF OnFile
    <3> HIDE DEF item
    <3>3. item.attempts[n].event # None => item.attempts[n].event \in logged
      BY <1>1, <3>2
    <3> QED
      BY <3>1, <3>2, <3>3 DEF AttemptHolds, AnswerFits, PathId
  <2> QED
    BY <2>1, <2>2 DEF ItemFits
<1> QED
  BY <1>2 DEF ItemLoads

\* The strict loader accepts the state on disk after every step: a death at any
\* point, a repair or a late answer leaves nothing that it rejects.
THEOREM StateLoadsAlways == Spec => []StateLoads
<1>1. Inv => StateLoads
  <2> SUFFICES ASSUME Inv PROVE StateContract(state)
    BY DEF StateLoads
  <2>1. StateSound(ev, state, sql, events) /\ RunHolds(state)
    BY DEF Inv, StateSound
  <2>2. ASSUME state.post # None
        PROVE  /\ Identity(state.post)
               /\ SecondarySelected(ev, state.post) /\ BackgroundSelected(ev, state.post)
               /\ ErrorCodeSelected(ev, state.post) /\ OverlapSelected(ev, state.post)
               /\ SecondaryLoads(state.post, sql, events, state.processed)
               /\ BackgroundItemsLoad(state.post, sql, events, state.processed)
               /\ ErrorCodeLoads(state.post, sql, events, state.processed)
               /\ OverlapLoads(state.post, sql, events, state.processed)
               /\ QueryIdsDiffer(state.post)
               /\ PlanHolds(ev, state.post)
    <3>1. Settled(ev, state.post)
      BY <2>1, <2>2 DEF StateSound
    <3>2. Identity(state.post) /\ PlanHolds(ev, state.post) /\ QueryIdsDiffer(state.post)
      BY <3>1, IdentityHolds, PlanHoldsSettled DEF Settled, Sound
    <3>3. /\ SecondaryLoads(state.post, sql, events, state.processed)
          /\ BackgroundItemsLoad(state.post, sql, events, state.processed)
          /\ ErrorCodeLoads(state.post, sql, events, state.processed)
          /\ OverlapLoads(state.post, sql, events, state.processed)
      BY <2>1, <2>2, LoadsItems DEF SecondaryLoads, BackgroundItemsLoad, ErrorCodeLoads,
                                    OverlapLoads
    <3>4. /\ Selected(ev, state.post.steps, StepOrder[2], StepOrder[1])
          /\ Selected(ev, state.post.steps, StepOrder[3], StepOrder[2])
          /\ Selected(ev, state.post.steps, StepOrder[5], StepOrder[3])
          /\ Selected(ev, state.post.steps, StepOrder[6], StepOrder[5])
      <4>1. \A k \in {2, 3, 5, 6} :
              Selected(ev, state.post.steps, StepOrder[k], StepOrder[IF k = 5 THEN 3 ELSE k - 1])
        BY <3>1, SelectedSettled
      <4> QED
        BY <4>1
    <3>5. /\ SecondarySelected(ev, state.post) /\ BackgroundSelected(ev, state.post)
          /\ OverlapSelected(ev, state.post)
      BY <3>1, <3>4, Order, SelectorsAnswer
         DEF SecondarySelected, BackgroundSelected, OverlapSelected, Settled, Sound, CursorFits
    <3>6. ErrorCodeSelected(ev, state.post)
      <4>1. Chosen(ev, state.post.steps, "error_code")
              = ErrorCode(ev, state.post.steps["game_background"])
        BY ErrorCodeInBudget DEF Chosen, Selections
      <4> QED
        BY <3>1, <3>4, <4>1, Order, SelectorsAnswer DEF ErrorCodeSelected, Selected
    <3> QED
      BY <3>2, <3>3, <3>5, <3>6
  <2> QED
    BY <2>1, <2>2 DEF StateContract
<1> QED
  BY <1>1, Invariant, PTL

\* Every step that was selected, was selected for what the evidence alone asks for.
THEOREM PlanIsFrozen == Spec => []PlanFromEvidence
<1>1. Inv => PlanFromEvidence
  <2> SUFFICES ASSUME Inv, state.post # None, NEW id \in Begun(state.post.steps)
               PROVE  Asked(state.post.steps[id]) = Frozen[id]
    BY DEF PlanFromEvidence
  <2>1. Sound(ev, state.post)
    BY DEF Inv, StateSound, Settled
  <2>2. id \in StepIds /\ state.post.steps[id] # Unplanned
    BY DEF Begun
  <2>3. Fits(ev, state.post.steps[id], Selection(ev)[id])
    BY <2>1, <2>2 DEF Sound, Shape
  <2>4. Asked(state.post.steps[id]) = Asked(Selection(ev)[id])
    BY <2>3, AskedFits
  <2> QED
    BY <2>2, <2>4 DEF Frozen
<1> QED
  BY <1>1, Invariant, PTL

\* Six queries at most, each asked three times at most, and every answer is one to the
\* very attempt that it stands in.
THEOREM AnswersAskedFor == Spec => []AnswersAsked
<1>1. Inv => AnswersAsked
  <2> SUFFICES ASSUME Inv, state.post # None
               PROVE  /\ Cardinality(QueryKeys(state.post)) <= 6
                      /\ \A key \in QueryKeys(state.post) :
                           LET item == QueryItem(state.post, key)
                           IN /\ Len(item.attempts) <= RepairLimit + 1
                              /\ \A n \in DOMAIN item.attempts :
                                   LET e == item.attempts[n].event
                                   IN e # None =>
                                        /\ e.sql = Text(state.post, key, n - 1)
                                        /\ e.attempt = n - 1 /\ e \in state.processed
    BY DEF AnswersAsked
  <2>1. Sound(ev, state.post) /\ OnFile(state.post, sql, state.processed)
    BY DEF Inv, StateSound, Settled
  <2>2. Cardinality(QueryKeys(state.post)) <= 6
    BY <2>1, KeysFew
  <2>3. ASSUME NEW key \in QueryKeys(state.post)
        PROVE  /\ Len(QueryItem(state.post, key).attempts) <= RepairLimit + 1
               /\ \A n \in DOMAIN QueryItem(state.post, key).attempts :
                    LET e == QueryItem(state.post, key).attempts[n].event
                    IN e # None => /\ e.sql = Text(state.post, key, n - 1)
                                   /\ e.attempt = n - 1 /\ e \in state.processed
    <3> DEFINE item == QueryItem(state.post, key)
    <3>1. ItemFits(key, item)
      BY <2>1 DEF Sound, ItemsFit
    <3>2. Len(item.attempts) <= RepairLimit + 1
      <4>1. item.attempts = <<>> \/ Len(item.attempts) <= RepairLimit + 1
        BY <3>1 DEF ItemFits, ItemHolds
      <4> HIDE DEF item
      <4> QED
        BY <4>1, LimitAssumption
    <3>3. ASSUME NEW n \in DOMAIN item.attempts, item.attempts[n].event # None
          PROVE  /\ item.attempts[n].event.sql = Text(state.post, key, n - 1)
                 /\ item.attempts[n].event.attempt = n - 1
                 /\ item.attempts[n].event \in state.processed
      <4>1. AnswerFits(key, item.pick, n, item.attempts[n])
        BY <3>1 DEF ItemFits
      <4>2. item.attempts[n].event \in state.processed
        BY <2>1, <3>3 DEF OnFile
      <4>3. Text(state.post, key, n - 1) = [step |-> key[1], pick |-> item.pick, repair |-> n - 1]
        BY DEF Text
      <4> HIDE DEF item
      <4> QED
        BY <3>3, <4>1, <4>2, <4>3 DEF AnswerFits
    <3> QED
      BY <3>2, <3>3
  <2> QED
    BY <2>2, <2>3
<1> QED
  BY <1>1, Invariant, PTL

\* What a plan has come to whose steps are all terminal.
LEMMA AllAnswered ==
  ASSUME NEW e, NEW post, Settled(e, post), post.status = "completed"
  PROVE  /\ \A key \in QueryKeys(post) : QueryItem(post, key).status \in {"succeeded", "failed"}
         /\ BackgroundItems(post.steps["game_background"]) # <<>> =>
              post.steps["game_background"].status = Aggregate(post.steps["game_background"].items)
<1> DEFINE bg == post.steps["game_background"]
<1>1. Sound(e, post) /\ AllTerminal(post.steps)
  BY DEF Settled
<1>2. "game_background" \in StepIds /\ bg.status \in Terminal
  BY <1>1, Ids DEF AllTerminal
<1>3. ASSUME "items" \in DOMAIN bg
      PROVE  /\ \A i \in DOMAIN bg.items : bg.items[i].status \in {"succeeded", "failed"}
             /\ bg.status = Aggregate(bg.items)
  <2>1. CursorHolds(bg)
    BY <1>1, <1>3 DEF Sound, CursorFits
  <2>2. bg # Unplanned
    BY <1>3 DEF Unplanned
  <2>3. Fits(e, bg, Selection(e)["game_background"])
    BY <1>1, <1>2, <2>2 DEF Sound, Shape
  <2>4. bg \in Backgrounds(e)
    <3> DEFINE chosen == Selection(e)["game_background"]
    <3>1. ~Plain(chosen) /\ ~Single(chosen)
      <4> HIDE DEF bg, chosen
      <4> QED
        BY <1>3, <2>3, StepFields DEF chosen
    <3> QED
      BY <2>3, <3>1 DEF Fits
  <2>5. bg.items \in Seq(Items(e)) /\ bg.cursor \in Nat
    BY <2>4 DEF Backgrounds
  <2> HIDE DEF bg
  <2>6. bg.cursor > Len(bg.items) /\ bg.status = Aggregate(bg.items)
    BY <1>2, <2>1, <2>5 DEF CursorHolds, Terminal
  <2>7. \A i \in DOMAIN bg.items : i < bg.cursor
    BY <2>5, <2>6
  <2> QED
    BY <2>1, <2>6, <2>7 DEF CursorHolds
<1>4. ASSUME NEW key \in QueryKeys(post)
      PROVE  QueryItem(post, key).status \in {"succeeded", "failed"}
  <2>1. /\ QueryItem(post, key) \in Items(e) /\ key \in AllKeys(e)
        /\ key[2] # 0 => /\ key[1] = "game_background" /\ bg \in Backgrounds(e)
                         /\ bg.items \in Seq(Items(e)) /\ key[2] \in 1..Len(bg.items)
    BY <1>1, ItemAt DEF Sound
  <2>2. CASE key[2] = 0
    <3>1. QueryItem(post, key).status \in Terminal
      BY <1>1, <2>1, <2>2, KeyForm DEF QueryItem, AllTerminal
    <3>2. ItemHolds(QueryItem(post, key))
      BY <1>1 DEF Sound, ItemsFit, ItemFits
    <3> QED
      BY <3>1, <3>2 DEF ItemHolds, Terminal
  <2>3. CASE key[2] # 0
    <3>1. "items" \in DOMAIN bg /\ key[2] \in DOMAIN bg.items
      BY <2>1, <2>3 DEF Backgrounds
    <3> QED
      BY <1>3, <2>1, <2>3, <3>1 DEF QueryItem
  <2> QED
    BY <2>2, <2>3
<1>5. BackgroundItems(bg) # <<>> => bg.status = Aggregate(bg.items)
  BY <1>3 DEF BackgroundItems
<1> QED
  BY <1>4, <1>5

\* The report that was exported is that of the completed plan, with nothing left open.
THEOREM ReportIsFaithful == Spec => []ReportFaithful
<1>1. Inv => ReportFaithful
  <2> SUFFICES ASSUME Inv, exported # None
               PROVE  /\ state.post.status = "completed" /\ exported = Evidence(state.post)
                      /\ \A key \in QueryKeys(state.post) :
                           QueryItem(state.post, key).status \in {"succeeded", "failed"}
                      /\ BackgroundItems(state.post.steps["game_background"]) # <<>> =>
                           (state.post.steps["game_background"].status = "succeeded" <=>
                            \E i \in DOMAIN state.post.steps["game_background"].items :
                              state.post.steps["game_background"].items[i].status = "succeeded")
    BY DEF ReportFaithful
  <2>1. /\ state.post # None /\ state.post.status = "completed"
        /\ exported = Evidence(state.post)
    BY DEF Inv, ReportSound
  <2>2. Settled(ev, state.post)
    BY <2>1 DEF Inv, StateSound
  <2>3. /\ \A key \in QueryKeys(state.post) :
             QueryItem(state.post, key).status \in {"succeeded", "failed"}
        /\ BackgroundItems(state.post.steps["game_background"]) # <<>> =>
             state.post.steps["game_background"].status
             = Aggregate(state.post.steps["game_background"].items)
    BY <2>1, <2>2, AllAnswered
  <2>4. \A items : Aggregate(items) = "succeeded" <=>
                     \E i \in DOMAIN items : items[i].status = "succeeded"
    BY DEF Aggregate
  <2> QED
    BY <2>1, <2>3, <2>4
<1> QED
  BY <1>1, Invariant, PTL

\* What the selectors make of a dominant game: see OneStory.
LEMMA DominantStory ==
  ASSUME NEW e, Dominant(Counterfactual(e))
  PROVE  LET cf == Counterfactual(e)
             secondary == Selection(e)["secondary"]
             background == Selection(e)["game_background"]
             errorCode == Selection(e)["error_code"]
         IN /\ Single(secondary) => secondary.pick.parent = cf.game
            /\ Queue(background) =>
                 /\ cf.game > 0
                 /\ \A i \in DOMAIN background.items : background.items[i].pick.game = cf.game
            /\ cf.game > 0 /\ Single(errorCode) => errorCode.pick.focus \in {0, cf.game}
<1> DEFINE cf == Counterfactual(e)
           secondary == Selection(e)["secondary"]
           background == Selection(e)["game_background"]
           errorCode == Selection(e)["error_code"]
<1>1. /\ secondary = Secondary(e, cf) /\ background = Background(e, cf)
      /\ errorCode = Enhancement(Enhancements(e), "error_code")
  BY SelectionIs DEF EnabledModules
<1>2. ASSUME Single(secondary)
      PROVE  secondary.pick.parent = cf.game
  <2>1. secondary.status = "planned"
    BY <1>2, KindFields
  <2>2. \A reason : Skip(reason).status # "planned"
    BY DEF Skip
  <2> QED
    BY <1>1, <2>1, <2>2 DEF Secondary, Planned
<1>3. \/ background = Skip("no_legal_game_candidate")
      \/ background = PlannedGames(<<cf.game>>) /\ cf.game > 0
  BY <1>1 DEF Background
<1>4. /\ Queue(PlannedGames(<<cf.game>>)) /\ DOMAIN PlannedGames(<<cf.game>>).items = 1..1
      /\ PlannedGames(<<cf.game>>).items[1].pick.game = cf.game
  <2>1. 1 \in 1..BackgroundGames
    BY LimitAssumption
  <2>2. DOMAIN <<cf.game>> = 1..1 /\ <<cf.game>>[1] = cf.game
    OBVIOUS
  <2> HIDE DEF cf
  <2> QED
    BY <2>1, <2>2, QueueOfGames
<1>5. ~Queue(Skip("no_legal_game_candidate"))
  BY KindFields DEF Skip
<1>6. Queue(background) => background = PlannedGames(<<cf.game>>) /\ cf.game > 0
  BY <1>3, <1>5
<1>7. ASSUME Queue(background)
      PROVE  \A i \in DOMAIN background.items : background.items[i].pick.game = cf.game
  BY <1>4, <1>6, <1>7
<1>8. ASSUME cf.game > 0, Single(errorCode)
      PROVE  errorCode.pick.focus \in {0, cf.game}
  <2> DEFINE answer == ErrorCode(e, background)
  <2>1. Enhancements(e).error_code = answer
    BY DEF Enhancements, Selections
  <2>2. errorCode.status = "planned"
    BY <1>8, KindFields
  <2>3. errorCode = answer
    BY <1>1, <2>1, <2>2 DEF Enhancement, Allocated, Skip
  <2>4. answer = Planned([focus |-> FocusGame(e, background),
                          overall |-> CHOOSE root \in FamilyRoots(e) : TRUE])
    BY <2>2, <2>3 DEF ErrorCode, Skip, Raises
  <2>5. answer.pick.focus = FocusGame(e, background)
    BY <2>4 DEF Planned
  <2>6. CASE ~Answered(e, "game_id") \/ LegalGames(e) = <<>>
    BY <2>3, <2>5, <2>6 DEF FocusGame
  <2>7. CASE Answered(e, "game_id") /\ LegalGames(e) # <<>>
    <3>1. background = PlannedGames(<<cf.game>>)
      BY <1>1, <1>8, <2>7 DEF Background
    <3>2. "items" \in DOMAIN background /\ background.items # <<>>
      BY <1>4, <3>1, KindFields
    <3>3. FocusGame(e, background) = background.items[1].pick.game
      BY <2>7, <3>2 DEF FocusGame, BackgroundItems
    <3> QED
      BY <1>4, <2>3, <2>5, <3>1, <3>3
  <2> QED
    BY <2>6, <2>7
<1> QED
  BY <1>2, <1>6, <1>7, <1>8

\* When one game explains the move, everything asked about games is asked about it.
THEOREM OneStoryTold == Spec => []OneStory
<1>1. Inv => OneStory
  <2> DEFINE steps == state.post.steps
             cf == steps["counterfactual"]
  <2> SUFFICES ASSUME Inv, state.post # None, Dominant(cf)
               PROVE  /\ "pick" \in DOMAIN steps["secondary"] =>
                           steps["secondary"].pick.parent = cf.game
                      /\ \A i \in DOMAIN BackgroundItems(steps["game_background"]) :
                           /\ cf.game > 0
                           /\ steps["game_background"].items[i].pick.game = cf.game
                      /\ cf.game > 0 /\ "pick" \in DOMAIN steps["error_code"] =>
                           steps["error_code"].pick.focus \in {0, cf.game}
    BY DEF OneStory
  <2>1. Shape(ev, steps)
    BY DEF Inv, StateSound, Settled, Sound
  <2>2. cf = Counterfactual(ev)
    <3>1. ~Dominant(Unplanned)
      BY DEF Dominant, Unplanned
    <3> QED
      BY <2>1, <3>1, CounterfactualIs
  <2>3. \A id \in StepIds : steps[id] # Unplanned => Fits(ev, steps[id], Selection(ev)[id])
    BY <2>1 DEF Shape
  <2>4. DOMAIN Unplanned = {"status"}
    BY DEF Unplanned
  <2> HIDE DEF steps
  <2>5. ASSUME NEW id \in StepIds, "pick" \in DOMAIN steps[id]
        PROVE  Single(Selection(ev)[id]) /\ steps[id].pick = Selection(ev)[id].pick
    <3>1. Fits(ev, steps[id], Selection(ev)[id])
      BY <2>3, <2>4, <2>5
    <3>2. ~Plain(Selection(ev)[id]) /\ ~Queue(Selection(ev)[id])
      BY <2>5, <3>1, StepFields
    <3> QED
      BY <3>1, <3>2 DEF Fits
  <2>6. ASSUME NEW i \in DOMAIN BackgroundItems(steps["game_background"])
        PROVE  LET chosen == Selection(ev)["game_background"]
               IN /\ Queue(chosen) /\ i \in DOMAIN chosen.items
                  /\ steps["game_background"].items[i].pick = chosen.items[i].pick
    <3>1. /\ "items" \in DOMAIN steps["game_background"]
          /\ i \in DOMAIN steps["game_background"].items
      BY <2>6 DEF BackgroundItems
    <3>2. Fits(ev, steps["game_background"], Selection(ev)["game_background"])
      BY <2>3, <2>4, <3>1, Ids
    <3>3. /\ ~Plain(Selection(ev)["game_background"])
          /\ ~Single(Selection(ev)["game_background"])
      BY <3>1, <3>2, StepFields
    <3> QED
      BY <3>1, <3>2, <3>3 DEF Fits
  <2>7. Dominant(Counterfactual(ev))
    BY <2>2
  <2> HIDE DEF cf
  <2> QED
    BY <2>2, <2>5, <2>6, <2>7, Ids, DominantStory
<1> QED
  BY <1>1, Invariant, PTL

\* Two steps touch what a reader sees: the state is replaced, or the report written.
LEMMA VisibleSteps ==
  ASSUME Inv, [Next]_vars
  PROVE  \/ state' = state /\ exported' = exported
         \/ /\ Succeeds(state, state') /\ exported' = exported
            /\ StateSound(ev, state', sql, events)
         \/ /\ state' = state /\ state.post # None /\ state.post.status = "completed"
            /\ exported' = Evidence(state.post)
<1>1. CASE WriteState
  <2>1. state' = op.mem /\ exported' = exported /\ op.pc = "write"
    BY <1>1 DEF WriteState, files, At
  <2>2. StateSound(ev, op.mem, sql, events) /\ Succeeds(state, op.mem)
    BY <2>1 DEF Inv, OpSound
  <2> QED
    BY <2>1, <2>2
<1>2. CASE Export
  <2>1. state' = state /\ op.pc = "deliver"
    BY <1>2 DEF Export, At
  <2>2. state.post # None
    BY <2>1 DEF Inv, OpSound
  <2>3. CASE MayExport(state.post) /\ state.evidence = None
    <3>1. exported' = Evidence(state.post)
      BY <1>2, <2>3, Zenon DEF Export
    <3> QED
      BY <2>1, <2>2, <2>3, <3>1 DEF MayExport
  <2>4. CASE ~(MayExport(state.post) /\ state.evidence = None)
    BY <1>2, <2>1, <2>4, Zenon DEF Export
  <2> QED
    BY <2>3, <2>4
<1>3. CASE ~WriteState /\ ~Export
  <2>1. CASE UNCHANGED vars
    BY <2>1 DEF vars, files
  <2>2. CASE RunInvestigation \/ SubmitRepair \/ ExportNow \/ RecordLate
    BY <2>2, Zenon DEF RunInvestigation, SubmitRepair, ExportNow, RecordLate, files
  <2>3. CASE AnswerKept \/ Fail
    BY <2>3, Zenon DEF AnswerKept, Fail, files
  <2>4. CASE Answers
    BY <2>4, Zenon DEF Answers, DViewReturns, DViewFails, DViewAnswers, files
  <2>5. CASE \/ Ensure \/ ResumeQuery \/ ExecutionTicket \/ RepairTicket \/ QueueComplete
             \/ RecordReplay \/ RecordRefuses
    BY <2>5, Zenon DEF Ensure, ResumeQuery, ExecutionTicket, RepairTicket, QueueComplete,
                       RecordReplay, RecordRefuses, files
  <2>6. CASE IssueQuery \/ RecordQuery \/ RecordRepair \/ LogRepair
    BY <2>6, Zenon DEF IssueQuery, RecordQuery, RecordRepair, LogRepair
  <2> QED
    BY <1>3, <2>1, <2>2, <2>3, <2>4, <2>5, <2>6 DEF Next, Local
<1> QED
  BY <1>1, <1>2, <1>3

\* A plan keeps its queries if it stays as it is.
LEMMA PlanKeptSame ==
  ASSUME NEW e, NEW post, Settled(e, post)
  PROVE  PlanKept(post, post)
<1>1. \A k \in QueryKeys(post) : QueryItem(post, k) \in Items(e)
  BY ItemAt DEF Settled, Sound
<1> QED
  BY <1>1 DEF PlanKept, QueryKept, Items

\* No selection is changed, no answer replaced or lost, no report rewritten, whatever dies.
THEOREM OnlyForward == Spec => Forward
<1>1. ASSUME Inv, [Next]_vars PROVE QueriesKept
  <2>1. ReportSound(state, exported) /\ (state.post # None => PlanKept(state.post, state.post))
    BY <1>1, PlanKeptSame DEF Inv, StateSound
  <2>2. CASE state' = state /\ exported' = exported
    BY <2>1, <2>2 DEF QueriesKept
  <2>3. CASE Succeeds(state, state') /\ exported' = exported
    BY <2>3 DEF Succeeds, QueriesKept
  <2>4. CASE state' = state /\ exported' = Evidence(state.post)
    BY <2>1, <2>4 DEF QueriesKept, ReportSound
  <2> QED
    BY <1>1, <2>2, <2>3, <2>4, VisibleSteps
<1> QED
  BY <1>1, Invariant, PTL DEF Spec, Forward

\* The verdicts of a plan, as the abstract specification sees them.
Verdicts(post) ==
  [k \in DOMAIN StepOrder |->
     IF post = None \/ post.steps[StepOrder[k]].status \notin Terminal THEN None
     ELSE post.steps[StepOrder[k]].status]

\* They are those that Verdict answers.
LEMMA VerdictsAre == [k \in DOMAIN StepOrder |-> Verdict(StepOrder[k])] = Verdicts(state.post)
BY DEF Verdict, Verdicts

\* A step with a verdict is not planned, and so those before it have one.
LEMMA VerdictsInOrder ==
  ASSUME NEW e, NEW post, Settled(e, post), NEW m \in DOMAIN StepOrder,
         post.steps[StepOrder[m]].status \in Terminal, NEW k \in DOMAIN StepOrder, k <= m
  PROVE  post.steps[StepOrder[k]].status \in Terminal
<1>1. Ordered(e, post) /\ m \in 1..6 /\ k \in 1..6
  BY Order DEF Settled, Sound
<1>2. post.steps[StepOrder[m]] # Unplanned
  BY DEF Unplanned, Terminal
<1>3. CASE k = m
  BY <1>3
<1>4. CASE k # m
  <2>1. k \in 1..(m - 1)
    BY <1>1, <1>4
  <2> QED
    BY <1>1, <1>2, <2>1, TerminalBefore
<1> QED
  BY <1>3, <1>4

\* A plan follows another one.
Follows(e, old, new) ==
  /\ new # None /\ Settled(e, new)
  /\ old # None =>
       /\ Settled(e, old)
       /\ \A id \in StepIds : old.steps[id].status \in Terminal => new.steps[id] = old.steps[id]

\* The steps up to m are settled, those that had a verdict keep it.
SettledTo(V, W, m) ==
  /\ V[m] = None
  /\ \A k \in DOMAIN StepOrder : /\ V[k] # None \/ k > m => W[k] = V[k]
                                 /\ k <= m => W[k] # None

\* From one plan to the next the verdicts stay, or the next steps are settled.
LEMMA VerdictsAdvance ==
  ASSUME NEW e, NEW old, NEW new, Follows(e, old, new)
  PROVE  \/ Verdicts(new) = Verdicts(old)
         \/ \E m \in DOMAIN StepOrder : SettledTo(Verdicts(old), Verdicts(new), m)
<1> DEFINE V == Verdicts(old)
           W == Verdicts(new)
           fresh == {k \in DOMAIN StepOrder : V[k] = None /\ W[k] # None}
<1>1. \A k \in DOMAIN StepOrder :
        /\ W[k] # None <=> new.steps[StepOrder[k]].status \in Terminal
        /\ W[k] # None => W[k] = new.steps[StepOrder[k]].status
  BY NoneAssumption DEF Verdicts, Follows
<1>2. \A k \in DOMAIN StepOrder : V[k] # None => W[k] = V[k]
  <2> SUFFICES ASSUME NEW k \in DOMAIN StepOrder, V[k] # None PROVE W[k] = V[k]
    OBVIOUS
  <2>1. /\ old # None /\ old.steps[StepOrder[k]].status \in Terminal
        /\ V[k] = old.steps[StepOrder[k]].status
    BY DEF Verdicts
  <2>2. StepOrder[k] \in StepIds
    BY Order, Ids
  <2>3. new.steps[StepOrder[k]] = old.steps[StepOrder[k]]
    BY <2>1, <2>2 DEF Follows
  <2> QED
    BY <2>1, <2>3 DEF Verdicts, Follows
<1>3. CASE fresh = {}
  <2>1. \A k \in DOMAIN StepOrder : W[k] = V[k]
    BY <1>2, <1>3
  <2>2. V = [k \in DOMAIN StepOrder |-> V[k]] /\ W = [k \in DOMAIN StepOrder |-> W[k]]
    BY DEF Verdicts
  <2> HIDE DEF V, W
  <2>3. V = W
    BY <2>1, <2>2
  <2> QED
    BY <2>3 DEF V, W
<1>4. CASE fresh # {}
  <2> DEFINE m == Max(fresh)
  <2>1. fresh \in SUBSET (1..6) /\ 6 \in Nat
    BY Order
  <2>2. m \in fresh /\ \A k \in fresh : k <= m
    <3> HIDE DEF fresh
    <3> QED
      BY <1>4, <2>1, MaxOf
  <2> HIDE DEF m
  <2>3. m \in DOMAIN StepOrder /\ V[m] = None /\ W[m] # None
    BY <2>2
  <2>4. ASSUME NEW k \in DOMAIN StepOrder, k <= m
        PROVE  W[k] # None
    BY <1>1, <2>3, <2>4, VerdictsInOrder DEF Follows
  <2>5. ASSUME NEW k \in DOMAIN StepOrder, V[k] # None \/ k > m
        PROVE  W[k] = V[k]
    <3>1. k \in 1..6 /\ m \in 1..6
      BY <2>3, Order
    <3>2. k \notin fresh \/ V[k] # None
      BY <2>2, <2>5, <3>1
    <3> QED
      BY <1>2, <3>2
  <2> QED
    BY <2>3, <2>4, <2>5 DEF SettledTo
<1> QED
  BY <1>3, <1>4

\* The analysis takes the steps of the abstract plan and no other: verdicts in order
\* and for good, and one report of them all.
THEOREM PlanRefined == Spec => KeepsPlan
<1>1. Init => Abstract!Init
  BY VerdictsAre DEF Init, Abstract!Init, Abstract!Positions, Verdicts
<1>2. ASSUME Inv, [Next]_vars PROVE [Abstract!Next]_Abstract!vars
  <2> DEFINE verdict == [k \in DOMAIN StepOrder |-> Verdict(StepOrder[k])]
             report == IF exported = None THEN None ELSE exported.verdicts
             old == Verdicts(state.post)
             new == Verdicts(state'.post)
  <2>1. verdict = old /\ verdict' = new
    BY DEF Verdict, Verdicts
  <2>2. StateSound(ev, state, sql, events) /\ ReportSound(state, exported)
    BY <1>2 DEF Inv
  <2>3. ASSUME new = old, report' = report
        PROVE  Abstract!vars' = Abstract!vars
    BY <2>1, <2>3 DEF Abstract!vars
  <2>4. CASE state' = state /\ exported' = exported
    BY <2>3, <2>4
  <2>5. CASE /\ Succeeds(state, state') /\ exported' = exported
             /\ StateSound(ev, state', sql, events)
    <3>1. Follows(ev, state.post, state'.post)
      BY <2>2, <2>5 DEF Succeeds, StateSound, Follows
    <3>2. CASE new = old
      BY <2>3, <2>5, <3>2
    <3>3. ASSUME NEW m \in DOMAIN StepOrder, SettledTo(old, new, m)
          PROVE  Abstract!Settle(m)
      <4>1. old[m] = None /\ new[m] # None
        BY <3>3, Order DEF SettledTo
      <4>2. exported = None
        <5>1. exported # None => state'.post = state.post
          BY <2>2, <2>5 DEF ReportSound, Succeeds
        <5> QED
          BY <4>1, <5>1
      <4>3. new \in [DOMAIN StepOrder -> Terminal \cup {None}]
        BY DEF Verdicts
      <4>4. report = None /\ report' = report
        BY <2>5, <4>2
      <4> HIDE DEF old, new
      <4> QED
        BY <2>1, <3>3, <4>3, <4>4 DEF Abstract!Settle, Abstract!Positions, SettledTo
    <3>4. new = old \/ \E m \in DOMAIN StepOrder : Abstract!Settle(m)
      BY <3>1, <3>3, VerdictsAdvance
    <3> QED
      BY <3>2, <3>4 DEF Abstract!Next, Abstract!Positions
  <2>6. CASE /\ state' = state /\ state.post # None /\ state.post.status = "completed"
             /\ exported' = Evidence(state.post)
    <3>1. Settled(ev, state.post)
      BY <2>2, <2>6 DEF StateSound
    <3>2. new = old
      BY <2>6
    <3>3. CASE exported # None
      BY <2>2, <2>3, <2>6, <3>2, <3>3 DEF ReportSound
    <3>4. CASE exported = None
      <4>1. Evidence(state.post) # None
        BY <2>6, <3>1, EvidenceTyped
      <4>2. \A k \in DOMAIN StepOrder : state.post.steps[StepOrder[k]].status \in Terminal
        BY <2>6, <3>1, Order, Ids DEF Settled, AllTerminal
      <4>3. old = [k \in DOMAIN StepOrder |-> state.post.steps[StepOrder[k]].status]
        BY <2>6, <4>2 DEF Verdicts
      <4>4. \A k \in DOMAIN StepOrder : old[k] # None
        BY <4>2, <4>3, NoneAssumption
      <4>5. Evidence(state.post).verdicts = old
        BY <4>3 DEF Evidence
      <4>6. report = None /\ report' = old
        BY <2>6, <3>4, <4>1, <4>5
      <4> HIDE DEF old, new
      <4>7. Abstract!Report
        BY <2>1, <3>2, <4>4, <4>6 DEF Abstract!Report, Abstract!Settled, Abstract!Positions
      <4> QED
        BY <4>7 DEF Abstract!Next
    <3> QED
      BY <3>3, <3>4
  <2> QED
    BY <1>2, <2>4, <2>5, <2>6, VisibleSteps
<1> QED
  BY <1>1, <1>2, Invariant, PTL DEF Spec, KeepsPlan, Abstract!Spec
=============================================================================
