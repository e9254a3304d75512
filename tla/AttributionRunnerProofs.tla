------------------------ MODULE AttributionRunnerProofs ------------------------
(***************************************************************************)
(* Proofs about AttributionRunner.  Inv is inductive whatever calls are    *)
(* cancelled; with Serial it is when none is.  What an operation makes of  *)
(* the state it loads is described once, field by field, and everything    *)
(* that is proved of a step goes by these descriptions.                    *)
(***************************************************************************)
EXTENDS AttributionRunner, FiniteSetTheorems, SequenceTheorems, TLAPS

-----------------------------------------------------------------------------
(* The automatic steps.                                                    *)

\* The last step is never automatic, so some step from the cursor on is manual.
LEMMA FirstManual ==
  ASSUME NEW c \in Queue
  PROVE  \E k \in c..K : k \notin Automatic /\ \A j \in c..(k - 1) : j \in Automatic
<1> DEFINE T == {k \in c..K : k \notin Automatic}
<1>1. T \subseteq Nat /\ K \in T
  BY RunnerAssumption DEF Queue
<1>2. \E k \in T : \A j \in T : ~(<<j, k>> \in OpToRel(<, Nat))
  BY <1>1, NatLessThanWellFounded, WFMin, Zenon
<1>3. PICK k \in T : \A j \in T : ~(<<j, k>> \in OpToRel(<, Nat))
  BY <1>2
<1>4. \A j \in T : ~(j < k)
  BY <1>1, <1>3, Zenon DEF OpToRel
<1> QED
  BY <1>1, <1>4 DEF Queue

\* NextManual is that step.
LEMMA NextManualIs ==
  ASSUME NEW s, s.cursor \in Queue
  PROVE  /\ NextManual(s) \in s.cursor..K /\ NextManual(s) \notin Automatic
         /\ \A j \in s.cursor..(NextManual(s) - 1) : j \in Automatic
<1>1. \E k \in s.cursor..(K + 1) :
         k \notin Automatic /\ \A j \in s.cursor..(k - 1) : j \in Automatic
  BY FirstManual, RunnerAssumption DEF Queue
<1>2. /\ NextManual(s) \in s.cursor..(K + 1) /\ NextManual(s) \notin Automatic
      /\ \A j \in s.cursor..(NextManual(s) - 1) : j \in Automatic
  BY <1>1 DEF NextManual
<1>3. K \in Nat /\ K \notin Automatic /\ s.cursor \in Nat /\ s.cursor <= K
  BY RunnerAssumption DEF Queue
<1>4. NextManual(s) # K + 1
  BY <1>2, <1>3
<1> QED
  BY <1>2, <1>3, <1>4

\* What Skipped does to a state: the automatic steps at the cursor are skipped.
LEMMA SkippedIs ==
  ASSUME NEW s, WellFormed(s), s.cursor <= K
  PROVE  LET t == Skipped(s)
             c == NextManual(s)
         IN /\ c \in s.cursor..K /\ c \notin Automatic
            /\ \A j \in s.cursor..(c - 1) : j \in Automatic
            /\ t \in States /\ t.cursor = c
            /\ t.processed = s.processed /\ t.root = s.root /\ t.status = s.status
            /\ t.evidence = s.evidence /\ t.final = s.final
            /\ \A k \in Queue :
                 /\ t.steps[k].attempts = s.steps[k].attempts
                 /\ t.steps[k].root = s.steps[k].root
                 /\ t.steps[k].status = IF k \in s.cursor..(c - 1) THEN "skipped_not_applicable"
                                        ELSE s.steps[k].status
<1> DEFINE c == NextManual(s)
<1>1. s \in States /\ s.cursor \in Queue
  BY RunnerAssumption DEF WellFormed, States, Queue
<1>2. /\ c \in s.cursor..K /\ c \notin Automatic
      /\ \A j \in s.cursor..(c - 1) : j \in Automatic
  BY <1>1, NextManualIs
<1>3. c \in 1..(K + 1)
  BY <1>1, <1>2, RunnerAssumption DEF Queue
<1> HIDE DEF c
<1>4. \A k \in Queue : /\ s.steps[k] \in StepTypes
                       /\ [s.steps[k] EXCEPT !.status = "skipped_not_applicable"] \in StepTypes
  <2>1. \A k \in Queue : s.steps[k] \in StepTypes
    BY <1>1 DEF States
  <2>2. ASSUME NEW x \in StepTypes
        PROVE  [x EXCEPT !.status = "skipped_not_applicable"] \in StepTypes
    BY DEF StepTypes, Terminal
  <2> QED
    BY <2>1, <2>2
<1> DEFINE steps == [k \in Queue |->
              IF k \in s.cursor..(c - 1)
              THEN [s.steps[k] EXCEPT !.status = "skipped_not_applicable"] ELSE s.steps[k]]
<1>5. steps \in [Queue -> StepTypes]
  BY <1>4
<1>6. Skipped(s) = [s EXCEPT !.cursor = c, !.steps = steps]
  BY DEF Skipped, c
<1>7. LET t == Skipped(s)
      IN /\ t \in States /\ t.cursor = c /\ t.steps = steps
         /\ t.processed = s.processed /\ t.root = s.root /\ t.status = s.status
         /\ t.evidence = s.evidence /\ t.final = s.final
  <2> HIDE DEF steps
  <2> QED
    BY <1>1, <1>3, <1>5, <1>6 DEF States
<1>8. \A k \in Queue :
        /\ steps[k].attempts = s.steps[k].attempts
        /\ steps[k].root = s.steps[k].root
        /\ steps[k].status = IF k \in s.cursor..(c - 1) THEN "skipped_not_applicable"
                             ELSE s.steps[k].status
  BY <1>4 DEF StepTypes
<1> HIDE DEF steps
<1> QED
  BY <1>2, <1>7, <1>8 DEF c

\* Where the attempts and the processed events are the same, so is what the
\* contract says of them.
LEMMA SameAttempts ==
  ASSUME NEW s, NEW t, t.processed = s.processed,
         \A k \in Queue : t.steps[k].attempts = s.steps[k].attempts
  PROVE  /\ QueryIdContract(s) => QueryIdContract(t)
         /\ EventsPlaced(s) => EventsPlaced(t)
         /\ AttemptContract(s) => AttemptContract(t)
<1>1. \A k \in Queue : /\ Numbers(t, k) = Numbers(s, k)
                       /\ \A n \in Numbers(s, k) : Attempt(t, k, n) = Attempt(s, k, n)
  BY DEF Numbers, Attempt
<1>2. QueryIdContract(s) => QueryIdContract(t)
  BY <1>1 DEF QueryIdContract
<1>3. EventsPlaced(s) => EventsPlaced(t)
  BY <1>1 DEF EventsPlaced, Fits
<1>4. AttemptContract(s) => AttemptContract(t)
  BY <1>1 DEF AttemptContract
<1> QED
  BY <1>2, <1>3, <1>4

\* A state whose automatic steps are skipped is as good as the one before.
LEMMA SkippedWell ==
  ASSUME NEW s, WellFormed(s), s.cursor <= K, Current(Skipped(s)).status = "pending"
  PROVE  WellFormed(Skipped(s))
<1> DEFINE t == Skipped(s)
           c == NextManual(s)
<1> HIDE DEF t, c
<1>1. /\ c \in s.cursor..K /\ c \notin Automatic
      /\ \A j \in s.cursor..(c - 1) : j \in Automatic
      /\ t \in States /\ t.cursor = c
      /\ t.processed = s.processed /\ t.root = s.root /\ t.status = s.status
      /\ t.evidence = s.evidence /\ t.final = s.final
      /\ \A k \in Queue :
           /\ t.steps[k].attempts = s.steps[k].attempts
           /\ t.steps[k].root = s.steps[k].root
           /\ t.steps[k].status = IF k \in s.cursor..(c - 1) THEN "skipped_not_applicable"
                                  ELSE s.steps[k].status
  BY SkippedIs DEF t, c
<1>2. s \in States /\ Consistent(s) /\ AttemptShape(s) /\ EventsPlaced(s)
  BY DEF WellFormed
<1>4. K \in Nat /\ s.cursor \in 1..(K + 1)
  BY <1>2, RunnerAssumption DEF States
<1>5. QueryIdContract(t) /\ EventsPlaced(t)
  BY <1>1, <1>2, SameAttempts DEF Consistent
<1>6. CursorContract(t)
  <2>1. t.steps[c].status = "pending"
    BY <1>1 DEF t, Current
  <2>2. \A k \in Queue : k \in s.cursor..(c - 1) => t.steps[k].status \in Terminal
    BY <1>1 DEF Terminal
  <2>3. \A k \in Queue : k < s.cursor => t.steps[k].status \in Terminal
    BY <1>1, <1>2, <1>4 DEF Consistent, CursorContract, Queue
  <2>4. \A k \in Queue : k > c => t.steps[k].status = "pending"
    BY <1>1, <1>2, <1>4 DEF Consistent, CursorContract, Queue
  <2> QED
    BY <1>1, <1>4, <2>1, <2>2, <2>3, <2>4 DEF CursorContract, Queue, Terminal
<1>7. StepContract(t)
  <2>1. StepContract(s)
    BY <1>2 DEF Consistent
  <2>2. \A k \in Queue :
          \/ t.steps[k].status = "skipped_not_applicable" /\ k \in Automatic
             /\ t.steps[k].attempts = <<>>
          \/ /\ t.steps[k].status = s.steps[k].status
             /\ t.steps[k].attempts = s.steps[k].attempts
             /\ LastAttempt(t.steps[k]) = LastAttempt(s.steps[k])
    BY <1>1, <1>2 DEF AttemptShape, LastAttempt
  <2> QED
    BY ONLY <2>1, <2>2 DEF StepContract
<1>8. RootContract(t)
  <2>1. \A k \in Queue : t.steps[k].status = "succeeded" <=> s.steps[k].status = "succeeded"
    BY <1>1, <1>2, <1>4, RunnerAssumption DEF AttemptShape, Queue
  <2> QED
    BY <1>1, <1>2, <2>1 DEF Consistent, RootContract
<1>9. RunStatusContract(t)
  BY <1>1, <1>2, <1>4 DEF Consistent, RunStatusContract
<1>10. AttemptShape(t)
  <2>1. \A k \in Automatic : /\ t.steps[k].attempts = <<>>
                             /\ t.steps[k].status \in {"pending", "skipped_not_applicable"}
    BY <1>1, <1>2, RunnerAssumption DEF AttemptShape
  <2>2. \A k \in Queue : \A n \in Numbers(t, k) : Shaped(n, Attempt(t, k, n))
    BY <1>1, <1>2 DEF AttemptShape, Numbers, Attempt
  <2> QED
    BY <2>1, <2>2 DEF AttemptShape
<1> QED
  BY <1>1, <1>5, <1>6, <1>7, <1>8, <1>9, <1>10 DEF WellFormed, Consistent, t

-----------------------------------------------------------------------------
(* What the operations make of a state.                                    *)

\* m is the state t, but for the step at the cursor and the fields that the
\* operations on a step change.
OneStep(t, m) ==
  /\ t \in States /\ m \in States /\ t.cursor \in Queue
  /\ m.evidence = t.evidence /\ m.final = t.final
  /\ \A k \in Queue \ {t.cursor} :
       /\ m.steps[k] = t.steps[k] /\ Numbers(m, k) = Numbers(t, k)
       /\ \A n \in Numbers(t, k) : Attempt(m, k, n) = Attempt(t, k, n)

\* m is t with an attempt of x at the cursor, the one that the repair e opens if e
\* is not None.
Opened(t, m, x, e) ==
  LET c == t.cursor
      N == Len(t.steps[c].attempts)
  IN /\ OneStep(t, m)
     /\ m.cursor = c /\ m.root = t.root /\ m.status = t.status
     /\ m.processed = t.processed \cup ({e} \ {None})
     /\ m.steps[c].status = "in_progress" /\ m.steps[c].root = t.steps[c].root
     /\ N \in Nat /\ Len(m.steps[c].attempts) = N + 1
     /\ Numbers(m, c) = Numbers(t, c) \cup {N + 1} /\ N + 1 \notin Numbers(t, c)
     /\ Attempt(m, c, N + 1) = Issued(x, e)
     /\ \A n \in Numbers(t, c) : Attempt(m, c, n) = Attempt(t, c, n)

\* WithAttempt opens an attempt.
LEMMA WithAttemptOpens ==
  ASSUME NEW t \in States, t.cursor \in Queue, NEW x \in SQLs,
         NEW e \in RepairEvents \cup {None}
  PROVE  LET u == WithAttempt(t, Issued(x, e))
         IN Opened(t, IF e = None THEN u ELSE [u EXCEPT !.processed = @ \cup {e}], x, e)
<1> DEFINE c == t.cursor
           a == Issued(x, e)
           old == t.steps[c].attempts
           step == [t.steps[c] EXCEPT !.status = "in_progress", !.attempts = Append(@, a)]
           u == WithAttempt(t, a)
           m == IF e = None THEN u ELSE [u EXCEPT !.processed = @ \cup {e}]
<1>1. /\ t.steps \in [Queue -> StepTypes] /\ t.steps[c] \in StepTypes /\ old \in Seq(Attempts)
      /\ t.processed \subseteq Events
  BY DEF States, StepTypes
<1>2. a \in Attempts
  BY DEF Attempts, Issued
<1> HIDE DEF a
<1>3. Append(old, a) \in Seq(Attempts)
  BY <1>1, <1>2
<1>4. /\ step \in StepTypes /\ step.status = "in_progress" /\ step.root = t.steps[c].root
      /\ step.attempts = Append(old, a)
  BY <1>1, <1>3 DEF StepTypes
<1>5. u = [t EXCEPT !.steps = [t.steps EXCEPT ![c] = step]]
  BY <1>1 DEF WithAttempt, States, StepTypes
<1> HIDE DEF step
<1>6. [t.steps EXCEPT ![c] = step] \in [Queue -> StepTypes]
  BY <1>1, <1>4
<1>7. {e} \ {None} \subseteq Events
  BY DEF Events
<1>8. /\ u \in States /\ u.steps = [t.steps EXCEPT ![c] = step]
      /\ u.cursor = c /\ u.root = t.root /\ u.status = t.status
      /\ u.evidence = t.evidence /\ u.final = t.final /\ u.processed = t.processed
  BY <1>5, <1>6 DEF States
<1> HIDE DEF u
<1>9. /\ m \in States /\ m.steps = u.steps /\ m.cursor = u.cursor /\ m.root = u.root
      /\ m.status = u.status /\ m.evidence = u.evidence /\ m.final = u.final
      /\ m.processed = u.processed \cup ({e} \ {None})
  BY <1>1, <1>7, <1>8 DEF States
<1>10. /\ Len(Append(old, a)) = Len(old) + 1 /\ Append(old, a)[Len(old) + 1] = a
       /\ \A n \in 1..Len(old) : Append(old, a)[n] = old[n]
       /\ Len(old) \in Nat /\ 1..(Len(old) + 1) = 1..Len(old) \cup {Len(old) + 1}
       /\ Len(old) + 1 \notin 1..Len(old)
  <2>1. old \in Seq(Attempts) /\ a \in Attempts
    BY <1>1, <1>2
  <2> HIDE DEF old
  <2>2. /\ Len(old) \in Nat
        /\ Len(Append(old, a)) = Len(old) + 1 /\ Append(old, a)[Len(old) + 1] = a
        /\ \A n \in 1..Len(old) : Append(old, a)[n] = old[n]
    BY <2>1, AppendProperties, LenProperties
  <2>3. \A N \in Nat : 1..(N + 1) = 1..N \cup {N + 1} /\ N + 1 \notin 1..N
    OBVIOUS
  <2> QED
    BY <2>2, <2>3
<1> HIDE DEF m
<1>11. OneStep(t, m)
  BY <1>1, <1>8, <1>9 DEF OneStep, Numbers, Attempt
<1>12. m.steps[c] = step
  BY <1>1, <1>8, <1>9
<1>13. Opened(t, m, x, e)
  BY <1>4, <1>8, <1>9, <1>10, <1>11, <1>12 DEF Opened, a, Numbers, Attempt
<1> QED
  BY <1>13 DEF m, u, a

\* An opened attempt leaves a well-formed state, whether it is the first of its step
\* or that of a repair.
LEMMA OpenedWell ==
  ASSUME NEW t, WellFormed(t), t.cursor <= K, t.cursor \notin Automatic,
         NEW m, NEW x, NEW e, Opened(t, m, x, e),
         \/ e = None /\ Current(t).status = "pending"
         \/ e # None /\ RepairRecordable(t, e) /\ x = e.sql
  PROVE  WellFormed(m)
<1> DEFINE c == t.cursor
           N == Len(t.steps[c].attempts)
           a == Attempt(m, c, N + 1)
<1>1. /\ t \in States /\ m \in States /\ c \in Queue /\ m.cursor = c
      /\ m.evidence = t.evidence /\ m.final = t.final
      /\ \A k \in Queue : k # c => m.steps[k] = t.steps[k]
      /\ m.root = t.root /\ m.status = t.status
      /\ m.processed = t.processed \cup ({e} \ {None})
      /\ m.steps[c].status = "in_progress" /\ m.steps[c].root = t.steps[c].root
  BY DEF Opened, OneStep
\* An attempt of m is one of t or the new one.
<1>2. \A k \in Queue : \A n \in Numbers(m, k) :
        \/ k = c /\ n = N + 1
        \/ n \in Numbers(t, k) /\ Attempt(m, k, n) = Attempt(t, k, n)
  BY DEF Opened, OneStep
<1>3. \A k \in Queue : \A n \in Numbers(t, k) :
        n \in Numbers(m, k) /\ Attempt(m, k, n) = Attempt(t, k, n)
  BY DEF Opened, OneStep
<1>4. N \in Nat /\ N + 1 \in Numbers(m, c) /\ Len(m.steps[c].attempts) = N + 1
  BY DEF Opened
<1>5. a.status = "issued" /\ a.sql = x /\ a.qid = None /\ a.event = None /\ a.repair = e
  BY DEF Opened, Issued
<1>6. Consistent(t) /\ AttemptShape(t) /\ EventsPlaced(t)
  BY DEF WellFormed
<1>7. K \in Nat /\ c \in Nat /\ 1 <= c /\ c <= K /\ c \notin Automatic /\ RepairLimit \in Nat
  BY <1>1, RunnerAssumption DEF Queue
<1>8. /\ N <= RepairLimit /\ (N = 0 <=> e = None)
      /\ e # None => e \in RepairEvents /\ e.step = c /\ e.attempt = N /\ e.sql = x
  <2>1. CASE e = None /\ t.steps[c].status = "pending"
    <3>1. t.steps[c].attempts = <<>>
      BY <1>1, <1>6, <2>1 DEF Consistent, StepContract, Terminal
    <3> QED
      BY <1>7, <2>1, <3>1
  <2>2. CASE e # None /\ RepairRecordable(t, e) /\ x = e.sql
    <3>1. t.steps[c].status = "repair_required"
      BY <2>2 DEF RepairRecordable, Current
    <3>2. t.steps[c].attempts # <<>> /\ N <= RepairLimit
      BY <1>1, <1>6, <3>1 DEF Consistent, StepContract
    <3>3. t.steps[c].attempts \in Seq(Attempts)
      BY <1>1 DEF States, StepTypes
    <3>4. N # 0
      BY <3>2, <3>3
    <3> QED
      BY <2>2, <3>2, <3>4 DEF RepairRecordable, Current
  <2> QED
    BY <2>1, <2>2 DEF Current
<1>9. t.steps[c].status \in {"pending", "repair_required"}
  BY DEF RepairRecordable, Current
<1> HIDE DEF a, N
<1>10. QueryIdContract(m)
  BY <1>2, <1>5, <1>6 DEF a, Consistent, QueryIdContract
<1>11. CursorContract(m)
  BY <1>1, <1>6, <1>7 DEF Consistent, CursorContract, Terminal, Queue
<1>12. StepContract(m)
  <2>1. m.steps[c].attempts # <<>> /\ LastAttempt(m.steps[c]).status = "issued"
    BY <1>4, <1>5 DEF a, LastAttempt, Attempt
  <2> QED
    BY <1>1, <1>6, <2>1 DEF Consistent, StepContract
<1>13. RootContract(m)
  BY <1>1, <1>6, <1>9 DEF Consistent, RootContract
<1>14. RunStatusContract(m)
  BY <1>1, <1>6, <1>7 DEF Consistent, RunStatusContract
<1>15. AttemptShape(m)
  <2>1. \A k \in Queue : \A n \in Numbers(m, k) : Shaped(n, Attempt(m, k, n))
    <3>1. N + 1 <= RepairLimit + 1 /\ ((N + 1 = 1) <=> (e = None))
      BY <1>4, <1>7, <1>8
    <3>2. Shaped(N + 1, a)
      BY <1>5, <3>1 DEF Shaped
    <3> QED
      BY <1>2, <1>6, <3>2 DEF a, AttemptShape
  <2>2. \A k \in Automatic : /\ m.steps[k].attempts = <<>>
                             /\ m.steps[k].status \in {"pending", "skipped_not_applicable"}
    BY <1>1, <1>6, <1>7, RunnerAssumption DEF AttemptShape
  <2> QED
    BY <2>1, <2>2, Zenon DEF AttemptShape
<1>16. EventsPlaced(m)
  <2>1. ASSUME NEW k \in Queue, NEW n \in Numbers(m, k)
        PROVE  LET b == Attempt(m, k, n) IN
                 /\ b.event # None =>
                      b.event \in m.processed /\ Fits(b.event, k, n, b) /\ b.event.qid = b.qid
                 /\ b.repair # None => b.repair \in m.processed /\ Fits(b.repair, k, n, b)
    <3>1. CASE k = c /\ n = N + 1
      BY <1>1, <1>4, <1>5, <1>8, <3>1 DEF a, Fits
    <3>2. CASE n \in Numbers(t, k) /\ Attempt(m, k, n) = Attempt(t, k, n)
      BY <1>1, <1>6, <3>2 DEF EventsPlaced
    <3> QED
      BY <1>2, <3>1, <3>2
  <2>2. ASSUME NEW d \in m.processed
        PROVE  \E k \in Queue : \E n \in Numbers(m, k) :
                 d \in {Attempt(m, k, n).event, Attempt(m, k, n).repair}
    <3>1. CASE d \in t.processed
      BY <1>3, <1>6, <3>1 DEF EventsPlaced
    <3>2. CASE d = e
      BY <1>1, <1>4, <1>5, <3>2 DEF a
    <3> QED
      BY <1>1, <2>2, <3>1, <3>2
  <2> QED
    BY <2>1, <2>2, Zenon DEF EventsPlaced
<1> QED
  BY <1>1, <1>10, <1>11, <1>12, <1>13, <1>14, <1>15, <1>16 DEF WellFormed, Consistent

\* m is t with the last attempt at the cursor answered by e.
Hooks(t, e) == Outcome(t, e) = "succeeded" /\ t.cursor \in Producing

Answered(t, m, e) ==
  LET c == t.cursor
      N == Len(t.steps[c].attempts)
      b == Attempt(m, c, N)
  IN /\ OneStep(t, m)
     /\ N \in Nat \ {0} /\ Len(m.steps[c].attempts) = N
     /\ Numbers(m, c) = Numbers(t, c) /\ N \in Numbers(t, c)
     /\ \A n \in Numbers(t, c) \ {N} : Attempt(m, c, n) = Attempt(t, c, n)
     /\ b.status = Outcome(t, e) /\ b.qid = e.qid /\ b.event = e
     /\ b.sql = Attempt(t, c, N).sql /\ b.repair = Attempt(t, c, N).repair
     /\ m.steps[c].status = IF Repairable(e) THEN "repair_required"
                            ELSE IF Outcome(t, e) = "succeeded" THEN "succeeded" ELSE "failed"
     /\ m.steps[c].root = IF Hooks(t, e) THEN e.body ELSE None
     /\ m.root = IF Hooks(t, e) THEN e.body ELSE t.root
     /\ m.processed = t.processed \cup {e}
     /\ m.cursor = IF Repairable(e) THEN c ELSE c + 1
     /\ m.status = IF ~Repairable(e) /\ c = K THEN "queue_complete" ELSE t.status

\* Recorded answers an attempt.
LEMMA RecordedAnswers ==
  ASSUME NEW t, WellFormed(t), NEW e, QueryRecordable(t, e)
  PROVE  Answered(t, Recorded(t, e), e)
<1> DEFINE c == t.cursor
           old == t.steps[c].attempts
           N == Len(old)
           outcome == Outcome(t, e)
           hooks == Hooks(t, e)
           b == [old[N] EXCEPT !.status = outcome, !.qid = e.qid, !.event = e]
           new == [old EXCEPT ![N] = b]
           status == IF Repairable(e) THEN "repair_required"
                     ELSE IF outcome = "succeeded" THEN "succeeded" ELSE "failed"
           step == [status |-> status, root |-> IF hooks THEN e.body ELSE None,
                    attempts |-> new]
           steps == [t.steps EXCEPT ![c] = step]
           root == IF hooks THEN e.body ELSE t.root
           cursor == IF Repairable(e) THEN c ELSE c + 1
           runstatus == IF ~Repairable(e) /\ c = K THEN "queue_complete" ELSE t.status
           m == Recorded(t, e)
<1>1. /\ t \in States /\ Consistent(t) /\ e \in QueryEvents /\ c <= K
      /\ t.steps[c].status = "in_progress"
  BY DEF WellFormed, QueryRecordable, Current
<1>2. K \in Nat /\ c \in Queue /\ c \in 1..(K + 1) /\ cursor \in 1..(K + 1)
  BY <1>1, RunnerAssumption DEF States, Queue
<1>3. /\ t.steps \in [Queue -> StepTypes] /\ t.steps[c] \in StepTypes /\ old \in Seq(Attempts)
      /\ t.processed \subseteq Events /\ t.root \in Roots \cup {None}
      /\ t.status \in {"active", "queue_complete", "finalized"}
  BY <1>1, <1>2 DEF States, StepTypes
<1>4. old # <<>>
  BY <1>1, <1>2 DEF Consistent, StepContract
<1>5. N \in Nat \ {0} /\ N \in 1..N /\ old \in [1..N -> Attempts]
  BY <1>3, <1>4
<1>6. /\ outcome \in {"error", "failed", "succeeded"}
      /\ hooks => e.body \in Roots
      /\ e.qid \in QueryIds
  BY <1>1 DEF Outcome, Hooks, QueryEvents, Results
<1> HIDE DEF outcome, hooks
<1>7. /\ b \in Attempts /\ b.status = outcome /\ b.qid = e.qid /\ b.event = e
      /\ b.sql = old[N].sql /\ b.repair = old[N].repair
  <2>1. old[N] \in Attempts
    BY <1>5
  <2> HIDE DEF old, N
  <2> QED
    BY <1>1, <1>6, <2>1 DEF Attempts
<1> HIDE DEF b
<1>8. /\ new \in Seq(Attempts) /\ Len(new) = N /\ new[N] = b
      /\ \A n \in (1..N) \ {N} : new[n] = old[n]
  <2>1. new = [old EXCEPT ![N] = b]
    OBVIOUS
  <2> HIDE DEF new, old, N
  <2> QED
    BY ONLY <1>3, <1>5, <1>7, <2>1
<1> HIDE DEF new
<1>9. /\ step \in StepTypes /\ step.attempts = new /\ step.status = status
      /\ step.root = IF hooks THEN e.body ELSE None
  BY <1>6, <1>8 DEF StepTypes, Terminal
<1> HIDE DEF step
<1>10. steps \in [Queue -> StepTypes] /\ steps[c] = step /\ \A k \in Queue \ {c} : steps[k] = t.steps[k]
  BY <1>2, <1>3, <1>9
<1> HIDE DEF steps
<1>11. t.processed \cup {e} \subseteq Events /\ root \in Roots \cup {None}
       /\ runstatus \in {"active", "queue_complete", "finalized"}
  BY <1>1, <1>3, <1>6 DEF Events
<1>12. m = [t EXCEPT !.steps = steps, !.root = root, !.processed = t.processed \cup {e},
                     !.cursor = cursor, !.status = runstatus]
  BY DEF Recorded, steps, step, new, b, hooks, outcome, Hooks, Current, LastAttempt
<1> HIDE DEF cursor, root, runstatus, m
<1>13. /\ m \in States /\ m.steps = steps /\ m.root = root /\ m.processed = t.processed \cup {e}
       /\ m.cursor = cursor /\ m.status = runstatus
       /\ m.evidence = t.evidence /\ m.final = t.final
  BY <1>1, <1>2, <1>10, <1>11, <1>12 DEF States
<1>14. OneStep(t, m)
  BY <1>1, <1>2, <1>10, <1>13 DEF OneStep, Numbers, Attempt
<1>15. Answered(t, m, e)
  BY <1>5, <1>7, <1>8, <1>9, <1>10, <1>13, <1>14
     DEF Answered, Numbers, Attempt, cursor, root, runstatus, hooks, outcome
<1> QED
  BY <1>15 DEF m

\* An answered attempt leaves a well-formed state.
LEMMA AnsweredWell ==
  ASSUME NEW t, WellFormed(t), NEW e, QueryRecordable(t, e),
         NEW m, Answered(t, m, e)
  PROVE  WellFormed(m)
<1> DEFINE c == t.cursor
           N == Len(t.steps[c].attempts)
           b == Attempt(m, c, N)
           outcome == Outcome(t, e)
<1>1. /\ t \in States /\ m \in States /\ c \in Queue
      /\ m.evidence = t.evidence /\ m.final = t.final
      /\ \A k \in Queue \ {c} : m.steps[k] = t.steps[k]
      /\ m.root = IF Hooks(t, e) THEN e.body ELSE t.root
      /\ m.processed = t.processed \cup {e}
      /\ m.cursor = IF Repairable(e) THEN c ELSE c + 1
      /\ m.status = IF ~Repairable(e) /\ c = K THEN "queue_complete" ELSE t.status
      /\ m.steps[c].status = IF Repairable(e) THEN "repair_required"
                            ELSE IF outcome = "succeeded" THEN "succeeded" ELSE "failed"
      /\ m.steps[c].root = IF Hooks(t, e) THEN e.body ELSE None
  BY DEF Answered, OneStep
\* The attempts of m are those of t, but for the last one at the cursor.
<1>2. \A k \in Queue : /\ Numbers(m, k) = Numbers(t, k)
                       /\ \A n \in Numbers(m, k) :
                            (k = c /\ n = N) \/ Attempt(m, k, n) = Attempt(t, k, n)
  BY DEF Answered, OneStep
<1>3. N \in Nat \ {0} /\ N \in Numbers(t, c) /\ Len(m.steps[c].attempts) = N
  BY DEF Answered
<1>4. /\ b.status = outcome /\ b.qid = e.qid /\ b.event = e
      /\ b.sql = Attempt(t, c, N).sql /\ b.repair = Attempt(t, c, N).repair
  BY DEF Answered
<1>5. Consistent(t) /\ AttemptShape(t) /\ EventsPlaced(t)
  BY DEF WellFormed
<1>6. /\ e \in QueryEvents /\ e.step = c /\ c <= K /\ t.steps[c].status = "in_progress"
      /\ e.attempt = N - 1 /\ e.sql = Attempt(t, c, N).sql
      /\ \A k \in Queue : \A n \in Numbers(t, k) : Attempt(t, k, n).qid # e.qid
  BY <1>1 DEF QueryRecordable, AnswersAttempt, Current, LastAttempt, Attempt, UsedIds
<1>7. /\ outcome \in {"error", "failed", "succeeded"}
      /\ outcome = "error" <=> e.kind = "query_error"
      /\ outcome = "succeeded" => e.body \in Roots
      /\ e.qid # None /\ e # None /\ e \in Events
  BY <1>6, RunnerAssumption DEF Outcome, QueryEvents, Results, Events
<1>8. K \in Nat /\ c \in Nat /\ 1 <= c /\ c <= K
  BY <1>1, <1>6, RunnerAssumption DEF Queue
<1>9. c \notin Automatic
  BY <1>5, <1>6 DEF AttemptShape
<1> HIDE DEF b, N, outcome
<1>10. QueryIdContract(m)
  BY <1>2, <1>4, <1>5, <1>6 DEF b, Consistent, QueryIdContract
<1>11. CursorContract(m)
  <2>1. m.steps[c].status \in Terminal <=> ~Repairable(e)
    BY <1>1 DEF Terminal
  <2>2. \A k \in Queue : /\ k < c => m.steps[k].status \in Terminal
                         /\ k > c => m.steps[k].status = "pending"
    BY <1>1, <1>5, <1>8 DEF Consistent, CursorContract, Queue
  <2> QED
    BY <1>1, <1>8, <2>1, <2>2 DEF CursorContract, Terminal, Queue
<1>12. StepContract(m)
  <2>1. m.steps[c].attempts # <<>> /\ LastAttempt(m.steps[c]) = b
    BY <1>3 DEF b, LastAttempt, Attempt
  <2>2. Repairable(e) => /\ outcome = "error" /\ b.event.body = "semantic_analysis"
                         /\ N <= RepairLimit
    BY <1>3, <1>4, <1>6, <1>7, RunnerAssumption DEF Repairable
  <2> QED
    BY <1>1, <1>3, <1>4, <1>5, <1>7, <2>1, <2>2 DEF Consistent, StepContract
<1>13. RootContract(m)
  <2>1. Hooks(t, e) => e.body # None /\ (t.root = None \/ e.body = t.root)
    BY <1>7, RunnerAssumption DEF outcome, Hooks, Outcome, OffRoot
  <2>2. m.steps[c].status = "succeeded" /\ c \in Producing <=> Hooks(t, e)
    BY <1>1, <1>7 DEF outcome, Hooks, Repairable
  <2> QED
    BY <1>1, <1>5, <2>1, <2>2 DEF Consistent, RootContract
<1>14. RunStatusContract(m)
  BY <1>1, <1>5, <1>8 DEF Consistent, RunStatusContract
<1>15. AttemptShape(m)
  <2>1. \A k \in Queue : \A n \in Numbers(m, k) : Shaped(n, Attempt(m, k, n))
    <3>1. Shaped(N, b)
      BY <1>1, <1>3, <1>4, <1>5, <1>7 DEF AttemptShape, Shaped
    <3> QED
      BY <1>2, <1>5, <3>1 DEF b, AttemptShape
  <2>2. \A k \in Automatic : /\ m.steps[k].attempts = <<>>
                             /\ m.steps[k].status \in {"pending", "skipped_not_applicable"}
    BY <1>1, <1>5, <1>9, RunnerAssumption DEF AttemptShape
  <2> QED
    BY <2>1, <2>2, Zenon DEF AttemptShape
<1>16. EventsPlaced(m)
  <2>1. ASSUME NEW k \in Queue, NEW n \in Numbers(m, k)
        PROVE  LET a == Attempt(m, k, n) IN
                 /\ a.event # None =>
                      a.event \in m.processed /\ Fits(a.event, k, n, a) /\ a.event.qid = a.qid
                 /\ a.repair # None => a.repair \in m.processed /\ Fits(a.repair, k, n, a)
    <3>1. CASE k = c /\ n = N
      <4>1. LET a == Attempt(t, k, n) IN
              a.repair # None => a.repair \in t.processed /\ Fits(a.repair, k, n, a)
        BY <1>2, <1>5, <2>1 DEF EventsPlaced
      <4> QED
        BY <1>1, <1>4, <1>6, <3>1, <4>1 DEF b, Fits
    <3>2. CASE Attempt(m, k, n) = Attempt(t, k, n)
      BY <1>1, <1>2, <1>5, <3>2 DEF EventsPlaced
    <3> QED
      BY <1>2, <3>1, <3>2
  <2>2. ASSUME NEW d \in m.processed
        PROVE  \E k \in Queue : \E n \in Numbers(m, k) :
                 d \in {Attempt(m, k, n).event, Attempt(m, k, n).repair}
    <3>1. CASE d \in t.processed
      <4>1. PICK k \in Queue : \E n \in Numbers(t, k) :
              d \in {Attempt(t, k, n).event, Attempt(t, k, n).repair}
        BY <1>5, <3>1 DEF EventsPlaced
      <4>2. PICK n \in Numbers(t, k) : d \in {Attempt(t, k, n).event, Attempt(t, k, n).repair}
        BY <4>1
      <4>3. CASE k = c /\ n = N
        <5>1. Attempt(t, c, N).event = None
          <6>1. Attempt(t, c, N).status = "issued"
            BY <1>1, <1>5, <1>6 DEF Consistent, StepContract, LastAttempt, Attempt, N
          <6> QED
            BY <1>1, <1>3, <1>5, <6>1 DEF AttemptShape, Shaped
        <5>2. d = None \/ d = b.repair
          BY <1>4, <4>2, <4>3, <5>1
        <5>3. d # None
          BY <1>1, <3>1, RunnerAssumption DEF States
        <5> QED
          BY <1>1, <1>2, <1>3, <5>2, <5>3 DEF b
      <4>4. CASE ~(k = c /\ n = N)
        BY <1>2, <4>2, <4>4
      <4> QED
        BY <4>3, <4>4
    <3>2. CASE d = e
      BY <1>1, <1>2, <1>3, <1>4, <3>2 DEF b
    <3> QED
      BY <1>1, <2>2, <3>1, <3>2
  <2> QED
    BY <2>1, <2>2, Zenon DEF EventsPlaced
<1> QED
  BY <1>1, <1>10, <1>11, <1>12, <1>13, <1>14, <1>15, <1>16 DEF WellFormed, Consistent

\* The evidence of a complete queue has a terminal status and an id for each step.
LEMMA EvidenceType ==
  ASSUME NEW s, WellFormed(s), Exportable(s)
  PROVE  Evidence(s) \in EvidenceTypes
<1>1. \A k \in Queue : s.steps[k].status \in Terminal
  BY RunnerAssumption DEF WellFormed, Consistent, CursorContract, Exportable, Queue
<1>2. ASSUME NEW k \in Queue
      PROVE  LastQueryId(s.steps[k]) \in QueryIds \cup {None}
  <2> DEFINE attempts == s.steps[k].attempts
             ids == {n \in 1..Len(attempts) : attempts[n].qid # None}
  <2>1. attempts \in Seq(Attempts)
    BY DEF WellFormed, States, StepTypes
  <2>2. \A n \in 1..Len(attempts) : n <= 3
    BY RunnerAssumption DEF WellFormed, AttemptShape, Shaped, Numbers, Attempt
  <2>3. \A n \in 1..Len(attempts) : attempts[n].qid \in QueryIds \cup {None}
    <3>1. \A n \in 1..Len(attempts) : attempts[n] \in Attempts
      BY <2>1
    <3> HIDE DEF attempts
    <3> QED
      BY <3>1 DEF Attempts
  <2>4. CASE ids = {}
    BY <2>4 DEF LastQueryId
  <2>5. CASE ids # {}
    <3>1. ids \subseteq 1..3
      BY <2>1, <2>2
    <3>2. \E n \in ids : \A m \in ids : m <= n
      <4> HIDE DEF ids
      <4>1. CASE 3 \in ids
        BY <3>1, <4>1
      <4>2. CASE 3 \notin ids /\ 2 \in ids
        BY <3>1, <4>2
      <4>3. CASE 3 \notin ids /\ 2 \notin ids
        <5>1. \A n \in ids : n = 1
          BY <3>1, <4>3
        <5>2. PICK n \in ids : TRUE
          BY <2>5
        <5> QED
          BY <5>1, <5>2
      <4> QED
        BY <4>1, <4>2, <4>3
    <3>3. (CHOOSE n \in ids : \A m \in ids : m <= n) \in ids
      BY <3>2, Zenon
    <3> QED
      BY <2>3, <2>5, <3>3 DEF LastQueryId
  <2> QED
    BY <2>4, <2>5
<1> QED
  BY <1>1, <1>2 DEF Evidence, EvidenceTypes

\* Evidence is exported into a well-formed state.
LEMMA ExportedWell ==
  ASSUME NEW s, WellFormed(s), Exportable(s), s.evidence = None
  PROVE  WellFormed([s EXCEPT !.evidence = Evidence(s)])
<1> DEFINE E == Evidence(s)
           m == [s EXCEPT !.evidence = E]
<1>1. s \in States /\ E \in EvidenceTypes
  BY EvidenceType DEF WellFormed
<1> HIDE DEF E
<1>2. /\ m \in States /\ m.steps = s.steps /\ m.cursor = s.cursor /\ m.root = s.root
      /\ m.processed = s.processed /\ m.status = s.status /\ m.final = s.final
      /\ m.evidence = E
  BY <1>1 DEF States
<1> HIDE DEF m
<1>3. QueryIdContract(m) /\ EventsPlaced(m)
  BY <1>2, SameAttempts DEF WellFormed, Consistent
<1>4. CursorContract(m) /\ StepContract(m) /\ RootContract(m)
  BY <1>2 DEF WellFormed, Consistent, CursorContract, StepContract, RootContract
<1>5. RunStatusContract(m)
  BY <1>2, RunnerAssumption DEF WellFormed, Consistent, RunStatusContract, Exportable
<1>6. AttemptShape(m)
  BY <1>2 DEF WellFormed, AttemptShape, Numbers, Attempt
<1> QED
  BY <1>2, <1>3, <1>4, <1>5, <1>6 DEF WellFormed, Consistent, m, E

\* A final analysis is recorded in a well-formed state.
LEMMA FinishedWell ==
  ASSUME NEW s, WellFormed(s), s.status = "queue_complete", s.evidence # None, NEW p \in Patches
  PROVE  WellFormed(Finished(s, p))
<1> DEFINE m == Finished(s, p)
<1>1. s \in States
  BY DEF WellFormed
<1>2. /\ m \in States /\ m.steps = s.steps /\ m.cursor = s.cursor /\ m.root = s.root
      /\ m.processed = s.processed /\ m.status = "finalized" /\ m.final = p
      /\ m.evidence = s.evidence
  BY <1>1 DEF States, Finished
<1> HIDE DEF m
<1>3. QueryIdContract(m) /\ EventsPlaced(m)
  BY <1>2, SameAttempts DEF WellFormed, Consistent
<1>4. CursorContract(m) /\ StepContract(m) /\ RootContract(m)
  BY <1>2 DEF WellFormed, Consistent, CursorContract, StepContract, RootContract
<1>5. RunStatusContract(m)
  BY <1>2, RunnerAssumption DEF WellFormed, Consistent, RunStatusContract
<1>6. AttemptShape(m)
  BY <1>2 DEF WellFormed, AttemptShape, Numbers, Attempt
<1> QED
  BY <1>2, <1>3, <1>4, <1>5, <1>6 DEF WellFormed, Consistent, m

\* The state a run is created with is well formed.
LEMMA InitialWell == WellFormed(InitialState)
<1> DEFINE s == InitialState
<1>1. PendingStep \in StepTypes /\ PendingStep.attempts = <<>>
  BY DEF PendingStep, StepTypes, Terminal
<1>2. s \in States
  BY <1>1, RunnerAssumption DEF InitialState, States
<1>3. /\ s.cursor = 1 /\ s.status = "active" /\ s.evidence = None /\ s.final = None
      /\ s.processed = {}
      /\ \A k \in Queue : /\ s.steps[k].status = "pending" /\ s.steps[k].attempts = <<>>
                          /\ s.steps[k].root = None
  BY DEF InitialState, PendingStep
<1> HIDE DEF s
<1>4. \A k \in Queue : Numbers(s, k) = {}
  BY <1>3 DEF Numbers
<1>5. QueryIdContract(s) /\ EventsPlaced(s)
  BY <1>3, <1>4 DEF QueryIdContract, EventsPlaced
<1>6. CursorContract(s)
  BY <1>3, RunnerAssumption DEF CursorContract, Terminal, Queue
<1>7. StepContract(s) /\ RootContract(s)
  BY <1>3 DEF StepContract, RootContract
<1>8. RunStatusContract(s)
  BY <1>3, RunnerAssumption DEF RunStatusContract
<1>9. AttemptShape(s)
  BY <1>3, <1>4, RunnerAssumption DEF AttemptShape
<1> QED
  BY <1>2, <1>5, <1>6, <1>7, <1>8, <1>9 DEF WellFormed, Consistent, s

\* Asked opens the first attempt of the next manual step.
LEMMA AskedOpens ==
  ASSUME NEW s, WellFormed(s), s.cursor <= K, Current(Skipped(s)).status = "pending"
  PROVE  LET t == Skipped(s)
         IN /\ WellFormed(t) /\ t.cursor <= K /\ t.cursor \notin Automatic
            /\ Opened(t, Asked(s), Query[t.cursor], None) /\ WellFormed(Asked(s))
<1> DEFINE t == Skipped(s)
<1>1. WellFormed(t) /\ t.cursor \in s.cursor..K /\ t.cursor \notin Automatic
  BY SkippedIs, SkippedWell
<1>2. K \in Nat /\ s.cursor \in 1..(K + 1)
  BY RunnerAssumption DEF WellFormed, States
<1>3. t.cursor \in Queue /\ t.cursor <= K /\ t \in States /\ t.processed \subseteq Events
  BY <1>1, <1>2 DEF WellFormed, States, Queue
<1> HIDE DEF t
<1> DEFINE x == Query[t.cursor]
           u == WithAttempt(t, Issued(x, None))
<1>4. x \in SQLs
  BY <1>3 DEF SQLs
<1> HIDE DEF x
<1>5. Opened(t, IF None = None THEN u ELSE [u EXCEPT !.processed = @ \cup {None}], x, None)
  BY <1>3, <1>4, WithAttemptOpens
<1>6. Opened(t, u, x, None)
  BY <1>5, Zenon
<1>7. Asked(s) = u
  BY Zenon DEF Asked, t, x
<1>8. Current(t).status = "pending"
  BY DEF t
<1>9. WellFormed(u)
  BY <1>1, <1>3, <1>6, <1>8, OpenedWell
<1> QED
  BY <1>1, <1>3, <1>6, <1>7, <1>9 DEF t, x

\* Repaired opens one more attempt of the step.
LEMMA RepairedOpens ==
  ASSUME NEW s, WellFormed(s), NEW e, RepairRecordable(s, e)
  PROVE  /\ s.cursor \in Queue /\ s.cursor \notin Automatic
         /\ Opened(s, Repaired(s, e), e.sql, e) /\ WellFormed(Repaired(s, e))
<1>1. s \in States /\ e \in RepairEvents /\ s.cursor <= K /\ Current(s).status = "repair_required"
  BY DEF WellFormed, RepairRecordable
<1>2. s.cursor \in Queue /\ e.sql \in SQLs /\ e # None
  BY <1>1, RunnerAssumption DEF States, Queue, RepairEvents, SQLs, Events
<1>3. s.cursor \notin Automatic
  BY <1>1 DEF WellFormed, AttemptShape, Current
<1>4. Opened(s, Repaired(s, e), e.sql, e)
  BY <1>1, <1>2, WithAttemptOpens, Zenon DEF Repaired
<1>5. WellFormed(Repaired(s, e))
  BY <1>1, <1>2, <1>3, <1>4, OpenedWell
<1> QED
  BY <1>2, <1>3, <1>4, <1>5

\* Whatever an operation makes of a well-formed state is well formed.
LEMMA FollowsWell ==
  ASSUME NEW s, WellFormed(s), NEW m, Follows(s, m)
  PROVE  WellFormed(m)
<1>1. CASE s.cursor <= K /\ Current(Skipped(s)).status = "pending" /\ m = Asked(s)
  BY <1>1, AskedOpens
<1>2. ASSUME NEW e, QueryRecordable(s, e), m = Recorded(s, e)
      PROVE  WellFormed(m)
  BY <1>2, RecordedAnswers, AnsweredWell
<1>3. ASSUME NEW e, RepairRecordable(s, e), m = Repaired(s, e)
      PROVE  WellFormed(m)
  BY <1>3, RepairedOpens
<1>4. CASE Exportable(s) /\ s.evidence = None /\ m = [s EXCEPT !.evidence = Evidence(s)]
  BY <1>4, ExportedWell
<1>5. ASSUME s.status = "queue_complete", s.evidence # None,
             NEW p \in Patches \ Unsound, m = Finished(s, p)
      PROVE  WellFormed(m)
  BY <1>5, FinishedWell
<1> QED
  BY <1>1, <1>2, <1>3, <1>4, <1>5 DEF Follows

-----------------------------------------------------------------------------
(* Inv is inductive.                                                       *)

\* The initial states satisfy it.
LEMMA InitInv == Init => Inv
<1> SUFFICES ASSUME Init
             PROVE  Inv
  OBVIOUS
<1>1. NoOp \in OpTypes
  BY DEF NoOp, OpTypes, PCs
<1>2. TypeOK
  BY <1>1 DEF Init, TypeOK
<1>3. \A w \in Workers : WorkerKnows(w)
  BY DEF Init, WorkerKnows, NoOp, At
<1> QED
  BY <1>2, <1>3 DEF Init, Inv

\* A step of the worker w keeps what the others know if it keeps the files they
\* rely on, the event files only as far as a state refers to them.
LEMMA Others ==
  ASSUME Inv, NEW w \in Workers, NEW x, op' = [op EXCEPT ![w] = x],
         created => created', assembled # None => assembled' # None,
         NEW v \in Workers \ {w},
         op[v].mem # None => events \cap op[v].mem.processed \subseteq events'
  PROVE  WorkerKnows(v)'
<1>1. op'[v] = op[v]
  BY DEF Inv, TypeOK
<1>2. WorkerKnows(v)
  BY DEF Inv
<1> QED
  BY <1>1, <1>2 DEF WorkerKnows, At

\* What a step of w has to keep itself.
LEMMA StepInv ==
  ASSUME Inv, NEW w \in Workers, NEW x \in OpTypes, op' = [op EXCEPT ![w] = x],
         created' \in BOOLEAN, created => created',
         sql' \in [Queue \X (0..RepairLimit) -> SQLs \cup {None}],
         exported' = None \/ exported' \in EvidenceTypes,
         assembled' \in Patches \cup {None}, assembled # None => assembled' # None,
         events' \subseteq Events,
         \A v \in Workers \ {w} : op[v].mem # None =>
           events \cap op[v].mem.processed \subseteq events',
         state' # None => created' /\ WellFormed(state') /\ state'.processed \subseteq events',
         WorkerKnows(w)'
  PROVE  Inv'
<1>1. op' \in [Workers -> OpTypes]
  BY DEF Inv, TypeOK
<1>2. \A v \in Workers : WorkerKnows(v)'
  BY Others
<1>3. state' = None \/ state' \in States
  BY DEF WellFormed
<1> QED
  BY <1>1, <1>2, <1>3 DEF Inv, TypeOK

\* The same for a step that changes nothing but the operation of w.
LEMMA OpStepInv ==
  ASSUME Inv, NEW w \in Workers, NEW x \in OpTypes, op' = [op EXCEPT ![w] = x],
         UNCHANGED disk, WorkerKnows(w)'
  PROVE  Inv'
BY StepInv DEF disk, Inv, TypeOK

\* An operation that ends knows nothing, whether it returns or dies.
LEMMA EndKnows ==
  ASSUME Inv, NEW w \in Workers, NEW x, x \in {NoOp, [NoOp EXCEPT !.died = TRUE]},
         op' = [op EXCEPT ![w] = x]
  PROVE  x \in OpTypes /\ WorkerKnows(w)'
<1>1. /\ x \in OpTypes /\ x.pc = "idle" /\ x.mem = None /\ x.then = "idle" /\ x.call = "none"
  <2>1. CASE x = NoOp
    BY <2>1 DEF NoOp, OpTypes, PCs
  <2>2. CASE x = [NoOp EXCEPT !.died = TRUE]
    BY <2>2 DEF NoOp, OpTypes, PCs
  <2> QED
    BY <2>1, <2>2
<1>2. op'[w] = x
  BY DEF Inv, TypeOK
<1> QED
  BY <1>1, <1>2 DEF WorkerKnows, At

\* An operation may return without a trace.
LEMMA EndInv ==
  ASSUME Inv, NEW w \in Workers, End(w), UNCHANGED disk
  PROVE  Inv'
BY EndKnows, OpStepInv DEF End

-----------------------------------------------------------------------------
(* The steps of a worker, one by one.                                      *)

\* RefuseState
LEMMA RefuseStateInv == ASSUME Inv, NEW w \in Workers, RefuseState(w) PROVE Inv'
BY EndInv DEF RefuseState

\* RunInvestigation creates the run, or goes on with the one there is.
LEMMA RunInvestigationInv == ASSUME Inv, NEW w \in Workers, RunInvestigation(w) PROVE Inv'
<1>1. CASE Begin(w, "run", "next", None, None) /\ UNCHANGED created
  <2> DEFINE x == [NoOp EXCEPT !.call = "run", !.pc = "next", !.event = None, !.patch = None]
  <2>1. op' = [op EXCEPT ![w] = x]
    BY <1>1 DEF Begin
  <2>2. x \in OpTypes /\ x.pc = "next" /\ x.mem = None /\ x.then = "idle" /\ x.call = "run"
    BY DEF NoOp, OpTypes, PCs
  <2> HIDE DEF x
  <2>3. op'[w] = x
    BY <2>1 DEF Inv, TypeOK
  <2>4. WorkerKnows(w)'
    BY <2>2, <2>3 DEF WorkerKnows, At
  <2> QED
    BY <1>1, <2>1, <2>2, <2>4, OpStepInv DEF RunInvestigation, disk
<1>2. CASE /\ ~created /\ created' = TRUE
           /\ op' = [op EXCEPT ![w] = [NoOp EXCEPT !.call = "run", !.pc = "write",
                                      !.mem = InitialState, !.then = "next"]]
  <2> DEFINE x == [NoOp EXCEPT !.call = "run", !.pc = "write", !.mem = InitialState, !.then = "next"]
  <2>1. WellFormed(InitialState) /\ InitialState \in States /\ InitialState.processed = {}
    BY InitialWell DEF WellFormed, InitialState
  <2>2. /\ x \in OpTypes /\ x.pc = "write" /\ x.mem = InitialState /\ x.then = "next"
        /\ x.call = "run"
    <3> HIDE DEF InitialState
    <3> QED
      BY <2>1 DEF NoOp, OpTypes, PCs
  <2> HIDE DEF x
  <2>3. op'[w] = x
    BY <1>2 DEF Inv, TypeOK, x
  <2>4. WorkerKnows(w)'
    BY <1>2, <2>1, <2>2, <2>3, NoneAssumption DEF WorkerKnows, At
  <2> QED
    BY <1>2, <2>2, <2>4, StepInv DEF RunInvestigation, Inv, TypeOK, x
<1> QED
  BY <1>1, <1>2 DEF RunInvestigation

\* WriteState
LEMMA WriteStateInv == ASSUME Inv, NEW w \in Workers, WriteState(w) PROVE Inv'
<1>1. /\ op \in [Workers -> OpTypes] /\ op[w] \in OpTypes /\ op[w].pc = "write"
      /\ op[w].mem # None /\ created /\ WellFormed(op[w].mem) /\ op[w].mem.processed \subseteq events
      /\ op[w].then \in {"idle", "next", "ticket", "assemble"}
      /\ op[w].then = "ticket" => op[w].ticket # None
      /\ op[w].then = "assemble" => op[w].call = "finalize"
      /\ op[w].call = "finalize" => op[w].patch # None /\ op[w].then \in {"idle", "assemble"}
  BY DEF Inv, TypeOK, WorkerKnows, WriteState, At
<1>2. state' = op[w].mem /\ UNCHANGED <<created, sql, events, exported, assembled>>
  BY DEF WriteState
<1>3. CASE op[w].then = "idle"
  <2>1. op' = [op EXCEPT ![w] = NoOp]
    BY <1>3 DEF WriteState, End
  <2>2. NoOp \in OpTypes /\ WorkerKnows(w)'
    BY <2>1, EndKnows
  <2> QED
    BY <1>1, <1>2, <2>1, <2>2, StepInv DEF Inv, TypeOK
<1>4. CASE op[w].then # "idle"
  <2> DEFINE x == [op[w] EXCEPT !.pc = op[w].then, !.mem = None, !.then = "idle"]
  <2>1. op' = [op EXCEPT ![w] = x]
    BY <1>1, <1>4 DEF WriteState, OpTypes
  <2>2. /\ x \in OpTypes /\ x.pc = op[w].then /\ x.mem = None /\ x.then = "idle"
        /\ x.call = op[w].call /\ x.patch = op[w].patch /\ x.ticket = op[w].ticket
    BY <1>1 DEF OpTypes, PCs
  <2> HIDE DEF x
  <2>3. op'[w] = x
    BY <1>1, <2>1
  <2>4. WorkerKnows(w)'
    BY <1>1, <1>4, <2>2, <2>3 DEF WorkerKnows, At
  <2> QED
    BY <1>1, <1>2, <2>1, <2>2, <2>4, StepInv DEF Inv, TypeOK
<1> QED
  BY <1>3, <1>4

\* Going on to another pc with the files and the rest of the operation as they are.
LEMMA GotoInv ==
  ASSUME Inv, NEW w \in Workers, NEW pc \in {"query", "record", "export", "assemble", "next"},
         op[w].pc \notin {"log", "write"}, Goto(w, pc), UNCHANGED disk,
         pc # "assemble" => op[w].pc \in {"next", "ticket"},
         pc = "query" => op[w].ticket # None,
         pc = "record" => op[w].event # None,
         pc = "assemble" => op[w].call = "finalize"
  PROVE  Inv'
<1> DEFINE x == [op[w] EXCEPT !.pc = pc]
<1>1. op \in [Workers -> OpTypes] /\ op[w] \in OpTypes /\ WorkerKnows(w)
  BY DEF Inv, TypeOK
<1>2. op' = [op EXCEPT ![w] = x]
  BY <1>1 DEF Goto
<1>3. /\ x \in OpTypes /\ x.pc = pc /\ x.mem = op[w].mem /\ x.then = op[w].then
      /\ x.call = op[w].call /\ x.patch = op[w].patch /\ x.ticket = op[w].ticket
      /\ x.event = op[w].event
  BY <1>1 DEF OpTypes, PCs
<1> HIDE DEF x
<1>4. op'[w] = x
  BY <1>1, <1>2
<1>5. WorkerKnows(w)'
  BY <1>1, <1>3, <1>4 DEF WorkerKnows, At
<1> QED
  BY <1>2, <1>3, <1>5, OpStepInv

\* Of a loaded state: the state file is well formed, the run exists.
LEMMA Loaded ==
  ASSUME Inv, Loadable
  PROVE  /\ created /\ WellFormed(state) /\ state \in States /\ Consistent(state)
         /\ state.cursor \in 1..(K + 1) /\ (state.cursor <= K => state.cursor \in Queue)
         /\ state.processed \subseteq events /\ state # None
<1>1. created /\ WellFormed(state) /\ state.processed \subseteq events /\ state # None
  BY DEF Inv, Loadable
<1> QED
  BY <1>1, RunnerAssumption DEF WellFormed, States, Queue

\* IssueQuery
LEMMA IssueQueryInv == ASSUME Inv, NEW w \in Workers, IssueQuery(w) PROVE Inv'
<1> DEFINE t == Skipped(state)
           m == Asked(state)
           c == t.cursor
           x == [op[w] EXCEPT !.pc = "write", !.mem = m, !.then = "ticket", !.ticket = Ticket(m)]
<1>1. /\ op \in [Workers -> OpTypes] /\ op[w] \in OpTypes /\ WorkerKnows(w) /\ op[w].pc = "next"
      /\ Loadable /\ state.cursor <= K /\ Current(t).status = "pending"
  BY DEF Inv, TypeOK, IssueQuery, AtNext, At
<1>2. /\ sql' = [sql EXCEPT ![<<c, 0>>] = Query[c]]
      /\ op' = [op EXCEPT ![w] = x]
      /\ UNCHANGED <<created, state, events, exported, assembled>>
  BY <1>1 DEF IssueQuery, Asked, OpTypes
<1>3. /\ created /\ WellFormed(state) /\ state.processed \subseteq events
  BY <1>1, Loaded
<1>4. WellFormed(t) /\ Opened(t, m, Query[c], None) /\ WellFormed(m)
  BY <1>1, <1>3, AskedOpens
<1>5. t.processed = state.processed
  BY <1>1, <1>3, SkippedIs
<1> HIDE DEF t, m
<1>6. /\ m \in States /\ m.processed = state.processed /\ c \in Queue /\ m.cursor = c
      /\ Ticket(m) = [step |-> c, attempt |-> 0, sql |-> Query[c]]
  <2>1. m.cursor = c /\ c \in Queue /\ m.processed = t.processed \cup ({None} \ {None})
    BY <1>4 DEF Opened, OneStep
  <2>2. t.steps[c].attempts = <<>>
    BY <1>1, <1>4, <2>1 DEF WellFormed, Consistent, StepContract, Current, Terminal, t
  <2>3. /\ Len(m.steps[c].attempts) = Len(t.steps[c].attempts) + 1
        /\ Attempt(m, c, Len(t.steps[c].attempts) + 1) = Issued(Query[c], None)
    BY <1>4 DEF Opened
  <2>4. Len(m.steps[c].attempts) = 1 /\ LastAttempt(m.steps[c]).sql = Query[c]
    BY <2>2, <2>3 DEF Attempt, LastAttempt, Issued
  <2> QED
    BY <1>4, <1>5, <2>1, <2>4 DEF Ticket, Current, WellFormed
<1>7. Query[c] \in SQLs /\ 0 \in 0..RepairLimit
  BY <1>6, RunnerAssumption DEF SQLs
<1>8. Ticket(m) \in Tickets
  BY <1>6, <1>7 DEF Tickets
<1>9. Ticket(m) # None /\ m # None
  BY <1>6, <1>8, NoneAssumption
<1>10. /\ x \in OpTypes /\ x.pc = "write" /\ x.mem = m /\ x.then = "ticket"
       /\ x.ticket = Ticket(m) /\ x.call = op[w].call /\ x.patch = op[w].patch
  <2> HIDE DEF c
  <2> QED
    BY <1>1, <1>6, <1>8 DEF OpTypes, PCs
<1> HIDE DEF x
<1>11. op'[w] = x
  BY <1>1, <1>2
<1>12. WorkerKnows(w)'
  BY <1>1, <1>2, <1>3, <1>4, <1>6, <1>9, <1>10, <1>11 DEF WorkerKnows, At
<1>13. sql' \in [Queue \X (0..RepairLimit) -> SQLs \cup {None}]
  BY <1>2, <1>7 DEF Inv, TypeOK
<1> QED
  BY <1>2, <1>10, <1>12, <1>13, StepInv DEF Inv, TypeOK

\* ResumeQuery
LEMMA ResumeQueryInv == ASSUME Inv, NEW w \in Workers, ResumeQuery(w) PROVE Inv'
<1> DEFINE x == [op[w] EXCEPT !.pc = "ticket", !.ticket = Ticket(state)]
           attempts == Current(state).attempts
<1>1. /\ op \in [Workers -> OpTypes] /\ op[w] \in OpTypes /\ WorkerKnows(w) /\ op[w].pc = "next"
      /\ Loadable /\ state.cursor <= K /\ Current(state).status = "in_progress"
  BY DEF Inv, TypeOK, ResumeQuery, AtNext, At
<1>2. op' = [op EXCEPT ![w] = x] /\ UNCHANGED disk
  BY <1>1 DEF ResumeQuery, OpTypes
<1>3. WellFormed(state) /\ state \in States /\ Consistent(state) /\ state.cursor \in Queue
  BY <1>1, Loaded
<1>4. attempts \in Seq(Attempts) /\ attempts # <<>>
  BY <1>1, <1>3 DEF Consistent, StepContract, Current, States, StepTypes
<1>5. Len(attempts) \in 1..(RepairLimit + 1) /\ Len(attempts) \in Nat
  <2>1. Len(attempts) \in Nat /\ Len(attempts) # 0
    BY <1>4
  <2>2. Len(attempts) \in Numbers(state, state.cursor)
    BY <2>1 DEF Numbers, Current
  <2>3. Len(attempts) <= RepairLimit + 1
    BY <1>3, <2>2 DEF WellFormed, AttemptShape, Shaped
  <2> QED
    BY <2>1, <2>3, RunnerAssumption
<1>6. LastAttempt(Current(state)).sql \in SQLs
  <2>1. attempts[Len(attempts)] \in Attempts
    BY <1>4, <1>5
  <2> QED
    BY <2>1 DEF Attempts, LastAttempt
<1>7. Ticket(state) \in Tickets
  BY <1>3, <1>5, <1>6, RunnerAssumption DEF Tickets, Ticket
<1>8. Ticket(state) # None
  BY <1>7, NoneAssumption
<1>9. /\ x \in OpTypes /\ x.pc = "ticket" /\ x.mem = op[w].mem /\ x.then = op[w].then
      /\ x.ticket = Ticket(state) /\ x.call = op[w].call /\ x.patch = op[w].patch
  BY <1>1, <1>7 DEF OpTypes, PCs
<1> HIDE DEF x
<1>10. op'[w] = x
  BY <1>1, <1>2
<1>11. WorkerKnows(w)'
  BY <1>1, <1>8, <1>9, <1>10 DEF WorkerKnows, At
<1> QED
  BY <1>2, <1>9, <1>11, OpStepInv

\* ExecutionTicket, RepairTicket, QueueComplete
LEMMA GoingOnInv ==
  ASSUME Inv, NEW w \in Workers, ExecutionTicket(w) \/ RepairTicket(w) \/ QueueComplete(w)
  PROVE  Inv'
<1>1. CASE End(w) /\ UNCHANGED disk
  BY <1>1, EndInv
<1>2. CASE At(w, "ticket") /\ Goto(w, "query") /\ UNCHANGED disk
  BY <1>2, GotoInv DEF At, Inv, WorkerKnows
<1>3. CASE At(w, "next") /\ Resubmitting(w) /\ Goto(w, "record") /\ UNCHANGED disk
  BY <1>3, GotoInv DEF At, Resubmitting
<1>4. CASE At(w, "next") /\ Goto(w, "export") /\ UNCHANGED disk
  BY <1>4, GotoInv DEF At
<1> QED
  BY <1>1, <1>2, <1>3, <1>4 DEF ExecutionTicket, RepairTicket, QueueComplete, AtNext

\* The query ids DView may give are ids.
LEMMA OfferedIds == ASSUME TypeOK PROVE Offered \subseteq QueryIds
<1>1. \A e \in Events : e.qid \in QueryIds \cup {None}
  BY DEF Events, QueryEvents, RepairEvents
<1>2. \A e \in (events \cup {op[v].event : v \in Workers}) \ {None} : e \in Events
  BY DEF TypeOK, OpTypes
<1>3. Seen \subseteq QueryIds
  BY <1>1, <1>2 DEF Seen
<1> QED
  BY <1>3 DEF Offered

\* DViewReturns, DViewFails
LEMMA DViewInv ==
  ASSUME Inv, NEW w \in Workers, DViewReturns(w) \/ DViewFails(w)
  PROVE  Inv'
<1>1. PICK kind, q, b :
        /\ DViewAnswers(w, kind, q, b) /\ q \in QueryIds
        /\ \/ kind = "query_returned" /\ b \in Results
           \/ kind = "query_error" /\ b \in Classes
  BY OfferedIds DEF DViewReturns, DViewFails, Inv
<1> DEFINE t == op[w].ticket
           e == [kind |-> kind, step |-> t.step, attempt |-> t.attempt,
                 sql |-> t.sql, qid |-> q, body |-> b]
           x == [op[w] EXCEPT !.pc = "record", !.ticket = None, !.event = e]
<1>2. /\ op \in [Workers -> OpTypes] /\ op[w] \in OpTypes /\ WorkerKnows(w) /\ op[w].pc = "query"
  BY <1>1 DEF Inv, TypeOK, DViewAnswers, At
<1>3. t \in Tickets
  BY <1>2 DEF WorkerKnows, OpTypes
<1>4. e \in Events
  BY <1>1, <1>3 DEF Events, QueryEvents, Tickets
<1>5. op' = [op EXCEPT ![w] = x] /\ UNCHANGED disk
  BY <1>1, <1>2 DEF DViewAnswers, OpTypes
<1> HIDE DEF e
<1>6. /\ x \in OpTypes /\ x.pc = "record" /\ x.mem = op[w].mem /\ x.then = op[w].then
      /\ x.event = e /\ x.call = op[w].call /\ x.patch = op[w].patch /\ x.ticket = None
  BY <1>2, <1>4 DEF OpTypes, PCs
<1> HIDE DEF x
<1>7. op'[w] = x
  BY <1>2, <1>5
<1>8. op[w].then = "idle"
  BY <1>2 DEF WorkerKnows, At
<1>9. WorkerKnows(w)'
  BY <1>2, <1>4, <1>6, <1>7, <1>8, RunnerAssumption DEF WorkerKnows, At
<1> QED
  BY <1>5, <1>6, <1>9, OpStepInv

\* RecordReplay
LEMMA RecordReplayInv == ASSUME Inv, NEW w \in Workers, RecordReplay(w) PROVE Inv'
<1> DEFINE x == [op[w] EXCEPT !.pc = "next", !.event = None]
<1>1. /\ op \in [Workers -> OpTypes] /\ op[w] \in OpTypes /\ WorkerKnows(w) /\ op[w].pc = "record"
  BY DEF Inv, TypeOK, RecordReplay, AtRecord, At
<1>2. op' = [op EXCEPT ![w] = x] /\ UNCHANGED disk
  BY <1>1 DEF RecordReplay, OpTypes
<1>3. /\ x \in OpTypes /\ x.pc = "next" /\ x.mem = op[w].mem /\ x.then = op[w].then
      /\ x.call = op[w].call /\ x.patch = op[w].patch /\ x.ticket = op[w].ticket
  BY <1>1 DEF OpTypes, PCs
<1> HIDE DEF x
<1>4. op'[w] = x
  BY <1>1, <1>2
<1>5. WorkerKnows(w)'
  BY <1>1, <1>3, <1>4 DEF WorkerKnows, At
<1> QED
  BY <1>2, <1>3, <1>5, OpStepInv

\* What goes to the log: a state with the event of the operation added.
LEMMA ToLogKnows ==
  ASSUME Inv, NEW w \in Workers, At(w, "record"), Loadable, UNCHANGED <<created, events>>,
         NEW m, WellFormed(m), m.processed = state.processed \cup {op[w].event},
         op' = [op EXCEPT ![w] = [op[w] EXCEPT !.pc = "log", !.mem = m]]
  PROVE  [op[w] EXCEPT !.pc = "log", !.mem = m] \in OpTypes /\ WorkerKnows(w)'
<1> DEFINE x == [op[w] EXCEPT !.pc = "log", !.mem = m]
<1>1. /\ op \in [Workers -> OpTypes] /\ op[w] \in OpTypes /\ WorkerKnows(w) /\ op[w].pc = "record"
  BY DEF Inv, TypeOK, At
<1>2. created /\ state.processed \subseteq events
  BY Loaded
<1>3. m \in States /\ m # None
  BY NoneAssumption DEF WellFormed
<1>4. /\ x \in OpTypes /\ x.pc = "log" /\ x.mem = m /\ x.then = op[w].then /\ x.event = op[w].event
      /\ x.call = op[w].call /\ x.patch = op[w].patch /\ x.ticket = op[w].ticket
  BY <1>1, <1>3 DEF OpTypes, PCs
<1> HIDE DEF x
<1>5. op'[w] = x
  BY <1>1 DEF x
<1>6. WorkerKnows(w)'
  BY <1>1, <1>2, <1>3, <1>4, <1>5 DEF WorkerKnows, At
<1> QED
  BY <1>4, <1>6 DEF x

\* RecordQuery
LEMMA RecordQueryInv == ASSUME Inv, NEW w \in Workers, RecordQuery(w) PROVE Inv'
<1> DEFINE e == op[w].event
           m == Recorded(state, e)
           x == [op[w] EXCEPT !.pc = "log", !.mem = m]
<1>1. /\ op \in [Workers -> OpTypes] /\ op[w] \in OpTypes /\ At(w, "record")
      /\ Loadable /\ QueryRecordable(state, e)
  BY DEF Inv, TypeOK, RecordQuery, AtRecord
<1>2. op' = [op EXCEPT ![w] = x] /\ UNCHANGED disk
  BY <1>1 DEF RecordQuery, OpTypes
<1>3. WellFormed(state)
  BY <1>1, Loaded
<1>4. Answered(state, m, e) /\ WellFormed(m)
  BY <1>1, <1>3, RecordedAnswers, AnsweredWell
<1>5. m.processed = state.processed \cup {e}
  BY <1>4 DEF Answered
<1> HIDE DEF m, e
<1>6. x \in OpTypes /\ WorkerKnows(w)'
  BY <1>1, <1>2, <1>4, <1>5, ToLogKnows DEF disk, e
<1> QED
  BY <1>2, <1>6, OpStepInv

\* RecordRepair
LEMMA RecordRepairInv == ASSUME Inv, NEW w \in Workers, RecordRepair(w) PROVE Inv'
<1> DEFINE e == op[w].event
           m == Repaired(state, e)
           x == [op[w] EXCEPT !.pc = "log", !.mem = m]
<1>1. /\ op \in [Workers -> OpTypes] /\ op[w] \in OpTypes /\ At(w, "record")
      /\ Loadable /\ RepairRecordable(state, e)
  BY DEF Inv, TypeOK, RecordRepair, AtRecord
<1>2. /\ op' = [op EXCEPT ![w] = x] /\ sql' = [sql EXCEPT ![<<e.step, e.attempt>>] = e.sql]
      /\ UNCHANGED <<created, state, events, exported, assembled>>
  BY <1>1 DEF RecordRepair, OpTypes
<1>3. WellFormed(state)
  BY <1>1, Loaded
<1>4. Opened(state, m, e.sql, e) /\ WellFormed(m)
  BY <1>1, <1>3, RepairedOpens
<1>5. e \in RepairEvents /\ e # None
  BY <1>1, RunnerAssumption DEF RepairRecordable, Events
<1>6. m.processed = state.processed \cup {e}
  BY <1>4, <1>5 DEF Opened
<1>7. e.sql \in SQLs
  BY <1>5 DEF RepairEvents, SQLs
<1>8. sql' \in [Queue \X (0..RepairLimit) -> SQLs \cup {None}]
  BY <1>2, <1>7 DEF Inv, TypeOK
<1> HIDE DEF m, e
<1>9. x \in OpTypes /\ WorkerKnows(w)'
  BY <1>1, <1>2, <1>4, <1>6, ToLogKnows DEF e
<1> QED
  BY <1>2, <1>8, <1>9, StepInv DEF Inv, TypeOK

\* What a state or an operation refers to.
LEMMA ReferencedHas ==
  ASSUME NEW workers \in SUBSET Workers
  PROVE  /\ state # None => state.processed \subseteq Referenced(workers)
         /\ \A v \in workers : op[v].mem # None => op[v].mem.processed \subseteq Referenced(workers)
BY DEF Referenced

\* LogEvent
LEMMA LogEventInv == ASSUME Inv, NEW w \in Workers, LogEvent(w) PROVE Inv'
<1> DEFINE e == op[w].event
           x == [op[w] EXCEPT !.pc = "write", !.then = AfterRecord(w), !.event = None]
<1>1. /\ op \in [Workers -> OpTypes] /\ op[w] \in OpTypes /\ WorkerKnows(w) /\ op[w].pc = "log"
  BY DEF Inv, TypeOK, LogEvent, At
<1>2. /\ op' = [op EXCEPT ![w] = x] /\ events' = (events \cap Referenced(Workers)) \cup {e}
      /\ UNCHANGED <<created, state, sql, exported, assembled>>
  BY <1>1 DEF LogEvent, OpTypes
<1>3. AfterRecord(w) \in {"idle", "next"}
  BY DEF AfterRecord
<1>4. /\ x \in OpTypes /\ x.pc = "write" /\ x.mem = op[w].mem /\ x.then = AfterRecord(w)
      /\ x.call = op[w].call /\ x.patch = op[w].patch /\ x.ticket = op[w].ticket
  BY <1>1, <1>3 DEF OpTypes, PCs
<1> HIDE DEF x
<1>5. op'[w] = x
  BY <1>1, <1>2
<1>6. /\ op[w].mem # None /\ op[w].mem.processed \subseteq events \cup {e}
      /\ e # None /\ e \in Events
  BY <1>1 DEF WorkerKnows, At, OpTypes
<1>7. op[w].mem.processed \subseteq Referenced(Workers)
  BY <1>6, ReferencedHas
<1>8. op[w].mem.processed \subseteq events'
  BY <1>2, <1>6, <1>7
<1>9. WorkerKnows(w)'
  BY <1>1, <1>2, <1>3, <1>4, <1>5, <1>8 DEF WorkerKnows, At
<1>10. events' \subseteq Events
  BY <1>2, <1>6 DEF Inv, TypeOK
<1>11. \A v \in Workers : op[v].mem # None => events \cap op[v].mem.processed \subseteq events'
  BY <1>2, ReferencedHas
<1>12. state # None => created /\ WellFormed(state) /\ state.processed \subseteq events'
  BY <1>2, ReferencedHas DEF Inv
<1> QED
  BY <1>2, <1>4, <1>9, <1>10, <1>11, <1>12, StepInv DEF Inv, TypeOK

\* A call begins with nothing in memory.
LEMMA BeginInv ==
  ASSUME Inv, NEW w \in Workers, NEW call \in {"run", "record", "finalize"},
         NEW pc \in {"next", "record", "export"}, NEW e \in Events \cup {None},
         NEW p \in Patches \cup {None}, Begin(w, call, pc, e, p), UNCHANGED disk,
         pc = "record" => e # None, call = "finalize" => p # None /\ pc = "export"
  PROVE  Inv'
<1> DEFINE x == [NoOp EXCEPT !.call = call, !.pc = pc, !.event = e, !.patch = p]
<1>1. op' = [op EXCEPT ![w] = x]
  BY DEF Begin
<1>2. /\ x \in OpTypes /\ x.pc = pc /\ x.mem = None /\ x.then = "idle" /\ x.call = call
      /\ x.event = e /\ x.patch = p
  BY DEF NoOp, OpTypes, PCs
<1> HIDE DEF x
<1>3. op'[w] = x
  BY <1>1 DEF Inv, TypeOK
<1>4. WorkerKnows(w)'
  BY <1>2, <1>3 DEF WorkerKnows, At
<1> QED
  BY <1>1, <1>2, <1>4, OpStepInv

\* SubmitRepair, RecordExternal, Finalize
LEMMA CallInv == ASSUME Inv, NEW w \in Workers, Call(w) PROVE Inv'
<1>1. CASE RunInvestigation(w)
  BY <1>1, RunInvestigationInv
<1>2. ASSUME NEW e \in RepairEvents, SubmitRepair(w, e)
      PROVE  Inv'
  BY <1>2, BeginInv DEF SubmitRepair, Events
<1>3. ASSUME NEW e \in External, RecordExternal(w, e)
      PROVE  Inv'
  <2>1. e \in Events /\ e # None
    BY RunnerAssumption
  <2> QED
    BY <1>3, <2>1, BeginInv DEF RecordExternal
<1>4. ASSUME NEW p \in Patches, Finalize(w, p)
      PROVE  Inv'
  <2>1. p # None
    BY RunnerAssumption
  <2> QED
    BY <1>4, <2>1, BeginInv DEF Finalize
<1> QED
  BY <1>1, <1>2, <1>3, <1>4 DEF Call

\* What goes to the state file: a state with no new event in it.
LEMMA ToWriteKnows ==
  ASSUME Inv, NEW w \in Workers, op[w].pc \in {"export", "validate"}, created,
         UNCHANGED <<created, events>>,
         NEW m, WellFormed(m), m.processed \subseteq events,
         NEW pc \in {"idle", "assemble"}, pc = "assemble" => op[w].call = "finalize",
         op' = [op EXCEPT ![w] = [op[w] EXCEPT !.pc = "write", !.mem = m, !.then = pc]]
  PROVE  /\ [op[w] EXCEPT !.pc = "write", !.mem = m, !.then = pc] \in OpTypes
         /\ WorkerKnows(w)'
<1> DEFINE x == [op[w] EXCEPT !.pc = "write", !.mem = m, !.then = pc]
<1>1. op \in [Workers -> OpTypes] /\ op[w] \in OpTypes /\ WorkerKnows(w)
  BY DEF Inv, TypeOK
<1>2. m \in States /\ m # None
  BY NoneAssumption DEF WellFormed
<1>3. /\ x \in OpTypes /\ x.pc = "write" /\ x.mem = m /\ x.then = pc
      /\ x.call = op[w].call /\ x.patch = op[w].patch /\ x.ticket = op[w].ticket
  BY <1>1, <1>2 DEF OpTypes, PCs
<1> HIDE DEF x
<1>4. op'[w] = x
  BY <1>1 DEF x
<1>5. WorkerKnows(w)'
  BY <1>1, <1>2, <1>3, <1>4 DEF WorkerKnows, At
<1> QED
  BY <1>3, <1>5 DEF x

\* Export
LEMMA ExportInv == ASSUME Inv, NEW w \in Workers, Export(w) PROVE Inv'
<1> DEFINE E == Evidence(state)
           m == [state EXCEPT !.evidence = E]
           x == [op[w] EXCEPT !.pc = "write", !.mem = m, !.then = AfterExport(w)]
<1>1. /\ op \in [Workers -> OpTypes] /\ op[w] \in OpTypes /\ op[w].pc = "export"
      /\ Loadable /\ Exportable(state) /\ state.evidence = None /\ exported' = E
      /\ UNCHANGED <<created, state, sql, events, assembled>>
  BY DEF Inv, TypeOK, Export, AtExport, At
<1>2. op' = [op EXCEPT ![w] = x]
  BY <1>1 DEF Export, Commit, OpTypes
<1>3. WellFormed(state) /\ state \in States /\ created /\ state.processed \subseteq events
  BY <1>1, Loaded
<1>4. WellFormed(m) /\ E \in EvidenceTypes
  BY <1>1, <1>3, ExportedWell, EvidenceType
<1> HIDE DEF E
<1>5. m.processed = state.processed
  BY <1>3 DEF States
<1>6. AfterExport(w) \in {"idle", "assemble"} /\ (AfterExport(w) = "assemble" => op[w].call = "finalize")
  BY DEF AfterExport
<1> HIDE DEF m
<1>7. x \in OpTypes /\ WorkerKnows(w)'
  BY <1>1, <1>2, <1>3, <1>4, <1>5, <1>6, ToWriteKnows
<1> QED
  BY <1>1, <1>2, <1>4, <1>7, StepInv DEF Inv, TypeOK

\* ExportAgain
LEMMA ExportAgainInv == ASSUME Inv, NEW w \in Workers, ExportAgain(w) PROVE Inv'
<1>1. op[w].pc = "export" /\ UNCHANGED disk
  BY DEF ExportAgain, AtExport, At
<1>2. CASE AfterExport(w) = "idle"
  BY <1>1, <1>2, EndInv DEF ExportAgain
<1>3. CASE AfterExport(w) # "idle"
  <2>1. AfterExport(w) = "assemble" /\ op[w].call = "finalize"
    BY <1>3 DEF AfterExport
  <2> QED
    BY <1>1, <1>3, <2>1, GotoInv DEF ExportAgain
<1> QED
  BY <1>2, <1>3

\* AssembleFinal
LEMMA AssembleFinalInv == ASSUME Inv, NEW w \in Workers, AssembleFinal(w) PROVE Inv'
<1> DEFINE x == [op[w] EXCEPT !.pc = "validate"]
<1>1. /\ op \in [Workers -> OpTypes] /\ op[w] \in OpTypes /\ WorkerKnows(w) /\ op[w].pc = "assemble"
      /\ assembled' = op[w].patch /\ UNCHANGED <<created, state, sql, events, exported>>
  BY DEF Inv, TypeOK, AssembleFinal, At
<1>2. op' = [op EXCEPT ![w] = x]
  BY <1>1 DEF AssembleFinal, Goto
<1>3. op[w].patch \in Patches /\ op[w].patch # None
  BY <1>1 DEF WorkerKnows, OpTypes
<1>4. /\ x \in OpTypes /\ x.pc = "validate" /\ x.mem = op[w].mem /\ x.then = op[w].then
      /\ x.call = op[w].call /\ x.patch = op[w].patch /\ x.ticket = op[w].ticket
  BY <1>1 DEF OpTypes, PCs
<1> HIDE DEF x
<1>5. op'[w] = x
  BY <1>1, <1>2
<1>6. WorkerKnows(w)'
  BY <1>1, <1>3, <1>4, <1>5 DEF WorkerKnows, At
<1> QED
  BY <1>1, <1>2, <1>3, <1>4, <1>6, StepInv DEF Inv, TypeOK

\* ValidateFinal
LEMMA ValidateFinalInv == ASSUME Inv, NEW w \in Workers, ValidateFinal(w) PROVE Inv'
<1> DEFINE m == Finished(state, assembled)
           x == [op[w] EXCEPT !.pc = "write", !.mem = m, !.then = "idle"]
<1>1. /\ op \in [Workers -> OpTypes] /\ op[w] \in OpTypes /\ WorkerKnows(w) /\ op[w].pc = "validate"
      /\ Loadable /\ state.status = "queue_complete" /\ state.evidence # None
      /\ UNCHANGED disk
  BY DEF Inv, TypeOK, ValidateFinal, Finalizable, At
<1>2. op' = [op EXCEPT ![w] = x]
  BY <1>1 DEF ValidateFinal, Commit, Finished, OpTypes
<1>3. WellFormed(state) /\ state \in States /\ created /\ state.processed \subseteq events
  BY <1>1, Loaded
<1>4. assembled \in Patches
  BY <1>1 DEF Inv, TypeOK, WorkerKnows, At
<1>5. WellFormed(m)
  BY <1>1, <1>3, <1>4, FinishedWell
<1>6. m.processed = state.processed
  BY <1>3 DEF States, Finished
<1> HIDE DEF m
<1>7. x \in OpTypes /\ WorkerKnows(w)'
  BY <1>1, <1>2, <1>3, <1>5, <1>6, ToWriteKnows DEF disk
<1> QED
  BY <1>1, <1>2, <1>7, OpStepInv

\* Fail: the operation is gone, and with it the event files that only it refers to.
LEMMA FailInv == ASSUME Inv, NEW w \in Workers, Fail(w) PROVE Inv'
<1> DEFINE x == [NoOp EXCEPT !.died = TRUE]
<1>1. /\ op' = [op EXCEPT ![w] = x] /\ events' = events \cap Referenced(Workers \ {w})
      /\ UNCHANGED <<created, state, sql, exported, assembled>>
  BY DEF Fail
<1>2. x \in OpTypes /\ WorkerKnows(w)'
  BY <1>1, EndKnows
<1>3. events' \subseteq Events
  BY <1>1 DEF Inv, TypeOK
<1>4. \A v \in Workers \ {w} : op[v].mem # None => events \cap op[v].mem.processed \subseteq events'
  BY <1>1, ReferencedHas
<1>5. state # None => created /\ WellFormed(state) /\ state.processed \subseteq events'
  BY <1>1, ReferencedHas DEF Inv
<1> QED
  BY <1>1, <1>2, <1>3, <1>4, <1>5, StepInv DEF Inv, TypeOK

\* Abandon
LEMMA AbandonInv == ASSUME Inv, NEW w \in Workers, Abandon(w) PROVE Inv'
<1> DEFINE x == [op[w] EXCEPT !.abandoned = TRUE]
<1>1. op \in [Workers -> OpTypes] /\ op[w] \in OpTypes /\ WorkerKnows(w) /\ UNCHANGED disk
  BY DEF Inv, TypeOK, Abandon
<1>2. op' = [op EXCEPT ![w] = x]
  BY <1>1 DEF Abandon
<1>3. /\ x \in OpTypes /\ x.pc = op[w].pc /\ x.mem = op[w].mem /\ x.then = op[w].then
      /\ x.call = op[w].call /\ x.patch = op[w].patch /\ x.ticket = op[w].ticket
      /\ x.event = op[w].event
  BY <1>1 DEF OpTypes, PCs
<1> HIDE DEF x
<1>4. op'[w] = x
  BY <1>1, <1>2
<1>5. WorkerKnows(w)'
  BY <1>1, <1>3, <1>4 DEF WorkerKnows, At, disk
<1> QED
  BY <1>1, <1>2, <1>3, <1>5, OpStepInv

\* Every step keeps Inv.
LEMMA NextInv == Inv /\ [Next]_vars => Inv'
<1> SUFFICES ASSUME Inv, [Next]_vars
             PROVE  Inv'
  OBVIOUS
<1>1. ASSUME NEW w \in Workers, Local(w)
      PROVE  Inv'
  <2>1. CASE RecordRefuses(w) \/ ExportRefuses(w) \/ ValidateEnds(w)
    BY <2>1, EndInv DEF RecordRefuses, ExportRefuses, ValidateEnds
  <2> QED
    BY <1>1, <2>1, RefuseStateInv, WriteStateInv, IssueQueryInv, ResumeQueryInv, GoingOnInv,
       RecordReplayInv, RecordQueryInv, RecordRepairInv, LogEventInv, ExportInv,
       ExportAgainInv, AssembleFinalInv, ValidateFinalInv DEF Local
<1>2. ASSUME NEW w \in Workers, Step(w)
      PROVE  Inv'
  BY <1>1, <1>2, DViewInv DEF Step
<1>3. CASE UNCHANGED vars
  BY <1>3 DEF vars, disk, Inv, TypeOK, WorkerKnows, At
<1> QED
  BY <1>2, <1>3, CallInv, FailInv, AbandonInv DEF Next

\* Inv holds of every behavior, also of those with cancelled calls.
THEOREM Invariant == Spec => []Inv
BY InitInv, NextInv, PTL DEF Spec

\* Every field of the state file, the other files and the workers has its type, for
\* any number of workers, steps, roots and patches.
THEOREM TypeCorrect == Spec => []TypeOK
<1>1. Inv => TypeOK
  BY DEF Inv
<1> QED
  BY <1>1, Invariant, PTL

\* Even when a worker that outlives its call and its successors overwrite each
\* other's state, the state file is never a mixture of two.
THEOREM NeverAMixture == Spec => []StateConsistent
<1>1. Inv => StateConsistent
  BY DEF Inv, StateConsistent, WellFormed
<1> QED
  BY <1>1, Invariant, PTL

\* Each processed event stands in exactly the attempt it answers or opens, and its
\* file was written first: also with cancelled calls.
THEOREM EventsRecordedOnce == Spec => []EventsOnce
<1>1. Inv => EventsOnce
  BY DEF Inv, EventsOnce, WellFormed
<1> QED
  BY <1>1, Invariant, PTL

-----------------------------------------------------------------------------
(* The files of one worker.  Without cancelled calls Serial is inductive   *)
(* too.                                                                    *)

\* A well-formed state whose SQL files hold what it says is one the loader accepts.
LEMMA FiledLoads ==
  ASSUME NEW s, WellFormed(s), Filed(s, sql)
  PROVE  StateContract(s)
<1>1. AttemptContract(s)
  BY DEF AttemptContract, AttemptAccepted, Filed, WellFormed, AttemptShape, Shaped
<1> QED
  BY <1>1 DEF StateContract, WellFormed, Consistent

\* The SQL file of a new attempt is written beside those of the others.
LEMMA OpenedFiled ==
  ASSUME NEW t, NEW m, NEW x, NEW e, Opened(t, m, x, e), WellFormed(t), NEW files,
         Filed(t, files), files \in [Queue \X (0..RepairLimit) -> SQLs \cup {None}],
         Len(t.steps[t.cursor].attempts) <= RepairLimit
  PROVE  LET files2 == [files EXCEPT ![<<t.cursor, Len(t.steps[t.cursor].attempts)>>] = x]
         IN Filed(t, files2) /\ Filed(m, files2)
<1> DEFINE c == t.cursor
           files2 == [files EXCEPT ![<<c, Len(t.steps[c].attempts)>>] = x]
           N == Len(t.steps[c].attempts)
<1>1. /\ c \in Queue /\ N \in Nat /\ Attempt(m, c, N + 1).sql = x /\ RepairLimit \in Nat
      /\ \A k \in Queue : \A n \in Numbers(m, k) :
           \/ k = c /\ n = N + 1
           \/ n \in Numbers(t, k) /\ Attempt(m, k, n) = Attempt(t, k, n)
  BY RunnerAssumption DEF Opened, OneStep, Issued
<1>2. <<c, N>> \in Queue \X (0..RepairLimit)
  BY <1>1
<1>3. \A k \in Queue : \A n \in Numbers(t, k) : files2[<<k, n - 1>>] = files[<<k, n - 1>>]
  <2> SUFFICES ASSUME NEW k \in Queue, NEW n \in Numbers(t, k)
               PROVE  files2[<<k, n - 1>>] = files[<<k, n - 1>>]
    OBVIOUS
  <2>1. n \in Nat /\ n - 1 \in 0..RepairLimit
    <3>1. Shaped(n, Attempt(t, k, n))
      BY DEF WellFormed, AttemptShape
    <3>2. n \in Nat \ {0} /\ n <= RepairLimit + 1
      BY <3>1 DEF Shaped, Numbers
    <3> QED
      BY <1>1, <3>2
  <2>2. <<k, n - 1>> # <<c, N>>
    BY <1>1, <2>1 DEF Numbers
  <2>3. <<k, n - 1>> \in Queue \X (0..RepairLimit)
    BY <2>1
  <2> HIDE DEF c, N
  <2> QED
    BY <1>2, <2>2, <2>3 DEF c, N
<1>4. files2[<<c, N>>] = x
  BY <1>2
<1>5. Filed(t, files2)
  BY <1>3 DEF Filed
<1>6. Filed(m, files2)
  <2> SUFFICES ASSUME NEW k \in Queue, NEW n \in Numbers(m, k)
               PROVE  files2[<<k, n - 1>>] = Attempt(m, k, n).sql
    BY DEF Filed
  <2>1. CASE k = c /\ n = N + 1
    <3>1. n - 1 = N
      BY <1>1, <2>1
    <3> QED
      BY <1>1, <1>4, <2>1, <3>1
  <2>2. CASE n \in Numbers(t, k) /\ Attempt(m, k, n) = Attempt(t, k, n)
    BY <1>5, <2>2 DEF Filed
  <2> QED
    BY <1>1, <2>1, <2>2
<1> QED
  BY <1>5, <1>6

\* An answer, the evidence or the final analysis is about the same SQL files.
LEMMA AnsweredFiled ==
  ASSUME NEW t, NEW e, NEW m, Answered(t, m, e), NEW files, Filed(t, files)
  PROVE  Filed(m, files)
<1>1. \A k \in Queue : \A n \in Numbers(m, k) :
        n \in Numbers(t, k) /\ Attempt(m, k, n).sql = Attempt(t, k, n).sql
  BY DEF Answered, OneStep
<1> QED
  BY <1>1 DEF Filed

\* Where the attempts are the same, so are their files.
LEMMA SameFiled ==
  ASSUME NEW s, NEW t, NEW files, Filed(s, files),
         \A k \in Queue : t.steps[k].attempts = s.steps[k].attempts
  PROVE  Filed(t, files)
<1>1. \A k \in Queue : /\ Numbers(t, k) = Numbers(s, k)
                       /\ \A n \in Numbers(s, k) : Attempt(t, k, n) = Attempt(s, k, n)
  BY DEF Numbers, Attempt
<1> QED
  BY <1>1 DEF Filed

\* The initial states satisfy Serial.
LEMMA InitSerial == Init => Serial
BY DEF Init, Serial, FilesAgree, Idle, At, NoOp

\* While one worker is busy, the others are idle and have nothing in memory.
LEMMA Alone ==
  ASSUME Inv, Serial, NEW w \in Workers, ~Idle(w) \/ LockFree(w)
  PROVE  \A v \in Workers \ {w} : Idle(v) /\ op[v].mem = None /\ op[v].then = "idle"
<1>1. \A v \in Workers \ {w} : Idle(v)
  BY DEF Serial, LockFree
<1>2. \A v \in Workers : Idle(v) => op[v].mem = None /\ op[v].then = "idle"
  BY DEF Inv, WorkerKnows, Idle, At
<1> QED
  BY <1>1, <1>2

\* What a step of w has to keep.
LEMMA StepSerial ==
  ASSUME Inv, Serial, NEW w \in Workers, ~Idle(w) \/ LockFree(w),
         NEW x, op' = [op EXCEPT ![w] = x], ~x.abandoned,
         exported' # None => state' # None /\ state'.cursor = K + 1 /\ exported' = Evidence(state'),
         FilesAgree(state', sql', exported', assembled'), FilesAgree(x.mem, sql', exported', assembled'),
         x.mem # None => IF state' = None THEN x.mem = InitialState ELSE Follows(state', x.mem),
         x.then = "assemble" => x.mem.final = None,
         x.call = "finalize" /\ x.pc # "idle" => state' # None /\ state'.final = None
  PROVE  Serial'
<1>1. op'[w] = x /\ \A v \in Workers \ {w} : op'[v] = op[v]
  BY DEF Inv, TypeOK
<1>2. \A v \in Workers \ {w} : op'[v].pc = "idle" /\ op'[v].mem = None /\ op'[v].then = "idle"
  BY <1>1, Alone DEF Idle, At
<1>3. \A v \in Workers : ~op'[v].abandoned
  BY <1>1 DEF Serial
<1>4. \A u, v \in Workers : ~Idle(u)' /\ ~Idle(v)' => u = v
  BY <1>2 DEF Idle, At
<1>5. ASSUME NEW v \in Workers
      PROVE  /\ FilesAgree(op'[v].mem, sql', exported', assembled')
             /\ op'[v].mem # None =>
                  IF state' = None THEN op'[v].mem = InitialState ELSE Follows(state', op'[v].mem)
             /\ op'[v].then = "assemble" => op'[v].mem.final = None
             /\ op'[v].call = "finalize" /\ ~Idle(v)' => state' # None /\ state'.final = None
  <2>1. CASE v = w
    BY <1>1, <2>1 DEF FilesAgree, Idle, At
  <2>2. CASE v # w
    BY <1>2, <2>2 DEF FilesAgree, Idle, At
  <2> QED
    BY <2>1, <2>2
<1> QED
  BY <1>3, <1>4, <1>5 DEF Serial

\* A step that leaves the files alone and has nothing to write.
LEMMA OpStepSerial ==
  ASSUME Inv, Serial, NEW w \in Workers, ~Idle(w) \/ LockFree(w),
         NEW x, op' = [op EXCEPT ![w] = x], ~x.abandoned,
         UNCHANGED <<state, sql, exported, assembled>>, x.mem = None, x.then # "assemble",
         x.call = "finalize" /\ x.pc # "idle" => state # None /\ state.final = None
  PROVE  Serial'
<1>1. FilesAgree(state', sql', exported', assembled') /\ FilesAgree(x.mem, sql', exported', assembled')
  BY DEF FilesAgree, Serial
<1>2. exported' # None => state' # None /\ state'.cursor = K + 1 /\ exported' = Evidence(state')
  BY DEF Serial
<1> QED
  BY <1>1, <1>2, StepSerial

\* An operation returns, or dies.
LEMMA EndSerial ==
  ASSUME Inv, Serial, NEW w \in Workers, ~Idle(w),
         NEW x, x \in {NoOp, [NoOp EXCEPT !.died = TRUE]}, op' = [op EXCEPT ![w] = x],
         UNCHANGED <<state, sql, exported, assembled>>
  PROVE  Serial'
<1>1. /\ ~x.abandoned /\ x.mem = None /\ x.then = "idle" /\ x.call = "none"
  <2>1. CASE x = NoOp
    BY <2>1 DEF NoOp
  <2>2. CASE x = [NoOp EXCEPT !.died = TRUE]
    BY <2>2 DEF NoOp
  <2> QED
    BY <2>1, <2>2
<1> QED
  BY <1>1, OpStepSerial

\* Steps that only move a worker with nothing in memory.
LEMMA MoveSerial ==
  ASSUME Inv, Serial, NEW w \in Workers, op[w].pc \notin {"idle", "log", "write"},
         NEW x, op' = [op EXCEPT ![w] = x], UNCHANGED <<state, sql, exported, assembled>>,
         x.mem = op[w].mem, x.then = op[w].then, x.call = op[w].call, x.abandoned = op[w].abandoned
  PROVE  Serial'
<1>1. ~Idle(w) /\ op[w].mem = None /\ op[w].then = "idle" /\ ~op[w].abandoned
  BY DEF Inv, Serial, WorkerKnows, Idle, At
<1>2. op[w].call = "finalize" => state # None /\ state.final = None
  BY <1>1 DEF Serial
<1> QED
  BY <1>1, <1>2, OpStepSerial

\* The steps of a worker that write nothing and decide nothing to write.
Quiet(w) ==
  \/ RefuseState(w) \/ ResumeQuery(w) \/ ExecutionTicket(w) \/ RepairTicket(w) \/ QueueComplete(w)
  \/ RecordReplay(w) \/ RecordRefuses(w) \/ ExportRefuses(w) \/ ExportAgain(w) \/ ValidateEnds(w)
  \/ DViewReturns(w) \/ DViewFails(w)

LEMMA QuietSerial == ASSUME Inv, Serial, NEW w \in Workers, Quiet(w) PROVE Serial'
<1>1. op \in [Workers -> OpTypes] /\ op[w] \in OpTypes
  BY DEF Inv, TypeOK
<1>2. /\ op[w].pc \in {"next", "ticket", "query", "record", "export", "validate"}
      /\ UNCHANGED <<state, sql, exported, assembled>>
  BY DEF Quiet, RefuseState, ResumeQuery, ExecutionTicket, RepairTicket, QueueComplete, RecordReplay,
         RecordRefuses, ExportRefuses, ExportAgain, ValidateEnds, DViewReturns, DViewFails,
         DViewAnswers, AtNext, AtRecord, AtExport, At, disk
<1>3. CASE End(w)
  BY <1>2, <1>3, EndSerial DEF End, Idle, At
<1>4. ASSUME NEW pc, Goto(w, pc)
      PROVE  Serial'
  <2> DEFINE x == [op[w] EXCEPT !.pc = pc]
  <2>1. op' = [op EXCEPT ![w] = x]
    BY <1>4 DEF Goto
  <2>2. /\ x.mem = op[w].mem /\ x.then = op[w].then /\ x.call = op[w].call
        /\ x.abandoned = op[w].abandoned
    BY <1>1 DEF OpTypes
  <2> HIDE DEF x
  <2> QED
    BY <1>2, <2>1, <2>2, MoveSerial
<1>5. CASE ResumeQuery(w)
  <2> DEFINE x == [op[w] EXCEPT !.pc = "ticket", !.ticket = Ticket(state)]
  <2>1. op' = [op EXCEPT ![w] = x]
    BY <1>1, <1>5 DEF ResumeQuery, OpTypes
  <2>2. /\ x.mem = op[w].mem /\ x.then = op[w].then /\ x.call = op[w].call
        /\ x.abandoned = op[w].abandoned
    BY <1>1 DEF OpTypes
  <2> HIDE DEF x
  <2> QED
    BY <1>2, <2>1, <2>2, MoveSerial
<1>6. CASE RecordReplay(w)
  <2> DEFINE x == [op[w] EXCEPT !.pc = "next", !.event = None]
  <2>1. op' = [op EXCEPT ![w] = x]
    BY <1>1, <1>6 DEF RecordReplay, OpTypes
  <2>2. /\ x.mem = op[w].mem /\ x.then = op[w].then /\ x.call = op[w].call
        /\ x.abandoned = op[w].abandoned
    BY <1>1 DEF OpTypes
  <2> HIDE DEF x
  <2> QED
    BY <1>2, <2>1, <2>2, MoveSerial
<1>7. ASSUME NEW e,
             op' = [op EXCEPT ![w].pc = "record", ![w].ticket = None, ![w].event = e]
      PROVE  Serial'
  <2> DEFINE x == [op[w] EXCEPT !.pc = "record", !.ticket = None, !.event = e]
  <2>1. op' = [op EXCEPT ![w] = x]
    BY <1>1, <1>7 DEF OpTypes
  <2>2. /\ x.mem = op[w].mem /\ x.then = op[w].then /\ x.call = op[w].call
        /\ x.abandoned = op[w].abandoned
    BY <1>1 DEF OpTypes
  <2> HIDE DEF x
  <2> QED
    BY <1>2, <2>1, <2>2, MoveSerial
<1>8. CASE DViewReturns(w) \/ DViewFails(w)
  BY <1>7, <1>8 DEF DViewReturns, DViewFails, DViewAnswers
<1> QED
  BY <1>3, <1>4, <1>5, <1>6, <1>8 DEF Quiet, RefuseState, ExecutionTicket, RepairTicket, QueueComplete,
     RecordRefuses, ExportRefuses, ExportAgain, ValidateEnds

\* A call begins: nobody else is at work.
LEMMA CallSerial == ASSUME Inv, Serial, NEW w \in Workers, Call(w) PROVE Serial'
<1>1. ASSUME LockFree(w), NEW call, NEW pc, NEW e, NEW p, Begin(w, call, pc, e, p),
             UNCHANGED <<state, sql, exported, assembled>>,
             call = "finalize" => state # None /\ state.final = None
      PROVE  Serial'
  <2> DEFINE x == [NoOp EXCEPT !.call = call, !.pc = pc, !.event = e, !.patch = p]
  <2>1. op' = [op EXCEPT ![w] = x]
    BY <1>1 DEF Begin
  <2>2. ~x.abandoned /\ x.mem = None /\ x.then = "idle" /\ x.call = call
    BY DEF NoOp
  <2> HIDE DEF x
  <2> QED
    BY <1>1, <2>1, <2>2, OpStepSerial
<1>2. CASE RunInvestigation(w) /\ ~created
  <2> DEFINE x == [NoOp EXCEPT !.call = "run", !.pc = "write", !.mem = InitialState, !.then = "next"]
  <2>1. state = None /\ ~Loadable
    BY <1>2 DEF Inv, Loadable
  <2>2. op' = [op EXCEPT ![w] = x] /\ UNCHANGED <<state, sql, exported, assembled>> /\ LockFree(w)
    BY <1>2, <2>1 DEF RunInvestigation
  <2>3. ~x.abandoned /\ x.mem = InitialState /\ x.then = "next" /\ x.call = "run"
    <3> HIDE DEF InitialState
    <3> QED
      BY DEF NoOp
  <2>4. /\ InitialState.evidence = None /\ InitialState.final = None
        /\ \A k \in Queue : Numbers(InitialState, k) = {}
    BY DEF InitialState, PendingStep, Numbers
  <2> HIDE DEF x
  <2>5. FilesAgree(x.mem, sql', exported', assembled')
    BY <2>3, <2>4 DEF FilesAgree, Filed
  <2>6. FilesAgree(state', sql', exported', assembled') /\ exported = None
    BY <2>1, <2>2 DEF FilesAgree, Serial
  <2> QED
    BY <2>1, <2>2, <2>3, <2>5, <2>6, StepSerial
<1>3. CASE RunInvestigation(w) /\ created
  BY <1>1, <1>3 DEF RunInvestigation
<1>4. ASSUME NEW p, Finalize(w, p)
      PROVE  Serial'
  <2>1. state # None /\ state.final = None
    BY <1>4, Loaded DEF Finalize, Loadable, Consistent, RunStatusContract
  <2> QED
    BY <1>1, <1>4, <2>1 DEF Finalize, disk
<1>5. ASSUME NEW e, SubmitRepair(w, e) \/ RecordExternal(w, e)
      PROVE  Serial'
  BY <1>1, <1>5 DEF SubmitRepair, RecordExternal, disk
<1> QED
  BY <1>2, <1>3, <1>4, <1>5 DEF Call, Inv, TypeOK

\* IssueQuery: the SQL file and what will name it.
LEMMA IssueQuerySerial == ASSUME Inv, Serial, NEW w \in Workers, IssueQuery(w) PROVE Serial'
<1> DEFINE t == Skipped(state)
           m == Asked(state)
           c == t.cursor
           x == [op[w] EXCEPT !.pc = "write", !.mem = m, !.then = "ticket", !.ticket = Ticket(m)]
<1>1. /\ op \in [Workers -> OpTypes] /\ op[w] \in OpTypes /\ op[w].pc = "next"
      /\ Loadable /\ state.cursor <= K /\ Current(t).status = "pending"
  BY DEF Inv, TypeOK, IssueQuery, AtNext, At
<1>2. /\ sql' = [sql EXCEPT ![<<c, 0>>] = Query[c]] /\ op' = [op EXCEPT ![w] = x]
      /\ UNCHANGED <<created, state, events, exported, assembled>>
  BY <1>1 DEF IssueQuery, Asked, OpTypes
<1>3. WellFormed(state) /\ state # None /\ FilesAgree(state, sql, exported, assembled)
  BY <1>1, Loaded DEF Serial
<1>4. WellFormed(t) /\ Opened(t, m, Query[c], None)
  BY <1>1, <1>3, AskedOpens
<1>5. /\ t.evidence = state.evidence /\ t.final = state.final
      /\ \A k \in Queue : t.steps[k].attempts = state.steps[k].attempts
  BY <1>1, <1>3, SkippedIs
<1>6. Follows(state, m)
  BY <1>1 DEF Follows
<1> HIDE DEF t, m
<1>7. Filed(state, sql)
  BY <1>3 DEF FilesAgree
<1>8. Filed(t, sql)
  BY <1>5, <1>7, SameFiled
<1>9. Len(t.steps[c].attempts) = 0 /\ 0 <= RepairLimit
  <2>1. c \in Queue
    BY <1>4 DEF Opened, OneStep
  <2>2. t.steps[c].attempts = <<>>
    BY <1>1, <1>4, <2>1 DEF WellFormed, Consistent, StepContract, Current, Terminal, t
  <2> QED
    BY <2>2, RunnerAssumption
<1>10. Filed(t, sql') /\ Filed(m, sql')
  <2>1. sql' = [sql EXCEPT ![<<c, Len(t.steps[c].attempts)>>] = Query[c]]
    BY <1>2, <1>9, Zenon
  <2>2. sql \in [Queue \X (0..RepairLimit) -> SQLs \cup {None}]
    BY DEF Inv, TypeOK
  <2> QED
    BY <1>4, <1>8, <1>9, <2>1, <2>2, OpenedFiled, Zenon
<1>11. Filed(state, sql')
  BY <1>5, <1>10, SameFiled
<1>12. m.evidence = t.evidence /\ m.final = t.final
  BY <1>4 DEF Opened, OneStep
<1>13. /\ x.mem = m /\ x.then = "ticket" /\ x.call = op[w].call /\ x.abandoned = op[w].abandoned
  BY <1>1 DEF OpTypes
<1> HIDE DEF x
<1>14. FilesAgree(state', sql', exported', assembled') /\ FilesAgree(x.mem, sql', exported', assembled')
  BY <1>2, <1>3, <1>5, <1>10, <1>11, <1>12, <1>13 DEF FilesAgree
<1>15. ~Idle(w) /\ ~op[w].abandoned
  BY <1>1 DEF Idle, At, Serial
<1> QED
  BY <1>2, <1>3, <1>6, <1>13, <1>14, <1>15, StepSerial DEF Serial

\* RecordQuery
LEMMA RecordQuerySerial == ASSUME Inv, Serial, NEW w \in Workers, RecordQuery(w) PROVE Serial'
<1> DEFINE e == op[w].event
           m == Recorded(state, e)
           x == [op[w] EXCEPT !.pc = "log", !.mem = m]
<1>1. /\ op \in [Workers -> OpTypes] /\ op[w] \in OpTypes /\ op[w].pc = "record"
      /\ Loadable /\ e \notin state.processed /\ QueryRecordable(state, e)
  BY DEF Inv, TypeOK, RecordQuery, AtRecord, At
<1>2. op' = [op EXCEPT ![w] = x] /\ UNCHANGED disk
  BY <1>1 DEF RecordQuery, OpTypes
<1>3. WellFormed(state) /\ state # None /\ FilesAgree(state, sql, exported, assembled)
  BY <1>1, Loaded DEF Serial
<1>4. Answered(state, m, e)
  BY <1>1, <1>3, RecordedAnswers
<1>5. Follows(state, m)
  BY <1>1 DEF Follows, QueryRecordable, Events
<1> HIDE DEF m, e
<1>6. Filed(m, sql)
  BY <1>3, <1>4, AnsweredFiled DEF FilesAgree
<1>7. m.evidence = state.evidence /\ m.final = state.final
  BY <1>4 DEF Answered, OneStep
<1>8. x.mem = m /\ x.then = op[w].then /\ x.call = op[w].call /\ x.abandoned = op[w].abandoned
  BY <1>1 DEF OpTypes
<1> HIDE DEF x
<1>9. FilesAgree(state', sql', exported', assembled') /\ FilesAgree(x.mem, sql', exported', assembled')
  BY <1>2, <1>3, <1>6, <1>7, <1>8 DEF FilesAgree, disk
<1>10. ~Idle(w) /\ ~op[w].abandoned /\ op[w].then = "idle"
  BY <1>1 DEF Idle, At, Serial, Inv, WorkerKnows
<1> QED
  BY <1>2, <1>3, <1>5, <1>8, <1>9, <1>10, StepSerial DEF Serial, disk

\* RecordRepair: the SQL file and what will name it.
LEMMA RecordRepairSerial == ASSUME Inv, Serial, NEW w \in Workers, RecordRepair(w) PROVE Serial'
<1> DEFINE e == op[w].event
           m == Repaired(state, e)
           c == state.cursor
           x == [op[w] EXCEPT !.pc = "log", !.mem = m]
<1>1. /\ op \in [Workers -> OpTypes] /\ op[w] \in OpTypes /\ op[w].pc = "record"
      /\ Loadable /\ e \notin state.processed /\ RepairRecordable(state, e)
  BY DEF Inv, TypeOK, RecordRepair, AtRecord, At
<1>2. /\ op' = [op EXCEPT ![w] = x] /\ sql' = [sql EXCEPT ![<<e.step, e.attempt>>] = e.sql]
      /\ UNCHANGED <<created, state, events, exported, assembled>>
  BY <1>1 DEF RecordRepair, OpTypes
<1>3. WellFormed(state) /\ state # None /\ FilesAgree(state, sql, exported, assembled)
  BY <1>1, Loaded DEF Serial
<1>4. Opened(state, m, e.sql, e)
  BY <1>1, <1>3, RepairedOpens
<1>5. Follows(state, m)
  BY <1>1 DEF Follows, RepairRecordable, Events
<1>6. /\ e.step = c /\ e.attempt = Len(state.steps[c].attempts)
      /\ Len(state.steps[c].attempts) <= RepairLimit
  BY <1>1, RunnerAssumption DEF RepairRecordable, RepairEvents, Current
<1> HIDE DEF m, e
<1>7. Filed(state, sql') /\ Filed(m, sql')
  <2>1. sql' = [sql EXCEPT ![<<c, Len(state.steps[c].attempts)>>] = e.sql]
    BY <1>2, <1>6
  <2>2. sql \in [Queue \X (0..RepairLimit) -> SQLs \cup {None}]
    BY DEF Inv, TypeOK
  <2>3. Filed(state, sql)
    BY <1>3 DEF FilesAgree
  <2> QED
    BY <1>3, <1>4, <1>6, <2>1, <2>2, <2>3, OpenedFiled, Zenon
<1>8. m.evidence = state.evidence /\ m.final = state.final
  BY <1>4 DEF Opened, OneStep
<1>9. x.mem = m /\ x.then = op[w].then /\ x.call = op[w].call /\ x.abandoned = op[w].abandoned
  BY <1>1 DEF OpTypes
<1> HIDE DEF x
<1>10. FilesAgree(state', sql', exported', assembled') /\ FilesAgree(x.mem, sql', exported', assembled')
  BY <1>2, <1>3, <1>7, <1>8, <1>9 DEF FilesAgree
<1>11. ~Idle(w) /\ ~op[w].abandoned /\ op[w].then = "idle"
  BY <1>1 DEF Idle, At, Serial, Inv, WorkerKnows
<1> QED
  BY <1>2, <1>3, <1>5, <1>9, <1>10, <1>11, StepSerial DEF Serial

\* LogEvent
LEMMA LogEventSerial == ASSUME Inv, Serial, NEW w \in Workers, LogEvent(w) PROVE Serial'
<1> DEFINE x == [op[w] EXCEPT !.pc = "write", !.then = AfterRecord(w), !.event = None]
<1>1. /\ op \in [Workers -> OpTypes] /\ op[w] \in OpTypes /\ op[w].pc = "log"
      /\ UNCHANGED <<state, sql, exported, assembled>>
  BY DEF Inv, TypeOK, LogEvent, At
<1>2. op' = [op EXCEPT ![w] = x]
  BY <1>1 DEF LogEvent, OpTypes
<1>3. AfterRecord(w) \in {"idle", "next"}
  BY DEF AfterRecord
<1>4. /\ x.mem = op[w].mem /\ x.then = AfterRecord(w) /\ x.call = op[w].call
      /\ x.abandoned = op[w].abandoned
  BY <1>1 DEF OpTypes
<1> HIDE DEF x
<1>5. FilesAgree(state', sql', exported', assembled') /\ FilesAgree(x.mem, sql', exported', assembled')
  BY <1>1, <1>4 DEF FilesAgree, Serial
<1>6. /\ ~Idle(w) /\ ~op[w].abandoned
      /\ op[w].mem # None =>
           IF state = None THEN op[w].mem = InitialState ELSE Follows(state, op[w].mem)
      /\ op[w].call = "finalize" => state # None /\ state.final = None
      /\ exported # None => state # None /\ state.cursor = K + 1 /\ exported = Evidence(state)
  BY <1>1 DEF Idle, At, Serial
<1> QED
  BY <1>1, <1>2, <1>3, <1>4, <1>5, <1>6, StepSerial

\* Nothing that follows a complete queue changes what its evidence is.
LEMMA FollowsComplete ==
  ASSUME NEW s, WellFormed(s), s.cursor = K + 1, NEW m, Follows(s, m)
  PROVE  m.cursor = K + 1 /\ Evidence(m) = Evidence(s)
<1>1. ~(s.cursor <= K) /\ s \in States
  BY RunnerAssumption DEF WellFormed
<1>2. CASE m = [s EXCEPT !.evidence = Evidence(s)]
  <2> DEFINE E == Evidence(s)
  <2>1. m = [s EXCEPT !.evidence = E]
    BY <1>2
  <2> HIDE DEF E
  <2>2. m.cursor = s.cursor /\ m.steps = s.steps
    BY <1>1, <2>1 DEF States
  <2> QED
    BY <2>2 DEF Evidence
<1>3. ASSUME NEW p, m = Finished(s, p)
      PROVE  m.cursor = K + 1 /\ Evidence(m) = Evidence(s)
  <2>1. m.cursor = s.cursor /\ m.steps = s.steps
    BY <1>1, <1>3 DEF States, Finished
  <2> QED
    BY <2>1 DEF Evidence
<1> QED
  BY <1>1, <1>2, <1>3 DEF Follows, QueryRecordable, RepairRecordable

\* WriteState: the state in memory becomes the file, the others being there.
LEMMA WriteStateSerial == ASSUME Inv, Serial, NEW w \in Workers, WriteState(w) PROVE Serial'
<1> DEFINE m == op[w].mem
<1>1. /\ op \in [Workers -> OpTypes] /\ op[w] \in OpTypes /\ op[w].pc = "write"
      /\ m # None /\ state' = m /\ UNCHANGED <<created, sql, events, exported, assembled>>
  BY DEF Inv, TypeOK, WriteState, WorkerKnows, At
<1>2. /\ ~Idle(w) /\ ~op[w].abandoned /\ FilesAgree(m, sql, exported, assembled)
      /\ IF state = None THEN m = InitialState ELSE Follows(state, m)
      /\ exported # None => state # None /\ state.cursor = K + 1 /\ exported = Evidence(state)
      /\ op[w].then = "assemble" => m.final = None
  BY <1>1 DEF Idle, At, Serial
<1>3. state # None => WellFormed(state)
  BY DEF Inv
<1>4. exported' # None => state' # None /\ state'.cursor = K + 1 /\ exported' = Evidence(state')
  BY <1>1, <1>2, <1>3, FollowsComplete
<1>5. FilesAgree(state', sql', exported', assembled')
  BY <1>1, <1>2
<1>6. CASE op[w].then = "idle"
  <2>1. op' = [op EXCEPT ![w] = NoOp]
    BY <1>6 DEF WriteState, End
  <2>2. ~NoOp.abandoned /\ NoOp.mem = None /\ NoOp.then = "idle" /\ NoOp.call = "none"
    BY DEF NoOp
  <2>3. FilesAgree(NoOp.mem, sql', exported', assembled')
    BY <2>2 DEF FilesAgree
  <2> QED
    BY <1>2, <1>4, <1>5, <2>1, <2>2, <2>3, StepSerial
<1>7. CASE op[w].then # "idle"
  <2> DEFINE x == [op[w] EXCEPT !.pc = op[w].then, !.mem = None, !.then = "idle"]
  <2>1. op' = [op EXCEPT ![w] = x]
    BY <1>1, <1>7 DEF WriteState, OpTypes
  <2>2. /\ x.mem = None /\ x.then = "idle" /\ x.call = op[w].call
        /\ x.abandoned = op[w].abandoned
    BY <1>1 DEF OpTypes
  <2> HIDE DEF x
  <2>3. FilesAgree(x.mem, sql', exported', assembled')
    BY <2>2 DEF FilesAgree
  <2>4. op[w].call = "finalize" => op[w].then = "assemble"
    BY <1>1, <1>7 DEF Inv, WorkerKnows
  <2> QED
    BY <1>1, <1>2, <1>4, <1>5, <2>1, <2>2, <2>3, <2>4, StepSerial
<1> QED
  BY <1>6, <1>7

\* Export: the evidence file and the state that will name it.
LEMMA ExportSerial == ASSUME Inv, Serial, NEW w \in Workers, Export(w) PROVE Serial'
<1> DEFINE E == Evidence(state)
           m == [state EXCEPT !.evidence = E]
           x == [op[w] EXCEPT !.pc = "write", !.mem = m, !.then = AfterExport(w)]
<1>1. /\ op \in [Workers -> OpTypes] /\ op[w] \in OpTypes /\ op[w].pc = "export"
      /\ Loadable /\ Exportable(state) /\ state.evidence = None /\ exported' = E
      /\ UNCHANGED <<created, state, sql, events, assembled>>
  BY DEF Inv, TypeOK, Export, AtExport, At
<1>2. op' = [op EXCEPT ![w] = x]
  BY <1>1 DEF Export, Commit, OpTypes
<1>3. WellFormed(state) /\ state # None /\ FilesAgree(state, sql, exported, assembled)
  BY <1>1, Loaded DEF Serial
<1>4. state.status = "queue_complete" /\ state.final = None
  BY <1>1, <1>3, RunnerAssumption DEF WellFormed, Consistent, RunStatusContract, Exportable
<1>5. Follows(state, m)
  BY <1>1 DEF Follows
<1>6. E # None /\ state \in States
  BY <1>1, <1>3, EvidenceType, NoneAssumption DEF WellFormed
<1>7. exported' # None => state' # None /\ state'.cursor = K + 1 /\ exported' = Evidence(state')
  BY <1>1, <1>3 DEF Exportable
<1> HIDE DEF E
<1>8. m.steps = state.steps /\ m.evidence = E /\ m.final = None
  BY <1>4, <1>6 DEF States
<1> HIDE DEF m
<1>9. Filed(state, sql) /\ Filed(m, sql)
  BY <1>3, <1>8, SameFiled DEF FilesAgree
<1>10. x.mem = m /\ x.then = AfterExport(w) /\ x.call = op[w].call /\ x.abandoned = op[w].abandoned
  BY <1>1 DEF OpTypes
<1> HIDE DEF x
<1>11. /\ FilesAgree(state', sql', exported', assembled')
       /\ FilesAgree(x.mem, sql', exported', assembled')
  BY <1>1, <1>3, <1>4, <1>8, <1>9, <1>10 DEF FilesAgree
<1>12. ~Idle(w) /\ ~op[w].abandoned
  BY <1>1 DEF Idle, At, Serial
<1> QED
  BY <1>1, <1>2, <1>3, <1>4, <1>5, <1>7, <1>8, <1>10, <1>11, <1>12, StepSerial

\* AssembleFinal: no state names the file yet.
LEMMA AssembleFinalSerial == ASSUME Inv, Serial, NEW w \in Workers, AssembleFinal(w) PROVE Serial'
<1> DEFINE x == [op[w] EXCEPT !.pc = "validate"]
<1>1. /\ op \in [Workers -> OpTypes] /\ op[w] \in OpTypes /\ WorkerKnows(w) /\ op[w].pc = "assemble"
      /\ UNCHANGED <<created, state, sql, events, exported>>
  BY DEF Inv, TypeOK, AssembleFinal, At
<1>2. op' = [op EXCEPT ![w] = x]
  BY <1>1 DEF AssembleFinal, Goto
<1>3. /\ ~Idle(w) /\ ~op[w].abandoned /\ op[w].mem = None /\ op[w].then = "idle"
      /\ op[w].call = "finalize" /\ state # None /\ state.final = None
      /\ FilesAgree(state, sql, exported, assembled)
      /\ exported # None => state # None /\ state.cursor = K + 1 /\ exported = Evidence(state)
  BY <1>1 DEF Idle, At, Serial, WorkerKnows
<1>4. x.mem = None /\ x.then = "idle" /\ x.call = "finalize" /\ ~x.abandoned
  BY <1>1, <1>3 DEF OpTypes
<1> HIDE DEF x
<1>5. /\ FilesAgree(state', sql', exported', assembled')
      /\ FilesAgree(x.mem, sql', exported', assembled')
  BY <1>1, <1>3, <1>4 DEF FilesAgree
<1> QED
  BY <1>1, <1>2, <1>3, <1>4, <1>5, StepSerial

\* ValidateFinal: the analysis in the file is sound and becomes the final one.
LEMMA ValidateFinalSerial == ASSUME Inv, Serial, NEW w \in Workers, ValidateFinal(w) PROVE Serial'
<1> DEFINE m == Finished(state, assembled)
           x == [op[w] EXCEPT !.pc = "write", !.mem = m, !.then = "idle"]
<1>1. /\ op \in [Workers -> OpTypes] /\ op[w] \in OpTypes /\ WorkerKnows(w) /\ op[w].pc = "validate"
      /\ Loadable /\ state.status = "queue_complete" /\ state.evidence # None
      /\ assembled \notin Unsound /\ UNCHANGED disk
  BY DEF Inv, TypeOK, ValidateFinal, Finalizable, At
<1>2. op' = [op EXCEPT ![w] = x]
  BY <1>1 DEF ValidateFinal, Commit, Finished, OpTypes
<1>3. WellFormed(state) /\ state # None /\ state \in States /\ FilesAgree(state, sql, exported, assembled)
  BY <1>1, Loaded DEF Serial
<1>4. assembled \in Patches \ Unsound
  BY <1>1 DEF Inv, TypeOK, WorkerKnows, At
<1>5. Follows(state, m)
  BY <1>1, <1>4 DEF Follows
<1>6. m.steps = state.steps /\ m.evidence = state.evidence /\ m.final = assembled
  BY <1>3 DEF States, Finished
<1> HIDE DEF m
<1>7. Filed(m, sql)
  BY <1>3, <1>6, SameFiled DEF FilesAgree
<1>8. x.mem = m /\ x.then = "idle" /\ x.call = op[w].call /\ x.abandoned = op[w].abandoned
  BY <1>1 DEF OpTypes
<1> HIDE DEF x
<1>9. /\ FilesAgree(state', sql', exported', assembled')
      /\ FilesAgree(x.mem, sql', exported', assembled')
  BY <1>1, <1>3, <1>4, <1>6, <1>7, <1>8 DEF FilesAgree, disk
<1>10. /\ ~Idle(w) /\ ~op[w].abandoned
       /\ op[w].call = "finalize" => state # None /\ state.final = None
       /\ exported # None => state # None /\ state.cursor = K + 1 /\ exported = Evidence(state)
  BY <1>1 DEF Idle, At, Serial
<1> QED
  BY <1>1, <1>2, <1>3, <1>5, <1>8, <1>9, <1>10, StepSerial DEF disk

\* Without cancelled calls every step keeps Serial.
LEMMA NextSerial == ASSUME ~MayAbandon, Inv, Serial, [Next]_vars PROVE Serial'
<1>1. ASSUME NEW w \in Workers, Step(w)
      PROVE  Serial'
  BY <1>1, QuietSerial, WriteStateSerial, IssueQuerySerial, RecordQuerySerial, RecordRepairSerial,
     LogEventSerial, ExportSerial, AssembleFinalSerial, ValidateFinalSerial DEF Step, Local, Quiet
<1>2. ASSUME NEW w \in Workers, Fail(w)
      PROVE  Serial'
  BY <1>2, EndSerial DEF Fail
<1>3. CASE UNCHANGED vars
  BY <1>3 DEF vars, disk, Serial, Idle, At
<1>4. \A w \in Workers : ~Abandon(w)
  BY DEF Abandon
<1> QED
  BY <1>1, <1>2, <1>3, <1>4, CallSerial DEF Next

\* Both invariants hold of every behavior without cancelled calls.
THEOREM OneWorkerInvariant == ASSUME ~MayAbandon PROVE Spec => [](Inv /\ Serial)
<1>1. Inv /\ Serial /\ [Next]_vars => (Inv /\ Serial)'
  BY NextInv, NextSerial
<1> QED
  BY <1>1, InitInv, InitSerial, PTL DEF Spec

\* Whatever instant an operation dies at, the state on disk is one that the strict
\* loader accepts, SQL files included, unless a call is cancelled.
THEOREM AlwaysLoads == ASSUME ~MayAbandon PROVE Spec => []StateLoads
<1>1. Inv /\ Serial => StateLoads
  BY FiledLoads DEF Inv, Serial, FilesAgree, StateLoads
<1> QED
  BY <1>1, OneWorkerInvariant, PTL

\* The exported evidence is what the finished queue says and stays so; a run is
\* finalized with the patch its assembled file holds, and that passed validation.
THEOREM EvidenceStaysFaithful == ASSUME ~MayAbandon PROVE Spec => []EvidenceFaithful
<1>1. Serial => EvidenceFaithful
  BY DEF Serial, FilesAgree, EvidenceFaithful
<1> QED
  BY <1>1, OneWorkerInvariant, PTL

-----------------------------------------------------------------------------
(* A run only goes forward.                                                *)

\* Skipping the automatic steps and opening an attempt at the next manual one.
LEMMA OpenedAdvances ==
  ASSUME NEW s, WellFormed(s), NEW t, NEW m, NEW x, NEW e, Opened(t, m, x, e),
         s.cursor \in Queue, s.status # "finalized",
         t.cursor \in s.cursor..K, t.root = s.root, t.processed = s.processed,
         t.evidence = s.evidence,
         s.steps[t.cursor].status \in {"pending", "repair_required"},
         \A k \in Queue : /\ t.steps[k].attempts = s.steps[k].attempts
                          /\ s.steps[k].status \in Terminal => t.steps[k] = s.steps[k]
  PROVE  Advances(s, m)
<1>1. \A k \in Queue : /\ Numbers(t, k) = Numbers(s, k)
                       /\ \A n \in Numbers(s, k) : Attempt(t, k, n) = Attempt(s, k, n)
  BY DEF Numbers, Attempt
<1>2. \A k \in Queue : \A n \in Numbers(t, k) :
        n \in Numbers(m, k) /\ Attempt(m, k, n) = Attempt(t, k, n)
  BY DEF Opened, OneStep
<1>3. \A k \in Queue : s.steps[k].status \in Terminal => m.steps[k] = s.steps[k]
  BY DEF Opened, OneStep, Terminal
<1>4. /\ m.cursor >= s.cursor /\ m.root = s.root /\ s.processed \subseteq m.processed
      /\ m.evidence = s.evidence
  BY RunnerAssumption DEF Opened, OneStep, Queue
<1> QED
  BY <1>1, <1>2, <1>3, <1>4 DEF Advances

\* An answer is recorded in the one attempt that is out.
LEMMA AnsweredAdvances ==
  ASSUME NEW s, WellFormed(s), NEW e, QueryRecordable(s, e), NEW m, Answered(s, m, e)
  PROVE  Advances(s, m)
<1> DEFINE c == s.cursor
           N == Len(s.steps[c].attempts)
<1>1. /\ Consistent(s) /\ c \in Queue /\ c <= K /\ s.steps[c].status = "in_progress"
      /\ e.body \in Results \/ e.kind = "query_error"
  BY DEF WellFormed, Answered, OneStep, QueryRecordable, Current, QueryEvents
<1>2. Attempt(s, c, N).status = "issued"
  BY <1>1 DEF Consistent, StepContract, LastAttempt, Attempt, Terminal
<1>3. ASSUME NEW k \in Queue, NEW n \in Numbers(s, k)
      PROVE  /\ n \in Numbers(m, k) /\ Attempt(m, k, n).sql = Attempt(s, k, n).sql
             /\ Attempt(s, k, n).status # "issued" => Attempt(m, k, n) = Attempt(s, k, n)
  BY <1>2, <1>3 DEF Answered, OneStep
<1>4. \A k \in Queue : s.steps[k].status \in Terminal => m.steps[k] = s.steps[k]
  BY <1>1 DEF Answered, OneStep, Terminal
<1>5. s.root # None => m.root = s.root
  BY DEF Answered, Hooks, Outcome, OffRoot
<1>6. /\ m.cursor >= s.cursor /\ s.processed \subseteq m.processed
      /\ m.evidence = s.evidence /\ s.status # "finalized"
  BY <1>1, RunnerAssumption DEF Answered, OneStep, Queue, Consistent, RunStatusContract
<1> QED
  BY <1>3, <1>4, <1>5, <1>6 DEF Advances

\* A state that is the same but for its status, evidence and final analysis.
LEMMA ClosedAdvances ==
  ASSUME NEW s, WellFormed(s), s.status # "finalized",
         NEW m, m.steps = s.steps, m.cursor = s.cursor, m.root = s.root,
         m.processed = s.processed, s.evidence # None => m.evidence = s.evidence
  PROVE  Advances(s, m)
<1>1. s.cursor \in Nat
  BY RunnerAssumption DEF WellFormed, States
<1> QED
  BY <1>1 DEF Advances, Numbers, Attempt

\* Every operation keeps what is decided of a run.
LEMMA FollowsAdvances ==
  ASSUME NEW s, WellFormed(s), NEW m, Follows(s, m)
  PROVE  Advances(s, m)
<1>1. s \in States /\ Consistent(s) /\ s.cursor \in 1..(K + 1) /\ K \in Nat
  BY RunnerAssumption DEF WellFormed, States
<1>2. s.cursor <= K => s.status # "finalized" /\ s.cursor \in Queue
  BY <1>1 DEF Consistent, RunStatusContract, Queue
<1>3. CASE s.cursor <= K /\ Current(Skipped(s)).status = "pending" /\ m = Asked(s)
  <2> DEFINE t == Skipped(s)
             c == NextManual(s)
  <2>1. Opened(t, m, Query[t.cursor], None)
    BY <1>3, AskedOpens
  <2>2. /\ c \in s.cursor..K /\ t.cursor = c /\ t \in States
        /\ t.processed = s.processed /\ t.root = s.root /\ t.evidence = s.evidence
        /\ \A k \in Queue :
             /\ t.steps[k].attempts = s.steps[k].attempts
             /\ t.steps[k].root = s.steps[k].root
             /\ t.steps[k].status = IF k \in s.cursor..(c - 1) THEN "skipped_not_applicable"
                                    ELSE s.steps[k].status
    BY <1>3, SkippedIs
  <2>3. t.steps[c].status = "pending"
    BY <1>3, <2>2 DEF Current
  <2> HIDE DEF t, c
  <2>4. s.steps[c].status = "pending"
    BY <1>1, <2>2, <2>3 DEF Queue
  <2>5. ASSUME NEW k \in Queue, s.steps[k].status \in Terminal
        PROVE  t.steps[k] = s.steps[k]
    <3>1. k < s.cursor
      BY <1>1, <2>5 DEF Consistent, CursorContract, Terminal, Queue
    <3>2. t.steps[k].status = s.steps[k].status
      BY <1>1, <2>2, <3>1 DEF Queue
    <3>3. t.steps[k] \in StepTypes /\ s.steps[k] \in StepTypes
      BY <1>1, <2>2 DEF States
    <3> QED
      BY <2>2, <3>2, <3>3 DEF StepTypes
  <2> QED
    BY <1>2, <1>3, <2>1, <2>2, <2>4, <2>5, OpenedAdvances
<1>4. ASSUME NEW e, QueryRecordable(s, e), m = Recorded(s, e)
      PROVE  Advances(s, m)
  BY <1>4, RecordedAnswers, AnsweredAdvances
<1>5. ASSUME NEW e, RepairRecordable(s, e), m = Repaired(s, e)
      PROVE  Advances(s, m)
  <2>1. Opened(s, m, e.sql, e) /\ s.cursor \in s.cursor..K
    BY <1>1, <1>5, RepairedOpens DEF RepairRecordable
  <2> QED
    BY <1>2, <1>5, <2>1, OpenedAdvances DEF RepairRecordable, Current
<1>6. CASE Exportable(s) /\ s.evidence = None /\ m = [s EXCEPT !.evidence = Evidence(s)]
  <2>1. s.status # "finalized"
    BY <1>1, <1>6 DEF Exportable, Consistent, RunStatusContract
  <2> QED
    BY <1>1, <1>6, <2>1, ClosedAdvances DEF States
<1>7. ASSUME s.status = "queue_complete", NEW p \in Patches \ Unsound, m = Finished(s, p)
      PROVE  Advances(s, m)
  <2>1. /\ m.steps = s.steps /\ m.cursor = s.cursor /\ m.root = s.root
        /\ m.processed = s.processed /\ m.evidence = s.evidence
    BY <1>1, <1>7 DEF Finished, States
  <2> QED
    BY <1>7, <2>1, ClosedAdvances
<1> QED
  BY <1>3, <1>4, <1>5, <1>6, <1>7 DEF Follows

\* The state file is replaced by WriteState and by nothing else, with a state that
\* follows from it.
LEMMA StateSteps ==
  ASSUME Inv, Serial, [Next]_vars
  PROVE  \/ UNCHANGED state
         \/ state = None /\ state' = InitialState /\ created /\ created'
         \/ state # None /\ state' # None /\ WellFormed(state) /\ Follows(state, state')
<1>1. ASSUME NEW w \in Workers, WriteState(w)
      PROVE  IF state = None THEN state' = InitialState /\ created /\ created'
             ELSE state' # None /\ WellFormed(state) /\ Follows(state, state')
  <2>1. op[w].mem # None /\ state' = op[w].mem /\ created /\ UNCHANGED created
    BY <1>1 DEF WriteState, Inv, WorkerKnows, At
  <2> QED
    BY <2>1 DEF Serial, Inv
<1>2. ASSUME NEW w \in Workers, Local(w), ~WriteState(w)
      PROVE  UNCHANGED state
  BY <1>2 DEF Local, RefuseState, IssueQuery, ResumeQuery, ExecutionTicket, RepairTicket,
     QueueComplete, RecordReplay, RecordRefuses, RecordQuery, RecordRepair, LogEvent, ExportRefuses,
     Export, ExportAgain, AssembleFinal, ValidateFinal, ValidateEnds, disk
<1>3. ASSUME NEW w \in Workers, DViewReturns(w) \/ DViewFails(w) \/ Call(w) \/ Fail(w) \/ Abandon(w)
      PROVE  UNCHANGED state
  BY <1>3 DEF DViewReturns, DViewFails, DViewAnswers, Call, RunInvestigation, SubmitRepair,
     RecordExternal, Finalize, Fail, Abandon, disk
<1> QED
  BY <1>1, <1>2, <1>3 DEF Next, Step, vars, disk

\* A run only goes forward: the cursor, the attempts, the processed events and the
\* root are kept, terminal steps, answered attempts, the evidence and a finalized
\* run are never rewritten, unless a call is cancelled.
THEOREM OnlyForward == ASSUME ~MayAbandon PROVE Spec => Forward
<1>1. ASSUME Inv, state # None
      PROVE  Advances(state, state)
  BY <1>1, RunnerAssumption DEF Inv, WellFormed, States, Advances
<1>2. Inv /\ Serial /\ [Next]_vars => [GoesForward]_vars
  BY <1>1, StateSteps, FollowsAdvances DEF GoesForward
<1> QED
  BY <1>2, OneWorkerInvariant, PTL DEF Spec, Forward

-----------------------------------------------------------------------------
(* The run implements the abstract run that TaskCoordinator is built on.   *)

\* The queries are the manual steps, numbered in order.
LEMMA QueryNumbers ==
  /\ \A k \in Nat : QueryNumber(k) \in Nat /\ IsFiniteSet({j \in 1..k : j \notin Automatic})
  /\ QueryNumber(0) = 0
  /\ \A k \in Nat : k + 1 \notin Automatic => QueryNumber(k + 1) = QueryNumber(k) + 1
  /\ \A k, l \in Nat : k <= l /\ (\A j \in (k + 1)..l : j \in Automatic)
                       => QueryNumber(l) = QueryNumber(k)
  /\ \A k \in Nat : k < K => QueryNumber(k) < QueryNumber(K)
<1> DEFINE Manual(k) == {j \in 1..k : j \notin Automatic}
<1>1. ASSUME NEW k \in Nat
      PROVE  IsFiniteSet(Manual(k)) /\ Cardinality(Manual(k)) \in Nat
  <2>1. IsFiniteSet(1..k) /\ Manual(k) \in SUBSET (1..k)
    BY FS_Interval
  <2> QED
    BY <2>1, FS_Subset, FS_CardinalityType
<1>2. Cardinality(Manual(0)) = 0
  <2>1. Manual(0) = {}
    OBVIOUS
  <2> QED
    BY <2>1, FS_EmptySet
<1>3. ASSUME NEW k \in Nat, k + 1 \notin Automatic
      PROVE  Cardinality(Manual(k + 1)) = Cardinality(Manual(k)) + 1
  <2>1. Manual(k + 1) = Manual(k) \cup {k + 1} /\ k + 1 \notin Manual(k)
    BY <1>3
  <2> QED
    BY <1>1, <2>1, FS_AddElement
<1>4. ASSUME NEW k \in Nat, NEW l \in Nat, k <= l, \A j \in (k + 1)..l : j \in Automatic
      PROVE  Cardinality(Manual(l)) = Cardinality(Manual(k))
  <2>1. Manual(l) = Manual(k)
    BY <1>4
  <2> QED
    BY <2>1
<1>5. ASSUME NEW k \in Nat, k < K
      PROVE  Cardinality(Manual(k)) < Cardinality(Manual(K))
  <2>1. K \in Nat /\ K - 1 \in Nat /\ (K - 1) + 1 = K /\ K \notin Automatic
    BY RunnerAssumption
  <2>2. Cardinality(Manual(K)) = Cardinality(Manual(K - 1)) + 1
    <3>1. Cardinality(Manual((K - 1) + 1)) = Cardinality(Manual(K - 1)) + 1
      BY <1>3, <2>1
    <3> QED
      BY <2>1, <3>1
  <2>3. Manual(k) \in SUBSET Manual(K - 1)
    BY <1>5, <2>1
  <2>4. Cardinality(Manual(k)) <= Cardinality(Manual(K - 1))
    BY <1>1, <2>1, <2>3, FS_Subset
  <2>5. Cardinality(Manual(k)) \in Nat /\ Cardinality(Manual(K - 1)) \in Nat
    BY <1>1, <2>1
  <2> HIDE DEF Manual
  <2> QED
    BY <2>2, <2>4, <2>5
<1> QED
  BY <1>1, <1>2, <1>3, <1>4, <1>5 DEF QueryNumber

\* The steps of the abstract run from r to v that change several fields.
RepairsNext(r, v) ==
  v = [r EXCEPT !.attempt = @ + 1, !.step = "in_progress",
                !.repairs = @ \cup {<<r.cursor + 1, r.attempt + 1>>}]
Answers(r, v) ==
  v = [r EXCEPT !.cursor = @ + 1, !.attempt = 0, !.step = "pending",
                !.state = IF r.cursor + 1 = QueryNumber(K) THEN "queue_complete" ELSE @]
Finishes(r, v, p) == v = [r EXCEPT !.state = "finalized", !.final = p]

\* The abstract run by its fields, and what its steps make of them.
View(status, cursor, attempt, step, repairs, final) ==
  [state |-> status, root |-> Canonical, cursor |-> cursor, attempt |-> attempt,
   step |-> step, repairs |-> repairs, final |-> final]

LEMMA ViewFields ==
  ASSUME NEW st, NEW c, NEW a, NEW p, NEW R, NEW f
  PROVE  LET r == View(st, c, a, p, R, f)
         IN /\ r.state = st /\ r.cursor = c /\ r.attempt = a /\ r.step = p
            /\ r.repairs = R /\ r.final = f
BY DEF View

LEMMA ViewAsked ==
  ASSUME NEW st, NEW c, NEW a, NEW p, NEW R, NEW f, NEW q
  PROVE  [View(st, c, a, p, R, f) EXCEPT !.step = q] = View(st, c, a, q, R, f)
BY DEF View

LEMMA ViewRepaired ==
  ASSUME NEW st, NEW c, NEW a, NEW p, NEW R, NEW f
  PROVE  RepairsNext(View(st, c, a, p, R, f),
                     View(st, c, a + 1, "in_progress", R \cup {<<c + 1, a + 1>>}, f))
<1> DEFINE r == View(st, c, a, p, R, f)
           b == a + 1
           S == R \cup {<<c + 1, a + 1>>}
<1>1. r.cursor = c /\ r.attempt = a /\ r.repairs = R
  BY ViewFields
<1> HIDE DEF b, S
<1>2. [View(st, c, a, p, R, f) EXCEPT !.attempt = b] = View(st, c, b, p, R, f)
  BY DEF View
<1>3. [View(st, c, b, p, R, f) EXCEPT !.step = "in_progress"] = View(st, c, b, "in_progress", R, f)
  BY DEF View
<1>4. [View(st, c, b, "in_progress", R, f) EXCEPT !.repairs = S]
        = View(st, c, b, "in_progress", S, f)
  BY DEF View
<1>5. [r EXCEPT !.attempt = b, !.step = "in_progress", !.repairs = S]
        = View(st, c, b, "in_progress", S, f)
  BY <1>2, <1>3, <1>4, Zenon
<1> HIDE DEF r
<1>6. RepairsNext(r, View(st, c, b, "in_progress", S, f))
  BY <1>1, <1>5, Zenon DEF RepairsNext, b, S
<1> QED
  BY <1>6 DEF r, b, S

LEMMA ViewAnswered ==
  ASSUME NEW st, NEW c, NEW a, NEW p, NEW R, NEW f
  PROVE  Answers(View(st, c, a, p, R, f),
                 View(IF c + 1 = QueryNumber(K) THEN "queue_complete" ELSE st,
                      c + 1, 0, "pending", R, f))
<1> DEFINE r == View(st, c, a, p, R, f)
           u == IF c + 1 = QueryNumber(K) THEN "queue_complete" ELSE st
           d == c + 1
<1>1. r.cursor = c /\ r.state = st
  BY ViewFields
<1> HIDE DEF u, d
<1>2. [View(st, c, a, p, R, f) EXCEPT !.cursor = d] = View(st, d, a, p, R, f)
  BY DEF View
<1>3. [View(st, d, a, p, R, f) EXCEPT !.attempt = 0] = View(st, d, 0, p, R, f)
  BY DEF View
<1>4. [View(st, d, 0, p, R, f) EXCEPT !.step = "pending"] = View(st, d, 0, "pending", R, f)
  BY DEF View
<1>5. [View(st, d, 0, "pending", R, f) EXCEPT !.state = u] = View(u, d, 0, "pending", R, f)
  BY DEF View
<1>6. [r EXCEPT !.cursor = d, !.attempt = 0, !.step = "pending", !.state = u]
        = View(u, d, 0, "pending", R, f)
  BY <1>2, <1>3, <1>4, <1>5, Zenon
<1> HIDE DEF r
<1>7. Answers(r, View(u, d, 0, "pending", R, f))
  BY <1>1, <1>6, Zenon DEF Answers, u, d
<1> QED
  BY <1>7 DEF r, u, d

LEMMA ViewFinished ==
  ASSUME NEW st, NEW c, NEW a, NEW p, NEW R, NEW f, NEW g
  PROVE  Finishes(View(st, c, a, p, R, f), View("finalized", c, a, p, R, g), g)
<1>1. [View(st, c, a, p, R, f) EXCEPT !.state = "finalized"] = View("finalized", c, a, p, R, f)
  BY DEF View
<1>2. [View("finalized", c, a, p, R, f) EXCEPT !.final = g] = View("finalized", c, a, p, R, g)
  BY DEF View
<1> QED
  BY <1>1, <1>2, Zenon DEF Finishes

LEMMA RunIs ==
  ASSUME NEW s
  PROVE  RunOf(s) = View(s.status, QueryNumber(s.cursor - 1),
                         IF AtCursor(s).attempts = <<>> THEN 0 ELSE Len(AtCursor(s).attempts) - 1,
                         AtCursor(s).status, Repairs(s), s.final)
BY DEF RunOf, View

\* A query that is asked is the next one of the abstract run.
LEMMA AskedIssues ==
  ASSUME NEW s, WellFormed(s), s.cursor <= K, Current(Skipped(s)).status = "pending"
  PROVE  LET q == QueryNumber(s.cursor - 1)
         IN /\ RunOf(s) = View("active", q, 0, "pending", Repairs(s), s.final)
            /\ RunOf(Asked(s)) = View("active", q, 0, "in_progress", Repairs(s), s.final)
<1> DEFINE t == Skipped(s)
           c == NextManual(s)
           m == Asked(s)
<1>1. Opened(t, m, Query[t.cursor], None)
  BY AskedOpens
<1>2. /\ c \in s.cursor..K /\ t.cursor = c
      /\ \A j \in s.cursor..(c - 1) : j \in Automatic
      /\ t.processed = s.processed /\ t.status = s.status /\ t.final = s.final
      /\ \A k \in Queue :
           /\ t.steps[k].attempts = s.steps[k].attempts
           /\ t.steps[k].status = IF k \in s.cursor..(c - 1) THEN "skipped_not_applicable"
                                  ELSE s.steps[k].status
  BY SkippedIs
<1>3. t.steps[c].status = "pending"
  BY <1>2 DEF Current
<1> HIDE DEF t, c, m
<1>4. /\ Consistent(s) /\ AttemptShape(s) /\ K \in Nat /\ s.cursor \in 1..(K + 1)
      /\ s.cursor \in Queue /\ c \in Queue
  BY <1>2, RunnerAssumption DEF WellFormed, States, Queue
<1>5. s.steps[s.cursor].status = "pending" /\ s.steps[s.cursor].attempts = <<>>
  <2>1. CASE c = s.cursor
    <3>1. s.steps[c].status = "pending"
      BY <1>2, <1>3, <1>4, <2>1
    <3> QED
      BY <1>4, <2>1, <3>1 DEF Consistent, StepContract, Terminal
  <2>2. CASE c # s.cursor
    <3>1. s.cursor \in Automatic
      BY <1>2, <1>4, <2>2
    <3> QED
      BY <1>4, <3>1 DEF AttemptShape, Consistent, CursorContract, Terminal
  <2> QED
    BY <2>1, <2>2
<1>6. s.steps[c].status = "pending" /\ s.steps[c].attempts = <<>>
  <2>1. s.steps[c].status = "pending"
    BY <1>2, <1>3, <1>4
  <2> QED
    BY <1>4, <2>1 DEF Consistent, StepContract, Terminal
<1>7. QueryNumber(c - 1) = QueryNumber(s.cursor - 1)
  <2>1. s.cursor - 1 \in Nat /\ c - 1 \in Nat /\ s.cursor - 1 <= c - 1
        /\ (s.cursor - 1) + 1 = s.cursor
    BY <1>2, <1>4
  <2> QED
    BY <1>2, <2>1, QueryNumbers
<1>8. /\ m.cursor = c /\ m.status = s.status /\ m.processed = s.processed /\ m.final = s.final
      /\ m.steps[c].status = "in_progress" /\ Len(m.steps[c].attempts) = 1
      /\ m.steps[c].attempts # <<>>
  <2>1. Len(m.steps[c].attempts) = Len(t.steps[c].attempts) + 1 /\ t.steps[c].attempts = <<>>
    BY <1>1, <1>2, <1>4, <1>6 DEF Opened
  <2>2. Len(m.steps[c].attempts) = 1
    BY <2>1
  <2> QED
    BY <1>1, <1>2, <2>2 DEF Opened, OneStep
<1>9. AtCursor(s) = s.steps[s.cursor] /\ AtCursor(m) = m.steps[c]
  BY <1>2, <1>4, <1>8 DEF AtCursor, Current
<1>10. s.status = "active"
  BY <1>4 DEF Consistent, RunStatusContract
<1>11. Repairs(m) = Repairs(s)
  BY <1>8 DEF Repairs
<1>12. RunOf(m) = View("active", QueryNumber(c - 1), 0, "in_progress", Repairs(m), s.final)
  <2>1. Len(m.steps[c].attempts) - 1 = 0
    BY <1>8
  <2> QED
    BY <1>8, <1>9, <1>10, <2>1, RunIs
<1>13. RunOf(s) = View("active", QueryNumber(s.cursor - 1), 0, "pending", Repairs(s), s.final)
  BY <1>5, <1>9, <1>10, RunIs
<1> QED
  BY <1>7, <1>11, <1>12, <1>13 DEF m

\* A recorded answer locks the step for a repair or answers the query for good.
LEMMA RecordedAnswersQuery ==
  ASSUME NEW s, WellFormed(s), NEW e, QueryRecordable(s, e), NEW m, Answered(s, m, e),
         WellFormed(m)
  PROVE  LET q == QueryNumber(s.cursor - 1)
             N == Len(s.steps[s.cursor].attempts)
         IN /\ RunOf(s) = View("active", q, N - 1, "in_progress", Repairs(s), s.final)
            /\ IF Repairable(e)
               THEN /\ N - 1 < 2
                    /\ RunOf(m) = View("active", q, N - 1, "repair_required", Repairs(s), s.final)
               ELSE RunOf(m) = View(IF q + 1 = QueryNumber(K) THEN "queue_complete" ELSE "active",
                                    q + 1, 0, "pending", Repairs(s), s.final)
<1> DEFINE c == s.cursor
           N == Len(s.steps[c].attempts)
<1>1. /\ Consistent(s) /\ AttemptShape(s) /\ K \in Nat /\ c \in Queue /\ c <= K /\ c \in Nat \ {0}
      /\ s.steps[c].status = "in_progress" /\ e \in QueryEvents /\ e.attempt = N - 1
  BY RunnerAssumption
     DEF WellFormed, Answered, OneStep, QueryRecordable, AnswersAttempt, Current, Queue
<1>2. s.status = "active" /\ s.steps[c].attempts # <<>> /\ c \notin Automatic
  BY <1>1 DEF Consistent, RunStatusContract, StepContract, AttemptShape, Terminal
<1>3. N \in Nat \ {0} /\ Len(m.steps[c].attempts) = N /\ m.final = s.final
      /\ m.processed = s.processed \cup {e}
  BY DEF Answered, OneStep
<1>4. Repairs(m) = Repairs(s)
  <2>1. e \notin RepairEvents
    BY <1>1 DEF QueryEvents, RepairEvents
  <2>2. m.processed \cap RepairEvents = s.processed \cap RepairEvents
    BY <1>3, <2>1
  <2> QED
    BY <2>2 DEF Repairs
<1>5. AtCursor(s) = s.steps[c]
  BY <1>1 DEF AtCursor, Current
<1>6. CASE Repairable(e)
  <2>1. /\ m.cursor = c /\ m.status = s.status /\ m.steps[c].status = "repair_required"
        /\ e.attempt < RepairLimit
    BY <1>6 DEF Answered, Repairable
  <2>2. AtCursor(m) = m.steps[c] /\ m.steps[c].attempts # <<>>
    <3>1. <<>> # m.steps[c].attempts
      BY <1>3
    <3> QED
      BY <1>1, <2>1, <3>1 DEF AtCursor, Current
  <2>3. N - 1 < 2
    BY <1>1, <1>3, <2>1, RunnerAssumption
  <2> QED
    BY <1>1, <1>2, <1>3, <1>4, <1>5, <1>6, <2>1, <2>2, <2>3, RunIs
<1>7. CASE ~Repairable(e)
  <2>1. m.cursor = c + 1 /\ m.status = IF c = K THEN "queue_complete" ELSE s.status
    BY <1>7 DEF Answered
  <2>2. AtCursor(m).attempts = <<>> /\ AtCursor(m).status = "pending"
    <3>1. CASE c = K
      BY <1>1, <2>1, <3>1 DEF AtCursor, PendingStep
    <3>2. CASE c # K
      <4>1. c + 1 \in Queue /\ AtCursor(m) = m.steps[c + 1] /\ c + 1 > c /\ c + 1 # c
        BY <1>1, <2>1, <3>2 DEF AtCursor, Current, Queue
      <4>2. m.steps[c + 1] = s.steps[c + 1]
        BY <4>1 DEF Answered, OneStep
      <4>3. s.steps[c + 1].status = "pending"
        BY <1>1, <4>1 DEF Consistent, CursorContract
      <4> QED
        BY <1>1, <4>1, <4>2, <4>3 DEF Consistent, StepContract, Terminal
    <3> QED
      BY <3>1, <3>2
  <2>3. /\ QueryNumber(c - 1) \in Nat /\ QueryNumber(c) = QueryNumber(c - 1) + 1
        /\ c # K => QueryNumber(c) < QueryNumber(K)
        /\ QueryNumber(c) \in Nat /\ QueryNumber(K) \in Nat /\ (c + 1) - 1 = c
    <3>1. c - 1 \in Nat /\ (c - 1) + 1 = c /\ c \in Nat /\ (c # K => c < K)
      BY <1>1
    <3>2. (c - 1) + 1 \notin Automatic
      BY <1>2, <3>1
    <3>3. QueryNumber((c - 1) + 1) = QueryNumber(c - 1) + 1
      BY <3>1, <3>2, QueryNumbers
    <3>4. (c # K => QueryNumber(c) < QueryNumber(K)) /\ (c + 1) - 1 = c
      BY <3>1, QueryNumbers
    <3>5. QueryNumber(c - 1) \in Nat /\ QueryNumber(c) \in Nat /\ QueryNumber(K) \in Nat
      BY <1>1, <3>1, QueryNumbers
    <3> QED
      BY <3>1, <3>3, <3>4, <3>5
  <2>4. QueryNumber(c - 1) + 1 = QueryNumber(K) <=> c = K
    BY <2>3
  <2>5. QueryNumber(m.cursor - 1) = QueryNumber(c - 1) + 1
    BY <2>1, <2>3
  <2>6. m.status = IF QueryNumber(c - 1) + 1 = QueryNumber(K) THEN "queue_complete" ELSE "active"
    BY <1>2, <2>1, <2>4
  <2> QED
    BY <1>1, <1>2, <1>3, <1>4, <1>5, <1>7, <2>2, <2>5, <2>6, RunIs
<1> QED
  BY <1>6, <1>7

\* A recorded repair is the next one of the abstract run.
LEMMA RepairedRepairs ==
  ASSUME NEW s, WellFormed(s), NEW e, RepairRecordable(s, e)
  PROVE  LET q == QueryNumber(s.cursor - 1)
             N == Len(s.steps[s.cursor].attempts)
         IN /\ RunOf(s) = View("active", q, N - 1, "repair_required", Repairs(s), s.final)
            /\ RunOf(Repaired(s, e)) =
                 View("active", q, (N - 1) + 1, "in_progress",
                      Repairs(s) \cup {<<q + 1, (N - 1) + 1>>}, s.final)
<1> DEFINE c == s.cursor
           N == Len(s.steps[c].attempts)
           m == Repaired(s, e)
<1>1. c \in Queue /\ c \notin Automatic /\ Opened(s, m, e.sql, e)
  BY RepairedOpens
<1> HIDE DEF m
<1>2. /\ Consistent(s) /\ K \in Nat /\ c <= K /\ c \in Nat \ {0}
      /\ s.steps[c].status = "repair_required" /\ e \in RepairEvents
      /\ e.step = c /\ e.attempt = N
  BY <1>1, RunnerAssumption DEF WellFormed, RepairRecordable, Current, Queue
<1>3. s.status = "active" /\ s.steps[c].attempts # <<>>
  BY <1>1, <1>2 DEF Consistent, RunStatusContract, StepContract, Terminal
<1>4. e # None
  BY <1>2, RunnerAssumption DEF Events
<1>5. /\ m.cursor = c /\ m.status = s.status /\ m.processed = s.processed \cup {e}
      /\ m.final = s.final /\ m.steps[c].status = "in_progress"
      /\ N \in Nat /\ Len(m.steps[c].attempts) = N + 1
  BY <1>1, <1>4 DEF Opened, OneStep
<1>6. AtCursor(s) = s.steps[c] /\ AtCursor(m) = m.steps[c] /\ m.steps[c].attempts # <<>>
  <2>1. <<>> # m.steps[c].attempts
    BY <1>5
  <2> QED
    BY <1>2, <1>5, <2>1 DEF AtCursor, Current
<1>7. QueryNumber(c) = QueryNumber(c - 1) + 1
  <2>1. c - 1 \in Nat /\ (c - 1) + 1 = c
    BY <1>2
  <2> QED
    BY <1>1, <2>1, QueryNumbers
<1>8. Repairs(m) = Repairs(s) \cup {<<QueryNumber(c), N>>}
  <2>1. m.processed \cap RepairEvents = (s.processed \cap RepairEvents) \cup {e}
    BY <1>2, <1>5
  <2> QED
    BY <1>2, <2>1 DEF Repairs
<1>9. (N - 1) + 1 = N /\ (N + 1) - 1 = N
  BY <1>5
<1>10. RunOf(s) = View("active", QueryNumber(c - 1), N - 1, "repair_required", Repairs(s), s.final)
  BY <1>2, <1>3, <1>6, RunIs
<1>11. RunOf(m) = View("active", QueryNumber(c - 1), N, "in_progress", Repairs(m), s.final)
  BY <1>3, <1>5, <1>6, <1>9, RunIs
<1> QED
  BY <1>7, <1>8, <1>9, <1>10, <1>11 DEF m

\* What an operation makes of a state is a step of the abstract run, or none.
LEMMA FollowsRun ==
  ASSUME Inv, state # None, state' # None, UNCHANGED created,
         WellFormed(state), Follows(state, state')
  PROVE  [Contract!Next]_AbstractRun
<1> DEFINE s == state
           m == state'
<1>1. AbstractRun = RunOf(s) /\ AbstractRun' = RunOf(m)
  BY DEF AbstractRun, RunOf
<1>2. s \in States /\ WellFormed(m)
  BY FollowsWell DEF WellFormed
<1> HIDE DEF s, m
<1> DEFINE q == QueryNumber(s.cursor - 1)
           N == Len(s.steps[s.cursor].attempts)
           R == Repairs(s)
<1>3. CASE s.cursor <= K /\ Current(Skipped(s)).status = "pending" /\ m = Asked(s)
  <2>1. /\ AbstractRun = View("active", q, 0, "pending", R, s.final)
        /\ AbstractRun' = View("active", q, 0, "in_progress", R, s.final)
    BY <1>1, <1>3, AskedIssues DEF s
  <2>2. Contract!Issue
    BY <2>1, ViewFields, ViewAsked DEF Contract!Issue, Contract!At
  <2> QED
    BY <2>2 DEF Contract!Next
<1>4. ASSUME NEW e, QueryRecordable(s, e), m = Recorded(s, e)
      PROVE  [Contract!Next]_AbstractRun
  <2>1. Answered(s, m, e)
    BY <1>4, RecordedAnswers DEF s
  <2>2. AbstractRun = View("active", q, N - 1, "in_progress", R, s.final)
    BY <1>1, <1>2, <1>4, <2>1, RecordedAnswersQuery DEF s
  <2>3. CASE Repairable(e)
    <3>1. N - 1 < 2 /\ AbstractRun' = View("active", q, N - 1, "repair_required", R, s.final)
      BY <1>1, <1>2, <1>4, <2>1, <2>3, RecordedAnswersQuery DEF s
    <3>2. Contract!Lock
      BY <2>2, <3>1, ViewFields, ViewAsked DEF Contract!Lock, Contract!At, Contract!MaxRepairs
    <3> QED
      BY <3>2 DEF Contract!Next
  <2>4. CASE ~Repairable(e)
    <3>1. AbstractRun' = View(IF q + 1 = QueryNumber(K) THEN "queue_complete" ELSE "active",
                              q + 1, 0, "pending", R, s.final)
      BY <1>1, <1>2, <1>4, <2>1, <2>4, RecordedAnswersQuery DEF s
    <3>2. Contract!Answer
      <4>1. AbstractRun.state = "active" /\ AbstractRun.step = "in_progress"
        BY <2>2, ViewFields
      <4>2. Answers(AbstractRun, AbstractRun')
        BY <2>2, <3>1, ViewAnswered
      <4> QED
        BY <4>1, <4>2, Zenon DEF Answers, Contract!Answer, Contract!At
    <3> QED
      BY <3>2 DEF Contract!Next
  <2> QED
    BY <2>3, <2>4
<1>5. ASSUME NEW e, RepairRecordable(s, e), m = Repaired(s, e)
      PROVE  [Contract!Next]_AbstractRun
  <2>1. /\ AbstractRun = View("active", q, N - 1, "repair_required", R, s.final)
        /\ AbstractRun' = View("active", q, (N - 1) + 1, "in_progress",
                               R \cup {<<q + 1, (N - 1) + 1>>}, s.final)
    BY <1>1, <1>5, RepairedRepairs DEF s
  <2>2. Contract!Repair
    <3>1. AbstractRun.state = "active" /\ AbstractRun.step = "repair_required"
      BY <2>1, ViewFields
    <3>2. RepairsNext(AbstractRun, AbstractRun')
      BY <2>1, ViewRepaired
    <3> QED
      BY <3>1, <3>2, Zenon DEF RepairsNext, Contract!Repair, Contract!At
  <2> QED
    BY <2>2 DEF Contract!Next
<1>6. CASE m = [s EXCEPT !.evidence = Evidence(s)]
  <2> DEFINE E == Evidence(s)
  <2>1. m = [s EXCEPT !.evidence = E]
    BY <1>6
  <2> HIDE DEF E
  <2>2. /\ m.status = s.status /\ m.cursor = s.cursor /\ m.steps = s.steps
        /\ m.processed = s.processed /\ m.final = s.final
    BY <1>2, <2>1 DEF States
  <2> QED
    BY <1>1, <2>2 DEF RunOf, AtCursor, Current, Repairs
<1>7. ASSUME s.status = "queue_complete", NEW p \in Patches \ Unsound, m = Finished(s, p)
      PROVE  [Contract!Next]_AbstractRun
  <2>1. /\ m.status = "finalized" /\ m.cursor = s.cursor /\ m.steps = s.steps
        /\ m.processed = s.processed /\ m.final = p
    BY <1>2, <1>7 DEF States, Finished
  <2>2. AtCursor(m) = AtCursor(s) /\ Repairs(m) = R
    BY <2>1 DEF AtCursor, Current, Repairs
  <2> DEFINE a == IF AtCursor(s).attempts = <<>> THEN 0 ELSE Len(AtCursor(s).attempts) - 1
  <2>3. /\ AbstractRun = View("queue_complete", q, a, AtCursor(s).status, R, s.final)
        /\ AbstractRun' = View("finalized", q, a, AtCursor(s).status, R, p)
    BY <1>1, <1>7, <2>1, <2>2, RunIs
  <2> HIDE DEF a, R, q
  <2>4. Contract!Finish(p)
    <3>1. AbstractRun.state = "queue_complete"
      BY <2>3, ViewFields
    <3>2. Finishes(AbstractRun, AbstractRun', p)
      BY <2>3, ViewFinished
    <3> QED
      BY <3>1, <3>2, Zenon DEF Finishes, Contract!Finish
  <2> QED
    BY <1>7, <2>4 DEF Contract!Next
<1> QED
  BY <1>3, <1>4, <1>5, <1>6, <1>7 DEF Follows, s, m

\* The directory of a run is made once.
LEMMA CreatedSteps ==
  ASSUME [Next]_vars
  PROVE  UNCHANGED created \/ (~created /\ created' = TRUE /\ UNCHANGED state)
<1>1. ASSUME NEW w \in Workers, Call(w)
      PROVE  UNCHANGED created \/ (~created /\ created' = TRUE /\ UNCHANGED state)
  BY <1>1 DEF Call, RunInvestigation, SubmitRepair, RecordExternal, Finalize, disk
<1>2. ASSUME NEW w \in Workers, Local(w)
      PROVE  UNCHANGED created
  BY <1>2 DEF Local, RefuseState, WriteState, IssueQuery, ResumeQuery, ExecutionTicket,
     RepairTicket, QueueComplete, RecordReplay, RecordRefuses, RecordQuery, RecordRepair, LogEvent,
     ExportRefuses, Export, ExportAgain, AssembleFinal, ValidateFinal, ValidateEnds, disk
<1>3. ASSUME NEW w \in Workers, DViewReturns(w) \/ DViewFails(w) \/ Fail(w) \/ Abandon(w)
      PROVE  UNCHANGED created
  BY <1>3 DEF DViewReturns, DViewFails, DViewAnswers, Fail, Abandon, disk
<1> QED
  BY <1>1, <1>2, <1>3 DEF Next, Step, vars, disk

\* The state file of a new run.
LEMMA InitialRun ==
  RunOf(InitialState) = View("active", 0, 0, "pending", {}, None)
<1> DEFINE s == InitialState
<1>1. /\ s.status = "active" /\ s.cursor = 1 /\ s.processed = {} /\ s.final = None
      /\ s.steps[1] = PendingStep
  BY RunnerAssumption DEF InitialState, Queue
<1> HIDE DEF s
<1>2. AtCursor(s) = PendingStep /\ Repairs(s) = {} /\ QueryNumber(s.cursor - 1) = 0
  BY <1>1, QueryNumbers DEF AtCursor, Current, Repairs
<1>3. PendingStep.attempts = <<>> /\ PendingStep.status = "pending"
  BY DEF PendingStep
<1> QED
  BY <1>1, <1>2, <1>3, RunIs DEF s

\* The run with all its files, events and crashes takes the steps of the abstract
\* run that TaskCoordinator is built on, and no others, unless a call is cancelled.
THEOREM ImplementsRunContract == ASSUME ~MayAbandon PROVE Spec => KeepsRunContract
<1>1. Init => Contract!Init
  BY DEF Init, AbstractRun, Contract!Init, Contract!NoRun
<1>2. Inv /\ Serial /\ [Next]_vars => [Contract!Next]_AbstractRun
  <2> SUFFICES ASSUME Inv, Serial, [Next]_vars
               PROVE  [Contract!Next]_AbstractRun
    OBVIOUS
  <2>1. CASE UNCHANGED <<state, created>>
    BY <2>1 DEF AbstractRun, RunOf
  <2>2. CASE ~created /\ created' = TRUE /\ UNCHANGED state
    <3>1. state = None
      BY <2>2 DEF Inv
    <3> QED
      BY <2>2, <3>1 DEF AbstractRun, Contract!Next, Contract!Create
  <2>3. CASE state = None /\ state' = InitialState /\ created /\ created'
    <3>1. state' # None
      BY <2>3, InitialWell, NoneAssumption DEF WellFormed
    <3>2. /\ AbstractRun = [state |-> "dir", root |-> None, cursor |-> 0, attempt |-> 0,
                            step |-> "pending", repairs |-> {}, final |-> None]
          /\ AbstractRun' = RunOf(InitialState)
      BY <2>3, <3>1 DEF AbstractRun, RunOf, InitialState
    <3>3. [AbstractRun EXCEPT !.state = "active"]
            = [state |-> "active", root |-> None, cursor |-> 0, attempt |-> 0,
               step |-> "pending", repairs |-> {}, final |-> None]
      BY <3>2
    <3>4. [[state |-> "active", root |-> None, cursor |-> 0, attempt |-> 0,
            step |-> "pending", repairs |-> {}, final |-> None] EXCEPT !.root = Canonical]
            = View("active", 0, 0, "pending", {}, None)
      BY DEF View
    <3>5. AbstractRun' = [AbstractRun EXCEPT !.state = "active", !.root = Canonical]
      BY <3>2, <3>3, <3>4, InitialRun, Zenon
    <3>6. AbstractRun.state = "dir"
      BY <3>2
    <3> QED
      BY <3>5, <3>6 DEF Contract!Next, Contract!Start
  <2>4. CASE state # None /\ state' # None /\ WellFormed(state) /\ Follows(state, state')
    <3>1. created \in BOOLEAN /\ created
      BY <2>4 DEF Inv
    <3> QED
      BY <2>4, <3>1, CreatedSteps, FollowsRun
  <2> QED
    BY <2>1, <2>2, <2>3, <2>4, StateSteps, CreatedSteps
<1> QED
  BY <1>1, <1>2, OneWorkerInvariant, PTL DEF Spec, KeepsRunContract, Contract!Spec
=============================================================================
