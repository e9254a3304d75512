-------------------------- MODULE HostServiceProofs --------------------------
(***************************************************************************)
(* Proofs about HostService, for any number of threads, any payloads and   *)
(* routes, any patches and any number of deaths and cancellations.         *)
(***************************************************************************)
EXTENDS HostService, RouteGroupingProofs

Others(w) ==
  op' \in [Workers -> Operations] /\ \A v \in Workers \ {w} : op'[v] = op[v]

\* The investigations are a list, each with a list of rules.
LEMMA GroupsAre ==
  ASSUME alert \in Alerts, groups = Grouping(alert)
  PROVE  /\ Count \in Nat /\ DOMAIN groups = 1..Count
         /\ \A i \in 1..Count : groups[i].rules \in Seq(Nat)
<1> DEFINE R == ToSet(alert.rules)
<1>1. alert.rules \in Seq(R)
  BY PayloadAssumption
<1> HIDE DEF R
<1>2. Len(groups) \in Nat /\ DOMAIN groups = 1..Len(groups)
  BY <1>1, GroupingIs
<1>3. \A i \in DOMAIN groups : groups[i].rules \in Seq(1..Len(alert.rules))
  BY <1>1, GroupingIs
<1> QED
  BY <1>1, <1>2, <1>3 DEF Count

\* A thread that becomes o leaves the others alone.
LEMMA BecomesIs ==
  ASSUME NEW w \in Workers, NEW STATE o, o \in Operations,
         op \in [Workers -> Operations], Becomes(w, o)
  PROVE  op'[w] = o /\ Others(w)
BY DEF Becomes, Others

\* What the thread has after each form of step.
LEMMA GotoIs ==
  ASSUME NEW w \in Workers, NEW pc \in PCs, op \in [Workers -> Operations], Goto(w, pc)
  PROVE  /\ Others(w) /\ op'[w].pc = pc /\ op'[w].mem = op[w].mem
         /\ op'[w].analysis = op[w].analysis /\ op'[w].receipt = op[w].receipt
         /\ op'[w].reply = op[w].reply /\ op'[w].abandoned = op[w].abandoned
<1> DEFINE o == [op[w] EXCEPT !.pc = pc]
<1>1. /\ o \in Operations /\ o.pc = pc /\ o.mem = op[w].mem /\ o.analysis = op[w].analysis
      /\ o.receipt = op[w].receipt /\ o.reply = op[w].reply /\ o.abandoned = op[w].abandoned
  BY DEF Operations
<1>2. Becomes(w, o)
  BY DEF Goto
<1> HIDE DEF o
<1>3. op'[w] = o /\ Others(w)
  BY BecomesIs, <1>1, <1>2
<1> QED
  BY <1>1, <1>3

\* A thread that ends is idle and knows nothing.
LEMMA EndIs ==
  ASSUME NEW w \in Workers, op \in [Workers -> Operations], End(w)
  PROVE  Others(w) /\ op'[w] = NoOp
<1>1. NoOp \in Operations
  BY DEF NoOp, Operations, PCs
<1> QED
  BY BecomesIs, <1>1 DEF End

\* A step with a receipt changes the receipt and where the thread is.
LEMMA ReceivesIs ==
  ASSUME NEW w \in Workers, NEW pc \in PCs, NEW STATE r, r \in Analyses, op \in [Workers -> Operations],
         Receives(w, pc, r)
  PROVE  /\ Others(w) /\ op'[w].pc = pc /\ op'[w].mem = op[w].mem
         /\ op'[w].analysis = op[w].analysis /\ op'[w].receipt = r
         /\ op'[w].reply = op[w].reply /\ op'[w].abandoned = op[w].abandoned
<1> DEFINE o == [op[w] EXCEPT !.pc = pc, !.receipt = r]
<1>1. /\ o \in Operations /\ o.pc = pc /\ o.mem = op[w].mem /\ o.analysis = op[w].analysis
      /\ o.receipt = r /\ o.reply = op[w].reply /\ o.abandoned = op[w].abandoned
  BY DEF Operations
<1>2. Becomes(w, o)
  BY DEF Receives
<1> HIDE DEF o
<1>3. op'[w] = o /\ Others(w)
  BY BecomesIs, <1>1, <1>2
<1> QED
  BY <1>1, <1>3

\* A step that changes the copy of the task state changes nothing else.
LEMMA ChangesIs ==
  ASSUME NEW w \in Workers, NEW pc \in PCs, NEW STATE m, m \in Tasks, op \in [Workers -> Operations],
         Changes(w, pc, m)
  PROVE  /\ Others(w) /\ op'[w].pc = pc /\ op'[w].mem = m
         /\ op'[w].analysis = op[w].analysis /\ op'[w].receipt = op[w].receipt
         /\ op'[w].reply = op[w].reply /\ op'[w].abandoned = op[w].abandoned
<1> DEFINE o == [op[w] EXCEPT !.pc = pc, !.mem = m]
<1>1. /\ o \in Operations /\ o.pc = pc /\ o.mem = m /\ o.analysis = op[w].analysis
      /\ o.receipt = op[w].receipt /\ o.reply = op[w].reply /\ o.abandoned = op[w].abandoned
  BY DEF Operations
<1>2. Becomes(w, o)
  BY DEF Changes
<1> HIDE DEF o
<1>3. op'[w] = o /\ Others(w)
  BY BecomesIs, <1>1, <1>2
<1> QED
  BY <1>1, <1>3

\* An operation that begins has a task state, and of the one before it only whether
\* its call is cancelled.
LEMMA BeginIs ==
  ASSUME NEW w \in Workers, NEW pc \in PCs, NEW STATE m, m \in Tasks, NEW STATE a, a \in Analyses \cup {None},
         op \in [Workers -> Operations], Begin(w, pc, m, a)
  PROVE  /\ Others(w) /\ op'[w].pc = pc /\ op'[w].mem = m
         /\ op'[w].analysis = a /\ op'[w].receipt = None
         /\ op'[w].reply = None /\ op'[w].abandoned = op[w].abandoned
<1> DEFINE o == [NoOp EXCEPT !.pc = pc, !.mem = m, !.analysis = a, !.abandoned = op[w].abandoned]
<1>1. /\ o \in Operations /\ o.pc = pc /\ o.mem = m /\ o.analysis = a
      /\ o.receipt = None /\ o.reply = None /\ o.abandoned = op[w].abandoned
  BY DEF Operations, NoOp
<1>2. Becomes(w, o)
  BY DEF Begin
<1> HIDE DEF o
<1>3. op'[w] = o /\ Others(w)
  BY BecomesIs, <1>1, <1>2
<1> QED
  BY <1>1, <1>3

\* The two ways a task state moves on.
IsCompleted(n, t, i, a) ==
  /\ n \in Tasks /\ n.status = t.status /\ n.index = i + 1
  /\ n.inv[i].status = "completed"
  /\ n.inv[i].result = a.analysis /\ n.inv[i].receipt = a.receipt
  /\ \A j \in 1..Count : j # i => n.inv[j] = t.inv[j]

IsAwaiting(n, t, i) ==
  /\ n \in Tasks /\ n.status = t.status /\ n.index = t.index
  /\ n.inv[i].status = "awaiting_writer"
  /\ \A j \in 1..Count : j # i => n.inv[j] = t.inv[j]

\* Completed concludes one investigation, and leaves the others as they are.
LEMMA CompletedIs ==
  ASSUME NEW STATE t, t \in Tasks, NEW STATE i, i \in 1..Count, Count \in Nat,
         NEW STATE p, p \in Patches, NEW STATE a, a.analysis \in Analyses, a.receipt \in Analyses \cup {None},
         NEW STATE n, n = Completed(t, i, p, a)
  PROVE  IsCompleted(n, t, i, a)
<1> DEFINE e == [status |-> "completed", patch |-> p, result |-> a.analysis, receipt |-> a.receipt]
           inv == [t.inv EXCEPT ![i] = e]
<1>1. e \in Investigations /\ e.status = "completed" /\ e.result = a.analysis /\ e.receipt = a.receipt
  BY DEF Investigations
<1> HIDE DEF e
<1>2. t.inv \in [1..Count -> Investigations] /\ t.index \in 1..(Count + 1)
  BY DEF Tasks
<1>3. inv \in [1..Count -> Investigations] /\ inv[i] = e /\ \A j \in 1..Count : j # i => inv[j] = t.inv[j]
  BY <1>1, <1>2
<1>4. n = [t EXCEPT !.inv = inv, !.index = i + 1]
  BY DEF Completed, e
<1> HIDE DEF inv
<1>5. i + 1 \in 1..(Count + 1)
  OBVIOUS
<1>6. n \in Tasks /\ n.status = t.status /\ n.index = i + 1 /\ n.inv = inv
  BY <1>3, <1>4, <1>5 DEF Tasks
<1> QED
  BY <1>1, <1>3, <1>6 DEF IsCompleted

\* Awaiting changes the status of one investigation.
LEMMA AwaitingIs ==
  ASSUME NEW STATE t, t \in Tasks, NEW STATE i, i \in 1..Count,
         NEW STATE n, n = Awaiting(t, i)
  PROVE  IsAwaiting(n, t, i)
<1> DEFINE e == [t.inv[i] EXCEPT !.status = "awaiting_writer"]
           inv == [t.inv EXCEPT ![i] = e]
<1>1. t.inv \in [1..Count -> Investigations]
  BY DEF Tasks
<1>2. e \in Investigations /\ e.status = "awaiting_writer"
  BY <1>1 DEF Investigations
<1>3. n = [t EXCEPT !.inv = inv]
  BY DEF Awaiting
<1> HIDE DEF e
<1>4. inv \in [1..Count -> Investigations] /\ inv[i] = e /\ \A j \in 1..Count : j # i => inv[j] = t.inv[j]
  BY <1>1, <1>2
<1> HIDE DEF inv
<1>5. n \in Tasks /\ n.status = t.status /\ n.index = t.index /\ n.inv = inv
  BY <1>3, <1>4 DEF Tasks
<1> QED
  BY <1>2, <1>4, <1>5 DEF IsAwaiting
-----------------------------------------------------------------------------
(* Typed: what every caller finds.                                         *)

\* Typed, but for the threads.
DiskTyped ==
  /\ case \in Cases /\ alert \in Alerts /\ faults \in 0..MaxFaults
  /\ task \in Tasks /\ run \in [1..Count -> Runs]
  /\ assembled \in [1..Count -> Analyses \cup {None}]
  /\ runSink \in [1..Count -> RunArtifacts \cup {None}]
  /\ taskSink \in TaskArtifacts \cup {None} /\ delivered \subseteq TaskArtifacts
  /\ groups = Grouping(alert) /\ HasResults(task) /\ SinksAnswer

\* Typed is about the files and about each thread.
LEMMA TypedParts ==
  Typed <=> DiskTyped /\ op \in [Workers -> Operations] /\ \A w \in Workers : Knows(w)
BY Zenon DEF Typed, TypeOK, DiskTyped

\* What every proof below needs of Typed.
LEMMA TypedFacts ==
  ASSUME Typed
  PROVE  /\ Count \in Nat /\ DOMAIN groups = 1..Count /\ op \in [Workers -> Operations]
         /\ \A i \in 1..Count : groups[i].rules \in Seq(Nat)
         /\ \A i \in 1..Count, p \in Patches : Analysis(i, p) \in Analyses
         /\ \A w \in Workers : Knows(w)
<1>1. /\ Count \in Nat /\ DOMAIN groups = 1..Count
      /\ \A i \in 1..Count : groups[i].rules \in Seq(Nat)
  BY GroupsAre DEF Typed, TypeOK
<1>2. \A i \in 1..Count, p \in Patches : Analysis(i, p) \in Analyses
  BY <1>1 DEF Analysis, Analyses
<1> QED
  BY <1>1, <1>2 DEF Typed, TypeOK

\* The alert and the groups made of it are fixed, and so is all that depends on them.
LEMMA FrozenIs ==
  ASSUME UNCHANGED frozen
  PROVE  /\ case' = case /\ alert' = alert /\ groups' = groups /\ Count' = Count
         /\ Tasks' = Tasks /\ TaskArtifacts' = TaskArtifacts /\ Operations' = Operations
         /\ Cancels' = Cancels /\ Rewrites' = Rewrites
<1>1. case' = case /\ alert' = alert /\ groups' = groups
  BY DEF frozen
<1>2. Count' = Count
  BY <1>1 DEF Count
<1>3. Tasks' = Tasks /\ TaskArtifacts' = TaskArtifacts
  BY <1>2 DEF Tasks, TaskArtifacts
<1>4. Operations' = Operations
  BY <1>3 DEF Operations
<1>5. Cancels' = Cancels /\ Rewrites' = Rewrites
  BY <1>1 DEF Cancels, Rewrites
<1> QED
  BY <1>1, <1>2, <1>3, <1>4, <1>5

\* What a thread has seen on disk stays there.
StillThere ==
  \A i \in 1..Count : /\ assembled[i] \in Analyses => assembled'[i] \in Analyses
                      /\ runSink[i] \in RunArtifacts => runSink'[i] \in RunArtifacts

\* A thread that takes no step knows what it knew.
LEMMA OtherKnows ==
  ASSUME Typed, UNCHANGED frozen, NEW v \in Workers, op'[v] = op[v], StillThere
  PROVE  Knows(v)'
<1>1. Knows(v) /\ DOMAIN groups = 1..Count
  BY TypedFacts
<1>2. groups' = groups /\ Tasks' = Tasks /\ TaskArtifacts' = TaskArtifacts
  BY FrozenIs
<1> QED
  BY <1>1, <1>2 DEF Knows, HasResults, FullQueue, Concludes, Validated, At, Mem, Current, Analysis, StillThere

\* A step needs to be checked for the files and for the thread that takes it.
LEMMA StepTyped ==
  ASSUME Typed, UNCHANGED frozen, NEW w \in Workers, Others(w), StillThere, DiskTyped', Knows(w)'
  PROVE  Typed'
<1>1. op' \in [Workers -> Operations'] /\ \A v \in Workers : v # w => op'[v] = op[v]
  BY FrozenIs DEF Others
<1>2. \A v \in Workers : Knows(v)'
  BY <1>1, OtherKnows
<1> QED
  BY <1>1, <1>2 DEF Typed, TypeOK, DiskTyped

\* Most steps leave the files alone.
LEMMA QuietTyped ==
  ASSUME Typed, UNCHANGED <<frozen, disk>>, faults' \in 0..MaxFaults, delivered' \subseteq TaskArtifacts,
         NEW w \in Workers, Others(w), Knows(w)'
  PROVE  Typed'
<1>1. /\ UNCHANGED frozen /\ task' = task /\ run' = run /\ assembled' = assembled
      /\ runSink' = runSink /\ taskSink' = taskSink
  BY DEF disk
<1>2. DiskTyped'
  BY <1>1, FrozenIs DEF Typed, TypeOK, DiskTyped, HasResults, SinksAnswer, FullQueue
<1>3. StillThere
  BY <1>1 DEF StillThere
<1> QED
  BY <1>1, <1>2, <1>3, StepTyped

\* An idle thread has nothing to know.
LEMMA EndKnows ==
  ASSUME NEW w \in Workers, op'[w] = NoOp
  PROVE  Knows(w)'
BY DEF Knows, NoOp, Concludes, Validated, At

\* What Kept keeps has its type.
LEMMA KeptIs ==
  ASSUME Typed, Kept
  PROVE  UNCHANGED frozen /\ faults' \in 0..MaxFaults /\ delivered' \subseteq TaskArtifacts
BY DEF Kept, Typed, TypeOK

\* A refusal, or an operation that ends with no write.
LEMMA EndTyped ==
  ASSUME Typed, UNCHANGED disk, Kept, NEW w \in Workers, End(w)
  PROVE  Typed'
<1>1. Others(w) /\ op'[w] = NoOp
  BY EndIs, TypedFacts
<1> QED
  BY <1>1, KeptIs, EndKnows, QuietTyped

\* A step within an operation that needs no new knowledge.
LEMMA GotoTyped ==
  ASSUME Typed, UNCHANGED disk, Kept, NEW w \in Workers, NEW pc \in PCs, op[w].pc # "idle", Goto(w, pc),
         pc \in {"replace", "store"} => Concludes(w),
         pc = "store" => Validated(w),
         pc = "load" => Validated(w) /\ runSink[Current(w)] \in RunArtifacts,
         pc = "store_task" => \A i \in DOMAIN groups : Mem(w).inv[i].status = "completed",
         pc \notin {"idle", "assemble", "validate", "finalize", "sink", "handoff"}
  PROVE  Typed'
<1>1. /\ Others(w) /\ op'[w].pc = pc /\ op'[w].mem = op[w].mem
      /\ op'[w].analysis = op[w].analysis /\ op'[w].receipt = op[w].receipt
  BY GotoIs, TypedFacts
<1>2. /\ runSink' = runSink /\ groups' = groups /\ Tasks' = Tasks
      /\ UNCHANGED <<frozen, disk>>
  BY KeptIs, FrozenIs DEF disk
<1>3. Knows(w)
  BY TypedFacts
<1>4. Knows(w)'
  BY <1>1, <1>2, <1>3 DEF Knows, HasResults, FullQueue, Concludes, Validated, At, Mem, Current, Analysis
<1> QED
  BY <1>1, <1>2, <1>4, KeptIs, QuietTyped

\* run_task loads the task state.
LEMMA RunTaskTyped ==
  ASSUME Typed, NEW w \in Workers, RunTask(w)
  PROVE  Typed'
<1>1. task \in Tasks /\ HasResults(task)
  BY DEF Typed, TypeOK
<1>2. Others(w) /\ op'[w].pc = "advance" /\ op'[w].mem = task
  BY <1>1, BeginIs, TypedFacts DEF RunTask, PCs
<1>3. UNCHANGED <<frozen, disk>> /\ groups' = groups /\ Tasks' = Tasks
  BY KeptIs, FrozenIs DEF RunTask
<1>4. Knows(w)'
  BY <1>1, <1>2, <1>3 DEF Knows, HasResults, FullQueue, Concludes, Validated, At, Mem
<1> QED
  BY <1>2, <1>3, <1>4, KeptIs, QuietTyped DEF RunTask

\* finalize, of a run or of an investigation that defines none.
LEMMA FinalizeTyped ==
  ASSUME Typed, NEW w \in Workers, NEW p \in Patches, Finalize(w, p)
  PROVE  Typed'
<1> DEFINE i == task.index
           blocked == [analysis |-> Analysis(i, p), receipt |-> None]
<1>1. /\ task \in Tasks /\ HasResults(task) /\ i \in 1..Count /\ Count \in Nat /\ DOMAIN groups = 1..Count
      /\ Analysis(i, p) \in Analyses /\ op \in [Workers -> Operations]
  BY TypedFacts DEF Typed, TypeOK, Finalize
<1>2. UNCHANGED <<frozen, disk>> /\ groups' = groups /\ Tasks' = Tasks /\ Kept
  BY KeptIs, FrozenIs DEF Finalize
<1>3. CASE FullQueue(i)
  <2>1. Begin(w, "assemble", task, Analysis(i, p))
    BY <1>3 DEF Finalize
  <2>2. Others(w) /\ op'[w].pc = "assemble" /\ op'[w].mem = task /\ op'[w].analysis = Analysis(i, p)
    BY <1>1, <2>1, BeginIs DEF PCs
  <2>3. Knows(w)'
    BY <1>1, <1>2, <1>3, <2>2 DEF Knows, HasResults, FullQueue, Concludes, Validated, At, Mem, Current, Analysis
  <2> QED
    BY <1>2, <2>2, <2>3, KeptIs, QuietTyped
<1>4. CASE ~FullQueue(i)
  <2> DEFINE m == Completed(task, i, p, blocked)
  <2>1. Begin(w, "write", m, None)
    BY <1>4 DEF Finalize
  <2>2. /\ blocked.analysis = Analysis(i, p) /\ blocked.receipt = None
        /\ blocked.analysis \in Analyses /\ blocked.receipt \in Analyses \cup {None}
    BY <1>1
  <2>3. m = Completed(task, i, p, blocked)
    OBVIOUS
  <2> HIDE DEF m, blocked, i
  <2>4. /\ m \in Tasks /\ m.inv[i].status = "completed"
        /\ m.inv[i].result = Analysis(i, p) /\ m.inv[i].receipt = None
        /\ \A j \in 1..Count : j # i => m.inv[j] = task.inv[j]
    <3>1. IsCompleted(m, task, i, blocked)
      BY <1>1, <2>2, <2>3, CompletedIs
    <3> QED
      BY <2>2, <3>1 DEF IsCompleted
  <2>5. HasResults(m)
    BY <1>1, <1>4, <2>4 DEF HasResults, Analysis
  <2>6. Others(w) /\ op'[w].pc = "write" /\ op'[w].mem = m
    BY <1>1, <2>1, <2>4, BeginIs DEF PCs
  <2>7. Knows(w)'
    BY <1>2, <2>4, <2>5, <2>6 DEF Knows, HasResults, FullQueue, Concludes, Validated, At, Mem
  <2> QED
    BY <1>2, <2>6, <2>7, KeptIs, QuietTyped
<1> QED
  BY <1>3, <1>4

\* The candidate of a finalized run is compared with what the run holds.
LEMMA CompareTyped ==
  ASSUME Typed, NEW w \in Workers, Compare(w)
  PROVE  Typed'
<1> DEFINE c == Current(w)
<1>1. Knows(w) /\ op[w].pc = "assemble" /\ op \in [Workers -> Operations]
  BY TypedFacts DEF Compare, At
<1>2. UNCHANGED <<frozen, disk>> /\ groups' = groups /\ Tasks' = Tasks /\ Kept
  BY KeptIs, FrozenIs DEF Compare
<1>3. CASE SameAnalysis(w)
  <2>1. assembled[c] \in Analyses
    <3>1. assembled[c] = op[w].analysis /\ \E p \in Patches : op[w].analysis = Analysis(c, p) /\ c \in 1..Count
      BY <1>1, <1>3, TypedFacts DEF Knows, Concludes, SameAnalysis
    <3> QED
      BY <3>1, TypedFacts
  <2>2. Receives(w, "sink", assembled[c])
    BY <1>3 DEF Compare
  <2> HIDE DEF c
  <2>3. /\ Others(w) /\ op'[w].pc = "sink" /\ op'[w].mem = op[w].mem
        /\ op'[w].analysis = op[w].analysis /\ op'[w].receipt \in Analyses
    BY <1>1, <2>1, <2>2, ReceivesIs DEF PCs
  <2>4. Knows(w)'
    BY <1>1, <1>2, <2>3 DEF Knows, HasResults, FullQueue, Concludes, Validated, At, Mem, Current, Analysis
  <2> QED
    BY <1>2, <2>3, <2>4, KeptIs, QuietTyped
<1>4. CASE ~SameAnalysis(w)
  BY <1>2, <1>4, EndTyped DEF Compare
<1> QED
  BY <1>3, <1>4

\* The look at the run changes nothing but where the thread is.
LEMMA NotFinalizedTyped ==
  ASSUME Typed, NEW w \in Workers, NotFinalized(w)
  PROVE  Typed'
<1>1. /\ UNCHANGED disk /\ Kept /\ Goto(w, "replace") /\ "replace" \in PCs
      /\ op[w].pc # "idle" /\ Concludes(w)
  BY DEF NotFinalized, At, PCs, Concludes
<1> QED
  BY <1>1, GotoTyped

\* assemble_final replaces the final file by an analysis.
LEMMA AssembleTyped ==
  ASSUME Typed, NEW w \in Workers, Assemble(w)
  PROVE  Typed'
<1> DEFINE c == Current(w)
           a == op[w].analysis
<1>1. Knows(w) /\ op[w].pc = "replace" /\ op \in [Workers -> Operations] /\ c \in 1..Count /\ a \in Analyses
  BY TypedFacts DEF Assemble, At, Knows, Concludes
<1>2. /\ UNCHANGED frozen /\ task' = task /\ run' = run /\ runSink' = runSink /\ taskSink' = taskSink
      /\ assembled' = [assembled EXCEPT ![c] = a] /\ Kept
  BY KeptIs DEF Assemble
<1>3. groups' = groups /\ Tasks' = Tasks
  BY <1>2, FrozenIs
<1>4. /\ Others(w) /\ op'[w].pc = "validate" /\ op'[w].mem = op[w].mem
      /\ op'[w].analysis = op[w].analysis
  BY <1>1, GotoIs DEF Assemble, PCs
<1> HIDE DEF c, a
<1>5. assembled \in [1..Count -> Analyses \cup {None}]
  BY DEF Typed, TypeOK
<1>6. assembled' \in [1..Count -> Analyses \cup {None}] /\ StillThere /\ assembled'[c] \in Analyses
  BY <1>1, <1>2, <1>5 DEF StillThere
<1>7. DiskTyped'
  BY <1>2, <1>6, KeptIs, FrozenIs DEF Typed, TypeOK, DiskTyped, HasResults, SinksAnswer, FullQueue
<1>8. Knows(w)'
  BY <1>1, <1>3, <1>4, <1>6 DEF Knows, HasResults, FullQueue, Concludes, Validated, At, Mem, Current, Analysis, c
<1> QED
  BY <1>2, <1>4, <1>6, <1>7, <1>8, StepTyped

\* validate_final takes an analysis from the file: Assemble has put one there.
LEMMA ValidateTyped ==
  ASSUME Typed, NEW w \in Workers, Validate(w)
  PROVE  Typed'
<1> DEFINE read == assembled[Current(w)]
<1>1. Knows(w) /\ op[w].pc = "validate" /\ op \in [Workers -> Operations] /\ read \in Analyses
  BY TypedFacts DEF Validate, At, Knows
<1>2. UNCHANGED <<frozen, disk>> /\ groups' = groups /\ Tasks' = Tasks /\ Kept
  BY KeptIs, FrozenIs DEF Validate
<1>3. ASSUME NEW pc \in {"finalize", "sink"}, Receives(w, pc, read)
      PROVE  Typed'
  <2>0. pc \in PCs
    BY DEF PCs
  <2> HIDE DEF read
  <2>1. /\ Others(w) /\ op'[w].pc = pc /\ op'[w].mem = op[w].mem
        /\ op'[w].analysis = op[w].analysis /\ op'[w].receipt \in Analyses
    BY <1>1, <1>3, <2>0, ReceivesIs
  <2>2. Knows(w)'
    BY <1>1, <1>2, <2>1 DEF Knows, HasResults, FullQueue, Concludes, Validated, At, Mem, Current, Analysis
  <2> QED
    BY <1>2, <2>1, <2>2, KeptIs, QuietTyped
<1>4. CASE End(w)
  BY <1>2, <1>4, EndTyped
<1> QED
  BY <1>3, <1>4 DEF Validate

\* The run is finalized with the hash of what was validated.
LEMMA FinalizeRunTyped ==
  ASSUME Typed, NEW w \in Workers, FinalizeRun(w)
  PROVE  Typed'
<1> DEFINE c == Current(w)
           r == [status |-> "finalized", final |-> op[w].receipt]
<1>1. /\ Knows(w) /\ op[w].pc = "finalize" /\ op \in [Workers -> Operations] /\ c \in 1..Count
      /\ op[w].receipt \in Analyses
  BY TypedFacts DEF FinalizeRun, At, Knows, Concludes, Validated
<1>2. /\ UNCHANGED frozen /\ task' = task /\ assembled' = assembled /\ runSink' = runSink /\ taskSink' = taskSink
      /\ run' = [run EXCEPT ![c] = r] /\ Kept
  BY KeptIs DEF FinalizeRun
<1>3. groups' = groups /\ Tasks' = Tasks
  BY <1>2, FrozenIs
<1>4. /\ Others(w) /\ op'[w].pc = "sink" /\ op'[w].mem = op[w].mem
      /\ op'[w].analysis = op[w].analysis /\ op'[w].receipt = op[w].receipt
  BY <1>1, GotoIs DEF FinalizeRun, PCs
<1>5. run \in [1..Count -> Runs] /\ r \in Runs
  BY <1>1 DEF Typed, TypeOK, Runs
<1> HIDE DEF c, r
<1>6. run' \in [1..Count -> Runs] /\ StillThere
  BY <1>1, <1>2, <1>5 DEF StillThere
<1>7. DiskTyped'
  BY <1>2, <1>6, KeptIs, FrozenIs DEF Typed, TypeOK, DiskTyped, HasResults, SinksAnswer, FullQueue, Runs
<1>8. Knows(w)'
  BY <1>1, <1>3, <1>4 DEF Knows, HasResults, FullQueue, Concludes, Validated, At, Mem, Current, Analysis
<1> QED
  BY <1>2, <1>4, <1>6, <1>7, <1>8, StepTyped

\* The look at the run sink, which is loaded only if it is there.
LEMMA LookRunSinkTyped ==
  ASSUME Typed, NEW w \in Workers, LookRunSink(w)
  PROVE  Typed'
<1>1. UNCHANGED disk /\ Kept /\ Knows(w) /\ op[w].pc = "sink"
  BY TypedFacts DEF LookRunSink, At
<1>2. Concludes(w) /\ Validated(w) /\ op[w].pc # "idle" /\ Current(w) \in 1..Count
  BY <1>1, TypedFacts DEF Concludes, Validated, Knows
<1>3. CASE Goto(w, "store")
  <2>1. "store" \in PCs
    BY DEF PCs
  <2> QED
    BY <1>1, <1>2, <1>3, <2>1, GotoTyped
<1>4. CASE runSink[Current(w)] # None /\ Goto(w, "load")
  <2>1. "load" \in PCs
    BY DEF PCs
  <2>2. runSink[Current(w)] \in RunArtifacts
    BY <1>2, <1>4 DEF Typed, TypeOK
  <2> QED
    BY <1>1, <1>2, <1>4, <2>1, <2>2, GotoTyped
<1>5. CASE End(w)
  BY <1>1, <1>5, EndTyped
<1> QED
  BY <1>3, <1>4, <1>5 DEF LookRunSink

\* The run sink gets an analysis of the rules of its investigation.
LEMMA StoreRunSinkTyped ==
  ASSUME Typed, NEW w \in Workers, StoreRunSink(w)
  PROVE  Typed'
<1> DEFINE c == Current(w)
           a == RunArtifact(w)
<1>1. /\ Knows(w) /\ op[w].pc = "store" /\ op \in [Workers -> Operations] /\ c \in 1..Count
      /\ op[w].receipt \in Analyses /\ \E p \in Patches : op[w].analysis = Analysis(c, p)
  BY TypedFacts DEF StoreRunSink, At, Knows, Concludes, Validated
<1>2. a \in RunArtifacts /\ a.analysis.rules = groups[c].rules
  <2>1. op[w].analysis \in Analyses /\ op[w].analysis.rules = groups[c].rules
    BY <1>1, TypedFacts DEF Analysis
  <2> QED
    BY <1>1, <2>1 DEF RunArtifacts, RunArtifact
<1>3. /\ UNCHANGED frozen /\ task' = task /\ run' = run /\ assembled' = assembled /\ taskSink' = taskSink
      /\ runSink' = [runSink EXCEPT ![c] = a] /\ Kept
  BY KeptIs DEF StoreRunSink
<1>4. groups' = groups /\ Tasks' = Tasks
  BY <1>3, FrozenIs
<1>5. /\ Others(w) /\ op'[w].pc = "load" /\ op'[w].mem = op[w].mem
      /\ op'[w].analysis = op[w].analysis /\ op'[w].receipt = op[w].receipt
  BY <1>1, GotoIs DEF StoreRunSink, PCs
<1>6. runSink \in [1..Count -> RunArtifacts \cup {None}] /\ SinksAnswer /\ DOMAIN groups = 1..Count
  BY TypedFacts DEF Typed, TypeOK
<1> HIDE DEF c, a
<1>7. runSink' \in [1..Count -> RunArtifacts \cup {None}] /\ StillThere /\ runSink'[c] \in RunArtifacts
  BY <1>1, <1>2, <1>3, <1>6 DEF StillThere
<1>8. SinksAnswer'
  BY <1>1, <1>2, <1>3, <1>4, <1>6 DEF SinksAnswer, FullQueue
<1>9. DiskTyped'
  BY <1>3, <1>7, <1>8, KeptIs, FrozenIs DEF Typed, TypeOK, DiskTyped, HasResults, FullQueue
<1>10. Knows(w)'
  BY <1>1, <1>4, <1>5, <1>7 DEF Knows, HasResults, FullQueue, Concludes, Validated, At, Mem, Current, Analysis, c
<1> QED
  BY <1>3, <1>5, <1>7, <1>9, <1>10, StepTyped

\* What the task state takes from the run sink has a receipt.
LEMMA LoadResultTyped ==
  ASSUME Typed, NEW w \in Workers, LoadResult(w)
  PROVE  Typed'
<1> DEFINE i == Current(w)
           t == Mem(w)
           p == op[w].analysis.patch
           a == runSink[i]
           m == Completed(t, i, p, a)
<1>1. /\ Knows(w) /\ op[w].pc = "load" /\ op \in [Workers -> Operations] /\ i \in 1..Count
      /\ t \in Tasks /\ HasResults(t) /\ a \in RunArtifacts /\ FullQueue(i)
      /\ \E q \in Patches : op[w].analysis = Analysis(i, q)
  BY TypedFacts DEF LoadResult, At, Knows, Concludes
<1>2. p \in Patches /\ a.analysis \in Analyses /\ a.receipt \in Analyses /\ Count \in Nat /\ DOMAIN groups = 1..Count
  BY <1>1, TypedFacts DEF Analysis, RunArtifacts
<1>3. a.receipt # None /\ a # None
  BY <1>1, <1>2, NoneAssumption DEF RunArtifacts
<1>4. a.analysis.rules = groups[i].rules
  BY <1>1, <1>2, <1>3 DEF Typed, SinksAnswer
<1>5. UNCHANGED <<frozen, disk>> /\ groups' = groups /\ Tasks' = Tasks /\ Kept
  BY KeptIs, FrozenIs DEF LoadResult
<1>6. Begin(w, "write", m, None) /\ m = Completed(t, i, p, a)
  BY DEF LoadResult
<1> HIDE DEF i, t, p, a, m
<1>7. /\ m \in Tasks /\ m.status = t.status /\ m.index = i + 1 /\ m.inv[i].status = "completed"
      /\ m.inv[i].result = a.analysis /\ m.inv[i].receipt = a.receipt
      /\ \A j \in 1..Count : j # i => m.inv[j] = t.inv[j]
  <2>1. a.receipt \in Analyses \cup {None}
    BY <1>2
  <2>2. IsCompleted(m, t, i, a)
    BY <1>1, <1>2, <1>6, <2>1, CompletedIs
  <2> QED
    BY <2>2 DEF IsCompleted
<1>8. HasResults(m)
  BY <1>1, <1>2, <1>3, <1>4, <1>7 DEF HasResults
<1>9. Others(w) /\ op'[w].pc = "write" /\ op'[w].mem = m
  BY <1>1, <1>6, <1>7, BeginIs DEF PCs
<1>10. Knows(w)'
  BY <1>5, <1>7, <1>8, <1>9 DEF Knows, HasResults, FullQueue, Concludes, Validated, At, Mem
<1> QED
  BY <1>5, <1>9, <1>10, KeptIs, QuietTyped

\* The task state is replaced by the copy of a thread, as well formed as it is.
LEMMA WriteTaskTyped ==
  ASSUME Typed, NEW w \in Workers, WriteTask(w)
  PROVE  Typed'
<1> DEFINE pc == IF Mem(w).status = "completed" THEN "respond" ELSE "advance"
<1>1. /\ Knows(w) /\ op[w].pc = "write" /\ op \in [Workers -> Operations]
      /\ Mem(w) \in Tasks /\ HasResults(Mem(w))
  BY TypedFacts DEF WriteTask, At, Knows
<1>2. /\ UNCHANGED frozen /\ task' = Mem(w) /\ run' = run /\ assembled' = assembled
      /\ runSink' = runSink /\ taskSink' = taskSink /\ Kept
  BY KeptIs DEF WriteTask
<1>3. groups' = groups /\ Tasks' = Tasks
  BY <1>2, FrozenIs
<1>4. pc \in {"respond", "advance"} /\ pc \in PCs /\ Goto(w, pc)
  BY DEF WriteTask, PCs
<1> HIDE DEF pc
<1>5. Others(w) /\ op'[w].pc = pc /\ op'[w].mem = op[w].mem
  BY <1>1, <1>4, GotoIs
<1>6. StillThere
  BY <1>2 DEF StillThere
<1>7. HasResults(task)'
  BY <1>1, <1>2, <1>3 DEF HasResults, FullQueue
<1>8. DiskTyped'
  BY <1>1, <1>2, <1>7, KeptIs, FrozenIs DEF Typed, TypeOK, DiskTyped, SinksAnswer, FullQueue
<1>9. Knows(w)'
  BY <1>1, <1>3, <1>4, <1>5 DEF Knows, HasResults, FullQueue, Concludes, Validated, At, Mem
<1> QED
  BY <1>2, <1>5, <1>6, <1>8, <1>9, StepTyped

\* The queue of the run completes and the writer is asked.
LEMMA AwaitWriterTyped ==
  ASSUME Typed, NEW w \in Workers, AwaitWriter(w)
  PROVE  Typed'
<1> DEFINE i == Current(w)
           t == Mem(w)
           m == Awaiting(t, i)
           r == [run[i] EXCEPT !.status = "queue_complete"]
<1>1. /\ Knows(w) /\ op[w].pc = "advance" /\ op \in [Workers -> Operations] /\ i \in 1..Count
      /\ t \in Tasks /\ HasResults(t) /\ DOMAIN groups = 1..Count
  BY TypedFacts DEF AwaitWriter, AtCurrent, At, Knows
<1>2. /\ UNCHANGED frozen /\ task' = task /\ assembled' = assembled
      /\ runSink' = runSink /\ taskSink' = taskSink /\ Kept
  BY KeptIs DEF AwaitWriter
<1>3. groups' = groups /\ Tasks' = Tasks
  BY <1>2, FrozenIs
<1>4. run \in [1..Count -> Runs] /\ run' \in [1..Count -> Runs]
  <2>1. run \in [1..Count -> Runs]
    BY DEF Typed, TypeOK
  <2>2. run' = run \/ run' = [run EXCEPT ![i] = r]
    BY DEF AwaitWriter
  <2>3. r \in Runs
    BY <2>1, <1>1 DEF Runs
  <2> HIDE DEF r, i
  <2> QED
    BY <2>1, <2>2, <2>3
<1>5. Changes(w, "write", m) /\ m = Awaiting(t, i)
  BY DEF AwaitWriter
<1> HIDE DEF i, t, m
<1>6. m \in Tasks /\ m.inv[i].status = "awaiting_writer" /\ \A j \in 1..Count : j # i => m.inv[j] = t.inv[j]
  <2>1. IsAwaiting(m, t, i)
    BY <1>1, <1>5, AwaitingIs
  <2> QED
    BY <2>1 DEF IsAwaiting
<1>7. HasResults(m)
  BY <1>1, <1>6 DEF HasResults
<1>8. Others(w) /\ op'[w].pc = "write" /\ op'[w].mem = m
  BY <1>1, <1>5, <1>6, ChangesIs DEF PCs
<1>9. StillThere
  BY <1>2 DEF StillThere
<1>10. DiskTyped'
  BY <1>2, <1>4, KeptIs, FrozenIs DEF Typed, TypeOK, DiskTyped, HasResults, SinksAnswer, FullQueue, Runs
<1>11. Knows(w)'
  BY <1>3, <1>6, <1>7, <1>8 DEF Knows, HasResults, FullQueue, Concludes, Validated, At, Mem
<1> QED
  BY <1>2, <1>8, <1>9, <1>10, <1>11, StepTyped

\* The sealed task state has the investigations of the unsealed one.
LEMMA SealedIs ==
  ASSUME NEW STATE t, t \in Tasks, NEW STATE m, m = Sealed(t)
  PROVE  m \in Tasks /\ m.status = "completed" /\ m.index = t.index /\ m.inv = t.inv
BY DEF Sealed, Tasks

\* A thread seals the task state it has.
LEMMA SealKnows ==
  ASSUME Typed, NEW w \in Workers, op[w].pc # "idle", UNCHANGED frozen, Changes(w, "write", Sealed(Mem(w)))
  PROVE  Others(w) /\ Knows(w)'
<1> DEFINE t == Mem(w)
           m == Sealed(t)
<1>1. t \in Tasks /\ HasResults(t) /\ op \in [Workers -> Operations] /\ groups' = groups /\ Tasks' = Tasks
  BY TypedFacts, FrozenIs DEF Knows
<1>2. Changes(w, "write", m) /\ m = Sealed(t)
  OBVIOUS
<1> HIDE DEF t, m
<1>3. m \in Tasks /\ m.inv = t.inv
  BY <1>1, <1>2, SealedIs
<1>4. Others(w) /\ op'[w].pc = "write" /\ op'[w].mem = m
  BY <1>1, <1>2, <1>3, ChangesIs DEF PCs
<1>5. HasResults(m)
  BY <1>1, <1>3 DEF HasResults
<1> QED
  BY <1>1, <1>3, <1>4, <1>5 DEF Knows, HasResults, FullQueue, Concludes, Validated, At, Mem

\* The look at the task sink, when all investigations are completed.
LEMMA LookTaskSinkTyped ==
  ASSUME Typed, NEW w \in Workers, LookTaskSink(w)
  PROVE  Typed'
<1>1. UNCHANGED <<frozen, disk>> /\ UNCHANGED disk /\ Kept /\ op[w].pc = "advance" /\ op[w].pc # "idle"
  BY KeptIs DEF LookTaskSink, At
<1>2. CASE Assembles(Mem(w)) /\ Goto(w, "store_task")
  <2>1. "store_task" \in PCs
    BY DEF PCs
  <2> QED
    BY <1>1, <1>2, <2>1, GotoTyped DEF Assembles
<1>3. CASE Changes(w, "write", Sealed(Mem(w)))
  <2>1. Others(w) /\ Knows(w)'
    BY <1>1, <1>3, SealKnows
  <2> QED
    BY <1>1, <2>1, KeptIs, QuietTyped
<1>4. CASE End(w)
  BY <1>1, <1>4, EndTyped
<1> QED
  BY <1>2, <1>3, <1>4 DEF LookTaskSink

\* What the task sink is given has a result of each investigation.
LEMMA TaskArtifactIs ==
  ASSUME Typed, NEW STATE t, t \in Tasks, HasResults(t), \A i \in DOMAIN groups : t.inv[i].status = "completed",
         NEW STATE a, a = TaskArtifact(t)
  PROVE  /\ a \in TaskArtifacts
         /\ \A i \in 1..Count : /\ a.results[i] = t.inv[i].result /\ a.receipts[i] = t.inv[i].receipt
                                /\ a.results[i].rules = groups[i].rules
                                /\ a.receipts[i] = None <=> ~FullQueue(i)
<1>1. DOMAIN groups = 1..Count
  BY TypedFacts
<1>2. t.inv \in [1..Count -> Investigations]
  BY DEF Tasks
<1>3. \A i \in 1..Count : /\ t.inv[i].result \in Analyses /\ t.inv[i].receipt \in Analyses \cup {None}
                          /\ t.inv[i].result.rules = groups[i].rules
                          /\ t.inv[i].receipt = None <=> ~FullQueue(i)
  BY <1>1, <1>2 DEF HasResults, Investigations
<1>4. /\ a = [results |-> [i \in 1..Count |-> t.inv[i].result], receipts |-> [i \in 1..Count |-> t.inv[i].receipt]]
  BY <1>2 DEF TaskArtifact
<1>5. a.results \in [1..Count -> Analyses] /\ a.receipts \in [1..Count -> Analyses \cup {None}]
  BY <1>3, <1>4
<1> QED
  BY <1>3, <1>4, <1>5 DEF TaskArtifacts

\* The task sink gets a result of each investigation.
LEMMA StoreTaskSinkTyped ==
  ASSUME Typed, NEW w \in Workers, StoreTaskSink(w)
  PROVE  Typed'
<1> DEFINE a == TaskArtifact(Mem(w))
<1>1. /\ UNCHANGED frozen /\ task' = task /\ run' = run /\ assembled' = assembled
      /\ runSink' = runSink /\ taskSink' = a /\ Kept /\ op[w].pc = "store_task"
  BY KeptIs DEF StoreTaskSink, At
<1>2. /\ Mem(w) \in Tasks /\ HasResults(Mem(w)) /\ DOMAIN groups = 1..Count
      /\ \A i \in DOMAIN groups : Mem(w).inv[i].status = "completed"
  BY <1>1, TypedFacts DEF Knows, At
<1>3. a \in TaskArtifacts /\ \A i \in 1..Count : /\ a.results[i].rules = groups[i].rules
                                                 /\ a.receipts[i] = None <=> ~FullQueue(i)
  <2> DEFINE t == Mem(w)
  <2>1. a = TaskArtifact(t) /\ t \in Tasks /\ HasResults(t) /\ \A i \in DOMAIN groups : t.inv[i].status = "completed"
    BY <1>2
  <2> HIDE DEF a, t
  <2> QED
    BY <2>1, TaskArtifactIs
<1>4. Others(w) /\ Knows(w)'
  BY <1>1, SealKnows DEF StoreTaskSink
<1> HIDE DEF a
<1>5. SinksAnswer'
  <2>1. groups' = groups
    BY <1>1, FrozenIs
  <2>2. \A i \in DOMAIN groups : runSink[i] # None => runSink[i].analysis.rules = groups[i].rules
    BY DEF Typed, SinksAnswer
  <2>3. \A i \in DOMAIN groups : /\ a.results[i].rules = groups[i].rules
                                 /\ a.receipts[i] = None <=> ~(groups[i].status = "pending")
    BY <1>2, <1>3 DEF FullQueue
  <2>4. \A i \in DOMAIN groups' : /\ taskSink'.results[i].rules = groups'[i].rules
                                  /\ taskSink'.receipts[i] = None <=> ~(groups'[i].status = "pending")
    BY <1>1, <2>1, <2>3, Zenon
  <2>5. \A i \in DOMAIN groups' : runSink'[i] # None => runSink'[i].analysis.rules = groups'[i].rules
    BY <1>1, <2>1, <2>2, Zenon
  <2> QED
    BY <2>4, <2>5, Zenon DEF SinksAnswer, FullQueue
<1>6. DiskTyped'
  BY <1>1, <1>3, <1>5, KeptIs, FrozenIs DEF Typed, TypeOK, DiskTyped, HasResults, FullQueue
<1>7. StillThere
  BY <1>1 DEF StillThere
<1> QED
  BY <1>1, <1>4, <1>6, <1>7, StepTyped

\* The reply is what the task sink holds.
LEMMA RespondTyped ==
  ASSUME Typed, NEW w \in Workers, Respond(w)
  PROVE  Typed'
<1>1. UNCHANGED <<frozen, disk>> /\ UNCHANGED disk /\ Kept /\ op[w].pc = "respond"
  BY KeptIs DEF Respond, At
<1>2. CASE taskSink = None \/ op[w].abandoned
  BY <1>1, <1>2, EndTyped DEF Respond
<1>3. CASE ~(taskSink = None \/ op[w].abandoned)
  <2> DEFINE o == [op[w] EXCEPT !.pc = "handoff", !.reply = taskSink]
  <2>1. taskSink \in TaskArtifacts /\ op \in [Workers -> Operations]
    BY <1>3 DEF Typed, TypeOK
  <2>2. o \in Operations /\ o.pc = "handoff" /\ o.mem = op[w].mem /\ o.reply = taskSink
    BY <2>1 DEF Operations, PCs
  <2>3. Becomes(w, o)
    BY <1>3 DEF Respond
  <2> HIDE DEF o
  <2>4. Others(w) /\ op'[w] = o
    BY <2>1, <2>2, <2>3, BecomesIs
  <2>5. Knows(w) /\ groups' = groups /\ Tasks' = Tasks /\ TaskArtifacts' = TaskArtifacts
    BY <1>1, FrozenIs, TypedFacts
  <2>6. Knows(w)'
    BY <1>1, <2>1, <2>2, <2>4, <2>5 DEF Knows, HasResults, FullQueue, Concludes, Validated, At, Mem
  <2> QED
    BY <1>1, <2>4, <2>6, KeptIs, QuietTyped
<1> QED
  BY <1>2, <1>3

\* What is handed over is a reply.
LEMMA HandoffTyped ==
  ASSUME Typed, NEW w \in Workers, Handoff(w)
  PROVE  Typed'
<1>1. Knows(w) /\ op[w].pc = "handoff" /\ op[w].reply \in TaskArtifacts
  BY TypedFacts DEF Handoff, At, Knows
<1>2. UNCHANGED <<frozen, disk>> /\ faults' \in 0..MaxFaults /\ delivered' \subseteq TaskArtifacts
  BY <1>1 DEF Handoff, Typed, TypeOK
<1>3. Others(w) /\ op'[w] = NoOp
  BY EndIs, TypedFacts DEF Handoff
<1> QED
  BY <1>2, <1>3, EndKnows, QuietTyped

\* A death leaves the files as they are.
LEMMA FailTyped ==
  ASSUME Typed, NEW w \in Workers, Fail(w)
  PROVE  Typed'
<1>1. UNCHANGED <<frozen, disk>> /\ faults' \in 0..MaxFaults /\ delivered' \subseteq TaskArtifacts
  BY CallerAssumption DEF Fail, Faulty, Typed, TypeOK
<1>2. Others(w) /\ op'[w] = NoOp
  BY EndIs, TypedFacts DEF Fail
<1> QED
  BY <1>1, <1>2, EndKnows, QuietTyped

\* A cancellation changes nothing that the thread works with.
LEMMA CancelIs ==
  ASSUME Typed, NEW w \in Workers, Cancel(w)
  PROVE  /\ Others(w) /\ op'[w].pc = op[w].pc /\ op'[w].mem = op[w].mem
         /\ op'[w].analysis = op[w].analysis /\ op'[w].receipt = op[w].receipt
         /\ op'[w].reply = op[w].reply
         /\ UNCHANGED <<frozen, disk>> /\ faults' \in 0..MaxFaults /\ delivered' = delivered
<1> DEFINE o == [op[w] EXCEPT !.abandoned = TRUE]
<1>1. UNCHANGED <<frozen, disk>> /\ faults' \in 0..MaxFaults /\ delivered' = delivered
  BY CallerAssumption DEF Cancel, Faulty, Typed, TypeOK
<1>2. op \in [Workers -> Operations]
  BY TypedFacts
<1>3. /\ o \in Operations /\ o.pc = op[w].pc /\ o.mem = op[w].mem /\ o.analysis = op[w].analysis
      /\ o.receipt = op[w].receipt /\ o.reply = op[w].reply
  BY <1>2 DEF Operations
<1>4. Becomes(w, o)
  BY DEF Cancel
<1> HIDE DEF o
<1>5. Others(w) /\ op'[w] = o
  BY <1>2, <1>3, <1>4, BecomesIs
<1> QED
  BY <1>1, <1>3, <1>5

\* So it knows what it knew.
LEMMA CancelTyped ==
  ASSUME Typed, NEW w \in Workers, Cancel(w)
  PROVE  Typed'
<1>1. /\ Others(w) /\ op'[w].pc = op[w].pc /\ op'[w].mem = op[w].mem
      /\ op'[w].analysis = op[w].analysis /\ op'[w].receipt = op[w].receipt
      /\ op'[w].reply = op[w].reply
      /\ UNCHANGED <<frozen, disk>> /\ faults' \in 0..MaxFaults /\ delivered' = delivered
  BY CancelIs
<1>2. delivered' \subseteq TaskArtifacts
  BY <1>1 DEF Typed, TypeOK
<1>3. Knows(w)'
  <2>1. Knows(w) /\ groups' = groups /\ Tasks' = Tasks /\ TaskArtifacts' = TaskArtifacts
    BY <1>1, TypedFacts, FrozenIs
  <2>2. assembled' = assembled /\ runSink' = runSink
    BY <1>1 DEF disk
  <2>3. op[w].pc # "idle" => Mem(w)' \in Tasks' /\ HasResults(Mem(w))'
    BY <1>1, <2>1 DEF Knows, HasResults, FullQueue, Mem
  <2>4. Concludes(w) => (Current(w) \in DOMAIN groups /\ FullQueue(Current(w)) /\
                         \E p \in Patches : op[w].analysis = Analysis(Current(w), p))'
    BY <1>1, <2>1 DEF Knows, FullQueue, Mem, Current, Analysis
  <2>5. Concludes(w)' = Concludes(w) /\ Validated(w)' = Validated(w)
    BY <1>1 DEF Concludes, Validated
  <2> QED
    BY <1>1, <2>1, <2>2, <2>3, <2>4, <2>5 DEF Knows, At, Mem, Current
<1> QED
  BY <1>1, <1>2, <1>3, QuietTyped

\* Initially nothing is on disk but a task state of fresh investigations.
LEMMA InitTyped ==
  ASSUME Init
  PROVE  Typed
<1>1. groups = Grouping(alert) /\ alert \in Alerts /\ case \in Cases
  BY DEF Init
<1>2. Count \in Nat /\ DOMAIN groups = 1..Count
  BY <1>1, GroupsAre
<1>3. FreshInvestigation \in Investigations /\ FreshInvestigation.status = "pending"
  BY DEF FreshInvestigation, Investigations
<1>4. task = [status |-> "executing", index |-> 1, inv |-> [i \in 1..Count |-> FreshInvestigation]]
  BY <1>2 DEF Init, InitialTask
<1>5. task \in Tasks /\ \A i \in 1..Count : task.inv[i].status = "pending"
  <2>1. [i \in 1..Count |-> FreshInvestigation] \in [1..Count -> Investigations] /\ 1 \in 1..(Count + 1)
    BY <1>2, <1>3
  <2> QED
    BY <1>3, <1>4, <2>1 DEF Tasks
<1>6. HasResults(task)
  BY <1>2, <1>5 DEF HasResults
<1>7. /\ run \in [1..Count -> Runs] /\ assembled \in [1..Count -> Analyses \cup {None}]
      /\ runSink \in [1..Count -> RunArtifacts \cup {None}] /\ \A i \in 1..Count : runSink[i] = None
      /\ taskSink = None /\ delivered = {} /\ faults = 0
  BY <1>2 DEF Init, Runs
<1>8. op \in [Workers -> Operations] /\ \A w \in Workers : op[w] = NoOp
  <2>1. NoOp \in Operations
    BY DEF NoOp, Operations, PCs
  <2> QED
    BY <2>1 DEF Init
<1>9. \A w \in Workers : Knows(w)
  BY <1>8 DEF Knows, NoOp, Concludes, Validated, At
<1>10. SinksAnswer
  BY <1>2, <1>7 DEF SinksAnswer
<1>11. faults \in 0..MaxFaults
  BY <1>7, CallerAssumption
<1> QED
  BY <1>1, <1>5, <1>6, <1>7, <1>8, <1>9, <1>10, <1>11 DEF Typed, TypeOK

\* Every step keeps Typed.
LEMMA NextTyped ==
  ASSUME Typed, [Next]_vars
  PROVE  Typed'
<1>1. CASE UNCHANGED vars
  <2>1. /\ UNCHANGED frozen /\ UNCHANGED disk /\ delivered' = delivered /\ op' = op /\ faults' = faults
    BY <1>1 DEF vars
  <2>2. StillThere /\ task' = task /\ run' = run /\ assembled' = assembled /\ runSink' = runSink /\ taskSink' = taskSink
    BY <2>1 DEF disk, StillThere
  <2>3. DiskTyped'
    BY <2>1, <2>2, FrozenIs DEF Typed, TypeOK, DiskTyped, HasResults, SinksAnswer, FullQueue
  <2>4. \A w \in Workers : Knows(w)'
    BY <2>1, <2>2, OtherKnows
  <2>5. op' \in [Workers -> Operations']
    BY <2>1, FrozenIs DEF Typed, TypeOK
  <2> QED
    BY <2>3, <2>4, <2>5 DEF Typed, TypeOK, DiskTyped
<1>2. ASSUME NEW w \in Workers, RunTask(w) PROVE Typed'
  BY <1>2, RunTaskTyped
<1>3. ASSUME NEW w \in Workers, NEW p \in Written, Finalize(w, p) PROVE Typed'
  <2>1. p \in Patches
    BY CallerAssumption DEF Written, OnlyPatch
  <2> QED
    BY <1>3, <2>1, FinalizeTyped
<1>4. ASSUME NEW w \in Workers, Step(w) PROVE Typed'
  <2>1. CASE Compare(w)
    BY <2>1, CompareTyped
  <2>2. CASE NotFinalized(w)
    BY <2>2, NotFinalizedTyped
  <2>3. CASE Assemble(w)
    BY <2>3, AssembleTyped
  <2>4. CASE Validate(w)
    BY <2>4, ValidateTyped
  <2>5. CASE FinalizeRun(w)
    BY <2>5, FinalizeRunTyped
  <2>6. CASE LookRunSink(w)
    BY <2>6, LookRunSinkTyped
  <2>7. CASE StoreRunSink(w)
    BY <2>7, StoreRunSinkTyped
  <2>8. CASE LoadResult(w)
    BY <2>8, LoadResultTyped
  <2>9. CASE WriteTask(w)
    BY <2>9, WriteTaskTyped
  <2>10. CASE ReplyPending(w)
    BY <2>10, EndTyped DEF ReplyPending
  <2>11. CASE AwaitWriter(w)
    BY <2>11, AwaitWriterTyped
  <2>12. CASE QueryRaises(w)
    BY <2>12, EndTyped DEF QueryRaises
  <2>13. CASE LookTaskSink(w)
    BY <2>13, LookTaskSinkTyped
  <2>14. CASE StoreTaskSink(w)
    BY <2>14, StoreTaskSinkTyped
  <2>15. CASE ReplyComplete(w)
    <3>1. UNCHANGED disk /\ Kept /\ Goto(w, "respond") /\ "respond" \in PCs /\ op[w].pc # "idle"
      BY <2>15 DEF ReplyComplete, At, PCs
    <3> QED
      BY <3>1, GotoTyped
  <2>16. CASE Respond(w)
    BY <2>16, RespondTyped
  <2>17. CASE Handoff(w)
    BY <2>17, HandoffTyped
  <2> QED
    BY <1>4, <2>1, <2>2, <2>3, <2>4, <2>5, <2>6, <2>7, <2>8, <2>9, <2>10, <2>11, <2>12, <2>13, <2>14,
       <2>15, <2>16, <2>17 DEF Step
<1>5. ASSUME NEW w \in Workers, Fail(w) PROVE Typed'
  BY <1>5, FailTyped
<1>6. ASSUME NEW w \in Workers, Cancel(w) PROVE Typed'
  BY <1>6, CancelTyped
<1> QED
  BY <1>1, <1>2, <1>3, <1>4, <1>5, <1>6 DEF Next

\* The typed invariant, for every caller: also one that cancels calls and sends a
\* second patch.
THEOREM Knowing == Spec => []Typed
<1>1. Init => Typed
  BY InitTyped
<1>2. Typed /\ [Next]_vars => Typed'
  BY NextTyped
<1> QED
  BY <1>1, <1>2, PTL DEF Spec

\* Every file and every thread keeps its type.
THEOREM TypeCorrect == Spec => []TypeOK
<1>1. Typed => TypeOK
  BY DEF Typed
<1> QED
  BY <1>1, Knowing, PTL

\* A sealed task result answers every rule of its alert once, rules of one scope
\* and no others together, in order; what a run queue concluded has a validator's
\* receipt.  This holds even for a caller that cancels and rewrites.
THEOREM AnswersEveryRule == Spec => []RulesAnswered
<1>1. ASSUME Typed PROVE RulesAnswered
  <2> SUFFICES ASSUME taskSink # None
      PROVE  /\ Answers(taskSink.results, alert)
             /\ \A k \in DOMAIN groups : taskSink.receipts[k] = None <=> ~FullQueue(k)
    BY DEF RulesAnswered
  <2>1. taskSink \in TaskArtifacts /\ DOMAIN groups = 1..Count /\ groups = Grouping(alert) /\ alert \in Alerts
    BY <1>1, TypedFacts DEF Typed, TypeOK
  <2>2. \A k \in DOMAIN groups : /\ taskSink.results[k].rules = groups[k].rules
                                 /\ taskSink.receipts[k] = None <=> ~FullQueue(k)
    BY <1>1, Zenon DEF Typed, SinksAnswer
  <2> DEFINE results == taskSink.results
  <2>3. DOMAIN results = DOMAIN groups
    BY <2>1 DEF TaskArtifacts
  <2>4. Answers(groups, alert)
    BY <2>1, PayloadAssumption, GroupingAnswers, Zenon
  <2> HIDE DEF results
  <2>5. \A k \in DOMAIN groups : results[k].rules = groups[k].rules
    BY <2>2 DEF results
  <2>6. \A i : Place(results, i) = Place(groups, i)
    BY <2>3, <2>5 DEF Place
  <2>7. Answers(results, alert)
    BY <2>3, <2>4, <2>5, <2>6 DEF Answers
  <2> QED
    BY <2>2, <2>7 DEF results
<1> QED
  BY <1>1, Knowing, PTL
-----------------------------------------------------------------------------
(* Settled: what a caller finds that does not both cancel and rewrite.     *)

OneKind == ~Cancels \/ ~Rewrites

\* Two threads that conclude one investigation have one analysis of it.
LEMMA Agree ==
  ASSUME Settled, OneKind, NEW v \in Workers, NEW w \in Workers, v # w,
         Concludes(v), Concludes(w), Current(v) = Current(w)
  PROVE  op[v].analysis = op[w].analysis
<1>1. op[v] # NoOp /\ op[w] # NoOp
  BY DEF Concludes, NoOp
<1>2. ~Rewrites
  BY <1>1 DEF Settled, Alone, OneKind
<1> QED
  BY <1>2 DEF Settled, SameAnswer

\* Two task states that are complete have one artifact.
LEMMA AgreeTask ==
  ASSUME Typed, Settled, OneKind, NEW v \in Workers, NEW w \in Workers, v # w,
         At(v, "store_task"), At(w, "store_task")
  PROVE  TaskArtifact(Mem(v)) = TaskArtifact(Mem(w))
<1> DEFINE s == Mem(v)
           t == Mem(w)
           I == 1..Count
<1>1. op[v] # NoOp /\ op[w] # NoOp
  BY DEF At, NoOp
<1>2. ~Rewrites
  BY <1>1 DEF Settled, Alone, OneKind
<1>3. DOMAIN groups = I /\ Knows(v) /\ Knows(w) /\ op[v].pc # "idle" /\ op[w].pc # "idle"
  BY TypedFacts DEF At
<1>4. /\ s \in Tasks /\ t \in Tasks
      /\ \A i \in I : s.inv[i].status = "completed" /\ t.inv[i].status = "completed"
      /\ \A i \in I : FullQueue(i) \/ (s.inv[i].receipt = None /\ t.inv[i].receipt = None)
  BY <1>3 DEF Knows, HasResults
<1>5. FromSinks(s) /\ FromSinks(t) /\ Uniform(s) /\ Uniform(t)
  BY <1>2, <1>3 DEF Settled, InStep, SameAnswer
<1> HIDE DEF s, t
<1>6. \A i \in I : s.inv[i].result = t.inv[i].result /\ s.inv[i].receipt = t.inv[i].receipt
  BY <1>3, <1>4, <1>5 DEF FromSinks, Uniform
<1>7. DOMAIN s.inv = I /\ DOMAIN t.inv = I
  BY <1>4 DEF Tasks
<1>8. TaskArtifact(s) = TaskArtifact(t)
  BY <1>6, <1>7 DEF TaskArtifact
<1> QED
  BY <1>8 DEF s, t

\* No stored result is replaced.
Keeping ==
  /\ \A i \in 1..Count : runSink[i] # None => runSink'[i] = runSink[i]
  /\ taskSink # None => taskSink' = taskSink

\* What a step of another thread may do to what thread v goes by.
Suits(v) ==
  LET c == Current(v)
      a == op[v].analysis
  IN /\ At(v, "validate") => assembled'[c] = assembled[c] \/ assembled'[c] = a
     /\ Concludes(v) => \/ run'[c] = run[c]
                        \/ run'[c].status = "finalized" /\ run'[c].final = a
                        \/ run[c].status # "finalized" /\ run'[c].status # "finalized"
     /\ At(v, "store") => runSink'[c] = runSink[c] \/ runSink'[c] = RunArtifact(v)
     /\ At(v, "store_task") => taskSink' = taskSink \/ taskSink' = TaskArtifact(Mem(v))

\* A run artifact in hand is one.
LEMMA RunArtifactIs ==
  ASSUME Typed, NEW w \in Workers, Validated(w)
  PROVE  RunArtifact(w) \in RunArtifacts /\ RunArtifact(w) # None
<1>1. /\ op[w].receipt \in Analyses /\ Current(w) \in 1..Count
      /\ \E p \in Patches : op[w].analysis = Analysis(Current(w), p)
  BY TypedFacts DEF Knows, Validated, Concludes
<1>2. op[w].analysis \in Analyses
  BY <1>1, TypedFacts
<1>3. RunArtifact(w) \in RunArtifacts
  BY <1>1, <1>2 DEF RunArtifact, RunArtifacts
<1> QED
  BY <1>3, NoneAssumption DEF RunArtifacts

\* Where no stored result is replaced, a task state goes on agreeing with them.
LEMMA FromSinksKept ==
  ASSUME Typed, UNCHANGED frozen, Keeping, NEW STATE t, FromSinks(t), t' = t
  PROVE  FromSinks(t)'
<1>1. groups' = groups /\ DOMAIN groups = 1..Count
  BY FrozenIs, TypedFacts
<1> QED
  BY <1>1 DEF FromSinks, FullQueue, Keeping

\* A thread stays in step with the disk over the steps of others that suit it.
LEMMA OtherInStep ==
  ASSUME Typed, UNCHANGED frozen, NEW v \in Workers, InStep(v), op'[v] = op[v], Keeping, Suits(v)
  PROVE  InStep(v)'
<1> DEFINE c == Current(v)
           a == op[v].analysis
           t == Mem(v)
<1>1. c' = c /\ a' = a /\ RunArtifact(v)' = RunArtifact(v) /\ t' = t /\ groups' = groups
  BY FrozenIs DEF Current, Mem, RunArtifact
<1>2. op[v].pc # "idle" => FromSinks(t)'
  <2> SUFFICES ASSUME op[v].pc # "idle" PROVE FromSinks(Mem(v))'
    OBVIOUS
  <2>1. FromSinks(Mem(v)) /\ groups' = groups /\ DOMAIN groups = 1..Count /\ op'[v] = op[v]
    BY <1>1, TypedFacts DEF InStep
  <2> QED
    BY <2>1 DEF FromSinks, FullQueue, Keeping, Mem
<1>3. Concludes(v) => c \in 1..Count
  BY TypedFacts DEF Knows
<1>4. At(v, "validate") => assembled'[c] = a
  BY DEF InStep, Suits
<1>5. op[v].pc \in {"replace", "validate", "finalize"} => (run'[c].status = "finalized" => run'[c].final = a)
  BY DEF InStep, Suits, Concludes
<1>6. op[v].pc \in {"sink", "store", "load"} => run'[c].status = "finalized" /\ run'[c].final = a
  BY DEF InStep, Suits, Concludes
<1>7. At(v, "store") => runSink'[c] = None \/ runSink'[c] = RunArtifact(v)
  BY DEF InStep, Suits
<1>8. At(v, "load") => runSink'[c] = RunArtifact(v)
  BY <1>3, RunArtifactIs DEF InStep, Keeping, At, Validated, Concludes
<1>9. At(v, "store_task") => taskSink' = None \/ taskSink' = TaskArtifact(t)
  BY DEF InStep, Suits
<1>10. At(v, "handoff") => op[v].reply = taskSink' /\ taskSink' # None
  BY DEF InStep, Keeping
<1>11. TaskArtifact(t)' = TaskArtifact(t)
  BY <1>1 DEF TaskArtifact
<1>12. Validated(v) => op[v].receipt = a
  BY DEF InStep
<1> QED
  BY <1>1, <1>2, <1>4, <1>5, <1>6, <1>7, <1>8, <1>9, <1>10, <1>11, <1>12 DEF InStep, At, Validated

\* A step of thread w settles what the other threads go by.
LEMMA StepSettled ==
  ASSUME Typed, Settled, OneKind, UNCHANGED frozen, NEW w \in Workers, Others(w), Keeping,
         LockFree(w) \/ op[w] # NoOp,
         op'[w] = NoOp \/ op'[w].abandoned = op[w].abandoned \/ Cancels,
         task' = task \/ (op[w].pc # "idle" /\ task' = Mem(w)),
         \A v \in Workers : v # w => Suits(v),
         FilesAgree', SameAnswer(w)', InStep(w)'
  PROVE  Settled'
<1>1. /\ groups' = groups /\ DOMAIN groups = 1..Count /\ Cancels' = Cancels /\ Rewrites' = Rewrites
      /\ \A v \in Workers : v # w => op'[v] = op[v]
  BY FrozenIs, TypedFacts DEF Others
<1>2. Alone'
  <2> SUFFICES ASSUME ~Cancels
        PROVE  /\ \A v \in Workers : ~op'[v].abandoned
               /\ \A u, v \in Workers : u # v => op'[u] = NoOp \/ op'[v] = NoOp
    BY <1>1 DEF Alone
  <2>1. /\ \A v \in Workers : ~op[v].abandoned
        /\ \A u, v \in Workers : u # v => op[u] = NoOp \/ op[v] = NoOp
    BY DEF Settled, Alone
  <2>2. \A v \in Workers : v # w => op[v] = NoOp
    BY <2>1 DEF LockFree
  <2>3. ~NoOp.abandoned
    BY DEF NoOp
  <2>4. ~op'[w].abandoned
    BY <2>1, <2>3
  <2> QED
    BY <1>1, <2>1, <2>2, <2>4
<1>3. ~Rewrites => Uniform(task)'
  <2>1. ~Rewrites => Uniform(task) /\ (op[w].pc # "idle" => Uniform(Mem(w)))
    BY DEF Settled, SameAnswer
  <2> QED
    BY <1>1, <2>1 DEF Uniform, FullQueue, Analysis
<1>4. FromSinks(task)'
  <2>1. FromSinks(task) /\ (op[w].pc # "idle" => FromSinks(Mem(w)))
    BY DEF Settled, InStep
  <2> QED
    BY <1>1, <2>1 DEF FromSinks, FullQueue, Keeping
<1>5. ASSUME NEW v \in Workers, v # w PROVE SameAnswer(v)' /\ InStep(v)'
  <2>1. SameAnswer(v) /\ InStep(v) /\ op'[v] = op[v] /\ Suits(v)
    BY <1>1, <1>5 DEF Settled
  <2>2. SameAnswer(v)'
    BY <1>1, <2>1 DEF SameAnswer, Uniform, FullQueue, Analysis, Concludes, Mem, Current
  <2>3. InStep(v)'
    BY <2>1, OtherInStep
  <2> QED
    BY <2>2, <2>3
<1> QED
  BY <1>1, <1>2, <1>3, <1>4, <1>5 DEF Settled

\* A step that leaves the files alone.
LEMMA QuietSettled ==
  ASSUME Typed, Settled, OneKind, UNCHANGED frozen, UNCHANGED disk, delivered' = delivered,
         NEW w \in Workers, Others(w),
         LockFree(w) \/ op[w] # NoOp,
         op'[w] = NoOp \/ op'[w].abandoned = op[w].abandoned \/ Cancels,
         SameAnswer(w)', InStep(w)'
  PROVE  Settled'
<1>1. /\ task' = task /\ run' = run /\ assembled' = assembled /\ runSink' = runSink /\ taskSink' = taskSink
      /\ groups' = groups
  BY FrozenIs DEF disk
<1>2. Keeping /\ \A v \in Workers : Suits(v)
  BY <1>1 DEF Keeping, Suits
<1>3. FilesAgree'
  BY <1>1 DEF Settled, FilesAgree, ReceiptsMatch, FullQueue
<1> QED
  BY <1>1, <1>2, <1>3, StepSettled

\* A thread that is done has nothing in hand.
LEMMA EndInStep ==
  ASSUME NEW w \in Workers, op'[w] = NoOp
  PROVE  SameAnswer(w)' /\ InStep(w)'
BY DEF SameAnswer, InStep, NoOp, Concludes, Validated, At

\* An operation that ends with no write settles.
LEMMA EndSettled ==
  ASSUME Typed, Settled, OneKind, UNCHANGED disk, Kept, NEW w \in Workers, op[w] # NoOp, End(w)
  PROVE  Settled'
<1>1. Others(w) /\ op'[w] = NoOp
  BY EndIs, TypedFacts
<1>2. UNCHANGED frozen /\ delivered' = delivered
  BY DEF Kept
<1> QED
  BY <1>1, <1>2, EndInStep, QuietSettled

\* What a thread that works on with the same task state and analysis keeps.
LEMMA SameAnswerKept ==
  ASSUME Typed, Settled, UNCHANGED frozen, NEW w \in Workers, op[w].pc # "idle",
         op'[w].mem = op[w].mem, op'[w].analysis = op[w].analysis, Concludes(w)' => Concludes(w)
  PROVE  SameAnswer(w)'
<1>1. groups' = groups /\ Rewrites' = Rewrites /\ SameAnswer(w)
  BY FrozenIs DEF Settled
<1> QED
  BY <1>1 DEF SameAnswer, Uniform, FullQueue, Analysis, Mem, Current

\* The copy of the task state goes on agreeing with the run sinks.
LEMMA MemFromSinks ==
  ASSUME Typed, Settled, UNCHANGED frozen, Keeping, NEW w \in Workers, op[w].pc # "idle",
         op'[w].mem = op[w].mem
  PROVE  FromSinks(Mem(w))'
<1>1. groups' = groups /\ DOMAIN groups = 1..Count /\ FromSinks(Mem(w)) /\ Mem(w)' = Mem(w)
  BY FrozenIs, TypedFacts DEF Settled, InStep, Mem
<1> QED
  BY <1>1 DEF FromSinks, FullQueue, Keeping

\* What a thread between two conclusions goes by is its task state alone.
LEMMA PlainInStep ==
  ASSUME NEW w \in Workers, op'[w].pc \in {"advance", "write", "respond"},
         FromSinks(Mem(w))', (~Rewrites => Uniform(Mem(w)))'
  PROVE  SameAnswer(w)' /\ InStep(w)'
BY DEF SameAnswer, InStep, Concludes, Validated, At

\* run_task goes by the task state on disk, which agrees with the sinks.
LEMMA RunTaskSettled ==
  ASSUME Typed, Settled, OneKind, NEW w \in Workers, RunTask(w)
  PROVE  Settled'
<1>1. task \in Tasks /\ op \in [Workers -> Operations] /\ DOMAIN groups = 1..Count
  BY TypedFacts DEF Typed, TypeOK
<1>2. /\ Others(w) /\ op'[w].pc = "advance" /\ op'[w].mem = task
      /\ op'[w].abandoned = op[w].abandoned
  BY <1>1, BeginIs DEF RunTask, PCs
<1>3. LockFree(w) /\ UNCHANGED frozen /\ UNCHANGED disk /\ delivered' = delivered /\ runSink' = runSink
  BY DEF RunTask, Kept, disk
<1>4. groups' = groups /\ Rewrites' = Rewrites
  BY <1>3, FrozenIs
<1>5. FromSinks(Mem(w))' /\ (~Rewrites => Uniform(Mem(w)))'
  BY <1>2, <1>3, <1>4 DEF Settled, FromSinks, Uniform, FullQueue, Analysis, Mem
<1>6. SameAnswer(w)' /\ InStep(w)'
  BY <1>2, <1>5, PlainInStep
<1> QED
  BY <1>2, <1>3, <1>6, QuietSettled

\* finalize takes the one patch of a caller that repeats itself; of the results only
\* those without a run are not in a sink.
LEMMA FinalizeSettled ==
  ASSUME Typed, Settled, OneKind, NEW w \in Workers, NEW p \in Written, Finalize(w, p)
  PROVE  Settled'
<1> DEFINE i == task.index
           blocked == [analysis |-> Analysis(i, p), receipt |-> None]
<1>1. p \in Patches /\ (~Rewrites => p = OnlyPatch)
  BY CallerAssumption DEF Written, OnlyPatch
<1>2. /\ task \in Tasks /\ i \in 1..Count /\ Count \in Nat /\ DOMAIN groups = 1..Count
      /\ Analysis(i, p) \in Analyses /\ op \in [Workers -> Operations]
  BY <1>1, TypedFacts DEF Typed, TypeOK, Finalize
<1>3. LockFree(w) /\ UNCHANGED frozen /\ UNCHANGED disk /\ delivered' = delivered /\ runSink' = runSink
  BY DEF Finalize, Kept, disk
<1>4. groups' = groups /\ Rewrites' = Rewrites
  BY <1>3, FrozenIs
<1>5. CASE FullQueue(i)
  <2>1. Begin(w, "assemble", task, Analysis(i, p))
    BY <1>5 DEF Finalize
  <2>2. /\ Others(w) /\ op'[w].pc = "assemble" /\ op'[w].mem = task /\ op'[w].analysis = Analysis(i, p)
        /\ op'[w].abandoned = op[w].abandoned
    BY <1>2, <2>1, BeginIs DEF PCs
  <2>3. FromSinks(Mem(w))' /\ (~Rewrites => Uniform(Mem(w)))'
    BY <1>3, <1>4, <2>2 DEF Settled, FromSinks, Uniform, FullQueue, Analysis, Mem
  <2>4. (~Rewrites => op[w].analysis = Analysis(Current(w), OnlyPatch))'
    BY <1>1, <1>4, <2>2 DEF Analysis, Mem, Current
  <2>5. SameAnswer(w)' /\ InStep(w)'
    BY <2>2, <2>3, <2>4 DEF SameAnswer, InStep, Validated, At
  <2> QED
    BY <1>3, <2>2, <2>5, QuietSettled
<1>6. CASE ~FullQueue(i)
  <2> DEFINE m == Completed(task, i, p, blocked)
  <2>1. Begin(w, "write", m, None) /\ m = Completed(task, i, p, blocked)
    BY <1>6 DEF Finalize
  <2>2. /\ blocked.analysis = Analysis(i, p) /\ blocked.receipt = None
        /\ blocked.analysis \in Analyses /\ blocked.receipt \in Analyses \cup {None}
    BY <1>2
  <2> HIDE DEF m, blocked, i
  <2>3. IsCompleted(m, task, i, blocked)
    BY <1>1, <1>2, <2>1, <2>2, CompletedIs
  <2>4. /\ m \in Tasks /\ m.inv[i].result = Analysis(i, p)
        /\ \A j \in 1..Count : j # i => m.inv[j] = task.inv[j]
    BY <2>2, <2>3 DEF IsCompleted
  <2>5. FromSinks(m) /\ (~Rewrites => Uniform(m))
    BY <1>1, <1>2, <1>6, <2>4 DEF Settled, FromSinks, Uniform
  <2>6. Others(w) /\ op'[w].pc = "write" /\ op'[w].mem = m /\ op'[w].abandoned = op[w].abandoned
    BY <1>2, <2>1, <2>4, BeginIs DEF PCs
  <2>7. FromSinks(Mem(w))' /\ (~Rewrites => Uniform(Mem(w)))'
    BY <1>3, <1>4, <2>5, <2>6 DEF FromSinks, Uniform, FullQueue, Analysis, Mem
  <2>8. SameAnswer(w)' /\ InStep(w)'
    BY <2>6, <2>7, PlainInStep
  <2> QED
    BY <1>3, <2>6, <2>8, QuietSettled
<1> QED
  BY <1>5, <1>6

\* What a thread that concludes finds.
LEMMA ConcludingFacts ==
  ASSUME Typed, Settled, UNCHANGED frozen, NEW w \in Workers, Concludes(w)
  PROVE  /\ InStep(w) /\ op \in [Workers -> Operations] /\ op[w].pc # "idle" /\ op[w] # NoOp
         /\ Current(w) \in 1..Count /\ op[w].analysis \in Analyses /\ op[w].analysis # None
         /\ groups' = groups
<1>1. op[w].pc # "idle" /\ op[w] # NoOp
  BY DEF Concludes, NoOp
<1>2. Current(w) \in 1..Count /\ \E p \in Patches : op[w].analysis = Analysis(Current(w), p)
  BY TypedFacts DEF Knows
<1>3. op[w].analysis \in Analyses
  BY <1>2, TypedFacts
<1> QED
  BY <1>1, <1>2, <1>3, TypedFacts, FrozenIs, NoneAssumption DEF Settled

\* An equal candidate has the receipt of the finalized run.
LEMMA CompareSettled ==
  ASSUME Typed, Settled, OneKind, NEW w \in Workers, Compare(w)
  PROVE  Settled'
<1> DEFINE c == Current(w)
           read == assembled[c]
<1>1. op[w].pc = "assemble" /\ Concludes(w) /\ UNCHANGED frozen /\ UNCHANGED disk /\ Kept
  BY DEF Compare, At, Concludes, Kept
<1>2. /\ InStep(w) /\ op \in [Workers -> Operations] /\ op[w].pc # "idle" /\ op[w] # NoOp
      /\ op[w].analysis \in Analyses
  BY <1>1, ConcludingFacts
<1>3. CASE SameAnalysis(w)
  <2>1. read = op[w].analysis /\ run[c].status = "finalized" /\ run[c].final = op[w].analysis /\ read \in Analyses
    BY <1>2, <1>3 DEF SameAnalysis, Compare
  <2>2. Receives(w, "sink", read)
    BY <1>3 DEF Compare
  <2> HIDE DEF read
  <2>3. /\ Others(w) /\ op'[w].pc = "sink" /\ op'[w].mem = op[w].mem /\ op'[w].analysis = op[w].analysis
        /\ op'[w].receipt = op[w].analysis /\ op'[w].abandoned = op[w].abandoned
    BY <1>2, <2>1, <2>2, ReceivesIs DEF PCs
  <2>4. run' = run /\ Keeping /\ delivered' = delivered
    BY <1>1 DEF disk, Keeping, Kept
  <2>5. SameAnswer(w)' /\ FromSinks(Mem(w))'
    BY <1>1, <1>2, <2>3, <2>4, SameAnswerKept, MemFromSinks
  <2>6. InStep(w)'
    BY <2>1, <2>3, <2>4, <2>5 DEF InStep, At, Mem, Current
  <2> QED
    BY <1>1, <1>2, <2>3, <2>4, <2>5, <2>6, QuietSettled
<1>4. CASE ~SameAnalysis(w)
  BY <1>1, <1>2, <1>4, EndSettled DEF Compare
<1> QED
  BY <1>3, <1>4

\* The run may be finalized right after this look: with the same analysis, then.
LEMMA NotFinalizedSettled ==
  ASSUME Typed, Settled, OneKind, NEW w \in Workers, NotFinalized(w)
  PROVE  Settled'
<1>1. op[w].pc = "assemble" /\ Concludes(w) /\ UNCHANGED frozen /\ UNCHANGED disk /\ Kept
  BY DEF NotFinalized, At, Concludes, Kept
<1>2. /\ op \in [Workers -> Operations] /\ op[w].pc # "idle" /\ op[w] # NoOp
  BY <1>1, ConcludingFacts
<1>3. /\ Others(w) /\ op'[w].pc = "replace" /\ op'[w].mem = op[w].mem /\ op'[w].analysis = op[w].analysis
      /\ op'[w].abandoned = op[w].abandoned
  BY <1>2, GotoIs DEF NotFinalized, PCs
<1>4. run' = run /\ Keeping /\ delivered' = delivered /\ run[Current(w)].status # "finalized"
  BY <1>1 DEF disk, Keeping, Kept, NotFinalized
<1>5. SameAnswer(w)' /\ FromSinks(Mem(w))'
  BY <1>1, <1>2, <1>3, <1>4, SameAnswerKept, MemFromSinks
<1>6. InStep(w)'
  BY <1>3, <1>4, <1>5 DEF InStep, At, Mem, Current, Validated
<1> QED
  BY <1>1, <1>2, <1>3, <1>4, <1>5, <1>6, QuietSettled

\* The file is replaced beneath a thread about to read it only by what that thread
\* has written itself.
LEMMA AssembleSettled ==
  ASSUME Typed, Settled, OneKind, NEW w \in Workers, Assemble(w)
  PROVE  Settled'
<1> DEFINE c == Current(w)
           a == op[w].analysis
<1>1. /\ op[w].pc = "replace" /\ Concludes(w) /\ UNCHANGED frozen /\ Kept
      /\ task' = task /\ run' = run /\ runSink' = runSink /\ taskSink' = taskSink /\ delivered' = delivered
      /\ assembled' = [assembled EXCEPT ![c] = a]
  BY DEF Assemble, At, Concludes, Kept
<1>2. /\ InStep(w) /\ op \in [Workers -> Operations] /\ op[w].pc # "idle" /\ op[w] # NoOp /\ c \in 1..Count
      /\ groups' = groups
  BY <1>1, ConcludingFacts
<1>3. /\ Others(w) /\ op'[w].pc = "validate" /\ op'[w].mem = op[w].mem /\ op'[w].analysis = op[w].analysis
      /\ op'[w].abandoned = op[w].abandoned
  BY <1>2, GotoIs DEF Assemble, PCs
<1>4. Keeping
  BY <1>1 DEF Keeping
<1>5. SameAnswer(w)' /\ FromSinks(Mem(w))'
  BY <1>1, <1>2, <1>3, <1>4, SameAnswerKept, MemFromSinks
<1>6. assembled \in [1..Count -> Analyses \cup {None}]
  BY DEF Typed, TypeOK
<1>7. run[c].status = "finalized" => run[c].final = a
  BY <1>1, <1>2 DEF InStep
<1>8. assembled'[c] = a /\ \A d \in 1..Count : d # c => assembled'[d] = assembled[d]
  BY <1>1, <1>2, <1>6
<1>9. InStep(w)'
  BY <1>1, <1>3, <1>5, <1>7, <1>8 DEF InStep, At, Mem, Current, Validated
<1>10. ASSUME NEW v \in Workers, v # w PROVE Suits(v)
  <2>1. At(v, "validate") => Concludes(v) /\ Current(v) \in 1..Count
    BY TypedFacts DEF At, Concludes, Knows
  <2>2. At(v, "validate") /\ Current(v) = c => op[v].analysis = a
    BY <1>1, <1>10, <2>1, Agree
  <2>3. At(v, "validate") => assembled'[Current(v)] = assembled[Current(v)] \/ assembled'[Current(v)] = op[v].analysis
    BY <1>8, <2>1, <2>2
  <2> QED
    BY <1>1, <2>3 DEF Suits
<1>11. FilesAgree'
  BY <1>1, <1>2 DEF Settled, FilesAgree, ReceiptsMatch, FullQueue
<1> QED
  BY <1>1, <1>2, <1>3, <1>4, <1>5, <1>9, <1>10, <1>11, StepSettled

\* The receipt is of the own analysis, although the file is read again.
LEMMA ValidateSettled ==
  ASSUME Typed, Settled, OneKind, NEW w \in Workers, Validate(w)
  PROVE  Settled'
<1> DEFINE c == Current(w)
           read == assembled[c]
<1>1. op[w].pc = "validate" /\ Concludes(w) /\ UNCHANGED frozen /\ UNCHANGED disk /\ Kept
  BY DEF Validate, At, Concludes, Kept
<1>2. /\ InStep(w) /\ op \in [Workers -> Operations] /\ op[w].pc # "idle" /\ op[w] # NoOp /\ c \in 1..Count
      /\ op[w].analysis \in Analyses /\ op[w].analysis # None
  BY <1>1, ConcludingFacts
<1>3. read = op[w].analysis
  BY <1>1, <1>2 DEF InStep, At
<1>4. run[c].status # "finalized" => run[c].final = None
  BY <1>2, TypedFacts DEF Settled, FilesAgree
<1>5. ASSUME NEW pc \in {"finalize", "sink"}, Receives(w, pc, read),
             pc = "finalize" => run[c].status # "finalized",
             pc = "sink" => run[c].status = "finalized" /\ run[c].final = read
      PROVE  Settled'
  <2>0. pc \in PCs
    BY DEF PCs
  <2> HIDE DEF read
  <2>1. /\ Others(w) /\ op'[w].pc = pc /\ op'[w].mem = op[w].mem /\ op'[w].analysis = op[w].analysis
        /\ op'[w].receipt = op[w].analysis /\ op'[w].abandoned = op[w].abandoned
    BY <1>2, <1>3, <1>5, <2>0, ReceivesIs
  <2>2. run' = run /\ Keeping /\ delivered' = delivered
    BY <1>1 DEF disk, Keeping, Kept
  <2>3. SameAnswer(w)' /\ FromSinks(Mem(w))'
    BY <1>1, <1>2, <2>1, <2>2, SameAnswerKept, MemFromSinks
  <2>4. InStep(w)'
    BY <1>3, <1>5, <2>1, <2>2, <2>3 DEF InStep, At, Mem, Current
  <2> QED
    BY <1>1, <1>2, <2>1, <2>2, <2>3, <2>4, QuietSettled
<1>6. CASE End(w)
  BY <1>1, <1>2, <1>6, EndSettled
<1> QED
  BY <1>2, <1>3, <1>4, <1>5, <1>6 DEF Validate

\* A run that was finalized in between is finalized with the same hash once more.
LEMMA FinalizeRunSettled ==
  ASSUME Typed, Settled, OneKind, NEW w \in Workers, FinalizeRun(w)
  PROVE  Settled'
<1> DEFINE c == Current(w)
           a == op[w].analysis
           r == [status |-> "finalized", final |-> op[w].receipt]
<1>1. /\ op[w].pc = "finalize" /\ Concludes(w) /\ UNCHANGED frozen /\ Kept
      /\ task' = task /\ assembled' = assembled /\ runSink' = runSink /\ taskSink' = taskSink /\ delivered' = delivered
      /\ run' = [run EXCEPT ![c] = r]
  BY DEF FinalizeRun, At, Concludes, Kept
<1>2. /\ InStep(w) /\ op \in [Workers -> Operations] /\ op[w].pc # "idle" /\ op[w] # NoOp /\ c \in 1..Count
      /\ groups' = groups
  BY <1>1, ConcludingFacts
<1>3. op[w].receipt = a /\ (run[c].status = "finalized" => run[c].final = a)
  BY <1>1, <1>2 DEF InStep, Validated
<1>4. r.status = "finalized" /\ r.final = a
  BY <1>3
<1>5. /\ Others(w) /\ op'[w].pc = "sink" /\ op'[w].mem = op[w].mem /\ op'[w].analysis = a
      /\ op'[w].receipt = a /\ op'[w].abandoned = op[w].abandoned
  BY <1>2, <1>3, GotoIs DEF FinalizeRun, PCs
<1>6. Keeping
  BY <1>1 DEF Keeping
<1>7. SameAnswer(w)' /\ FromSinks(Mem(w))'
  BY <1>1, <1>2, <1>5, <1>6, SameAnswerKept, MemFromSinks
<1> HIDE DEF r
<1>8. /\ run'[c].status = "finalized" /\ run'[c].final = a
      /\ \A d \in 1..Count : d # c => run'[d] = run[d]
  <2>1. run \in [1..Count -> Runs]
    BY DEF Typed, TypeOK
  <2> QED
    BY <1>1, <1>2, <1>4, <2>1
<1>9. InStep(w)'
  BY <1>5, <1>7, <1>8 DEF InStep, At, Mem, Current
<1>10. ASSUME NEW v \in Workers, v # w PROVE Suits(v)
  <2>1. Concludes(v) => Current(v) \in 1..Count
    BY TypedFacts DEF Knows
  <2>2. Concludes(v) /\ Current(v) = c => op[v].analysis = a
    BY <1>1, <1>10, Agree
  <2> QED
    BY <1>1, <1>8, <2>1, <2>2 DEF Suits
<1>11. FilesAgree'
  <2>1. FilesAgree /\ DOMAIN groups = 1..Count
    BY TypedFacts DEF Settled
  <2>2. \A i \in 1..Count : runSink[i] # None => run'[i].status = "finalized" /\ run'[i].final = runSink[i].receipt
    BY <1>3, <1>8, <2>1 DEF FilesAgree, ReceiptsMatch
  <2>3. \A i \in 1..Count : run'[i].status # "finalized" => run'[i].final = None
    BY <1>8, <2>1 DEF FilesAgree
  <2> QED
    BY <1>1, <1>2, <2>1, <2>2, <2>3 DEF FilesAgree, ReceiptsMatch, FullQueue
<1> QED
  BY <1>1, <1>2, <1>5, <1>6, <1>7, <1>9, <1>10, <1>11, StepSettled

\* A sink that exists is accepted only with the same content.
LEMMA LookRunSinkSettled ==
  ASSUME Typed, Settled, OneKind, NEW w \in Workers, LookRunSink(w)
  PROVE  Settled'
<1> DEFINE c == Current(w)
           a == op[w].analysis
<1>1. op[w].pc = "sink" /\ Concludes(w) /\ UNCHANGED frozen /\ UNCHANGED disk /\ Kept
  BY DEF LookRunSink, At, Concludes, Kept
<1>2. /\ InStep(w) /\ op \in [Workers -> Operations] /\ op[w].pc # "idle" /\ op[w] # NoOp /\ c \in 1..Count
  BY <1>1, ConcludingFacts
<1>3. op[w].receipt = a /\ run[c].status = "finalized" /\ run[c].final = a
  BY <1>1, <1>2 DEF InStep, Validated
<1>4. ASSUME NEW pc \in {"store", "load"}, Goto(w, pc),
             pc = "store" => runSink[c] = None, pc = "load" => runSink[c] = RunArtifact(w)
      PROVE  Settled'
  <2>1. pc \in PCs
    BY DEF PCs
  <2>2. /\ Others(w) /\ op'[w].pc = pc /\ op'[w].mem = op[w].mem /\ op'[w].analysis = a
        /\ op'[w].receipt = a /\ op'[w].abandoned = op[w].abandoned
    BY <1>2, <1>3, <1>4, <2>1, GotoIs
  <2>3. run' = run /\ runSink' = runSink /\ Keeping /\ delivered' = delivered
    BY <1>1 DEF disk, Keeping, Kept
  <2>4. SameAnswer(w)' /\ FromSinks(Mem(w))'
    BY <1>1, <1>2, <2>2, <2>3, SameAnswerKept, MemFromSinks
  <2>5. InStep(w)'
    BY <1>3, <1>4, <2>2, <2>3, <2>4 DEF InStep, At, Mem, Current, RunArtifact
  <2> QED
    BY <1>1, <1>2, <2>2, <2>3, <2>4, <2>5, QuietSettled
<1>5. CASE End(w)
  BY <1>1, <1>2, <1>5, EndSettled
<1> QED
  BY <1>4, <1>5 DEF LookRunSink

\* A thread that found the sink empty may replace what another has stored in between:
\* by the same.
LEMMA StoreRunSinkSettled ==
  ASSUME Typed, Settled, OneKind, NEW w \in Workers, StoreRunSink(w)
  PROVE  Settled' /\ Keeping
<1> DEFINE c == Current(w)
           a == op[w].analysis
           r == RunArtifact(w)
<1>1. /\ op[w].pc = "store" /\ Concludes(w) /\ Validated(w) /\ UNCHANGED frozen /\ Kept
      /\ task' = task /\ run' = run /\ assembled' = assembled /\ taskSink' = taskSink /\ delivered' = delivered
      /\ runSink' = [runSink EXCEPT ![c] = r]
  BY DEF StoreRunSink, At, Concludes, Validated, Kept
<1>2. /\ InStep(w) /\ op \in [Workers -> Operations] /\ op[w].pc # "idle" /\ op[w] # NoOp /\ c \in 1..Count
      /\ groups' = groups
  BY <1>1, ConcludingFacts
<1>3. op[w].receipt = a /\ run[c].status = "finalized" /\ run[c].final = a /\ (runSink[c] = None \/ runSink[c] = r)
  BY <1>1, <1>2 DEF InStep, Validated, At
<1>4. r.analysis = a /\ r.receipt = a
  BY <1>3 DEF RunArtifact
<1>5. /\ Others(w) /\ op'[w].pc = "load" /\ op'[w].mem = op[w].mem /\ op'[w].analysis = a
      /\ op'[w].receipt = a /\ op'[w].abandoned = op[w].abandoned
  BY <1>2, <1>3, GotoIs DEF StoreRunSink, PCs
<1>6. RunArtifact(w)' = r
  BY <1>3, <1>5 DEF RunArtifact
<1> HIDE DEF r
<1>7. runSink'[c] = r /\ \A d \in 1..Count : d # c => runSink'[d] = runSink[d]
  <2>1. runSink \in [1..Count -> RunArtifacts \cup {None}]
    BY DEF Typed, TypeOK
  <2> QED
    BY <1>1, <1>2, <2>1
<1>8. Keeping
  BY <1>1, <1>3, <1>7 DEF Keeping
<1>9. SameAnswer(w)' /\ FromSinks(Mem(w))'
  BY <1>1, <1>2, <1>5, <1>8, SameAnswerKept, MemFromSinks
<1>10. InStep(w)'
  BY <1>1, <1>3, <1>5, <1>6, <1>7, <1>9 DEF InStep, At, Mem, Current
<1>11. ASSUME NEW v \in Workers, v # w PROVE Suits(v)
  <2>1. At(v, "store") => Concludes(v) /\ Current(v) \in 1..Count /\ op[v].receipt = op[v].analysis
    BY TypedFacts DEF At, Concludes, Validated, Knows, Settled, InStep
  <2>2. At(v, "store") /\ Current(v) = c => op[v].analysis = a
    BY <1>1, <1>11, <2>1, Agree
  <2>3. At(v, "store") /\ Current(v) = c => RunArtifact(v) = r
    BY <1>3, <2>1, <2>2 DEF RunArtifact, r
  <2> QED
    BY <1>1, <1>7, <2>1, <2>3 DEF Suits
<1>12. FilesAgree'
  <2>1. FilesAgree /\ DOMAIN groups = 1..Count
    BY TypedFacts DEF Settled
  <2>2. \A i \in 1..Count : runSink'[i] # None =>
          /\ runSink'[i].receipt = runSink'[i].analysis
          /\ run[i].status = "finalized" /\ run[i].final = runSink'[i].receipt
    BY <1>3, <1>4, <1>7, <2>1 DEF FilesAgree, ReceiptsMatch
  <2>3. taskSink # None => \A i \in 1..Count : FullQueue(i) =>
          /\ runSink[i] # None /\ taskSink.results[i] = runSink[i].analysis
          /\ taskSink.receipts[i] = runSink[i].receipt
    BY <2>1 DEF FilesAgree, ReceiptsMatch
  <2>4. taskSink # None => \A i \in 1..Count : FullQueue(i) =>
          /\ runSink'[i] # None /\ taskSink.results[i] = runSink'[i].analysis
          /\ taskSink.receipts[i] = runSink'[i].receipt
    BY <1>8, <2>3 DEF Keeping
  <2> QED
    BY <1>1, <1>2, <2>1, <2>2, <2>4 DEF FilesAgree, ReceiptsMatch, FullQueue
<1>13. Settled'
  BY <1>1, <1>2, <1>5, <1>8, <1>9, <1>10, <1>11, <1>12, StepSettled
<1> QED
  BY <1>8, <1>13

\* The task state takes what the run sink holds.
LEMMA LoadResultSettled ==
  ASSUME Typed, Settled, OneKind, NEW w \in Workers, LoadResult(w)
  PROVE  Settled'
<1> DEFINE i == Current(w)
           t == Mem(w)
           p == op[w].analysis.patch
           a == runSink[i]
           m == Completed(t, i, p, a)
<1>1. /\ op[w].pc = "load" /\ Concludes(w) /\ UNCHANGED frozen /\ UNCHANGED disk /\ delivered' = delivered
      /\ runSink' = runSink
  BY DEF LoadResult, At, Concludes, Kept, disk
<1>2. /\ InStep(w) /\ op \in [Workers -> Operations] /\ op[w].pc # "idle" /\ op[w] # NoOp /\ i \in 1..Count
      /\ groups' = groups /\ Rewrites' = Rewrites
  BY <1>1, ConcludingFacts, FrozenIs
<1>3. /\ Knows(w) /\ Count \in Nat /\ DOMAIN groups = 1..Count /\ t \in Tasks /\ a \in RunArtifacts /\ FullQueue(i)
      /\ \E q \in Patches : op[w].analysis = Analysis(i, q)
  BY <1>1, <1>2, TypedFacts DEF At, Knows
<1>4. p \in Patches /\ a.analysis \in Analyses /\ a.receipt \in Analyses \cup {None} /\ a # None
  BY <1>3, NoneAssumption DEF Analysis, RunArtifacts
<1>5. FromSinks(t) /\ (~Rewrites => Uniform(t))
  BY <1>2 DEF Settled, InStep, SameAnswer
<1>6. Begin(w, "write", m, None) /\ m = Completed(t, i, p, a)
  BY DEF LoadResult
<1> HIDE DEF t, p, m
<1>7. IsCompleted(m, t, i, a)
  <2> HIDE DEF i, a
  <2> QED
    BY <1>2, <1>3, <1>4, <1>6, CompletedIs
<1>8. /\ m \in Tasks /\ m.inv[i].result = a.analysis /\ m.inv[i].receipt = a.receipt
      /\ \A j \in 1..Count : j # i => m.inv[j] = t.inv[j]
  BY <1>7 DEF IsCompleted
<1> HIDE DEF i
<1>9. FromSinks(m) /\ (~Rewrites => Uniform(m))
  BY <1>2, <1>3, <1>4, <1>5, <1>8 DEF FromSinks, Uniform
<1>10. Others(w) /\ op'[w].pc = "write" /\ op'[w].mem = m /\ op'[w].abandoned = op[w].abandoned
  BY <1>2, <1>6, <1>8, BeginIs DEF PCs
<1>11. FromSinks(Mem(w))' /\ (~Rewrites => Uniform(Mem(w)))'
  BY <1>1, <1>2, <1>9, <1>10 DEF FromSinks, Uniform, FullQueue, Analysis, Mem
<1>12. SameAnswer(w)' /\ InStep(w)'
  BY <1>10, <1>11, PlainInStep
<1> QED
  BY <1>1, <1>2, <1>10, <1>12, QuietSettled

\* An old copy that replaces the task state agrees with the sinks, too.
LEMMA WriteTaskSettled ==
  ASSUME Typed, Settled, OneKind, NEW w \in Workers, WriteTask(w)
  PROVE  Settled'
<1> DEFINE pc == IF Mem(w).status = "completed" THEN "respond" ELSE "advance"
<1>1. /\ op[w].pc = "write" /\ UNCHANGED frozen /\ task' = Mem(w) /\ run' = run /\ assembled' = assembled
      /\ runSink' = runSink /\ taskSink' = taskSink /\ delivered' = delivered
  BY DEF WriteTask, At, Kept
<1>2. op[w].pc # "idle" /\ op[w] # NoOp /\ op \in [Workers -> Operations] /\ groups' = groups
  BY <1>1, TypedFacts, FrozenIs DEF NoOp
<1>3. pc \in {"respond", "advance"} /\ pc \in PCs /\ Goto(w, pc)
  BY DEF WriteTask, PCs
<1> HIDE DEF pc
<1>4. /\ Others(w) /\ op'[w].pc = pc /\ op'[w].mem = op[w].mem /\ op'[w].analysis = op[w].analysis
      /\ op'[w].abandoned = op[w].abandoned
  BY <1>2, <1>3, GotoIs
<1>5. Keeping /\ \A v \in Workers : Suits(v)
  BY <1>1 DEF Keeping, Suits
<1>6. ~Concludes(w)'
  BY <1>3, <1>4 DEF Concludes
<1>7. SameAnswer(w)' /\ FromSinks(Mem(w))'
  BY <1>1, <1>2, <1>4, <1>5, <1>6, SameAnswerKept, MemFromSinks
<1>8. InStep(w)'
  BY <1>3, <1>4, <1>7 DEF InStep, At, Validated
<1>9. FilesAgree'
  BY <1>1, <1>2 DEF Settled, FilesAgree, ReceiptsMatch, FullQueue
<1> QED
  BY <1>1, <1>2, <1>4, <1>5, <1>7, <1>8, <1>9, StepSettled

\* Only a run that is not finalized completes its queue, so no concluded one is reopened.
LEMMA AwaitWriterSettled ==
  ASSUME Typed, Settled, OneKind, NEW w \in Workers, AwaitWriter(w)
  PROVE  Settled'
<1> DEFINE i == Current(w)
           t == Mem(w)
           m == Awaiting(t, i)
<1>1. /\ op[w].pc = "advance" /\ UNCHANGED frozen /\ task' = task /\ assembled' = assembled
      /\ runSink' = runSink /\ taskSink' = taskSink /\ delivered' = delivered
  BY DEF AwaitWriter, AtCurrent, At, Kept
<1>2. /\ op[w].pc # "idle" /\ op[w] # NoOp /\ op \in [Workers -> Operations] /\ Knows(w) /\ DOMAIN groups = 1..Count
      /\ groups' = groups /\ Rewrites' = Rewrites
  BY <1>1, TypedFacts, FrozenIs DEF NoOp
<1>3. i \in 1..Count /\ t \in Tasks
  BY <1>2 DEF AwaitWriter, AtCurrent, Knows
<1>4. /\ run'[i].final = run[i].final
      /\ run'[i] = run[i] \/ (run[i].status # "finalized" /\ run'[i].status # "finalized")
      /\ \A j \in 1..Count : j # i => run'[j] = run[j]
  <2> DEFINE r == [run[i] EXCEPT !.status = "queue_complete"]
  <2>1. run \in [1..Count -> Runs]
    BY DEF Typed, TypeOK
  <2>2. run' = run \/ (run' = [run EXCEPT ![i] = r] /\ run[i].status = "active")
    BY DEF AwaitWriter
  <2>3. r.status = "queue_complete" /\ r.final = run[i].final
    BY <1>3, <2>1 DEF Runs
  <2> HIDE DEF r, i
  <2> QED
    BY <1>3, <2>1, <2>2, <2>3
<1>5. Changes(w, "write", m) /\ m = Awaiting(t, i)
  BY DEF AwaitWriter
<1>6. FromSinks(t) /\ (~Rewrites => Uniform(t))
  BY <1>2 DEF Settled, InStep, SameAnswer
<1> HIDE DEF i, t, m
<1>7. IsAwaiting(m, t, i)
  BY <1>3, <1>5, AwaitingIs
<1>8. m \in Tasks /\ m.inv[i].status = "awaiting_writer" /\ \A j \in 1..Count : j # i => m.inv[j] = t.inv[j]
  BY <1>7 DEF IsAwaiting
<1>9. FromSinks(m) /\ (~Rewrites => Uniform(m))
  BY <1>2, <1>6, <1>8 DEF FromSinks, Uniform
<1>10. Others(w) /\ op'[w].pc = "write" /\ op'[w].mem = m /\ op'[w].abandoned = op[w].abandoned
  BY <1>2, <1>5, <1>8, ChangesIs DEF PCs
<1>11. FromSinks(Mem(w))' /\ (~Rewrites => Uniform(Mem(w)))'
  BY <1>1, <1>2, <1>9, <1>10 DEF FromSinks, Uniform, FullQueue, Analysis, Mem
<1>12. SameAnswer(w)' /\ InStep(w)'
  BY <1>10, <1>11, PlainInStep
<1>13. Keeping
  BY <1>1 DEF Keeping
<1>14. ASSUME NEW v \in Workers PROVE Suits(v)
  <2>1. Concludes(v) => Current(v) \in 1..Count
    BY TypedFacts DEF Knows
  <2> QED
    BY <1>1, <1>4, <2>1 DEF Suits
<1>15. FilesAgree'
  <2>1. FilesAgree
    BY DEF Settled
  <2>2. \A j \in 1..Count : /\ run'[j].final = run[j].final
                            /\ run'[j].status = "finalized" <=> run[j].status = "finalized"
    BY <1>4
  <2> QED
    BY <1>1, <1>2, <2>1, <2>2 DEF FilesAgree, ReceiptsMatch, FullQueue
<1> QED
  BY <1>1, <1>2, <1>10, <1>12, <1>13, <1>14, <1>15, StepSettled

\* A thread that seals its task state goes by the same results.
LEMMA SealInStep ==
  ASSUME Typed, Settled, NEW w \in Workers, op[w].pc # "idle", UNCHANGED frozen, runSink' = runSink,
         Changes(w, "write", Sealed(Mem(w)))
  PROVE  Others(w) /\ op'[w].abandoned = op[w].abandoned /\ SameAnswer(w)' /\ InStep(w)'
<1> DEFINE t == Mem(w)
           m == Sealed(t)
<1>1. t \in Tasks /\ op \in [Workers -> Operations] /\ groups' = groups /\ Rewrites' = Rewrites
  BY TypedFacts, FrozenIs DEF Knows
<1>2. FromSinks(t) /\ (~Rewrites => Uniform(t))
  BY DEF Settled, InStep, SameAnswer
<1>3. Changes(w, "write", m) /\ m = Sealed(t)
  OBVIOUS
<1> HIDE DEF t, m
<1>4. m \in Tasks /\ m.inv = t.inv
  BY <1>1, <1>3, SealedIs
<1>5. Others(w) /\ op'[w].pc = "write" /\ op'[w].mem = m /\ op'[w].abandoned = op[w].abandoned
  BY <1>1, <1>3, <1>4, ChangesIs DEF PCs
<1>6. FromSinks(Mem(w))' /\ (~Rewrites => Uniform(Mem(w)))'
  BY <1>1, <1>2, <1>4, <1>5 DEF FromSinks, Uniform, FullQueue, Analysis, Mem
<1>7. SameAnswer(w)' /\ InStep(w)'
  BY <1>5, <1>6, PlainInStep
<1> QED
  BY <1>5, <1>7

\* A task sink that exists is accepted only with the same content.
LEMMA LookTaskSinkSettled ==
  ASSUME Typed, Settled, OneKind, NEW w \in Workers, LookTaskSink(w)
  PROVE  Settled'
<1>1. /\ op[w].pc = "advance" /\ op[w].pc # "idle" /\ op[w] # NoOp /\ UNCHANGED frozen /\ UNCHANGED disk /\ Kept
      /\ taskSink' = taskSink /\ runSink' = runSink /\ delivered' = delivered /\ op \in [Workers -> Operations]
  BY TypedFacts DEF LookTaskSink, At, Kept, disk, NoOp
<1>2. CASE taskSink = None /\ Goto(w, "store_task")
  <2>1. /\ Others(w) /\ op'[w].pc = "store_task" /\ op'[w].mem = op[w].mem /\ op'[w].analysis = op[w].analysis
        /\ op'[w].abandoned = op[w].abandoned
    BY <1>1, <1>2, GotoIs DEF PCs
  <2>2. Keeping /\ ~Concludes(w)'
    BY <1>1, <2>1 DEF Keeping, Concludes
  <2>3. SameAnswer(w)' /\ FromSinks(Mem(w))'
    BY <1>1, <2>1, <2>2, SameAnswerKept, MemFromSinks
  <2>4. InStep(w)'
    BY <1>1, <1>2, <2>1, <2>3 DEF InStep, At, Validated
  <2> QED
    BY <1>1, <2>1, <2>3, <2>4, QuietSettled
<1>3. CASE Changes(w, "write", Sealed(Mem(w)))
  <2>1. Others(w) /\ op'[w].abandoned = op[w].abandoned /\ SameAnswer(w)' /\ InStep(w)'
    BY <1>1, <1>3, SealInStep
  <2> QED
    BY <1>1, <2>1, QuietSettled
<1>4. CASE End(w)
  BY <1>1, <1>4, EndSettled
<1> QED
  BY <1>2, <1>3, <1>4 DEF LookTaskSink

\* Threads that both found the task sink empty store the same.
LEMMA StoreTaskSinkSettled ==
  ASSUME Typed, Settled, OneKind, NEW w \in Workers, StoreTaskSink(w)
  PROVE  Settled' /\ Keeping
<1> DEFINE t == Mem(w)
           a == TaskArtifact(t)
<1>1. /\ op[w].pc = "store_task" /\ op[w].pc # "idle" /\ op[w] # NoOp /\ UNCHANGED frozen
      /\ task' = task /\ run' = run /\ assembled' = assembled /\ runSink' = runSink /\ taskSink' = a
      /\ delivered' = delivered
  BY DEF StoreTaskSink, At, Kept, NoOp
<1>2. /\ t \in Tasks /\ HasResults(t) /\ DOMAIN groups = 1..Count /\ groups' = groups
      /\ \A i \in DOMAIN groups : t.inv[i].status = "completed"
      /\ a = TaskArtifact(t) /\ FromSinks(t) /\ (taskSink = None \/ taskSink = a)
  BY <1>1, TypedFacts, FrozenIs DEF Knows, At, Settled, InStep
<1>3. Keeping
  BY <1>1, <1>2 DEF Keeping
<1>4. Others(w) /\ op'[w].abandoned = op[w].abandoned /\ SameAnswer(w)' /\ InStep(w)'
  BY <1>1, SealInStep DEF StoreTaskSink
<1>5. ASSUME NEW v \in Workers, v # w PROVE Suits(v)
  <2>1. At(v, "store_task") => TaskArtifact(Mem(v)) = a
    BY <1>1, <1>5, AgreeTask DEF At
  <2> QED
    BY <1>1, <2>1 DEF Suits
<1> HIDE DEF t, a
<1>6. \A i \in 1..Count : a.results[i] = t.inv[i].result /\ a.receipts[i] = t.inv[i].receipt
  BY <1>2, TaskArtifactIs
<1>7. FilesAgree'
  <2>1. FilesAgree
    BY DEF Settled
  <2>2. \A i \in 1..Count : FullQueue(i) =>
          runSink[i] # None /\ a.results[i] = runSink[i].analysis /\ a.receipts[i] = runSink[i].receipt
    BY <1>2, <1>6 DEF FromSinks
  <2>3. delivered \subseteq {a} /\ (delivered # {} => a # None)
    BY <1>2, <2>1 DEF FilesAgree, ReceiptsMatch
  <2> QED
    BY <1>1, <1>2, <2>1, <2>2, <2>3 DEF FilesAgree, ReceiptsMatch, FullQueue
<1>8. Settled'
  BY <1>1, <1>3, <1>4, <1>5, <1>7, StepSettled
<1> QED
  BY <1>3, <1>8

\* A completed task is answered from its state.
LEMMA ReplyCompleteSettled ==
  ASSUME Typed, Settled, OneKind, NEW w \in Workers, ReplyComplete(w)
  PROVE  Settled'
<1>1. /\ op[w].pc # "idle" /\ op[w] # NoOp /\ UNCHANGED frozen /\ UNCHANGED disk /\ delivered' = delivered
      /\ op \in [Workers -> Operations]
  BY TypedFacts DEF ReplyComplete, At, Kept, NoOp
<1>2. /\ Others(w) /\ op'[w].pc = "respond" /\ op'[w].mem = op[w].mem /\ op'[w].analysis = op[w].analysis
      /\ op'[w].abandoned = op[w].abandoned
  BY <1>1, GotoIs DEF ReplyComplete, PCs
<1>3. Keeping /\ ~Concludes(w)'
  BY <1>1, <1>2 DEF Keeping, Concludes, disk
<1>4. SameAnswer(w)' /\ FromSinks(Mem(w))'
  BY <1>1, <1>2, <1>3, SameAnswerKept, MemFromSinks
<1>5. InStep(w)'
  BY <1>2, <1>4 DEF InStep, At, Validated
<1> QED
  BY <1>1, <1>2, <1>4, <1>5, QuietSettled

\* The reply is the content of the task sink, which stays.
LEMMA RespondSettled ==
  ASSUME Typed, Settled, OneKind, NEW w \in Workers, Respond(w)
  PROVE  Settled'
<1>1. /\ op[w].pc = "respond" /\ op[w].pc # "idle" /\ op[w] # NoOp /\ UNCHANGED frozen /\ UNCHANGED disk /\ Kept
      /\ taskSink' = taskSink /\ delivered' = delivered /\ op \in [Workers -> Operations]
  BY TypedFacts DEF Respond, At, Kept, disk, NoOp
<1>2. CASE taskSink = None \/ op[w].abandoned
  BY <1>1, <1>2, EndSettled DEF Respond
<1>3. CASE ~(taskSink = None \/ op[w].abandoned)
  <2> DEFINE o == [op[w] EXCEPT !.pc = "handoff", !.reply = taskSink]
  <2>1. taskSink \in TaskArtifacts
    BY <1>3 DEF Typed, TypeOK
  <2>2. /\ o \in Operations /\ o.pc = "handoff" /\ o.mem = op[w].mem /\ o.reply = taskSink
        /\ o.analysis = op[w].analysis /\ o.abandoned = op[w].abandoned
    BY <1>1, <2>1 DEF Operations, PCs
  <2>3. Becomes(w, o)
    BY <1>3 DEF Respond
  <2> HIDE DEF o
  <2>4. Others(w) /\ op'[w] = o
    BY <1>1, <2>2, <2>3, BecomesIs
  <2>5. Keeping /\ ~Concludes(w)'
    BY <1>1, <2>2, <2>4 DEF Keeping, Concludes, disk
  <2>6. SameAnswer(w)' /\ FromSinks(Mem(w))'
    BY <1>1, <2>2, <2>4, <2>5, SameAnswerKept, MemFromSinks
  <2>7. InStep(w)'
    BY <1>1, <1>3, <2>2, <2>4, <2>6 DEF InStep, At, Validated
  <2> QED
    BY <1>1, <2>2, <2>4, <2>6, <2>7, QuietSettled
<1> QED
  BY <1>2, <1>3

\* The second look at the task sink finds what the reply has.
LEMMA HandoffSettled ==
  ASSUME Typed, Settled, OneKind, NEW w \in Workers, Handoff(w)
  PROVE  Settled' /\ delivered' \subseteq {taskSink}
<1>1. /\ op[w].pc = "handoff" /\ op[w].pc # "idle" /\ op[w] # NoOp /\ UNCHANGED frozen /\ UNCHANGED disk
      /\ task' = task /\ run' = run /\ assembled' = assembled /\ runSink' = runSink /\ taskSink' = taskSink
  BY DEF Handoff, At, disk, NoOp
<1>2. Others(w) /\ op'[w] = NoOp
  BY EndIs, TypedFacts DEF Handoff
<1>3. Keeping /\ \A v \in Workers : Suits(v)
  BY <1>1 DEF Keeping, Suits
<1>4. FilesAgree /\ taskSink # None
  BY <1>1 DEF Settled, InStep, At
<1>5. delivered' \subseteq {taskSink}
  BY <1>4 DEF Handoff, FilesAgree, ReceiptsMatch
<1>6. FilesAgree'
  <2>1. groups' = groups
    BY <1>1, FrozenIs
  <2> QED
    BY <1>1, <1>4, <1>5, <2>1 DEF FilesAgree, ReceiptsMatch, FullQueue
<1>7. SameAnswer(w)' /\ InStep(w)'
  BY <1>2, EndInStep
<1>8. Settled'
  BY <1>1, <1>2, <1>3, <1>6, <1>7, StepSettled
<1> QED
  BY <1>5, <1>8

\* A death leaves the files as they are, and one thread less to agree with.
LEMMA FailSettled ==
  ASSUME Typed, Settled, OneKind, NEW w \in Workers, Fail(w)
  PROVE  Settled'
<1>1. op[w] # NoOp /\ UNCHANGED frozen /\ UNCHANGED disk /\ delivered' = delivered
  BY DEF Fail, Faulty
<1>2. Others(w) /\ op'[w] = NoOp
  BY EndIs, TypedFacts DEF Fail
<1> QED
  BY <1>1, <1>2, EndInStep, QuietSettled

\* A cancelled call releases the lock, and its thread is as much in step as before.
LEMMA CancelSettled ==
  ASSUME Typed, Settled, OneKind, NEW w \in Workers, Cancel(w)
  PROVE  Settled'
<1>1. /\ Others(w) /\ op'[w].pc = op[w].pc /\ op'[w].mem = op[w].mem
      /\ op'[w].analysis = op[w].analysis /\ op'[w].receipt = op[w].receipt
      /\ op'[w].reply = op[w].reply
      /\ UNCHANGED <<frozen, disk>> /\ delivered' = delivered
  BY CancelIs
<1>2. op[w] # NoOp /\ Cancels
  BY DEF Cancel
<1>3. UNCHANGED frozen /\ UNCHANGED disk /\ groups' = groups /\ Rewrites' = Rewrites
  BY <1>1, FrozenIs
<1>4. /\ run' = run /\ assembled' = assembled /\ runSink' = runSink /\ taskSink' = taskSink
  BY <1>3 DEF disk
<1>5. SameAnswer(w) /\ InStep(w)
  BY DEF Settled
<1>6. SameAnswer(w)'
  BY <1>1, <1>3, <1>5 DEF SameAnswer, Uniform, FullQueue, Analysis, Concludes, Mem, Current
<1>7. InStep(w)'
  <2>1. /\ Mem(w)' = Mem(w) /\ Current(w)' = Current(w) /\ RunArtifact(w)' = RunArtifact(w)
        /\ TaskArtifact(Mem(w))' = TaskArtifact(Mem(w))
    BY <1>1 DEF Mem, Current, RunArtifact, TaskArtifact
  <2>2. op[w].pc # "idle" => FromSinks(Mem(w))'
    BY <1>3, <1>4, <1>5, <2>1 DEF InStep, FromSinks, FullQueue
  <2> QED
    BY <1>1, <1>4, <1>5, <2>1, <2>2 DEF InStep, At, Validated
<1> QED
  BY <1>1, <1>2, <1>3, <1>6, <1>7, QuietSettled

\* Initially no file has a result and no thread is at work.
LEMMA InitSettled ==
  ASSUME Init
  PROVE  Settled
<1>1. Typed
  BY InitTyped
<1>2. DOMAIN groups = 1..Count /\ op \in [Workers -> Operations]
  BY <1>1, TypedFacts
<1>3. \A w \in Workers : op[w] = NoOp
  BY DEF Init
<1>4. \A i \in DOMAIN groups : task.inv[i].status = "pending"
  BY DEF Init, InitialTask, FreshInvestigation
<1>5. /\ \A i \in DOMAIN groups : runSink[i] = None /\ run[i].final = None
      /\ taskSink = None /\ delivered = {}
  BY DEF Init
<1>6. Alone
  <2>1. ~NoOp.abandoned
    BY DEF NoOp
  <2> QED
    BY <1>3, <2>1 DEF Alone
<1>7. Uniform(task) /\ FromSinks(task)
  BY <1>4 DEF Uniform, FromSinks
<1>8. FilesAgree
  BY <1>5 DEF FilesAgree, ReceiptsMatch
<1>9. \A w \in Workers : SameAnswer(w) /\ InStep(w)
  BY <1>3 DEF SameAnswer, InStep, NoOp, Concludes, Validated, At
<1> QED
  BY <1>6, <1>7, <1>8, <1>9 DEF Settled

\* Every step settles, and none replaces a stored result.
LEMMA NextSettled ==
  ASSUME Typed, Settled, OneKind, [Next]_vars
  PROVE  Settled' /\ Keeping
<1>0. ASSUME UNCHANGED runSink, UNCHANGED taskSink PROVE Keeping
  BY <1>0 DEF Keeping
<1>1. CASE UNCHANGED vars
  <2>1. /\ UNCHANGED frozen /\ UNCHANGED disk /\ delivered' = delivered /\ op' = op
    BY <1>1 DEF vars
  <2>2. /\ task' = task /\ run' = run /\ assembled' = assembled /\ runSink' = runSink /\ taskSink' = taskSink
    BY <2>1 DEF disk
  <2>3. groups' = groups /\ Cancels' = Cancels /\ Rewrites' = Rewrites /\ Keeping
    BY <2>1, <2>2, FrozenIs DEF Keeping
  <2>4. ASSUME NEW w \in Workers PROVE SameAnswer(w)' /\ InStep(w)'
    <3>1. SameAnswer(w) /\ InStep(w) /\ op'[w] = op[w] /\ Suits(w)
      BY <2>1, <2>2 DEF Settled, Suits
    <3>2. SameAnswer(w)'
      BY <2>3, <3>1 DEF SameAnswer, Uniform, FullQueue, Analysis, Concludes, Mem, Current
    <3>3. InStep(w)'
      BY <2>1, <2>3, <3>1, OtherInStep
    <3> QED
      BY <3>2, <3>3
  <2>5. Alone' /\ (~Rewrites => Uniform(task))'
    BY <2>1, <2>2, <2>3 DEF Settled, Alone, Uniform, FullQueue, Analysis
  <2>6. FilesAgree' /\ FromSinks(task)'
    BY <2>1, <2>2, <2>3 DEF Settled, FilesAgree, ReceiptsMatch, FromSinks, FullQueue
  <2> QED
    BY <2>3, <2>4, <2>5, <2>6 DEF Settled
<1>2. ASSUME NEW w \in Workers, RunTask(w) PROVE Settled' /\ Keeping
  BY <1>0, <1>2, RunTaskSettled DEF RunTask, disk
<1>3. ASSUME NEW w \in Workers, NEW p \in Written, Finalize(w, p) PROVE Settled' /\ Keeping
  BY <1>0, <1>3, FinalizeSettled DEF Finalize, disk
<1>4. ASSUME NEW w \in Workers, Step(w) PROVE Settled' /\ Keeping
  <2>1. CASE Compare(w)
    BY <1>0, <2>1, CompareSettled DEF Compare, disk
  <2>2. CASE NotFinalized(w)
    BY <1>0, <2>2, NotFinalizedSettled DEF NotFinalized, disk
  <2>3. CASE Assemble(w)
    BY <1>0, <2>3, AssembleSettled DEF Assemble
  <2>4. CASE Validate(w)
    BY <1>0, <2>4, ValidateSettled DEF Validate, disk
  <2>5. CASE FinalizeRun(w)
    BY <1>0, <2>5, FinalizeRunSettled DEF FinalizeRun
  <2>6. CASE LookRunSink(w)
    BY <1>0, <2>6, LookRunSinkSettled DEF LookRunSink, disk
  <2>7. CASE StoreRunSink(w)
    BY <2>7, StoreRunSinkSettled
  <2>8. CASE LoadResult(w)
    BY <1>0, <2>8, LoadResultSettled DEF LoadResult, disk
  <2>9. CASE WriteTask(w)
    BY <1>0, <2>9, WriteTaskSettled DEF WriteTask
  <2>10. CASE ReplyPending(w)
    <3>1. op[w] # NoOp /\ End(w) /\ UNCHANGED disk /\ Kept
      BY <2>10 DEF ReplyPending, AtCurrent, At, NoOp
    <3> QED
      BY <1>0, <3>1, EndSettled DEF disk
  <2>11. CASE AwaitWriter(w)
    BY <1>0, <2>11, AwaitWriterSettled DEF AwaitWriter
  <2>12. CASE QueryRaises(w)
    <3>1. op[w] # NoOp /\ End(w) /\ UNCHANGED disk /\ Kept
      BY <2>12 DEF QueryRaises, AtCurrent, At, NoOp
    <3> QED
      BY <1>0, <3>1, EndSettled DEF disk
  <2>13. CASE LookTaskSink(w)
    BY <1>0, <2>13, LookTaskSinkSettled DEF LookTaskSink, disk
  <2>14. CASE StoreTaskSink(w)
    BY <2>14, StoreTaskSinkSettled
  <2>15. CASE ReplyComplete(w)
    BY <1>0, <2>15, ReplyCompleteSettled DEF ReplyComplete, disk
  <2>16. CASE Respond(w)
    BY <1>0, <2>16, RespondSettled DEF Respond, disk
  <2>17. CASE Handoff(w)
    BY <1>0, <2>17, HandoffSettled DEF Handoff, disk
  <2> QED
    BY <1>4, <2>1, <2>2, <2>3, <2>4, <2>5, <2>6, <2>7, <2>8, <2>9, <2>10, <2>11, <2>12, <2>13, <2>14,
       <2>15, <2>16, <2>17 DEF Step
<1>5. ASSUME NEW w \in Workers, Fail(w) PROVE Settled' /\ Keeping
  BY <1>0, <1>5, FailSettled DEF Fail, Faulty, disk
<1>6. ASSUME NEW w \in Workers, Cancel(w) PROVE Settled' /\ Keeping
  BY <1>0, <1>6, CancelSettled DEF Cancel, Faulty, disk
<1> QED
  BY <1>1, <1>2, <1>3, <1>4, <1>5, <1>6 DEF Next

\* The second half of the invariant, for a caller that does not both cancel calls
\* and change a patch.
THEOREM Settling ==
  ASSUME "both" \notin Cases
  PROVE  Spec => [](Typed /\ Settled)
<1>1. Init => Typed /\ Settled
  BY InitTyped, InitSettled
<1>2. Typed => OneKind
  BY DEF Typed, TypeOK, OneKind, Cancels, Rewrites
<1>3. Typed /\ Settled /\ [Next]_vars => (Typed /\ Settled)'
  BY <1>2, NextTyped, NextSettled
<1> QED
  BY <1>1, <1>3, PTL DEF Spec

\* What the task sink holds is what the run sinks hold, and that is what the
\* validator sealed in each run: whatever the threads of cancelled calls do, and
\* whatever dies, as long as their caller repeats its patch.
THEOREM ReceiptsKept ==
  ASSUME "both" \notin Cases
  PROVE  Spec => []ReceiptsMatch
<1>1. Typed /\ Settled => ReceiptsMatch
  BY DEF Settled, FilesAgree
<1> QED
  BY <1>1, Settling, PTL

\* A stored result is never replaced, though a writer of the sink looks first and
\* replaces afterwards, and the pipeline is handed at most one artifact.
THEOREM NothingReplaced ==
  ASSUME "both" \notin Cases
  PROVE  Spec => SinksSettled
<1> DEFINE Kind == /\ \A i \in DOMAIN groups : runSink[i] # None => runSink'[i] = runSink[i]
                   /\ taskSink # None => taskSink' = taskSink
                   /\ Cardinality(delivered') <= 1
<1>1. ASSUME Typed, Settled, (Typed /\ Settled)', [Next]_vars PROVE Kind
  <2>1. Keeping /\ DOMAIN groups = 1..Count
    <3>1. OneKind
      BY <1>1 DEF Typed, TypeOK, OneKind, Cancels, Rewrites
    <3> QED
      BY <1>1, <3>1, NextSettled, TypedFacts
  <2>2. delivered' \subseteq {taskSink'}
    BY <1>1 DEF Settled, FilesAgree, ReceiptsMatch
  <2>3. Cardinality(delivered') <= 1
    <3>1. IsFiniteSet({taskSink'}) /\ Cardinality({taskSink'}) = 1
      BY FS_Singleton, Zenon
    <3>2. IsFiniteSet(delivered') /\ Cardinality(delivered') <= Cardinality({taskSink'})
      BY <2>2, <3>1, FS_Subset, Zenon
    <3> QED
      BY <3>1, <3>2
  <2> QED
    BY <2>1, <2>3 DEF Keeping
<1>2. Spec => [](Typed /\ Settled)
  BY Settling
<1>3. Typed /\ Settled /\ (Typed /\ Settled)' /\ [Next]_vars => [Kind]_vars
  BY <1>1
<1> QED
  BY <1>2, <1>3, PTL DEF Spec, SinksSettled
=============================================================================
