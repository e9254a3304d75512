# Xuanji Host: specifications and proofs

The Xuanji Host attributes metric alerts. A caller (a model behind MCP) hands it
a data-quality alert; the Host splits the alert into investigations, runs a fixed
queue of SQL queries for each through DView, asks the caller to repair a query or
to write a conclusion, and seals a validated result. All of its state is files.
The hard part is not the analysis but that three tools, called again and again
over failures, restarts and lost answers, always end in one consistent result.
That is what the modules here model, check and prove.

## The system

| Component (source) | State it keeps | Operations | Talks to |
|---|---|---|---|
| MCP tools (`host_service/tools.py`) | none | `xuanji_run_task`, `xuanji_submit_repair`, `xuanji_finalize`; every exception becomes a ToolError | host runtime |
| Host runtime (`host_service/runtime.py`) | one asyncio lock per task, in memory | opens a DView session, runs the operation in a thread, attaches the handoff | coordinator, DView client |
| Task coordinator (`runtime/task_coordinator.py`) | `tasks/<id>/state.json` | `run_task`, `submit_repair`, `finalize`, `_advance` | preflight, investigation host, assembler, sinks |
| Root preflight (`runtime/root_preflight.py`) | `root-snapshots/<scope>.json` | eight daily root queries, frozen once; decides stop, block or full queue | DView |
| Investigation host (`host_integration/service.py`) | none | run, repair and finalize of one run | runner, adapter, run sink |
| DView adapter (`runtime/host_adapter.py`) | none | next, execute, record until something blocks | runner, DView |
| Attribution runner (`runtime/runner.py`) | `runs/<id>/`: state, SQL, event, ticket, export and final files | `init_run`, `next_action`, `record`, `export`, `build_writer_pack`, `assemble_final`, `validate_final` | query builder, validators |
| Post-primary calibration (`calibration_runner.py`, `post_primary_*.py`, selectors, `enhancement_planner.py`) | `post_primary` inside the run's state (profile `primary_v2`) | plan, select, query, record of the second queue | runner |
| Sinks (`host_service/sink.py`) | `validated-result.json`, `validated-task-result.json` | write once, accept identical content, refuse another | coordinator, investigation host |
| Assemblers and validators (`final_*.py`, `task_assembler.py`, `evidence_pack.py`, `analysis_v5.py`) | none | pure functions from state and patch to an analysis, or a refusal | runner, coordinator |
| Normalizer and resolver (`alert_normalizer.py`, `route_resolver.py`) | none | payload to grouped investigations | coordinator |
| Query builders, result validators, contribution (`query_builder.py`, `result_validator.py`, `contribution.py`, ...) | none | registered SQL, admissible repairs, result checks | runner |
| Telemetry, diagnostics, pipeline handoff | log, failure bundles | observation and a signature | host runtime |

What makes it hard:

- **Failure between writes.** Every write is an atomic replace, but an operation
  makes many: snapshot, run, SQL, event, export, final file, run sink, task state,
  task sink. An operation may end between any two, by exception or by death, and the
  caller then simply calls again.
- **Retries and lost answers.** All three tools are declared idempotent. A repair or a
  patch may come twice, late, or after the state has moved on.
- **Two records of one run.** The task state says what is pending; the run's own
  state says the same more exactly. They are written by different calls.
- **A strict loader.** A run's state is revalidated against its files on every load; one
  instant in which it does not hold makes the run unusable for ever.
- **Threads behind locks.** The task lock lives in the event loop; the work runs in a
  thread that a cancellation does not stop.
- **A plan that grows on its own evidence.** The second queue of a `primary_v2` run is
  selected step by step from what the steps before it found, and the loader computes the
  selection again on every load: selector, executor, recorder and loader must agree.
- **Two readers of one number.** A family is accepted by one set of gates and read back
  by others (the loader, the counterfactual, the error-code focus). What one lets through
  and another refuses stops a run that has no way to go on.

What makes each component correct: the coordinator accepts each investigation's result
once, in order, and seals exactly those results; a run is resumed only under the
arguments it was created with; every DView answer counts for the attempt it answers,
once; task state, run, final file and sinks agree; what the caller is asked for is
what the task awaits; the evidence that passes the gates can be used by every later step;
the post-primary plan is a function of the primary evidence; every alert rule is answered
in one place; and identical retries lead to the end.

## Modules

| Module | Models | Notes |
|---|---|---|
| `TaskPromise` | what a task promises its caller | abstract: accept results in order, seal once |
| `RunContract` | the steps a run may take | abstract: the run as the coordinator sees it |
| `TaskCoordinator` | the three operations over task state, snapshots, runs, sinks, one thread | implements `TaskPromise`; each of its runs follows `RunContract` |
| `TaskCoordinatorProofs`, `AttributionRunnerProofs`, `RouteGroupingProofs`, `HostServiceProofs`, `FamilyRecordProofs` | theorems about the modules they are named for | see Proofs |
| `PostPrimaryPlanProofs`, `PostPrimaryQueryProofs`, `PostPrimaryProofs` | what selectors and `Execute` return; what an operation does to one query; the theorems about `PostPrimary` | each extends the one before |
| `RouteGrouping` | normalizer and route resolver: how an alert becomes investigations | pure |
| `HostService` | the threads of one task after cancellations: task state, final file, sinks, handoff | extends `RouteGrouping` |
| `AttributionRunner` | the primary queue and the final files of one run | implements `RunContract` |
| `Ratios` | exact fractions | pure |
| `BucketEvidence` | gates, contribution formula and candidates of one family; what the loader asks of it | pure, extends `Ratios` |
| `PostPrimarySelectors` | the six selectors and the enhancement allocation | pure, extends `BucketEvidence` |
| `FamilyRecord` | one family on its way from DView into the state and back | puts `BucketEvidence` and the counterfactual to use |
| `CalibrationPlan` | what the post-primary analysis promises | abstract: verdicts in order, never taken back, one report |
| `PostPrimaryPlan` | the post-primary part of the state file, and the loader's contract for it | pure, extends `PostPrimarySelectors` |
| `PostPrimary` | the second queue of a `primary_v2` run | implements `CalibrationPlan` |
| `MC...` | constants of the TLC runs | |

`TaskCoordinator` and `AttributionRunner` meet in `RunContract`: the coordinator is modelled with a
small record per run, `RunsKeepContract` says it does to that record only what the
contract allows, and `KeepsRunContract` says the runner with all its files does no
more either. Both are proved, so the small view the coordinator has of a run is a faithful one.

### TaskCoordinator

One action is one durable write (an `os.replace` or a `mkdir`) or one return to the
caller. The task lock admits one operation at a time, so one variable `op` holds the
operation, its program counter and its arguments; it is volatile. `Fail` ends it at any
program counter in `FailPoints` and changes nothing on disk, which is an exception, a
ToolError and a process death alike. In-memory changes are part of the action that
writes them.

| Variable | Code |
|---|---|
| `taskState`, `payload`, `index`, `inv` | `tasks/<id>/state.json`; `"dir"` is the directory without the file; `index` counts from 1 |
| `snapshot` | `root-snapshots/<scope>.json` by scope |
| `run`, `assembled` | `runs/<run_id>/state.json` reduced, `final/assembled-analysis.json` by its patch |
| `runSink`, `taskSink` | the two sink files |
| `reply` | what the last operation returned |

`run_task` is `RunTask` followed by the actions at `"advance"`: `DefinitionFails`,
`FreezeSnapshot`/`RootQueryFails`, `PreflightStops`/`PreflightContinues`, then
`CreateRun`/`WriteRun` or `ResumeRun`/`RejectRun`, the query loop at `"execute"`, and
the write that asks for a repair or a writer. `submit_repair` is `SubmitRepair`, then
`AcceptRepair`/`ReplayRepair`/`RejectRepair` and the same loop; since it asks the run for its next
action first, a run past the repair has its next query issued (`IssueQuery`) before the repair is
refused. `finalize` is
`Finalize`, then `MachineResult`, or `AssembleFinal`, `ValidateFinal` (`ReplayFinal` for
a finalized run), `StoreRunResult`, `RecordResult`; when no investigation is left,
`StoreTaskResult` and `WriteCompletedState`.

Abstracted: payloads, root results and patches are model values (by their hash);
`Preflight[i][r]` is what the trend arithmetic decides; `Unsound` is the set of patches
the final validator refuses. A patch the assembler refuses, a repair the query builder
refuses, a writer pack over its budget all end the operation with no write, which
`Fail` covers.

### AttributionRunner

An operation is a worker that loads `state.json` as a whole, changes its copy, and
replaces the file as a whole, with the SQL, event, export and final files written
before it, so one action is one load with its checks or one write. `StateContract` is
what `_validate_state_contract` accepts, SQL files included, and every load checks it:
`RefuseState` is the run that has become unusable. `next_action` is `IssueQuery` (with
the automatic steps skipped on the way), `ResumeQuery`, `RepairTicket`,
`QueueComplete`; `record` is `RecordReplay`, `RecordRefuses`, `RecordQuery`,
`RecordRepair`, then `LogEvent` and `WriteState`; `export` and the writer pack are
`Export`, `ExportAgain`, `ExportRefuses`; `finalize` is `Finalize`, `AssembleFinal`,
`ValidateFinal`, `ValidateEnds`. `DViewAnswers` gives any result, valid or not, any
error class and any query id, used before or not. `RecordExternal` is `record` from the
command line with any event, current or stale.

`Abandon` is the cancelled tool call: `host_service/runtime.py` awaits the thread inside
the task lock and the DView session, so a cancellation (the caller's disconnect, or the
failure of a background task of the DView transport) gives both up while the thread runs
on. The abandoned worker writes what it has to write and dies at its next query, since
the session is closed.

Abstracted: tickets, diffs, the writer pack and the receipt are derived files nobody
reads back; result contents are the root they hook to, or `Invalid`; an event file that no
state refers to is forgotten when its operation dies, since nothing reads it. Query ids are
offered in a fixed order of first use (`Offered`): an answer has a used id or the next
unused one, since the code only ever compares ids for equality.

### FamilyRecord, BucketEvidence

`Family` is `ResultValidator.validate` with `calculate_contributions`: the count gates, the
split of the change of the whole into the parts of the buckets (an entrant takes the rate of
the other day, an empty bucket the midpoint), the closure gate, the residual and the
candidates. `FamilyLoads` is what `_validate_state_contract` asks of the same family when it is
read back. Floating-point numbers with tolerances of 1e-9 and less are exact fractions.
`FamilyRecord` starts from any table of small counts and takes the three steps that a result
takes: answered, recorded, loaded. `TablesAssumption` is what two gates before these see to: no two
rows have the same key (`result_validator.py:149-169`) and no count is negative
(`result_validator.py:449-452`). `TextAssumption` says that texts have an order, the one by which
candidates of equal impact are sorted.

### PostPrimary, PostPrimaryPlan, PostPrimarySelectors

The selectors are functions of the frozen primary evidence `ev` and of the steps settled
before them, `Walk` (`CalibrationRunner.execute`) carries the plan on until a step has to
ask something, and `PlanHolds` is what `execute` recomputes before it does, and the loader
of a completed plan. The operations are those of
`AttributionRunner`, on the second queue: `next_action` at the post-primary cursor, `record`
for a single query and for one of up to three background items that share a step id,
repairs, and the export that is possible only when the plan is complete. Answers that an
operator of a self-reported run records late stand in `kept`. The result of a post-primary
query is valid or invalid; its own validators look at row schemas. A query id is the first one
that nothing mentions (`FreshIds`): DView assigns a new id to each query, and the code only
compares ids for equality. An event file without a state that names it is forgotten as in
`AttributionRunner`.

`OneStory` is about a dominant game. If its id is not a positive integer, the background has no game and
the error-code selector may focus on another one, the best of those whose ids are legal
(`error_code_selector.py:150-225`): the property says so, and the case `Unlisted` shows it.

### HostService, RouteGrouping

`run_task` and `finalize` again, but with several threads: each loads the task state into
`mem` at the start and works on that copy, as `RegisteredAlertCoordinator` does. The lock is
`LockFree`: no call is under way but cancelled ones, whose threads run on. The steps are cut
where two threads can meet: the look at the run's status and the replace of
`assembled-analysis.json`, the read of that file by `validate_final` and the write of the
run, the look at a sink and its replace, the load of the task state and its write, the
reply and the second load of the sink for the handoff. The reply of a cancelled call goes
nowhere, its query raises, and what is done in the event loop (`Handoff`) is not done.

A run is its status and final hash, a repair is left out (`TaskCoordinator` and
`AttributionRunner` have both), and root snapshots are left out: every investigation with a
route takes the full queue. The task starts from `Grouping(alert)`, so the rule indexes of
the sealed result are those the resolver made of the payload.

## Runs

| Run | Question | Bounds |
|---|---|---|
| `task_safety` | Do state files, snapshots, runs and sinks agree whatever fails, and does the coordinator keep `TaskPromise` and `RunContract`? | 3 investigations, 2 scopes, 4 root results (one per decision and one read differently by two investigations), 2 payloads, 3 patches (1 unsound), 2 queries, failure at every point |
| `task_retry` | Do identical retries complete the task? | 2 investigations on one scope, 2 patches (1 unsound), 2 queries, all failure points but the three below |
| `runner` | Is a run loadable, exact, faithful and forward-only whatever happens between two writes, and does its queue complete? | 3 steps (family, automatic, family), 2 roots, 2 SQL texts, 6 query ids, 2 repairs, sound and unsound patch, stale and unsolicited events, deaths without bound |
| `runner_abandoned` | What survives a thread that outlives its lock? | 2 workers, 1 step, 1 repair with 2 possible texts, 2 query ids, the repairable error class, no finalization |
| `families` | Do gates, contribution formula, counterfactual and loader fit together? | up to 3 buckets: one with all counts up to 2, one of seven shapes, a quality, residual or no third; an overall numerator that is off by one; both kinds of metric |
| `plan` | Is the post-primary plan a function of the evidence, loadable at every instant, honest about its report, and does it complete, exactly when every selector answers? | 15 cases of evidence with 0 to 8 games, on four of which a selector raises, 2 repairs, 1 kept answer, deaths without bound |
| `host` | Do task, runs and sinks agree when threads outlive their calls, is every rule answered, does the task settle? | 4 alerts of 1 to 3 rules, 3 threads, 2 patches, 2 deaths or cancellations |
| `repair_strands` | `task_retry` with a failure after the runner took a repair. Violated | 2 investigations, 1 query |
| `abandoned_overwrites` | Does a run only go forward beside an abandoned thread? Violated | 2 steps, 2 workers |
| `rate_above_one` | Can every accepted family be loaded? Violated | as `families` |
| `entrant_strands` | Does the analysis always complete (`AlwaysCompletes`), with a game that has no baseline? Violated | 1 case, 1 repair |
| `host_race` | Are sinks settled if a caller is cancelled and its writer changes its mind? Violated | 2 threads, 1 fault |

Why these are enough. Two investigations show order and the hand-over of the index; the
third is needed for a shared snapshot and a scope of its own in one task. Two queries
separate "next step" from "queue complete", and two repairs are the code's own limit, so a
third is attempted. Three patches are needed so that a refused one, the accepted one and a
conflicting sound one meet.

In `runner`, an automatic step between two families is the shape of the `install_sandbox`
plan, two roots decide whether a later family hooks to the first, and six ids are enough for
every attempt of both families; where more would be needed, the answer that reuses one is
refused, and completion is stated for fresh ids. One worker suffices there: without
cancellations the task lock admits one operation, and a dead operation leaves nothing but
its files; the runs with cancellations have two. `runner_abandoned` keeps one repair but two
texts for it: two workers may submit different ones, and the SQL file of one is left beside
the state of the other. That state is consistent in itself and refused by the loader
(`RefuseState`).

In `families`, gates and formula compare counts of one bucket with each other and with the
sums, so one bucket with all small counts beside one of each shape (common, entrant, exit,
empty on one or both days) reaches each branch. The cases of `plan` are chosen for the branches of the
selectors: no game, a game that dominates, one that dominates without a legal id, a tie that text order and number order decide
differently, three games that reach half of the root and three that do not, breadth, both
chains with and without the error-code trigger; the game values are computed from
rows by `Family`, so they are evidence the validator accepts. Error classes, repairs and late
answers are spread over the cases, and meet in one of a single query; the product of all would add no
branch, because items are recorded one at a time.

Four places of the enhancement selectors raise, all evaluated together before the error-code
step, and `plan` has a case for each: a game without a denominator on one day (`Entrant`), a
first game without a legal id beside an answered reservation (`UnlistedReserve`, where
`Unlisted` has the reservation unanswered and completes), games and reservation with different
root counts (`MovedReserve`), and, with the error-code trigger enabled, any two families with
candidates and different root counts (`MovedFamily`). The safety properties hold there too;
`Completes` says that the analysis is completed on the other evidence and never on this. The
selectors raise otherwise only in a state that the loader refuses, or for a reservation flag
that is neither 0 nor 1.

In `host`, three rules show a group of rules that are not neighbours beside another and an
unknown one; three threads let one outlived thread meet another outlived one and a call
under the lock. A behavior has either cancellations or a second patch, `host_race` both:
that is where the code breaks. Two faults let a thread outlive a call that itself
outlives one.

Symmetry (workers, or repaired texts) is used in `abandoned_overwrites` and
`runner_abandoned`, which state no liveness. The runs that switch deadlock checking off
include a stranded run directory or abandoned workers, where nothing may be able to
continue, as in the code.

Each property has been seen to fail under a plausible bug of the code it watches; those
variants stand in the modules as operators marked "Mutant".

### Fairness

`TaskCoordinator!FairSpec`: an operation is synchronous code in a thread, so it goes on
until it returns or fails (weak fairness on `Step`). `run_task`, the relay of a
requested repair and each patch for a requested writer are strongly fair: the caller is told
to continue as the reply asks, and other calls may take the lock between. DView may
answer with any error, and nothing is assumed of it beyond answering; whether a query ends
in a repair or a result is free, the code's limit of two repairs ends the chain. Failures are
assumed to stop at some time, and only inside the property (`<>[][~Fail]_vars`).
`AttributionRunner!FairSpec` adds that DView does not answer with used query ids for ever.
`PostPrimary!FairSpec` says the same more coarsely: an operation ends (`[]<>Idle`: each is a
bounded sequence of synchronous steps), and the caller that resumes the run or submits the
repair it is asked for gets its turn. `HostService!FairSpec` has weak fairness for the steps of every thread,
abandoned ones included, since nothing can stop a thread but its death; `run_task` and each
conclusion are strongly fair because other calls may hold the lock whenever one asks. Deaths
and cancellations are bounded there by `MaxFaults`, in the others stopped by the premise of
the property.

## What the runs found

Five runs are expected to end in a violation; each is a place where the code does not do
what its documentation says.

1. **`repair_strands`.** `xuanji_submit_repair` records the repair in the run and
   goes on with the query loop before the task state says so. If the loop fails, the task
   state still awaits that repair, the run does not: `run_task` returns the old repair and
   `submit_repair` is refused for ever. `references/task-coordinator.md:149-152` says the
   task stays available for an identical retry. (`run_task` would recover if it resumed
   an investigation in `awaiting_repair` instead of answering from the state file.)
2. **`abandoned_overwrites`.** A cancelled call releases the task lock while its thread
   still runs, and the thread's next write replaces what the retry has recorded. The
   single replica of `references/native-host-deployment.md:45-47` does not exclude it.
   `runner_abandoned` shows what is left: the state on disk is an old one, never a
   mixture.
3. **`host_race`.** The same cancellation inside a finalize, followed by a finalize with
   another patch: the second finds the run not finalized yet, assembles over the file of
   the first, and both find the run sink empty. What is stored then depends on who replaces
   last, and it may be the analysis of one patch with the receipt of the other.
   `references/task-coordinator.md:145-146` promises a rejection. `host` shows what still
   holds: with one patch, cancellations do no lasting harm to results (a thread may write an old
   task state back, and the repeated conclusion brings the task forward again, because every
   run and sink recognises it); with two patches and no cancellation, the second is
   rejected.
4. **`rate_above_one`.** The download-failure ratio counts events, so a bucket's rate may
   exceed one. The validator accepts it, as the contract says; the loader of a `primary_v2`
   run bounds the rates of a breadth family by one, so the run it was written to cannot be
   loaded again.
5. **`entrant_strands`.** The error-code selector raises for a game candidate without a
   baseline, which the contribution formula allows. It raises inside `record`, before the
   state is written: the answer is lost and every resume ends there again. The playbook
   (`references/download-install-playbook.md:697-699`) has a module whose gate fails skipped,
   and the analysis completed.

Three more pieces of evidence end the run in the same way, as `Completes` of `plan` shows
(`~EverySelectorAnswers => [](state.evidence = None)`):

- **A first game without a legal id.** Any `game_id` may be a candidate, and the background and
  error-code selectors pass over those that are no positive integers. The overlap selector
  raises if such a game comes first and the reservation has a candidate
  (`cross_dimension_overlap_selector.py:48-51`), whether the error-code trigger is enabled or
  not.
- **Games and reservation with different counts.** A family is accepted if its root rates are
  within 0.000001 of the canonical root (`runner.py:3215`), so the counts of two families may
  differ: by the late row of a large table, say. The overlap selector compares the root counts
  of games and reservation exactly and raises (`cross_dimension_overlap_selector.py:206-210`).
  The case doubles the counts of one family: its rates are equal.
- **Any two families with different counts.** The error-code selector compares the root counts
  of all families with candidates in the same way, where its trigger is enabled
  (`error_code_selector.py:127`).

One more defect of the kind of 1 is known and has no run of its own. A directory of a task or run
without `state.json`, left by a death between the two, is refused for ever
(`task_coordinator.py:424`, `runner.py:325`): `task_retry` with
`<<"run_task", "init_write">>` among its `FailPoints` shows it, and the completion properties
name it as their exception.

## Proofs

A theorem holds for every value of the constants that satisfies the named assumption of
its module (types, and that `None` is none of the values); the runs check the same
formula on small instances.

### TaskCoordinatorProofs

For every number of investigations, scopes, roots, payloads, patches, queries and failure
points, under `ConstantsAssumption`:

| Theorem | States |
|---|---|
| `TypeCorrect` | `[]TypeOK` |
| `SerialExecution` | `[]SerialOrder` |
| `ResumeKeepsIdentity` | `[]ResumeIdentity` |
| `SinksAgree` | `[]SinkAgreement` |
| `SealIsFaithful` | `[]TaskSinkFaithful` |
| `RepliesAreCurrent` | `[]ReplyCurrent` |
| `SettledForGood` | `Settled` |
| `ImplementsPromise` | `KeepsPromise`: the refinement of `TaskPromise` |
| `RunsFollowContract` | `RunsKeepContract`: every run takes the steps of `RunContract` |

None of the invariants is inductive alone. `SerialOrder` needs to know that an
operation in the middle works on an executing task and on the current investigation;
`SinkAgreement` needs that the assembled file still holds the operation's patch when
`ValidateFinal` hashes it and that a run is finalized only while its investigation awaits
or has a writer; `ResumeIdentity` needs that the root an operation carries is the frozen
one. `IInv` adds these: `OpKnows` says what an operation knows at each program counter, and
`StatusKnows` what the status of an investigation says about its run. `Inductive` proves
`Init => IInv` and that every action preserves it, one lemma per action or group of
actions with the same write (`InvestigationWrite`, `RunWrite` are the shared ones); the
other theorems follow from it, and the action properties and both refinements take one
step under `IInv`.

### AttributionRunnerProofs

For every number of workers, steps of the queue, automatic and producing steps, SQL texts,
query ids, error classes, roots and patches, under `RunnerAssumption` and `NoneAssumption`
(`None` is no state, ticket or evidence); the limit of repairs is 1 or 2:

| Theorem | States | Cancelled calls |
|---|---|---|
| `TypeCorrect` | `[]TypeOK` | any |
| `NeverAMixture` | `[]StateConsistent` | any |
| `EventsRecordedOnce` | `[]EventsOnce` | any |
| `AlwaysLoads` | `[]StateLoads` | none |
| `EvidenceStaysFaithful` | `[]EvidenceFaithful` | none |
| `OnlyForward` | `Forward` | none |
| `ImplementsRunContract` | `KeepsRunContract`: the refinement of `RunContract` | none |

"None" is the hypothesis `~MayAbandon`: with cancelled calls `abandoned_overwrites` violates
`Forward`, and the SQL files of an overwritten attempt are those of its successor.

Two invariants carry these. `Inv` holds whatever is cancelled. It says that the state on
disk and every state in a worker's memory is `WellFormed`, by itself, without a look at
another file: the loader's contract but for the SQL files (`Consistent`), each processed event in
its one attempt (`EventsPlaced`), and what the contract leaves open, such as that an
attempt is answered when it has an event (`AttemptShape`). Since every write is of a whole
state, an overwriting worker can only put back a well-formed one: that is why it needs no
lock. `WorkerKnows` says what a worker holds at each program counter. The invariants
checked by the runs are not inductive: that a state loads does not survive the crash between
the SQL file and the state that names it without knowing that the file written is the one
of the attempt not yet there.

`Serial` holds when no call is cancelled: at most one worker is busy, the state in its memory
`Follows` from the state on disk by exactly one operation (the first write creates it), and the SQL,
evidence and final files are at once those of the state on disk and of the one in memory
(`FilesAgree`). So the replace of `state.json` at any later time changes nothing that was
true of the files, and `StateSteps` reduces `Forward` and the refinement to `Follows`.

The operators of the model are described once. `SkippedIs`, `WithAttemptOpens` with
`OneStep` and `Opened`, `RecordedAnswers` with `Answered` say field by field what
`Skipped`, `WithAttempt` and `Recorded` return; that the result is well formed
(`OpenedWell`, `AnsweredWell`, ...), that its files are there (`OpenedFiled`,
`AnsweredFiled`), that nothing decided is lost (`OpenedAdvances`, `AnsweredAdvances`) and
that the abstract run takes one step (`AskedIssues`, `RecordedAnswersQuery`,
`RepairedRepairs`) is proved from these descriptions. `QueryNumbers` counts the manual steps: a
query of the abstract run is a step of the queue that is not automatic.

### RouteGroupingProofs

For every registry, rule parser and payload (`payload.rules` is a sequence, `PayloadAssumption`):

| Theorem | States |
|---|---|
| `GroupingCovers` | `CoversEachRule(Grouping(a), Len(a.rules))`: the check that `resolve` makes of its own groups, and so the one of `assemble_task`, cannot fail |
| `GroupingAnswers` | `Answers(Grouping(a), a)`: each rule has one place, rules of one scope and no others share it, in the order of their first rules |

The code collects groups in an ordered dictionary; the model enumerates the first rules of
each key, and each group, in order (`InOrder`). `InOrderEnumerates` says such an enumeration
exists and hits every element: a least counterexample among the finite sets of naturals would
give one to a smaller set. The rest is about keys: rules are together when their keys
are equal, each key has one first rule (`HasFirst`, `FirstsDiffer`), and equal keys are
equal scopes (`KeysAreScopes`).

### HostServiceProofs

For any number of threads, any payloads and registry, any patches and any number of deaths
and cancellations:

| Theorem | States | Callers |
|---|---|---|
| `TypeCorrect` | `[]TypeOK` | any |
| `AnswersEveryRule` | `[]RulesAnswered` | any |
| `ReceiptsKept` | `[]ReceiptsMatch` | all but those that both cancel and rewrite |
| `NothingReplaced` | `SinksSettled` | all but those that both cancel and rewrite |

"Not both" is the hypothesis `"both" \notin Cases`, and `host_race` is the reason for it: a caller
that cancels a finalize and then sends another patch does get a mixture. What every caller
gets is a sealed result that answers each rule once with a receipt for each queue.

The invariant has two halves. `Typed` holds for every caller: a completed investigation has
a result for its own rules (`HasResults`), so have the sinks (`SinksAnswer`), and `Knows` says
what a thread relies on from an earlier look at the disk (the file it reads back is there, the sink it
loads is there); nothing that another thread does takes that away (`StillThere`). `Settled` says
that the disk agrees with what each thread is about to make of it (`InStep`). This is not inductive
without a reason why other threads do not disturb it, and there are two reasons, one for each kind
of caller. Without cancellations at most one thread is at work (`Alone`). With one patch all threads
that conclude an investigation have one analysis of it (`SameAnswer`), since an analysis is its rules and the patch, and
completed task states have one artifact (`AgreeTask`), so a thread that replaces a file
after another has done so writes the same. `Suits` is what a step may do to what another thread
goes by, `Agree` is used for it in each action that writes, and `StepSettled` puts both together.

### PostPrimaryProofs

For every primary evidence, any thresholds and orders of the selectors, any limit of repairs, any
error classes and any number of late answers, under `CasesAssumption`, `NoneAssumption` (`None` is
no state, event, plan or report), `LimitAssumption` (the policy lets the background take one
to three games) and `BudgetAssumption` (at least one module may ask a query; `contracts.py:893`
demands two):

| Theorem | States |
|---|---|
| `Invariant` | `[]Inv`, the inductive invariant |
| `StateLoadsAlways` | `[]StateLoads` |
| `PlanIsFrozen` | `[]PlanFromEvidence` |
| `AnswersAskedFor` | `[]AnswersAsked` |
| `ReportIsFaithful` | `[]ReportFaithful` |
| `OneStoryTold` | `[]OneStory` |
| `OnlyForward` | `Forward` |
| `PlanRefined` | `KeepsPlan`: the refinement of `CalibrationPlan` |

So every safety property of the run `plan` holds for any evidence, the ones on which a selector raises
included: a run that is stranded there still loads, and has lost nothing it had.

The three modules are three layers.

1. *A plan* (`PostPrimaryPlanProofs`). What the selectors choose is of three kinds: nothing to ask
   (`Plain`), one query (`Single`), one for each of a few games (`Queue`); that is all the
   proofs need of their arithmetic. `Selection(e)` is what the evidence selects for each step if no query is
   ever answered, and a plan is `Sound` when each step that has been planned `Fits` its
   selection: the same picks, with attempts and answers that belong to them. The error-code
   selector is the one that reads a step with queries; `FocusSame` says it reads only the picks of
   the background, so what the selectors return from a sound plan is what they return from
   the selection (`EnhancementsAre`, `ChosenSame`). `WalkStep` carries soundness past one step of
   `execute`, `WalkedFits` past all six, and `ExecuteFits` says the outcome is `Settled`: sound,
   with a status that tells whether all steps are terminal. From that each part of the loader's
   contract follows (`PlanHoldsSettled`, `SelectedSettled`, `IdentityHolds`, `SelectorsAnswer`), and there
   are at most six queries (`KeysFew`).
2. *A query* (`PostPrimaryQueryProofs`). An operation replaces one query of the plan. `StepChanged`,
   `Attempted` and `Answered1` say what keeps a plan sound: the other queries are as
   before, the new attempt is asked for its own text and number, and the id is one the plan has
   not seen. `QueryIssued`, `QueryRepaired` and `QueryRecorded` are the three ways to do so, each with what the plan
   keeps (`Advances`, `Grows`), and `BackgroundAdvanced` moves the cursor of the background.
3. *A run* (`PostPrimaryProofs`). `Inv` says of the state on disk that it is `StateSound`: settled, each
   attempt in its SQL file, each answer in the log. The loader's contract alone is not
   inductive: it does not say that the file the next attempt will be written to is no file of an
   earlier one, that a ticket in flight is the last attempt of the current query, or that the
   state about to be saved has grown from the one on disk. `OpSound` says these for each program
   counter. A state in memory is sound for the same files as the one on disk, since
   files are written before the state that names them and no attempt's file is written twice with
   different text (`FileWritten`), so the death between the two writes is no case of its own:
   `Fail` forgets the operation and `StateSound` stays. `Succeeds` is what `Forward` and the refinement
   need of the one action that changes the state, `WriteState`; a settled state's verdicts are a
   prefix of the six (`VerdictsInOrder`), and `VerdictsAdvance` splits a write that settles
   several steps into what the abstract plan does in one.

`Inv` was model-checked on all states of `plan` before it was proved.

### FamilyRecordProofs

For tables of any finite size with any counts, any overall numerator that is off by any number, any
sample size, baseline length and thresholds that the assumptions of `BucketEvidence` allow
(`result-schemas.yaml:6-9` sets positive ones), both directions and both kinds of metric:

| Theorem | States |
|---|---|
| `Invariant` | `[]Inv`, the inductive invariant |
| `SubsetsAlwaysLoad` | `[]SubsetLoads` |
| `CounterfactualAlwaysComputes` | `[]CounterfactualComputes` |
| `RefusedForUnseenAlone` | `[]RefusedOnlyForUnseen` |

`Inv` is small (the family is what `record` made of the rows of some table); the work is in the
arithmetic, which the runs only check up to counts of 2.

1. *Recursion without induction over an operator.* That a recursive function satisfies its equation
   needs a solution of it: `Divisor`, the largest common divisor, solves the one of `gcd`
   (`DivisorSolves`), and `FoldExists` gives one for each fold. Inductions are over sets:
   `SubsetInduction` from a smallest subset outside of a set of good ones, `FoldInduction` along
   `Pick`, the element that a fold takes first. `IntSumAny` says that the order does not matter.
2. *Fractions by their values.* `Worth(a, p, q)` says the fraction `a` has the value of `p` divided by
   `q`. `RatioIs` proves that a quotient in lowest terms has the value of the quotient; after
   that, no proof looks at a normal form. `WorthPlus`, `WorthTimes`, `WorthHalf` and `SumWorth`
   compute values over a common denominator, and `SameValue` lets comparisons use them.
3. *The formula.* `TotalWorth` gives the value of the contribution of one bucket: what the bucket counts on
   the days on which it has a denominator, less the midpoint times the change of its
   denominators (`Identity` is the algebra; entrant, exit and empty buckets are its cases). Summed
   up, the denominators rehook to the overall ones and the midpoint cancels, so what remains is the
   change of what was seen (`ContributionsAre`), and the closure gate compares the numerators that no
   denominator belongs to (`ClosesIs`, `SeenAndHidden`).
4. *A candidate and its family.* `CandidatesRanked` and `SortedIn` say the candidates are rows of the table
   in one order, `TermAtMostSum` that an adverse impact is at most the one of the family,
   and `NatSum` the same of counts.

`Inv` was model-checked on all states of `families` before it was proved.

### Only model-checked

- Liveness (`RetryCompletesTask`, `QueueCompletes`, `Completes`, `TaskSettles`), which is out of the
  prover's reach.
- What the violated runs show: it is false.

Every invariant, every action property and every refinement that a passing run checks is proved.

## Not modelled

A command-line call beside a service call on one run (`runner.py:3493` takes no lock): in `runner` an
external event comes between two operations, never beside one, so `StateLoads`, `EventsOnce` and their
theorems say nothing of it beyond what they say of cancelled calls.

Telemetry, diagnostics, configuration, authentication and the handoff signature change
no state the properties speak of. SQL text rules, result parsing, public text and byte
budgets are data: a writer pack that exceeds its budget (`task_coordinator.py:312`) fails on
every retry, which no property here speaks of. The eight daily queries of the
root preflight are one result and its trend arithmetic is the constant `Preflight`; the
warnings the resolver adds to an investigation, and the thresholds and operators they
compare, are left out of `RouteGrouping`. The post-primary validators are valid or invalid.
`contracts.py`, `analysis_v5.py` and the dictionaries load and check locked assets, which are
constant while a process runs. Scripts, deployment manifests and tests are tooling.

## Plan

1. The theorems cover every safety property of the passing runs. Next come statements that no run
   checks yet: that the rows of a table and those of a coarser one, with buckets put together, have the
   same sum of contributions, and that the operators of `PostPrimarySelectors` never pick one game twice.
2. The post-primary validators (`secondary_result_validator.py`, `error_code_result_validator.py`) are
   valid or invalid so far. Their count gates can be modelled as `BucketEvidence` does, and proved
   about with the lemmas on sums that `FamilyRecordProofs` has.
