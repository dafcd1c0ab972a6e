# Formal models of Software Agent Team

TLA+ specifications of Software Agent Team (`sat`): planning, the DAG scheduler
with its runtime controls, the Agent runner, the model-spend ledger, the
stopping and watching of one model invocation, the workflows over their stores,
the grounding of reviews, managed installation, and recovery after a killed
process. TLC checks them on small instances; TLAPS proves the most important
properties for every plan, every price list, every gate and every number of
threads. Source paths below are relative to `src/software_agent_team/` in the
repository.

## 1. The system

A user's request is planned in a dialogue that ends with an approved *TeamPlan*:
a directed acyclic graph of Agents, each with one capability (implementation and
integration Agents write to the one Git clone of the run, testing and review
Agents only read), a concurrency cap and an iteration limit. A coordinator then
runs the plan in iterations until its evidence passes, its limit is reached, it
fails, or the user cancels.

| Component | State | Operations | Interacts with |
|---|---|---|---|
| Planning (`planning.py`, `planning_terminal.py`, `teams.py`, `model_routing.py`) | turns, proposals, approvals and their index; questions and answers; the calls of the Planner | draft, ask, correct, normalize, validate, revise, edit, approve, cancel | two threads (dialogue and terminal), the ledger, produces the TeamPlan |
| Control mailbox and channel (`controls.py`, `runtime_controls.py`, `control_console.py`) | commands, each with at most two revisions; pending pause, correction, cancel, interrupts, guidance | `request`, `resolve`, `poll`, `consume_guidance`, `invocation_stop_reason` | filled by the console thread, polled by the scheduler thread, read by the workers |
| DAG scheduler (`scheduling.py`) | pending, active futures, records, first failure, quality decision, stop | `execute`: poll, launch, wait, collect, result | one thread per launched Agent, polls the channel |
| Agent runner (`dynamic_runner.py`, `git_workspace.py`, `quality_gates.py`) | turns, routes, writer commit chain, gate evidence | `__call__`, `_invoke_agent`, `_begin_writer`, `_finish_writer`, `_ensure_quality_evidence` | the worker threads; reserves spend, runs the executor, writes artifacts |
| Spend ledger (`budgets.py`, `model_costs.py`, `invocation.py`) | active reservations, totals, call records | `reserve_call`, `complete_call`, `terminal_record` | shared by all workers, planning and the fixed workflow |
| Execution adapter (`execution.py`, `invocation_lifecycle.py`, `openclaw_session_evidence.py`) | process registry, lifecycle recorder, three monitors | `execute`, `interrupt`, `interrupt_all`, `request_stop`, `finalize`, the monitors' `poll` | a worker thread, an OpenClaw process and the interrupting thread per invocation |
| Responses (`responses.py`, `response_corrections.py`, `assembly.py`, `submissions.py`) | payload, diagnostics, correction plan, evidence catalogue | validate, ground, correct, downgrade, assemble | runner and planning |
| Coordinators (`dynamic_workflow.py`, `workflow.py`) | phase, iteration, snapshots, decisions | schedule or invoke, gate, decide, revise, report | own scheduler, channel, ledger and stores |
| Stores (`run_control.py`, `progress.py`, `artifact_store.py`, `artifacts.py`) | run record with its revision, event files and their anchor, artifacts and the terminal bundle | `replace`, `append`, `write`, `bind_final_report_bundle` | coordinator and every worker thread |
| Leases and recovery (`process_lifecycle.py`, `sandbox_lifecycle.py`, `cli.py`) | a file per live process, containers by label | `acquire`, `release`, `inspect`, `reclaim_orphans`, `sat cleanup` | adapter, later processes |
| Managed install (`managed_install.py`, `updates.py`, `uninstall_state.py`, install and uninstall scripts) | releases, link, record, image tags, handoffs, state root | install, activate, roll back, reconcile, uninstall, export, purge | installer, `sat` processes, Docker |
| Prompting, reporting, terminal, configuration, self-checks | see section 9 | | |

What is hard to test here:

* *Threads.* The scheduler thread, one thread per active Agent, the console
  thread and the processes interleave freely; channel, mailbox, ledger, process
  registry, recorder, journal and gate evidence each have a lock of their own,
  and several operations take two of them one after the other.
* *Decisions used later.* A poll decides for a whole launch loop; an event is
  read at one revision and written at another; a result is built from a stop
  reason read earlier; a monitor judges files that are still being written.
* *Failure and death between two steps.* A file is in place and its directory
  fsync fails; the link is swapped and the record is not; the export is there
  and the purge stops half way; a process ignores SIGTERM.
* *Two pieces of code that must agree.* The controller normalizes, compiles,
  assembles or downgrades, and validates the result by other rules: a
  disagreement fails a run after its work is done.
* *Long dialogues.* Corrections, continuations, route switches, questions and
  revisions follow each other in any order, and each must leave something the
  next one can use.

`hazards` in `PROJECT.json` lists each place where this can go wrong, with the
properties that would catch it.

## 2. Modules

| Module | Models |
|---|---|
| `RuntimeControls`, `DagScheduler` | mailbox, channel, `DagScheduler.execute`, the workers as the scheduler sees them, the console, the revise loop |
| `BudgetLedger` | the spend ledger and the threads around it |
| `InvocationContract`, `InvocationStop` | abstract: what one invocation promises; in detail: worker, process, interrupter, recorder |
| `SessionTranscript`, `SessionMonitors` | the files of one OpenClaw session as they are read; the three monitors over them and the result `execute` builds |
| `RunStores`, `DynamicWorkflow`, `FixedWorkflow` | record, journal, artifacts; the adaptive coordinator over them; the fixed and single-Agent workflows, which share its terminal paths |
| `TestEvidence` | how gate commands become a test report, and what its validator accepts |
| `SemanticCorrection`, `AgentRunner` | the algebra of diagnostics and targeted corrections; the runner's turns, commit chain and quality gate |
| `PlanningSession` (uses `SemanticCorrection`) | one planning dialogue, its store and its terminal |
| `ProposalBody`, `ApprovedPlan` | a proposed team and its normalization and checks; from submission to the approved, scheduled plan |
| `PlanningDecisions` | who decided what: questions, answers, decisions, product dimensions |
| `ReviewGrounding` | from a Reviewer's submission to its persisted report |
| `ManagedInstall` | installer, `sat` process, uninstaller over releases, images and handoffs |
| `StateRecovery` | what a killed `sat` leaves, `sat cleanup --orphans`, uninstall with export and purge |
| `MC*` | the small instances |
| `DagSchedulerProofs`, `BudgetLedgerProofs`, `InvocationStopProofs`, `AgentRunnerProofs`, `StateRecoveryProofs`, `WorkflowProofs`, `PlanningSessionProofs`, `ManagedInstallProofs` | inductive invariants, lemmas and theorems, each about the module it is named after. `WorkflowProofs` is about `FixedWorkflow` with all it extends; `InvocationStopProofs` is also about `SessionMonitors`, `AgentRunnerProofs` about `ReviewGrounding`, `PlanningSessionProofs` about `PlanningDecisions`, whose definitions have names of their own for that (`ReviewSpec`, `MonitorsSpec`, `DecisionsSpec`) |

`FixedWorkflow` extends `DynamicWorkflow`, which extends `RunStores` and
`TestEvidence`: one specification has all modes of a run over one set of stores.
`DagScheduler` relies on `InvocationContract` between its worker states
"launching" and "collecting"; `InvocationStop` is proved to implement it.
`DynamicWorkflow` has the scheduler only as what the coordinator relies on,
which is what `DagScheduler` is checked and proved to provide.

### DagScheduler and RuntimeControls

`pc` has one value per place of the loop in `execute` at which another thread
can run. `poll` is `PollBegin` (reads `list_latest()`, which fixes the
`horizon`), `PollAccept` once per unobserved command in order, and `PollDecide`
(`_advance_deferred`, the returned decision, the candidates of the launch loop).
The mailbox has its own lock, so `ConsoleSubmit` may happen between these steps;
the channel's lock is held throughout, so the workers' admission may not.
`LaunchAgent` and `PassOver` take one candidate each in plan order, `Settle` is
what follows the launch loop, `Wait` and `Collect` are `wait()` and the recording
of one future at a time, `FinishPass` builds and validates the
`DagScheduleResult`, and `Revise` starts the next iteration over the same channel.

A worker is at `admit`, `reserving`, `launching`, `running` (the process can be
interrupted), `stopping` (a user stop won), `collecting`, or at one of its
outcomes. `Retry` stands for correction, continuation, stream retry and route
switch alike, `Fail` for every exception of the runner; `AgentRunner` has their
detail. A command is its place in the mailbox; 0 is Python's `None`. Left out:
the digest chain on disk, console parsing, event texts, timings, an observer or
a poll that raises, a KeyboardInterrupt of the main thread, and interrupts that
name an attempt rather than an Agent.

### BudgetLedger

Every method holds the ledger's lock and is one action, except the waiting loop
of `reserve_call`: `WaitCheck` runs outside the lock and `ReserveCall` inside,
and a thread that meets `AgentBudgetBusy` goes back to `WaitCheck` after a timed
wait. Money is a natural number in the smallest unit of the prices; `NoCount` is
a `None` of the provider's telemetry and the unknown cost that follows from it.
One rate stands for the prices of all token buckets. `EmitFails` is the journal
append between the reservation and the call of a continued invocation. Durations,
call counts and token limits are those of a controlled evaluation; a user task
has only its cost ceiling.

### InvocationStop and InvocationContract

The recorder sets `stop_reason` under its lock but records the STOPPING phase
after releasing it, and the interrupter looks the process up (`Match`) long
before it asks for the stop (`ClaimStop`, `RecordStopping`, `SignalProcess`,
`RequestInterrupt`): those are separate steps. The monitors appear as the stops
they may ask for and the phases they record. `Results` is every status `execute`
can find for what the process did; evidence that `EvidenceValid` or `RecordValid`
refuses fails the Agent.

### SessionTranscript and SessionMonitors

OpenClaw creates its directory, index, session and header, appends the turn and
its records, may leave the last line incomplete, and may move the session to a
new segment in several steps. `SessionTranscript` is what each reader makes of
such files: the checkpoint reached, the activity of the current turn, the
terminal response, the submission with its receipt. In `SessionMonitors` one
`Tick` is one timed-out `communicate`; the initialization, provider and
finalization monitors then read one after the other while OpenClaw goes on
writing, and `Build` makes the result and its evidence. Ages are in ticks,
capped at `Limit`. Left out: size limits of the readers and more than one
outstanding tool.

### RunStores, DynamicWorkflow, FixedWorkflow, TestEvidence

A thread runs a script `todo[t]` of store operations, each split wherever
another thread can run: an event is read, written, loaded, anchored; a lifecycle
transition is loaded and replaced; the terminal bundle is linked file by file and
bound, or unbound. An I/O error is *early* (nothing in place) or *late* (the file
is in place, the directory fsync failed). An operation that raises empties the
script and the workflow catches it as the code does (`Catch`). Nothing resumes a
run, so a crash is a behaviour that stops, and the invariants on record, journal
and bundle say what a crash leaves.

`DynamicWorkflow` begins a run, starts a pass, launches Agents in the order the
scheduler guarantees, collects them, takes a user stop, decides from test
evidence and verdicts, records the decision and acts on it. `FixedWorkflow` has
Planner, Developer, Tester and Reviewer (the last two in parallel or in turn) and
the single Agent, with their repaired invocations. `TestEvidence` computes the
gate's report from how each command ended (`Results`) and the criteria it covers,
and what `TestReport` accepts. Left out: the text of events, reports and
snapshots, digests, and the ledger, which `BudgetLedger` has.

### SemanticCorrection and AgentRunner

A response is a function from its fields to what validation will say of them; a
diagnostic is a set of issues, whose set is also its fingerprint. `BuildPlan`
chooses the fields to correct, `Refused` and `Applied` what a correction
submission does, `Improved` whether another round may follow.

In `AgentRunner` an Agent's thread stays in its turn over continuations, stream
retries, route switches and corrections; `local[a]` is the local state of that
loop, `ws` the clone (head, dirty files, tool state), `latest` the last accepted
commit. `ClaimGate`, `RunGate` and `TakeEvidence` are the quality condition.
`ReturnUnusable`, `ReturnExhausted`, `ReturnIncomplete…` and `ReturnCompleted`
are the results of one execution, together with everything the loop then does
before its next call. Left out: attempt numbers (they only count turns), an
activity event that cannot be written, and the texts of prompts.

### PlanningSession

`turns`, `proposals` and `approvals` are the write-once files, `index` is
`session.json`, replaced after each of them: every append is two steps. The
dialogue thread reserves, launches, gets a response (complete, failed,
interrupted, raising), corrects, retries, switches route or asks; at the menu the
user approves, revises, edits or cancels. The terminal's thread decides a
cancellation under `approval_lock` and stops the calls afterwards.

### ProposalBody and ApprovedPlan

A body is the record of a proposal's Agents, tasks and criteria. `Normalized` is
the controller's rewriting (task dependencies compiled from ownership and the
Agent graph, task names that collide with profile criteria, verifiers and review
tasks of specialists), `BodyIssues` and its companions what validation refuses,
`ReviewScopes` who reviews what. `ApprovedPlan` takes a proposal through
`NormalizeResponse`, `ValidateBody`, `BecomeCandidate`, `Preview` (routes,
timeouts, limits), the safe edits and `Approve`, and gives its `Waves`. Left out:
requirement and assumption atoms, non-goals, the wording of quotes, explicit
timeout overrides.

### PlanningDecisions

A text is the set of its words; a quote is contained in a text when its words
are. An identity has a case, since the wire pattern refuses lower case and the
controller may put it in upper case. `Answer` and `Decline` end a question,
`Propose` normalizes a draft (sources, identities, provenance, redundant
decisions, relations) and accepts or refuses it by the same verdicts as the code,
`Revise` asks for a change and `GiveUp` returns to the last proposal. An explicit
maturity level is not compared with its quote.

### ReviewGrounding

A fragment stands for its text up to JSON white space, an output for the set of
fragments in it. Two sets of a result hold texts that do *not* occur in its output:
`joined`, what `_positive_probe_match_surface` makes of the last lines of a probe's
standard output and its result marker, and `split`, what the catalogue makes of
lines that a carriage return ends. An assessment makes one claim for its criterion
and one for each boundary it checked. `Examine` is `_accept_completed_attempt`:
normalize, ground every claim against the results of all attempts and the commands,
downgrade what may be downgraded and ground it again (`LateErrors`), check the
context, build the artifact, or plan a correction with the catalogue of handles.

`CorrectLeaves` is a correction from the catalogue. Slots may be left out and keep
the text they were refused for; when a pick is no handle, the others are bound and
a plan for the refused slots follows *with the catalogue they had*, while the
results of the attempt join the chain (`correction.made` remembers how many attempts
a catalogue was made from, for the properties). `CorrectFields` rewrites some or all
target fields, `RefuseSubmission` is a submission nothing of which can be used. The
parser of legacy free-text answers is left out.

### ManagedInstall

An installer stages a release, builds its image under a mutable tag, validates
it, retires the predecessor, swaps the link, writes the record, activates the
launchers, and cleans up or rolls back. A `sat` process reconciles the handoffs
and admits a task under the shared lifecycle lock. The uninstaller looks at link
and record (`CheckForUninstall`) before it takes the lock exclusively
(`LockForUninstall`), and looks at the link once more after the launchers are gone
(`RemoveLink`): another process may install in between. Images have parents, so
removal can be refused; a handoff records the whole lineage of the predecessor and
of every untagged image an earlier release left (`Legacy`), and reclaiming removes
lineage after lineage, each from what the one before left (`Remaining`). A process
may be killed between any two steps and a command may fail at any. A rollback is
one step. Left out: download, checksums and version parsing.

### StateRecovery

Controllers create the state root, take a lease per provider process and remove
their sandboxes at the end. The kernel may give the pid of an ended process to
another program. `Inspect` to `ReleaseLease` is `sat cleanup --orphans`,
`StartUninstall` to `RemoveRoot` the uninstallation with every choice of export
and purge, over the root-owned directories older releases left. `reclaim_orphans`
reads a process's identity, pins it and reads it again: `ReclaimFails` has the
change of identity in between as well as a command that fails. The second reading
and the signal are one step, since the pidfd keeps the process from being replaced.

## 3. Runs

| Run | Instance | Shows |
|---|---|---|
| `scheduler` | two independent writers, a tester, a reviewer; cap 2; two iterations, two attempts; up to two of cancel, correct, pause, resume, interrupt of a writer, guidance | `WorkspaceExclusive`, `ResultTellsTheWork`, `PausedIsQuiescent`, `CancelDecides`, `CommandsTakeEffectOnce`, `RunEnds` |
| `ledger` | two waiting threads; paid, free and unpriced routes; ceiling 3; both authorities; failing journal | `PaidCallHoldsAllFunds`, `OvershootIsOneCall`, `LedgerTellsTheCalls`, `WaitersServed` |
| `invocation_stops` | both user stops, every watchdog, failing leases | `LeaseOutlivesProcess`, `KeepsContract` (refinement), `StopEndsInvocation` |
| `session_monitors` | four records; an inherited session with a user stop or with a compaction; two records with a compaction; one with a compaction and a failing report | `WatchdogResultAccepted`, `OnlyThisTurn`, `StallIsSilence` |
| `workflow_runs` | a writer, two testers, a reviewer, and the four fixed roles; two iterations; two gate commands; four modes; up to two I/O errors | `OnlyFaultsAreRefused`, `JournalAnchored`, `BoundOrRolledBack`, `CompletedOnEvidence` |
| `runner_turns` | writer, integrator, tester, reviewer; two fields in the review, one in the writers' responses; one fallback route; no repair limit | `ReportsShareOneCommit`, `AcceptedAtHead`, `InvocationsEnd` |
| `planning_dialogue` | one field with shape and rule errors; two changes, one question, two revisions, one fallback route, five calls; no repair limit | `ApprovalIsWhatWasShown`, `EvidenceReadable`, `CancelEndsPlanning` |
| `approved_plans` | every graph of three Agents with three tasks; two quality Agents of every kind with every choice of verifiers; a sound team at its policy's limits; one edit | `NormalizationStable`, `ControllerChecksAgree`, `ApprovedPlanExecutable` |
| `planning_decisions` | a request, one change, two questions, two revisions; two families of drafts | `AnswersStand`, `NothingInvented` |
| `review_reports` | three criteria, two of them assigned, one with two boundaries; three evidence attempts | `PositiveIsProved`, `AssemblyAgrees`, `CatalogueGrounds` |
| `managed_installs` | three releases (one without manifest, one with a newer schema), three installations, one fault, one kill; or two untagged images on one layer from an earlier release | `ReleaseUsable`, `NoImageLeak`, `FailureRestores` |
| `state_recoveries` | two controllers, two kills, one fault | `ExportedBeforePurge`, `RecoveryKeepsEvidence`, `ForeignUnharmed` |

The question each run asks:

* `scheduler`: can any order of launches, endings and commands break the shared
  workspace, report what did not happen, apply a command twice or not at all, or
  keep the run from ending?
* `ledger`: can concurrent calls spend the same money, swallow a violation, leave
  a ledger that cannot be frozen, or starve a waiting thread?
* `invocation_stops`: is there one stop authority, one that always ends the
  process, when user, watchdogs, process and lease store race?
* `session_monitors`: do three readers of a growing file declare only what is
  true, and build evidence their own validators accept?
* `workflow_runs`: do record, journal and bundle fit together at every crash
  point; does the program ever trip over its own checks without an I/O error; is
  success only recorded on evidence?
* `runner_turns`: do reports of several threads speak of one commit; can a late
  write of a correction's process be accepted; does every loop of retries end?
* `planning_dialogue`: is the approved plan the one on the screen, at any mix of
  corrections, revisions and failures, and does a cancellation always win or lose
  cleanly?
* `approved_plans`: do the controller's rewriting, its validation, its compiler
  and its scheduler agree about one plan?
* `planning_decisions`: can an answer be lost, or a decision be put into the
  user's mouth, by what the Planner says or the controller rewrites?
* `review_reports`: is a positive verdict backed by what was really run, and does
  the correction path converge on what the validators accept?
* `managed_installs`: is there a runnable release and a usable image after every
  kill and failure, and is nothing leaked when there was none, also of the images
  of releases that did not record theirs?
* `state_recoveries`: can recovery lose the evidence of a live process, hit an
  innocent one, or uninstall delete what was to be exported?

Each property has a mutant in `PROJECT.json`: the model with one plausible bug
(a dropped guard, a missing reset, a swapped order) under which TLC finds the
property violated in the same run.

## 4. Bounds

* `MaxCommands = 2`: a command and one that withdraws, supersedes or meets it; no
  rule of the channel looks at more than two commands at once.
  The interrupts name a writer: admission, launch and stop are the same for every
  Agent. `MaxIterations = 2`: one boundary between passes, over which the channel
  survives and the scheduler does not. `MaxAttempts = 2`: one return to the top
  of the invocation loop. Four Agents give two writers that compete and a review
  that waits for a test; cap 2 binds.
* `CallBound = 3`: a call can be admitted before, settle after and overshoot past
  another one. `MaxCost = 3` can be reached exactly, missed and exceeded by one
  call.
* `InvocationStop` is finite without a bound: each user reason is asked once.
* `SessionMonitors`: `Suspect = 1`, `Limit = 2`, `Recheck = 1` are the smallest
  values that keep the three apart; the cases bound how much OpenClaw writes, and
  each lets some of the hard behaviours meet. All of them at once is out of
  TLC's reach.
* `WorkflowRuns`: two errors are enough for a failing operation and a failing
  roll back; `RepairLimit` and `MaxRepairs` of 1 for one corrected invocation;
  two testers for a partial collection.
* `RunnerTurns`: `MaxHead = 2` gives a commit by the writer and one more; two
  fields of the review let a correction repair one and break the other; the
  tester, whose loop is the same, has none that can fail; a route switch happens
  once.
* `PlanningDialogue`: `CallBudget = 5` covers a first plan, a correction, a route
  switch and a revision, and running out of funds in each of them.
* `ApprovedPlans`: three Agents and tasks are the smallest graphs with an
  indirect dependency. `MaxEdits = 1`: each edit validates the whole body again, so
  a second one would only meet another valid body.
* `PlanningDecisions`: two questions can compete for one decision; two revisions
  are the first plan and one that must keep its answers.
* `ReviewReports`: three attempts with one result each are evidence, submission
  and correction, or two corrections of which the second uses the catalogue of the
  first. Up to five texts can be offered, so `MaxCandidates = 3` binds; the code ranks
  candidates by their likeness to the refused text, here any choice of three is
  possible. The results include a probe that failed and one that succeeded with the
  same joined text, and a tool whose lines end with a carriage return. The second
  pass of grounding stops at the first claim that fails: any of them. `repeats` names
  a list in which an identifier occurs twice, without the repeated entry. The ceiling
  on the number of fields of one plan (64) is out of reach of two criteria.
* `ManagedInstalls`: three installations allow an update, one over a pending
  handoff and a downgrade. An earlier release may have left one or two untagged
  images on one layer, which are found by a rebuild under the reference of the
  active release and reclaimed later; that they share a layer makes the order of
  reclaiming matter. While they are there nothing fails and nothing is killed
  (`LegacyUndisturbed`, a state constraint): `NoImageLeak` speaks of such runs only.
* `StateRecoveries`: two kills are those of a controller and of the command that
  cleans up after it; the controllers are symmetric and no property there is a
  liveness property.

The theorems below have no bound on commands, plans, prices, threads or gates.

## 5. Fairness

Five runs check liveness. `scheduler`: weak fairness of the scheduler thread and
of each worker; polls and waits are timed, and every process is bounded by a
timeout or a watchdog and killed after the shutdown grace. `ledger`: of each
thread. `invocation_stops`: of the threads and of the passing of the grace, not
of the process, which may ignore SIGTERM for ever. `runner_turns`: of some step;
every behaviour there is finite, so nothing stronger is needed, and the point is
that no loop is endless and nobody waits for the gate for ever.
`planning_dialogue`: of the dialogue and of the terminal's thread. Nothing is
assumed of the user: no command is ever sure to be submitted, no question to be
answered, and `RunEnds` therefore excludes a run left paused. The other runs
check safety only.

Deadlock is checked in `scheduler`, `ledger`, `invocation_stops` and
`session_monitors`, where a thread that is stuck would be a fault; the others
model a program that ends, or whose user goes away.

## 6. Theorems

All of them are checked by TLAPS down to the last leaf, without other
assumptions than the named `ASSUME`s of the modules.

**DagSchedulerProofs** (`PlanAssumption`, `BoundsAssumption`,
`RequestsAssumption`: a finite acyclic plan numbered in plan order, a positive
cap, well-formed commands). The properties speak of the worker *threads* while
the scheduler's guards read its own *dictionaries*, so none of them is inductive.
`IInv` ties the two together: a thread at work has its future in `active`
(`BusyIsActive`); `wait()` returned only ended threads, all recorded before the
loop goes on (`FinishedHaveEnded`); an Agent is recorded once, after it left
`active` (`Unrecorded`); rejecting evidence is still to be recorded or has
stopped the pass (`RejectionIsKept`); and what the last poll established still
holds while its candidates are launched (`LaunchIsCurrent`). From it:
`TypeCorrect`, `WorkspaceIsExclusive`, `PauseIsQuiescent`, and three results that
no run needs to repeat: `DependenciesRespected` (no thread before its
dependencies are recorded), and the action properties `StopsHoldBackLaunches`
and `TestsComeFirst`.

Two more invariants stand on `IInv`. `RInv` is about the result of a pass: pending
are exactly the idle threads, whatever left both dictionaries is recorded as it
ended, a recorded failure was noted or came while the pass was stopping, and a
pass with work left, nothing active and nothing against a launch has a candidate
(`SomethingReady`). The last part needs that the plan has no cycle: a pending
Agent with the smallest position in the order of dependencies has all of its
dependencies recorded completed. So `ResultsTell`: `execute` never raises
"DAG has no schedulable ready Agent", and its result is what the threads did.
`CInv` is about commands: what the channel remembers is in the mailbox in the
status that fits (`Remembered`), an applied cancel is the remembered one
(`CancelIsOwned`), and outside a poll the pass knows of it (`CancelIsKnown`). From
it `CancelIsDecisive`, and the action property `CommandsOnce`, with one lemma for
each place of the channel and the workers that resolves a command.

**BudgetLedgerProofs** (`LedgerAssumption`). `TypeOK` alone is not inductive:
settling subtracts what the call held from `occupied`. `OccupiedByOne` says that
the funds are either free or held entirely by the one priced active call. From
it: `TypeCorrect`, `PaidCallAlone`, and `OvershootBounded`, an invariant about the
history of settled calls that needs it at every settlement. `LedgerTells` says
that the terminal record can be built unless a thread died with a reservation,
and that no exceeded limit and no unknown cost goes unreported. It needs
`Numbered`: the sequences of the recorded and of the active calls are together
exactly `1..started`, each used once.

**InvocationStopProofs** (`ReasonsAssumption`). `IInv` says what the worker's
place tells of the process, the result and the stop reason. From it: `TypeCorrect`,
`LeaseIsLast`, and the refinement `AdapterKeepsContract`: every step of the
adapter is a step of `InvocationContract` or leaves its state alone.

The same module proves what the watchdogs claim (`SessionMonitors`,
`LimitsAssumption`: a suspicion comes before the limit). The validators of the
liveness evidence read, at the end, what three monitors collected over many polls.
`SInv` says what each monitor knows: of the initialization, which checkpoints were
met and in which order (`InitOf`); of the provider, that a turn it tracks is the
current one and a stall it declares has a lease and no terminal response (`ProvOf`);
of the stop, which monitor claimed it and what that monitor still says (`Stopping`,
`ReasonsFit`). The order of the checks within one poll carries most of it. From it
`ResultsPassValidation` and `NoOtherTurn`, for every transcript a session can have.

**AgentRunnerProofs** (`RunnerAssumption`: writers in dependency order, none of
them a quality Agent). An artifact is checked against local variables of its
thread, while the property compares artifacts of different threads. `IInv` says in
which order the threads can be at work and what their commits then are: writers
take turns (`WritersInOrder`), each from the commit the last one left
(`CommitsChained`), the gate and its readers come after all of them and one thread
runs the gate (`ReadersLater`), and a correction keeps the commit its response was
first verified at (`FrozenInCorrection`). From it `OneCommit` (all quality reports
name the last commit of one chain) for any number of Agents, fields and routes,
and the action property `AcceptedCommitIsHead`.

The same module proves what the runner accepts of a Reviewer (`ReviewGrounding`,
`GroundingAssumption`: the parts of a response). `GInv` says that a correction starts
from a normalized body that is well formed, and that every handle of its catalogue
grounds in the attempts the catalogue was made from, however many have been made
since, or is a text joined of lines and offered to a blocked claim (`CatalogueFits`).
Nothing is assumed of what is joined, split or printed. The lemmas are about pure
functions: grounding a claim, the downgrade of unsafe proof, and the two sets of
checks a response passes (`ContextFailure` when it is grounded, `ReportRefusals` when
the artifact is built). From them `SatisfiedMeansProved`, `ValidatorsAgree` (also of a
downgraded assessment, since `LateErrors` sends what does not ground again to a
correction) and `OffersAreAccepted`, for any criteria, outputs, chains, partial picks
and number of attempts.

**StateRecoveryProofs** (no assumption). `IInv` says that leases belong to waiting
or killed controllers, that `sat cleanup` works on killed ones only, and what each
of its passes has already seen to be gone (`NothingLeftBehind`); and that what an
uninstallation found stays until it is exported (`HadIsKept`). From it
`TypeCorrect`, `ExportsBeforeItPurges`, and the action properties
`ForeignNeverHarmed` and `EvidenceIsKept`, for any number of controllers, kills and
failing commands.

**WorkflowProofs** (`StoresAssumption`, `TeamAssumption`, `FixedAssumption`: the
coordinator is not an Agent, both teams are Agents, writers are not quality Agents,
and there is at least one of either, as `TeamPlan` insists for an adaptive plan;
`GateAssumption`: a gate has commands, each evidence for some criterion, as
`QualityManifest` insists). `JournalIsAnchored` needs three kinds of facts. Of the
stores: a thread inside the journal holds its lock, events carry revisions in order,
and journal and anchor differ by at most the event being anchored (`StoreInv`). Of the
workflow: no thread but the coordinator changes the revision, and it does so only when
no worker could be between its reading and its writing of an event, which is where the
scripts and places of both coordinators come in (`ScheduleInv`, `CallInv`). Of errors:
one that the coordinator raised has emptied its script (`ErrorStops`), so it makes no
further transition before it handles the error.

Of the gate it proves, with no assumption but that every command covers something
and every criterion is assigned (`Assigned`), `AssembledReportValid`: for every
gate, every coverage and every way the commands end, the report assembled by one
rule is accepted by the other; from the lemmas that a bad command shows in some
criterion (`BadCommandShows`), that nothing is blocked without a time-out
(`NothingBlocked`) and that a criterion is pending exactly when somebody still
has to look (`CriterionScope`). `GateNeverRefused` carries it to the gate that
`DynamicWorkflow` and `FixedWorkflow` use.

A second invariant of that module, `TInv`, follows a
terminal path by its stages: report still to be linked, linked and to be bound,
bound (`PathInv`), with a record the validators accept (`RecordInv`), a transition
built from the record on disk (`CoordinatorInStep`), and the number of linked files
that fits (`BundleInv`). That the last transition is never refused (`EndAccepted`) is
part of the argument: a refusal there would leave a complete bundle unbound. From
it `ReportBoundOrRolledBack`, for every team, mode and number of I/O errors.

The same module proves `CompletedOnlyOnEvidence`. The decision looks at the
evidence, and the record becomes `completed` several operations later; in between
other threads exist, errors come, and `_validate_references` has a say. `EInv`
carries the evidence across: how many iteration records there are at each place of
either coordinator, while one is being written and while a revision is pending
(`CountInv`); that only the coordinator's scripts count iterations
(`WorkerScripts`); and that the evidence cannot change while a script that
completes the run is left (`CountInv`, `CompletionInv`), since no Agent is at work
after its schedule or call was joined. That every planned Agent was heard does not
come from `_decide`, which looks only at the reports that exist: it comes from the
validator of the iteration record, and the proof needs both.

Its last theorem is `OnlyFaultsRefused`: without an I/O error no check of the stores
ever refuses what a coordinator or a thread does. A check refuses the operation at the
head of a script, but whether it does was settled when the script was written, or by
another thread since. `LInv` therefore speaks of all that is left of every script, in
the states before the first I/O error. A script is in order if there is a sequence of
phases, from the phase of the record, such that each operation is one the stores
accept in its phase and the last phase is one that the coordinator's next place starts
from (`Leads`, `Destinations`, `CoordinatorInOrder`). Beside it the invariant has what
those checks look at: the references handed over in this iteration, so that none is
handed over twice (`ReferencesInOrder`); the numbers and decisions of the iteration
records (`RecordsInOrder`); that a thread inside the journal has read the record as it
is (`ReadersInStep`); that every reservation is settled by the script that made it
(`WorkersInOrder`); and in a schedule that writers commit and are collected in one
order, that nobody judges before the snapshot, and that one verdict of the gate is
shared (`ScheduleInOrder`). The proof has a lemma for each operation of the stores,
that it goes on or is done (`StoreAdvances`), and one for each step of the
coordinators, that the script they take leads on (`OrderInvariant` collects them).
`GateInv` says that no gate reports what the validator refuses.

**PlanningSessionProofs** (`PlanningAssumption`). `ApprovalIsWhatWasShown` compares
an approval on disk with what the menu showed several writes earlier; `EvidenceReadable`
compares three directories with their index. `IInv` says that every append is one
file ahead of `session.json` at most and which step anchors it (`OneFileAhead`), that
what is approved is the latest proposal and what was shown (`OneApproval`), that the
status of the session fits what was written (`StatusFits`), and that the user's
change request is on record before the proposal that answers it
(`ChangeOnRecord`). From it `ApprovedAsShown` and `SessionLoads`, for any number of
rounds, revisions, repairs and routes.

The same module proves who decides (`PlanningDecisions`, no assumption: any
questions, answers, drafts and change requests). `DInv` says that every answered
question stands in the current proposal as it was answered, that no other question
is cited (`OnlyAnswered`), and that none is asked twice (`AskedOnce`); so the
contracts of a dialogue are the questions answered so far (`ContractsKnown`). The
proof takes an accepted proposal through every check that can refuse it: what is let
through keeps the category, identity and value of each contract. From it
`AnswersAreKept` and `UserDecides`. It does not depend on the normalization, whose
result is validated whatever it is.

**ManagedInstallProofs** (`InstallAssumption`: finitely many images, each with one
parent at most, and a release that reads the schema it writes). `ReleaseUsable` speaks
of the release the link selects, while a step may remove the directory or the image of
any other. `IInv` says who holds the lock (`LockHeld`), that the selected release and
the one a rollback returns to can be used (`SelectionUsable`), what the installer's
place tells of its candidate and the images it built or kept (`CandidateFits`,
`ImageFits`), that an image named by a tag or a rollback reference is present
(`TaggedPresent`), and what an admitted task relies on (`TaskFits`). The lineage that
cleanup walks is a recursive function; the fact needed, that it contains its image and
nothing that is no image, however parents are related (`LineageStarts`), is proved by
the least counterexample. What reclaiming leaves is a recursive function too: over the
lineages a handoff records (`HandoffsFit`), `RemainingFits` says that it removes no
image a tag or rollback reference names. From it `ReleaseStaysUsable`, and the action
property `FailureIsUndone`, for any number of installations, kills and failing
commands.

Every inductive invariant was an invariant of the run of its module before it was
proved.

Only model-checked:

* the liveness properties (`RunEnds`, `WaitersServed`, `StopEndsInvocation`,
  `InvocationsEnd`, `CancelEndsPlanning`): liveness and `ENABLED` are out of the
  prover's reach;
* the three properties of `approved_plans`: they say what the folds of
  `ProposalBody` and `ApprovedPlan` compute from every proposal, and the library's
  induction theorems cannot be instantiated here;
* `NoImageLeak` of `managed_installs`, which needs an account of which handoff
  answers for every image without a name;
* `StallIsSilence` of `session_monitors`: that the number of active calls is never
  negative is what a fold computes over a growing transcript.

## 7. Plan

1. The theorem next in line: `NoImageLeak`.
2. `DynamicWorkflow`'s pass as an abstract specification that `DagScheduler` is
   shown to implement, instead of the correspondence stated in section 2.
3. Larger instances of `session_monitors`: a compaction, a torn line and a
   repeated poll in one turn.
4. Requirement and assumption atoms of a proposal, and explicit timeout
   overrides.

## 8. What the models show of the code besides

These are visible in the models. Where a property of section 3 has an exception,
it is one of them.

* *Correction meets interrupt.* An interrupt is applied, a correction is accepted
  while the Agent drains, and `execute` builds a result its own validator refuses
  ("cooperative correction cannot interrupt an Agent", `scheduling.py:292`).
* *An interrupt outlives its attempt.* One resolved `best_effort_failed` refuses
  the Agent's admission in the next iteration (`runtime_controls.py:152`).
* *Guidance nobody reads.* Guidance applied to an Agent in its last invocation is
  never consumed (`runtime_controls.py:238`).
* *A pause or correction left queued.* It stays so when the last Agent finishes
  before the next checkpoint: neither the next pass nor the end polls for it.
* *A lost reservation.* A journal append that fails between reservation and call
  leaves the reservation active and the other threads waiting
  (`dynamic_runner.py:1025`); `WaitersServed` and `LedgerTellsTheCalls` except it.
* *Reservation after a violation.* In a controlled evaluation only the number of
  calls blocks later reservations (`budgets.py:651`).
* *A late claim.* A user's claim can land after the result was built from an
  earlier reading of the stop reason, or before its phase is recorded; the
  validator then refuses the evidence and the Agent is recorded failed instead of
  interrupted, which `InvocationContract` allows.
* *A torn bundle.* When the directory fsync after `os.replace` fails
  (`run_control.py:600`), the terminal record is in place and its bundle is
  rolled back, although `bind_final_report_bundle` says "or roll it back exactly"
  (`artifact_store.py:405`). `BoundOrRolledBack` excepts late errors.
* *A cancellation that is not recorded as applied.* Its command is resolved only
  where the dialogue raises (`planning_terminal.py:201`); when the dialogue
  returns by itself after the cancellation was accepted, it stays queued.
* *A downgrade that needs another call.* The positive surface of a probe joins the
  last lines of its standard output with the result marker (`responses.py:260`), a
  text that need not occur in `output_excerpt`. When a claim cites it across a failed
  probe, the downgrade looks it up in the raw output, does not find it, and a targeted
  correction follows, although `docs/runtime-evidence.md:215` says that the report is
  recovered without another model call and binds the same evidence.
* *A handle that does not ground.* `docs/adaptive-orchestration.md:1166` says that the
  catalogue follows the matching policy of final grounding and cannot offer a handle
  the validator must reject. Only satisfied claims are tried against it
  (`responses.py:1043`); a blocked claim is also offered neighbouring lines joined by a
  newline, which do not occur in an output whose lines end with a carriage return.
  `CatalogueGrounds` says exactly which handles can be refused.
* *An uninstallation that meets another release.* Link and record are checked
  before the lock is taken (`scripts/uninstall.sh:357` and `366`). An installation
  completed in between is noticed at line 549, after the launchers and the chosen
  state were removed: the new release stays selected and runnable, without them.
* *A release without its image.* When the installer is killed after setup made
  the release runnable and before its image was built, a rerun finds the
  directory, accepts it by `_validate_staged_application` (`managed_install.py:758`)
  and selects it without the steps that were left. `ReleaseUsable` therefore asks
  of the selected directory what that check asks.
* *Purge of a legacy workspace.* `workspace_mounts.py` calls
  `require_idle_openclaw_state` (line 486) from its main guard (line 576), which
  precedes the definition (line 580): run as a script, the call raises, and the
  uninstallation stops before it deletes anything.
* *Process ids.* `poll()` and `killpg` in `execution.py:3874` are two steps; reuse
  of a group id in between belongs to the operating system and is not in
  `InvocationStop`. `StateRecovery` has pid reuse, which leases are checked for.

## 9. Not modelled

Prompting, reporting, dashboards, terminal rendering and argument parsing are
string construction and presentation. Configuration is parsing; the values that
matter are CONSTANTS. Self-checks, the full gate, release tooling and benchmark
seeds are development tools outside a user's run. Digests, schemas, price tables
and model metadata are data. Docker, git, the operating system's process table,
the OpenClaw runtime and the model providers are external; the models have what
`sat` sees of them. `components` in `PROJECT.json` lists every part with its
status and what is left out of it.
