# Verification of el-zachariahs-drivers

TLA+ modules, TLC configurations and TLAPS proofs for the durable workflow
engine, its JSON store, its phase policies and the two software drivers.
Paths below are relative to `src/el_zachariahs_drivers/` unless they start with
`docs/`. `PROJECT.json` maps every definition to the lines it stands for.

## 1. Inventory

The program is a library and a CLI. It has no scheduler and no server: *hosts*
(a cron job, a Temporal worker, a person) tick a pure driver, get a
`WorkflowDecision`, and hand it to the store, which applies it to the record.

| Component | State | Operations | Used by |
|---|---|---|---|
| Engine contract (`models.py`) | `WorkflowStateRecord`: phase, activity, wait, blocker, evidence, ledger, terminal | validators of `WorkflowDecision` | everything |
| Replay policy (`policies/replay.py`) | none | `apply_decision`, `replay_decisions` | store |
| State store (`state_store.py`) | four files: seed, event log, decision log, snapshot | `initialize`, `append_event`, `append_decision`, `replay`, `status` | CLI, hosts |
| CLI (`cli.py`) | none | one store call per process | operators, cron |
| Phase policies (`policies/templates.py`, `progress.py`) | tables | `validate_decision_against_phase_policy` | hosts (nothing in the package calls it) |
| Task driver (`workflows/task_driver.py`) | none | `decide_next_task_transition` | hosts |
| Project driver (`workflows/project_driver.py`) | none | `decide_next_project_transition` | hosts |
| Proposal gates (`policies/proposal.py`) | none | transition gate, acceptance proof, audit | project driver |
| Review triggers (`review_triggers.py`) | none | `verify_review_trigger` | hosts, for both drivers |
| Activity runner (`activities/contracts.py`) | completed keys, in memory | `run` | hosts |
| Temporal skeleton (`workflows/temporal_skeleton.py`) | none | plans one store activity per tick | Temporal hosts |
| Escalation policy (`policies/escalation.py`) | none | category of a blocker -> actor | nothing in the package |
| Runtime profiles, Hermes adapter | tables / none | lookups, a placeholder | not modelled |

What is hard in it:

* **Files.** An append is: read the snapshot, append a line, truncate the
  snapshot, write the snapshot; no lock, no rename, no fsync. Crashes fall
  between any two of these and CLI processes interleave.
* **Long sequences of legal decisions.** A record carries a phase, a wait, a
  blocker and a terminal outcome at once. Every decision is legal on its own;
  whether the four fields still agree after many of them is another matter.
* **Agreement of three parties.** A driver decides, the contract validates, the
  template validates again and `apply_decision` may still refuse.
* **Evidence that changes.** The dossier (discovery, approval, binding,
  authorization, report) may be revised between the gate that looked at it and
  the phase that relies on it.
* **Repetition.** Rescopes, repair loops, blocked waits, retried activities:
  they have to end, and to be silent the second time.
* **Late answers.** A handler answers after somebody else has moved the workflow
  on, an observer overwrites the current activity, an event is logged and its
  decision is not.

Per component, what makes it correct: the engine keeps phase, blocker, wait and
ledger consistent; the store behaves as one history that only grows; status
names the one who has to act; a template and its driver agree; the driver's
answers can be applied; a task returns and a project finishes; what is built and
accepted is what was approved; an effect has a cause and a skip a reason.

`PROJECT.json` lists these as hazards, each at its line.

## 2. Modules

```
EngineContract          decision and record, ContractOK, CanApply, Apply
├─ WorkflowEngine       any decision the contract admits    ─ WorkflowEngineProofs
├─ DecisionReplay       replay, one decision at a time
│  ├─ DurableHistory    abstract: an atomic history and its view
│  └─ WorkflowStore     concrete: four files, processes, crashes
│     └─ RecoveredStore a host that replays after a crash; refines DurableHistory
│                                         ─ RecoveredStoreProofs
└─ PhasePolicy          the two templates, PolicyOK
   ├─ StatusView        what status tells: next trigger, waiting on, human action
   ├─ GovernedEngine    any decision contract and template admit ─ GovernedEngineProofs
   └─ DriverDecisions   decision shapes, blockers, review triggers, escalation
      │                                         ─ DriverDecisionsProofs (lemmas)
      ├─ TaskDriver ── TaskHost        one task, ticked         ─ TaskHostProofs
      └─ ProposalGate ── ProjectDriver ── ProjectHost   one project, ticked
                                          │              ─ ProjectHostProofs
                                          └─ ProjectRun  a project and its children
ActivityRunner          idempotent activities, and the store request of a tick

compositions
  DurableTask   = RecoveredStore + TaskDriver + StatusView     refines TaskHost
                                          ─ DurableTaskProofs
  ActivityHost  = ActivityRunner + engine + StatusView         ─ ActivityHostProofs
  ProjectRun    = ProjectHost + one TaskDriver workflow per child task
```

Modules `MC...` give the constants values for TLC. Operators whose comment says
"Fault variant" are plausible bugs: with one of them in place of the definition
above or below it, the run named in `PROJECT.json` fails.

The drivers extend the policy and the engine: `TaskHost` and `ProjectHost` apply
what the driver decides with the same `Apply` whose invariants are proved, and
compare it with the same `PolicyOK` the governed engine uses.

### How the code is abstracted

* A `WorkflowDecision` is a record; `evidence` is a set of references,
  `activity`, `wait` and `blocker` are model values or small records, `None` is
  Python's `None`. Timestamps, ids and wording are left out.
* `ContractOK` has one conjunct for every rule of `enforce_run_invariant`;
  `CanApply` holds the cases in which `apply_decision` does not raise; `Apply`
  is its result. A call that raises changes nothing and is no step.
* `state.wait` and `state.blocker` are compared in `WorkflowEngine` with the
  history variable `granted`, which is updated from the decisions alone, not by
  the rules of `Apply`.
* In `WorkflowStore` every file-system call is an action (`BeginAppend`,
  `AppendLine`, `OpenSnapshot`, `WriteSnapshot`, ...), `pc` says where a process
  is. `Overlay` says what is on disk when two processes write one file that both
  have truncated. A line is `[dec, end]`: a line without its newline is glued to
  the next one.
* Templates are relations (`<<phase, signal>>`, `<<phase, role>>`, ...).
* Drivers are functions (`DecideTask`, `DecideProject`) with all their
  arguments; `None` where the code raises.
* In `ProposalGate` the seven identity fields of a target surface are one value
  `surface`: both comparisons in the code are equality on all seven. The fields
  by which approval and binding are compared are one value `proposal`. A failure
  is a member of a set, not a sentence.
* `WorkflowStore` starts from an empty directory; `initialize`, `append_event`
  and `append_decision` go through the same file steps. The event log of the CLI
  is opaque there; `DurableTask` gives its events a meaning.
* `ActivityRunner.Run` looks a key up and answers, or enters the handler, in one
  step (exact for the single caller the repository has); the handler raises or
  answers with any envelope pydantic builds in a step of its own, so that others
  act while it runs. An envelope may name any references, whether or not they have
  to do with the request: the runner counts them and looks at none
  (`contracts.py:138-141`). It carries the length of its list, `refs`, which the
  runner counts, beside the set of references in it, `evidence`, which the record
  keeps; a repeated reference counts twice. `standing` holds the keys whose effect has not
  failed, been refused or been forgotten since.
* The seven-field identity, the evidence and the children of a project are data
  of `ProjectHost`; `ProjectRun` replaces the children by workflows of their own,
  which go on while the project plans or waits.

### External parts

The host is not in the repository. Every module with "Host", "Run" or "Durable"
in its name does for it what the code leaves open, and says so in its header:

* `TaskHost`, `ProjectHost`: read the driver's input off the record, count
  `review_loop_count` (nothing in the code writes it), record review results,
  resolve blockers along their recorded options, run child tasks, revise the
  dossier while planning, and no longer tick a workflow that has ended. Two things
  this leaves out: a host that takes tasks out of a plan it has made, and one that
  revises discovery, approval or binding while the project is in execution. No gate
  of the code would notice the first, and the second would leave an implementation
  behind its binding until the next gate.
* `RecoveredStore`: the store under a host that replays after a crash before it
  appends again (`docs/workflow_contract.md:198`).
* `DurableTask`: one process that reads status, logs one typed event, decides,
  logs the decision (`docs/workflow_contract.md:85`), and dies anywhere. It
  counts repair passes in the decision log, because the record does not hold
  them. What a worker may report, and when a threshold blocks, is as in
  `TaskHost`.
* `ActivityHost`: schedules the work of a phase, runs what status names, records
  the answer; observers, interrupters and restarts get in between. It believes every
  success, since the runner has counted its references, and goes on after a skip, or
  after a handler that did nothing, only if the record names the work (`Done`).
* `ProjectRun`: a child workflow per task. Cancelling a child is left out: the
  project driver never looks for it.

## 3. Runs

| Run | Question | Instance | States |
|---|---|---|---|
| `engine` | do phase, blocker, wait and ledger agree whatever is decided? | 4 phases, 1 of them blocked, 2 blockers, 2 waits | 8480 |
| `store_serial` | are the files one atomic history, from the empty directory on, in spite of crashes? | 1 process, 2 seeds, 4 decisions that depend on each other, log of 3, 2 crashes | 2721 |
| `store_concurrent` | what survives two writers, a crash and cut lines? | 2 processes, the same 4 decisions, 1 crash, lines cut short, log of 3 | 48209 |
| `governed_project` | does the template keep blocker, status and end consistent? | 10 phases of the project template, blockers of 2 owners | 289 |
| `task` | does the driver stay applicable, bounded, and come to an end? | whole task template, 2 repair passes, 2 blockers | 362 |
| `durable_task` | is a task on the store, under crashes, still that task? | whole task template, 1 repair pass, 1 blocker, 1 crash | 55895 |
| `project_gates` | is what is built and accepted what was approved? | 4 bindings, 2 approvals, 4 reports, 2 candidates, 3 authorizations, routes through every gate of the host | 5601 |
| `project_plan` | are rescopes heard, is a PR opened on reviewed work, does the project finish? | 2 child workflows, 1 repair pass each, 1 blocker | 13679 |
| `activity` | are effects, skips and evidence consistent, does the work conclude? | 2 phases of work, colliding keys, 0 to 2 required references, 2 attempts, 4 disturbances | 86231 |
| `store_no_replay` | is the snapshot only a cache? (violated) | 1 process, 1 crash | |
| `task_wait` | is a started wait on record? (violated) | as `task` | |
| `task_rescope` | does an exhausted task return when a host validates? (violated) | as `task`, no blockers | |

What the passing runs show:

* **engine.** `BlockedIsExplained`: a blocked phase shows the blocker recorded
  last. `WaitIsCurrent`: a wait belongs to the present visit to the phase.
  `ResumeIsRecorded`: a blocked workflow leaves by an option of its blocker or
  ends. `NoOpsAreHonest`: the no-op count shrinks only by a decision that was
  material progress, and then to nothing; no wait, blocker or evidence without
  progress resets it, and it grows only by a decision that left phase, activity,
  wait and signal as they were.
* **store_serial.** `ImplementsHistory` is the refinement: with
  `Visible` (the snapshot where it is to be trusted, the replay of the log
  elsewhere) for the view, every file operation, those of an initialization too,
  is a step of `DurableHistory` or invisible. `OneSeed`: interrupted
  initializations leave a store that is refused or complete, never seeded twice.
  `LogIsReplayable` and `SettledSnapshotIsReplay` are what the
  docstring of the store promises; `SnapshotConverges` says the snapshot gets
  back to the replay of the log after every crash.
* **store_concurrent.** With no coordination at all the log still holds every
  acknowledged decision as long as it can be read, and a readable snapshot is
  the replay of *some* of the logged decisions.
* **governed_project.** `BlockerMatchesPhase`, `NoQuietRuns`, `EndedStaysEnded`,
  `StatusNamesOwner`; these are also proved.
* **task.** Whatever the driver answers can be applied
  (`DriverDecisionsApply`); the template admits it except in the cases
  `OutsideTemplate` spells out (`TemplateAdmitsDriver` is an equivalence, so the
  list is exact); the repair loop is bounded; work that is up for review,
  under review or complete has passed `TESTING` since it was last changed, through
  repairs, blockers and resumes (`ReviewIsOfTestedWork`); the task returns.
* **durable_task.** `ImplementsTask`: what readers of the store see is a
  behaviour of `TaskHost`, through crashes between the event, the decision and
  the snapshot, and through replays; no phase is passed twice and the repair
  count survives. `ReturnsThroughCrashes`: the task still returns.
  `EventsExplainRecord`: feeding the answered events through `replay_events` and
  the driver rebuilds the record, and no event is lost without a crash.
* **project_gates.** `ImplementationIsApproved`, `ReviewedIsAuthorized`,
  `DoneIsBuilt` relate what the host handed in at one gate to the dossier in
  later phases, while the dossier is revised during planning.
  `AuditRepeatsGates` compares the audit with the gates. `BlockersAreRouted`: the
  escalation policy, which looks at the category, and the driver, which looks at
  the owner, name the same person for every blocker.
* **project_plan.** `OpenedOnFinishedWork` compares the phase of the project
  with the workflows of its children, not with the list the driver looks at.
  `RescopeIsRethought`: a returned child that asks for a rescope is heard,
  whatever its siblings do meanwhile. `ProjectFinishes`.
* **activity.** `EffectsHaveCause`: an effect is repeated only after a failure,
  a refused envelope or a restart. `SkipsAreTrue`: a skip or a collision tells
  the truth about this process. `SkipIsExplained`: all the references of
  the success a skip repeats are on record, or its answer came too late.
  `AdvanceIsEvidenced`: a phase of work is left only for an answer to work of that
  phase; then the runner keeps a success with no fewer references than were required
  and every one of them is on record, or the answer was one without effect and the
  record names the work. Both speak of what the runner kept, not of what the host was
  told, and of any references a handler may name. `WorkConcludes`: the work ends
  done or blocked for somebody.

### Why the bounds are enough

Counters and the lengths of lists are the only unbounded data. `MaxNoOps = 2` in
the engine run lets the no-op count grow twice, so that a partial decrease differs
from a reset. `MaxRefs = 2` in the activity run tells two references from one
repeated, and the requests require none, one or two. `MaxLog = 3` lets a decision be lost,
a second follow it and a third depend on both; `MaxCrashes` allows a crash during the
recovery from a crash. `MaxBlocks` bounds blockers per run: two are needed for a
blocker after a resume. `LoopCap` stops the repair counter above `MaxLoops + 1`,
so that an overrun shows. `MaxAttempts = 2` tells a first attempt from a last
one; `MaxDisturbed = 4` holds an interruption, its resolution, a restart and an
observation in one run, which is the longest of the known orders in which an
answer gets lost. In `durable_task` one crash can hit any step of any call of the
whole life of the task (`MaxLog = 20` and `MaxEvents = 22` are above the longest
one and never reached); a second crash during recovery is what `store_serial` is
for. `MaxSeeds` and `MaxEvents` of the store runs bound calls nothing depends on.
The engine run has two blockers and two waits so that an old and a new one
differ.

### Fairness

* `RecoveredStore`: a process keeps running unless it crashes (it is a program
  of a few calls), and the host replays after a crash. Nobody has to submit.
* `TaskHost`: the host ticks and gives the driver a wait policy; reviewers
  answer, owners of blockers decide, a completed task is closed. No fairness on
  *which* answer is given: the task has to return by its own limit.
* `DurableTask`: the host is scheduled, restarted after it dies, and dies finitely
  often (`MaxCrashes`); reviewers and owners of blockers answer in the end.
* `ProjectRun`: the project and every child are ticked with a wait policy and, in
  the end, a review that can be verified; what others owe (routes, resolutions, the
  PR) is done in the end; strongly fair, because reviewers may reject but not for
  ever (the code has no limit for the project): the review of the project passes,
  the review of a child passes, a plan is made of tasks.
* `ActivityHost`: the host is scheduled and every handler returns or raises.
  Disturbances are bounded and never fair. With an observer that never stops
  `WorkConcludes` does not hold: every observation erases the current activity
  (`replay.py:47`), the host schedules it again, and because scheduling is material
  the no-op count, which should show a stalled workflow, is reset each time.
* Crashes, restarts, cancellations, blockers and rescopes are never fair.

`CHECK_DEADLOCK FALSE` is set where the system may stop: bounded logs
and crashes, ended tasks and projects, work that is done. The engine run checks deadlock.

## 4. Where code and documents disagree

Three runs show a disagreement each; `PROJECT.json` quotes both sides.

1. `store_no_replay`: a crash between the log line and the snapshot leaves the
   snapshot old. The next `append_decision` validates against it and logs a
   decision that does not follow the last one. From then on replay raises. The
   contract calls the snapshot a cache.
2. `task_wait`: a blocked task that is ticked decides a wait *and* repeats its
   blocker; `apply_decision` starts the wait and clears it two lines later.
3. `task_rescope`: the template does not list `TASK_RESCOPE_REQUESTED` for
   `FIXING_REVIEW`, so a validating host cannot record the rescope of an
   exhausted task and the task stays there.

Others are stated exactly by how a passing property is restricted:

* `OutsideTemplate` in `TaskHost`: the review-trigger blocker names
  `REVIEW_WAIT` as blocked phase although it leaves `REVIEW_REQUESTED`
  (`task_driver.py:149`, `templates.py:331`); a wait in a phase without wait
  signals, and the repeated blocker of a blocked wait, are refused.
* `OutsideTemplate` in `ProjectHost`: in addition, the blocker of a failed DONE
  gate is not admitted from `FINAL_REPORT` (`templates.py:161`), and
  `MERGE_GATE`, `DOGFOOD_GATE` have no waits although
  `docs/workflows/software_project_driver.md:180` lists them as waiting.
* `EndedStaysEnded` holds for the project template only: the task template lets
  `COMPLETE` go on with `TASK_COMPLETED` (`templates.py:234`), and
  `apply_decision` never looks at the recorded outcome.
* `AuditRepeatsGates` leaves out `PR_OPEN`, where the gate the audit reuses
  returns early (`proposal.py:440`).
* `review_triggers.py:3-5` asks for a verified pickup signal before `REVIEW_WAIT`.
  The drivers refuse a failed verification and let a missing one through
  (`task_driver.py:148`), and so do their models; no property asks for more.
* The runner counts evidence (`contracts.py:138`). That a success brings the
  references required, and not as many others, holds nowhere in the code, so
  `AdvanceIsEvidenced` does not say it.
* `store_concurrent` does not check `LogIsReplayable` or
  `SettledSnapshotIsReplay`: two writers break both. With `TornWrites = TRUE` a
  line cut short breaks `LogIsReplayable`, with `Overwrite = TRUE` a crash
  between the new seed and the empty log does. Two processes can both pass the
  exists check of `initialize`, so `OneSeed` is checked for one.
* A skip carries no evidence (`contracts.py:84`). When the answer to the first
  success was refused because the workflow had moved on, the same work cannot be
  proved done until a restart forgets the key. `SkipIsExplained` names exactly
  this case with `dropped`, the keys whose success came too late.
* `events.jsonl` and `decisions.jsonl` are not linked: after a crash an unanswered
  event cannot be told from an answered one, so `EventsExplainRecord` replays the
  answered ones only.
* `review_loop_count` (`models.py:360`) is never written: a host that keeps it in
  memory forgets the limit when it restarts. `DurableTask` counts in the log.
* The task template has no `CANCELLED` or `FAILED` phase although terminal
  decisions enter one (`models.py:39`); a cancelled task is left outside its
  template, where no policy admits a decision.
* Whether a wait is admitted depends on its threshold response
  (`templates.py:302`): one that falls to a role the phase does not list is
  refused. The theorems on `TemplateAdmitsDriver` therefore speak of waits that fall
  to the steward or are retried, as those of the runs do.
* The store request of a tick has the same idempotency key every time
  (`temporal_skeleton.py:109`): the runner skips the second status tick.

## 5. Proofs

Seven modules hold theorems, and `DriverDecisionsProofs` the lemmas three of them
share; `tlapm` checks all of it. Every invariant and every action property of the
runs is stated by a theorem, and so are both refinements; `PROJECT.json` lists which
theorem states which property.

`WorkflowEngineProofs` and `GovernedEngineProofs` hold
for every set of phases, signals, waits, blockers, activities and evidence. The
assumptions are the named ones of the modules: `None` is in none of the sets,
blocked phases are phases, records start outside blocked phases, the kind is one
of the two templates, and in the governed engine the blocked phases are the two
the code knows.

* **Types** (`TypeCorrect` in both): by `ApplyType`, one decision applied to a
  well-typed record gives one.
* **BlockedExplained, WaitCurrent, ResumeRecorded**: each is inductive together
  with `TypeOK`. For the blocker the lemma `BlockedByDecision` carries the
  argument: an accepted decision into a blocked phase brings a blocker, and
  recording wins over clearing. `ResumeRecorded` uses `BlockedIsExplained` in
  the state before, which is why that had to be proved first.
* **BlockerMatches**: `BlockerRoute` shows that a decision admitted by contract
  and template carries a blocker exactly when it enters or stays in a blocked
  phase, and then its owner's. With it the invariant is inductive.
* **NoQuietRun**: `ObservationEnds` shows that the only admitted decision which
  counts as an observation is a terminal one.
* **ProjectEndsForGood**, for `Kind = "project"`: `ProjectEndDecision` shows
  that every decision admitted from a terminal phase is a terminal one, and by
  the contract it then stays in a phase of its outcome. The hypothesis is needed, see section 4.
* **ProjectStatusNamesOwner** follows from `BlockerMatchesPhase` and
  `EndedStaysEnded`: without the second a record could be terminal and blocked,
  and status would name the outcome.

`NoOpsHonest`, of the bare engine, is a case distinction on the decision: what is no
progress either leaves the count alone or raises it, whatever else it carries. It
needs only that the count is a natural number.

`RecoveredStoreProofs` is about the store, for every set of decisions, seeds and
processes, logs of any length and any number of crashes. It has two parts, after the
two store runs, and the lemmas on replay under them.

* **Replay** (`ReplayOfNothing`, `ReplayOfAppend`, `ReplayTyped`). `Replay` is a
  recursive function with one value per prefix of the log. That such a function
  exists, is unique, and that a log one decision longer replays to one decision
  more, are inductions over the length; each is proved from the least element of
  the set of lengths where it fails (`LeastNatural`). `RecordAssumption`, that
  `None` is no record, tells a replay that raises from one that does not.
* **One process at a time** (`Serial`: one process, no `--overwrite`, no line cut
  short). `StoreInv` is inductive: types, a log whose every line is whole
  (`CleanLog`), a directory that holds nothing or one seed with a log that replays
  (`SeedInv`), and for each step of a call what its process knows there
  (`ProcInv`), in particular that the draft it is about to write over the truncated
  snapshot is the replay of the log. `OneSeedEver`, `LogReplays` and
  `SnapshotSettles` are parts of it. `StoreImplementsHistory` needs nothing more:
  by `VisibleIsReplay` what a reader sees is the replay of the log, so the append of
  a line is a step of `DurableHistory` and no other file operation is one.
* **Any number of processes** (no `--overwrite`, on a store that has been initialized; lines may be cut short).
  `SharedInv`: the seed is the one every process replays from (`SharedStore`).
  `AckedInv` counts: a readable log has a decision at least as often as it was
  acknowledged and is about to be. `ExplainedInv`: the snapshot, and every
  draft once its line is logged, is the replay of some of the lines; a line more keeps that true, because replay
  looks only at the lines that are kept (`ReplaySame`). From these,
  `AckedStaysLogged` and `SnapshotExplained`.
* **StoreTypeCorrect** holds with neither restriction.

`TaskHostProofs`, for every repair limit, every set of waits and blockers, and a
host that validates or does not (assumed: the kind is the task template, the
blocked phases are the two of the code, a driver-made blocker is not `None`):

* **RepairBounded.** The count is inductive with `loops <= MaxLoops`;
  `RepairBelowLimit` is the case analysis of the driver.
* **DriverApplies.** `AnswerShapes` gives every answer one of four shapes, and a
  lemma per shape of `DriverDecisionsProofs` that pydantic builds it. That
  `apply_decision` accepts it needs `BlockedHasBlocker`, the invariant that a
  blocked task has its blocker on record: without it the driver would answer a
  blocked task with a transition.
* **ReviewTested.** Inductive is `TestedInv`: work in a phase of review is tested,
  and so is that of a blocked task whose blocker offers to resume there.
  `TickKeepsTested` goes through the shapes of an answer: only `TESTING` leads into
  the review, and a blocker reported outside of it offers no way in
  (`ReportOptions`). `RecordKeepsTested` uses that a resume follows the options
  recorded, which `apply_decision` checks.
* **TemplateAdmits**, the equivalence, for waits that fall to the steward or are
  retried. It needs `InPlace`: a task that has not ended is in a phase of the
  template, and the blocker on record names a phase it has left.

`DurableTaskProofs`, for every set of waits and blockers, every repair limit and any
number of crashes (`Hosted`: the store takes every decision and every event, and
phases, signals and review blockers of the driver are among those a decision may
carry; the constants of the run are of this kind; besides, `HostAssumption`: one
process, which neither overwrites nor cuts lines short):

* **Events.** `ReplayEvents` is treated like `Replay` (`ReplayOfNoEvent`,
  `ReplayOfEvent`). `HostInv` adds to `StoreInv` that the host works on one event at
  a time, that this event could happen to the record on disk, that what it submits
  is the decision on it, and that the answered events lead to what the log replays
  to. `AnswersAreTyped` shows that this decision is one the store takes.
  **EventsExplain** follows.
* **StoreImplementsTask**, the refinement of `TaskHost`. `RefineInv` adds that the
  task is an ordinary one (`Ordinary`: blocked exactly when a blocker is on record,
  waiting for a review only) and that there is room for the blocker of the event in
  hand. `HostFrame`: nothing but the line of a decision changes what readers see.
  `TaskStepOf`: that line is a step of `TaskHost`, by the kind of the event;
  `CountsAfter` shows that the passes and blockers counted in the log are those
  `TaskHost` counts.

`ProjectHostProofs`, for every set of dossiers, authorizations and tasks, with or
without a required proposal, in driver test or not (assumed besides: no route of
the host leads into execution from outside, `RouteAssumption`):

* **DriverApplies** and **BlockersRouted** follow from `Routed`: a project is in a
  blocked phase exactly when it has a blocker on record, one whose category and
  owner name the same person, and then in that owner's phase.
* **ImplementationApproved**, **ReviewAuthorized**, **DoneAccepted** and
  **AuditRepeats** follow from `BuiltIsVouched`. The properties speak of
  one phase each; inductive is that approval and authorization hold *from the gate
  before TASK_EXECUTION to the end*, and also while the project is blocked by a
  blocker that lets it resume there. `GateVouches` is the gate itself,
  `StaysVouched` every step that does not enter execution. The dossier can only
  be revised while planning, and then the project is not in execution: this uses
  `Routed`, which rules out a blocker kept beside a planning phase.

* **TemplateAdmits**, the equivalence, for waits that fall to the steward or are
  retried, as for the task. `Routed` says enough of the blocker on record: the phase
  it names as blocked, and that its owner is listed there.
* **RunDriverApplies**, for `ProjectRun`: `RunIsHost` shows that beside child
  workflows the project takes only steps it takes alone.
* **OpenedFinished**, for `ProjectRun` (assumed besides: a child's phase is not
  `None`, and the host has no route into `PR_OPEN` and the review from outside).
  Inductive is `FinishedInv`: a task marked complete has a complete workflow, tasks
  are planned all at once and execution has some, and in `PR_OPEN` and the review,
  or blocked with a way back there, every task is marked. The driver looks at the list only; the property is about the workflows.

`ActivityHostProofs`, for all requests, work, numbers of attempts and
disturbances (assumed: work belongs to phases that are not blocked and leads to
another such phase, `None` is no request, signature or answer):

* **EffectsCaused** and **SkipsTrue** follow from `RunnerInv`, which ties the
  remembered keys to the successes and the standing effects of this process.
* **SkipExplained** and **AdvanceEvidenced** need `EvidenceInv` on top: a
  remembered success is in the answer the host still holds, has all its references on
  record, or was dropped. They hold for every envelope a handler can build, assumed
  only that every request is the work of some phase.

Only model-checked are the liveness properties, `SnapshotConverges`, `TaskReturns`,
`ReturnsThroughCrashes`, `RescopeIsRethought`, `ProjectFinishes` and
`WorkConcludes`: they need fairness, which is about ENABLED and out of this
prover's reach. The three violated properties of section 4 are only refuted.

## 6. Not modelled

* `runtime_profiles.py`: static tables with no caller; their rules (unique and
  required roles) are checked once, when a profile is loaded.
* `adapters/hermes.py`: a placeholder function.
* The Temporal runtime and a production queue are not in the repository; of
  `temporal_skeleton.py` the one planned activity of a tick is modelled
  (`StoreRequest` in `ActivityRunner`), its dataclasses are data.
* Formatting of status, argument parsing, ids and timestamps.

## 7. Plan

Done so far: engine and its proofs; store and its refinement; phase policies,
governed engine and its proofs; task driver; gates and project driver; activity
runner; then the compositions (store and task, runner and engine, project and
children), status and escalation, and the proofs about runner, task and project.

The proofs cover the store with its refinement, the durable task with its
refinement, the templates of both drivers and the composed project as well.

Next, the most important first:

1. The properties of `TaskHost` on the store: with `StoreImplementsTask`, the bound
   on repair passes, the applicability of the driver and its agreement with the
   template hold of the task whose host dies.
2. Several processes whose decisions commute: under which condition on the
   submissions `LogIsReplayable` survives without coordination.
3. The stale snapshot without replay: how far it can be from the log.
