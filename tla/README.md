# Career CoDesk: verification project

TLA+ models, model-checking configurations and machine-checked proofs for the
career-codesk repository.  All paths below are relative to the repository root.

The repository holds two programs:

* `loop_engine/`, a local engine that drives coding agents through a plan of
  tasks and human gates and delivers their reviewed work on a private
  integration branch;
* `product/`, a Django prototype for college careers advisers: synthetic intake,
  AI-assisted hypotheses, capacity planning, adviser decisions, mock export and
  learner feedback.

The engine is where kills, git refs, a state file and operators' commands meet;
the product is where transactions, stale screens, racing requests and a search
meet.  Both are modelled; what is left out is listed under "Not modelled".

## Inventory

### Loop engine

| Part | State | Operations | What makes it correct |
|---|---|---|---|
| runs, gates, recovery (`engine.py`) | the runtime record of each task and `active_run` in `state.json` | `once`, `run`, `approve`, `reject`, `retry`, `pause`; every command but `pause` first reconciles acceptance with git | only reviewed commits are delivered and accepted; interrupted work is recovered or stopped, never assumed complete; one repair turn per authorisation; decisions of a gate stay decided |
| durable state (`state.py`) | `state.json`, its lock file, the event log | `lock`, `load`, `save`, `reconcile_plan` | one command at a time; the file is replaced as a whole |
| git repository (`git_ops.py`) | integration branch, task branches, their worktrees | `ensure_task_worktree`, `commit_task`, `commit_human_gate`, `integrate_fast_forward`, `safety_snapshot` | a commit has exactly the reviewed tree and the expected parent; integration is fast-forward and ref and worktree agree |
| child processes (`agent.py`) | pid records and session files under the run directory | `CodexCliAdapter.run`, `Verifier.run`, `reconcile` at the start of a command | a recorded child is ended before its record goes; a reused pid is not signalled when `ps` can tell; the cleaning ends |
| configuration, prompts, CLI | none that a command changes | parsing, validation, rendering | out of scope here |

Commands are separate processes.  They meet in `state.json` (under the lock),
in the git refs and in the worktrees; agents and verification commands write in
the worktrees while the engine waits, and gate reviewers edit the integration
worktree between commands.  What is hard: a kill between any two durable
writes, a resumed run that must not trust half-done work, metadata of one
attempt or gate that survives into the next, a branch that moved, policy files
that changed, two tasks that do not depend on each other.

### Product

Each service method is one SQLite transaction; requests may interleave between
transactions, and screens carry state read in an earlier one.

| Part (under `product/career_codesk/modules`) | State | Operations | What makes it correct |
|---|---|---|---|
| `intake_provenance` | import batches, row outcomes, learners, captures, safety exits | `import_csv`, `correct`, `record_safety_exit` | an import is idempotent; a safety exit removes the case from every ordinary step |
| `casework` | case state, transitions, review requests | `transition`, `reopen_from_unresolved`, `open_review_from_feedback` | transitions follow the table; an unresolved outcome reopens once |
| `ai_gateway` | attempts, outputs, hypotheses | `interpret`, `HypothesisService.record` | one disposition per attempt; only high-confidence validated output becomes evidence |
| `planning` | planner runs, allocations, weekly entries, briefs | `plan`, `record`, `record_selected_plan`, `propose`, activation and retirement, `create_or_replay` | a plan respects capacity, is deterministic, and serves demand in the policy's order; one execution package per approved allocation |
| `decisions` | support decisions, reviewed inputs | `record`, workbench `decide` with replanning | a linear history per allocation; a stale screen is refused; capacity already promised is not promised again |
| `export` | structured exports, writeback attempts | `create_or_replay_export`, `record_attempt`, `reconcile_local_state` | one canonical export; a success is final; attempt numbers grow |
| `delivery_feedback` | delivery events, outcomes, learner feedback | `record_delivery`, `record_outcome`, `record_learner_feedback` | only for a currently approved ordinary action |
| `audit`, `web`, composition | none of their own | scripted evaluation, views | out of scope |

What is hard there: replanning from the reviewed allocation's own, possibly
old, planner run; demands rejected in a later run and still present in an older
one; one failing proposal that rolls a decision back; screens that are stale
when they are confirmed; two imports that both look before either stores; a
safety exit between an interpretation and its use; retired actions whose
deliveries get an outcome later; late results after a success.

`PROJECT.json` lists every hazard at its line, with the properties that cover
it or the reason why none does.

## Modules

| Module | Models | Used by |
|---|---|---|
| `DeliveryLedger` | abstract: a ledger that only grows, one reviewed commit at a time, at most one per task, dependencies first | `LoopEngine` |
| `LoopEngine` | the engine in detail | `MCLoopEngine` (the small plans), `LoopEngineProofs` (every plan), `LoopPlanProofs` (linear plans) |
| `ChildProcesses` | children of agents and verifiers and their pid records | `ChildProcessesProofs` |
| `CapacityPlanner` | the planner: search, rank, alternatives, reason codes, runs; what a plan means without the search (operators only) | `PlannerRuns`, `Workbench`, `CapacityPlannerProofs` |
| `PlannerRuns` | recorded runs and selected plans, against the planner's meaning | `MCPlannerRuns`, `PlannerRunsProofs` |
| `DemandBoard` | abstract: each demand is waiting, proposed or active | `Workbench` |
| `Workbench` | screens, decisions, replanning, refreshed proposals | `MCWorkbench`, `WorkbenchProofs` |
| `Fulfilment` | execution packages, writeback, deliveries, outcomes, feedback, the case workflow | `MCFulfilment`, `FulfilmentProofs` |
| `Intake` | imports, row outcomes, corrections, safety exits | `AiGateway` |
| `AiGateway` | interpretations and hypotheses on top of `Intake` | `MCAiGateway`, `EvidenceProofs` |

An operator named after a fault ("Fault:" in its comment) is a changed form of
the definition that follows it.  No specification uses it; it shows that the
property named with it in `PROJECT.json` depends on that definition.

### How `LoopEngine` corresponds to the code

One command runs at a time (`state.py:32-50`), so a single record, `proc`,
holds where the command is and what it keeps in memory: the task, the tree
digest that was verified, whether it is inside `run_once`'s `try` block, and the
commit it made, or is about to move the integration branch to, or moved it from.
`rt` and `active` are `state.json`; `main`, `branch`, `tree` and `itree` are the
refs and what the worktrees hold.  `reviewed` and `turns` are history
variables, they influence nothing.

The policy files are what the integration branch pins, or edited.  `drift` says
which, and since when: "throughout" if they already were edited when the last command
began.  The engine stores a digest of them with a run, a checkpoint, the two kinds of
intent and a gate request; `edited` has, for each task, the items stored with the digest of
the edited files.  A check of a stored digest is `SameDigest`, the preflight
(`engine.py:1399-1429`) is `~Drifted`.  Each is at its place in the order of the
code: reconciliation, then the preflight (`PrepareTask`, `PrepareGate`, `OpenGate`),
then, at a later step, whatever is stored (`Noted`).  There is one edited state: two different
edits would only fail more comparisons.

A commit is the path of entries (task, tree) from the pinned base to it: its
parent is the path without the last entry, ancestry is the prefix order.  Two
commits with the same parent, tree and task are the same in the model, as they
are to the engine, which never looks at authors or messages.  A tree digest is
a model value.

Every action ends at the write that makes its effect durable (a `save` or one
git command), so a kill between any two of them is `Crash`, or `EndCommand`
outside the `try` block, which also stands for refused commands.  The longest
method, `_execute_task`, becomes `BeginImplement`, `BeginTargetedRepair`,
`BeginReverify`, `AgentReturns`, `VerifyPasses`, `ReviewAccepts`, `NeedsHuman`,
`BeginRepair`, `ExhaustRepairs`, `CommitTask`, `SaveCheckpoint`; the integration
of a commit, shared by a run and by the recovery of one, is `ReadTree`, which resolves
the task branch once more (`git_ops.py:224`),
`AdvanceRef`, `AcceptTask`, `RollBack`; `once` on a gate is `PrepareGate`,
`WaitForHumanGate`; `approve` is `OpenGate`, `Approve`, `CommitHumanGate`,
`AcceptGate`.  Any exception inside the `try` block is `RunFails`, at any point of
the run.  What the guide, the verifier and the reviewer answer is a choice
among these actions.

What comes from outside may fall between any two actions: writes in a worktree
(`WriteTree`, `WriteIntegrationTree`), commits on a task branch by an agent, a
verification command or a child that outlived its turn (`AgentCommits`), edits of the policy
files (`EditPolicy`).  An edit that a guard of an agent's turn sees makes the
run fail, as `RunFails` may at any point; one between two guards or
after the last is seen by nobody, and is in the model.  Two readings of the files
in one action are taken to read the same: the reconciliation of all tasks, and the comparison
of a gate's request with the preflight that follows it.  A commit from outside is added to the
branch; rewriting it (amend, reset) is not modelled.

### How `ChildProcesses` corresponds to the code

`engine` and `current` are the point the engine process has reached and the
child it is working on; `record` is the set of pid files; `proc` is what the
machine runs under each pid, seen the way `ps` and `killpg` see it.  A turn is
`Spawn`, `WriteRecord` (or `SkipRecord`, `GiveUpChild`, `AbandonChild`, the three
ways in which it is not written), `EndTurn`, `RemoveRecord`; a new command is
`Start`, then for each record `LookUp` and `EndSession`, then `Reconciled`.

Every look is a run of `ps`, which may fail or time out.  When the start time cannot be read
(`agent.py:563-565`) nothing is compared: `LookUpFails`.  When the session cannot be
listed, the reconciliation stops with an error, perhaps after the first signals
(`ListingFails`); the end of a turn falls back on the group of the leader, or on nothing
(`agent.py:404-409`), and removes the record all the same: `EndTurnBlind`.  `sight` remembers what
the looks at the current child were worth.  The look and the signal are
separate steps: between them the leader may exit (`RefuseVanished`) and its number go to
another process (`PidReused`), which is then signalled.

`Killed` may come between any two steps.  The child itself exits, leaves descendants
behind, or gives its number to a stranger at any time; only a zombie that its own engine has
not waited for keeps it.  A pid names one child, and start times are
taken as distinct (the code compares them to the second).  Descendants that leave the
session, or make a group of their own between the listing and the signal, are out of sight.
A command that refuses a record starts no child, so at most one record exists at a time.

### How the planner modules correspond to the code

A request is [demands, slots, policy] with numbers for identifiers, routes and
days, in the order of the source's sort keys (`InOrder`, `SortByKey`);
`ValidRequest` is what the constructors of its value types let through.
`Reached` is the depth-first search, demand by demand in the order it visits them:
each partial assignment is replaced by its extensions (`Place` where `Placed`
allows it, or the demand left out), in the order the code tries them.  `Leaves` are
the complete ones.  `OptimalPrimary` is the search for the best of them;
`KeptAlternatives` are the first ones the second search reaches that meet as many
mandatory demands, up to the limit (`FirstOf`), and `Alternatives` puts them in the
order of their ranks.  `Render` gives the reason codes.  `FeasibleAssignments` says what a
plan may be without the search: it constrains whole groups.  `PlannerRuns`
records and selects runs while bookings take capacity away, and states what
must hold of them; `ReasonHolds` says what each code claims.

### How `Workbench` corresponds to the code

`allocs`, `decisions`, `packages` and `runs` are the tables, in creation order,
so a row's number stands for (`created_at`, `id`).  `screen` is what a browser
session is about to confirm.  `OpenConfirmation` is the confirmation page;
`Decide` is the whole transaction: the checks of `decide`, of
`SupportDecisionService.record`, of `record_selected_plan` and of every `propose`
of the refresh are its one condition, and when any of them fails nothing is
stored.  SQLite serialises these transactions.  `SafetyExit` is what `Intake`
models in full.  The mapping to `DemandBoard` forgets rows and runs.

### How `Fulfilment` corresponds to the code

One variable per table; `entries` has, for each package, the captures its evidence
names as reviewed.  Every public method is one transaction, so a call that
raises is an action that is not enabled; a nested service is an operator the
caller uses (`RecordLearnerFeedback` uses `CorrectedAs`, `RespondedAs` and
`OpenReview`, `RecordOutcome` uses `ReopenFromUnresolved`).  `Approve` and `Retire`
are what `Workbench` does to an allocation, free of the planner.

### How `Intake` and `AiGateway` correspond to the code

A file names its manifest (and whether that passes), the source version, and its
body: whether it can be read, and its rows as classes the validation tells apart.
`import_csv` is two steps, the
look-up (`Submit`) and the transaction (`Store`), because the look-up is outside
the transaction: two importers of one version may both find nothing, and
the unique constraint decides; the loser's call fails.  A rejected manifest or an unreadable
file is stored too, as a batch without rows.  `Correct` and `RecordSafetyExit` are
the services of a capture.  `Interpret` stores an attempt whatever happens once the
request is well formed; the adapter's reply is one of seven classes, by the
disposition the code gives it.  Captures, batches, attempts and
hypotheses are append-only tables.

## Runs

Plans: *Chain* is task, gate, task, each depending on the one before; *Pair* is
two independent tasks; *Short* an agent task and the gate after it; *Gates* two
independent gates; *Fork* is Chain without its dependencies.

| Run | Plan, disturbances | Shows |
|---|---|---|
| `loop_chain` | Chain; kills, Ctrl-C, edits of the integration worktree at any time, of the policy files between commands | the engine implements `DeliveryLedger`; accepted tasks and gates are in the history with what was reviewed; repair budget; no interrupted run is forgotten; a reviewed commit is recoverable; an interrupted mutation stops; a rejected gate stays rejected |
| `loop_outside` | Short; kills, and at any time commits by other hands, writes in a task worktree and edits of the policy files | what is accepted is the reviewed commit, what is delivered starts with it, and a command that ran under drift from its start delivers nothing |
| `loop_calm` | Chain; kills and Ctrl-C until some point, then the documented procedure | every task ends up accepted |
| `orphaned_run` | Fork; kills | violated: see Findings |
| `rejected_gate_accepted` | Gates; no disturbance but an `approve` that ends after its intent was saved | violated |
| `requeued_stuck` | Pair; no disturbance, the documented procedure from some point on | violated |
| `planner_runs` | 324 requests of three demands over three slots; a booking takes capacity | the first plan is the best of all feasible assignments, every stored plan fits its stored input, alternatives keep the entitlements and are complete, unmet demand is explained truly |
| `workbench` | three demands of two learners, or two in a shared session; two advisers, a safety exit | a demand never has two live allocations, an active one is backed by its last approval, nothing is dropped, a decision is about what the screen showed, nothing new after an exit; `DemandBoard` is implemented |
| `workbench_limits` | two learners, group limit one | violated: see Findings |
| `fulfilment` | two allocations of one case, a safety exit | the transition log explains the case state, staff are asked, one reopening per unresolved outcome, responses have their evidence, a success is final, an exited case is frozen |
| `evidence` | two importers racing over five submissions, a correction, exits, two attempts | a version enters once, rows are kept apart, an importer is told about its own file, hypotheses rest on their exact output, nothing is interpreted after an exit |
| `children` | three children, three kills of the engine, two failures of `ps` | a record outlives its child but for a turn that ends blind, strangers are spared but for a look that failed or was overtaken, the cleaning ends |

`CHECK_DEADLOCK FALSE` is there because the system may stop: in the engine
everything is accepted, or only refused commands are left; in the product every
table has reached its bound.  `children` is checked for deadlock.

### Bounds

* `Disturbances` says which outside events a run includes; a value not in the
  set switches the action off.  Each run has those that matter for its question.
* Two trees (`RootTree` and another): what the properties tell apart is whether a
  tree is the reviewed one.
* `RepairCap = 2`: `repair_cycles` stops counting there.  The code allows one
  autonomous and one targeted turn, and only compares the counter with 1, so two is
  the first value at which nothing changes any more.
* Edits of the policy files come as "policy", between commands, or as "late_policy", at any
  time.  What holds only under the first is said with the theorems.
* `HistoryCap` stops commits and edits from outside once a branch is that long; the engine
  itself delivers each task at most once.  With two in `loop_outside` a branch has room for
  the reviewed commit with a stray one before it or behind it, and an edit may still come after the first
  delivery.
* `planner_runs`: `MaxRuns = 2` and `MaxTaken = 1` are enough to record a run, lose
  capacity, and select from the old run or record again.  The requests
  combine urgent, patient, heavy, entitled and badly placed demands with slots
  without seats, hours or room, three policies (with and without groups,
  an unapproved route) and alternative limits below and above what there is.
* `workbench`: `MaxDecisions = 4` reaches a decision on a proposal whose run is two
  runs old; `MaxExits = 1` exits either learner at any point.  Two sessions make
  every screen go stale in every way; they are symmetric, learners and demands
  are not.
* `workbench_limits`: `MaxDecisions = 2`, two approvals suffice.
* `fulfilment`: `MaxRows = 6` rows in the growing tables, enough to approve, deliver,
  retire, answer, close, reopen and answer again.  Of the retryable results one is
  taken: the code treats `pending`, `failed` and `not_sent` alike.
* `evidence`: five submissions over four manifests: a file with ordinary and unsafe rows,
  other bytes under its manifest (a direct identifier, a sensitive text), its rows under
  a new manifest, another version with a malformed row and a learner named twice, and a
  rejected manifest; `MaxCorrections = 1`, `MaxAttempts = 2` (one before and
  one after an exit), `MaxSources = 2` of the code's larger limit, which tells one
  source from several.  Four replies are used: one per disposition that matters.
* `children`: three pids and three kills: a leftover of an earlier kill, one of the
  last command, and the current child.  `MaxFailures = 2` counts the failures of `ps` that change
  what the engine does: two reach a blind end of a turn and an unread start.

### Fairness

Safety needs none.  `AllDelivered` is checked under `CalmSpec`: anything may
happen for any finite time, and from some point on only the steps of the
documented procedure are taken, and they are taken (weak fairness of
`CalmNext`): `once` in plan order until a gate or a failure, approve a waiting
gate, inspect and retry a stopped task, agents and verifiers succeed.  The code
runs these steps by itself within a command; across commands the operator does,
which is what the manual tells them to do
(`docs/loop-engineering.md`, "Run" and "Recovery and attention states").
`loop_calm` leaves out policy drift, which the operator has to undo by hand, and
edits of the integration worktree outside a gate, which integration refuses
until they are undone.

`CleanupEnds` of `ChildProcesses` assumes weak fairness of the engine's own steps
(a running command goes on, and the operator issues the next one, which is what
every stopped run asks for) and of `KilledDies` (SIGKILL works in the end).
Children need not exit; kills of the engine and failures of `ps` are finite only by their
bounds, without which no cleaning could be promised.

## Findings

1. *An interrupted run is forgotten.*  `reject` (`engine.py:714`), a targeted
   `retry` (813) and the acceptance of a gate (1936) overwrite `active_run` without looking whose
   run it is.  With independent tasks, deciding a gate while a task is running
   or paused leaves that task engaged but not active: `pause` refuses it, and `once` starts a
   fresh run (or refuses, if the integration branch moved) where the manual
   promises a resume.  Run `orphaned_run`.
2. *A rejected gate becomes accepted.*  An approval cut short before its commit
   leaves its intent; `reject` does not remove it.  When a second gate with the same base
   and tree is then approved, reconciliation takes that commit for the rejected gate's own.
   Run `rejected_gate_accepted`.
3. *A retried task is refused for ever.*  The branch of a failed attempt is kept
   at its old base.  Once another task is delivered, the difference is reported
   as a commit of the agent, and `retry` changes nothing about it.  Run
   `requeued_stuck`.

4. *A replanned slot forgets its group.*  Replanning subtracts the seats, hours and
   room places of active allocations from the slots and drops the learners
   (`workbench.py:308-340`), so the group limit and the compatibility of barriers are
   checked among the remaining demands only.  Two approvals, one after the other,
   exceed `maximum_group_size`, which the planner owns as a hard constraint
   (`docs/versions/v0.2.0-implementation-rfc.md:94`).  Run `workbench_limits`.

The first three need tasks that do not depend on each other.  On linear plans the
properties hold: `loop_chain` and `loop_calm` check it on a small one, and
`LoopPlanProofs` proves it for all.  `PLAN.yaml` is a chain, each task depends on
the one before it, which is why the three are easy to miss.

### Where the code does not exclude what one might expect

Met while modelling, in the models, and kept in the statements of the properties and
theorems rather than assumed away:

* *A commit behind the reviewed one.*  Between `commit_task` and the integration nothing
  holds the task branch; `integrate_fast_forward` resolves it again (`git_ops.py:224`) and does
  not compare it with the commit that was reviewed.  A commit made there, by a child that outlived its turn,
  is delivered with the reviewed one, while `docs/loop-engineering.md:189-195` and `208-209` speak of
  rejecting agent-created commits and of accepted task commits only.  `DeliversReviewed`
  says what is kept: the delivery starts with the reviewed commit.  With "agent_commit"
  TLC refutes `LedgerSpec`, `CommitIsRecoverable` and `AmbiguousStops`, and not
  `AcceptedGateReviewed`, `ActiveOwnsRun` or `RepairBudget`.
* *A policy edit inside a command.*  After the last check of a command (the reviewer's guard, the
  gate's verification, the preflight of a recovery: `engine.py:1088-1193`, `576-600`, `260-295`) the
  files are not compared again, and what is under way is delivered under drift.  `DriftStopsDelivery` is
  about drift that was there when the command began.  With "late_policy" TLC refutes
  `LedgerSpec`, `AcceptedGateReviewed`, `ActiveOwnsRun`, `RejectedStaysRejected`, `CommitIsRecoverable` and
  `AmbiguousStops`: reconciliation and the preflight of one command may then disagree on whether a
  delivered task is accepted.  `RepairBudget` holds.
* *A turn that ends blind.*  When `ps` fails at the end of a turn, descendants in groups of their
  own run on and the record goes (`agent.py:404-409`, `192-193`, `324-325`).
* *A look that fails.*  When the start time of a recorded pid cannot be read, or the pid changes
  hands after it was, the session that has the number now is ended (`agent.py:511-551`).

## Proofs

All theorems are about the `Spec` of their module, for every value of its constants that
fits the module's assumptions.  Every property of the passing runs is the subject of one,
but for the two liveness properties.

### The engine

They hold for every plan, set of trees, repair ceiling and
set of disturbances, unless a hypothesis excludes one, from the assumptions named in `LoopEngine`: gates are
tasks, the dependency and rank functions have the right domains, the pinned
tree is a tree, and `None` is none of the values it is compared with.
`LoopEngineProofs` has what is true of every plan:

* `TypeCorrect`: `TypeOK` always holds.  It is not inductive alone: resuming a
  run needs a stage to resume at, and appending to a branch needs the branch.
  `TypeInv` adds which program points work on a prepared agent task (`PlaceOK`)
  and the stages of engaged records (`StageOK`).
* `RepairBudgetHolds`: at most one repair turn between two authorisations.  The
  code bounds `repair_cycles`, which belongs to a run; the promise is about
  turns, which may span runs.  `BudgetInv` ties them: turns never exceed
  `repair_cycles`, a task about to have its targeted repair has had no turn
  since the retry, and no resume stage is left over while a run goes on.
* `AgentAcceptanceIsReviewed` and `HistoryDeliversReviewed`: an accepted agent
  task is in the history with the commit that was reviewed last, and what the history
  gains starts with a reviewed commit on top of it, commits from outside and late edits of the
  policy included.  `LedgerInv` has three parts: what a command
  knows at each point of a run (`Place`), what a record says of its branch and
  of the last review (`Record`: a checkpoint is the reviewed commit and the
  branch starts with it; an intent is the last review, and the branch starts with its base), and that deliveries stay in the history (`Delivery`).
* `ReviewedCommitIsRecoverable`: a reviewed commit on a task branch has its
  checkpoint, or the intent saved before it.  Only the start of a fresh run forgets
  these, and it starts from a branch at the head of the integration branch; `RecoveryInv`
  says why the reviewed commit is never there without its checkpoint (`HistoryKnown`:
  what was reviewed last and is in the history is known to its task).  Two hypotheses are
  needed, and TLC refutes the property without either.  Without "agent_commit" the branch of a task
  is its checkpoint (`BranchInv`), else a stray commit on top hides it.  Without
  "late_policy" a command past its start runs under the pinned files and nothing is stored under
  edited ones (`PolicyStill`), so what reconciliation saw still holds when a run
  starts (`StartInv`: no task taken up has its checkpoint in the history).
* `DriftHoldsDelivery`: a command whose policy files differed ever since it took the lock
  delivers nothing, and accepts only what was stored under the same edited files; nothing is
  delivered between commands.  `DriftFoundAtStart` says that such a command never gets
  past its start, because each way on has a preflight.  Files may be edited at any time.

`LoopPlanProofs` has what is true of linear plans of any length.  `LinearPlan` says
that the tasks can be counted off so that each depends on the one before it,
as those of `PLAN.yaml` do; without it TLC refutes `ActiveOwnsRun` and
`RejectedStaysRejected` (see Findings).  The argument is that there is one frontier:
whatever the engine has written about a task implies that all tasks before it are in
the history (`OrderInv`), so two tasks that are begun and not finished are the same.
All five theorems also take policy files to be edited between commands only
(`PolicyStill`, `StartInv`); the last two exclude commits from outside as well.

* `ActiveRunKept`: a running or paused task is the active one.
* `GateAcceptanceIsReviewed` and `RejectionStands`: an accepted gate is in the history with
  the commit that was approved last, and a rejected gate is not accepted by a later
  reconciliation.  `GateInv` says what the record of a gate and a command working on
  one know of the requested base, the approval and its commit.
* `EngineImplementsLedger`: `Spec => LedgerSpec`, the refinement of `DeliveryLedger`.
  The initial states map to the empty ledger; a verdict (`ReviewAccepts`, `Approve`) maps to
  `Review`, the end of an integration (`AcceptTask`) and `CommitHumanGate` to `Deliver`, and every
  other step to a stutter.  That the delivered commit is the reviewed one alone is `BranchInv`.  That a reviewed task was not delivered before and
  that its dependencies were needs `EntriesKnown`: an entry of the history belongs to a task
  whose checkpoint is in it, or to a gate whose approval is being recorded.
* `InterruptedMutationStops`: a task left in the middle of a mutating turn can only become
  failed.  `MutationInv` says that its branch is still at the base of its run and it has
  no checkpoint, so no way of taking up, completing or integrating a run applies.  With
  commits from outside TLC shows a repair that commits the
  tree an earlier reviewer accepted, and is then completed as that commit.

### Child processes

From the assumption that `None` is no pid.

* `RecordsOutliveChildren` and `StrangersAreSpared` (`ChildProcessesProofs`): from one
  invariant, `Attended`, that says for each pid what may still run under it given
  its record, the point the engine has reached and what its looks were worth, for any number of
  kills and failures of `ps`.

### Intake and interpretation

From the assumptions that the rows of a file are numbered and every reply of the adapter
has a disposition.

* `TypeCorrect`, `AnswersAreOwn`, `HypothesesRestOnOutput`, `ExitClosesInterpretation`
  (`EvidenceProofs`): the tables are append-only, so what was true of a row when it
  was stored stays true; the invariant adds what an importer has read to what it
  may be told, and ties each hypothesis to its output and captures.
* `EntersOnce`, `KeptApart` (`EvidenceProofs`): their invariant, `EntryInv`, says of each
  capture that it fits a row its batch kept.  That a stored file brings one capture
  for each such row rests on `KeptPlaced`: the places of a finite set of row numbers
  count it off from one, so the n-th new capture and the n-th kept row correspond.

### The planner

What the operators compute, for every request that is valid (`ValidRequest`); the
runs take valid requests by `RequestsAssumption` and `RequestsFit`.

* `LeavesAre` (`CapacityPlannerProofs`): the leaves of the search are exactly the feasible
  assignments, each once.  The search checks a demand against the group it joins;
  feasibility is about whole groups.  They agree because every
  constraint is one a part of a group satisfies when the whole does.
* `RankOrders`, `PrimaryIsBest`, `AlternativesAre`, `AlternativesInOrder`: the rank is a strict total
  order, so the best plan is one and does not depend on the order of the search; the
  alternatives are other feasible assignments with as many mandatory demands met, each
  once, as many as there are up to the limit, in the order of their ranks.
* `BestRecorded`, `PlansFeasible`, `EntitlementsPreserved`, `ReasonsHold`
  (`PlannerRunsProofs`): every recorded run is `Complete` (`RunsComplete`): it holds the best
  plan and all the alternatives of the input it stores, each once, in an order
  that selecting one of them changes.  A booking leaves the request valid
  (`TakenValid`).  The reasons are proved constraint by constraint.

### The workbench

From the assumptions that demands are finite and the initial requests are valid and
about them.

* `TypeCorrect`, `OneLive`, `ActiveBacked`, `DecisionsAsShown`, `ExitIsFinal`, `ImplementsBoard`
  (`WorkbenchProofs`) hold whatever the planner's
  search returns: of a run these proofs use that it keeps its request, that a
  selected plan is one of its plans, and what `propose` looks up in it before it
  creates a row.  `OneLivePerDemand` is inductive once one knows that the request of
  the new run excludes what stays live (`NewRunInput`, `DecidedRows`).
  `DecidedAsShown` needs an invariant of open pages (`PageOK`): as long as the token
  of a page is the current one, the row is as it was shown or retired, because every
  other decision either leaves the token or becomes it (`DecidedTokens`).
  `ImplementsBoard` maps each decision to the step its action names.
* `NoneDropped`, `RunsAreWhole` also use what the planner computes.  What active allocations use up
  leaves the request valid (`RemainingValid`), so every run is the whole result of the
  planner on its input and has an answer, a slot or a reason, for each of its demands
  (`AllAnswered`).  `KeptInv` adds that decision i made run i + 1 and that the demand of a row was
  planned by the row's run; so the last run that planned a demand is the one to look at,
  and what it answered was either proposed by that decision or is reported as unmet.

### Fulfilment

From the assumption that there are finitely many allocations.

* `SuccessStays` (`FulfilmentProofs`): from the shape of the attempt table alone.
* `ReopensOnce`, `StaffAlwaysAsked`: from one invariant, `ReopenInv`.
  Every table only grows, a transition that names an outcome is explained by it, and
  the number of a new outcome is one no transition has named yet.  A review stays
  answered because the feedback service and the outcome of a delivery move a case
  only to open.
* `LogExplainsState`: the moves of a case are numbered by their place in the table; the
  invariant says that the last is to the state of the case and each starts where the one
  before it ended, which the rows `MovesOf` picks for a case need to be known of.
* `TypeCorrect`, `EvidenceComplete`: from `EvidenceInv`, that packages, captures and the rows that name
  them fit.  A response is counted against the rows it stored, which needs that what it stores
  are new rows and that an earlier call's are not counted again.
* `ExitFreezes`: what a call writes belongs to the case it was made for, and each call
  refuses an exited case; it needs that a delivery names an allocation and an
  outcome its own delivery.

### How the proofs handle recursion

The model's recursive functions over numbers (the search, the best leaf so far) are proved about with
`Inductive` and `Recursion` (`CapacityPlannerProofs`): a set of numbers that holds 0 and
is closed under successor holds them all, from the least element of a set of numbers.
They speak of sets, so no theorem with an operator for a parameter is needed.

### What is only model-checked

* Liveness, `AllDelivered` and `CleanupEnds`: the provers here have no rule for
  fairness and `ENABLED`.
* The four runs that expect a violation: a counterexample is TLC's to show.

## Not modelled

* Engine: parsing and validation of the configuration, prompts, schemas, the
  command line and its output, events; git's object store, path and mode checks of
  an agent's files; a plan that changes under a state file (`reconcile_plan` is
  modelled for an unchanged plan).  A Ctrl-C between the last save of a run and its
  return is left out, see the hazards.
* Child processes: the session files and prompts of an agent; start times that
  agree to the second; the output that is captured.
* Product: the classifiers of text (word lists, patterns) are a choice among classes;
  `_require_validated_gateway_hypothesis`, the check of a proposal's hypothesis
  against stored evidence, belongs to the seam between `AiGateway` and `Workbench`
  that no module composes yet; the reviewed inputs of a decision; tampered digests
  and rows (the append-only record classes); rendering, sort orders of queues, the
  learner and plan pages, briefs and audit payloads; the scripted evaluation, a
  straight-line program over the services modelled here.

Observed while reading, listed as hazards, and covered by no property:

* a child that was started but whose pid is not yet recorded outlives a kill of the
  engine (`agent.py:173`, `agent.py:183`);
* Ctrl-C between the last save of a run and its return pauses a task that is no
  longer active (`engine.py:980`);
* the evidence a decision stores is read again when it is posted, not when it was
  shown (`web/views.py:118`);
* the learner page does not look for a safety exit (`web/views.py:168`);
* an amendment that gives a demand another slot is computed again by the next
  decision that replans, which may choose the first slot again (`workbench.py:371`).

## Plan

In this order:

1. Compose `AiGateway` with `Workbench` at `propose`: the hypothesis check, with
   exits and corrections between interpretation, proposal and decision.
2. The late Ctrl-C in `LoopEngine`, with a property about paused tasks.
3. The amended slot that a later replanning moves, as an action property of
   `Workbench`.
