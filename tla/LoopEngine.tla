----------------------------- MODULE LoopEngine -----------------------------
(***************************************************************************)
(* The local engineering loop of src/loop_engine: the commands once,       *)
(* approve, reject, retry and pause (engine.py) over the durable state     *)
(* file (state.py) and the git refs and worktrees (git_ops.py).            *)
(*                                                                         *)
(* The single-orchestrator lock (state.py:32-50) lets one command run at a *)
(* time, so one record, proc, holds the position of the command that owns  *)
(* it and what it keeps in memory.  Every action ends at the write that    *)
(* makes its effect durable (StateStore.save, which replaces the file      *)
(* atomically, or one git command), so the command may be killed between   *)
(* any two actions: Crash drops proc and nothing else.                     *)
(*                                                                         *)
(* A commit is the path of entries from the pinned base to it: its parent  *)
(* is the path without the last entry, and ancestry is the prefix order.   *)
(***************************************************************************)
EXTENDS SequencesExt

CONSTANTS Tasks,            \* the ids of PLAN.yaml
          Gates,            \* those with mode "human"
          Deps,             \* depends_on, as a function
          Rank,             \* position in the order (priority, id)
          Trees, RootTree,  \* git tree digests, and that of the pinned base
          MaxRepairCycles,  \* WORKFLOW.md loop.max_repair_cycles
          RepairCap,        \* bound of the model: repair_cycles stops counting here
          HistoryCap,       \* bound of the model: from here on commits and edits from outside stop
          Disturbances,     \* bound of the model: what happens from outside in a run
          None              \* Python's None, or an absent key

ASSUME GatesAssumption == Gates \subseteq Tasks
ASSUME DepsAssumption == Deps \in [Tasks -> SUBSET Tasks]
ASSUME RankAssumption == Rank \in [Tasks -> Nat] /\ IsInjective(Rank)
ASSUME TreesAssumption == RootTree \in Trees
ASSUME RepairAssumption == MaxRepairCycles \in Nat \ {0} /\ RepairCap \in Nat
ASSUME HistoryAssumption == HistoryCap \in Nat
ASSUME DisturbancesAssumption ==
  Disturbances \subseteq {"crash", "interrupt", "write", "edit_gate", "agent_commit", "policy", "late_policy"}

VARIABLES
  rt,        \* state.json "tasks": the runtime record of each task
  active,    \* state.json "active_run": its task_id
  main,      \* refs/heads/<integration branch>
  branch,    \* refs/heads/<task branch>, None before ensure_task_worktree
  tree,      \* what each task worktree holds
  itree,     \* what the integration worktree (index and files) holds
  drift,     \* whether the policy files differ from those the integration branch pins,
             \* and if so whether they already did when the last command began
  edited,    \* the metadata of each task that carries the digest of the edited policy files
  proc,      \* the command that holds the lock
  reviewed,  \* history: for each task, the last commit whose parent and exact tree
             \* were verified and then accepted by a reviewer or an approver
  turns      \* history: repair turns since the task was last (re)authorised

store == <<rt, active>>
git == <<main, branch, tree, itree>>
vars == <<rt, active, main, branch, tree, itree, drift, edited, proc, reviewed, turns>>

Agents == Tasks \ Gates
Entry == [task : Tasks, tree : Trees]
Commits == Seq(Entry)
Intents == [base : Commits, tree : Trees]

Statuses == {"pending", "running", "paused", "waiting_human", "accepted",
             "blocked", "failed"}
RunStages == {"guiding", "implementing", "repairing", "targeted_repair",
              "verifying", "reviewing", "checkpointing", "checkpointed"}
Stages == RunStages \cup {"pending", "paused", "waiting_human", "needs_human",
                          "gate_rejected", "acceptance_stale", "accepted", "failed"}

Runtime == [status    : Statuses,
            stage     : Stages,
            resume    : RunStages \cup {None},        \* resume_stage
            tried     : BOOLEAN,                      \* attempts > 0
            repairs   : 0..RepairCap,                 \* repair_cycles
            base      : Commits \cup {None},          \* base_commit
            ckpt      : Commits \cup {None},          \* checkpoint, as its engine_commit
            intent    : Intents \cup {None},          \* checkpoint_intent
            targeted  : {"none", "current", "old"},   \* targeted_repair: of this run, of an older one
            request   : Commits \cup {None},          \* gate_request, as its expected_base
            approving : Intents \cup {None}]          \* approval_intent

\* What the engine stores with the policy digest of that moment: the run, its
\* checkpoint, its checkpoint_intent, the gate_request and the approval_intent.
Recorded == {"run", "checkpoint", "intent", "request", "approval"}

\* Where the command that holds the lock is, the task it works on, the tree
\* digest it holds in memory, whether it is inside run_once's try block, where
\* an exception is recorded as a failure of the task, and the commit it holds:
\* the one it made, the target of an integration, then the head before it.
Pcs == {"idle", "ready", "issuing", "opened", "prepared", "guide", "implement", "repair", "verify", "review",
        "raising", "commit", "committed", "integrate", "advance", "settle",
        "gatecommit", "gatecommitted"}
Processes == [pc : Pcs, task : Tasks \cup {None}, tree : Trees \cup {None},
              caught : BOOLEAN, commit : Commits \cup {None}]
Idle == [pc |-> "idle", task |-> None, tree |-> None, caught |-> FALSE, commit |-> None]
At(pc, t) == proc.pc = pc /\ proc.task = t
Enter(pc, t, w, c) == proc' = [pc |-> pc, task |-> t, tree |-> w, caught |-> c,
                                    commit |-> None]
Advance(pc) == proc' = [proc EXCEPT !.pc = pc]
Hold(pc, c) == proc' = [proc EXCEPT !.pc = pc, !.commit = c]

TreeOf(c) == IF c = <<>> THEN RootTree ELSE Last(c).tree

\* commit_parent(c) = base and commit_tree(c) = w: the entry's author is not looked at.
IsCommitOn(c, base, w) == c # <<>> /\ Front(c) = base /\ Last(c).tree = w

ASSUME NoneAssumption == None \notin Tasks \cup Trees \cup Commits \cup Intents \cup RunStages

\* The digests of the policy files: those of one item and of now are compared;
\* an item is recorded with that of now, or takes over that of another item.
Drifted == drift # "none"
SameDigest(t, item) == item \in edited[t] <=> Drifted
Noted(items, item) == IF Drifted THEN items \cup {item} ELSE items \ {item}
Handed(items, from, to) == (items \ {from, to}) \cup (IF from \in items THEN {to} ELSE {})

AutonomousLimit == IF MaxRepairCycles < 1 THEN MaxRepairCycles ELSE 1
OneMoreRepair(r) == IF r < RepairCap THEN r + 1 ELSE r

-----------------------------------------------------------------------------
(* Initial state: a fresh plan, the integration branch at the pinned base. *)

FreshRuntime == [status |-> "pending", stage |-> "pending", resume |-> None,
                 tried |-> FALSE, repairs |-> 0, base |-> None, ckpt |-> None,
                 intent |-> None, targeted |-> "none", request |-> None,
                 approving |-> None]

Init == /\ rt = [t \in Tasks |-> FreshRuntime]
        /\ active = None
        /\ main = <<>>
        /\ branch = [t \in Tasks |-> None]
        /\ tree = [t \in Tasks |-> RootTree]
        /\ itree = RootTree
        /\ drift = "none"
        /\ edited = [t \in Tasks |-> {}]
        /\ proc = Idle
        /\ reviewed = [t \in Tasks |-> None]
        /\ turns = [t \in Tasks |-> 0]

-----------------------------------------------------------------------------
(* Every command but pause starts by reconciling acceptance with git. *)

\* An interrupted approval is completed from its intent when the integration
\* head has the intent's parent and tree.
Claimed(t) == /\ rt[t].ckpt = None /\ rt[t].approving # None /\ SameDigest(t, "approval")
              /\ IsCommitOn(main, rt[t].approving.base, rt[t].approving.tree)
CheckpointOf(t) == IF Claimed(t) THEN main ELSE rt[t].ckpt

\* A checkpoint is only worth something under the policy files it was recorded with.
PolicyHolds(t) == Claimed(t) \/ SameDigest(t, "checkpoint")

\* Fault: a checkpoint counts before the integration branch has it.
CheckpointValidUnmerged(t) == PolicyHolds(t) /\ CheckpointOf(t) # None

CheckpointValid(t) == /\ PolicyHolds(t) /\ CheckpointOf(t) # None
                      /\ IsPrefix(CheckpointOf(t), main)

ReconciledTask(t) ==
  LET r == [rt[t] EXCEPT !.ckpt = CheckpointOf(t),
                         !.approving = IF Claimed(t) THEN None ELSE @]
  IN IF CheckpointValid(t)
     THEN [r EXCEPT !.status = "accepted", !.stage = "accepted"]
     ELSE IF r.status = "accepted"
          THEN [r EXCEPT !.status = "blocked", !.stage = "acceptance_stale"]
          ELSE r

NewlyAccepted(t) == CheckpointValid(t) /\ rt[t].status # "accepted"

ReconcileAccepted ==
  /\ proc.pc = "idle"
  /\ rt' = [t \in Tasks |-> ReconciledTask(t)]
  /\ active' = IF active # None /\ NewlyAccepted(active) THEN None ELSE active
  /\ drift' = IF Drifted THEN "throughout" ELSE "none"
  /\ edited' = [t \in Tasks |-> IF Claimed(t) THEN Noted(edited[t] \ {"approval"}, "checkpoint")
                                ELSE edited[t]]
  /\ Enter("ready", None, None, FALSE)
  /\ UNCHANGED <<git, reviewed, turns>>

-----------------------------------------------------------------------------
(* once [TASK_ID]: selection, preflight, worktree, and how the run starts. *)

DepsAccepted(t) == \A d \in Deps[t] : rt[d].status = "accepted"

Engaged(t) == rt[t].status \in {"running", "paused"}

\* Fault: dependencies are not looked at when the task is named on the command line.
SelectableAnyOrder(t) ==
  IF active # None /\ Engaged(active)
  THEN t = active
  ELSE rt[t].status \notin {"accepted", "blocked", "failed"}

\* _select_task: an engaged active run goes first; otherwise the requested task.
Selectable(t) ==
  IF active # None /\ Engaged(active)
  THEN t = active
  ELSE /\ rt[t].status \notin {"accepted", "blocked", "failed"}
       /\ DepsAccepted(t)

\* What once selects when it is not given a task.
Candidates == {t \in Tasks : rt[t].status \in {"pending", "waiting_human"} /\ DepsAccepted(t)}
NextInOrder(t) ==
  IF active # None /\ Engaged(active)
  THEN t = active
  ELSE t \in Candidates /\ \A u \in Candidates : Rank[t] <= Rank[u]

\* once on a gate: the policy preflight first; a gate that waits already is left as it is.
PrepareGate(g) ==
  /\ proc.pc = "ready" /\ g \in Gates /\ Selectable(g) /\ ~Drifted
  /\ rt[g].status # "waiting_human"
  /\ Enter("issuing", g, None, FALSE)
  /\ UNCHANGED <<store, git, drift, edited, reviewed, turns>>

\* The request is bound to the integration head and to the policy files.
WaitForHumanGate(g) ==
  /\ At("issuing", g)
  /\ rt' = [rt EXCEPT ![g].status = "waiting_human", ![g].stage = "waiting_human",
                      ![g].request = main]
  /\ edited' = [edited EXCEPT ![g] = Noted(@, "request")]
  /\ proc' = Idle
  /\ UNCHANGED <<active, git, drift, reviewed, turns>>

\* Fault: the policy preflight is skipped.
PrepareTaskUnchecked(t) ==
  /\ proc.pc = "ready" /\ t \in Agents /\ Selectable(t)
  /\ branch' = [branch EXCEPT ![t] = IF @ = None THEN main ELSE @]
  /\ tree' = [tree EXCEPT ![t] = IF branch[t] = None THEN TreeOf(main) ELSE @]
  /\ Enter("prepared", t, None, FALSE)
  /\ UNCHANGED <<store, main, itree, drift, edited, reviewed, turns>>

\* ensure_task_worktree: an existing branch and worktree are reused as they are.
PrepareTask(t) ==
  /\ proc.pc = "ready" /\ t \in Agents /\ Selectable(t) /\ ~Drifted
  /\ branch' = [branch EXCEPT ![t] = IF @ = None THEN main ELSE @]
  /\ tree' = [tree EXCEPT ![t] = IF branch[t] = None THEN TreeOf(main) ELSE @]
  /\ Enter("prepared", t, None, FALSE)
  /\ UNCHANGED <<store, main, itree, drift, edited, reviewed, turns>>

\* Fault: only a saved checkpoint is recovered, not the intent before it.
RecoverableFromCheckpoint(t) ==
  /\ branch[t] # main /\ rt[t].ckpt # None /\ rt[t].ckpt = branch[t]
  /\ SameDigest(t, "checkpoint") /\ Front(branch[t]) = main

\* _recoverable_checkpoint: a moved branch is the engine's own when the
\* checkpoint names it, or the intent has its parent and tree.
Recoverable(t) ==
  /\ branch[t] # main
  /\ \/ rt[t].ckpt # None /\ rt[t].ckpt = branch[t] /\ SameDigest(t, "checkpoint")
     \/ /\ rt[t].intent # None /\ SameDigest(t, "intent")
        /\ IsCommitOn(branch[t], rt[t].intent.base, rt[t].intent.tree)
  /\ Front(branch[t]) = main

RecoverCheckpoint(t) ==
  /\ At("prepared", t) /\ Recoverable(t)
  /\ rt' = [rt EXCEPT ![t].ckpt = branch[t], ![t].intent = None,
                      ![t].stage = "checkpointed"]
  /\ edited' = [edited EXCEPT ![t] = Noted(@ \ {"intent"}, "checkpoint")]
  /\ Advance("integrate")
  /\ UNCHANGED <<active, git, drift, reviewed, turns>>

Resuming(t) == active = t /\ Engaged(t)
CanResume(t) == branch[t] = main /\ Resuming(t) /\ rt[t].base = main
CanStart(t) == /\ branch[t] = main /\ ~Resuming(t)
               /\ rt[t].tried \/ tree[t] = TreeOf(main)

ResumeStage(t) ==
  IF rt[t].status = "paused" /\ rt[t].resume # None THEN rt[t].resume ELSE rt[t].stage

ResumeRun(t) ==
  /\ At("prepared", t) /\ CanResume(t)
  /\ rt' = [rt EXCEPT ![t].status = "running", ![t].stage = ResumeStage(t),
                      ![t].resume = None]
  /\ Enter("guide", t, None, TRUE)
  /\ UNCHANGED <<active, git, drift, edited, reviewed, turns>>

\* A fresh run forgets the checkpoint and the intent of the last one, but not
\* its targeted repair, which keeps the older run id.
Restarted(r, base) ==
  [r EXCEPT !.status = "running", !.stage = "guiding", !.resume = None, !.tried = TRUE,
            !.repairs = 0, !.base = base, !.ckpt = None, !.intent = None,
            !.targeted = IF @ = "none" THEN "none" ELSE "old"]

StartRun(t) ==
  /\ At("prepared", t) /\ CanStart(t)
  /\ rt' = [rt EXCEPT ![t] = Restarted(@, main)]
  /\ active' = t
  /\ turns' = [turns EXCEPT ![t] = 0]
  /\ edited' = [edited EXCEPT ![t] = Noted(@ \ {"checkpoint", "intent"}, "run")]
  /\ Enter("guide", t, None, TRUE)
  /\ UNCHANGED <<git, drift, reviewed>>

-----------------------------------------------------------------------------
(* The run itself: _execute_task. *)

Running(pc, t) == At(pc, t) /\ proc.caught

SaveStage(t, s) == rt' = [rt EXCEPT ![t].stage = s]

\* An interrupted mutating stage is never run again: E_AMBIGUOUS_MUTATION.
AmbiguousStages == {"implementing", "repairing"}
ReverifyStages == {"verifying", "reviewing", "checkpointing"}

\* Fault: an interrupted mutating turn is taken up again.
BeginImplementAgain(t) ==
  /\ Running("guide", t) /\ rt[t].stage \notin ReverifyStages \cup {"targeted_repair"}
  /\ SaveStage(t, "implementing")
  /\ Advance("implement")
  /\ UNCHANGED <<active, git, drift, edited, reviewed, turns>>

\* The guide's answer; a resumed run reads guide.json and goes on where it was.
BeginImplement(t) ==
  /\ Running("guide", t)
  /\ rt[t].stage \notin AmbiguousStages \cup ReverifyStages \cup {"targeted_repair"}
  /\ SaveStage(t, "implementing")
  /\ Advance("implement")
  /\ UNCHANGED <<active, git, drift, edited, reviewed, turns>>

BeginTargetedRepair(t) ==
  /\ Running("guide", t) /\ rt[t].stage = "targeted_repair" /\ rt[t].targeted # "none"
  /\ rt' = [rt EXCEPT ![t].stage = "repairing", ![t].repairs = OneMoreRepair(@)]
  /\ turns' = [turns EXCEPT ![t] = OneMoreRepair(@)]
  /\ Advance("repair")
  /\ UNCHANGED <<active, git, drift, edited, reviewed>>

BeginReverify(t) ==
  /\ Running("guide", t) /\ rt[t].stage \in ReverifyStages
  /\ branch[t] = rt[t].base
  /\ SaveStage(t, "verifying")
  /\ Advance("verify")
  /\ UNCHANGED <<active, git, drift, edited, reviewed, turns>>

\* The implementer returned: the repository guard and _assert_agent_git_integrity
\* let the run go on only from an unmoved branch.
AgentReturns(t) ==
  /\ Running("implement", t) \/ Running("repair", t)
  /\ branch[t] = rt[t].base
  /\ SaveStage(t, "verifying")
  /\ Advance("verify")
  /\ UNCHANGED <<active, git, drift, edited, reviewed, turns>>

\* _verify_stable converged on the tree the worktree holds, and all checks pass.
VerifyPasses(t) ==
  /\ Running("verify", t) /\ branch[t] = rt[t].base
  /\ SaveStage(t, "reviewing")
  /\ Enter("review", t, tree[t], TRUE)
  /\ UNCHANGED <<active, git, drift, edited, reviewed, turns>>

\* Fault: the tree is not compared again after the review.
ReviewedUnchecked(t) == Running("review", t) /\ branch[t] = rt[t].base

\* A read-only review leaves the evidence tree as it was, or the run fails.
Reviewed(t) == Running("review", t) /\ branch[t] = rt[t].base /\ tree[t] = proc.tree

\* Fault: the acceptance is committed without recording the intent first.
ReviewAcceptsUnrecorded(t) ==
  /\ Reviewed(t)
  /\ SaveStage(t, "checkpointing")
  /\ reviewed' = [reviewed EXCEPT ![t] = Append(rt[t].base, [task |-> t, tree |-> tree[t]])]
  /\ Advance("commit")
  /\ UNCHANGED <<active, git, drift, edited, turns>>

ReviewAccepts(t) ==
  /\ Reviewed(t)
  /\ rt' = [rt EXCEPT ![t].stage = "checkpointing",
                      ![t].intent = [base |-> rt[t].base, tree |-> proc.tree]]
  /\ reviewed' = [reviewed EXCEPT ![t] = Append(rt[t].base, [task |-> t, tree |-> tree[t]])]
  /\ edited' = [edited EXCEPT ![t] = Noted(@, "intent")]
  /\ Advance("commit")
  /\ UNCHANGED <<active, git, drift, turns>>

\* _block_for_human, after the guide or after the review.
NeedsHuman(t) ==
  /\ \/ Running("guide", t) /\ rt[t].stage = "guiding"
     \/ Reviewed(t)
  /\ rt' = [rt EXCEPT ![t].status = "blocked", ![t].stage = "needs_human"]
  /\ active' = None
  /\ proc' = Idle
  /\ UNCHANGED <<git, drift, edited, reviewed, turns>>

\* Verification failed on a stable tree, or the review found a valid blocker.
CallsForRepair(t) == Reviewed(t) \/ (Running("verify", t) /\ branch[t] = rt[t].base)

\* Fault: one repair more than the budget.
BeginRepairOnceMore(t) ==
  /\ CallsForRepair(t) /\ rt[t].repairs <= AutonomousLimit
  /\ rt' = [rt EXCEPT ![t].stage = "repairing", ![t].repairs = OneMoreRepair(@)]
  /\ turns' = [turns EXCEPT ![t] = OneMoreRepair(@)]
  /\ Enter("repair", t, None, TRUE)
  /\ UNCHANGED <<active, git, drift, edited, reviewed>>

BeginRepair(t) ==
  /\ CallsForRepair(t) /\ rt[t].repairs < AutonomousLimit
  /\ rt' = [rt EXCEPT ![t].stage = "repairing", ![t].repairs = OneMoreRepair(@)]
  /\ turns' = [turns EXCEPT ![t] = OneMoreRepair(@)]
  /\ Enter("repair", t, None, TRUE)
  /\ UNCHANGED <<active, git, drift, edited, reviewed>>

\* The evidence for a targeted retry is saved first, then E_REPAIR_EXHAUSTED.
ExhaustRepairs(t) ==
  /\ CallsForRepair(t) /\ rt[t].repairs >= AutonomousLimit
  /\ rt' = [rt EXCEPT ![t].targeted = "current"]
  /\ Enter("raising", t, None, TRUE)
  /\ UNCHANGED <<active, git, drift, edited, reviewed, turns>>

\* Fault: what the worktree holds is committed, whatever was reviewed.
CommitWorktree(t) ==
  /\ Running("commit", t)
  /\ branch[t] = rt[t].base
  /\ LET c == Append(rt[t].base, [task |-> t, tree |-> tree[t]])
     IN /\ branch' = [branch EXCEPT ![t] = c]
        /\ proc' = [proc EXCEPT !.pc = "committed", !.tree = tree[t], !.commit = c]
  /\ UNCHANGED <<store, main, tree, itree, drift, edited, reviewed, turns>>

\* commit_task: the reviewed tree is committed if the index and the files still
\* are that tree, and the branch is moved from the expected parent.
CommitTask(t) ==
  /\ Running("commit", t)
  /\ branch[t] = rt[t].base /\ tree[t] = proc.tree
  /\ LET c == Append(rt[t].base, [task |-> t, tree |-> proc.tree])
     IN branch' = [branch EXCEPT ![t] = c] /\ Hold("committed", c)
  /\ UNCHANGED <<store, main, tree, itree, drift, edited, reviewed, turns>>

\* commit_task ends by checking that its commit is the head of a clean worktree;
\* nothing compares the head with it later.
SaveCheckpoint(t) ==
  /\ Running("committed", t) /\ branch[t] = proc.commit /\ tree[t] = proc.tree
  /\ rt' = [rt EXCEPT ![t].stage = "checkpointed", ![t].ckpt = proc.commit,
                      ![t].intent = None, ![t].targeted = "none"]
  /\ edited' = [edited EXCEPT ![t] = Handed(@, "intent", "checkpoint")]
  /\ Hold("integrate", None)
  /\ UNCHANGED <<active, git, drift, reviewed, turns>>

-----------------------------------------------------------------------------
(* integrate_fast_forward, by a run or by the recovery of one. *)

\* The target is whatever the task branch names by now.  A worktree already
\* prepared with its tree by a run that was killed here is taken as it is; any
\* other change in it stops the integration.
ReadTree(t) ==
  /\ At("integrate", t)
  /\ IsPrefix(main, branch[t])
  /\ itree \in {TreeOf(main), TreeOf(branch[t])}
  /\ itree' = TreeOf(branch[t])
  /\ Hold("advance", branch[t])
  /\ UNCHANGED <<store, main, branch, tree, drift, edited, reviewed, turns>>

AdvanceRef(t) ==
  /\ At("advance", t)
  /\ main' = proc.commit
  /\ Hold("settle", main)
  /\ UNCHANGED <<store, branch, tree, itree, drift, edited, reviewed, turns>>

\* _accept_task, after the integration worktree was found to match.
AcceptTask(t) ==
  /\ At("settle", t) /\ itree = TreeOf(main)
  /\ rt' = [rt EXCEPT ![t].status = "accepted", ![t].stage = "accepted",
                      ![t].resume = None]
  /\ active' = None
  /\ proc' = Idle
  /\ UNCHANGED <<git, drift, edited, reviewed, turns>>

\* Someone wrote in the integration worktree after the ref moved: ref and
\* worktree are put back.
RollBack(t) ==
  /\ At("settle", t) /\ itree # TreeOf(main)
  /\ main' = proc.commit
  /\ itree' = TreeOf(proc.commit)
  /\ Hold("raising", None)
  /\ UNCHANGED <<store, branch, tree, drift, edited, reviewed, turns>>

-----------------------------------------------------------------------------
(* How a run ends early. *)

\* Any exception inside the try block: a failed or timed-out agent, an unstable
\* or out-of-scope tree, a rejecting review, a refused git step.
RunFails(t) ==
  /\ proc.caught /\ proc.task = t
  /\ rt' = [rt EXCEPT ![t].status = "failed",
                      ![t].stage = IF rt[t].ckpt # None THEN "checkpointed" ELSE "failed"]
  /\ active' = None
  /\ proc' = Idle
  /\ UNCHANGED <<git, drift, edited, reviewed, turns>>

\* Fault: the stage is overwritten before it is kept for the resume.
PausedRuntimeLate(r) == [r EXCEPT !.status = "paused", !.stage = "paused", !.resume = "paused"]

PausedRuntime(r) == [r EXCEPT !.status = "paused", !.stage = "paused", !.resume = r.stage]

\* Fault: an interruption gives up the active run.
InterruptForgets(t) ==
  /\ "interrupt" \in Disturbances
  /\ proc.caught /\ proc.task = t
  /\ rt' = [rt EXCEPT ![t] = PausedRuntime(@)]
  /\ active' = None
  /\ proc' = Idle
  /\ UNCHANGED <<git, drift, edited, reviewed, turns>>

\* Ctrl-C; when the interrupted child moved the branch the guard fails the run instead.
Interrupt(t) ==
  /\ "interrupt" \in Disturbances
  /\ proc.caught /\ proc.task = t
  /\ proc.pc \in {"implement", "repair", "verify", "review"} => branch[t] = rt[t].base
  /\ rt' = [rt EXCEPT ![t] = PausedRuntime(@)]
  /\ proc' = Idle
  /\ UNCHANGED <<active, git, drift, edited, reviewed, turns>>

\* The process is killed inside a run.
Crash ==
  /\ "crash" \in Disturbances
  /\ proc.caught
  /\ proc' = Idle
  /\ UNCHANGED <<store, git, drift, edited, reviewed, turns>>

\* Outside the try block a command that is refused, raises, has nothing to do
\* or is killed ends the same way: nothing more is written.
EndCommand ==
  /\ proc.pc # "idle" /\ ~proc.caught
  /\ proc' = Idle
  /\ UNCHANGED <<store, git, drift, edited, reviewed, turns>>

-----------------------------------------------------------------------------
(* approve, reject, retry, pause *)

\* The decision answers the request that was issued, on the head and the policy
\* files it was issued for.
GateOpen(g) == /\ proc.pc = "ready" /\ g \in Gates
               /\ rt[g].status = "waiting_human"
               /\ rt[g].request = main /\ SameDigest(g, "request")

\* approve checks the request, its dependencies and the policy preflight.
OpenGate(g) ==
  /\ GateOpen(g) /\ DepsAccepted(g) /\ ~Drifted
  /\ Enter("opened", g, None, FALSE)
  /\ UNCHANGED <<store, git, drift, edited, reviewed, turns>>

\* The gate's checks pass on the integration worktree; the intent is saved first.
Approve(g) ==
  /\ At("opened", g)
  /\ rt' = [rt EXCEPT ![g].approving = [base |-> main, tree |-> itree],
                      ![g].stage = "checkpointing"]
  /\ reviewed' = [reviewed EXCEPT ![g] = Append(main, [task |-> g, tree |-> itree])]
  /\ edited' = [edited EXCEPT ![g] = Noted(@, "approval")]
  /\ Enter("gatecommit", g, itree, FALSE)
  /\ UNCHANGED <<active, git, drift, turns>>

\* Fault: the gate commits what the integration worktree holds by then.
CommitGateWorktree(g) ==
  /\ At("gatecommit", g)
  /\ main' = Append(main, [task |-> g, tree |-> itree])
  /\ proc' = [proc EXCEPT !.pc = "gatecommitted", !.tree = itree]
  /\ UNCHANGED <<store, branch, tree, itree, drift, edited, reviewed, turns>>

CommitHumanGate(g) ==
  /\ At("gatecommit", g) /\ itree = proc.tree
  /\ main' = Append(main, [task |-> g, tree |-> proc.tree])
  /\ Advance("gatecommitted")
  /\ UNCHANGED <<store, branch, tree, itree, drift, edited, reviewed, turns>>

AcceptGate(g) ==
  /\ At("gatecommitted", g) /\ itree = proc.tree
  /\ rt' = [rt EXCEPT ![g].status = "accepted", ![g].stage = "accepted",
                      ![g].ckpt = main, ![g].approving = None, ![g].resume = None]
  /\ edited' = [edited EXCEPT ![g] = Handed(@, "approval", "checkpoint")]
  /\ active' = None
  /\ proc' = Idle
  /\ UNCHANGED <<git, drift, reviewed, turns>>

\* Fault: a rejection is not bound to the request it answers.
RejectUnbound(g) ==
  /\ proc.pc = "ready" /\ g \in Gates /\ rt[g].status = "waiting_human"
  /\ rt' = [rt EXCEPT ![g].status = "blocked", ![g].stage = "gate_rejected"]
  /\ active' = None
  /\ proc' = Idle
  /\ UNCHANGED <<git, drift, edited, reviewed, turns>>

Reject(g) ==
  /\ GateOpen(g)
  /\ rt' = [rt EXCEPT ![g].status = "blocked", ![g].stage = "gate_rejected"]
  /\ active' = None
  /\ proc' = Idle
  /\ UNCHANGED <<git, drift, edited, reviewed, turns>>

Retriable(t) == proc.pc = "ready" /\ rt[t].status \in {"blocked", "failed"}

Requeue(t) ==
  /\ Retriable(t) /\ rt[t].targeted = "none"
  /\ rt' = [rt EXCEPT ![t].status = "pending", ![t].resume = None,
                      ![t].stage = IF rt[t].ckpt # None THEN "checkpointed" ELSE "pending"]
  /\ active' = IF active = t THEN None ELSE active
  /\ turns' = [turns EXCEPT ![t] = 0]
  /\ proc' = Idle
  /\ UNCHANGED <<git, drift, edited, reviewed>>

\* E_TARGETED_RETRY_STALE otherwise: run, base and policy must be those of the
\* exhausted run.
TargetedCurrent(t) == rt[t].targeted = "current" /\ rt[t].base = main
                      /\ SameDigest(t, "run")

RetryTargeted(t) ==
  /\ Retriable(t) /\ TargetedCurrent(t)
  /\ rt' = [rt EXCEPT ![t].status = "paused", ![t].stage = "paused",
                      ![t].resume = "targeted_repair"]
  /\ active' = t
  /\ turns' = [turns EXCEPT ![t] = 0]
  /\ proc' = Idle
  /\ UNCHANGED <<git, drift, edited, reviewed>>

\* pause takes the lock but does not reconcile acceptance.
Pause(t) ==
  /\ proc.pc = "idle" /\ rt[t].status = "running" /\ active = t
  /\ rt' = [rt EXCEPT ![t] = PausedRuntime(@)]
  /\ UNCHANGED <<active, git, drift, edited, proc, reviewed, turns>>

-----------------------------------------------------------------------------
(* What the engine does not control. *)

\* Agents and verifiers write in the task worktree, and so may an operator or a
\* child that outlived its command, at any time.  The worktree of an accepted
\* task is not read again.
WriteTree(t) ==
  /\ "write" \in Disturbances \/ Running("implement", t) \/ Running("repair", t)
  /\ branch[t] # None /\ rt[t].status # "accepted"
  /\ \E w \in Trees \ {tree[t]} : tree' = [tree EXCEPT ![t] = w]
  /\ UNCHANGED <<store, main, branch, itree, drift, edited, proc, reviewed, turns>>

\* Gate reviewers edit the integration worktree (docs/loop-engineering.md:135).
WriteIntegrationTree ==
  /\ "edit_gate" \in Disturbances
  /\ \E w \in Trees \ {itree} : itree' = w
  /\ UNCHANGED <<store, main, branch, tree, drift, edited, proc, reviewed, turns>>

\* An agent, a verification command or a child that outlived its command commits
\* on the task branch by itself, at any time; it adds commits and rewrites none.
\* The branch of an accepted task is not read again.
AgentCommits(t) ==
  /\ "agent_commit" \in Disturbances
  /\ branch[t] # None /\ rt[t].status # "accepted" /\ Len(branch[t]) < HistoryCap
  /\ branch' = [branch EXCEPT ![t] = Append(@, [task |-> t, tree |-> tree[t]])]
  /\ UNCHANGED <<store, main, tree, itree, drift, edited, proc, reviewed, turns>>

\* WORKFLOW.md, PLAN.yaml or a policy input is edited, or restored, the tasks
\* themselves staying as they are: between commands, or at any time.  An edit that
\* a turn's repository guard sees fails the run (RunFails); one that falls between
\* two guards, or after the last, is seen by nobody.
EditPolicy ==
  /\ \/ "late_policy" \in Disturbances
     \/ "policy" \in Disturbances /\ proc.pc = "idle"
  /\ Len(main) < HistoryCap
  /\ drift' = IF Drifted THEN "none" ELSE "recent"
  /\ UNCHANGED <<store, git, edited, proc, reviewed, turns>>

-----------------------------------------------------------------------------

Run(t) == \/ BeginImplement(t) \/ BeginTargetedRepair(t) \/ BeginReverify(t)
          \/ AgentReturns(t) \/ VerifyPasses(t) \/ ReviewAccepts(t) \/ NeedsHuman(t)
          \/ BeginRepair(t) \/ ExhaustRepairs(t) \/ CommitTask(t) \/ SaveCheckpoint(t)

Integrate(t) == ReadTree(t) \/ AdvanceRef(t) \/ AcceptTask(t) \/ RollBack(t)

Once(t) == \/ PrepareGate(t) \/ WaitForHumanGate(t) \/ PrepareTask(t)
           \/ RecoverCheckpoint(t) \/ ResumeRun(t) \/ StartRun(t)

Operator(t) == \/ OpenGate(t) \/ Approve(t) \/ CommitHumanGate(t) \/ AcceptGate(t) \/ Reject(t)
               \/ Requeue(t) \/ RetryTargeted(t) \/ Pause(t) \/ Interrupt(t)

Outside(t) == WriteTree(t) \/ AgentCommits(t)

Next == \/ ReconcileAccepted \/ EndCommand \/ Crash \/ EditPolicy \/ WriteIntegrationTree
        \/ \E t \in Tasks : \/ Once(t) \/ Run(t) \/ Integrate(t) \/ RunFails(t)
                            \/ Operator(t) \/ Outside(t)

Spec == Init /\ [][Next]_vars

-----------------------------------------------------------------------------
(* The documented way to work (docs/loop-engineering.md, "Run" and          *)
(* "Recovery"): once until a gate or a failure, approve a waiting gate,    *)
(* retry a stopped task; agents and verifiers succeed, nothing is killed.  *)

InspectAndFail(t) ==
  /\ proc.pc = "raising" \/ (At("guide", t) /\ rt[t].stage \in AmbiguousStages)
  /\ RunFails(t)

Calm(t) == \/ NextInOrder(t) /\ (PrepareGate(t) \/ PrepareTask(t))
           \/ WaitForHumanGate(t) \/ RecoverCheckpoint(t) \/ ResumeRun(t) \/ StartRun(t)
           \/ BeginImplement(t) \/ BeginTargetedRepair(t) \/ BeginReverify(t)
           \/ AgentReturns(t) \/ VerifyPasses(t) \/ ReviewAccepts(t)
           \/ CommitTask(t) \/ SaveCheckpoint(t) \/ Integrate(t) \/ InspectAndFail(t)
           \/ OpenGate(t) \/ Approve(t) \/ CommitHumanGate(t) \/ AcceptGate(t)
           \/ Requeue(t) \/ RetryTargeted(t)

CalmNext == \/ ReconcileAccepted
            \/ proc.pc = "raising" /\ EndCommand
            \/ \E t \in Tasks : Calm(t)

\* From some point on only the documented procedure is followed, and followed on.
CalmSpec == Spec /\ <>[][CalmNext]_vars /\ WF_vars(CalmNext)

-----------------------------------------------------------------------------

\* The state file, the refs and the command have the shapes the code gives them.
TypeOK == /\ rt \in [Tasks -> Runtime]
          /\ active \in Tasks \cup {None}
          /\ main \in Commits
          /\ branch \in [Tasks -> Commits \cup {None}]
          /\ tree \in [Tasks -> Trees]
          /\ itree \in Trees
          /\ drift \in {"none", "recent", "throughout"}
          /\ edited \in [Tasks -> SUBSET Recorded]
          /\ proc \in Processes
          /\ reviewed \in [Tasks -> Commits \cup {None}]
          /\ turns \in [Tasks -> 0..RepairCap]

\* The history of the integration branch.  A ref that has moved but whose worktree
\* is not confirmed yet is not a delivery: it may be put back.
LedgerView == IF proc.pc = "settle" THEN proc.commit ELSE main

\* The history is never rewritten, and what it gains starts with the very commit,
\* parent and exact tree, whose review or approval ended last for its task.  Commits
\* that something else put on the task branch before the integration read it
\* (git_ops.py:224) follow it in unreviewed.
DeliversReviewed ==
  [][LedgerView' # LedgerView =>
       \E t \in Tasks : /\ reviewed[t] # None /\ reviewed[t] # <<>>
                        /\ Front(reviewed[t]) = LedgerView
                        /\ IsPrefix(reviewed[t], LedgerView')]_vars

\* With the plan's dependencies respected, that is a delivery ledger.
Ledger == INSTANCE DeliveryLedger WITH ledger <- LedgerView
LedgerSpec == Ledger!Spec

\* An accepted task has a checkpoint in the history of the integration branch,
\* and the commit it names is the one whose parent and exact tree were reviewed
\* last: by the reviewer agent, or by the approver of a gate.
AcceptanceReviewed(t) ==
  rt[t].status = "accepted" => /\ rt[t].ckpt # None /\ IsPrefix(rt[t].ckpt, main)
                               /\ rt[t].ckpt = reviewed[t]
AcceptedAgentReviewed == \A t \in Agents : AcceptanceReviewed(t)
AcceptedGateReviewed == \A g \in Gates : AcceptanceReviewed(g)

\* Whatever was killed and resumed, a task gets one repair turn at most between
\* two decisions of the operator (first start, restart or retry).
RepairBudget == \A t \in Tasks : turns[t] <= 1

\* An interrupted run is the active run, the one that once resumes and pause and
\* status report: no command forgets it.
ActiveOwnsRun == \A t \in Tasks : Engaged(t) => active = t

\* A task whose mutating turn was interrupted is only ever left as failed: its
\* worktree is inspected and retried explicitly (E_AMBIGUOUS_MUTATION).
Ambiguous(t) == /\ Engaged(t) /\ ResumeStage(t) \in AmbiguousStages
                /\ ~At("implement", t) /\ ~At("repair", t)
AmbiguousStops ==
  [][\A t \in Tasks : Ambiguous(t) => Ambiguous(t)' \/ rt'[t].status = "failed"]_vars

\* A rejected gate is not accepted before it is retried and decided again.
RejectedStaysRejected ==
  [][\A g \in Gates : rt[g].stage = "gate_rejected" => rt'[g].status # "accepted"]_vars

\* A command whose policy files differed from the pinned ones ever since it took the
\* lock delivers nothing, and accepts only what was recorded under the same edited
\* files; between commands nothing is delivered either.  Only files that change while
\* a command runs can slip in with what it delivers.
DriftStopsDelivery ==
  [][drift = "throughout" \/ (Drifted /\ proc.pc = "idle") =>
       /\ main' = main
       /\ \A t \in Tasks : rt'[t].status = "accepted" =>
            rt[t].status = "accepted" \/ "checkpoint" \in edited'[t]]_vars

\* A reviewed commit on the task branch always finds the metadata that lets a
\* later command integrate it, wherever the command that made it was killed.
CommitIsRecoverable ==
  \A t \in Agents : branch[t] # None /\ branch[t] = reviewed[t] =>
    \/ rt[t].ckpt = branch[t]
    \/ rt[t].intent = [base |-> Front(branch[t]), tree |-> Last(branch[t]).tree]

\* From whatever state kills, interruptions, failures and refusals have left, the
\* documented procedure gets the whole plan accepted.
AllDelivered == <>(\A t \in Tasks : rt[t].status = "accepted")
=============================================================================
