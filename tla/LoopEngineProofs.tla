-------------------------- MODULE LoopEngineProofs --------------------------
(***************************************************************************)
(* What every step of the engineering loop keeps, for every plan, every    *)
(* set of trees and every disturbance: the types, the repair budget, the   *)
(* hold of policy drift, and that only reviewed commits are delivered and  *)
(* accepted and can be recovered.  TypeOK alone is not inductive: that a   *)
(* commit is appended to a branch that exists needs to know which commands *)
(* work on a prepared task (PlaceOK), and that a resumed run has a stage   *)
(* to resume at needs the shape of engaged records (StageOK).              *)
(***************************************************************************)
EXTENDS LoopEngine, SequenceTheorems, TLAPS

\* Where a command works on an agent task, and that task has its branch; and where
\* it holds a commit in memory.
OnAgentTask == {"prepared", "guide", "implement", "repair", "verify", "review",
                "raising", "commit", "committed", "integrate", "advance", "settle"}
Holding == {"committed", "advance", "settle"}
PlaceOK == /\ proc.pc \in OnAgentTask => /\ proc.task \in Agents
                                        /\ branch[proc.task] # None
           /\ proc.pc \in Holding => proc.commit \in Commits

\* A running task is at a stage of a run, a paused one has a stage to resume at,
\* and what a command does inside the try block belongs to a running task.
StageOK == /\ \A t \in Tasks : /\ rt[t].status = "running" => rt[t].stage \in RunStages
                               /\ rt[t].status = "paused" => rt[t].resume # None
           /\ proc.caught => /\ proc.pc \in OnAgentTask
                             /\ rt[proc.task].status = "running"

TypeInv == TypeOK /\ PlaceOK /\ StageOK

USE GatesAssumption, TreesAssumption, RepairAssumption

LEMMA FreshIsRuntime == FreshRuntime \in Runtime
  BY DEF FreshRuntime, Runtime, Statuses, Stages, RunStages

LEMMA TreeOfType == \A c \in Commits : TreeOf(c) \in Trees
<1>1. TAKE c \in Commits
<1>2. CASE c = <<>>
  BY <1>2 DEF TreeOf
<1>3. CASE c # <<>>
  <2>1. Len(c) \in 1..Len(c)
    BY <1>3, EmptySeq, LenProperties DEF Commits
  <2>2. c[Len(c)] \in Entry
    BY <2>1, ElementOfSeq DEF Commits
  <2> QED BY <1>3, <2>2 DEF TreeOf, Last, Entry
<1> QED BY <1>2, <1>3

LEMMA FrontType == \A c \in Commits : Front(c) \in Commits
  BY DEF Front, Commits

LEMMA AppendType == \A c \in Commits, t \in Tasks, w \in Trees :
                       Append(c, [task |-> t, tree |-> w]) \in Commits
  BY DEF Commits, Entry

LEMMA OneMoreType == \A r \in 0..RepairCap : OneMoreRepair(r) \in 0..RepairCap
  BY DEF OneMoreRepair

LEMMA NoneIsNot == /\ None \notin Tasks /\ None \notin Trees /\ None \notin Commits
                   /\ None \notin Intents /\ None \notin RunStages
  BY NoneAssumption

\* The statuses and stages the actions write.
LEMMA Labels == /\ "pending" \in Statuses /\ "running" \in Statuses /\ "paused" \in Statuses
                /\ "waiting_human" \in Statuses /\ "accepted" \in Statuses
                /\ "blocked" \in Statuses /\ "failed" \in Statuses
                /\ "waiting_human" \in Stages /\ "checkpointed" \in Stages
                /\ "implementing" \in Stages /\ "repairing" \in Stages
                /\ "verifying" \in Stages /\ "reviewing" \in Stages
                /\ "checkpointing" \in Stages /\ "needs_human" \in Stages
                /\ "accepted" \in Stages /\ "gate_rejected" \in Stages
                /\ "paused" \in Stages /\ "targeted_repair" \in RunStages
  BY DEF Statuses, Stages, RunStages

\* What the actions do to the digests of a task's metadata.
LEMMA DigestsType ==
  /\ \A x \in SUBSET Recorded, e \in Recorded : Noted(x, e) \in SUBSET Recorded
  /\ \A x \in SUBSET Recorded, d, e \in Recorded : Handed(x, d, e) \in SUBSET Recorded
  /\ "run" \in Recorded /\ "checkpoint" \in Recorded /\ "intent" \in Recorded
  /\ "request" \in Recorded /\ "approval" \in Recorded
  BY DEF Noted, Handed, Recorded

LEMMA InitType == Init => TypeInv
<1> SUFFICES ASSUME Init PROVE TypeInv
  OBVIOUS
<1>1. proc \in Processes
  BY DEF Init, Idle, Processes, Pcs
<1>2. rt \in [Tasks -> Runtime]
  BY FreshIsRuntime DEF Init
<1>3. turns \in [Tasks -> 0..RepairCap]
  BY DEF Init
<1>4. /\ main \in Commits /\ active \in Tasks \cup {None}
      /\ branch \in [Tasks -> Commits \cup {None}] /\ reviewed \in [Tasks -> Commits \cup {None}]
  BY DEF Init, Commits
<1>5. /\ tree \in [Tasks -> Trees] /\ itree \in Trees
      /\ drift \in {"none", "recent", "throughout"} /\ edited \in [Tasks -> SUBSET Recorded]
  BY DEF Init
<1>6. PlaceOK
  BY DEF Init, PlaceOK, OnAgentTask, Holding, Idle
<1>7. StageOK
  BY DEF Init, StageOK, Idle, FreshRuntime
<1> QED BY <1>1, <1>2, <1>3, <1>4, <1>5, <1>6, <1>7 DEF TypeInv, TypeOK

LEMMA RestartedType == ASSUME NEW r \in Runtime, NEW b \in Commits
                       PROVE  Restarted(r, b) \in Runtime
<1> DEFINE old == IF r.targeted = "none" THEN "none" ELSE "old"
           q == [r EXCEPT !.status = "running", !.stage = "guiding", !.resume = None,
                          !.tried = TRUE, !.base = b, !.ckpt = None,
                          !.intent = None, !.targeted = old]
<1>1. "running" \in Statuses /\ "guiding" \in Stages
  BY DEF Statuses, Stages, RunStages
<1>2. old \in {"none", "current", "old"}
  OBVIOUS
<1>3. Restarted(r, b) = [q EXCEPT !.repairs = 0]
  BY DEF Restarted, Runtime
<1> HIDE DEF old
<1>4. q \in Runtime
  BY <1>1, <1>2 DEF Runtime
<1> HIDE DEF q
<1>5. 0 \in 0..RepairCap
  OBVIOUS
<1>6. [q EXCEPT !.repairs = 0] \in Runtime
  BY <1>4, <1>5 DEF Runtime
<1> QED BY <1>3, <1>6

LEMMA OnceType == ASSUME TypeInv, NEW t \in Tasks, Once(t) PROVE TypeInv'
<1>1. CASE WaitForHumanGate(t)
  <2>a. main \in Commits
    BY DEF TypeInv, TypeOK
  <2>0. rt[t] \in Runtime
    BY DEF TypeInv, TypeOK
  <2> DEFINE r == [rt[t] EXCEPT !.status = "waiting_human", !.stage = "waiting_human", !.request = main]
  <2>1. r \in Runtime
    BY <2>0, <2>a, Labels DEF Runtime
  <2>2. rt' = [rt EXCEPT ![t] = r]
    BY <1>1 DEF WaitForHumanGate, TypeInv, TypeOK
  <2> HIDE DEF r
  <2>3. rt' \in [Tasks -> Runtime]
    BY <2>1, <2>2 DEF TypeInv, TypeOK
  <2>e. edited' \in [Tasks -> SUBSET Recorded]
    <3>1. edited \in [Tasks -> SUBSET Recorded]
      BY DEF TypeInv, TypeOK
    <3> QED BY <1>1, <3>1, DigestsType DEF WaitForHumanGate
  <2>4. TypeOK'
    BY <1>1, <2>e, <2>3 DEF TypeInv, TypeOK, WaitForHumanGate, git, Processes, Pcs, Idle
  <2>5. PlaceOK'
    BY <1>1 DEF TypeInv, TypeOK, PlaceOK, WaitForHumanGate, git, OnAgentTask, Holding, Agents, Processes, Idle
  <2>6. StageOK'
    BY <1>1 DEF TypeInv, TypeOK, PlaceOK, StageOK, WaitForHumanGate, git, store, Runtime, RunStages, OnAgentTask, Holding, Processes, Agents, Idle
  <2> QED BY <2>4, <2>5, <2>6 DEF TypeInv
<1>2. CASE PrepareTask(t)
  <2>4. TypeOK'
    BY <1>2, TreeOfType, NoneIsNot DEF TypeInv, TypeOK, PrepareTask, store, Processes, Pcs, Enter
  <2>5. PlaceOK'
    BY <1>2, TreeOfType, NoneIsNot DEF TypeInv, TypeOK, PlaceOK, PrepareTask, store, OnAgentTask, Holding, Agents, Processes, Enter
  <2>6. StageOK'
    BY <1>2, TreeOfType, NoneIsNot DEF TypeInv, TypeOK, PlaceOK, StageOK, PrepareTask, store, store, Runtime, RunStages, OnAgentTask, Holding, Processes, Agents, Enter
  <2> QED BY <2>4, <2>5, <2>6 DEF TypeInv
<1>3. CASE RecoverCheckpoint(t)
  <2>a. branch[t] \in Commits \cup {None}
    BY DEF TypeInv, TypeOK
  <2>0. rt[t] \in Runtime
    BY DEF TypeInv, TypeOK
  <2> DEFINE r == [rt[t] EXCEPT !.ckpt = branch[t], !.intent = None, !.stage = "checkpointed"]
  <2>1. r \in Runtime
    BY <2>0, <2>a, Labels DEF Runtime
  <2>2. rt' = [rt EXCEPT ![t] = r]
    BY <1>3 DEF RecoverCheckpoint, TypeInv, TypeOK
  <2> HIDE DEF r
  <2>3. rt' \in [Tasks -> Runtime]
    BY <2>1, <2>2 DEF TypeInv, TypeOK
  <2>e. edited' \in [Tasks -> SUBSET Recorded]
    <3>1. edited \in [Tasks -> SUBSET Recorded]
      BY DEF TypeInv, TypeOK
    <3> QED BY <1>3, <3>1, DigestsType DEF RecoverCheckpoint
  <2>4. TypeOK'
    BY <1>3, <2>e, <2>3 DEF TypeInv, TypeOK, RecoverCheckpoint, git, Processes, Pcs, Advance, Hold, At
  <2>5. PlaceOK'
    BY <1>3 DEF TypeInv, TypeOK, PlaceOK, RecoverCheckpoint, git, OnAgentTask, Holding, Agents, Processes, Advance, Hold, At
  <2>6. StageOK'
    BY <1>3 DEF TypeInv, TypeOK, PlaceOK, StageOK, RecoverCheckpoint, git, store, Runtime, RunStages, OnAgentTask, Holding, Processes, Agents, Advance, Hold, At
  <2> QED BY <2>4, <2>5, <2>6 DEF TypeInv
<1>4. CASE ResumeRun(t)
  <2>a. rt[t] \in Runtime
    BY DEF TypeInv, TypeOK
  <2>b. ResumeStage(t) \in Stages
    BY <2>a DEF ResumeStage, Runtime, Stages
  <2>0. rt[t] \in Runtime
    BY DEF TypeInv, TypeOK
  <2> DEFINE r == [rt[t] EXCEPT !.status = "running", !.stage = ResumeStage(t), !.resume = None]
  <2>1. r \in Runtime
    BY <2>0, <2>b, Labels DEF Runtime
  <2>2. rt' = [rt EXCEPT ![t] = r]
    BY <1>4 DEF ResumeRun, TypeInv, TypeOK
  <2> HIDE DEF r
  <2>3. rt' \in [Tasks -> Runtime]
    BY <2>1, <2>2 DEF TypeInv, TypeOK
  <2>4. TypeOK'
    BY <1>4, <2>3 DEF TypeInv, TypeOK, ResumeRun, git, Processes, Pcs, Enter, At
  <2>5. PlaceOK'
    BY <1>4 DEF TypeInv, TypeOK, PlaceOK, ResumeRun, git, OnAgentTask, Holding, Agents, Processes, Enter, At
  <2>6. StageOK'
    BY <1>4 DEF TypeInv, TypeOK, PlaceOK, StageOK, ResumeRun, git, store, Runtime, RunStages, OnAgentTask, Holding, Processes, Agents, Enter, At, CanResume, Resuming, Engaged, ResumeStage
  <2> QED BY <2>4, <2>5, <2>6 DEF TypeInv
<1>5. CASE StartRun(t)
  <2>1. rt[t] \in Runtime /\ main \in Commits
    BY DEF TypeInv, TypeOK
  <2>2. Restarted(rt[t], main) \in Runtime
    BY <2>1, RestartedType
  <2>6. rt' \in [Tasks -> Runtime]
    BY <1>5, <2>2 DEF StartRun, TypeInv, TypeOK
  <2>e. edited' \in [Tasks -> SUBSET Recorded]
    <3>1. edited \in [Tasks -> SUBSET Recorded]
      BY DEF TypeInv, TypeOK
    <3>2. Noted(edited[t] \ {"checkpoint", "intent"}, "run") \in SUBSET Recorded
      BY <3>1, DigestsType
    <3>3. edited' = [edited EXCEPT ![t] = Noted(edited[t] \ {"checkpoint", "intent"}, "run")]
      BY <1>5, <3>1 DEF StartRun
    <3> QED BY <3>1, <3>2, <3>3
  <2>7. TypeOK'
    <3>1. proc' \in Processes
      BY <1>5 DEF StartRun, Enter, Processes, Pcs
    <3>2. active' \in Tasks \cup {None} /\ turns' \in [Tasks -> 0..RepairCap]
      BY <1>5 DEF StartRun, TypeInv, TypeOK
    <3>3. UNCHANGED <<main, branch, tree, itree, drift, reviewed>>
      BY <1>5 DEF StartRun, git
    <3> QED BY <2>e, <2>6, <3>1, <3>2, <3>3 DEF TypeInv, TypeOK
  <2>8. PlaceOK'
    BY <1>5 DEF TypeInv, TypeOK, PlaceOK, StartRun, git, OnAgentTask, Holding, Agents, Processes, Enter, At
  <2>9. StageOK'
    BY <1>5 DEF TypeInv, TypeOK, PlaceOK, StageOK, StartRun, Restarted, git, OnAgentTask, Holding, Agents, Processes, Enter, At, RunStages, Runtime
  <2> QED BY <2>7, <2>8, <2>9 DEF TypeInv
<1>6. CASE PrepareGate(t)
  <2>4. TypeOK'
    BY <1>6 DEF TypeInv, TypeOK, PrepareGate, store, git, Processes, Pcs, Enter
  <2>5. PlaceOK' /\ StageOK'
    BY <1>6 DEF TypeInv, PlaceOK, StageOK, PrepareGate, store, git, OnAgentTask, Holding, Enter
  <2> QED BY <2>4, <2>5 DEF TypeInv
<1> QED BY <1>1, <1>2, <1>3, <1>4, <1>5, <1>6 DEF Once

LEMMA RunType == ASSUME TypeInv, NEW t \in Tasks, Run(t) PROVE TypeInv'
<1>1. CASE BeginImplement(t)
  <2>0. rt[t] \in Runtime
    BY DEF TypeInv, TypeOK
  <2> DEFINE r == [rt[t] EXCEPT !.stage = "implementing"]
  <2>1. r \in Runtime
    BY <2>0, Labels DEF Runtime
  <2>2. rt' = [rt EXCEPT ![t] = r]
    BY <1>1 DEF BeginImplement, TypeInv, TypeOK, SaveStage
  <2> HIDE DEF r
  <2>3. rt' \in [Tasks -> Runtime]
    BY <2>1, <2>2 DEF TypeInv, TypeOK
  <2>4. TypeOK'
    BY <1>1, <2>3 DEF TypeInv, TypeOK, BeginImplement, git, Processes, Pcs, Advance, Hold, At, Running, Enter
  <2>5. PlaceOK'
    BY <1>1 DEF TypeInv, TypeOK, PlaceOK, BeginImplement, git, OnAgentTask, Holding, Agents, Processes, Advance, Hold, At, Running, Enter
  <2>6. StageOK'
    BY <1>1 DEF TypeInv, TypeOK, PlaceOK, StageOK, BeginImplement, git, store, Runtime, RunStages, OnAgentTask, Holding, Processes, Agents, Advance, Hold, At, Running, Enter, SaveStage
  <2> QED BY <2>4, <2>5, <2>6 DEF TypeInv
<1>2. CASE BeginTargetedRepair(t)
  <2>0. rt[t] \in Runtime
    BY DEF TypeInv, TypeOK
  <2> DEFINE r == [rt[t] EXCEPT !.stage = "repairing", !.repairs = OneMoreRepair(@)]
  <2>1. r \in Runtime
    BY <2>0, OneMoreType, Labels DEF Runtime
  <2>2. rt' = [rt EXCEPT ![t] = r]
    BY <1>2 DEF BeginTargetedRepair, TypeInv, TypeOK
  <2> HIDE DEF r
  <2>3. rt' \in [Tasks -> Runtime]
    BY <2>1, <2>2 DEF TypeInv, TypeOK
  <2>4. TypeOK'
    BY <1>2, <2>3, OneMoreType DEF TypeInv, TypeOK, BeginTargetedRepair, git, Processes, Pcs, Advance, Hold, At, Running, Enter
  <2>5. PlaceOK'
    BY <1>2, OneMoreType DEF TypeInv, TypeOK, PlaceOK, BeginTargetedRepair, git, OnAgentTask, Holding, Agents, Processes, Advance, Hold, At, Running, Enter
  <2>6. StageOK'
    BY <1>2, OneMoreType DEF TypeInv, TypeOK, PlaceOK, StageOK, BeginTargetedRepair, git, store, Runtime, RunStages, OnAgentTask, Holding, Processes, Agents, Advance, Hold, At, Running, Enter
  <2> QED BY <2>4, <2>5, <2>6 DEF TypeInv
<1>3. CASE BeginReverify(t)
  <2>0. rt[t] \in Runtime
    BY DEF TypeInv, TypeOK
  <2> DEFINE r == [rt[t] EXCEPT !.stage = "verifying"]
  <2>1. r \in Runtime
    BY <2>0, Labels DEF Runtime
  <2>2. rt' = [rt EXCEPT ![t] = r]
    BY <1>3 DEF BeginReverify, TypeInv, TypeOK, SaveStage
  <2> HIDE DEF r
  <2>3. rt' \in [Tasks -> Runtime]
    BY <2>1, <2>2 DEF TypeInv, TypeOK
  <2>4. TypeOK'
    BY <1>3, <2>3 DEF TypeInv, TypeOK, BeginReverify, git, Processes, Pcs, Advance, Hold, At, Running, Enter
  <2>5. PlaceOK'
    BY <1>3 DEF TypeInv, TypeOK, PlaceOK, BeginReverify, git, OnAgentTask, Holding, Agents, Processes, Advance, Hold, At, Running, Enter
  <2>6. StageOK'
    BY <1>3 DEF TypeInv, TypeOK, PlaceOK, StageOK, BeginReverify, git, store, Runtime, RunStages, OnAgentTask, Holding, Processes, Agents, Advance, Hold, At, Running, Enter, SaveStage
  <2> QED BY <2>4, <2>5, <2>6 DEF TypeInv
<1>4. CASE AgentReturns(t)
  <2>0. rt[t] \in Runtime
    BY DEF TypeInv, TypeOK
  <2> DEFINE r == [rt[t] EXCEPT !.stage = "verifying"]
  <2>1. r \in Runtime
    BY <2>0, Labels DEF Runtime
  <2>2. rt' = [rt EXCEPT ![t] = r]
    BY <1>4 DEF AgentReturns, TypeInv, TypeOK, SaveStage
  <2> HIDE DEF r
  <2>3. rt' \in [Tasks -> Runtime]
    BY <2>1, <2>2 DEF TypeInv, TypeOK
  <2>4. TypeOK'
    BY <1>4, <2>3 DEF TypeInv, TypeOK, AgentReturns, git, Processes, Pcs, Advance, Hold, At, Running, Enter
  <2>5. PlaceOK'
    BY <1>4 DEF TypeInv, TypeOK, PlaceOK, AgentReturns, git, OnAgentTask, Holding, Agents, Processes, Advance, Hold, At, Running, Enter
  <2>6. StageOK'
    BY <1>4 DEF TypeInv, TypeOK, PlaceOK, StageOK, AgentReturns, git, store, Runtime, RunStages, OnAgentTask, Holding, Processes, Agents, Advance, Hold, At, Running, Enter, SaveStage
  <2> QED BY <2>4, <2>5, <2>6 DEF TypeInv
<1>5. CASE VerifyPasses(t)
  <2>0. rt[t] \in Runtime
    BY DEF TypeInv, TypeOK
  <2> DEFINE r == [rt[t] EXCEPT !.stage = "reviewing"]
  <2>1. r \in Runtime
    BY <2>0, Labels DEF Runtime
  <2>2. rt' = [rt EXCEPT ![t] = r]
    BY <1>5 DEF VerifyPasses, TypeInv, TypeOK, SaveStage
  <2> HIDE DEF r
  <2>3. rt' \in [Tasks -> Runtime]
    BY <2>1, <2>2 DEF TypeInv, TypeOK
  <2>4. TypeOK'
    BY <1>5, <2>3 DEF TypeInv, TypeOK, VerifyPasses, git, Processes, Pcs, Advance, Hold, At, Running, Enter
  <2>5. PlaceOK'
    BY <1>5 DEF TypeInv, TypeOK, PlaceOK, VerifyPasses, git, OnAgentTask, Holding, Agents, Processes, Advance, Hold, At, Running, Enter
  <2>6. StageOK'
    BY <1>5 DEF TypeInv, TypeOK, PlaceOK, StageOK, VerifyPasses, git, store, Runtime, RunStages, OnAgentTask, Holding, Processes, Agents, Advance, Hold, At, Running, Enter, SaveStage
  <2> QED BY <2>4, <2>5, <2>6 DEF TypeInv
<1>6. CASE ReviewAccepts(t)
  <2>a. branch[t] \in Commits
    BY <1>6 DEF ReviewAccepts, PlaceOK, OnAgentTask, Holding, TypeInv, TypeOK, Running, At, Reviewed
  <2>b. rt[t].base \in Commits /\ proc.tree \in Trees /\ proc.tree = tree[t]
    BY <1>6, <2>a DEF ReviewAccepts, Reviewed, TypeInv, TypeOK
  <2>c. proc.pc = "review" /\ proc.task = t
    BY <1>6 DEF ReviewAccepts, Reviewed, Running, At
  <2>0. rt[t] \in Runtime
    BY DEF TypeInv, TypeOK
  <2> DEFINE r == [rt[t] EXCEPT !.stage = "checkpointing", !.intent = [base |-> rt[t].base, tree |-> proc.tree]]
  <2>1. r \in Runtime
    BY <2>0, <2>b, Labels DEF Runtime, Intents
  <2>2. rt' = [rt EXCEPT ![t] = r]
    BY <1>6 DEF ReviewAccepts, TypeInv, TypeOK
  <2> HIDE DEF r
  <2>3. rt' \in [Tasks -> Runtime]
    BY <2>1, <2>2 DEF TypeInv, TypeOK
  <2>e. edited' \in [Tasks -> SUBSET Recorded]
    <3>1. edited \in [Tasks -> SUBSET Recorded]
      BY DEF TypeInv, TypeOK
    <3> QED BY <1>6, <3>1, DigestsType DEF ReviewAccepts
  <2>4. TypeOK'
    BY <1>6, <2>e, <2>3, <2>b, <2>c, AppendType DEF TypeInv, TypeOK, ReviewAccepts, git, Processes, Pcs, Advance, Hold
  <2>5. PlaceOK'
    BY <1>6, <2>b, <2>c, AppendType DEF TypeInv, TypeOK, PlaceOK, ReviewAccepts, git, OnAgentTask, Holding, Agents, Processes, Advance, Hold
  <2>6. StageOK'
    BY <1>6, <2>b, <2>c, AppendType DEF TypeInv, TypeOK, PlaceOK, StageOK, ReviewAccepts, git, store, Runtime, RunStages, OnAgentTask, Holding, Processes, Agents, Advance, Hold
  <2> QED BY <2>4, <2>5, <2>6 DEF TypeInv
<1>7. CASE NeedsHuman(t)
  <2>0. rt[t] \in Runtime
    BY DEF TypeInv, TypeOK
  <2> DEFINE r == [rt[t] EXCEPT !.status = "blocked", !.stage = "needs_human"]
  <2>1. r \in Runtime
    BY <2>0, Labels DEF Runtime
  <2>2. rt' = [rt EXCEPT ![t] = r]
    BY <1>7 DEF NeedsHuman, TypeInv, TypeOK
  <2> HIDE DEF r
  <2>3. rt' \in [Tasks -> Runtime]
    BY <2>1, <2>2 DEF TypeInv, TypeOK
  <2>4. TypeOK'
    BY <1>7, <2>3 DEF TypeInv, TypeOK, NeedsHuman, git, Processes, Pcs, Idle
  <2>5. PlaceOK'
    BY <1>7 DEF TypeInv, TypeOK, PlaceOK, NeedsHuman, git, OnAgentTask, Holding, Agents, Processes, Idle
  <2>6. StageOK'
    BY <1>7 DEF TypeInv, TypeOK, PlaceOK, StageOK, NeedsHuman, git, store, Runtime, RunStages, OnAgentTask, Holding, Processes, Agents, Idle
  <2> QED BY <2>4, <2>5, <2>6 DEF TypeInv
<1>8. CASE BeginRepair(t)
  <2>0. rt[t] \in Runtime
    BY DEF TypeInv, TypeOK
  <2> DEFINE r == [rt[t] EXCEPT !.stage = "repairing", !.repairs = OneMoreRepair(@)]
  <2>1. r \in Runtime
    BY <2>0, OneMoreType, Labels DEF Runtime
  <2>2. rt' = [rt EXCEPT ![t] = r]
    BY <1>8 DEF BeginRepair, TypeInv, TypeOK
  <2> HIDE DEF r
  <2>3. rt' \in [Tasks -> Runtime]
    BY <2>1, <2>2 DEF TypeInv, TypeOK
  <2>4. TypeOK'
    BY <1>8, <2>3, OneMoreType DEF TypeInv, TypeOK, BeginRepair, git, Processes, Pcs, Advance, Hold, At, Running, Enter, CallsForRepair, Reviewed
  <2>5. PlaceOK'
    BY <1>8, OneMoreType DEF TypeInv, TypeOK, PlaceOK, BeginRepair, git, OnAgentTask, Holding, Agents, Processes, Advance, Hold, At, Running, Enter, CallsForRepair, Reviewed
  <2>6. StageOK'
    BY <1>8, OneMoreType DEF TypeInv, TypeOK, PlaceOK, StageOK, BeginRepair, git, store, Runtime, RunStages, OnAgentTask, Holding, Processes, Agents, Advance, Hold, At, Running, Enter, CallsForRepair, Reviewed
  <2> QED BY <2>4, <2>5, <2>6 DEF TypeInv
<1>9. CASE ExhaustRepairs(t)
  <2>0. rt[t] \in Runtime
    BY DEF TypeInv, TypeOK
  <2> DEFINE r == [rt[t] EXCEPT !.targeted = "current"]
  <2>1. r \in Runtime
    BY <2>0, Labels DEF Runtime
  <2>2. rt' = [rt EXCEPT ![t] = r]
    BY <1>9 DEF ExhaustRepairs, TypeInv, TypeOK
  <2> HIDE DEF r
  <2>3. rt' \in [Tasks -> Runtime]
    BY <2>1, <2>2 DEF TypeInv, TypeOK
  <2>4. TypeOK'
    BY <1>9, <2>3 DEF TypeInv, TypeOK, ExhaustRepairs, git, Processes, Pcs, Advance, Hold, At, Running, Enter, CallsForRepair, Reviewed
  <2>5. PlaceOK'
    BY <1>9 DEF TypeInv, TypeOK, PlaceOK, ExhaustRepairs, git, OnAgentTask, Holding, Agents, Processes, Advance, Hold, At, Running, Enter, CallsForRepair, Reviewed
  <2>6. StageOK'
    BY <1>9 DEF TypeInv, TypeOK, PlaceOK, StageOK, ExhaustRepairs, git, store, Runtime, RunStages, OnAgentTask, Holding, Processes, Agents, Advance, Hold, At, Running, Enter, CallsForRepair, Reviewed
  <2> QED BY <2>4, <2>5, <2>6 DEF TypeInv
<1>10. CASE CommitTask(t)
  <2>a. branch[t] \in Commits
    BY <1>10 DEF CommitTask, PlaceOK, OnAgentTask, Holding, TypeInv, TypeOK, Running, At, Reviewed
  <2>b. rt[t].base \in Commits /\ proc.tree \in Trees
    BY <1>10, <2>a DEF CommitTask, TypeInv, TypeOK
  <2>c. proc.pc = "commit" /\ proc.task = t
    BY <1>10 DEF CommitTask, Running, At
  <2>d. Append(rt[t].base, [task |-> t, tree |-> proc.tree]) \in Commits
    BY <2>b, AppendType
  <2>4. TypeOK'
    BY <1>10, <2>c, <2>d, NoneIsNot DEF TypeInv, TypeOK, CommitTask, store, Processes, Pcs, Advance, Hold
  <2>5. PlaceOK'
    BY <1>10, <2>c, <2>d, NoneIsNot DEF TypeInv, TypeOK, PlaceOK, CommitTask, store, OnAgentTask, Holding, Agents, Processes, Advance, Hold
  <2>6. StageOK'
    BY <1>10, <2>c, <2>d, NoneIsNot DEF TypeInv, TypeOK, PlaceOK, StageOK, CommitTask, store, store, Runtime, RunStages, OnAgentTask, Holding, Processes, Agents, Advance, Hold
  <2> QED BY <2>4, <2>5, <2>6 DEF TypeInv
<1>11. CASE SaveCheckpoint(t)
  <2>a. proc.commit \in Commits
    BY <1>11 DEF SaveCheckpoint, Running, At, TypeInv, PlaceOK, Holding
  <2>0. rt[t] \in Runtime
    BY DEF TypeInv, TypeOK
  <2> DEFINE r == [rt[t] EXCEPT !.stage = "checkpointed", !.ckpt = proc.commit, !.intent = None, !.targeted = "none"]
  <2>1. r \in Runtime
    BY <2>0, <2>a, Labels DEF Runtime
  <2>2. rt' = [rt EXCEPT ![t] = r]
    BY <1>11 DEF SaveCheckpoint, TypeInv, TypeOK
  <2> HIDE DEF r
  <2>3. rt' \in [Tasks -> Runtime]
    BY <2>1, <2>2 DEF TypeInv, TypeOK
  <2>e. edited' \in [Tasks -> SUBSET Recorded]
    <3>1. edited \in [Tasks -> SUBSET Recorded]
      BY DEF TypeInv, TypeOK
    <3> QED BY <1>11, <3>1, DigestsType DEF SaveCheckpoint
  <2>4. TypeOK'
    BY <1>11, <2>e, <2>3 DEF TypeInv, TypeOK, SaveCheckpoint, git, Processes, Pcs, Advance, Hold, At, Running, Enter
  <2>5. PlaceOK'
    BY <1>11 DEF TypeInv, TypeOK, PlaceOK, SaveCheckpoint, git, OnAgentTask, Holding, Agents, Processes, Advance, Hold, At, Running, Enter
  <2>6. StageOK'
    BY <1>11 DEF TypeInv, TypeOK, PlaceOK, StageOK, SaveCheckpoint, git, store, Runtime, RunStages, OnAgentTask, Holding, Processes, Agents, Advance, Hold, At, Running, Enter
  <2> QED BY <2>4, <2>5, <2>6 DEF TypeInv
<1> QED BY <1>1, <1>2, <1>3, <1>4, <1>5, <1>6, <1>7, <1>8, <1>9, <1>10, <1>11 DEF Run

LEMMA IntegrateType == ASSUME TypeInv, NEW t \in Tasks, Integrate(t) PROVE TypeInv'
<1>1. CASE ReadTree(t)
  <2>a. branch[t] \in Commits
    BY <1>1 DEF ReadTree, PlaceOK, OnAgentTask, Holding, TypeInv, TypeOK, At
  <2>4. TypeOK'
    BY <1>1, <2>a, TreeOfType DEF TypeInv, TypeOK, ReadTree, store, Processes, Pcs, Advance, Hold, At
  <2>5. PlaceOK'
    BY <1>1, <2>a, TreeOfType DEF TypeInv, TypeOK, PlaceOK, ReadTree, store, OnAgentTask, Holding, Agents, Processes, Advance, Hold, At
  <2>6. StageOK'
    BY <1>1, <2>a, TreeOfType DEF TypeInv, TypeOK, PlaceOK, StageOK, ReadTree, store, store, Runtime, RunStages, OnAgentTask, Holding, Processes, Agents, Advance, Hold, At
  <2> QED BY <2>4, <2>5, <2>6 DEF TypeInv
<1>2. CASE AdvanceRef(t)
  <2>a. proc.commit \in Commits /\ main \in Commits
    BY <1>2 DEF AdvanceRef, At, TypeInv, TypeOK, PlaceOK, Holding
  <2>4. TypeOK'
    BY <1>2, <2>a DEF TypeInv, TypeOK, AdvanceRef, store, Processes, Pcs, Advance, Hold, At
  <2>5. PlaceOK'
    BY <1>2, <2>a DEF TypeInv, TypeOK, PlaceOK, AdvanceRef, store, OnAgentTask, Holding, Agents, Processes, Advance, Hold, At
  <2>6. StageOK'
    BY <1>2, <2>a DEF TypeInv, TypeOK, PlaceOK, StageOK, AdvanceRef, store, store, Runtime, RunStages, OnAgentTask, Holding, Processes, Agents, Advance, Hold, At
  <2> QED BY <2>4, <2>5, <2>6 DEF TypeInv
<1>3. CASE AcceptTask(t)
  <2>0. rt[t] \in Runtime
    BY DEF TypeInv, TypeOK
  <2> DEFINE r == [rt[t] EXCEPT !.status = "accepted", !.stage = "accepted", !.resume = None]
  <2>1. r \in Runtime
    BY <2>0, Labels DEF Runtime
  <2>2. rt' = [rt EXCEPT ![t] = r]
    BY <1>3 DEF AcceptTask, TypeInv, TypeOK
  <2> HIDE DEF r
  <2>3. rt' \in [Tasks -> Runtime]
    BY <2>1, <2>2 DEF TypeInv, TypeOK
  <2>4. TypeOK'
    BY <1>3, <2>3 DEF TypeInv, TypeOK, AcceptTask, git, Processes, Pcs, Idle
  <2>5. PlaceOK'
    BY <1>3 DEF TypeInv, TypeOK, PlaceOK, AcceptTask, git, OnAgentTask, Holding, Agents, Processes, Idle
  <2>6. StageOK'
    BY <1>3 DEF TypeInv, TypeOK, PlaceOK, StageOK, AcceptTask, git, store, Runtime, RunStages, OnAgentTask, Holding, Processes, Agents, Idle
  <2> QED BY <2>4, <2>5, <2>6 DEF TypeInv
<1>4. CASE RollBack(t)
  <2>a. proc.commit \in Commits
    BY <1>4 DEF RollBack, At, TypeInv, PlaceOK, Holding
  <2>4. TypeOK'
    BY <1>4, <2>a, TreeOfType DEF TypeInv, TypeOK, RollBack, store, Processes, Pcs, Advance, Hold, At
  <2>5. PlaceOK'
    BY <1>4, <2>a, TreeOfType DEF TypeInv, TypeOK, PlaceOK, RollBack, store, OnAgentTask, Holding, Agents, Processes, Advance, Hold, At
  <2>6. StageOK'
    BY <1>4, <2>a, TreeOfType DEF TypeInv, TypeOK, PlaceOK, StageOK, RollBack, store, store, Runtime, RunStages, OnAgentTask, Holding, Processes, Agents, Advance, Hold, At
  <2> QED BY <2>4, <2>5, <2>6 DEF TypeInv
<1> QED BY <1>1, <1>2, <1>3, <1>4 DEF Integrate

LEMMA PausedType == ASSUME NEW r \in Runtime, r.stage \in RunStages
                    PROVE  PausedRuntime(r) \in Runtime
<1>1. "paused" \in Statuses /\ "paused" \in Stages
  BY DEF Statuses, Stages
<1> QED BY <1>1 DEF Runtime, PausedRuntime

LEMMA OperatorType == ASSUME TypeInv, NEW t \in Tasks, Operator(t) PROVE TypeInv'
<1>1. CASE Approve(t)
  <2>a. main \in Commits /\ itree \in Trees
    BY DEF TypeInv, TypeOK
  <2>0. rt[t] \in Runtime
    BY DEF TypeInv, TypeOK
  <2> DEFINE r == [rt[t] EXCEPT !.approving = [base |-> main, tree |-> itree], !.stage = "checkpointing"]
  <2>1. r \in Runtime
    BY <2>0, <2>a, Labels DEF Runtime, Intents
  <2>2. rt' = [rt EXCEPT ![t] = r]
    BY <1>1 DEF Approve, TypeInv, TypeOK
  <2> HIDE DEF r
  <2>3. rt' \in [Tasks -> Runtime]
    BY <2>1, <2>2 DEF TypeInv, TypeOK
  <2>e. edited' \in [Tasks -> SUBSET Recorded]
    <3>1. edited \in [Tasks -> SUBSET Recorded]
      BY DEF TypeInv, TypeOK
    <3> QED BY <1>1, <3>1, DigestsType DEF Approve
  <2>4. TypeOK'
    BY <1>1, <2>e, <2>3, <2>a, AppendType DEF TypeInv, TypeOK, Approve, git, Processes, Pcs, Enter, At
  <2>5. PlaceOK'
    BY <1>1, <2>a, AppendType DEF TypeInv, TypeOK, PlaceOK, Approve, git, OnAgentTask, Holding, Agents, Processes, Enter, At
  <2>6. StageOK'
    BY <1>1, <2>a, AppendType DEF TypeInv, TypeOK, PlaceOK, StageOK, Approve, git, store, Runtime, RunStages, OnAgentTask, Holding, Processes, Agents, Enter, At
  <2> QED BY <2>4, <2>5, <2>6 DEF TypeInv
<1>2. CASE CommitHumanGate(t)
  <2>a. main \in Commits /\ itree \in Trees
    BY DEF TypeInv, TypeOK
  <2>4. TypeOK'
    BY <1>2, <2>a, AppendType DEF TypeInv, TypeOK, CommitHumanGate, store, Processes, Pcs, Advance, Hold, At
  <2>5. PlaceOK'
    BY <1>2, <2>a, AppendType DEF TypeInv, TypeOK, PlaceOK, CommitHumanGate, store, OnAgentTask, Holding, Agents, Processes, Advance, Hold, At
  <2>6. StageOK'
    BY <1>2, <2>a, AppendType DEF TypeInv, TypeOK, PlaceOK, StageOK, CommitHumanGate, store, store, Runtime, RunStages, OnAgentTask, Holding, Processes, Agents, Advance, Hold, At
  <2> QED BY <2>4, <2>5, <2>6 DEF TypeInv
<1>3. CASE AcceptGate(t)
  <2>a. main \in Commits /\ itree \in Trees
    BY DEF TypeInv, TypeOK
  <2>0. rt[t] \in Runtime
    BY DEF TypeInv, TypeOK
  <2> DEFINE r == [rt[t] EXCEPT !.status = "accepted", !.stage = "accepted", !.ckpt = main, !.approving = None, !.resume = None]
  <2>1. r \in Runtime
    BY <2>0, <2>a, Labels DEF Runtime
  <2>2. rt' = [rt EXCEPT ![t] = r]
    BY <1>3 DEF AcceptGate, TypeInv, TypeOK
  <2> HIDE DEF r
  <2>3. rt' \in [Tasks -> Runtime]
    BY <2>1, <2>2 DEF TypeInv, TypeOK
  <2>e. edited' \in [Tasks -> SUBSET Recorded]
    <3>1. edited \in [Tasks -> SUBSET Recorded]
      BY DEF TypeInv, TypeOK
    <3> QED BY <1>3, <3>1, DigestsType DEF AcceptGate
  <2>4. TypeOK'
    BY <1>3, <2>e, <2>3 DEF TypeInv, TypeOK, AcceptGate, git, Processes, Pcs, Idle
  <2>5. PlaceOK'
    BY <1>3 DEF TypeInv, TypeOK, PlaceOK, AcceptGate, git, OnAgentTask, Holding, Agents, Processes, Idle
  <2>6. StageOK'
    BY <1>3 DEF TypeInv, TypeOK, PlaceOK, StageOK, AcceptGate, git, store, Runtime, RunStages, OnAgentTask, Holding, Processes, Agents, Idle
  <2> QED BY <2>4, <2>5, <2>6 DEF TypeInv
<1>4. CASE Reject(t)
  <2>0. rt[t] \in Runtime
    BY DEF TypeInv, TypeOK
  <2> DEFINE r == [rt[t] EXCEPT !.status = "blocked", !.stage = "gate_rejected"]
  <2>1. r \in Runtime
    BY <2>0, Labels DEF Runtime
  <2>2. rt' = [rt EXCEPT ![t] = r]
    BY <1>4 DEF Reject, TypeInv, TypeOK
  <2> HIDE DEF r
  <2>3. rt' \in [Tasks -> Runtime]
    BY <2>1, <2>2 DEF TypeInv, TypeOK
  <2>4. TypeOK'
    BY <1>4, <2>3 DEF TypeInv, TypeOK, Reject, git, Processes, Pcs, Idle
  <2>5. PlaceOK'
    BY <1>4 DEF TypeInv, TypeOK, PlaceOK, Reject, git, OnAgentTask, Holding, Agents, Processes, Idle
  <2>6. StageOK'
    BY <1>4 DEF TypeInv, TypeOK, PlaceOK, StageOK, Reject, git, store, Runtime, RunStages, OnAgentTask, Holding, Processes, Agents, Idle
  <2> QED BY <2>4, <2>5, <2>6 DEF TypeInv
<1>5. CASE Requeue(t)
  <2> DEFINE st == IF rt[t].ckpt # None THEN "checkpointed" ELSE "pending"
  <2>a. st \in Stages
    BY DEF Stages, RunStages
  <2>0. rt[t] \in Runtime
    BY DEF TypeInv, TypeOK
  <2> DEFINE r == [rt[t] EXCEPT !.status = "pending", !.resume = None, !.stage = st]
  <2>1. r \in Runtime
    BY <2>0, <2>a, Labels DEF Runtime
  <2>2. rt' = [rt EXCEPT ![t] = r]
    BY <1>5 DEF Requeue, TypeInv, TypeOK
  <2> HIDE DEF r
  <2>3. rt' \in [Tasks -> Runtime]
    BY <2>1, <2>2 DEF TypeInv, TypeOK
  <2>4. TypeOK'
    BY <1>5, <2>3 DEF TypeInv, TypeOK, Requeue, git, Processes, Pcs, Idle
  <2>5. PlaceOK'
    BY <1>5 DEF TypeInv, TypeOK, PlaceOK, Requeue, git, OnAgentTask, Holding, Agents, Processes, Idle
  <2>6. StageOK'
    BY <1>5 DEF TypeInv, TypeOK, PlaceOK, StageOK, Requeue, git, store, Runtime, RunStages, OnAgentTask, Holding, Processes, Agents, Idle
  <2> QED BY <2>4, <2>5, <2>6 DEF TypeInv
<1>6. CASE RetryTargeted(t)
  <2>0. rt[t] \in Runtime
    BY DEF TypeInv, TypeOK
  <2> DEFINE r == [rt[t] EXCEPT !.status = "paused", !.stage = "paused", !.resume = "targeted_repair"]
  <2>1. r \in Runtime
    BY <2>0, Labels DEF Runtime
  <2>2. rt' = [rt EXCEPT ![t] = r]
    BY <1>6 DEF RetryTargeted, TypeInv, TypeOK
  <2> HIDE DEF r
  <2>3. rt' \in [Tasks -> Runtime]
    BY <2>1, <2>2 DEF TypeInv, TypeOK
  <2>4. TypeOK'
    BY <1>6, <2>3 DEF TypeInv, TypeOK, RetryTargeted, git, Processes, Pcs, Idle
  <2>5. PlaceOK'
    BY <1>6 DEF TypeInv, TypeOK, PlaceOK, RetryTargeted, git, OnAgentTask, Holding, Agents, Processes, Idle
  <2>6. StageOK'
    BY <1>6, NoneIsNot DEF TypeInv, TypeOK, PlaceOK, StageOK, RetryTargeted, git, store, Runtime, RunStages, OnAgentTask, Holding, Processes, Agents, Idle
  <2> QED BY <2>4, <2>5, <2>6 DEF TypeInv
<1>7. CASE Pause(t)
  <2>a. rt[t] \in Runtime /\ rt[t].stage \in RunStages
    BY <1>7 DEF Pause, TypeInv, TypeOK, StageOK
  <2>0. rt[t] \in Runtime
    BY DEF TypeInv, TypeOK
  <2> DEFINE r == PausedRuntime(rt[t])
  <2>1. r \in Runtime
    BY <2>0, <2>a, PausedType
  <2>2. rt' = [rt EXCEPT ![t] = r]
    BY <1>7 DEF Pause, TypeInv, TypeOK
  <2> HIDE DEF r
  <2>3. rt' \in [Tasks -> Runtime]
    BY <2>1, <2>2 DEF TypeInv, TypeOK
  <2>4. TypeOK'
    BY <1>7, <2>3 DEF TypeInv, TypeOK, Pause, git, Processes, Pcs, PausedRuntime
  <2>5. PlaceOK'
    BY <1>7 DEF TypeInv, TypeOK, PlaceOK, Pause, git, OnAgentTask, Holding, Agents, Processes, PausedRuntime
  <2>6. StageOK'
    BY <1>7, <2>a, NoneIsNot DEF TypeInv, TypeOK, PlaceOK, StageOK, Pause, git, store, Runtime, RunStages, OnAgentTask, Holding, Processes, Agents, PausedRuntime
  <2> QED BY <2>4, <2>5, <2>6 DEF TypeInv
<1>8. CASE Interrupt(t)
  <2>a. rt[t] \in Runtime /\ rt[t].stage \in RunStages
    BY <1>8 DEF Interrupt, TypeInv, TypeOK, StageOK
  <2>0. rt[t] \in Runtime
    BY DEF TypeInv, TypeOK
  <2> DEFINE r == PausedRuntime(rt[t])
  <2>1. r \in Runtime
    BY <2>0, <2>a, PausedType
  <2>2. rt' = [rt EXCEPT ![t] = r]
    BY <1>8 DEF Interrupt, TypeInv, TypeOK
  <2> HIDE DEF r
  <2>3. rt' \in [Tasks -> Runtime]
    BY <2>1, <2>2 DEF TypeInv, TypeOK
  <2>4. TypeOK'
    BY <1>8, <2>3 DEF TypeInv, TypeOK, Interrupt, git, Processes, Pcs, PausedRuntime, Idle
  <2>5. PlaceOK'
    BY <1>8 DEF TypeInv, TypeOK, PlaceOK, Interrupt, git, OnAgentTask, Holding, Agents, Processes, PausedRuntime, Idle
  <2>6. StageOK'
    BY <1>8, <2>a, NoneIsNot DEF TypeInv, TypeOK, PlaceOK, StageOK, Interrupt, git, store, Runtime, RunStages, OnAgentTask, Holding, Processes, Agents, PausedRuntime, Idle
  <2> QED BY <2>4, <2>5, <2>6 DEF TypeInv
<1>9. CASE OpenGate(t)
  <2>4. TypeOK'
    BY <1>9 DEF TypeInv, TypeOK, OpenGate, store, git, Processes, Pcs, Enter
  <2>5. PlaceOK' /\ StageOK'
    BY <1>9 DEF TypeInv, PlaceOK, StageOK, OpenGate, store, git, OnAgentTask, Holding, Enter
  <2> QED BY <2>4, <2>5 DEF TypeInv
<1> QED BY <1>1, <1>2, <1>3, <1>4, <1>5, <1>6, <1>7, <1>8, <1>9 DEF Operator

LEMMA FailsType == ASSUME TypeInv, NEW t \in Tasks, RunFails(t) PROVE TypeInv'
<1>1. CASE RunFails(t)
  <2> DEFINE st == IF rt[t].ckpt # None THEN "checkpointed" ELSE "failed"
  <2>a. st \in Stages
    BY DEF Stages, RunStages
  <2>0. rt[t] \in Runtime
    BY DEF TypeInv, TypeOK
  <2> DEFINE r == [rt[t] EXCEPT !.status = "failed", !.stage = st]
  <2>1. r \in Runtime
    BY <2>0, <2>a, Labels DEF Runtime
  <2>2. rt' = [rt EXCEPT ![t] = r]
    BY <1>1 DEF RunFails, TypeInv, TypeOK
  <2> HIDE DEF r
  <2>3. rt' \in [Tasks -> Runtime]
    BY <2>1, <2>2 DEF TypeInv, TypeOK
  <2>4. TypeOK'
    BY <1>1, <2>3 DEF TypeInv, TypeOK, RunFails, git, Processes, Pcs, Idle
  <2>5. PlaceOK'
    BY <1>1 DEF TypeInv, TypeOK, PlaceOK, RunFails, git, OnAgentTask, Holding, Agents, Processes, Idle
  <2>6. StageOK'
    BY <1>1 DEF TypeInv, TypeOK, PlaceOK, StageOK, RunFails, git, store, Runtime, RunStages, OnAgentTask, Holding, Processes, Agents, Idle
  <2> QED BY <2>4, <2>5, <2>6 DEF TypeInv
<1> QED BY <1>1

LEMMA OutsideType == ASSUME TypeInv, NEW t \in Tasks, Outside(t) PROVE TypeInv'
<1>1. CASE WriteTree(t)
  <2>4. TypeOK'
    BY <1>1 DEF TypeInv, TypeOK, WriteTree, store, Processes, Pcs
  <2>5. PlaceOK'
    BY <1>1 DEF TypeInv, TypeOK, PlaceOK, WriteTree, store, OnAgentTask, Holding, Agents, Processes
  <2>6. StageOK'
    BY <1>1 DEF TypeInv, TypeOK, PlaceOK, StageOK, WriteTree, store, store, Runtime, RunStages, OnAgentTask, Holding, Processes, Agents
  <2> QED BY <2>4, <2>5, <2>6 DEF TypeInv
<1>2. CASE AgentCommits(t)
  <2>a. branch[t] \in Commits /\ tree[t] \in Trees
    BY <1>2 DEF AgentCommits, PlaceOK, OnAgentTask, Holding, TypeInv, TypeOK, Running, At
  <2>b. Append(branch[t], [task |-> t, tree |-> tree[t]]) \in Commits
    BY <2>a, AppendType
  <2>c. Append(branch[t], [task |-> t, tree |-> tree[t]]) # None
    BY <2>b, NoneIsNot
  <2>4. TypeOK'
    BY <1>2, <2>b, <2>c DEF TypeInv, TypeOK, AgentCommits, store, Processes, Pcs, Running, At
  <2>5. PlaceOK'
    BY <1>2, <2>b, <2>c DEF TypeInv, TypeOK, PlaceOK, AgentCommits, store, OnAgentTask, Holding, Agents, Processes, Running, At
  <2>6. StageOK'
    BY <1>2, <2>b, <2>c DEF TypeInv, TypeOK, PlaceOK, StageOK, AgentCommits, store, store, Runtime, RunStages, OnAgentTask, Holding, Processes, Agents, Running, At
  <2> QED BY <2>4, <2>5, <2>6 DEF TypeInv
<1> QED BY <1>1, <1>2 DEF Outside

LEMMA ReconcileType == ASSUME TypeInv, ReconcileAccepted PROVE TypeInv'
<1>1. ASSUME NEW t \in Tasks PROVE ReconciledTask(t) \in Runtime
  <2>1. rt[t] \in Runtime
    BY DEF TypeInv, TypeOK
  <2> DEFINE a == IF Claimed(t) THEN None ELSE rt[t].approving
             r == [rt[t] EXCEPT !.ckpt = CheckpointOf(t), !.approving = a]
  <2>2. CheckpointOf(t) \in Commits \cup {None}
    BY <2>1 DEF CheckpointOf, TypeInv, TypeOK, Runtime
  <2>3. a \in Intents \cup {None}
    BY <2>1 DEF Runtime
  <2>4. r \in Runtime
    <3> HIDE DEF a
    <3> QED BY <2>1, <2>2, <2>3 DEF Runtime
  <2>5. /\ "accepted" \in Statuses /\ "blocked" \in Statuses
        /\ "accepted" \in Stages /\ "acceptance_stale" \in Stages
    BY DEF Statuses, Stages
  <2>6. /\ [r EXCEPT !.status = "accepted", !.stage = "accepted"] \in Runtime
        /\ [r EXCEPT !.status = "blocked", !.stage = "acceptance_stale"] \in Runtime
    <3> HIDE DEF r
    <3> QED BY <2>4, <2>5 DEF Runtime
  <2>7. r = [rt[t] EXCEPT !.ckpt = CheckpointOf(t),
                          !.approving = IF Claimed(t) THEN None ELSE @]
    BY <2>1 DEF Runtime
  <2>8. \/ ReconciledTask(t) = [r EXCEPT !.status = "accepted", !.stage = "accepted"]
        \/ ReconciledTask(t) = [r EXCEPT !.status = "blocked", !.stage = "acceptance_stale"]
        \/ ReconciledTask(t) = r
    <3> HIDE DEF r
    <3> QED BY <2>7 DEF ReconciledTask
  <2> QED BY <2>4, <2>6, <2>8
<1>2. rt' \in [Tasks -> Runtime]
  BY <1>1 DEF ReconcileAccepted
<1>e. edited' \in [Tasks -> SUBSET Recorded]
  <2>1. edited \in [Tasks -> SUBSET Recorded]
    BY DEF TypeInv, TypeOK
  <2> QED BY <2>1, DigestsType DEF ReconcileAccepted
<1>3. TypeOK'
  BY <1>2, <1>e DEF ReconcileAccepted, TypeInv, TypeOK, Enter, git, Processes, Pcs
<1>4. PlaceOK'
  BY DEF ReconcileAccepted, PlaceOK, Enter, OnAgentTask, Holding
<1>5. ASSUME NEW t \in Tasks
      PROVE  /\ rt'[t].status = "running" => rt'[t].stage \in RunStages
             /\ rt'[t].status = "paused" => rt'[t].resume # None
  <2>1. rt[t] \in Runtime /\ rt'[t] = ReconciledTask(t)
    BY DEF TypeInv, TypeOK, ReconcileAccepted
  <2>2. /\ rt[t].status = "running" => rt[t].stage \in RunStages
        /\ rt[t].status = "paused" => rt[t].resume # None
    BY DEF TypeInv, StageOK
  <2> QED BY <2>1, <2>2 DEF ReconciledTask, Runtime
<1>6. StageOK'
  BY <1>5 DEF ReconcileAccepted, StageOK, Enter
<1> QED BY <1>3, <1>4, <1>6 DEF TypeInv

LEMMA RestType ==
  ASSUME TypeInv, EndCommand \/ Crash \/ EditPolicy \/ WriteIntegrationTree \/ UNCHANGED vars
  PROVE  TypeInv'
<1>1. rt' = rt /\ branch' = branch /\ (proc' = proc \/ proc' = Idle)
  BY DEF EndCommand, Crash, EditPolicy, WriteIntegrationTree, vars, store, git
<1>2. TypeOK'
  <2>1. proc' \in Processes
    <3>1. proc \in Processes
      BY DEF TypeInv, TypeOK
    <3>2. Idle \in Processes
      BY DEF Idle, Processes, Pcs
    <3> QED BY <1>1, <3>1, <3>2
  <2>2. drift' \in {"none", "recent", "throughout"} /\ itree' \in Trees
    BY DEF TypeInv, TypeOK, EndCommand, Crash, EditPolicy, WriteIntegrationTree, vars, git
  <2>3. UNCHANGED <<active, main, tree, edited, reviewed, turns>>
    BY DEF EndCommand, Crash, EditPolicy, WriteIntegrationTree, vars, store, git
  <2> QED BY <1>1, <2>1, <2>2, <2>3 DEF TypeInv, TypeOK
<1>3. PlaceOK' /\ StageOK'
  BY <1>1 DEF TypeInv, PlaceOK, StageOK, Idle, OnAgentTask, Holding
<1> QED BY <1>2, <1>3 DEF TypeInv

LEMMA NextType == TypeInv /\ [Next]_vars => TypeInv'
  BY OnceType, RunType, IntegrateType, OperatorType, FailsType, OutsideType, ReconcileType,
     RestType DEF Next

\* Every reachable state has the shapes the code gives it, whatever the plan, the
\* trees, the bounds and the disturbances.
THEOREM TypeCorrect == Spec => []TypeOK
<1>1. Spec => []TypeInv
  BY InitType, NextType, PTL DEF Spec
<1>2. TypeInv => TypeOK
  BY DEF TypeInv
<1> QED BY <1>1, <1>2, PTL

-----------------------------------------------------------------------------
(* The repair budget.  repair_cycles only bounds a run; what the operator  *)
(* authorised may span several runs and a targeted retry, so the budget is *)
(* about turns, and three facts tie the two: turns never outrun            *)
(* repair_cycles, a task about to have its targeted repair has had no turn *)
(* since the retry, and no resume stage is left over while a run goes on.  *)

BudgetOf(t) == /\ turns[t] <= rt[t].repairs
               /\ turns[t] <= 1
               /\ rt[t].stage = "targeted_repair" => turns[t] = 0
               /\ rt[t].resume = "targeted_repair" => turns[t] = 0

BudgetInv == /\ \A t \in Tasks : BudgetOf(t)
             /\ proc.caught => rt[proc.task].resume = None

LEMMA InitBudget == Init => BudgetInv
  BY NoneIsNot DEF RunStages, Init, BudgetInv, BudgetOf, FreshRuntime, Idle

LEMMA OneMoreKeeps == ASSUME NEW p \in 0..RepairCap, NEW r \in 0..RepairCap, p <= r
                      PROVE  /\ OneMoreRepair(p) <= OneMoreRepair(r)
                             /\ p = 0 => OneMoreRepair(p) <= 1
  BY DEF OneMoreRepair

LEMMA OnceBudget == ASSUME TypeInv, BudgetInv, NEW t \in Tasks, Once(t) PROVE BudgetInv'
<1>1. CASE WaitForHumanGate(t)
  BY <1>1 DEF WaitForHumanGate, TypeInv, TypeOK, BudgetInv, BudgetOf, Runtime, Idle
<1>2. CASE PrepareTask(t)
  BY <1>2 DEF PrepareTask, BudgetInv, BudgetOf, Enter, store
<1>3. CASE RecoverCheckpoint(t)
  BY <1>3 DEF RecoverCheckpoint, TypeInv, TypeOK, PlaceOK, StageOK, BudgetInv, BudgetOf, Runtime, Advance, Hold, At
<1>4. CASE ResumeRun(t)
  BY <1>4 DEF ResumeRun, TypeInv, TypeOK, BudgetInv, BudgetOf, Runtime, Enter, ResumeStage
<1>5. CASE StartRun(t)
  BY <1>5 DEF StartRun, Restarted, TypeInv, TypeOK, BudgetInv, BudgetOf, Runtime, Enter
<1>6. CASE PrepareGate(t)
  BY <1>6 DEF PrepareGate, BudgetInv, BudgetOf, Enter, store
<1> QED BY <1>1, <1>2, <1>3, <1>4, <1>5, <1>6 DEF Once

LEMMA RunBudget == ASSUME TypeInv, BudgetInv, NEW t \in Tasks, Run(t) PROVE BudgetInv'
<1>1. CASE BeginImplement(t)
  BY <1>1 DEF BeginImplement, TypeInv, TypeOK, PlaceOK, StageOK, BudgetInv, BudgetOf, Runtime, Agents, Running, At, Advance, Hold, Enter, SaveStage
<1>2. CASE BeginTargetedRepair(t)
  <2>1. /\ turns[t] = 0
        /\ turns[t] \in 0..RepairCap /\ rt[t].repairs \in 0..RepairCap
    BY <1>2 DEF BeginTargetedRepair, TypeInv, TypeOK, BudgetInv, BudgetOf, Runtime
  <2>2. /\ OneMoreRepair(turns[t]) <= OneMoreRepair(rt[t].repairs)
        /\ OneMoreRepair(turns[t]) <= 1
    BY <2>1, OneMoreKeeps
  <2>3. /\ rt' = [rt EXCEPT ![t] = [rt[t] EXCEPT !.stage = "repairing",
                                               !.repairs = OneMoreRepair(@)]]
        /\ turns' = [turns EXCEPT ![t] = OneMoreRepair(@)]
        /\ proc.caught /\ proc.task = t /\ proc'.task = t
    BY <1>2 DEF BeginTargetedRepair, TypeInv, TypeOK, Running, At, Advance, Hold, Processes
  <2>4. \A u \in Tasks : BudgetOf(u)'
    <3>1. rt[t].resume # "targeted_repair"
      BY <2>3, NoneIsNot DEF BudgetInv, RunStages
    <3>2. BudgetOf(t)'
      BY <2>2, <2>3, <3>1 DEF BudgetOf, TypeInv, TypeOK, Runtime
    <3>3. \A u \in Tasks \ {t} : BudgetOf(u)'
      BY <2>3 DEF BudgetInv, BudgetOf, TypeInv, TypeOK
    <3> QED BY <3>2, <3>3
  <2> QED BY <2>3, <2>4 DEF BudgetInv, TypeInv, TypeOK, Runtime
<1>3. CASE BeginReverify(t)
  BY <1>3 DEF BeginReverify, TypeInv, TypeOK, PlaceOK, StageOK, BudgetInv, BudgetOf, Runtime, Agents, Running, At, Advance, Hold, Enter, SaveStage
<1>4. CASE AgentReturns(t)
  BY <1>4 DEF AgentReturns, TypeInv, TypeOK, PlaceOK, StageOK, BudgetInv, BudgetOf, Runtime, Agents, Running, At, Advance, Hold, Enter, SaveStage
<1>5. CASE VerifyPasses(t)
  BY <1>5 DEF VerifyPasses, TypeInv, TypeOK, PlaceOK, StageOK, BudgetInv, BudgetOf, Runtime, Agents, Running, At, Advance, Hold, Enter, SaveStage
<1>6. CASE ReviewAccepts(t)
  BY <1>6 DEF ReviewAccepts, TypeInv, TypeOK, PlaceOK, StageOK, BudgetInv, BudgetOf, Runtime, Agents, Running, At, Advance, Hold, Enter, Reviewed
<1>7. CASE NeedsHuman(t)
  BY <1>7 DEF NeedsHuman, TypeInv, TypeOK, PlaceOK, StageOK, BudgetInv, BudgetOf, Runtime, Agents, Idle
<1>8. CASE BeginRepair(t)
  <2>1. /\ turns[t] = 0
        /\ turns[t] \in 0..RepairCap /\ rt[t].repairs \in 0..RepairCap
    <3>1. rt[t].repairs \in 0..RepairCap /\ turns[t] \in 0..RepairCap
      BY DEF TypeInv, TypeOK, Runtime
    <3>2. AutonomousLimit \in Nat /\ AutonomousLimit <= 1
      BY RepairAssumption DEF AutonomousLimit
    <3>3. rt[t].repairs < AutonomousLimit /\ turns[t] <= rt[t].repairs
      BY <1>8 DEF BeginRepair, BudgetInv, BudgetOf
    <3> QED BY <3>1, <3>2, <3>3
  <2>2. /\ OneMoreRepair(turns[t]) <= OneMoreRepair(rt[t].repairs)
        /\ OneMoreRepair(turns[t]) <= 1
    BY <2>1, OneMoreKeeps
  <2>3. /\ rt' = [rt EXCEPT ![t] = [rt[t] EXCEPT !.stage = "repairing",
                                               !.repairs = OneMoreRepair(@)]]
        /\ turns' = [turns EXCEPT ![t] = OneMoreRepair(@)]
        /\ proc.caught /\ proc.task = t /\ proc'.task = t
    BY <1>8 DEF BeginRepair, TypeInv, TypeOK, Running, At, CallsForRepair, Reviewed, Enter
  <2>4. \A u \in Tasks : BudgetOf(u)'
    <3>1. rt[t].resume # "targeted_repair"
      BY <2>3, NoneIsNot DEF BudgetInv, RunStages
    <3>2. BudgetOf(t)'
      BY <2>2, <2>3, <3>1 DEF BudgetOf, TypeInv, TypeOK, Runtime
    <3>3. \A u \in Tasks \ {t} : BudgetOf(u)'
      BY <2>3 DEF BudgetInv, BudgetOf, TypeInv, TypeOK
    <3> QED BY <3>2, <3>3
  <2> QED BY <2>3, <2>4 DEF BudgetInv, TypeInv, TypeOK, Runtime
<1>9. CASE ExhaustRepairs(t)
  BY <1>9 DEF ExhaustRepairs, TypeInv, TypeOK, PlaceOK, StageOK, BudgetInv, BudgetOf, Runtime, Agents, Running, At, Advance, Hold, Enter, CallsForRepair, Reviewed
<1>10. CASE CommitTask(t)
  BY <1>10 DEF CommitTask, TypeInv, TypeOK, PlaceOK, StageOK, BudgetInv, BudgetOf, Runtime, Agents, Running, At, Advance, Hold, Enter, store
<1>11. CASE SaveCheckpoint(t)
  BY <1>11 DEF SaveCheckpoint, TypeInv, TypeOK, PlaceOK, StageOK, BudgetInv, BudgetOf, Runtime, Agents, Running, At, Advance, Hold, Enter
<1> QED BY <1>1, <1>2, <1>3, <1>4, <1>5, <1>6, <1>7, <1>8, <1>9, <1>10, <1>11 DEF Run

LEMMA IntegrateBudget == ASSUME TypeInv, BudgetInv, NEW t \in Tasks, Integrate(t) PROVE BudgetInv'
<1>1. CASE ReadTree(t)
  BY <1>1 DEF ReadTree, TypeInv, TypeOK, PlaceOK, StageOK, BudgetInv, BudgetOf, Runtime, Agents, Running, At, Advance, Hold, Enter, store
<1>2. CASE AdvanceRef(t)
  BY <1>2 DEF AdvanceRef, TypeInv, TypeOK, PlaceOK, StageOK, BudgetInv, BudgetOf, Runtime, Agents, Running, At, Advance, Hold, Enter, store
<1>3. CASE AcceptTask(t)
  BY <1>3 DEF AcceptTask, TypeInv, TypeOK, PlaceOK, StageOK, BudgetInv, BudgetOf, Runtime, Agents, Idle
<1>4. CASE RollBack(t)
  BY <1>4 DEF RollBack, TypeInv, TypeOK, PlaceOK, StageOK, BudgetInv, BudgetOf, Runtime, Agents, Running, At, Advance, Hold, Enter, store
<1> QED BY <1>1, <1>2, <1>3, <1>4 DEF Integrate

LEMMA OperatorBudget == ASSUME TypeInv, BudgetInv, NEW t \in Tasks, Operator(t) PROVE BudgetInv'
<1>1. CASE Approve(t)
  BY <1>1 DEF Approve, TypeInv, TypeOK, PlaceOK, StageOK, BudgetInv, BudgetOf, Runtime, Agents, Enter
<1>2. CASE CommitHumanGate(t)
  BY <1>2 DEF CommitHumanGate, TypeInv, TypeOK, PlaceOK, StageOK, BudgetInv, BudgetOf, Runtime, Agents, Advance, Hold, store
<1>3. CASE AcceptGate(t)
  BY <1>3 DEF AcceptGate, TypeInv, TypeOK, PlaceOK, StageOK, BudgetInv, BudgetOf, Runtime, Agents, Idle
<1>4. CASE Reject(t)
  BY <1>4 DEF Reject, TypeInv, TypeOK, PlaceOK, StageOK, BudgetInv, BudgetOf, Runtime, Agents, Idle
<1>5. CASE Requeue(t)
  BY <1>5 DEF Requeue, TypeInv, TypeOK, PlaceOK, StageOK, BudgetInv, BudgetOf, Runtime, Agents, Idle
<1>6. CASE RetryTargeted(t)
  BY <1>6 DEF RetryTargeted, TypeInv, TypeOK, PlaceOK, StageOK, BudgetInv, BudgetOf, Runtime, Agents, Idle
<1>7. CASE Pause(t)
  BY <1>7 DEF Pause, TypeInv, TypeOK, PlaceOK, StageOK, BudgetInv, BudgetOf, Runtime, Agents, PausedRuntime, OnAgentTask
<1>8. CASE Interrupt(t)
  BY <1>8 DEF Interrupt, TypeInv, TypeOK, PlaceOK, StageOK, BudgetInv, BudgetOf, Runtime, Agents, PausedRuntime, Idle
<1>9. CASE OpenGate(t)
  BY <1>9 DEF OpenGate, BudgetInv, BudgetOf, Enter, store
<1> QED BY <1>1, <1>2, <1>3, <1>4, <1>5, <1>6, <1>7, <1>8, <1>9 DEF Operator

LEMMA RestBudget ==
  ASSUME TypeInv, BudgetInv,
         \/ \E t \in Tasks : RunFails(t) \/ Outside(t)
         \/ ReconcileAccepted \/ EndCommand \/ Crash \/ EditPolicy \/ WriteIntegrationTree
         \/ UNCHANGED vars
  PROVE  BudgetInv'
<1>1. ASSUME NEW t \in Tasks, RunFails(t) PROVE BudgetInv'
  BY <1>1 DEF RunFails, TypeInv, TypeOK, BudgetInv, BudgetOf, Runtime, Idle
<1>2. ASSUME NEW t \in Tasks, Outside(t) PROVE BudgetInv'
  BY <1>2 DEF Outside, WriteTree, AgentCommits, BudgetInv, BudgetOf, store
<1>3. CASE ReconcileAccepted
  <2>1. \A t \in Tasks : /\ rt'[t].repairs = rt[t].repairs /\ rt'[t].resume = rt[t].resume
                         /\ rt'[t].stage = "targeted_repair" => rt[t].stage = "targeted_repair"
    <3> TAKE t \in Tasks
    <3>1. rt[t] \in Runtime /\ rt'[t] = ReconciledTask(t)
      BY <1>3 DEF ReconcileAccepted, TypeInv, TypeOK
    <3> QED BY <3>1 DEF ReconciledTask, Runtime
  <2> QED BY <1>3, <2>1 DEF ReconcileAccepted, BudgetInv, BudgetOf, Enter
<1>4. CASE EndCommand \/ Crash \/ EditPolicy \/ WriteIntegrationTree \/ UNCHANGED vars
  <2>1. rt' = rt /\ turns' = turns /\ (proc' = proc \/ proc' = Idle)
    BY <1>4 DEF EndCommand, Crash, EditPolicy, WriteIntegrationTree, vars, store
  <2> QED BY <2>1 DEF BudgetInv, BudgetOf, Idle
<1> QED BY <1>1, <1>2, <1>3, <1>4

LEMMA NextBudget == TypeInv /\ BudgetInv /\ [Next]_vars => BudgetInv'
  BY OnceBudget, RunBudget, IntegrateBudget, OperatorBudget, RestBudget DEF Next

\* For every plan, policy ceiling and disturbance: between two authorisations by the
\* operator a task gets at most one repair turn.
THEOREM RepairBudgetHolds == Spec => []RepairBudget
<1>1. Spec => []TypeInv
  BY InitType, NextType, PTL DEF Spec
<1>2. Spec => []BudgetInv
  BY <1>1, InitBudget, NextBudget, PTL DEF Spec
<1>3. BudgetInv => RepairBudget
  BY DEF BudgetInv, BudgetOf, RepairBudget
<1> QED BY <1>2, <1>3, PTL

-----------------------------------------------------------------------------
(* Policy drift stops delivery.  A command whose policy files differ from  *)
(* the pinned ones ever since it took the lock does not get further than   *)
(* reconciling acceptance; one that got further found them undrifted at    *)
(* its preflight, and then nothing but another edit tells it otherwise.    *)

AtStart == proc.pc \in {"idle", "ready"}

DriftFoundAtStart == drift = "throughout" => AtStart

\* The actions that need a command past its start.
LEMMA StartedOnly ==
    ASSUME TypeInv, AtStart, NEW t \in Tasks
    PROVE  /\ ~Run(t) /\ ~Integrate(t) /\ ~RunFails(t) /\ ~Interrupt(t)
           /\ ~CommitHumanGate(t) /\ ~AcceptGate(t)
           /\ ~RecoverCheckpoint(t) /\ ~ResumeRun(t) /\ ~StartRun(t)
<1> USE DEF AtStart, At, Running, Reviewed, CallsForRepair
<1>1. ~proc.caught
  BY DEF TypeInv, StageOK, OnAgentTask
<1>2. ~Run(t)
  BY DEF Run, BeginImplement, BeginTargetedRepair, BeginReverify, AgentReturns, VerifyPasses,
         ReviewAccepts, NeedsHuman, BeginRepair, ExhaustRepairs, CommitTask, SaveCheckpoint
<1>3. ~Integrate(t)
  BY DEF Integrate, ReadTree, AdvanceRef, AcceptTask, RollBack
<1>4. ~RunFails(t) /\ ~Interrupt(t)
  BY <1>1 DEF RunFails, Interrupt
<1>5. ~CommitHumanGate(t) /\ ~AcceptGate(t)
  BY DEF CommitHumanGate, AcceptGate
<1>6. ~RecoverCheckpoint(t) /\ ~ResumeRun(t) /\ ~StartRun(t)
  BY DEF RecoverCheckpoint, ResumeRun, StartRun
<1> QED BY <1>2, <1>3, <1>4, <1>5, <1>6

Held == /\ main' = main
        /\ \A t \in Tasks : rt'[t].status = "accepted" =>
             rt[t].status = "accepted" \/ "checkpoint" \in edited'[t]

\* What is left to a command that finds the policy drifted delivers nothing, accepts nothing but
\* what was recorded under the same edited files, and does not get past its start.
LEMMA DriftedStep ==
    ASSUME TypeInv, Drifted, AtStart, [Next]_vars
    PROVE  Held /\ AtStart'
<1>1. CASE ReconcileAccepted
  <2>1. \A t \in Tasks : rt'[t].status = "accepted" =>
          rt[t].status = "accepted" \/ "checkpoint" \in edited'[t]
    <3> TAKE t \in Tasks
    <3>1. rt[t] \in Runtime /\ rt'[t] = ReconciledTask(t)
      BY <1>1 DEF ReconcileAccepted, TypeInv, TypeOK
    <3>2. CASE Claimed(t)
      BY <1>1, <3>2 DEF ReconcileAccepted, Noted
    <3>3. CASE ~Claimed(t) /\ SameDigest(t, "checkpoint")
      BY <1>1, <3>3 DEF ReconcileAccepted, SameDigest
    <3>4. CASE ~PolicyHolds(t)
      <4>1. ~CheckpointValid(t)
        BY <3>4 DEF CheckpointValid
      <4> QED BY <3>1, <4>1 DEF ReconciledTask, Runtime
    <3> QED BY <3>2, <3>3, <3>4 DEF PolicyHolds
  <2> QED BY <1>1, <2>1 DEF ReconcileAccepted, Held, AtStart, Enter, git
<1>2. CASE EndCommand \/ Crash \/ EditPolicy \/ WriteIntegrationTree \/ UNCHANGED vars
  <2>1. main' = main /\ rt' = rt /\ (proc' = Idle \/ proc' = proc)
    BY <1>2 DEF EndCommand, Crash, EditPolicy, WriteIntegrationTree, vars, store, git
  <2> QED BY <2>1 DEF Held, AtStart, Idle
<1>3. ASSUME NEW t \in Tasks, Once(t) PROVE Held /\ AtStart'
  BY <1>3, StartedOnly DEF Once, PrepareGate, WaitForHumanGate, PrepareTask, At, AtStart
<1>4. ASSUME NEW t \in Tasks, Operator(t) PROVE Held /\ AtStart'
  <2>1. Requeue(t) \/ Pause(t) \/ Reject(t) \/ RetryTargeted(t)
    BY <1>4, StartedOnly DEF Operator, OpenGate, Approve, At, AtStart
  <2>2. main' = main /\ (proc' = Idle \/ proc' = proc)
    BY <2>1 DEF Requeue, Pause, Reject, RetryTargeted, git
  <2>3. rt \in [Tasks -> Runtime]
    BY DEF TypeInv, TypeOK
  <2>4. \A u \in Tasks : rt'[u].status = "accepted" => rt[u].status = "accepted"
    <3> TAKE u \in Tasks
    <3>1. CASE Requeue(t)
      BY <2>3, <3>1 DEF Requeue, Runtime
    <3>2. CASE Pause(t)
      BY <2>3, <3>2 DEF Pause, PausedRuntime, Runtime
    <3>3. CASE Reject(t)
      BY <2>3, <3>3 DEF Reject, Runtime
    <3>4. CASE RetryTargeted(t)
      BY <2>3, <3>4 DEF RetryTargeted, Runtime
    <3> QED BY <2>1, <3>1, <3>2, <3>3, <3>4
  <2> QED BY <2>2, <2>4 DEF Held, AtStart, Idle
<1>5. ASSUME NEW t \in Tasks, Outside(t) PROVE Held /\ AtStart'
  BY <1>5 DEF Outside, WriteTree, AgentCommits, store, Held, AtStart
<1> QED BY <1>1, <1>2, <1>3, <1>4, <1>5, StartedOnly DEF Next

\* No command changes the policy files; one that starts only notes how it found them.
LEMMA DriftBegins == ASSUME [Next]_vars, drift' # drift PROVE EditPolicy \/ ReconcileAccepted
<1>1. ASSUME NEW t \in Tasks, Once(t) PROVE drift' = drift
  BY <1>1 DEF Once, PrepareGate, WaitForHumanGate, PrepareTask, RecoverCheckpoint, ResumeRun, StartRun
<1>2. ASSUME NEW t \in Tasks, Run(t) PROVE drift' = drift
  BY <1>2 DEF Run, BeginImplement, BeginTargetedRepair, BeginReverify, AgentReturns, VerifyPasses,
              ReviewAccepts, NeedsHuman, BeginRepair, ExhaustRepairs, CommitTask, SaveCheckpoint
<1>3. ASSUME NEW t \in Tasks, Integrate(t) \/ RunFails(t) PROVE drift' = drift
  BY <1>3 DEF Integrate, ReadTree, AdvanceRef, AcceptTask, RollBack, RunFails
<1>4. ASSUME NEW t \in Tasks, Operator(t) PROVE drift' = drift
  BY <1>4 DEF Operator, OpenGate, Approve, CommitHumanGate, AcceptGate, Reject, Requeue, RetryTargeted, Pause,
              Interrupt
<1>5. ASSUME NEW t \in Tasks, Outside(t) PROVE drift' = drift
  BY <1>5 DEF Outside, WriteTree, AgentCommits
<1>6. CASE EndCommand \/ Crash \/ WriteIntegrationTree \/ UNCHANGED vars
  BY <1>6 DEF EndCommand, Crash, WriteIntegrationTree, vars
<1> QED BY <1>1, <1>2, <1>3, <1>4, <1>5, <1>6 DEF Next

LEMMA NextDrift == TypeInv /\ DriftFoundAtStart /\ [Next]_vars => DriftFoundAtStart'
<1> SUFFICES ASSUME TypeInv, DriftFoundAtStart, [Next]_vars, drift' = "throughout" PROVE AtStart'
  BY DEF DriftFoundAtStart
<1>1. CASE drift = "throughout"
  BY <1>1, DriftedStep DEF DriftFoundAtStart, Drifted
<1>2. CASE drift # "throughout"
  <2>1. ReconcileAccepted
    BY <1>2, DriftBegins DEF EditPolicy
  <2> QED BY <2>1 DEF ReconcileAccepted, Enter, AtStart
<1> QED BY <1>1, <1>2

\* For every plan and disturbance: a command whose policy files differed from the pinned ones ever
\* since it took the lock delivers nothing, accepts only what was recorded under the same edited
\* files, and nothing is delivered between commands (engine.py:242-304, 1399-1430).
THEOREM DriftHoldsDelivery == Spec => DriftStopsDelivery
<1>1. Spec => []TypeInv
  BY InitType, NextType, PTL DEF Spec
<1>2. Init => DriftFoundAtStart
  BY DEF Init, DriftFoundAtStart
<1>3. Spec => []DriftFoundAtStart
  BY <1>1, <1>2, NextDrift, PTL DEF Spec
<1>4. TypeInv /\ DriftFoundAtStart /\ [Next]_vars =>
        [drift = "throughout" \/ (Drifted /\ proc.pc = "idle") =>
           /\ main' = main
           /\ \A t \in Tasks : rt'[t].status = "accepted" =>
                rt[t].status = "accepted" \/ "checkpoint" \in edited'[t]]_vars
  <2> SUFFICES ASSUME TypeInv, DriftFoundAtStart, [Next]_vars,
                      drift = "throughout" \/ (Drifted /\ proc.pc = "idle")
               PROVE  Held
    BY DEF Held
  <2>1. Drifted /\ AtStart
    BY DEF DriftFoundAtStart, AtStart, Drifted
  <2> QED BY <2>1, DriftedStep
<1> QED BY <1>1, <1>3, <1>4, PTL DEF Spec, DriftStopsDelivery

-----------------------------------------------------------------------------
(***************************************************************************)
(* What the integration branch delivers of the agent tasks, for every plan *)
(* and every disturbance.  The invariant says what a command knows at each *)
(* point of a run (Place), what the record of a task says of its branch    *)
(* and of the last review whoever wrote it (Record), and that deliveries   *)
(* stay in the history (Delivery).                                         *)
(***************************************************************************)

\* The commit a reviewer accepted for t: its exact tree w on the parent c.
Candidate(t, c, w) == Append(c, [task |-> t, tree |-> w])

Known(t) == rt[t].ckpt # None
InHistory(t) == Known(t) /\ IsPrefix(rt[t].ckpt, main)

BeforeCommit == {"guide", "implement", "repair", "verify", "review", "commit"}

\* What a command knows of the task it works on.
Place ==
  LET t == proc.task IN
  /\ proc.pc = "prepared" => rt[t].status # "accepted"
  /\ proc.pc \in BeforeCommit \cup {"committed"} => rt[t].base = main /\ rt[t].ckpt = None
  /\ proc.pc \in {"commit", "committed"} =>
       /\ rt[t].intent = [base |-> main, tree |-> proc.tree]
       /\ reviewed[t] = Candidate(t, main, proc.tree)
  /\ proc.pc = "committed" => proc.commit = reviewed[t]
  /\ proc.pc \in {"integrate", "advance", "settle"} => rt[t].status # "accepted" /\ Known(t)
  /\ proc.pc \in {"integrate", "advance"} => Front(rt[t].ckpt) = main
  /\ proc.pc = "advance" => IsPrefix(rt[t].ckpt, proc.commit)
  /\ proc.pc = "settle" => Front(rt[t].ckpt) = proc.commit /\ IsPrefix(rt[t].ckpt, main)
  /\ proc.pc \in {"opened", "gatecommit", "gatecommitted"} => t \in Gates
  /\ proc.pc = "gatecommit" => reviewed[t] = Candidate(t, main, proc.tree)

\* b grew out of c by commits on the branch of t, its last one at least.
Descends(t, b, c) == /\ b # None /\ IsPrefix(c, b)
                     /\ b = c \/ Last(b).task = t

\* What the record of an agent task says, whichever command wrote it, and whatever
\* was committed on its branch since.
Record(t) ==
  /\ rt[t].approving = None
  /\ Known(t) => /\ rt[t].ckpt = reviewed[t] /\ rt[t].ckpt # <<>>
                 /\ Front(rt[t].ckpt) = rt[t].base
                 /\ branch[t] # None /\ IsPrefix(rt[t].ckpt, branch[t])
  /\ rt[t].intent # None =>
       LET i == rt[t].intent IN
       /\ i.base = rt[t].base
       /\ reviewed[t] = Candidate(t, i.base, i.tree)
       /\ Descends(t, branch[t], i.base)

Delivery(t) ==
  rt[t].status = "accepted" => Known(t) /\ IsPrefix(rt[t].ckpt, LedgerView)

LedgerInv == /\ Place
             /\ \A t \in Agents : Record(t)
             /\ \A t \in Agents : Delivery(t)

-----------------------------------------------------------------------------
(* Commits as paths. *)

LEMMA EntryType == ASSUME NEW t \in Tasks, NEW w \in Trees
                   PROVE  [task |-> t, tree |-> w] \in Entry
  BY DEF Entry

LEMMA CandidateProperties ==
  ASSUME NEW t \in Tasks, NEW c \in Commits, NEW w \in Trees
  PROVE  /\ Candidate(t, c, w) \in Commits
         /\ Candidate(t, c, w) # <<>>
         /\ Front(Candidate(t, c, w)) = c
         /\ Last(Candidate(t, c, w)).tree = w
<1> DEFINE e == [task |-> t, tree |-> w]
<1>1. e \in Entry
  BY EntryType
<1> HIDE DEF e
<1>2. /\ Append(c, e) \in Seq(Entry) /\ Len(Append(c, e)) = Len(c) + 1
      /\ Append(c, e)[Len(c) + 1] = e
  BY <1>1, AppendProperties DEF Commits
<1>3. Front(Append(c, e)) = c
  BY <1>1 DEF Commits, Front
<1>4. Append(c, e) # <<>>
  BY <1>2, LenProperties DEF Commits
<1>5. Last(Append(c, e)) = e
  BY <1>2 DEF Last
<1> QED BY <1>2, <1>3, <1>4, <1>5 DEF Candidate, e, Commits

LEMMA FrontElements ==
  ASSUME NEW c \in Commits, c # <<>>
  PROVE  /\ Len(c) \in Nat /\ Len(c) > 0
         /\ Front(c) \in Commits /\ Len(Front(c)) = Len(c) - 1
         /\ \A i \in 1..(Len(c) - 1) : Front(c)[i] = c[i]
<1>1. Len(c) \in Nat /\ Len(c) > 0
  BY EmptySeq, LenProperties DEF Commits
<1>2. \A i \in 1..(Len(c) - 1) : c[i] \in Entry
  BY <1>1, LenProperties DEF Commits
<1>3. /\ SubSeq(c, 1, Len(c) - 1) \in Seq(Entry)
      /\ Len(SubSeq(c, 1, Len(c) - 1)) = IF 1 <= Len(c) - 1 THEN Len(c) - 1 - 1 + 1 ELSE 0
      /\ \A i \in 1..(Len(c) - 1 - 1 + 1) : SubSeq(c, 1, Len(c) - 1)[i] = c[1 + i - 1]
  BY <1>1, <1>2, SubSeqProperties
<1>4. \A i \in 1..(Len(c) - 1) : SubSeq(c, 1, Len(c) - 1)[i] = c[i]
  <2> TAKE i \in 1..(Len(c) - 1)
  <2>1. i \in 1..(Len(c) - 1 - 1 + 1) /\ 1 + i - 1 = i
    BY <1>1
  <2> QED BY <1>3, <2>1
<1>5. Len(SubSeq(c, 1, Len(c) - 1)) = Len(c) - 1
  <2> DEFINE n == Len(c)
  <2>1. n \in Nat /\ n > 0 /\ Len(SubSeq(c, 1, n - 1)) = IF 1 <= n - 1 THEN n - 1 - 1 + 1 ELSE 0
    BY <1>1, <1>3
  <2> HIDE DEF n
  <2>2. Len(SubSeq(c, 1, n - 1)) = n - 1
    BY <2>1
  <2> QED BY <2>2 DEF n
<1> QED BY <1>1, <1>3, <1>4, <1>5 DEF Front, Commits

LEMMA FrontIsShorter == ASSUME NEW c \in Commits, c # <<>> PROVE Front(c) # c
  BY FrontElements

LEMMA PrefixElements ==
  ASSUME NEW b \in Commits, NEW c \in Commits
  PROVE  IsPrefix(b, c) <=> Len(b) <= Len(c) /\ \A i \in 1..Len(b) : b[i] = c[i]
<1>1. Len(b) \in Nat /\ Len(c) \in Nat /\ b \in Seq(Entry) /\ c \in Seq(Entry)
  BY LenProperties DEF Commits
<1>2. /\ SubSeq(b, 1, Len(b)) \in Seq(Entry) /\ Len(SubSeq(b, 1, Len(b))) = Len(b)
      /\ \A i \in 1..Len(b) : SubSeq(b, 1, Len(b))[i] = b[i]
  BY <1>1
<1>3. ASSUME Len(b) <= Len(c)
      PROVE  /\ SubSeq(c, 1, Len(b)) \in Seq(Entry) /\ Len(SubSeq(c, 1, Len(b))) = Len(b)
             /\ \A i \in 1..Len(b) : SubSeq(c, 1, Len(b))[i] = c[i]
  BY <1>1, <1>3
<1>4. ASSUME Len(b) <= Len(c), \A i \in 1..Len(b) : b[i] = c[i]
      PROVE  SubSeq(b, 1, Len(b)) = SubSeq(c, 1, Len(b))
  BY <1>1, <1>2, <1>3, <1>4, SeqEqual
<1> QED BY <1>1, <1>2, <1>3, <1>4 DEF IsPrefix

LEMMA PrefixReflexive == ASSUME NEW c \in Commits PROVE IsPrefix(c, c)
  BY PrefixElements, LenProperties DEF Commits

LEMMA PrefixOfFront ==
  ASSUME NEW b \in Commits, NEW c \in Commits, c # <<>>, IsPrefix(b, Front(c))
  PROVE  IsPrefix(b, c)
<1>1. Len(b) \in Nat
  BY LenProperties DEF Commits
<1> QED BY <1>1, FrontElements, PrefixElements

LEMMA PrefixOfCandidate ==
  ASSUME NEW b \in Commits, NEW c \in Commits, NEW t \in Tasks, NEW w \in Trees, IsPrefix(b, c)
  PROVE  IsPrefix(b, Candidate(t, c, w))
  BY CandidateProperties, PrefixOfFront

LEMMA CandidateTask ==
  ASSUME NEW t \in Tasks, NEW c \in Commits, NEW w \in Trees
  PROVE  Last(Candidate(t, c, w)).task = t
<1> DEFINE e == [task |-> t, tree |-> w]
<1>1. e \in Entry
  BY EntryType
<1> HIDE DEF e
<1>2. Len(Append(c, e)) = Len(c) + 1 /\ Append(c, e)[Len(c) + 1] = e
  BY <1>1, AppendProperties DEF Commits
<1>3. Last(Append(c, e)) = e
  BY <1>2 DEF Last
<1> QED BY <1>3 DEF Candidate, e

\* A commit is its parent and its last entry.
LEMMA LastIsCandidate ==
  ASSUME NEW c \in Commits, c # <<>>
  PROVE  c = Candidate(Last(c).task, Front(c), Last(c).tree)
<1> DEFINE e == [task |-> Last(c).task, tree |-> Last(c).tree]
<1>1. /\ Len(c) \in Nat /\ Len(c) > 0 /\ Front(c) \in Commits /\ Len(Front(c)) = Len(c) - 1
      /\ \A i \in 1..(Len(c) - 1) : Front(c)[i] = c[i]
  BY FrontElements
<1>2. Last(c) \in Entry /\ Last(c) = c[Len(c)]
  BY <1>1, ElementOfSeq DEF Commits, Last
<1>3. e = c[Len(c)] /\ e \in Entry
  BY <1>2 DEF Entry
<1> HIDE DEF e
<1>4. /\ Append(Front(c), e) \in Seq(Entry) /\ Len(Append(Front(c), e)) = Len(Front(c)) + 1
      /\ \A i \in 1..Len(Front(c)) : Append(Front(c), e)[i] = Front(c)[i]
      /\ Append(Front(c), e)[Len(Front(c)) + 1] = e
  BY <1>1, <1>3, AppendProperties DEF Commits
<1>5. Len(Append(Front(c), e)) = Len(c)
  BY <1>1, <1>4
<1>6. \A i \in 1..Len(c) : Append(Front(c), e)[i] = c[i]
  <2> TAKE i \in 1..Len(c)
  <2>1. CASE i = Len(c)
    BY <1>1, <1>3, <1>4, <2>1
  <2>2. CASE i # Len(c)
    BY <1>1, <1>4, <2>2
  <2> QED BY <2>1, <2>2
<1>7. Append(Front(c), e) = c
  BY <1>4, <1>5, <1>6, SeqEqual DEF Commits
<1> QED BY <1>7 DEF Candidate, e

LEMMA LongerIsNoPrefix ==
  ASSUME NEW b \in Commits, NEW c \in Commits, b # <<>>, Front(b) = c
  PROVE  ~IsPrefix(b, c)
<1>1. Len(c) = Len(b) - 1 /\ Len(b) \in Nat
  BY FrontElements
<1> QED BY <1>1, PrefixElements

LEMMA PrefixTransitive ==
  ASSUME NEW a \in Commits, NEW b \in Commits, NEW c \in Commits, IsPrefix(a, b), IsPrefix(b, c)
  PROVE  IsPrefix(a, c)
<1>1. Len(a) \in Nat /\ Len(b) \in Nat /\ Len(c) \in Nat
  BY LenProperties DEF Commits
<1> QED BY <1>1, PrefixElements

LEMMA FrontIsPrefix == ASSUME NEW c \in Commits, c # <<>> PROVE IsPrefix(Front(c), c)
  BY FrontType, PrefixReflexive, PrefixOfFront

LEMMA DescendsGrows ==
  ASSUME NEW t \in Tasks, NEW b \in Commits, NEW c \in Commits, NEW w \in Trees, Descends(t, b, c)
  PROVE  Descends(t, Candidate(t, b, w), c)
  BY CandidateProperties, CandidateTask, PrefixOfCandidate, NoneIsNot DEF Descends

-----------------------------------------------------------------------------
(* Steps that leave what a record says of an agent task as it was. *)

SameRecord(u) ==
  /\ rt'[u].approving = rt[u].approving /\ rt'[u].ckpt = rt[u].ckpt
  /\ rt'[u].intent = rt[u].intent
  /\ rt'[u].base = rt[u].base
  /\ branch'[u] = branch[u] /\ reviewed'[u] = reviewed[u]

NotNewlyAccepted(u) == rt'[u].status = "accepted" => rt[u].status = "accepted"

LEMMA SameRecordKeeps ==
  ASSUME LedgerInv, NEW u \in Agents, SameRecord(u) PROVE Record(u)'
  BY DEF LedgerInv, Record, SameRecord, Known, Descends

\* The head before an integration is a part of the head after it.
LEMMA SettleOnTop ==
  ASSUME TypeInv, LedgerInv, proc.pc = "settle"
  PROVE  /\ proc.task \in Agents /\ proc.commit \in Commits /\ main \in Commits
         /\ rt[proc.task].ckpt \in Commits /\ rt[proc.task].ckpt # <<>>
         /\ Front(rt[proc.task].ckpt) = proc.commit
         /\ IsPrefix(proc.commit, rt[proc.task].ckpt) /\ IsPrefix(rt[proc.task].ckpt, main)
<1>1. proc.task \in Agents /\ proc.task \in Tasks /\ proc.commit \in Commits /\ main \in Commits
  BY DEF TypeInv, TypeOK, PlaceOK, OnAgentTask, Holding, Agents
<1>2. /\ Known(proc.task) /\ Front(rt[proc.task].ckpt) = proc.commit
      /\ IsPrefix(rt[proc.task].ckpt, main) /\ rt[proc.task].ckpt # <<>>
  BY <1>1 DEF LedgerInv, Place, Record
<1>3. rt[proc.task].ckpt \in Commits
  BY <1>1, <1>2 DEF Known, TypeInv, TypeOK, Runtime
<1> QED BY <1>1, <1>2, <1>3, FrontIsPrefix

LEMMA ViewGrows ==
  ASSUME TypeInv, LedgerInv, main' = main, proc'.pc = "settle" => proc' = proc
  PROVE  \A c \in Commits : IsPrefix(c, LedgerView) => IsPrefix(c, LedgerView')
<1>1. CASE proc.pc = "settle"
  <2> TAKE c \in Commits
  <2>1. IsPrefix(c, proc.commit) => IsPrefix(c, main)
    BY <1>1, SettleOnTop, PrefixTransitive
  <2>2. LedgerView = proc.commit /\ (LedgerView' = proc.commit \/ LedgerView' = main)
    BY <1>1 DEF LedgerView
  <2> QED BY <2>1, <2>2
<1>2. CASE proc.pc # "settle"
  BY <1>2 DEF LedgerView
<1> QED BY <1>1, <1>2

LEMMA SameDeliveryKeeps ==
  ASSUME TypeInv, LedgerInv, main' = main, proc'.pc = "settle" => proc' = proc,
         NEW u \in Agents, NotNewlyAccepted(u),
         rt'[u].status = "accepted" => rt'[u].ckpt = rt[u].ckpt
  PROVE  Delivery(u)'
<1> SUFFICES ASSUME rt'[u].status = "accepted"
             PROVE  rt'[u].ckpt # None /\ IsPrefix(rt'[u].ckpt, LedgerView')
  BY DEF Delivery, Known
<1>1. rt[u].ckpt # None /\ IsPrefix(rt[u].ckpt, LedgerView)
  BY DEF LedgerInv, Delivery, Known, NotNewlyAccepted
<1>2. rt[u].ckpt \in Commits
  BY <1>1 DEF TypeInv, TypeOK, Runtime, Agents
<1> QED BY <1>1, <1>2, ViewGrows DEF LedgerInv

LEMMA Unrelated ==
  ASSUME TypeInv, LedgerInv, Place',
         \A u \in Agents : SameRecord(u) /\ NotNewlyAccepted(u),
         main' = main, proc'.pc = "settle" => proc' = proc
  PROVE  LedgerInv'
  BY SameRecordKeeps, SameDeliveryKeeps DEF LedgerInv, SameRecord

LEMMA QuietRunLedger ==
  ASSUME TypeInv, LedgerInv, NEW t \in Tasks,
         \/ BeginImplement(t) \/ BeginTargetedRepair(t) \/ BeginReverify(t) \/ AgentReturns(t)
         \/ VerifyPasses(t) \/ NeedsHuman(t) \/ BeginRepair(t) \/ ExhaustRepairs(t)
         \/ RunFails(t) \/ Interrupt(t)
  PROVE  LedgerInv'
<1>1. CASE BeginImplement(t)
  <2>1. \A u \in Agents : SameRecord(u) /\ NotNewlyAccepted(u)
    BY <1>1 DEF BeginImplement, TypeInv, TypeOK, Agents, Runtime, store, git, Running, At, Advance, Hold, Enter, SaveStage, SameRecord, NotNewlyAccepted
  <2>2. main' = main /\ (proc'.pc = "settle" => proc' = proc)
    BY <1>1 DEF BeginImplement, TypeInv, TypeOK, Agents, Runtime, store, git, Running, At, Advance, Hold, Enter, SaveStage
  <2>3. Place'
    BY <1>1 DEF BeginImplement, TypeInv, TypeOK, Agents, Runtime, store, git, Running, At, Advance, Hold, Enter, SaveStage, LedgerInv, Place, Known, BeforeCommit, PlaceOK, StageOK, OnAgentTask, Holding, Processes
  <2> QED BY <2>1, <2>2, <2>3, Unrelated
<1>2. CASE BeginTargetedRepair(t)
  <2>1. \A u \in Agents : SameRecord(u) /\ NotNewlyAccepted(u)
    BY <1>2 DEF BeginTargetedRepair, TypeInv, TypeOK, Agents, Runtime, store, git, Running, At, Advance, Hold, Enter, SaveStage, SameRecord, NotNewlyAccepted
  <2>2. main' = main /\ (proc'.pc = "settle" => proc' = proc)
    BY <1>2 DEF BeginTargetedRepair, TypeInv, TypeOK, Agents, Runtime, store, git, Running, At, Advance, Hold, Enter, SaveStage
  <2>3. Place'
    BY <1>2 DEF BeginTargetedRepair, TypeInv, TypeOK, Agents, Runtime, store, git, Running, At, Advance, Hold, Enter, SaveStage, LedgerInv, Place, Known, BeforeCommit, PlaceOK, StageOK, OnAgentTask, Holding, Processes
  <2> QED BY <2>1, <2>2, <2>3, Unrelated
<1>3. CASE BeginReverify(t)
  <2>1. \A u \in Agents : SameRecord(u) /\ NotNewlyAccepted(u)
    BY <1>3 DEF BeginReverify, TypeInv, TypeOK, Agents, Runtime, store, git, Running, At, Advance, Hold, Enter, SaveStage, SameRecord, NotNewlyAccepted
  <2>2. main' = main /\ (proc'.pc = "settle" => proc' = proc)
    BY <1>3 DEF BeginReverify, TypeInv, TypeOK, Agents, Runtime, store, git, Running, At, Advance, Hold, Enter, SaveStage
  <2>3. Place'
    BY <1>3 DEF BeginReverify, TypeInv, TypeOK, Agents, Runtime, store, git, Running, At, Advance, Hold, Enter, SaveStage, LedgerInv, Place, Known, BeforeCommit, PlaceOK, StageOK, OnAgentTask, Holding, Processes
  <2> QED BY <2>1, <2>2, <2>3, Unrelated
<1>4. CASE AgentReturns(t)
  <2>1. \A u \in Agents : SameRecord(u) /\ NotNewlyAccepted(u)
    BY <1>4 DEF AgentReturns, TypeInv, TypeOK, Agents, Runtime, store, git, Running, At, Advance, Hold, Enter, SaveStage, SameRecord, NotNewlyAccepted
  <2>2. main' = main /\ (proc'.pc = "settle" => proc' = proc)
    BY <1>4 DEF AgentReturns, TypeInv, TypeOK, Agents, Runtime, store, git, Running, At, Advance, Hold, Enter, SaveStage
  <2>3. Place'
    BY <1>4 DEF AgentReturns, TypeInv, TypeOK, Agents, Runtime, store, git, Running, At, Advance, Hold, Enter, SaveStage, LedgerInv, Place, Known, BeforeCommit, PlaceOK, StageOK, OnAgentTask, Holding, Processes
  <2> QED BY <2>1, <2>2, <2>3, Unrelated
<1>5. CASE VerifyPasses(t)
  <2>1. \A u \in Agents : SameRecord(u) /\ NotNewlyAccepted(u)
    BY <1>5 DEF VerifyPasses, TypeInv, TypeOK, Agents, Runtime, store, git, Running, At, Advance, Hold, Enter, SaveStage, SameRecord, NotNewlyAccepted
  <2>2. main' = main /\ (proc'.pc = "settle" => proc' = proc)
    BY <1>5 DEF VerifyPasses, TypeInv, TypeOK, Agents, Runtime, store, git, Running, At, Advance, Hold, Enter, SaveStage
  <2>3. Place'
    BY <1>5 DEF VerifyPasses, TypeInv, TypeOK, Agents, Runtime, store, git, Running, At, Advance, Hold, Enter, SaveStage, LedgerInv, Place, Known, BeforeCommit, PlaceOK, StageOK, OnAgentTask, Holding, Processes
  <2> QED BY <2>1, <2>2, <2>3, Unrelated
<1>6. CASE NeedsHuman(t)
  <2>1. \A u \in Agents : SameRecord(u) /\ NotNewlyAccepted(u)
    BY <1>6 DEF NeedsHuman, TypeInv, TypeOK, Agents, Runtime, store, git, Idle, SameRecord, NotNewlyAccepted
  <2>2. main' = main /\ (proc'.pc = "settle" => proc' = proc)
    BY <1>6 DEF NeedsHuman, TypeInv, TypeOK, Agents, Runtime, store, git, Idle
  <2>3. Place'
    BY <1>6 DEF NeedsHuman, TypeInv, TypeOK, Agents, Runtime, store, git, Idle, LedgerInv, Place, Known, BeforeCommit, PlaceOK, StageOK, OnAgentTask, Holding, Processes
  <2> QED BY <2>1, <2>2, <2>3, Unrelated
<1>7. CASE BeginRepair(t)
  <2>1. \A u \in Agents : SameRecord(u) /\ NotNewlyAccepted(u)
    BY <1>7 DEF BeginRepair, TypeInv, TypeOK, Agents, Runtime, store, git, Running, At, Advance, Hold, Enter, SaveStage, CallsForRepair, Reviewed, SameRecord, NotNewlyAccepted
  <2>2. main' = main /\ (proc'.pc = "settle" => proc' = proc)
    BY <1>7 DEF BeginRepair, TypeInv, TypeOK, Agents, Runtime, store, git, Running, At, Advance, Hold, Enter, SaveStage, CallsForRepair, Reviewed
  <2>3. Place'
    BY <1>7 DEF BeginRepair, TypeInv, TypeOK, Agents, Runtime, store, git, Running, At, Advance, Hold, Enter, SaveStage, CallsForRepair, Reviewed, LedgerInv, Place, Known, BeforeCommit, PlaceOK, StageOK, OnAgentTask, Holding, Processes
  <2> QED BY <2>1, <2>2, <2>3, Unrelated
<1>8. CASE ExhaustRepairs(t)
  <2>1. \A u \in Agents : SameRecord(u) /\ NotNewlyAccepted(u)
    BY <1>8 DEF ExhaustRepairs, TypeInv, TypeOK, Agents, Runtime, store, git, Running, At, Advance, Hold, Enter, SaveStage, CallsForRepair, Reviewed, SameRecord, NotNewlyAccepted
  <2>2. main' = main /\ (proc'.pc = "settle" => proc' = proc)
    BY <1>8 DEF ExhaustRepairs, TypeInv, TypeOK, Agents, Runtime, store, git, Running, At, Advance, Hold, Enter, SaveStage, CallsForRepair, Reviewed
  <2>3. Place'
    BY <1>8 DEF ExhaustRepairs, TypeInv, TypeOK, Agents, Runtime, store, git, Running, At, Advance, Hold, Enter, SaveStage, CallsForRepair, Reviewed, LedgerInv, Place, Known, BeforeCommit, PlaceOK, StageOK, OnAgentTask, Holding, Processes
  <2> QED BY <2>1, <2>2, <2>3, Unrelated
<1>10. CASE RunFails(t)
  <2>1. \A u \in Agents : SameRecord(u) /\ NotNewlyAccepted(u)
    BY <1>10 DEF RunFails, TypeInv, TypeOK, Agents, Runtime, store, git, Idle, SameRecord, NotNewlyAccepted
  <2>2. main' = main /\ (proc'.pc = "settle" => proc' = proc)
    BY <1>10 DEF RunFails, TypeInv, TypeOK, Agents, Runtime, store, git, Idle
  <2>3. Place'
    BY <1>10 DEF RunFails, TypeInv, TypeOK, Agents, Runtime, store, git, Idle, LedgerInv, Place, Known, BeforeCommit, PlaceOK, StageOK, OnAgentTask, Holding, Processes
  <2> QED BY <2>1, <2>2, <2>3, Unrelated
<1>11. CASE Interrupt(t)
  <2>1. \A u \in Agents : SameRecord(u) /\ NotNewlyAccepted(u)
    BY <1>11 DEF Interrupt, TypeInv, TypeOK, Agents, Runtime, store, git, Idle, PausedRuntime, SameRecord, NotNewlyAccepted
  <2>2. main' = main /\ (proc'.pc = "settle" => proc' = proc)
    BY <1>11 DEF Interrupt, TypeInv, TypeOK, Agents, Runtime, store, git, Idle, PausedRuntime
  <2>3. Place'
    BY <1>11 DEF Interrupt, TypeInv, TypeOK, Agents, Runtime, store, git, Idle, PausedRuntime, LedgerInv, Place, Known, BeforeCommit, PlaceOK, StageOK, OnAgentTask, Holding, Processes
  <2> QED BY <2>1, <2>2, <2>3, Unrelated
<1> QED BY <1>1, <1>2, <1>3, <1>4, <1>5, <1>6, <1>7, <1>8, <1>10, <1>11

LEMMA QuietOperatorLedger ==
  ASSUME TypeInv, LedgerInv, NEW t \in Tasks,
         \/ PrepareGate(t) \/ WaitForHumanGate(t) \/ OpenGate(t) \/ Approve(t) \/ AcceptGate(t) \/ Reject(t) \/ Requeue(t)
         \/ RetryTargeted(t) \/ Pause(t) \/ WriteTree(t)
  PROVE  LedgerInv'
<1>1. CASE WaitForHumanGate(t)
  <2>1. \A u \in Agents : SameRecord(u) /\ NotNewlyAccepted(u)
    BY <1>1 DEF WaitForHumanGate, TypeInv, TypeOK, Agents, Runtime, store, git, Idle, SameRecord, NotNewlyAccepted
  <2>2. main' = main /\ (proc'.pc = "settle" => proc' = proc)
    BY <1>1 DEF WaitForHumanGate, TypeInv, TypeOK, Agents, Runtime, store, git, Idle
  <2>3. Place'
    BY <1>1 DEF WaitForHumanGate, TypeInv, TypeOK, Agents, Runtime, store, git, Idle, LedgerInv, Place, Known, BeforeCommit, PlaceOK, StageOK, OnAgentTask, Holding, Processes
  <2> QED BY <2>1, <2>2, <2>3, Unrelated
<1>2. CASE Approve(t)
  <2>1. \A u \in Agents : SameRecord(u) /\ NotNewlyAccepted(u)
    BY <1>2 DEF Approve, TypeInv, TypeOK, Agents, Runtime, store, git, Enter, At, LedgerInv, Place, Candidate, SameRecord, NotNewlyAccepted
  <2>2. main' = main /\ (proc'.pc = "settle" => proc' = proc)
    BY <1>2 DEF Approve, TypeInv, TypeOK, Agents, Runtime, store, git, Enter, At, Candidate
  <2>3. Place'
    BY <1>2 DEF Approve, TypeInv, TypeOK, Agents, Runtime, store, git, Enter, At, Candidate, LedgerInv, Place, Known, BeforeCommit, PlaceOK, StageOK, OnAgentTask, Holding, Processes
  <2> QED BY <2>1, <2>2, <2>3, Unrelated
<1>3. CASE AcceptGate(t)
  <2>1. \A u \in Agents : SameRecord(u) /\ NotNewlyAccepted(u)
    BY <1>3 DEF AcceptGate, TypeInv, TypeOK, Agents, Runtime, store, git, Idle, LedgerInv, Place, At, SameRecord, NotNewlyAccepted
  <2>2. main' = main /\ (proc'.pc = "settle" => proc' = proc)
    BY <1>3 DEF AcceptGate, TypeInv, TypeOK, Agents, Runtime, store, git, Idle, LedgerInv, Place, At
  <2>3. Place'
    BY <1>3 DEF AcceptGate, TypeInv, TypeOK, Agents, Runtime, store, git, Idle, LedgerInv, Place, At, LedgerInv, Place, Known, BeforeCommit, PlaceOK, StageOK, OnAgentTask, Holding, Processes
  <2> QED BY <2>1, <2>2, <2>3, Unrelated
<1>4. CASE Reject(t)
  <2>1. \A u \in Agents : SameRecord(u) /\ NotNewlyAccepted(u)
    BY <1>4 DEF Reject, TypeInv, TypeOK, Agents, Runtime, store, git, Idle, GateOpen, SameRecord, NotNewlyAccepted
  <2>2. main' = main /\ (proc'.pc = "settle" => proc' = proc)
    BY <1>4 DEF Reject, TypeInv, TypeOK, Agents, Runtime, store, git, Idle, GateOpen
  <2>3. Place'
    BY <1>4 DEF Reject, TypeInv, TypeOK, Agents, Runtime, store, git, Idle, GateOpen, LedgerInv, Place, Known, BeforeCommit, PlaceOK, StageOK, OnAgentTask, Holding, Processes
  <2> QED BY <2>1, <2>2, <2>3, Unrelated
<1>5. CASE Requeue(t)
  <2>1. \A u \in Agents : SameRecord(u) /\ NotNewlyAccepted(u)
    BY <1>5 DEF Requeue, TypeInv, TypeOK, Agents, Runtime, store, git, Idle, Retriable, SameRecord, NotNewlyAccepted
  <2>2. main' = main /\ (proc'.pc = "settle" => proc' = proc)
    BY <1>5 DEF Requeue, TypeInv, TypeOK, Agents, Runtime, store, git, Idle, Retriable
  <2>3. Place'
    BY <1>5 DEF Requeue, TypeInv, TypeOK, Agents, Runtime, store, git, Idle, Retriable, LedgerInv, Place, Known, BeforeCommit, PlaceOK, StageOK, OnAgentTask, Holding, Processes
  <2> QED BY <2>1, <2>2, <2>3, Unrelated
<1>6. CASE RetryTargeted(t)
  <2>1. \A u \in Agents : SameRecord(u) /\ NotNewlyAccepted(u)
    BY <1>6 DEF RetryTargeted, TypeInv, TypeOK, Agents, Runtime, store, git, Idle, Retriable, SameRecord, NotNewlyAccepted
  <2>2. main' = main /\ (proc'.pc = "settle" => proc' = proc)
    BY <1>6 DEF RetryTargeted, TypeInv, TypeOK, Agents, Runtime, store, git, Idle, Retriable
  <2>3. Place'
    BY <1>6 DEF RetryTargeted, TypeInv, TypeOK, Agents, Runtime, store, git, Idle, Retriable, LedgerInv, Place, Known, BeforeCommit, PlaceOK, StageOK, OnAgentTask, Holding, Processes
  <2> QED BY <2>1, <2>2, <2>3, Unrelated
<1>7. CASE Pause(t)
  <2>1. \A u \in Agents : SameRecord(u) /\ NotNewlyAccepted(u)
    BY <1>7 DEF Pause, TypeInv, TypeOK, Agents, Runtime, store, git, PausedRuntime, SameRecord, NotNewlyAccepted
  <2>2. main' = main /\ (proc'.pc = "settle" => proc' = proc)
    BY <1>7 DEF Pause, TypeInv, TypeOK, Agents, Runtime, store, git, PausedRuntime
  <2>3. Place'
    BY <1>7 DEF Pause, TypeInv, TypeOK, Agents, Runtime, store, git, PausedRuntime, LedgerInv, Place, Known, BeforeCommit, PlaceOK, StageOK, OnAgentTask, Holding, Processes
  <2> QED BY <2>1, <2>2, <2>3, Unrelated
<1>8. CASE WriteTree(t)
  <2>1. \A u \in Agents : SameRecord(u) /\ NotNewlyAccepted(u)
    BY <1>8 DEF WriteTree, TypeInv, TypeOK, Agents, Runtime, store, git, SameRecord, NotNewlyAccepted
  <2>2. main' = main /\ (proc'.pc = "settle" => proc' = proc)
    BY <1>8 DEF WriteTree, TypeInv, TypeOK, Agents, Runtime, store, git
  <2>3. Place'
    BY <1>8 DEF WriteTree, TypeInv, TypeOK, Agents, Runtime, store, git, LedgerInv, Place, Known, BeforeCommit, PlaceOK, StageOK, OnAgentTask, Holding, Processes
  <2> QED BY <2>1, <2>2, <2>3, Unrelated
<1>9. CASE PrepareGate(t) \/ OpenGate(t)
  <2>1. \A u \in Agents : SameRecord(u) /\ NotNewlyAccepted(u)
    BY <1>9 DEF PrepareGate, OpenGate, store, git, SameRecord, NotNewlyAccepted
  <2>2. main' = main /\ (proc'.pc = "settle" => proc' = proc)
    BY <1>9 DEF PrepareGate, OpenGate, store, git, Enter
  <2>3. Place'
    BY <1>9 DEF PrepareGate, OpenGate, GateOpen, Enter, Place, BeforeCommit
  <2> QED BY <2>1, <2>2, <2>3, Unrelated
<1> QED BY <1>1, <1>2, <1>3, <1>4, <1>5, <1>6, <1>7, <1>8, <1>9

LEMMA QuietRestLedger ==
  ASSUME TypeInv, LedgerInv, Crash \/ EndCommand \/ EditPolicy \/ WriteIntegrationTree \/ UNCHANGED vars
  PROVE  LedgerInv'
<1>1. CASE Crash
  <2>1. \A u \in Agents : SameRecord(u) /\ NotNewlyAccepted(u)
    BY <1>1 DEF Crash, TypeInv, TypeOK, Agents, Runtime, store, git, Idle, SameRecord, NotNewlyAccepted
  <2>2. main' = main /\ (proc'.pc = "settle" => proc' = proc)
    BY <1>1 DEF Crash, TypeInv, TypeOK, Agents, Runtime, store, git, Idle
  <2>3. Place'
    BY <1>1 DEF Crash, TypeInv, TypeOK, Agents, Runtime, store, git, Idle, LedgerInv, Place, Known, BeforeCommit, PlaceOK, StageOK, OnAgentTask, Holding, Processes
  <2> QED BY <2>1, <2>2, <2>3, Unrelated
<1>2. CASE EndCommand
  <2>1. \A u \in Agents : SameRecord(u) /\ NotNewlyAccepted(u)
    BY <1>2 DEF EndCommand, TypeInv, TypeOK, Agents, Runtime, store, git, Idle, SameRecord, NotNewlyAccepted
  <2>2. main' = main /\ (proc'.pc = "settle" => proc' = proc)
    BY <1>2 DEF EndCommand, TypeInv, TypeOK, Agents, Runtime, store, git, Idle
  <2>3. Place'
    BY <1>2 DEF EndCommand, TypeInv, TypeOK, Agents, Runtime, store, git, Idle, LedgerInv, Place, Known, BeforeCommit, PlaceOK, StageOK, OnAgentTask, Holding, Processes
  <2> QED BY <2>1, <2>2, <2>3, Unrelated
<1>3. CASE EditPolicy
  <2>1. \A u \in Agents : SameRecord(u) /\ NotNewlyAccepted(u)
    BY <1>3 DEF EditPolicy, TypeInv, TypeOK, Agents, Runtime, store, git, SameRecord, NotNewlyAccepted
  <2>2. main' = main /\ (proc'.pc = "settle" => proc' = proc)
    BY <1>3 DEF EditPolicy, TypeInv, TypeOK, Agents, Runtime, store, git
  <2>3. Place'
    BY <1>3 DEF EditPolicy, TypeInv, TypeOK, Agents, Runtime, store, git, LedgerInv, Place, Known, BeforeCommit, PlaceOK, StageOK, OnAgentTask, Holding, Processes
  <2> QED BY <2>1, <2>2, <2>3, Unrelated
<1>4. CASE WriteIntegrationTree
  <2>1. \A u \in Agents : SameRecord(u) /\ NotNewlyAccepted(u)
    BY <1>4 DEF WriteIntegrationTree, TypeInv, TypeOK, Agents, Runtime, store, git, SameRecord, NotNewlyAccepted
  <2>2. main' = main /\ (proc'.pc = "settle" => proc' = proc)
    BY <1>4 DEF WriteIntegrationTree, TypeInv, TypeOK, Agents, Runtime, store, git
  <2>3. Place'
    BY <1>4 DEF WriteIntegrationTree, TypeInv, TypeOK, Agents, Runtime, store, git, LedgerInv, Place, Known, BeforeCommit, PlaceOK, StageOK, OnAgentTask, Holding, Processes
  <2> QED BY <2>1, <2>2, <2>3, Unrelated
<1>5. CASE UNCHANGED vars
  <2>1. \A u \in Agents : SameRecord(u) /\ NotNewlyAccepted(u)
    BY <1>5 DEF vars, TypeInv, TypeOK, Agents, Runtime, store, git, SameRecord, NotNewlyAccepted
  <2>2. main' = main /\ (proc'.pc = "settle" => proc' = proc)
    BY <1>5 DEF vars, TypeInv, TypeOK, Agents, Runtime, store, git
  <2>3. Place'
    BY <1>5 DEF vars, TypeInv, TypeOK, Agents, Runtime, store, git, LedgerInv, Place, Known, BeforeCommit, PlaceOK, StageOK, OnAgentTask, Holding, Processes
  <2> QED BY <2>1, <2>2, <2>3, Unrelated
<1> QED BY <1>1, <1>2, <1>3, <1>4, <1>5

-----------------------------------------------------------------------------
(* Steps that move a branch, a review, a checkpoint or an acceptance. *)

LEMMA TypesOf ==
  ASSUME TypeInv, NEW t \in Agents
  PROVE  /\ t \in Tasks /\ t \notin Gates
         /\ rt[t].ckpt \in Commits \cup {None} /\ rt[t].base \in Commits \cup {None}
         /\ rt[t].intent \in Intents \cup {None}
         /\ branch[t] \in Commits \cup {None} /\ tree[t] \in Trees /\ main \in Commits
  BY DEF TypeInv, TypeOK, Runtime, Agents

LEMMA OthersKeep ==
  ASSUME TypeInv, LedgerInv, Place', NEW t \in Agents,
         \A u \in Agents \ {t} : rt'[u] = rt[u] /\ branch'[u] = branch[u] /\ reviewed'[u] = reviewed[u],
         main' = main, proc'.pc = "settle" => proc' = proc,
         Record(t)', Delivery(t)'
  PROVE  LedgerInv'
<1>1. \A u \in Agents : Record(u)'
  BY SameRecordKeeps DEF SameRecord
<1>2. \A u \in Agents : Delivery(u)'
  BY SameDeliveryKeeps DEF NotNewlyAccepted
<1> QED BY <1>1, <1>2 DEF LedgerInv

LEMMA PrepareLedger == ASSUME TypeInv, LedgerInv, NEW t \in Tasks, PrepareTask(t) PROVE LedgerInv'
<1>1. t \in Agents /\ t \in Tasks
  BY DEF PrepareTask
<1>2. rt[t].status # "accepted" /\ rt' = rt /\ main' = main
  BY <1>1 DEF PrepareTask, Selectable, Engaged, store
<1>3. branch[t] = None => rt[t].ckpt = None /\ rt[t].intent = None
  BY <1>1 DEF LedgerInv, Record, Known, Descends
<1>4. Record(t)'
  BY <1>1, <1>2, <1>3 DEF PrepareTask, LedgerInv, Record, Known, Descends, TypeInv, TypeOK
<1>5. Delivery(t)'
  BY <1>2 DEF Delivery
<1>6. Place'
  BY <1>1, <1>2 DEF PrepareTask, Enter, Place, BeforeCommit
<1>7. \A u \in Agents \ {t} : rt'[u] = rt[u] /\ branch'[u] = branch[u] /\ reviewed'[u] = reviewed[u]
  BY <1>1 DEF PrepareTask, TypeInv, TypeOK, Agents, store
<1> QED BY <1>1, <1>2, <1>4, <1>5, <1>6, <1>7, OthersKeep DEF PrepareTask, Enter

LEMMA RecoverLedger == ASSUME TypeInv, LedgerInv, NEW t \in Tasks, RecoverCheckpoint(t) PROVE LedgerInv'
<1>1. /\ t \in Agents /\ proc.task = t /\ proc.pc = "prepared" /\ branch[t] \in Commits
      /\ branch[t] # None /\ rt[t].status # "accepted"
  BY DEF RecoverCheckpoint, At, TypeInv, TypeOK, PlaceOK, OnAgentTask, LedgerInv, Place
<1>2. Front(branch[t]) = main
  BY DEF RecoverCheckpoint, Recoverable
<1>3. branch[t] = reviewed[t] /\ branch[t] # <<>> /\ Front(branch[t]) = rt[t].base
  <2>1. CASE rt[t].ckpt # None /\ rt[t].ckpt = branch[t]
    BY <1>1, <2>1 DEF LedgerInv, Record, Known
  <2>2. CASE /\ rt[t].intent # None
             /\ IsCommitOn(branch[t], rt[t].intent.base, rt[t].intent.tree)
    <3> DEFINE i == rt[t].intent
    <3>1. i.base \in Commits /\ i.tree \in Trees
      BY <1>1, <2>2, TypesOf DEF Intents
    <3>2. /\ reviewed[t] = Candidate(t, i.base, i.tree) /\ i.base = rt[t].base
          /\ Descends(t, branch[t], i.base)
      BY <1>1, <2>2 DEF LedgerInv, Record
    <3>3. branch[t] # i.base
      BY <1>1, <2>2, FrontIsShorter DEF IsCommitOn
    <3>4. Last(branch[t]).task = t
      BY <3>2, <3>3 DEF Descends
    <3>5. branch[t] = Candidate(t, i.base, i.tree)
      BY <1>1, <2>2, <3>4, LastIsCandidate DEF IsCommitOn
    <3> QED BY <2>2, <3>2, <3>5 DEF IsCommitOn
  <2> QED BY <2>1, <2>2 DEF RecoverCheckpoint, Recoverable
<1>4. /\ rt'[t].ckpt = branch[t] /\ rt'[t].intent = None /\ rt'[t].status = rt[t].status
      /\ rt'[t].approving = rt[t].approving /\ rt'[t].base = rt[t].base
      /\ UNCHANGED <<main, branch, reviewed>>
      /\ proc'.pc = "integrate" /\ proc'.task = t
  BY <1>1 DEF RecoverCheckpoint, TypeInv, TypeOK, Runtime, Advance, git, Processes
<1>5. Record(t)'
  BY <1>1, <1>3, <1>4, PrefixReflexive DEF LedgerInv, Record, Known
<1>6. Delivery(t)'
  BY <1>1, <1>4 DEF Delivery
<1>7. Place'
  BY <1>1, <1>2, <1>4 DEF Place, BeforeCommit, Known
<1>8. \A u \in Agents \ {t} : rt'[u] = rt[u]
  BY <1>1 DEF RecoverCheckpoint, TypeInv, TypeOK, Agents
<1> QED BY <1>1, <1>4, <1>5, <1>6, <1>7, <1>8, OthersKeep

LEMMA ResumeLedger == ASSUME TypeInv, LedgerInv, NEW t \in Tasks, ResumeRun(t) PROVE LedgerInv'
<1>1. /\ t \in Agents /\ proc.task = t /\ proc.pc = "prepared" /\ main \in Commits
      /\ branch[t] = main /\ rt[t].base = main
  BY DEF ResumeRun, CanResume, At, TypeInv, TypeOK, PlaceOK, OnAgentTask
\* A checkpoint is longer than the base of its run, the head that the branch is at.
<1>2. rt[t].ckpt = None
  <2> SUFFICES ASSUME rt[t].ckpt # None PROVE FALSE
    OBVIOUS
  <2>1. /\ rt[t].ckpt \in Commits /\ rt[t].ckpt # <<>> /\ Front(rt[t].ckpt) = main
        /\ IsPrefix(rt[t].ckpt, main)
    BY <1>1, TypesOf DEF LedgerInv, Record, Known
  <2> QED BY <1>1, <2>1, LongerIsNoPrefix
<1>3. /\ rt'[t].ckpt = rt[t].ckpt /\ rt'[t].base = rt[t].base /\ rt'[t].intent = rt[t].intent
      /\ rt'[t].approving = rt[t].approving /\ rt'[t].status = "running"
      /\ UNCHANGED <<main, branch, reviewed>>
      /\ proc'.pc = "guide" /\ proc'.task = t
  BY <1>1 DEF ResumeRun, TypeInv, TypeOK, Runtime, Enter, git
<1>4. Record(t)' /\ Delivery(t)'
  BY <1>1, <1>3 DEF LedgerInv, Record, Delivery, Known, Descends
<1>5. Place'
  BY <1>1, <1>2, <1>3 DEF Place, BeforeCommit
<1>6. \A u \in Agents \ {t} : rt'[u] = rt[u]
  BY <1>1 DEF ResumeRun, TypeInv, TypeOK, Agents
<1> QED BY <1>1, <1>3, <1>4, <1>5, <1>6, OthersKeep

LEMMA StartLedger == ASSUME TypeInv, LedgerInv, NEW t \in Tasks, StartRun(t) PROVE LedgerInv'
<1>1. t \in Agents /\ proc.task = t
  BY DEF StartRun, At, PlaceOK, OnAgentTask, TypeInv
<1>2. /\ rt'[t].ckpt = None /\ rt'[t].base = main /\ rt'[t].intent = None
      /\ rt'[t].approving = rt[t].approving /\ rt'[t].status = "running"
      /\ UNCHANGED <<main, branch, reviewed>>
      /\ proc'.pc = "guide" /\ proc'.task = t
  BY <1>1 DEF StartRun, Restarted, TypeInv, TypeOK, Runtime, Enter, git
<1>3. Record(t)' /\ Delivery(t)'
  BY <1>1, <1>2 DEF LedgerInv, Record, Delivery, Known
<1>4. Place'
  BY <1>2 DEF Place, BeforeCommit
<1>5. \A u \in Agents \ {t} : rt'[u] = rt[u]
  BY <1>1 DEF StartRun, TypeInv, TypeOK, Agents
<1> QED BY <1>1, <1>2, <1>3, <1>4, <1>5, OthersKeep

LEMMA ReviewLedger == ASSUME TypeInv, LedgerInv, NEW t \in Tasks, ReviewAccepts(t) PROVE LedgerInv'
<1>1. /\ t \in Agents /\ proc.task = t /\ proc.pc = "review" /\ branch[t] # None
      /\ branch[t] = rt[t].base /\ tree[t] = proc.tree /\ main \in Commits
  BY DEF ReviewAccepts, Reviewed, Running, At, PlaceOK, OnAgentTask, TypeInv, TypeOK
<1>2. rt[t].base = main /\ rt[t].ckpt = None
  BY <1>1 DEF LedgerInv, Place, BeforeCommit
<1>3. /\ rt'[t].ckpt = None /\ rt'[t].base = main /\ rt'[t].status = rt[t].status
      /\ rt'[t].approving = rt[t].approving
      /\ rt'[t].intent = [base |-> main, tree |-> proc.tree]
      /\ reviewed'[t] = Candidate(t, main, proc.tree)
      /\ UNCHANGED <<main, branch>>
      /\ proc'.pc = "commit" /\ proc'.task = t /\ proc'.tree = proc.tree
  BY <1>1, <1>2 DEF ReviewAccepts, TypeInv, TypeOK, Runtime, Advance, git, Processes, Candidate
<1>4. Record(t)'
  BY <1>1, <1>2, <1>3, PrefixReflexive DEF LedgerInv, Record, Known, Descends
<1>5. Delivery(t)'
  BY <1>1, <1>2, <1>3 DEF LedgerInv, Delivery, Known
<1>6. Place'
  BY <1>3 DEF Place, BeforeCommit
<1>7. \A u \in Agents \ {t} : rt'[u] = rt[u] /\ reviewed'[u] = reviewed[u]
  BY <1>1 DEF ReviewAccepts, TypeInv, TypeOK, Agents
<1> QED BY <1>1, <1>3, <1>4, <1>5, <1>6, <1>7, OthersKeep

LEMMA CommitLedger == ASSUME TypeInv, LedgerInv, NEW t \in Tasks, CommitTask(t) PROVE LedgerInv'
<1>1. /\ t \in Agents /\ proc.task = t /\ proc.pc = "commit" /\ proc.tree \in Trees
      /\ branch[t] \in Commits /\ branch[t] = rt[t].base
  BY DEF CommitTask, Running, At, PlaceOK, OnAgentTask, TypeInv, TypeOK
<1>2. /\ rt[t].base = main /\ rt[t].ckpt = None
      /\ rt[t].intent = [base |-> main, tree |-> proc.tree]
      /\ reviewed[t] = Candidate(t, main, proc.tree)
  BY <1>1 DEF LedgerInv, Place, BeforeCommit
<1>3. /\ branch'[t] = Candidate(t, main, proc.tree)
      /\ UNCHANGED <<rt, main, reviewed>>
      /\ proc'.pc = "committed" /\ proc'.task = t /\ proc'.tree = proc.tree
      /\ proc'.commit = Candidate(t, main, proc.tree)
  BY <1>1, <1>2 DEF CommitTask, TypeInv, TypeOK, Hold, store, Processes, Candidate
<1>4. Descends(t, branch'[t], main)
  <2>1. Descends(t, branch[t], main)
    BY <1>1, <1>2, PrefixReflexive, NoneIsNot DEF Descends
  <2> QED BY <1>1, <1>2, <1>3, <2>1, DescendsGrows DEF Agents
<1>5. Record(t)'
  BY <1>1, <1>2, <1>3, <1>4 DEF LedgerInv, Record, Known, Descends
<1>6. Delivery(t)'
  BY <1>1, <1>2, <1>3 DEF LedgerInv, Delivery, Known
<1>7. Place'
  BY <1>2, <1>3 DEF Place, BeforeCommit
<1>8. \A u \in Agents \ {t} : branch'[u] = branch[u]
  BY <1>1 DEF CommitTask, TypeInv, TypeOK, Agents
<1> QED BY <1>1, <1>3, <1>5, <1>6, <1>7, <1>8, OthersKeep

LEMMA SaveLedger == ASSUME TypeInv, LedgerInv, NEW t \in Tasks, SaveCheckpoint(t) PROVE LedgerInv'
<1>1. /\ t \in Agents /\ proc.task = t /\ proc.pc = "committed" /\ main \in Commits
      /\ proc.tree \in Trees /\ proc.caught /\ branch[t] = proc.commit /\ branch[t] # None
  BY DEF SaveCheckpoint, Running, At, PlaceOK, OnAgentTask, TypeInv, TypeOK
<1>2. /\ proc.commit = reviewed[t] /\ reviewed[t] = Candidate(t, main, proc.tree)
      /\ rt[t].base = main
  BY <1>1 DEF LedgerInv, Place
<1>3. proc.commit \in Commits /\ proc.commit # <<>> /\ Front(proc.commit) = main
  BY <1>1, <1>2, CandidateProperties DEF Agents
<1>4. /\ rt'[t].ckpt = proc.commit /\ rt'[t].intent = None /\ rt'[t].status = rt[t].status
      /\ rt'[t].approving = rt[t].approving /\ rt'[t].base = rt[t].base
      /\ UNCHANGED <<main, branch, reviewed>>
      /\ proc'.pc = "integrate" /\ proc'.task = t
  BY <1>1 DEF SaveCheckpoint, TypeInv, TypeOK, Runtime, Hold, git, Processes
<1>5. rt[t].status = "running"
  BY <1>1 DEF TypeInv, StageOK
<1>6. Record(t)' /\ Delivery(t)'
  BY <1>1, <1>2, <1>3, <1>4, <1>5, PrefixReflexive DEF LedgerInv, Record, Delivery, Known
<1>7. Place'
  BY <1>1, <1>3, <1>4, <1>5 DEF Place, BeforeCommit, Known
<1>8. \A u \in Agents \ {t} : rt'[u] = rt[u]
  BY <1>1 DEF SaveCheckpoint, TypeInv, TypeOK, Agents
<1> QED BY <1>1, <1>4, <1>6, <1>7, <1>8, OthersKeep

\* A commit from outside lands on top of whatever the record of the task names.
LEMMA AgentCommitLedger == ASSUME TypeInv, LedgerInv, NEW t \in Tasks, AgentCommits(t) PROVE LedgerInv'
<1>1. /\ branch[t] \in Commits /\ branch[t] # None /\ tree[t] \in Trees
      /\ branch' = [branch EXCEPT ![t] = Candidate(t, branch[t], tree[t])]
      /\ UNCHANGED <<rt, main, reviewed, proc>>
  BY DEF AgentCommits, TypeInv, TypeOK, store, Candidate
<1>2. Candidate(t, branch[t], tree[t]) \in Commits
  BY <1>1, CandidateProperties
<1>3. branch'[t] = Candidate(t, branch[t], tree[t]) /\ \A u \in Agents \ {t} : branch'[u] = branch[u]
  BY <1>1 DEF TypeInv, TypeOK, Agents
<1>4. ASSUME t \in Agents PROVE Record(t)'
  <2>1. branch'[t] # None
    BY <1>2, <1>3, NoneIsNot
  <2>2. Known(t) => IsPrefix(rt[t].ckpt, branch'[t])
    BY <1>1, <1>3, <1>4, TypesOf, PrefixOfCandidate DEF LedgerInv, Record, Known
  <2>3. rt[t].intent # None => Descends(t, branch'[t], rt[t].intent.base)
    <3> SUFFICES ASSUME rt[t].intent # None PROVE Descends(t, branch'[t], rt[t].intent.base)
      OBVIOUS
    <3>1. rt[t].intent.base \in Commits
      BY <1>4, TypesOf DEF Intents
    <3> QED BY <1>1, <1>3, <1>4, <3>1, DescendsGrows DEF LedgerInv, Record
  <2> QED BY <1>1, <1>4, <2>1, <2>2, <2>3 DEF LedgerInv, Record, Known
<1>5. \A u \in Agents : Record(u)'
  BY <1>1, <1>3, <1>4, SameRecordKeeps DEF SameRecord
<1>6. \A u \in Agents : Delivery(u)'
  BY <1>1 DEF LedgerInv, Delivery, Known, LedgerView
<1>7. Place'
  BY <1>1 DEF LedgerInv, Place, BeforeCommit, Known
<1> QED BY <1>5, <1>6, <1>7 DEF LedgerInv

LEMMA ReadLedger == ASSUME TypeInv, LedgerInv, NEW t \in Tasks, ReadTree(t) PROVE LedgerInv'
<1>1. /\ proc.pc = "integrate" /\ proc.task = t /\ t \in Agents
      /\ UNCHANGED <<rt, main, branch, reviewed>>
      /\ proc'.pc = "advance" /\ proc'.task = t /\ proc'.commit = branch[t]
  BY DEF ReadTree, At, Hold, store, TypeInv, TypeOK, PlaceOK, OnAgentTask, Processes
<1>2. /\ rt[t].status # "accepted" /\ Known(t) /\ Front(rt[t].ckpt) = main
      /\ IsPrefix(rt[t].ckpt, branch[t])
  BY <1>1 DEF LedgerInv, Place, Record
<1>3. Place'
  BY <1>1, <1>2 DEF Place, BeforeCommit, Known
<1>4. \A u \in Agents : SameRecord(u) /\ NotNewlyAccepted(u)
  BY <1>1 DEF SameRecord, NotNewlyAccepted
<1> QED BY <1>1, <1>3, <1>4, Unrelated

LEMMA MainMoves ==
  ASSUME TypeInv, LedgerInv, Place',
         \A u \in Agents : SameRecord(u) /\ NotNewlyAccepted(u),
         \A c \in Commits : IsPrefix(c, LedgerView) => IsPrefix(c, LedgerView')
  PROVE  LedgerInv'
<1>1. \A u \in Agents : Record(u)'
  BY SameRecordKeeps
<1>2. ASSUME NEW u \in Agents PROVE Delivery(u)'
  BY <1>2, TypesOf DEF LedgerInv, Delivery, Known, SameRecord, NotNewlyAccepted
<1> QED BY <1>1, <1>2 DEF LedgerInv

LEMMA AdvanceLedger == ASSUME TypeInv, LedgerInv, NEW t \in Tasks, AdvanceRef(t) PROVE LedgerInv'
<1>1. /\ proc.pc = "advance" /\ proc.task = t /\ main' = proc.commit /\ rt' = rt
      /\ proc'.pc = "settle" /\ proc'.task = t /\ proc'.commit = main
  BY DEF AdvanceRef, At, store, Hold, TypeInv, TypeOK, Processes
<1>2. /\ rt[t].status # "accepted" /\ Known(t) /\ Front(rt[t].ckpt) = main
      /\ IsPrefix(rt[t].ckpt, proc.commit)
  BY <1>1 DEF LedgerInv, Place
<1>3. LedgerView' = LedgerView
  BY <1>1 DEF LedgerView
<1>4. Place'
  BY <1>1, <1>2 DEF Place, BeforeCommit, Known
<1>5. \A u \in Agents : SameRecord(u) /\ NotNewlyAccepted(u)
  BY DEF AdvanceRef, SameRecord, NotNewlyAccepted, store
<1> QED BY <1>3, <1>4, <1>5, MainMoves

LEMMA RollBackLedger == ASSUME TypeInv, LedgerInv, NEW t \in Tasks, RollBack(t) PROVE LedgerInv'
<1>1. proc.pc = "settle" /\ main' = proc.commit /\ rt' = rt
  BY DEF RollBack, At, store
<1>2. proc'.pc = "raising"
  BY DEF RollBack, Hold, TypeInv, TypeOK, Processes
<1>3. LedgerView' = LedgerView
  BY <1>1, <1>2 DEF LedgerView
<1>4. Place'
  BY <1>2 DEF Place, BeforeCommit
<1>5. \A u \in Agents : SameRecord(u) /\ NotNewlyAccepted(u)
  BY DEF RollBack, SameRecord, NotNewlyAccepted, store
<1> QED BY <1>3, <1>4, <1>5, MainMoves

LEMMA GateCommitLedger == ASSUME TypeInv, LedgerInv, NEW t \in Tasks, CommitHumanGate(t) PROVE LedgerInv'
<1>1. /\ proc.pc = "gatecommit" /\ proc.task = t /\ t \in Gates
      /\ main' = Candidate(t, main, proc.tree) /\ rt' = rt
      /\ proc.tree \in Trees /\ main \in Commits
  BY DEF CommitHumanGate, At, LedgerInv, Place, store, Candidate, TypeInv, TypeOK
<1>2. proc'.pc = "gatecommitted" /\ proc'.task = t
  BY <1>1 DEF CommitHumanGate, Advance, TypeInv, TypeOK, Processes
<1>3. \A c \in Commits : IsPrefix(c, LedgerView) => IsPrefix(c, LedgerView')
  BY <1>1, <1>2, PrefixOfCandidate DEF LedgerView
<1>4. Place'
  BY <1>1, <1>2 DEF Place, BeforeCommit
<1>5. \A u \in Agents : SameRecord(u) /\ NotNewlyAccepted(u)
  BY DEF CommitHumanGate, SameRecord, NotNewlyAccepted, store
<1> QED BY <1>3, <1>4, <1>5, MainMoves

LEMMA AcceptLedger == ASSUME TypeInv, LedgerInv, NEW t \in Tasks, AcceptTask(t) PROVE LedgerInv'
<1>1. /\ t \in Agents /\ proc.task = t /\ proc.pc = "settle" /\ main \in Commits
  BY DEF AcceptTask, At, PlaceOK, OnAgentTask, TypeInv, TypeOK
<1>2. Known(t) /\ IsPrefix(rt[t].ckpt, main)
  BY <1>1 DEF LedgerInv, Place
<1>3. /\ rt'[t].ckpt = rt[t].ckpt /\ rt'[t].intent = rt[t].intent /\ rt'[t].base = rt[t].base
      /\ rt'[t].approving = rt[t].approving
      /\ UNCHANGED <<main, branch, reviewed>> /\ proc'.pc = "idle"
  BY <1>1, <1>2 DEF AcceptTask, TypeInv, TypeOK, Runtime, Idle, git
<1>4. Record(t)'
  BY <1>1, <1>2, <1>3 DEF LedgerInv, Record, Known, Descends
<1>5. Delivery(t)'
  BY <1>1, <1>2, <1>3 DEF Delivery, Known, LedgerView
<1>6. Place'
  BY <1>3 DEF Place, BeforeCommit
<1>7. \A u \in Agents \ {t} : rt'[u] = rt[u]
  BY <1>1 DEF AcceptTask, TypeInv, TypeOK, Agents
<1> QED BY <1>1, <1>3, <1>4, <1>5, <1>6, <1>7, OthersKeep

LEMMA ReconcileLedger == ASSUME TypeInv, LedgerInv, ReconcileAccepted PROVE LedgerInv'
<1>1. /\ proc.pc = "idle" /\ proc'.pc = "ready" /\ UNCHANGED <<main, branch, reviewed>>
  BY DEF ReconcileAccepted, Enter, git
<1>2. ASSUME NEW u \in Agents
      PROVE  /\ SameRecord(u)
             /\ rt'[u].status = "accepted" => InHistory(u)
  <2>1. rt[u] \in Runtime /\ rt'[u] = ReconciledTask(u)
    BY <1>2 DEF ReconcileAccepted, TypeInv, TypeOK, Agents
  <2>2. CheckpointOf(u) = rt[u].ckpt /\ ~Claimed(u)
    BY <1>2 DEF CheckpointOf, Claimed, LedgerInv, Record
  <2>3. SameRecord(u)
    BY <1>1, <2>1, <2>2 DEF ReconciledTask, SameRecord, Runtime
  <2>4. rt'[u].status = "accepted" => CheckpointValid(u)
    BY <2>1, <2>2 DEF ReconciledTask, Runtime
  <2> QED BY <2>2, <2>3, <2>4 DEF CheckpointValid, InHistory, Known
<1>3. \A u \in Agents : Record(u)'
  BY <1>2, SameRecordKeeps
<1>4. \A u \in Agents : Delivery(u)'
  BY <1>1, <1>2 DEF Delivery, InHistory, Known, SameRecord, LedgerView
<1>5. Place'
  BY <1>1 DEF Place, BeforeCommit
<1> QED BY <1>3, <1>4, <1>5 DEF LedgerInv

LEMMA InitLedger == Init => LedgerInv
  BY DEF Init, LedgerInv, Place, Record, Delivery, Known, FreshRuntime, Idle, BeforeCommit, Agents

LEMMA NextLedger == TypeInv /\ LedgerInv /\ [Next]_vars => LedgerInv'
<1> SUFFICES ASSUME TypeInv, LedgerInv, [Next]_vars PROVE LedgerInv'
  OBVIOUS
<1>1. ASSUME NEW t \in Tasks, Once(t) \/ Run(t) PROVE LedgerInv'
  BY <1>1, QuietRunLedger, QuietOperatorLedger, PrepareLedger, RecoverLedger, ResumeLedger,
     StartLedger, ReviewLedger, CommitLedger, SaveLedger DEF Once, Run
<1>2. ASSUME NEW t \in Tasks, Integrate(t) \/ RunFails(t) PROVE LedgerInv'
  BY <1>2, QuietRunLedger, ReadLedger, AdvanceLedger, AcceptLedger, RollBackLedger DEF Integrate
<1>3. ASSUME NEW t \in Tasks, Operator(t) \/ Outside(t) PROVE LedgerInv'
  BY <1>3, QuietRunLedger, QuietOperatorLedger, GateCommitLedger, AgentCommitLedger
     DEF Operator, Outside
<1>4. CASE ReconcileAccepted
  BY <1>4, ReconcileLedger
<1>5. CASE Crash \/ EndCommand \/ EditPolicy \/ WriteIntegrationTree \/ UNCHANGED vars
  BY <1>5, QuietRestLedger
<1> QED BY <1>1, <1>2, <1>3, <1>4, <1>5 DEF Next

-----------------------------------------------------------------------------

\* For every plan, with gates or without, and whatever is killed, interrupted, edited
\* or committed from outside: an accepted agent task has its checkpoint in the history
\* of the integration branch, and it is the commit whose exact tree was reviewed last.
THEOREM AgentAcceptanceIsReviewed == Spec => []AcceptedAgentReviewed
<1>1. Spec => []TypeInv
  BY InitType, NextType, PTL DEF Spec
<1>2. Spec => []LedgerInv
  BY <1>1, InitLedger, NextLedger, PTL DEF Spec
<1>3. TypeInv /\ LedgerInv => AcceptedAgentReviewed
  <2> SUFFICES ASSUME TypeInv, LedgerInv, NEW t \in Agents, rt[t].status = "accepted"
               PROVE  /\ rt[t].ckpt # None /\ IsPrefix(rt[t].ckpt, main)
                      /\ rt[t].ckpt = reviewed[t]
    BY DEF AcceptedAgentReviewed, AcceptanceReviewed
  <2>1. rt[t].ckpt # None /\ rt[t].ckpt = reviewed[t] /\ IsPrefix(rt[t].ckpt, LedgerView)
    BY DEF LedgerInv, Delivery, Record, Known
  <2>2. rt[t].ckpt \in Commits /\ main \in Commits
    BY <2>1, TypesOf
  <2>3. IsPrefix(rt[t].ckpt, main)
    <3>1. CASE proc.pc = "settle"
      BY <2>1, <2>2, <3>1, SettleOnTop, PrefixTransitive DEF LedgerView
    <3>2. CASE proc.pc # "settle"
      BY <2>1, <3>2 DEF LedgerView
    <3> QED BY <3>1, <3>2
  <2> QED BY <2>1, <2>3
<1> QED BY <1>1, <1>2, <1>3, PTL

\* While a ref waits to be settled, the reviewed commit of the task at hand is what it starts with.
LEMMA SettledIsReviewed ==
  ASSUME TypeInv, LedgerInv, proc.pc = "settle"
  PROVE  LET r == reviewed[proc.task] IN
         /\ proc.task \in Tasks /\ r # None /\ r # <<>>
         /\ Front(r) = proc.commit /\ IsPrefix(r, main)
<1>1. reviewed[proc.task] = rt[proc.task].ckpt
  BY SettleOnTop DEF LedgerInv, Place, Record
<1> QED BY <1>1, SettleOnTop, NoneIsNot DEF Agents

HistoryKept == main' = main /\ (proc'.pc = "settle" => proc' = proc)

LEMMA MainMovers ==
  ASSUME TypeInv, [Next]_vars
  PROVE  \/ HistoryKept
         \/ \E t \in Tasks : AdvanceRef(t) \/ RollBack(t) \/ CommitHumanGate(t)
<1> USE DEF HistoryKept, Idle, Enter, Advance, Hold, At, Running, git, store, Processes
<1>0. proc \in Processes
  BY DEF TypeInv, TypeOK
<1>1. ASSUME NEW t \in Tasks, Once(t) PROVE HistoryKept
  <2>1. CASE PrepareGate(t) \/ WaitForHumanGate(t) \/ PrepareTask(t)
    BY <2>1 DEF PrepareGate, WaitForHumanGate, PrepareTask
  <2>2. CASE RecoverCheckpoint(t)
    BY <1>0, <2>2 DEF RecoverCheckpoint
  <2>3. CASE ResumeRun(t) \/ StartRun(t)
    BY <2>3 DEF ResumeRun, StartRun
  <2> QED BY <1>1, <2>1, <2>2, <2>3 DEF Once
<1>2. ASSUME NEW t \in Tasks, Run(t) PROVE HistoryKept
  <2>1. CASE BeginImplement(t) \/ BeginReverify(t) \/ AgentReturns(t)
    BY <1>0, <2>1 DEF BeginImplement, BeginReverify, AgentReturns
  <2>2. CASE BeginTargetedRepair(t)
    BY <1>0, <2>2 DEF BeginTargetedRepair
  <2>3. CASE VerifyPasses(t) \/ NeedsHuman(t)
    BY <2>3 DEF VerifyPasses, NeedsHuman
  <2>4. CASE BeginRepair(t) \/ ExhaustRepairs(t)
    BY <2>4 DEF BeginRepair, ExhaustRepairs
  <2>5. CASE ReviewAccepts(t)
    BY <1>0, <2>5 DEF ReviewAccepts
  <2>6. CASE CommitTask(t)
    BY <1>0, <2>6 DEF CommitTask
  <2>7. CASE SaveCheckpoint(t)
    BY <1>0, <2>7 DEF SaveCheckpoint
  <2> QED BY <1>2, <2>1, <2>2, <2>3, <2>4, <2>5, <2>6, <2>7 DEF Run
<1>3. ASSUME NEW t \in Tasks, ReadTree(t) \/ AcceptTask(t) \/ RunFails(t) PROVE HistoryKept
  <2>1. CASE ReadTree(t)
    BY <1>0, <2>1 DEF ReadTree
  <2>2. CASE AcceptTask(t) \/ RunFails(t)
    BY <2>2 DEF AcceptTask, RunFails
  <2> QED BY <1>3, <2>1, <2>2
<1>4. ASSUME NEW t \in Tasks, Operator(t), ~CommitHumanGate(t) PROVE HistoryKept
  BY <1>4 DEF Operator, OpenGate, Approve, AcceptGate, Reject, Requeue, RetryTargeted, Pause, Interrupt
<1>5. ASSUME NEW t \in Tasks, Outside(t) PROVE HistoryKept
  BY <1>5 DEF Outside, WriteTree, AgentCommits
<1>6. CASE ReconcileAccepted
  BY <1>6 DEF ReconcileAccepted
<1>7. CASE EndCommand \/ Crash
  BY <1>7 DEF EndCommand, Crash
<1>8. CASE EditPolicy
  BY <1>8 DEF EditPolicy
<1>9. CASE WriteIntegrationTree
  BY <1>9 DEF WriteIntegrationTree
<1>10. CASE UNCHANGED vars
  BY <1>10 DEF vars
<1> QED BY <1>1, <1>2, <1>3, <1>4, <1>5, <1>6, <1>7, <1>8, <1>9, <1>10 DEF Next, Integrate

Delivers == \E t \in Tasks : /\ reviewed[t] # None /\ reviewed[t] # <<>>
                            /\ Front(reviewed[t]) = LedgerView
                            /\ IsPrefix(reviewed[t], LedgerView')

LEMMA StepDelivers ==
  ASSUME TypeInv, LedgerInv, [Next]_vars, LedgerView' # LedgerView
  PROVE  Delivers
<1>1. CASE HistoryKept
  <2>1. proc.pc = "settle" /\ LedgerView' = main /\ LedgerView = proc.commit
    BY <1>1 DEF HistoryKept, LedgerView
  <2> QED BY <2>1, SettledIsReviewed DEF Delivers
<1>2. ASSUME NEW t \in Tasks, CommitHumanGate(t) PROVE Delivers
  <2>1. /\ proc.pc = "gatecommit" /\ proc'.pc = "gatecommitted"
        /\ main \in Commits /\ proc.tree \in Trees
        /\ main' = Candidate(t, main, proc.tree) /\ reviewed[t] = Candidate(t, main, proc.tree)
    BY <1>2 DEF CommitHumanGate, At, Advance, LedgerInv, Place, Candidate, TypeInv, TypeOK, Processes
  <2>2. LedgerView = main /\ LedgerView' = main'
    BY <2>1 DEF LedgerView
  <2> QED BY <2>1, <2>2, CandidateProperties, PrefixReflexive, NoneIsNot DEF Delivers
<1>3. ASSUME NEW t \in Tasks, AdvanceRef(t) PROVE FALSE
  <2>1. proc.pc = "advance" /\ proc'.pc = "settle" /\ proc'.commit = main
    BY <1>3 DEF AdvanceRef, At, Hold, TypeInv, TypeOK, Processes
  <2> QED BY <2>1 DEF LedgerView
<1>4. ASSUME NEW t \in Tasks, RollBack(t) PROVE FALSE
  <2>1. proc.pc = "settle" /\ main' = proc.commit /\ proc'.pc = "raising"
    BY <1>4 DEF RollBack, At, Hold, TypeInv, TypeOK, Processes
  <2> QED BY <2>1 DEF LedgerView
<1> QED BY <1>1, <1>2, <1>3, <1>4, MainMovers

\* For every plan and disturbance, commits from outside on any task branch at any time
\* included: the history of the integration branch is never rewritten, and what it gains
\* starts with the commit reviewed or approved last for its task, on the parent and with
\* the exact tree that were looked at.
THEOREM HistoryDeliversReviewed == Spec => DeliversReviewed
<1>1. Spec => []TypeInv
  BY InitType, NextType, PTL DEF Spec
<1>2. Spec => []LedgerInv
  BY <1>1, InitLedger, NextLedger, PTL DEF Spec
<1>3. TypeInv /\ LedgerInv /\ [Next]_vars =>
        [LedgerView' # LedgerView =>
           \E t \in Tasks : /\ reviewed[t] # None /\ reviewed[t] # <<>>
                            /\ Front(reviewed[t]) = LedgerView
                            /\ IsPrefix(reviewed[t], LedgerView')]_vars
  BY StepDelivers DEF Delivers
<1> QED BY <1>1, <1>2, <1>3, PTL DEF Spec, DeliversReviewed

-----------------------------------------------------------------------------
(* When policy files are only edited between commands, a command that got  *)
(* past its start runs under undrifted files, nothing is ever recorded     *)
(* under edited ones, and what reconciliation found is what the command    *)
(* meets: no task it takes up has its checkpoint in the history.           *)

PolicyStill == /\ \A t \in Tasks : edited[t] = {}
               /\ Drifted => AtStart

\* The actions that record something together with the digest of the policy files.
LEMMA EditedMovers ==
  ASSUME TypeInv, [Next]_vars
  PROVE  \/ edited' = edited
         \/ ReconcileAccepted
         \/ \E t \in Tasks : \/ WaitForHumanGate(t) \/ RecoverCheckpoint(t) \/ StartRun(t)
                             \/ ReviewAccepts(t) \/ SaveCheckpoint(t) \/ Approve(t) \/ AcceptGate(t)
<1>1. ASSUME NEW t \in Tasks, PrepareGate(t) \/ PrepareTask(t) \/ ResumeRun(t) PROVE edited' = edited
  BY <1>1 DEF PrepareGate, PrepareTask, ResumeRun
<1>2. ASSUME NEW t \in Tasks, Run(t), ~ReviewAccepts(t), ~SaveCheckpoint(t) PROVE edited' = edited
  BY <1>2 DEF Run, BeginImplement, BeginTargetedRepair, BeginReverify, AgentReturns, VerifyPasses,
              NeedsHuman, BeginRepair, ExhaustRepairs, CommitTask
<1>3. ASSUME NEW t \in Tasks, Integrate(t) \/ RunFails(t) PROVE edited' = edited
  BY <1>3 DEF Integrate, ReadTree, AdvanceRef, AcceptTask, RollBack, RunFails
<1>4. ASSUME NEW t \in Tasks, Operator(t), ~Approve(t), ~AcceptGate(t) PROVE edited' = edited
  BY <1>4 DEF Operator, OpenGate, CommitHumanGate, Reject, Requeue, RetryTargeted, Pause, Interrupt
<1>5. ASSUME NEW t \in Tasks, Outside(t) PROVE edited' = edited
  BY <1>5 DEF Outside, WriteTree, AgentCommits
<1>6. CASE EndCommand \/ Crash \/ EditPolicy \/ WriteIntegrationTree \/ UNCHANGED vars
  BY <1>6 DEF EndCommand, Crash, EditPolicy, WriteIntegrationTree, vars
<1> QED BY <1>1, <1>2, <1>3, <1>4, <1>5, <1>6 DEF Next, Once

LEMMA PolicyStillStep ==
  ASSUME "late_policy" \notin Disturbances, TypeInv, PolicyStill, [Next]_vars
  PROVE  PolicyStill'
<1>1. Drifted' => AtStart'
  <2> SUFFICES ASSUME Drifted' PROVE AtStart'
    OBVIOUS
  <2>1. CASE Drifted
    BY <2>1, DriftedStep DEF PolicyStill
  <2>2. CASE ~Drifted
    <3>1. EditPolicy \/ ReconcileAccepted
      BY <2>2, DriftBegins DEF Drifted
    <3> QED BY <2>2, <3>1 DEF EditPolicy, ReconcileAccepted, Drifted, AtStart
  <2> QED BY <2>1, <2>2
<1>2. ASSUME NEW u \in Tasks PROVE edited'[u] = {}
  <2>0. edited[u] = {} /\ edited \in [Tasks -> SUBSET Recorded]
    BY DEF PolicyStill, TypeInv, TypeOK
  <2>1. CASE ReconcileAccepted
    <3>1. Claimed(u) => ~Drifted
      BY <2>0 DEF Claimed, SameDigest
    <3> QED BY <2>0, <2>1, <3>1 DEF ReconcileAccepted, Noted
  <2>2. ASSUME NEW t \in Tasks,
               \/ WaitForHumanGate(t) \/ RecoverCheckpoint(t) \/ StartRun(t)
               \/ ReviewAccepts(t) \/ SaveCheckpoint(t) \/ Approve(t) \/ AcceptGate(t)
        PROVE  edited'[u] = {}
    <3>1. ~AtStart
      BY <2>2 DEF AtStart, WaitForHumanGate, RecoverCheckpoint, StartRun, ReviewAccepts, Reviewed,
                  SaveCheckpoint, Approve, AcceptGate, Running, At
    <3>2. ~Drifted /\ edited[t] = {}
      BY <3>1 DEF PolicyStill
    <3> QED BY <2>0, <2>2, <3>2 DEF WaitForHumanGate, RecoverCheckpoint, StartRun, ReviewAccepts,
                                    SaveCheckpoint, Approve, AcceptGate, Noted, Handed
  <2>3. CASE edited' = edited
    BY <2>0, <2>3
  <2> QED BY <2>1, <2>2, <2>3, EditedMovers
<1> QED BY <1>1, <1>2 DEF PolicyStill

\* Where each action leaves the command.
Reaches(pc, t) == proc'.pc = pc /\ proc'.task = t

LEMMA CommandMoves ==
  ASSUME TypeInv, NEW t \in Tasks
  PROVE  /\ PrepareGate(t) => Reaches("issuing", t)
         /\ PrepareTask(t) => Reaches("prepared", t)
         /\ ResumeRun(t) => Reaches("guide", t)
         /\ StartRun(t) => Reaches("guide", t)
         /\ VerifyPasses(t) => Reaches("review", t)
         /\ BeginRepair(t) => Reaches("repair", t)
         /\ ExhaustRepairs(t) => Reaches("raising", t)
         /\ OpenGate(t) => Reaches("opened", t)
         /\ Approve(t) => Reaches("gatecommit", t)
         /\ RecoverCheckpoint(t) => Reaches("integrate", t)
         /\ BeginImplement(t) => Reaches("implement", t)
         /\ BeginTargetedRepair(t) => Reaches("repair", t)
         /\ BeginReverify(t) => Reaches("verify", t)
         /\ AgentReturns(t) => Reaches("verify", t)
         /\ ReviewAccepts(t) => Reaches("commit", t)
         /\ CommitHumanGate(t) => Reaches("gatecommitted", t)
         /\ CommitTask(t) => Reaches("committed", t)
         /\ SaveCheckpoint(t) => Reaches("integrate", t)
         /\ ReadTree(t) => Reaches("advance", t)
         /\ AdvanceRef(t) => Reaches("settle", t)
         /\ RollBack(t) => Reaches("raising", t)
         /\ (\/ WaitForHumanGate(t) \/ NeedsHuman(t) \/ AcceptTask(t) \/ RunFails(t) \/ AcceptGate(t)
            \/ Reject(t) \/ Requeue(t) \/ RetryTargeted(t) \/ Interrupt(t))
              => proc' = Idle
         /\ Pause(t) \/ WriteTree(t) \/ AgentCommits(t) => proc' = proc
<1> USE DEF Reaches, Running, At, Processes
<1>0. proc \in Processes
  BY DEF TypeInv, TypeOK
<1>1. PrepareGate(t) => Reaches("issuing", t)
  BY DEF PrepareGate, Enter
<1>2. PrepareTask(t) => Reaches("prepared", t)
  BY DEF PrepareTask, Enter
<1>3. ResumeRun(t) => Reaches("guide", t)
  BY DEF ResumeRun, Enter
<1>4. StartRun(t) => Reaches("guide", t)
  BY DEF StartRun, Enter
<1>5. VerifyPasses(t) => Reaches("review", t)
  BY DEF VerifyPasses, Enter
<1>6. BeginRepair(t) => Reaches("repair", t)
  BY DEF BeginRepair, CallsForRepair, Reviewed, Enter
<1>7. ExhaustRepairs(t) => Reaches("raising", t)
  BY DEF ExhaustRepairs, CallsForRepair, Reviewed, Enter
<1>8. OpenGate(t) => Reaches("opened", t)
  BY DEF OpenGate, Enter
<1>9. Approve(t) => Reaches("gatecommit", t)
  BY DEF Approve, Enter
<1>10. RecoverCheckpoint(t) => Reaches("integrate", t)
  BY <1>0 DEF RecoverCheckpoint, Advance
<1>11. BeginImplement(t) => Reaches("implement", t)
  BY <1>0 DEF BeginImplement, Advance
<1>12. BeginTargetedRepair(t) => Reaches("repair", t)
  BY <1>0 DEF BeginTargetedRepair, Advance
<1>13. BeginReverify(t) => Reaches("verify", t)
  BY <1>0 DEF BeginReverify, Advance
<1>14. AgentReturns(t) => Reaches("verify", t)
  BY <1>0 DEF AgentReturns, Advance
<1>15. ReviewAccepts(t) => Reaches("commit", t)
  BY <1>0 DEF ReviewAccepts, Reviewed, Advance
<1>16. CommitHumanGate(t) => Reaches("gatecommitted", t)
  BY <1>0 DEF CommitHumanGate, Advance
<1>17. CommitTask(t) => Reaches("committed", t)
  BY <1>0 DEF CommitTask, Hold
<1>18. SaveCheckpoint(t) => Reaches("integrate", t)
  BY <1>0 DEF SaveCheckpoint, Hold
<1>19. ReadTree(t) => Reaches("advance", t)
  BY <1>0 DEF ReadTree, Hold
<1>20. AdvanceRef(t) => Reaches("settle", t)
  BY <1>0 DEF AdvanceRef, Hold
<1>21. RollBack(t) => Reaches("raising", t)
  BY <1>0 DEF RollBack, Hold
<1>22. (\/ WaitForHumanGate(t) \/ NeedsHuman(t) \/ AcceptTask(t) \/ RunFails(t) \/ AcceptGate(t)
        \/ Reject(t) \/ Requeue(t) \/ RetryTargeted(t) \/ Interrupt(t)) => proc' = Idle
  BY DEF WaitForHumanGate, NeedsHuman, AcceptTask, RunFails, AcceptGate, Reject, Requeue, RetryTargeted, Interrupt
<1>23. Pause(t) \/ WriteTree(t) \/ AgentCommits(t) => proc' = proc
  BY DEF Pause, WriteTree, AgentCommits
<1> QED BY <1>1, <1>2, <1>3, <1>4, <1>5, <1>6, <1>7, <1>8, <1>9, <1>10, <1>11, <1>12, <1>13,
           <1>14, <1>15, <1>16, <1>17, <1>18, <1>19, <1>20, <1>21, <1>22, <1>23

LEMMA OtherMoves ==
  /\ ReconcileAccepted => proc.pc = "idle" /\ proc'.pc = "ready"
  /\ EndCommand \/ Crash => proc' = Idle
  /\ (EditPolicy \/ WriteIntegrationTree \/ UNCHANGED vars)
       => proc' = proc /\ rt' = rt /\ main' = main /\ branch' = branch
<1>1. ReconcileAccepted => proc.pc = "idle" /\ proc'.pc = "ready"
  BY DEF ReconcileAccepted, Enter
<1>2. EndCommand \/ Crash => proc' = Idle
  BY DEF EndCommand, Crash
<1>3. (EditPolicy \/ WriteIntegrationTree \/ UNCHANGED vars)
        => proc' = proc /\ rt' = rt /\ main' = main /\ branch' = branch
  BY DEF EditPolicy, WriteIntegrationTree, vars, store, git
<1> QED BY <1>1, <1>2, <1>3

LEMMA OutsideMoves ==
  ASSUME NEW t \in Tasks, Outside(t)
  PROVE  proc' = proc /\ rt' = rt /\ main' = main
  BY DEF Outside, WriteTree, AgentCommits, store

\* How a command comes to be ready, or prepared.
LEMMA StartMovers ==
  ASSUME TypeInv, [Next]_vars
  PROVE  /\ proc'.pc = "ready" => \/ ReconcileAccepted
                                  \/ proc' = proc /\ rt' = rt /\ main' = main
         /\ proc'.pc = "prepared" => \/ \E t \in Tasks : PrepareTask(t)
                                     \/ proc' = proc /\ rt' = rt /\ main' = main
<1> DEFINE Early == {"ready", "prepared"}
<1> USE CommandMoves DEF Reaches, Idle
<1>1. ASSUME NEW t \in Tasks, Once(t), ~PrepareTask(t) PROVE proc'.pc \notin Early
  BY <1>1 DEF Once
<1>2. ASSUME NEW t \in Tasks, Run(t) PROVE proc'.pc \notin Early
  BY <1>2 DEF Run
<1>3. ASSUME NEW t \in Tasks, Integrate(t) \/ RunFails(t) PROVE proc'.pc \notin Early
  BY <1>3 DEF Integrate
<1>4. ASSUME NEW t \in Tasks, Operator(t) PROVE proc'.pc \notin Early
  BY <1>4 DEF Operator, Pause
<1>5. ASSUME NEW t \in Tasks, PrepareTask(t) PROVE proc'.pc = "prepared"
  BY <1>5
<1> QED BY <1>1, <1>2, <1>3, <1>4, <1>5, OutsideMoves, OtherMoves DEF Next

\* What reconciliation makes of a record.
LEMMA ReconciledRecord ==
  ASSUME TypeInv, ReconcileAccepted, NEW u \in Tasks
  PROVE  /\ rt'[u].ckpt = CheckpointOf(u)
         /\ rt'[u].approving = IF Claimed(u) THEN None ELSE rt[u].approving
         /\ CheckpointValid(u) => rt'[u].status = "accepted" /\ rt'[u].stage = "accepted"
         /\ rt'[u].status = "accepted" => CheckpointValid(u)
<1>1. rt[u] \in Runtime /\ rt'[u] = ReconciledTask(u)
  BY DEF ReconcileAccepted, TypeInv, TypeOK
<1>2. rt'[u].ckpt = CheckpointOf(u)
  BY <1>1 DEF ReconciledTask, Runtime
<1>3. rt'[u].approving = IF Claimed(u) THEN None ELSE rt[u].approving
  BY <1>1 DEF ReconciledTask, Runtime
<1>4. CheckpointValid(u) => rt'[u].status = "accepted" /\ rt'[u].stage = "accepted"
  BY <1>1 DEF ReconciledTask, Runtime
<1>5. rt'[u].status = "accepted" => CheckpointValid(u)
  BY <1>1 DEF ReconciledTask, Runtime
<1> QED BY <1>2, <1>3, <1>4, <1>5

StartInv == /\ proc.pc = "ready" /\ ~Drifted =>
                 \A u \in Agents : InHistory(u) => rt[u].status = "accepted"
            /\ proc.pc = "prepared" => ~InHistory(proc.task)

LEMMA StartInvStep ==
  ASSUME "late_policy" \notin Disturbances, TypeInv, LedgerInv, PolicyStill, StartInv, [Next]_vars
  PROVE  StartInv'
<1>1. ASSUME proc'.pc = "ready", ~Drifted', NEW u \in Agents, InHistory(u)'
      PROVE  rt'[u].status = "accepted"
  <2>1. CASE ReconcileAccepted
    <3>0. u \in Tasks /\ main' = main /\ edited[u] = {}
      BY <2>1 DEF ReconcileAccepted, git, Agents, PolicyStill
    <3>1. u \in Tasks /\ main' = main /\ ~Drifted /\ edited[u] = {}
      BY <1>1, <2>1, <3>0 DEF ReconcileAccepted, Drifted
    <3>2. rt'[u].ckpt = CheckpointOf(u)
      BY <2>1, <3>1, ReconciledRecord
    <3>3. SameDigest(u, "checkpoint")
      <4>1. "checkpoint" \notin edited[u] /\ ~Drifted
        BY <3>1
      <4> QED BY <4>1 DEF SameDigest
    <3>4. rt'[u].ckpt # None /\ IsPrefix(rt'[u].ckpt, main')
      BY <1>1 DEF InHistory, Known
    <3>5. CheckpointValid(u)
      BY <3>1, <3>2, <3>3, <3>4 DEF CheckpointValid, PolicyHolds
    <3> QED BY <2>1, <3>1, <3>5, ReconciledRecord
  <2>2. CASE proc' = proc /\ rt' = rt /\ main' = main
    <3>1. ~EditPolicy /\ ~ReconcileAccepted
      BY <1>1, <2>2 DEF EditPolicy, ReconcileAccepted
    <3>2. ~Drifted
      BY <1>1, <3>1, DriftBegins DEF Drifted
    <3> QED BY <1>1, <2>2, <3>2 DEF StartInv, InHistory, Known
  <2> QED BY <1>1, <2>1, <2>2, StartMovers
<1>2. ASSUME proc'.pc = "prepared" PROVE ~InHistory(proc.task)'
  <2>1. ASSUME NEW t \in Tasks, PrepareTask(t) PROVE ~InHistory(proc.task)'
    <3>1. /\ proc.pc = "ready" /\ ~Drifted /\ t \in Agents /\ rt[t].status # "accepted"
          /\ proc'.task = t /\ rt' = rt /\ main' = main
      BY <2>1 DEF PrepareTask, Selectable, Engaged, Enter, store
    <3>2. ~InHistory(t)
      BY <3>1 DEF StartInv
    <3> QED BY <3>1, <3>2 DEF InHistory, Known
  <2>2. CASE proc' = proc /\ rt' = rt /\ main' = main
    BY <1>2, <2>2 DEF StartInv, InHistory, Known
  <2> QED BY <1>2, <2>1, <2>2, StartMovers
<1> QED BY <1>1, <1>2 DEF StartInv

LEMMA InitStart == Init => PolicyStill /\ StartInv
  BY DEF Init, PolicyStill, StartInv, Drifted, Idle

-----------------------------------------------------------------------------
(* A reviewed commit is recoverable, wherever the command that made it was *)
(* killed.  Only the start of a fresh run forgets a checkpoint or an       *)
(* intent, and only from a branch at the integration head: it must not be  *)
(* the reviewed commit that is there.  It is not, because what is in the   *)
(* history and was reviewed last for a task is that task's checkpoint, and *)
(* a task with its checkpoint in the history was accepted by the           *)
(* reconciliation the command began with (StartInv).                       *)

OwnReview(t) == reviewed[t] # None => reviewed[t] # <<>> /\ Last(reviewed[t]).task = t

HistoryKnown(t) == reviewed[t] # None /\ IsPrefix(reviewed[t], main) => Known(t)

MetadataKept(t) == branch[t] # None /\ branch[t] = reviewed[t] => Known(t) \/ rt[t].intent # None

RecoveryInv == /\ \A t \in Tasks : OwnReview(t)
               /\ \A t \in Agents : HistoryKnown(t) /\ MetadataKept(t)

\* Where nothing but the engine commits on a task branch, the branch is the checkpoint, and so
\* is what an integration moves the head to.
BranchInv == /\ \A t \in Agents : Known(t) => branch[t] = rt[t].ckpt
             /\ proc.pc = "advance" => proc.commit = rt[proc.task].ckpt
             /\ proc.pc = "settle" => main = rt[proc.task].ckpt

\* The actions that change what a record says of its task, its branch or its review.
LEMMA RecordMovers ==
  ASSUME TypeInv, LedgerInv, [Next]_vars, NEW u \in Agents
  PROVE  \/ SameRecord(u)
         \/ PrepareTask(u) \/ RecoverCheckpoint(u) \/ StartRun(u) \/ ReviewAccepts(u)
         \/ CommitTask(u) \/ SaveCheckpoint(u) \/ AgentCommits(u)
<1> DEFINE Moved == \/ PrepareTask(u) \/ RecoverCheckpoint(u) \/ StartRun(u) \/ ReviewAccepts(u)
                    \/ CommitTask(u) \/ SaveCheckpoint(u) \/ AgentCommits(u)
<1>0. rt \in [Tasks -> Runtime] /\ u \in Tasks /\ u \notin Gates
  BY DEF TypeInv, TypeOK, Agents
<1> USE DEF SameRecord, SaveStage, git, store
<1>1. ASSUME NEW t \in Tasks, Once(t) PROVE SameRecord(u) \/ Moved
  <2>1. CASE WaitForHumanGate(t)
    BY <1>0, <2>1 DEF WaitForHumanGate, Runtime
  <2>6. CASE PrepareGate(t)
    BY <2>6 DEF PrepareGate
  <2>5. CASE ResumeRun(t)
    BY <1>0, <2>5 DEF ResumeRun, Runtime
  <2>2. CASE PrepareTask(t)
    BY <1>0, <2>2 DEF PrepareTask, TypeInv, TypeOK
  <2>3. CASE RecoverCheckpoint(t)
    BY <1>0, <2>3 DEF RecoverCheckpoint
  <2>4. CASE StartRun(t)
    BY <1>0, <2>4 DEF StartRun
  <2> QED BY <1>1, <2>1, <2>2, <2>3, <2>4, <2>5, <2>6 DEF Once
<1>2. ASSUME NEW t \in Tasks, Run(t) PROVE SameRecord(u) \/ Moved
  <2>1. ASSUME NEW s \in Stages, SaveStage(t, s), UNCHANGED git, UNCHANGED reviewed
        PROVE  SameRecord(u)
    BY <1>0, <2>1 DEF Runtime
  <2>8. CASE BeginImplement(t) \/ BeginReverify(t) \/ AgentReturns(t) \/ VerifyPasses(t)
    BY <2>1, <2>8, Labels DEF BeginImplement, BeginReverify, AgentReturns, VerifyPasses
  <2>5. CASE NeedsHuman(t)
    BY <1>0, <2>5 DEF NeedsHuman, Runtime
  <2>6. CASE BeginRepair(t)
    BY <1>0, <2>6 DEF BeginRepair, Runtime
  <2>9. CASE BeginTargetedRepair(t)
    BY <1>0, <2>9 DEF BeginTargetedRepair, Runtime
  <2>7. CASE ExhaustRepairs(t)
    BY <1>0, <2>7 DEF ExhaustRepairs, Runtime
  <2>2. CASE ReviewAccepts(t)
    BY <1>0, <2>2 DEF ReviewAccepts, TypeInv, TypeOK
  <2>3. CASE CommitTask(t)
    BY <1>0, <2>3 DEF CommitTask, TypeInv, TypeOK
  <2>4. CASE SaveCheckpoint(t)
    BY <1>0, <2>4 DEF SaveCheckpoint
  <2> QED BY <1>2, <2>1, <2>2, <2>3, <2>4, <2>5, <2>6, <2>7, <2>8, <2>9 DEF Run
<1>3. ASSUME NEW t \in Tasks, Integrate(t) \/ RunFails(t) PROVE SameRecord(u)
  BY <1>0, <1>3 DEF Integrate, ReadTree, AdvanceRef, AcceptTask, RollBack, RunFails, Runtime
<1>4. ASSUME NEW t \in Tasks, Operator(t) PROVE SameRecord(u)
  <2>1. CASE Approve(t)
    <3>1. t \in Gates
      BY <2>1 DEF Approve, At, LedgerInv, Place
    <3> QED BY <1>0, <2>1, <3>1 DEF Approve, TypeInv, TypeOK
  <2>8. CASE OpenGate(t) \/ Reject(t)
    BY <1>0, <2>8 DEF OpenGate, Reject, GateOpen, TypeInv, TypeOK
  <2>2. CASE CommitHumanGate(t)
    BY <1>0, <2>2 DEF CommitHumanGate
  <2>3. CASE AcceptGate(t)
    BY <1>0, <2>3 DEF AcceptGate, At, LedgerInv, Place
  <2>4. CASE Requeue(t)
    BY <1>0, <2>4 DEF Requeue, Runtime
  <2>5. CASE RetryTargeted(t)
    BY <1>0, <2>5 DEF RetryTargeted, Runtime
  <2>6. CASE Pause(t)
    BY <1>0, <2>6 DEF Pause, PausedRuntime, Runtime
  <2>7. CASE Interrupt(t)
    BY <1>0, <2>7 DEF Interrupt, PausedRuntime, Runtime
  <2> QED BY <1>4, <2>1, <2>2, <2>3, <2>4, <2>5, <2>6, <2>7, <2>8 DEF Operator
<1>5. ASSUME NEW t \in Tasks, Outside(t) PROVE SameRecord(u) \/ Moved
  BY <1>0, <1>5 DEF Outside, WriteTree, AgentCommits, TypeInv, TypeOK
<1>6. CASE ReconcileAccepted
  <2>1. rt[u] \in Runtime /\ rt'[u] = ReconciledTask(u)
    BY <1>0, <1>6 DEF ReconcileAccepted
  <2>2. CheckpointOf(u) = rt[u].ckpt /\ ~Claimed(u)
    BY DEF CheckpointOf, Claimed, LedgerInv, Record
  <2>3. branch' = branch /\ reviewed' = reviewed
    BY <1>6 DEF ReconcileAccepted
  <2> QED BY <2>1, <2>2, <2>3 DEF ReconciledTask, Runtime
<1>7. CASE Crash \/ EndCommand \/ EditPolicy \/ WriteIntegrationTree \/ UNCHANGED vars
  BY <1>7 DEF Crash, EndCommand, EditPolicy, WriteIntegrationTree, vars
<1> QED BY <1>1, <1>2, <1>3, <1>4, <1>5, <1>6, <1>7 DEF Next

\* The reviews and approvals are written by two actions, each for a commit of its own task.
LEMMA ReviewMovers ==
  ASSUME TypeInv, LedgerInv, [Next]_vars, NEW u \in Tasks
  PROVE  \/ reviewed'[u] = reviewed[u]
         \/ /\ ReviewAccepts(u) \/ Approve(u)
            /\ \E w \in Trees : reviewed'[u] = Candidate(u, main, w)
<1> DEFINE Moved == /\ ReviewAccepts(u) \/ Approve(u)
                    /\ \E w \in Trees : reviewed'[u] = Candidate(u, main, w)
<1>1. ASSUME NEW t \in Tasks, Once(t) PROVE reviewed' = reviewed
  BY <1>1 DEF Once, PrepareGate, WaitForHumanGate, PrepareTask, RecoverCheckpoint, ResumeRun, StartRun
<1>2. ASSUME NEW t \in Tasks, Run(t) PROVE reviewed'[u] = reviewed[u] \/ Moved
  <2>1. CASE ReviewAccepts(t)
    <3>1. /\ proc.pc = "review" /\ proc.task = t /\ tree[t] \in Trees
          /\ reviewed' = [reviewed EXCEPT ![t] = Candidate(t, rt[t].base, tree[t])]
      BY <2>1 DEF ReviewAccepts, Reviewed, Running, At, TypeInv, TypeOK, Candidate
    <3>2. rt[t].base = main
      BY <3>1 DEF LedgerInv, Place, BeforeCommit
    <3> QED BY <2>1, <3>1, <3>2 DEF TypeInv, TypeOK
  <2>2. CASE ~ReviewAccepts(t)
    BY <1>2, <2>2 DEF Run, BeginImplement, BeginTargetedRepair, BeginReverify, AgentReturns,
       VerifyPasses, NeedsHuman, BeginRepair, ExhaustRepairs, CommitTask, SaveCheckpoint
  <2> QED BY <2>1, <2>2
<1>3. ASSUME NEW t \in Tasks, Integrate(t) \/ RunFails(t) \/ Outside(t) PROVE reviewed' = reviewed
  BY <1>3 DEF Integrate, ReadTree, AdvanceRef, AcceptTask, RollBack, RunFails, Outside, WriteTree,
              AgentCommits
<1>4. ASSUME NEW t \in Tasks, Operator(t) PROVE reviewed'[u] = reviewed[u] \/ Moved
  <2>1. CASE Approve(t)
    <3>1. reviewed' = [reviewed EXCEPT ![t] = Candidate(t, main, itree)] /\ itree \in Trees
      BY <2>1 DEF Approve, TypeInv, TypeOK, Candidate
    <3> QED BY <2>1, <3>1 DEF TypeInv, TypeOK
  <2>2. CASE ~Approve(t)
    BY <1>4, <2>2 DEF Operator, OpenGate, CommitHumanGate, AcceptGate, Reject, Requeue, RetryTargeted,
                      Pause, Interrupt
  <2> QED BY <2>1, <2>2
<1>5. CASE ReconcileAccepted \/ Crash \/ EndCommand \/ EditPolicy \/ WriteIntegrationTree \/ UNCHANGED vars
  BY <1>5 DEF ReconcileAccepted, Crash, EndCommand, EditPolicy, WriteIntegrationTree, vars
<1> QED BY <1>1, <1>2, <1>3, <1>4, <1>5 DEF Next

LEMMA CandidateIsNew ==
  ASSUME NEW t \in Tasks, NEW c \in Commits, NEW w \in Trees
  PROVE  ~IsPrefix(Candidate(t, c, w), c)
<1>1. Candidate(t, c, w) \in Commits /\ Candidate(t, c, w) # <<>> /\ Front(Candidate(t, c, w)) = c
  BY CandidateProperties
<1>2. Len(c) = Len(Candidate(t, c, w)) - 1 /\ Len(Candidate(t, c, w)) \in Nat
  BY <1>1, FrontElements
<1> QED BY <1>1, <1>2, PrefixElements

\* A prefix of a commit is the commit or a prefix of its parent.
LEMMA PrefixSplits ==
  ASSUME NEW b \in Commits, NEW c \in Commits, c # <<>>, IsPrefix(b, c)
  PROVE  b = c \/ IsPrefix(b, Front(c))
<1>1. Len(b) \in Nat /\ Len(c) \in Nat /\ Len(c) > 0 /\ Len(b) <= Len(c)
      /\ \A i \in 1..Len(b) : b[i] = c[i]
  BY PrefixElements, FrontElements, LenProperties DEF Commits
<1>2. CASE Len(b) = Len(c)
  BY <1>1, <1>2, SeqEqual DEF Commits
<1>3. CASE Len(b) # Len(c)
  <2>1. Len(b) <= Len(c) - 1
    BY <1>1, <1>3
  <2>2. /\ Front(c) \in Commits /\ Len(Front(c)) = Len(c) - 1
        /\ \A i \in 1..(Len(c) - 1) : Front(c)[i] = c[i]
    BY FrontElements
  <2>3. \A i \in 1..Len(b) : b[i] = Front(c)[i]
    BY <1>1, <2>1, <2>2
  <2> QED BY <2>1, <2>2, <2>3, PrefixElements
<1> QED BY <1>2, <1>3

LEMMA ReviewedType ==
  ASSUME TypeInv, NEW t \in Tasks
  PROVE  reviewed[t] \in Commits \cup {None}
  BY DEF TypeInv, TypeOK

LEMMA OwnReviewStep ==
  ASSUME TypeInv, LedgerInv, [Next]_vars, NEW u \in Tasks, OwnReview(u)
  PROVE  OwnReview(u)'
<1>1. CASE reviewed'[u] = reviewed[u]
  BY <1>1 DEF OwnReview
<1>2. CASE \E w \in Trees : reviewed'[u] = Candidate(u, main, w)
  BY <1>2, CandidateTask, CandidateProperties DEF OwnReview, TypeInv, TypeOK
<1> QED BY <1>1, <1>2, ReviewMovers

\* Either checkpoint records the head of the task's branch.
LEMMA BranchCheckpointed ==
  ASSUME TypeInv, NEW u \in Tasks, RecoverCheckpoint(u) \/ SaveCheckpoint(u)
  PROVE  rt'[u].ckpt = branch[u] /\ branch[u] # None
<1>1. rt \in [Tasks -> Runtime]
  BY DEF TypeInv, TypeOK
<1>2. rt[u] \in Runtime
  BY <1>1
<1>3. branch[u] # None
  BY DEF RecoverCheckpoint, SaveCheckpoint, Running, At, TypeInv, PlaceOK, OnAgentTask
<1>4. CASE RecoverCheckpoint(u)
  <2> DEFINE r == [rt[u] EXCEPT !.ckpt = branch[u], !.intent = None, !.stage = "checkpointed"]
  <2>1. rt' = [rt EXCEPT ![u] = r]
    BY <1>1, <1>4 DEF RecoverCheckpoint
  <2>2. r.ckpt = branch[u]
    BY <1>2 DEF Runtime
  <2> HIDE DEF r
  <2> QED BY <1>1, <1>3, <2>1, <2>2
<1>5. CASE SaveCheckpoint(u)
  <2> DEFINE r == [rt[u] EXCEPT !.stage = "checkpointed", !.ckpt = proc.commit,
                                !.intent = None, !.targeted = "none"]
  <2>1. branch[u] = proc.commit /\ rt' = [rt EXCEPT ![u] = r]
    BY <1>1, <1>5 DEF SaveCheckpoint
  <2>2. r.ckpt = proc.commit
    BY <1>2 DEF Runtime
  <2> HIDE DEF r
  <2> QED BY <1>1, <1>3, <2>1, <2>2
<1> QED BY <1>4, <1>5

\* How an integration comes to be under way.
LEMMA IntegrationMovers ==
  ASSUME TypeInv, [Next]_vars
  PROVE  /\ proc'.pc = "advance" => \/ \E t \in Tasks : ReadTree(t)
                                    \/ proc' = proc /\ main' = main
         /\ proc'.pc = "settle" => \/ \E t \in Tasks : AdvanceRef(t)
                                   \/ proc' = proc /\ main' = main
<1> DEFINE There == {"advance", "settle"}
<1> USE CommandMoves DEF Reaches, Idle
<1>1. ASSUME NEW t \in Tasks, Once(t) PROVE proc'.pc \notin There
  BY <1>1 DEF Once
<1>2. ASSUME NEW t \in Tasks, Run(t) PROVE proc'.pc \notin There
  BY <1>2 DEF Run
<1>3. ASSUME NEW t \in Tasks, AcceptTask(t) \/ RollBack(t) \/ RunFails(t) PROVE proc'.pc \notin There
  BY <1>3
<1>4. ASSUME NEW t \in Tasks, Operator(t) PROVE proc'.pc \notin There
  BY <1>4 DEF Operator, Pause
<1>5. ASSUME NEW t \in Tasks, ReadTree(t) PROVE proc'.pc = "advance"
  BY <1>5
<1>6. ASSUME NEW t \in Tasks, AdvanceRef(t) PROVE proc'.pc = "settle"
  BY <1>6
<1> QED BY <1>1, <1>2, <1>3, <1>4, <1>5, <1>6, OutsideMoves, OtherMoves DEF Next, Integrate

LEMMA BranchStep ==
  ASSUME "agent_commit" \notin Disturbances, TypeInv, LedgerInv, BranchInv, [Next]_vars
  PROVE  BranchInv'
<1>0. rt \in [Tasks -> Runtime]
  BY DEF TypeInv, TypeOK
<1>1. ASSUME NEW u \in Agents, rt'[u].ckpt # None PROVE branch'[u] = rt'[u].ckpt
  <2>0. u \in Tasks /\ (rt[u].ckpt # None => branch[u] = rt[u].ckpt)
    BY DEF Agents, BranchInv, Known
  <2>1. CASE SameRecord(u)
    BY <1>1, <2>0, <2>1 DEF SameRecord
  <2>2. CASE PrepareTask(u)
    <3>1. rt' = rt /\ branch'[u] = IF branch[u] = None THEN main ELSE branch[u]
      BY <2>0, <2>2 DEF PrepareTask, store, TypeInv, TypeOK
    <3> QED BY <1>1, <2>0, <3>1
  <2>3. CASE RecoverCheckpoint(u)
    BY <2>0, <2>3, BranchCheckpointed DEF RecoverCheckpoint, git
  <2>4. CASE StartRun(u)
    <3>1. rt'[u].ckpt = None
      BY <1>0, <2>0, <2>4 DEF StartRun, Restarted, Runtime
    <3> QED BY <1>1, <3>1
  <2>5. CASE ReviewAccepts(u)
    <3>1. rt'[u].ckpt = rt[u].ckpt /\ branch' = branch
      BY <1>0, <2>0, <2>5 DEF ReviewAccepts, git, Runtime
    <3> QED BY <1>1, <2>0, <3>1
  <2>6. CASE CommitTask(u)
    <3>1. rt' = rt /\ rt[u].ckpt = None
      BY <2>6 DEF CommitTask, Running, At, store, LedgerInv, Place, BeforeCommit
    <3> QED BY <1>1, <3>1
  <2>7. CASE SaveCheckpoint(u)
    BY <2>0, <2>7, BranchCheckpointed DEF SaveCheckpoint, git
  <2>8. ~AgentCommits(u)
    BY DEF AgentCommits
  <2> QED BY <2>1, <2>2, <2>3, <2>4, <2>5, <2>6, <2>7, <2>8, RecordMovers
<1>2. ASSUME proc' = proc, proc.pc \in {"advance", "settle"}
      PROVE  rt'[proc.task].ckpt = rt[proc.task].ckpt
  <2>1. PICK u \in Agents : u = proc.task
    BY <1>2 DEF TypeInv, PlaceOK, OnAgentTask
  <2>2. /\ ~PrepareTask(u) /\ ~RecoverCheckpoint(u) /\ ~StartRun(u) /\ ~ReviewAccepts(u)
        /\ ~CommitTask(u) /\ ~SaveCheckpoint(u) /\ ~AgentCommits(u)
    BY <1>2 DEF PrepareTask, RecoverCheckpoint, StartRun, ReviewAccepts, Reviewed, CommitTask,
                SaveCheckpoint, AgentCommits, Running, At
  <2>3. SameRecord(u)
    BY <2>2, RecordMovers
  <2> QED BY <2>1, <2>3 DEF SameRecord
<1>3. ASSUME proc'.pc = "advance" PROVE proc'.commit = rt'[proc'.task].ckpt
  <2>1. ASSUME NEW t \in Tasks, ReadTree(t) PROVE proc'.commit = rt'[proc'.task].ckpt
    <3>1. proc.pc = "integrate" /\ proc.task = t /\ rt' = rt
          /\ proc'.commit = branch[t] /\ proc'.task = t
      BY <2>1 DEF ReadTree, At, Hold, store, TypeInv, TypeOK, Processes
    <3>2. t \in Agents /\ Known(t)
      BY <3>1 DEF LedgerInv, Place, TypeInv, PlaceOK, OnAgentTask
    <3> QED BY <3>1, <3>2 DEF BranchInv
  <2>2. CASE proc' = proc /\ main' = main
    BY <1>2, <1>3, <2>2 DEF BranchInv
  <2> QED BY <1>3, <2>1, <2>2, IntegrationMovers
<1>4. ASSUME proc'.pc = "settle" PROVE main' = rt'[proc'.task].ckpt
  <2>1. ASSUME NEW t \in Tasks, AdvanceRef(t) PROVE main' = rt'[proc'.task].ckpt
    <3>1. proc.pc = "advance" /\ proc.task = t /\ rt' = rt /\ main' = proc.commit /\ proc'.task = t
      BY <2>1 DEF AdvanceRef, At, Hold, store, TypeInv, TypeOK, Processes
    <3> QED BY <3>1 DEF BranchInv
  <2>2. CASE proc' = proc /\ main' = main
    BY <1>2, <1>4, <2>2 DEF BranchInv
  <2> QED BY <1>4, <2>1, <2>2, IntegrationMovers
<1> QED BY <1>1, <1>3, <1>4 DEF BranchInv, Known

LEMMA InitBranch == Init => BranchInv
<1>1. ASSUME Init, NEW t \in Agents PROVE rt[t].ckpt = None
  BY <1>1 DEF Init, FreshRuntime, Agents
<1> QED BY <1>1 DEF Init, BranchInv, Known, Idle

\* What becomes part of the history is the commit of the task at hand, and that task knows it.
LEMMA HistoryGains ==
  ASSUME TypeInv, LedgerInv, RecoveryInv, BranchInv, [Next]_vars, NEW u \in Agents, ~Known(u),
         reviewed[u] # None, IsPrefix(reviewed[u], main')
  PROVE  IsPrefix(reviewed[u], main)
<1>1. /\ reviewed[u] \in Commits /\ main \in Commits /\ u \in Tasks
      /\ reviewed[u] # <<>> /\ Last(reviewed[u]).task = u
  BY ReviewedType, TypesOf DEF RecoveryInv, OwnReview, Agents
<1>2. ASSUME NEW t \in Tasks, AdvanceRef(t) PROVE IsPrefix(reviewed[u], main)
  <2>1. proc.pc = "advance" /\ proc.task = t /\ main' = proc.commit
    BY <1>2 DEF AdvanceRef, At
  <2>2. /\ t \in Agents /\ Known(t) /\ main' = rt[t].ckpt /\ Front(main') = main
        /\ rt[t].ckpt = reviewed[t] /\ rt[t].ckpt # <<>>
    BY <2>1 DEF BranchInv, LedgerInv, Place, Record, TypeInv, PlaceOK, OnAgentTask
  <2>3. main' \in Commits /\ main' # <<>>
    BY <2>2 DEF Known, TypeInv, TypeOK, Runtime, Agents
  <2>4. reviewed[u] # main'
    BY <1>1, <2>2 DEF RecoveryInv, OwnReview, Agents, Known
  <2> QED BY <1>1, <2>2, <2>3, <2>4, PrefixSplits
<1>3. ASSUME NEW t \in Tasks, RollBack(t) PROVE IsPrefix(reviewed[u], main)
  <2>1. main' = proc.commit /\ proc.pc = "settle"
    BY <1>3 DEF RollBack, At
  <2>2. proc.commit \in Commits /\ IsPrefix(proc.commit, main)
    BY <2>1, SettleOnTop, PrefixTransitive
  <2> QED BY <1>1, <2>1, <2>2, PrefixTransitive
<1>4. ASSUME NEW t \in Tasks, CommitHumanGate(t) PROVE IsPrefix(reviewed[u], main)
  <2>1. /\ t \in Gates /\ proc.tree \in Trees /\ main' = Candidate(t, main, proc.tree)
    BY <1>4 DEF CommitHumanGate, At, LedgerInv, Place, TypeInv, TypeOK, Candidate
  <2>2. /\ main' \in Commits /\ main' # <<>> /\ Front(main') = main /\ Last(main').task = t
    BY <1>1, <2>1, CandidateProperties, CandidateTask
  <2>3. reviewed[u] # main'
    BY <1>1, <2>1, <2>2 DEF Agents
  <2> QED BY <1>1, <2>2, <2>3, PrefixSplits
<1>5. CASE HistoryKept
  BY <1>5 DEF HistoryKept
<1> QED BY <1>2, <1>3, <1>4, <1>5, MainMovers

LEMMA StartForgetsNothing ==
  ASSUME TypeInv, LedgerInv, StartInv, NEW u \in Agents, HistoryKnown(u), StartRun(u)
  PROVE  ~(reviewed[u] # None /\ IsPrefix(reviewed[u], main))
<1>1. ~InHistory(u)
  BY DEF StartRun, At, StartInv
<1> QED BY <1>1 DEF HistoryKnown, InHistory, LedgerInv, Record

LEMMA HistoryKnownStep ==
  ASSUME TypeInv, LedgerInv, StartInv, BranchInv, RecoveryInv, [Next]_vars, NEW u \in Agents
  PROVE  HistoryKnown(u)'
<1> SUFFICES ASSUME reviewed'[u] # None, IsPrefix(reviewed'[u], main') PROVE Known(u)'
  BY DEF HistoryKnown
<1>1. u \in Tasks /\ main \in Commits /\ HistoryKnown(u)
  BY TypesOf DEF RecoveryInv
<1>2. CASE SameRecord(u)
  BY <1>1, <1>2, HistoryGains DEF SameRecord, Known, HistoryKnown
<1>3. CASE RecoverCheckpoint(u) \/ SaveCheckpoint(u)
  BY <1>1, <1>3, BranchCheckpointed DEF Known
<1>4. CASE PrepareTask(u) \/ CommitTask(u) \/ AgentCommits(u)
  BY <1>1, <1>4 DEF PrepareTask, CommitTask, AgentCommits, store, HistoryKnown, Known
<1>5. CASE StartRun(u)
  BY <1>1, <1>5, StartForgetsNothing DEF StartRun, git
<1>6. CASE ReviewAccepts(u)
  <2>1. PICK w \in Trees : reviewed'[u] = Candidate(u, main, w)
    <3>1. reviewed'[u] = Append(rt[u].base, [task |-> u, tree |-> tree[u]])
          /\ proc.pc = "review" /\ proc.task = u /\ tree[u] \in Trees
      BY <1>1, <1>6 DEF ReviewAccepts, Reviewed, Running, At, TypeInv, TypeOK
    <3>2. rt[u].base = main
      BY <3>1 DEF LedgerInv, Place, BeforeCommit
    <3> QED BY <3>1, <3>2 DEF Candidate
  <2> QED BY <1>1, <1>6, <2>1, CandidateIsNew DEF ReviewAccepts, git
<1> QED BY <1>2, <1>3, <1>4, <1>5, <1>6, RecordMovers

LEMMA MetadataKeptStep ==
  ASSUME "agent_commit" \notin Disturbances, TypeInv, LedgerInv, StartInv, RecoveryInv, [Next]_vars,
         NEW u \in Agents
  PROVE  MetadataKept(u)'
<1> SUFFICES ASSUME branch'[u] # None, branch'[u] = reviewed'[u]
             PROVE  rt'[u].ckpt # None \/ rt'[u].intent # None
  BY DEF MetadataKept, Known
<1>1. u \in Tasks /\ main \in Commits /\ HistoryKnown(u) /\ MetadataKept(u)
  BY TypesOf DEF RecoveryInv
<1>2. CASE SameRecord(u)
  BY <1>1, <1>2 DEF SameRecord, MetadataKept, Known
<1>3. CASE PrepareTask(u)
  <2>1. rt' = rt /\ reviewed' = reviewed /\ branch'[u] = IF branch[u] = None THEN main ELSE branch[u]
    BY <1>1, <1>3 DEF PrepareTask, store, TypeInv, TypeOK
  <2> QED BY <1>1, <2>1, PrefixReflexive DEF HistoryKnown, MetadataKept, Known
<1>4. CASE RecoverCheckpoint(u) \/ SaveCheckpoint(u)
  BY <1>1, <1>4, BranchCheckpointed
<1>5. CASE StartRun(u)
  <2>1. branch[u] = main /\ branch' = branch /\ reviewed' = reviewed
    BY <1>5 DEF StartRun, CanStart, git
  <2> QED BY <1>1, <1>5, <2>1, StartForgetsNothing, PrefixReflexive
<1>6. CASE ReviewAccepts(u)
  <2>1. rt'[u].intent = [base |-> rt[u].base, tree |-> proc.tree]
    BY <1>1, <1>6 DEF ReviewAccepts, TypeInv, TypeOK, Runtime
  <2>2. rt[u].base = main /\ proc.tree \in Trees
    <3>1. proc.pc = "review" /\ proc.task = u /\ tree[u] = proc.tree
      BY <1>6 DEF ReviewAccepts, Reviewed, Running, At
    <3> QED BY <1>1, <3>1 DEF LedgerInv, Place, BeforeCommit, TypeInv, TypeOK
  <2>3. [base |-> main, tree |-> proc.tree] \in Intents
    BY <1>1, <2>2 DEF Intents
  <2> QED BY <2>1, <2>2, <2>3, NoneIsNot
<1>7. CASE CommitTask(u)
  <2>1. rt' = rt /\ proc.pc = "commit" /\ proc.task = u
    BY <1>7 DEF CommitTask, Running, At, store
  <2>2. rt[u].intent = [base |-> main, tree |-> proc.tree] /\ proc.tree \in Trees
    <3>1. reviewed[u] = Candidate(u, main, proc.tree) /\ rt[u].intent = [base |-> main, tree |-> proc.tree]
      BY <2>1 DEF LedgerInv, Place
    <3>2. tree[u] = proc.tree
      BY <1>7 DEF CommitTask
    <3> QED BY <1>1, <3>1, <3>2 DEF TypeInv, TypeOK
  <2>3. [base |-> main, tree |-> proc.tree] \in Intents
    BY <1>1, <2>2 DEF Intents
  <2> QED BY <2>1, <2>2, <2>3, NoneIsNot
<1>8. ~AgentCommits(u)
  BY DEF AgentCommits
<1> QED BY <1>2, <1>3, <1>4, <1>5, <1>6, <1>7, <1>8, RecordMovers

LEMMA InitRecovery == Init => RecoveryInv
  BY DEF Init, RecoveryInv, OwnReview, HistoryKnown, MetadataKept, Agents

\* For every plan, and whatever is killed, interrupted or written from outside: a reviewed
\* commit on a task branch has its checkpoint, or the intent saved before it was made, in the
\* record of its task, so that a later command integrates it.  Left out are policy files edited
\* while a command runs (the preflight of a fresh run then no longer answers for what the
\* reconciliation saw, engine.py:260-304 and 1399-1430) and commits by other hands
\* (one on top hides the reviewed commit, and the record of neither is what recovery asks
\* for, engine.py:2056-2076).
THEOREM ReviewedCommitIsRecoverable ==
  ASSUME "agent_commit" \notin Disturbances, "late_policy" \notin Disturbances
  PROVE  Spec => []CommitIsRecoverable
<1>1. Spec => []TypeInv
  BY InitType, NextType, PTL DEF Spec
<1>2. Spec => []LedgerInv
  BY <1>1, InitLedger, NextLedger, PTL DEF Spec
<1>3. Spec => [](PolicyStill /\ StartInv)
  <2>1. TypeInv /\ LedgerInv /\ (PolicyStill /\ StartInv) /\ [Next]_vars => (PolicyStill /\ StartInv)'
    BY PolicyStillStep, StartInvStep
  <2> QED BY <1>1, <1>2, <2>1, InitStart, PTL DEF Spec
<1>4. Spec => []BranchInv
  <2>1. TypeInv /\ LedgerInv /\ BranchInv /\ [Next]_vars => BranchInv'
    BY BranchStep
  <2> QED BY <1>1, <1>2, <2>1, InitBranch, PTL DEF Spec
<1>5. Spec => []RecoveryInv
  <2>1. TypeInv /\ LedgerInv /\ (PolicyStill /\ StartInv) /\ BranchInv /\ RecoveryInv /\ [Next]_vars
          => RecoveryInv'
    BY OwnReviewStep, HistoryKnownStep, MetadataKeptStep DEF RecoveryInv
  <2> QED BY <1>1, <1>2, <1>3, <1>4, <2>1, InitRecovery, PTL DEF Spec
<1>6. TypeInv /\ LedgerInv /\ RecoveryInv => CommitIsRecoverable
  <2> SUFFICES ASSUME TypeInv, LedgerInv, RecoveryInv, NEW t \in Agents,
                      branch[t] # None, branch[t] = reviewed[t]
               PROVE  \/ rt[t].ckpt = branch[t]
                      \/ rt[t].intent = [base |-> Front(branch[t]), tree |-> Last(branch[t]).tree]
    BY DEF CommitIsRecoverable
  <2>1. CASE Known(t)
    BY <2>1 DEF LedgerInv, Record
  <2>2. CASE rt[t].intent # None
    <3>1. PICK i \in Intents : rt[t].intent = i
      BY <2>2, TypesOf
    <3>2. i.base \in Commits /\ i.tree \in Trees /\ i = [base |-> i.base, tree |-> i.tree]
      BY <3>1 DEF Intents
    <3>3. reviewed[t] = Candidate(t, i.base, i.tree)
      BY <2>2, <3>1 DEF LedgerInv, Record
    <3>4. /\ Front(Candidate(t, i.base, i.tree)) = i.base
          /\ Last(Candidate(t, i.base, i.tree)).tree = i.tree
      BY <3>2, CandidateProperties DEF Agents
    <3> QED BY <3>1, <3>2, <3>3, <3>4
  <2> QED BY <2>1, <2>2 DEF RecoveryInv, MetadataKept
<1> QED BY <1>1, <1>2, <1>5, <1>6, PTL
=============================================================================
