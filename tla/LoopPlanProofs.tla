--------------------------- MODULE LoopPlanProofs ---------------------------
(***************************************************************************)
(* What the engineering loop promises on a linear plan, one where every    *)
(* task depends on the task right before it, as in PLAN.yaml.  It is not   *)
(* true of every plan: with independent tasks an interrupted run is        *)
(* forgotten and a rejected gate can become accepted.                      *)
(*                                                                         *)
(* On a linear plan there is at every moment one frontier: a task that is  *)
(* not in the history of the integration branch while all before it are.   *)
(* Whatever the engine has written about a task implies that the tasks     *)
(* before it are in the history (OrderInv), so two tasks it has begun and  *)
(* not finished are one and the same, and no command about one of them     *)
(* meets the run, the branch or the request of another.                    *)
(***************************************************************************)
EXTENDS LoopEngineProofs

\* The tasks can be counted off from 0 so that each depends on the one before it.
Chained(pos) == /\ IsInjective(pos)
                /\ \A t \in Tasks : pos[t] # 0 => \E d \in Deps[t] : pos[d] = pos[t] - 1
LinearPlan == \E pos \in [Tasks -> Nat] : Chained(pos)
Position == CHOOSE pos \in [Tasks -> Nat] : Chained(pos)

Earlier(u, t) == Position[u] < Position[t]

\* The checkpoint of t is in the history that readers of the branch rely on.
InLedger(t) == Known(t) /\ IsPrefix(rt[t].ckpt, LedgerView)

\* The engine has written something about t.
Touched(t) == rt[t] # FreshRuntime

Reached(t) == \A u \in Tasks : Earlier(u, t) \/ u \in Deps[t] => InLedger(u)

AtWork == proc.pc \notin {"idle", "ready"}

\* A command has reconciled acceptance with git and found the policy undrifted.
Reconciled == AtWork \/ (proc.pc = "ready" /\ ~Drifted)

\* What a gate's record says of the history.
GatesKnown == \A g \in Gates : /\ Known(g) => InLedger(g)
                               /\ rt[g].status = "accepted" => Known(g)

OrderInv ==
  /\ GatesKnown
  /\ \A t \in Tasks : Touched(t) => Reached(t)
  /\ AtWork => proc.task \in Tasks /\ Reached(proc.task) /\ ~InLedger(proc.task)
  /\ Reconciled => \A t \in Tasks : InLedger(t) => rt[t].status = "accepted"

-----------------------------------------------------------------------------
(* The history, on any plan. *)

LEMMA ViewType == ASSUME TypeInv PROVE LedgerView \in Commits
  BY DEF LedgerView, TypeInv, TypeOK, PlaceOK, Holding

LEMMA RecordTypes ==
  ASSUME TypeInv, NEW t \in Tasks
  PROVE  rt[t] \in Runtime /\ rt[t].ckpt \in Commits \cup {None} /\ main \in Commits
  BY DEF TypeInv, TypeOK, Runtime

LEMMA ViewOnlyGrows ==
  ASSUME TypeInv, TypeInv', LedgerInv, [Next]_vars, NEW c \in Commits, IsPrefix(c, LedgerView)
  PROVE  IsPrefix(c, LedgerView')
<1>1. CASE LedgerView' = LedgerView
  BY <1>1
<1>2. CASE LedgerView' # LedgerView
  <2>1. PICK t \in Tasks : /\ reviewed[t] # None /\ reviewed[t] # <<>>
                           /\ Front(reviewed[t]) = LedgerView
                           /\ IsPrefix(reviewed[t], LedgerView')
    BY <1>2, StepDelivers DEF Delivers
  <2>2. reviewed[t] \in Commits /\ LedgerView' \in Commits
    BY <2>1 DEF LedgerView, TypeInv, TypeOK, PlaceOK, Holding
  <2> QED BY <2>1, <2>2, PrefixOfFront, PrefixTransitive
<1> QED BY <1>1, <1>2

\* The actions that change the checkpoint of a task.
LEMMA CheckpointMovers ==
  ASSUME TypeInv, [Next]_vars, NEW u \in Tasks
  PROVE  \/ rt'[u].ckpt = rt[u].ckpt
         \/ ReconcileAccepted /\ Claimed(u)
         \/ RecoverCheckpoint(u) \/ StartRun(u) \/ SaveCheckpoint(u) \/ AcceptGate(u)
<1>0. rt \in [Tasks -> Runtime]
  BY DEF TypeInv, TypeOK
<1> USE DEF SaveStage, git, store
<1>1. ASSUME NEW t \in Tasks, Once(t)
      PROVE  rt'[u].ckpt = rt[u].ckpt \/ RecoverCheckpoint(u) \/ StartRun(u)
  <2>1. CASE WaitForHumanGate(t)
    BY <1>0, <2>1 DEF WaitForHumanGate, Runtime
  <2>2. CASE ResumeRun(t)
    BY <1>0, <2>2 DEF ResumeRun, Runtime
  <2>3. CASE PrepareTask(t)
    BY <2>3 DEF PrepareTask
  <2>4. CASE RecoverCheckpoint(t)
    BY <1>0, <2>4 DEF RecoverCheckpoint
  <2>5. CASE StartRun(t)
    BY <1>0, <2>5 DEF StartRun
  <2>6. CASE PrepareGate(t)
    BY <2>6 DEF PrepareGate
  <2> QED BY <1>1, <2>1, <2>2, <2>3, <2>4, <2>5, <2>6 DEF Once
<1>2. ASSUME NEW t \in Tasks, Run(t) PROVE rt'[u].ckpt = rt[u].ckpt \/ SaveCheckpoint(u)
  <2>1. ASSUME NEW s \in Stages, SaveStage(t, s) PROVE rt'[u].ckpt = rt[u].ckpt
    BY <1>0, <2>1 DEF Runtime
  <2>2. CASE BeginImplement(t) \/ BeginReverify(t) \/ AgentReturns(t) \/ VerifyPasses(t)
    BY <2>1, <2>2, Labels DEF BeginImplement, BeginReverify, AgentReturns, VerifyPasses
  <2>3. CASE NeedsHuman(t)
    BY <1>0, <2>3 DEF NeedsHuman, Runtime
  <2>4. CASE BeginRepair(t)
    BY <1>0, <2>4 DEF BeginRepair, Runtime
  <2>5. CASE BeginTargetedRepair(t)
    BY <1>0, <2>5 DEF BeginTargetedRepair, Runtime
  <2>6. CASE ExhaustRepairs(t)
    BY <1>0, <2>6 DEF ExhaustRepairs, Runtime
  <2>7. CASE ReviewAccepts(t)
    BY <1>0, <2>7 DEF ReviewAccepts, Runtime
  <2>8. CASE CommitTask(t)
    BY <2>8 DEF CommitTask
  <2>9. CASE SaveCheckpoint(t)
    BY <1>0, <2>9 DEF SaveCheckpoint
  <2> QED BY <1>2, <2>2, <2>3, <2>4, <2>5, <2>6, <2>7, <2>8, <2>9 DEF Run
<1>3. ASSUME NEW t \in Tasks, Integrate(t) \/ RunFails(t) PROVE rt'[u].ckpt = rt[u].ckpt
  BY <1>0, <1>3 DEF Integrate, ReadTree, AdvanceRef, AcceptTask, RollBack, RunFails, Runtime
<1>4. ASSUME NEW t \in Tasks, Operator(t) PROVE rt'[u].ckpt = rt[u].ckpt \/ AcceptGate(u)
  <2>1. CASE Approve(t)
    BY <1>0, <2>1 DEF Approve, Runtime
  <2>2. CASE Reject(t)
    BY <1>0, <2>2 DEF Reject, Runtime
  <2>3. CASE CommitHumanGate(t)
    BY <2>3 DEF CommitHumanGate
  <2>4. CASE AcceptGate(t)
    BY <1>0, <2>4 DEF AcceptGate
  <2>5. CASE Requeue(t)
    BY <1>0, <2>5 DEF Requeue, Runtime
  <2>6. CASE RetryTargeted(t)
    BY <1>0, <2>6 DEF RetryTargeted, Runtime
  <2>7. CASE Pause(t)
    BY <1>0, <2>7 DEF Pause, PausedRuntime, Runtime
  <2>8. CASE Interrupt(t)
    BY <1>0, <2>8 DEF Interrupt, PausedRuntime, Runtime
  <2>9. CASE OpenGate(t)
    BY <2>9 DEF OpenGate
  <2> QED BY <1>4, <2>1, <2>2, <2>3, <2>4, <2>5, <2>6, <2>7, <2>8, <2>9 DEF Operator
<1>5. ASSUME NEW t \in Tasks, Outside(t) PROVE rt' = rt
  BY <1>5 DEF Outside, WriteTree, AgentCommits
<1>6. CASE ReconcileAccepted
  <2>1. rt[u] \in Runtime /\ rt'[u] = ReconciledTask(u)
    BY <1>0, <1>6 DEF ReconcileAccepted
  <2>2. rt'[u].ckpt = CheckpointOf(u)
    BY <2>1 DEF ReconciledTask, Runtime
  <2> QED BY <1>6, <2>2 DEF CheckpointOf
<1>7. CASE Crash \/ EndCommand \/ EditPolicy \/ WriteIntegrationTree \/ UNCHANGED vars
  BY <1>7 DEF Crash, EndCommand, EditPolicy, WriteIntegrationTree, vars
<1> QED BY <1>1, <1>2, <1>3, <1>4, <1>5, <1>6, <1>7 DEF Next

\* The actions that accept a task.
LEMMA Accepters ==
  ASSUME TypeInv, LedgerInv, [Next]_vars, NEW u \in Tasks, rt'[u].status = "accepted"
  PROVE  \/ rt[u].status = "accepted" /\ rt'[u].ckpt = rt[u].ckpt
         \/ ReconcileAccepted /\ CheckpointValid(u)
         \/ AcceptTask(u) \/ AcceptGate(u)
<1>0. rt \in [Tasks -> Runtime]
  BY DEF TypeInv, TypeOK
<1> DEFINE Was == rt[u].status = "accepted" /\ rt'[u].ckpt = rt[u].ckpt
<1> USE DEF SaveStage, git, store
<1>1. ASSUME NEW t \in Tasks, Once(t) PROVE Was
  <2>1. CASE WaitForHumanGate(t)
    BY <1>0, <2>1 DEF WaitForHumanGate, Runtime
  <2>2. CASE ResumeRun(t)
    BY <1>0, <2>2 DEF ResumeRun, Runtime
  <2>3. CASE PrepareTask(t)
    BY <2>3 DEF PrepareTask
  <2>4. CASE RecoverCheckpoint(t)
    <3>1. rt[t].status # "accepted"
      BY <2>4 DEF RecoverCheckpoint, At, LedgerInv, Place
    <3> QED BY <1>0, <2>4, <3>1 DEF RecoverCheckpoint, Runtime
  <2>5. CASE StartRun(t)
    BY <1>0, <2>5 DEF StartRun, Restarted, Runtime
  <2>6. CASE PrepareGate(t)
    BY <2>6 DEF PrepareGate
  <2> QED BY <1>1, <2>1, <2>2, <2>3, <2>4, <2>5, <2>6 DEF Once
<1>2. ASSUME NEW t \in Tasks, Run(t) PROVE Was
  <2>1. ASSUME NEW s \in Stages, SaveStage(t, s) PROVE Was
    BY <1>0, <2>1 DEF Runtime
  <2>2. CASE BeginImplement(t) \/ BeginReverify(t) \/ AgentReturns(t) \/ VerifyPasses(t)
    BY <2>1, <2>2, Labels DEF BeginImplement, BeginReverify, AgentReturns, VerifyPasses
  <2>3. CASE NeedsHuman(t)
    BY <1>0, <2>3 DEF NeedsHuman, Runtime
  <2>4. CASE BeginRepair(t)
    BY <1>0, <2>4 DEF BeginRepair, Runtime
  <2>5. CASE BeginTargetedRepair(t)
    BY <1>0, <2>5 DEF BeginTargetedRepair, Runtime
  <2>6. CASE ExhaustRepairs(t)
    BY <1>0, <2>6 DEF ExhaustRepairs, Runtime
  <2>7. CASE ReviewAccepts(t)
    BY <1>0, <2>7 DEF ReviewAccepts, Runtime
  <2>8. CASE CommitTask(t)
    BY <2>8 DEF CommitTask
  <2>9. CASE SaveCheckpoint(t)
    <3>1. t # u \/ rt[t].status = "running"
      BY <2>9 DEF SaveCheckpoint, Running, At, TypeInv, StageOK
    <3> QED BY <1>0, <2>9, <3>1 DEF SaveCheckpoint, Runtime
  <2> QED BY <1>2, <2>2, <2>3, <2>4, <2>5, <2>6, <2>7, <2>8, <2>9 DEF Run
<1>3. ASSUME NEW t \in Tasks, Integrate(t) \/ RunFails(t) PROVE Was \/ AcceptTask(u)
  <2>1. CASE AcceptTask(t)
    BY <1>0, <2>1 DEF AcceptTask
  <2>2. CASE RunFails(t)
    BY <1>0, <2>2 DEF RunFails, Runtime
  <2> QED BY <1>3, <2>1, <2>2 DEF Integrate, ReadTree, AdvanceRef, RollBack
<1>4. ASSUME NEW t \in Tasks, Operator(t) PROVE Was \/ AcceptGate(u)
  <2>1. CASE Approve(t)
    BY <1>0, <2>1 DEF Approve, Runtime
  <2>2. CASE Reject(t)
    BY <1>0, <2>2 DEF Reject, Runtime
  <2>3. CASE CommitHumanGate(t)
    BY <2>3 DEF CommitHumanGate
  <2>4. CASE AcceptGate(t)
    BY <1>0, <2>4 DEF AcceptGate
  <2>5. CASE Requeue(t)
    BY <1>0, <2>5 DEF Requeue, Runtime
  <2>6. CASE RetryTargeted(t)
    BY <1>0, <2>6 DEF RetryTargeted, Runtime
  <2>7. CASE Pause(t)
    BY <1>0, <2>7 DEF Pause, PausedRuntime, Runtime
  <2>8. CASE Interrupt(t)
    BY <1>0, <2>8 DEF Interrupt, PausedRuntime, Runtime
  <2>9. CASE OpenGate(t)
    BY <2>9 DEF OpenGate
  <2> QED BY <1>4, <2>1, <2>2, <2>3, <2>4, <2>5, <2>6, <2>7, <2>8, <2>9 DEF Operator
<1>5. ASSUME NEW t \in Tasks, Outside(t) PROVE Was
  BY <1>5 DEF Outside, WriteTree, AgentCommits
<1>6. CASE ReconcileAccepted
  <2>1. rt[u] \in Runtime /\ rt'[u] = ReconciledTask(u)
    BY <1>0, <1>6 DEF ReconcileAccepted
  <2>2. CheckpointValid(u)
    BY <2>1 DEF ReconciledTask, Runtime
  <2> QED BY <1>6, <2>2
<1>7. CASE Crash \/ EndCommand \/ EditPolicy \/ WriteIntegrationTree \/ UNCHANGED vars
  BY <1>7 DEF Crash, EndCommand, EditPolicy, WriteIntegrationTree, vars
<1> QED BY <1>1, <1>2, <1>3, <1>4, <1>5, <1>6, <1>7 DEF Next

\* Once in the ledger, always in the ledger, with the same checkpoint.
LEMMA StaysInLedger ==
  ASSUME TypeInv, TypeInv', LedgerInv, StartInv, [Next]_vars, NEW u \in Tasks, InLedger(u),
         AcceptGate(u) => ~Known(u)
  PROVE  InLedger(u)' /\ rt'[u].ckpt = rt[u].ckpt
<1>1. rt[u].ckpt \in Commits /\ main \in Commits /\ Known(u) /\ IsPrefix(rt[u].ckpt, LedgerView)
  BY RecordTypes DEF InLedger, Known
<1>2. rt'[u].ckpt = rt[u].ckpt
  <2>1. ~Claimed(u) /\ ~AcceptGate(u)
    BY <1>1 DEF Claimed, Known
  <2>2. ASSUME RecoverCheckpoint(u) \/ StartRun(u) PROVE FALSE
    <3>1. proc.pc = "prepared" /\ proc.task = u
      BY <2>2 DEF RecoverCheckpoint, StartRun, At
    <3> QED BY <1>1, <3>1 DEF StartInv, InHistory, LedgerView
  <2>3. ASSUME SaveCheckpoint(u) PROVE FALSE
    <3>1. proc.pc = "committed" /\ proc.task = u
      BY <2>3 DEF SaveCheckpoint, Running, At
    <3> QED BY <1>1, <3>1 DEF LedgerInv, Place, Known
  <2> QED BY <2>1, <2>2, <2>3, CheckpointMovers
<1>3. IsPrefix(rt[u].ckpt, LedgerView')
  BY <1>1, ViewOnlyGrows
<1> QED BY <1>1, <1>2, <1>3 DEF InLedger, Known

-----------------------------------------------------------------------------
(* Gates know their commit only once it is in the history. *)

\* A gate at work has not recorded its commit yet; a run that raises has none in the history.
GatePcs == {"issuing", "opened", "gatecommit", "gatecommitted"}
WorkOpen == /\ proc.pc \in GatePcs => proc.task \in Gates /\ ~Known(proc.task)
            /\ proc.pc = "raising" => ~InHistory(proc.task)

\* The task at work is not in the ledger.
LEMMA WorkIsOutside ==
  ASSUME TypeInv, LedgerInv, GatesKnown, StartInv, WorkOpen, AtWork
  PROVE  ~InLedger(proc.task) /\ proc.task \in Tasks
<1> DEFINE t == proc.task
<1>1. proc.pc \in Pcs /\ main \in Commits
  BY DEF TypeInv, TypeOK, Processes
<1>2. CASE proc.pc = "prepared"
  BY <1>2 DEF StartInv, InHistory, InLedger, LedgerView, TypeInv, PlaceOK, OnAgentTask, Agents
<1>3. CASE proc.pc \in BeforeCommit \cup {"committed"}
  BY <1>3 DEF LedgerInv, Place, InLedger, Known, BeforeCommit, TypeInv, PlaceOK, OnAgentTask, Agents
<1>4. CASE proc.pc \in {"integrate", "advance"}
  <2>1. t \in Agents /\ t \in Tasks /\ Known(t) /\ Front(rt[t].ckpt) = main
    BY <1>4 DEF LedgerInv, Place, TypeInv, PlaceOK, OnAgentTask, Agents
  <2>2. rt[t].ckpt \in Commits /\ rt[t].ckpt # <<>>
    BY <2>1, RecordTypes DEF LedgerInv, Record, Known
  <2> QED BY <1>1, <1>4, <2>1, <2>2, LongerIsNoPrefix DEF InLedger, LedgerView
<1>5. CASE proc.pc = "settle"
  BY <1>5, SettleOnTop, LongerIsNoPrefix DEF InLedger, LedgerView, Agents
<1>6. CASE proc.pc \in GatePcs
  BY <1>6, GatesAssumption DEF WorkOpen, InLedger
<1>7. CASE proc.pc = "raising"
  BY <1>7 DEF WorkOpen, InHistory, InLedger, LedgerView, TypeInv, PlaceOK, OnAgentTask, Agents
<1> QED BY <1>1, <1>2, <1>3, <1>4, <1>5, <1>6, <1>7 DEF AtWork, Pcs, BeforeCommit, GatePcs

\* The actions that bring a command to a place it can be cut short at.
LEMMA PlaceMovers ==
  ASSUME TypeInv, [Next]_vars
  PROVE  \/ proc' = proc /\ main' = main /\ rt' = rt
         \/ /\ proc'.pc = "issuing" => \E t \in Tasks : PrepareGate(t)
            /\ proc'.pc = "opened" => \E t \in Tasks : OpenGate(t)
            /\ proc'.pc = "gatecommit" => \E t \in Tasks : Approve(t)
            /\ proc'.pc = "gatecommitted" => \E t \in Tasks : CommitHumanGate(t)
            /\ proc'.pc = "raising" => \E t \in Tasks : ExhaustRepairs(t) \/ RollBack(t)
<1> DEFINE Cut == GatePcs \cup {"raising"}
<1> USE CommandMoves DEF Reaches, Idle, GatePcs
<1>1. ASSUME NEW t \in Tasks, Once(t), ~PrepareGate(t) PROVE proc'.pc \notin Cut
  BY <1>1 DEF Once
<1>2. ASSUME NEW t \in Tasks, Run(t), ~ExhaustRepairs(t) PROVE proc'.pc \notin Cut
  BY <1>2 DEF Run
<1>3. ASSUME NEW t \in Tasks, ReadTree(t) \/ AdvanceRef(t) \/ AcceptTask(t) \/ RunFails(t)
      PROVE  proc'.pc \notin Cut
  BY <1>3
<1>4. ASSUME NEW t \in Tasks, Operator(t), ~OpenGate(t), ~Approve(t), ~CommitHumanGate(t)
      PROVE  proc'.pc \notin Cut
  <2>1. ~Pause(t) => proc' = Idle
    BY <1>4 DEF Operator
  <2>2. Pause(t) => proc' = proc /\ proc.pc = "idle"
    BY DEF Pause
  <2> QED BY <2>1, <2>2
<1>5. ASSUME NEW t \in Tasks, PrepareGate(t) PROVE proc'.pc = "issuing"
  BY <1>5
<1>6. ASSUME NEW t \in Tasks, OpenGate(t) PROVE proc'.pc = "opened"
  BY <1>6
<1>7. ASSUME NEW t \in Tasks, Approve(t) PROVE proc'.pc = "gatecommit"
  BY <1>7
<1>8. ASSUME NEW t \in Tasks, CommitHumanGate(t) PROVE proc'.pc = "gatecommitted"
  BY <1>8
<1>9. ASSUME NEW t \in Tasks, ExhaustRepairs(t) \/ RollBack(t) PROVE proc'.pc = "raising"
  BY <1>9
<1> QED BY <1>1, <1>2, <1>3, <1>4, <1>5, <1>6, <1>7, <1>8, <1>9, OutsideMoves, OtherMoves
        DEF Next, Integrate

LEMMA GatesKnownStep ==
  ASSUME TypeInv, TypeInv', LedgerInv, StartInv, GatesKnown, WorkOpen, [Next]_vars
  PROVE  GatesKnown'
<1> SUFFICES ASSUME NEW g \in Gates
             PROVE  /\ Known(g)' => InLedger(g)'
                    /\ rt'[g].status = "accepted" => Known(g)'
  BY DEF GatesKnown
<1>1. g \in Tasks /\ main \in Commits
  BY GatesAssumption DEF TypeInv, TypeOK
<1>2. CASE AcceptGate(g)
  <2>1. rt'[g].ckpt = main /\ main' = main /\ proc'.pc = "idle"
    BY <1>1, <1>2 DEF AcceptGate, git, Idle, TypeInv, TypeOK, Runtime
  <2> QED BY <1>1, <2>1, PrefixReflexive, NoneIsNot DEF Known, InLedger, LedgerView
<1>3. CASE ReconcileAccepted
  <2>1. main' = main /\ proc.pc = "idle" /\ proc'.pc = "ready"
    BY <1>3 DEF ReconcileAccepted, git, Enter
  <2>2. /\ rt'[g].ckpt = CheckpointOf(g)
        /\ rt'[g].status = "accepted" => CheckpointValid(g)
    BY <1>1, <1>3, ReconciledRecord
  <2>3. CASE Claimed(g)
    BY <1>1, <2>1, <2>2, <2>3, PrefixReflexive, NoneIsNot DEF CheckpointOf, Known, InLedger, LedgerView
  <2>4. CASE ~Claimed(g)
    BY <2>1, <2>2, <2>4 DEF CheckpointOf, CheckpointValid, Known, InLedger, LedgerView, GatesKnown
  <2> QED BY <2>3, <2>4
<1>4. CASE ~AcceptGate(g) /\ ~ReconcileAccepted
  <2>1. ~RecoverCheckpoint(g) /\ ~StartRun(g) /\ ~SaveCheckpoint(g) /\ ~AcceptTask(g)
    BY DEF RecoverCheckpoint, StartRun, SaveCheckpoint, AcceptTask, Running, At, TypeInv, PlaceOK,
           OnAgentTask, Agents
  <2>2. rt'[g].ckpt = rt[g].ckpt
    BY <1>1, <1>4, <2>1, CheckpointMovers
  <2>3. rt'[g].status = "accepted" => rt[g].status = "accepted"
    BY <1>1, <1>4, <2>1, Accepters
  <2>4. ASSUME Known(g)' PROVE InLedger(g)'
    <3>1. InLedger(g)
      BY <2>2, <2>4 DEF Known, GatesKnown
    <3> QED BY <1>1, <1>4, <3>1, StaysInLedger
  <2> QED BY <2>2, <2>3, <2>4 DEF Known, GatesKnown
<1> QED BY <1>2, <1>3, <1>4

\* An accepted task is in the ledger.
LEMMA AcceptedInLedger ==
  ASSUME LedgerInv, GatesKnown, NEW t \in Tasks, rt[t].status = "accepted"
  PROVE  InLedger(t)
  BY DEF LedgerInv, Delivery, GatesKnown, InLedger, Agents

LEMMA WorkOpenStep ==
  ASSUME TypeInv, TypeInv', LedgerInv, OrderInv, WorkOpen, [Next]_vars
  PROVE  WorkOpen'
<1>1. CASE proc' = proc /\ main' = main /\ rt' = rt
  BY <1>1 DEF WorkOpen, InHistory, Known
<1>2. ASSUME NEW t \in Tasks, PrepareGate(t) \/ OpenGate(t) PROVE WorkOpen'
  <2>1. /\ proc.pc = "ready" /\ ~Drifted /\ t \in Gates /\ rt[t].status # "accepted"
        /\ rt' = rt /\ proc'.task = t /\ proc'.pc # "raising"
    BY <1>2 DEF PrepareGate, OpenGate, GateOpen, Selectable, Engaged, Enter, store
  <2>2. ~Known(t)
    BY <2>1 DEF OrderInv, GatesKnown, Reconciled
  <2> QED BY <2>1, <2>2 DEF WorkOpen, Known
<1>3. ASSUME NEW t \in Tasks, Approve(t) \/ CommitHumanGate(t) PROVE WorkOpen'
  <2>1. proc.pc \in GatePcs /\ proc.task = t
    BY <1>3 DEF Approve, CommitHumanGate, At, GatePcs
  <2>2. rt'[t].ckpt = rt[t].ckpt
    <3>1. rt[t] \in Runtime /\ rt \in [Tasks -> Runtime]
      BY DEF TypeInv, TypeOK
    <3>2. CASE Approve(t)
      BY <3>1, <3>2 DEF Approve, Runtime
    <3>3. CASE CommitHumanGate(t)
      BY <3>3 DEF CommitHumanGate, store
    <3> QED BY <1>3, <3>2, <3>3
  <2>3. proc'.task = t /\ proc'.pc # "raising"
    BY <1>3, CommandMoves DEF Reaches
  <2> QED BY <2>1, <2>2, <2>3 DEF WorkOpen, Known
<1>4. ASSUME NEW t \in Tasks, ExhaustRepairs(t) PROVE WorkOpen'
  <2>1. proc.pc \in {"verify", "review"} /\ proc.task = t /\ proc'.task = t /\ proc'.pc = "raising"
    BY <1>4 DEF ExhaustRepairs, CallsForRepair, Reviewed, Running, At, Enter
  <2>2. rt'[t].ckpt = rt[t].ckpt
    BY <1>4 DEF ExhaustRepairs, TypeInv, TypeOK, Runtime
  <2>3. rt[t].ckpt = None
    BY <2>1 DEF LedgerInv, Place, BeforeCommit
  <2> QED BY <2>1, <2>2, <2>3 DEF WorkOpen, GatePcs, InHistory, Known
<1>5. ASSUME NEW t \in Tasks, RollBack(t) PROVE WorkOpen'
  <2>1. proc.pc = "settle" /\ proc.task = t /\ main' = proc.commit /\ rt' = rt
    BY <1>5 DEF RollBack, At, store
  <2>2. proc'.pc = "raising" /\ proc'.task = t
    BY <1>5, CommandMoves DEF Reaches
  <2>3. ~IsPrefix(rt[t].ckpt, main')
    BY <2>1, SettleOnTop, LongerIsNoPrefix
  <2> QED BY <2>1, <2>2, <2>3 DEF WorkOpen, GatePcs, InHistory
<1>6. CASE proc'.pc \notin GatePcs \cup {"raising"}
  BY <1>6 DEF WorkOpen
<1> QED BY <1>1, <1>2, <1>3, <1>4, <1>5, <1>6, PlaceMovers DEF GatePcs

-----------------------------------------------------------------------------
(* One frontier. *)

LEMMA PositionChained == LinearPlan => Position \in [Tasks -> Nat] /\ Chained(Position)
  BY DEF LinearPlan, Position

LEMMA EarlierIsTotal ==
  ASSUME LinearPlan, NEW t \in Tasks, NEW u \in Tasks, t # u
  PROVE  Earlier(t, u) \/ Earlier(u, t)
<1>1. Position[t] \in Nat /\ Position[u] \in Nat /\ Position[t] # Position[u]
  BY PositionChained DEF Chained, IsInjective
<1> QED BY <1>1 DEF Earlier

\* Of two tasks that are reached and not in the ledger, neither can come before the other.
LEMMA OneFrontier ==
  ASSUME LinearPlan, NEW t \in Tasks, NEW u \in Tasks,
         Reached(t), Reached(u), ~InLedger(t), ~InLedger(u)
  PROVE  t = u
  BY EarlierIsTotal DEF Reached

LEMMA FreshIsPending ==
  /\ FreshRuntime.status = "pending" /\ FreshRuntime.ckpt = None /\ FreshRuntime.approving = None
  /\ FreshRuntime.stage = "pending" /\ FreshRuntime.targeted = "none" /\ FreshRuntime.intent = None
  /\ FreshRuntime.request = None
  BY DEF FreshRuntime

\* Of two tasks that were begun and not accepted, both are the one at work.
LEMMA OneUnfinished ==
  ASSUME LinearPlan, OrderInv, Reconciled, NEW t \in Tasks, NEW u \in Tasks,
         Touched(t), Touched(u), rt[t].status # "accepted", rt[u].status # "accepted"
  PROVE  t = u
  BY OneFrontier DEF OrderInv

LEMMA WorkIsUnfinished ==
  ASSUME LinearPlan, OrderInv, AtWork, NEW u \in Tasks, Touched(u), rt[u].status # "accepted"
  PROVE  u = proc.task
  BY OneFrontier DEF OrderInv, Reconciled

\* When the dependencies of a task are accepted, all that comes before it is in the ledger.
LEMMA DepsReached ==
  ASSUME LinearPlan, LedgerInv, OrderInv, NEW t \in Tasks, DepsAccepted(t)
  PROVE  Reached(t)
<1>1. \A d \in Deps[t] : d \in Tasks /\ InLedger(d) /\ Reached(d)
  <2> TAKE d \in Deps[t]
  <2>1. d \in Tasks /\ rt[d].status = "accepted"
    BY DepsAssumption DEF DepsAccepted
  <2>2. Touched(d)
    BY <2>1, FreshIsPending DEF Touched
  <2> QED BY <2>1, <2>2, AcceptedInLedger DEF OrderInv
<1>2. ASSUME NEW u \in Tasks, Earlier(u, t) PROVE InLedger(u)
  <2>1. Position[t] \in Nat /\ Position[u] \in Nat /\ Position[u] < Position[t]
    BY <1>2, PositionChained DEF Earlier
  <2>2. PICK d \in Deps[t] : Position[d] = Position[t] - 1
    BY <2>1, PositionChained DEF Chained
  <2>3. d \in Tasks /\ Position[d] \in Nat
    BY <1>1, <2>2, PositionChained
  <2>4. CASE Position[u] = Position[d]
    <3>1. u = d
      BY <2>3, <2>4, PositionChained DEF Chained, IsInjective
    <3> QED BY <1>1, <3>1
  <2>5. CASE Position[u] # Position[d]
    <3>1. Earlier(u, d)
      BY <2>1, <2>2, <2>3, <2>5 DEF Earlier
    <3> QED BY <1>1, <1>2, <3>1 DEF Reached
  <2> QED BY <2>4, <2>5
<1> QED BY <1>1, <1>2 DEF Reached

\* A task that a command selects is reached, and is not in the ledger.
LEMMA SelectedIsFrontier ==
  ASSUME LinearPlan, LedgerInv, OrderInv, NEW t \in Tasks, Selectable(t),
         proc.pc = "ready", ~Drifted
  PROVE  Reached(t) /\ ~InLedger(t) /\ rt[t].status # "accepted"
<1>1. rt[t].status # "accepted"
  BY DEF Selectable, Engaged
<1>2. Reached(t)
  <2>1. CASE Engaged(t)
    BY <2>1, FreshIsPending DEF Engaged, Touched, OrderInv
  <2>2. CASE ~Engaged(t)
    BY <2>2, DepsReached DEF Selectable
  <2> QED BY <2>1, <2>2
<1> QED BY <1>1, <1>2 DEF OrderInv, Reconciled

LEMMA ReachedStays ==
  ASSUME TypeInv, TypeInv', LedgerInv, StartInv, WorkOpen, [Next]_vars, NEW t \in Tasks, Reached(t)
  PROVE  Reached(t)'
<1>1. ASSUME NEW u \in Tasks, InLedger(u) PROVE InLedger(u)'
  <2>1. AcceptGate(u) => ~Known(u)
    BY DEF AcceptGate, At, WorkOpen, GatePcs
  <2> QED BY <1>1, <2>1, StaysInLedger
<1> QED BY <1>1 DEF Reached, Earlier

\* What the engine writes about first is the task at work.
LEMMA FirstTouch ==
  ASSUME TypeInv, [Next]_vars, NEW u \in Tasks, ~Touched(u), Touched(u)'
  PROVE  AtWork /\ proc.task = u
<1>0. rt \in [Tasks -> Runtime] /\ rt[u] = FreshRuntime /\ rt'[u] # FreshRuntime
  BY DEF TypeInv, TypeOK, Touched
<1> USE FreshIsPending DEF SaveStage, git, store, AtWork
<1>1. ASSUME NEW t \in Tasks, Once(t) PROVE AtWork /\ proc.task = u
  BY <1>0, <1>1 DEF Once, PrepareGate, WaitForHumanGate, PrepareTask, RecoverCheckpoint, ResumeRun, StartRun, At
<1>2. ASSUME NEW t \in Tasks, Run(t) PROVE AtWork /\ proc.task = u
  BY <1>0, <1>2 DEF Run, BeginImplement, BeginTargetedRepair, BeginReverify,
     AgentReturns, VerifyPasses, ReviewAccepts, NeedsHuman, BeginRepair, ExhaustRepairs,
     CommitTask, SaveCheckpoint, CallsForRepair, Reviewed, Running, At
<1>3. ASSUME NEW t \in Tasks, Integrate(t) PROVE AtWork /\ proc.task = u
  BY <1>0, <1>3 DEF Integrate, ReadTree, AdvanceRef, AcceptTask, RollBack, At
<1>4. ASSUME NEW t \in Tasks, RunFails(t) \/ Interrupt(t) PROVE AtWork /\ proc.task = u
  BY <1>0, <1>4 DEF RunFails, Interrupt, TypeInv, StageOK, OnAgentTask
<1>5. ASSUME NEW t \in Tasks, Operator(t), ~Interrupt(t) PROVE AtWork /\ proc.task = u
  BY <1>0, <1>5 DEF Operator, OpenGate, Approve, CommitHumanGate, AcceptGate, Reject, Requeue,
                    RetryTargeted, Pause, GateOpen, Retriable, At
<1>6. ASSUME NEW t \in Tasks, Outside(t) PROVE FALSE
  BY <1>0, <1>6 DEF Outside, WriteTree, AgentCommits
<1>7. CASE ReconcileAccepted
  <2>1. rt'[u] = ReconciledTask(u)
    BY <1>7 DEF ReconcileAccepted
  <2>2. ~Claimed(u) /\ CheckpointOf(u) = None
    BY <1>0 DEF Claimed, CheckpointOf
  <2>3. rt'[u] = [FreshRuntime EXCEPT !.ckpt = None, !.approving = None]
    BY <1>0, <2>1, <2>2 DEF ReconciledTask, CheckpointValid, FreshRuntime
  <2>4. rt'[u] = FreshRuntime
    BY <2>3 DEF FreshRuntime
  <2> QED BY <1>0, <2>4
<1>8. CASE Crash \/ EndCommand \/ EditPolicy \/ WriteIntegrationTree \/ UNCHANGED vars
  BY <1>0, <1>8 DEF Crash, EndCommand, EditPolicy, WriteIntegrationTree, vars
<1> QED BY <1>1, <1>2, <1>3, <1>4, <1>5, <1>6, <1>7, <1>8 DEF Next

LEMMA WorkIsOutsideNext ==
  TypeInv' /\ LedgerInv' /\ GatesKnown' /\ StartInv' /\ WorkOpen' /\ AtWork'
    => (~InLedger(proc.task))' /\ (proc.task \in Tasks)'
<1>1. TypeInv /\ LedgerInv /\ GatesKnown /\ StartInv /\ WorkOpen /\ AtWork => ~InLedger(proc.task) /\ proc.task \in Tasks
  BY WorkIsOutside
<1> QED BY <1>1, PTL

\* How a command comes to be at work, and how one comes to be ready.
LEMMA WorkBegins ==
  ASSUME TypeInv, [Next]_vars, AtWork'
  PROVE  \/ AtWork /\ proc'.task = proc.task
         \/ \E t \in Tasks : (PrepareTask(t) \/ PrepareGate(t) \/ OpenGate(t)) /\ proc'.task = t
<1> DEFINE On == AtWork /\ proc'.task = proc.task
<1> USE CommandMoves DEF Idle, Reaches, AtWork
<1>1. ASSUME NEW t \in Tasks, Once(t), ~PrepareTask(t), ~PrepareGate(t) PROVE On
  <2>1. RecoverCheckpoint(t) \/ ResumeRun(t) \/ StartRun(t)
    BY <1>1 DEF Once
  <2>2. proc.pc = "prepared" /\ proc.task = t
    BY <2>1 DEF RecoverCheckpoint, ResumeRun, StartRun, At
  <2> QED BY <2>1, <2>2
<1>2. ASSUME NEW t \in Tasks, Run(t) PROVE On
  <2>1. proc'.task = t
    BY <1>2 DEF Run
  <2>2. AtWork /\ proc.task = t
    BY <1>2 DEF Run, BeginImplement, BeginTargetedRepair, BeginReverify, AgentReturns, VerifyPasses,
       ReviewAccepts, NeedsHuman, BeginRepair, ExhaustRepairs, CommitTask, SaveCheckpoint, CallsForRepair,
       Reviewed, Running, At
  <2> QED BY <2>1, <2>2
<1>3. ASSUME NEW t \in Tasks, Integrate(t) \/ RunFails(t) PROVE On
  <2>1. ReadTree(t) \/ AdvanceRef(t) \/ RollBack(t)
    BY <1>3 DEF Integrate
  <2>2. AtWork /\ proc.task = t
    BY <2>1 DEF ReadTree, AdvanceRef, RollBack, At
  <2> QED BY <2>1, <2>2
<1>4. ASSUME NEW t \in Tasks, Operator(t), ~OpenGate(t) PROVE On
  <2>1. Approve(t) \/ CommitHumanGate(t) \/ Pause(t)
    BY <1>4 DEF Operator
  <2>2. Approve(t) \/ CommitHumanGate(t) => AtWork /\ proc.task = t
    BY DEF Approve, CommitHumanGate, At
  <2> QED BY <2>1, <2>2
<1>5. ASSUME NEW t \in Tasks, PrepareTask(t) \/ PrepareGate(t) \/ OpenGate(t) PROVE proc'.task = t
  BY <1>5
<1> QED BY <1>1, <1>2, <1>3, <1>4, <1>5, OutsideMoves, OtherMoves DEF Next

LEMMA ReadyBegins ==
  ASSUME "late_policy" \notin Disturbances, TypeInv, [Next]_vars, proc'.pc = "ready"
  PROVE  \/ ReconcileAccepted
         \/ proc.pc = "ready" /\ drift' = drift /\ rt' = rt /\ main' = main
<1>1. CASE proc' = proc /\ rt' = rt /\ main' = main
  <2>1. ~EditPolicy /\ ~ReconcileAccepted
    BY <1>1 DEF EditPolicy, ReconcileAccepted
  <2> QED BY <1>1, <2>1, DriftBegins
<1> QED BY <1>1, StartMovers

\* A command at work writes about its own task only.
LEMMA WorkWritesOwn ==
  ASSUME TypeInv, AtWork, [Next]_vars, NEW u \in Tasks, u # proc.task
  PROVE  rt'[u] = rt[u]
<1>0. rt \in [Tasks -> Runtime]
  BY DEF TypeInv, TypeOK
<1> USE DEF SaveStage, git, store, AtWork
<1>1. ASSUME NEW t \in Tasks, Once(t) PROVE rt'[u] = rt[u]
  BY <1>0, <1>1 DEF Once, PrepareGate, WaitForHumanGate, PrepareTask, RecoverCheckpoint, ResumeRun,
                    StartRun, At
<1>2. ASSUME NEW t \in Tasks, Run(t) PROVE rt'[u] = rt[u]
  BY <1>0, <1>2 DEF Run, BeginImplement, BeginTargetedRepair, BeginReverify,
     AgentReturns, VerifyPasses, ReviewAccepts, NeedsHuman, BeginRepair, ExhaustRepairs,
     CommitTask, SaveCheckpoint, CallsForRepair, Reviewed, Running, At
<1>3. ASSUME NEW t \in Tasks, Integrate(t) \/ RunFails(t) PROVE rt'[u] = rt[u]
  BY <1>0, <1>3 DEF Integrate, ReadTree, AdvanceRef, AcceptTask, RollBack, RunFails, At
<1>4. ASSUME NEW t \in Tasks, Operator(t) PROVE rt'[u] = rt[u]
  BY <1>0, <1>4 DEF Operator, OpenGate, Approve, CommitHumanGate, AcceptGate, Reject, Requeue,
                    RetryTargeted, Pause, Interrupt, GateOpen, Retriable, At
<1>5. ASSUME NEW t \in Tasks, Outside(t) PROVE rt'[u] = rt[u]
  BY <1>5 DEF Outside, WriteTree, AgentCommits
<1>6. CASE ReconcileAccepted
  BY <1>6 DEF ReconcileAccepted
<1>7. CASE Crash \/ EndCommand \/ EditPolicy \/ WriteIntegrationTree \/ UNCHANGED vars
  BY <1>7 DEF Crash, EndCommand, EditPolicy, WriteIntegrationTree, vars
<1> QED BY <1>1, <1>2, <1>3, <1>4, <1>5, <1>6, <1>7 DEF Next

LEMMA OrderStep ==
  ASSUME LinearPlan, "late_policy" \notin Disturbances, TypeInv, TypeInv', LedgerInv, LedgerInv',
         PolicyStill, StartInv, StartInv', OrderInv, WorkOpen, [Next]_vars
  PROVE  OrderInv' /\ WorkOpen'
<1>1. GatesKnown' /\ WorkOpen'
  BY GatesKnownStep, WorkOpenStep DEF OrderInv
<1>2. ASSUME NEW t \in Tasks, Touched(t)' PROVE Reached(t)'
  <2>1. Reached(t)
    <3>1. CASE Touched(t)
      BY <3>1 DEF OrderInv
    <3>2. CASE AtWork /\ proc.task = t
      BY <3>2 DEF OrderInv
    <3> QED BY <1>2, <3>1, <3>2, FirstTouch
  <2> QED BY <2>1, ReachedStays
<1>3. ASSUME NEW t \in Tasks, PrepareTask(t) \/ PrepareGate(t) \/ OpenGate(t)
      PROVE  /\ proc.pc = "ready" /\ ~Drifted /\ Reached(t)
             /\ rt' = rt /\ main' = main /\ proc'.pc # "settle"
  <2>1. CASE PrepareTask(t)
    BY <2>1, SelectedIsFrontier DEF PrepareTask, store, Enter
  <2>2. CASE PrepareGate(t)
    BY <2>2, SelectedIsFrontier DEF PrepareGate, store, git, Enter
  <2>3. CASE OpenGate(t)
    <3>1. proc.pc = "ready" /\ ~Drifted /\ rt[t].status = "waiting_human"
      BY <2>3 DEF OpenGate, GateOpen
    <3>2. Reached(t)
      BY <3>1, FreshIsPending DEF Touched, OrderInv
    <3> QED BY <2>3, <3>1, <3>2 DEF OpenGate, store, git, Enter
  <2> QED BY <1>3, <2>1, <2>2, <2>3
<1>4. ASSUME AtWork' PROVE (proc.task \in Tasks)' /\ (~InLedger(proc.task))' /\ Reached(proc.task)'
  <2>1. (proc.task \in Tasks)' /\ (~InLedger(proc.task))'
    BY <1>1, <1>4, WorkIsOutsideNext
  <2>2. Reached(proc'.task)
    BY <1>3, <1>4, WorkBegins DEF OrderInv
  <2>3. PICK t \in Tasks : t = proc'.task
    BY <2>1
  <2>4. Reached(t)'
    BY <2>2, <2>3, ReachedStays
  <2> QED BY <2>1, <2>3, <2>4
<1>5. ASSUME Reconciled', NEW u \in Tasks, InLedger(u)' PROVE rt'[u].status = "accepted"
  <2>1. CASE AtWork' /\ AtWork /\ proc'.task = proc.task
    <3>1. u # proc.task
      BY <1>4, <1>5, <2>1
    <3>2. rt'[u] = rt[u]
      BY <2>1, <3>1, WorkWritesOwn
    <3>3. Touched(u)
      BY <1>5, <3>2, FreshIsPending DEF InLedger, Known, Touched
    <3>4. InLedger(u)
      BY <2>1, <3>1, <3>3, OneFrontier DEF OrderInv
    <3> QED BY <2>1, <3>2, <3>4 DEF OrderInv, Reconciled
  <2>2. ASSUME AtWork', NEW t \in Tasks, PrepareTask(t) \/ PrepareGate(t) \/ OpenGate(t), proc'.task = t
        PROVE  rt'[u].status = "accepted"
    <3>1. rt' = rt /\ LedgerView' = LedgerView
      BY <1>3, <2>2 DEF LedgerView
    <3> QED BY <1>3, <1>5, <2>2, <3>1 DEF InLedger, Known, OrderInv, Reconciled
  <2>3. CASE proc'.pc = "ready" /\ ~Drifted'
    <3>1. CASE ReconcileAccepted
      <4>0. main' = main /\ edited[u] = {}
        BY <3>1 DEF ReconcileAccepted, git, PolicyStill
      <4>1. main' = main /\ ~Drifted /\ edited[u] = {}
        BY <2>3, <3>1, <4>0 DEF ReconcileAccepted, Drifted
      <4>2. rt'[u].ckpt = CheckpointOf(u)
        BY <3>1, ReconciledRecord
      <4>3. SameDigest(u, "checkpoint")
        <5>1. "checkpoint" \notin edited[u] /\ ~Drifted
          BY <4>1
        <5> QED BY <5>1 DEF SameDigest
      <4>4. rt'[u].ckpt # None /\ IsPrefix(rt'[u].ckpt, main')
        BY <1>5, <2>3 DEF InLedger, Known, LedgerView
      <4>5. CheckpointValid(u)
        BY <4>1, <4>2, <4>3, <4>4 DEF CheckpointValid, PolicyHolds
      <4> QED BY <3>1, <4>5, ReconciledRecord
    <3>2. CASE proc.pc = "ready" /\ drift' = drift /\ rt' = rt /\ main' = main
      BY <1>5, <2>3, <3>2 DEF OrderInv, Reconciled, InLedger, Known, LedgerView, Drifted
    <3> QED BY <2>3, <3>1, <3>2, ReadyBegins
  <2> QED BY <1>5, <2>1, <2>2, <2>3, WorkBegins DEF Reconciled
<1> QED BY <1>1, <1>2, <1>4, <1>5 DEF OrderInv

LEMMA InitOrder == Init => OrderInv /\ WorkOpen
  BY GatesAssumption, FreshIsPending
     DEF Init, OrderInv, WorkOpen, GatePcs, GatesKnown, Touched, InLedger, Known, AtWork, Reconciled, Idle

-----------------------------------------------------------------------------
(* The active run. *)

\* The actions that set or clear the active run.
LEMMA ActiveMovers ==
  ASSUME [Next]_vars
  PROVE  \/ active' = active
         \/ ReconcileAccepted
         \/ \E t \in Tasks : \/ StartRun(t) \/ NeedsHuman(t) \/ AcceptTask(t) \/ RunFails(t)
                             \/ AcceptGate(t) \/ Reject(t) \/ Requeue(t) \/ RetryTargeted(t)
<1> USE DEF git, store
<1>1. ASSUME NEW t \in Tasks, Once(t), ~StartRun(t) PROVE active' = active
  BY <1>1 DEF Once, PrepareGate, WaitForHumanGate, PrepareTask, RecoverCheckpoint, ResumeRun
<1>2. ASSUME NEW t \in Tasks, Run(t), ~NeedsHuman(t) PROVE active' = active
  BY <1>2 DEF Run, BeginImplement, BeginTargetedRepair, BeginReverify, AgentReturns, VerifyPasses,
     ReviewAccepts, BeginRepair, ExhaustRepairs, CommitTask, SaveCheckpoint
<1>3. ASSUME NEW t \in Tasks, ReadTree(t) \/ AdvanceRef(t) \/ RollBack(t) \/ Outside(t)
      PROVE  active' = active
  BY <1>3 DEF ReadTree, AdvanceRef, RollBack, Outside, WriteTree, AgentCommits
<1>4. ASSUME NEW t \in Tasks,
             OpenGate(t) \/ Approve(t) \/ CommitHumanGate(t) \/ Pause(t) \/ Interrupt(t)
      PROVE  active' = active
  BY <1>4 DEF OpenGate, Approve, CommitHumanGate, Pause, Interrupt
<1>5. CASE EndCommand \/ Crash \/ EditPolicy \/ WriteIntegrationTree \/ UNCHANGED vars
  BY <1>5 DEF EndCommand, Crash, EditPolicy, WriteIntegrationTree, vars
<1> QED BY <1>1, <1>2, <1>3, <1>4, <1>5 DEF Next, Integrate, Operator

\* The actions that engage a task make it the active one.
LEMMA Engagers ==
  ASSUME TypeInv, [Next]_vars, NEW u \in Tasks, Engaged(u)'
  PROVE  Engaged(u) \/ active' = u
<1>0. rt \in [Tasks -> Runtime]
  BY DEF TypeInv, TypeOK
<1> DEFINE Kept == Engaged(u) \/ active' = u
<1> USE DEF SaveStage, git, store, Engaged
<1>1. ASSUME NEW t \in Tasks, Once(t) PROVE Kept
  <2>1. CASE WaitForHumanGate(t)
    BY <1>0, <2>1 DEF WaitForHumanGate, Runtime
  <2>2. CASE ResumeRun(t)
    BY <1>0, <2>2 DEF ResumeRun, CanResume, Resuming
  <2>3. CASE PrepareTask(t)
    BY <2>3 DEF PrepareTask
  <2>4. CASE RecoverCheckpoint(t)
    BY <1>0, <2>4 DEF RecoverCheckpoint, Runtime
  <2>5. CASE StartRun(t)
    BY <1>0, <2>5 DEF StartRun
  <2>6. CASE PrepareGate(t)
    BY <2>6 DEF PrepareGate
  <2> QED BY <1>1, <2>1, <2>2, <2>3, <2>4, <2>5, <2>6 DEF Once
<1>2. ASSUME NEW t \in Tasks, Run(t) PROVE Kept
  <2>1. ASSUME NEW s \in Stages, SaveStage(t, s) PROVE Kept
    BY <1>0, <2>1 DEF Runtime
  <2>2. CASE BeginImplement(t) \/ BeginReverify(t) \/ AgentReturns(t) \/ VerifyPasses(t)
    BY <2>1, <2>2, Labels DEF BeginImplement, BeginReverify, AgentReturns, VerifyPasses
  <2>3. CASE NeedsHuman(t)
    BY <1>0, <2>3 DEF NeedsHuman, Runtime
  <2>4. CASE BeginRepair(t)
    BY <1>0, <2>4 DEF BeginRepair, Runtime
  <2>5. CASE BeginTargetedRepair(t)
    BY <1>0, <2>5 DEF BeginTargetedRepair, Runtime
  <2>6. CASE ExhaustRepairs(t)
    BY <1>0, <2>6 DEF ExhaustRepairs, Runtime
  <2>7. CASE ReviewAccepts(t)
    BY <1>0, <2>7 DEF ReviewAccepts, Runtime
  <2>8. CASE CommitTask(t)
    BY <2>8 DEF CommitTask
  <2>9. CASE SaveCheckpoint(t)
    BY <1>0, <2>9 DEF SaveCheckpoint, Runtime
  <2> QED BY <1>2, <2>2, <2>3, <2>4, <2>5, <2>6, <2>7, <2>8, <2>9 DEF Run
<1>3. ASSUME NEW t \in Tasks, Integrate(t) \/ RunFails(t) PROVE Kept
  <2>1. CASE AcceptTask(t)
    BY <1>0, <2>1 DEF AcceptTask, Runtime
  <2>2. CASE RunFails(t)
    BY <1>0, <2>2 DEF RunFails, Runtime
  <2> QED BY <1>3, <2>1, <2>2 DEF Integrate, ReadTree, AdvanceRef, RollBack
<1>4. ASSUME NEW t \in Tasks, Operator(t) PROVE Kept
  <2>1. CASE Approve(t)
    BY <1>0, <2>1 DEF Approve, Runtime
  <2>2. CASE Reject(t)
    BY <1>0, <2>2 DEF Reject, Runtime
  <2>3. CASE CommitHumanGate(t)
    BY <2>3 DEF CommitHumanGate
  <2>4. CASE AcceptGate(t)
    BY <1>0, <2>4 DEF AcceptGate, Runtime
  <2>5. CASE Requeue(t)
    BY <1>0, <2>5 DEF Requeue, Runtime
  <2>6. CASE RetryTargeted(t)
    BY <1>0, <2>6 DEF RetryTargeted
  <2>7. CASE Pause(t)
    BY <1>0, <2>7 DEF Pause
  <2>8. CASE Interrupt(t)
    <3>1. rt[t].status = "running"
      BY <2>8 DEF Interrupt, TypeInv, StageOK
    <3> QED BY <1>0, <2>8, <3>1 DEF Interrupt
  <2>9. CASE OpenGate(t)
    BY <2>9 DEF OpenGate
  <2> QED BY <1>4, <2>1, <2>2, <2>3, <2>4, <2>5, <2>6, <2>7, <2>8, <2>9 DEF Operator
<1>5. ASSUME NEW t \in Tasks, Outside(t) PROVE Kept
  BY <1>5 DEF Outside, WriteTree, AgentCommits
<1>6. CASE ReconcileAccepted
  <2>1. rt[u] \in Runtime /\ rt'[u] = ReconciledTask(u)
    BY <1>0, <1>6 DEF ReconcileAccepted
  <2> QED BY <2>1 DEF ReconciledTask, Runtime
<1>7. CASE Crash \/ EndCommand \/ EditPolicy \/ WriteIntegrationTree \/ UNCHANGED vars
  BY <1>7 DEF Crash, EndCommand, EditPolicy, WriteIntegrationTree, vars
<1> QED BY <1>1, <1>2, <1>3, <1>4, <1>5, <1>6, <1>7 DEF Next

LEMMA ActiveStep ==
  ASSUME LinearPlan, TypeInv, LedgerInv, PolicyStill, OrderInv, ActiveOwnsRun, [Next]_vars
  PROVE  ActiveOwnsRun'
<1> SUFFICES ASSUME NEW u \in Tasks, Engaged(u)', Engaged(u) PROVE active' = u
  BY Engagers DEF ActiveOwnsRun
<1>0. rt \in [Tasks -> Runtime] /\ active = u /\ rt[u].status \in {"running", "paused"}
      /\ rt'[u].status \in {"running", "paused"} /\ Touched(u)
  BY FreshIsPending DEF TypeInv, TypeOK, ActiveOwnsRun, Engaged, Touched
<1>1. CASE ReconcileAccepted
  <2>1. ~CheckpointValid(u)
    BY <1>0, <1>1, ReconciledRecord
  <2> QED BY <1>0, <1>1, <2>1 DEF ReconcileAccepted, NewlyAccepted
<1>2. ASSUME NEW t \in Tasks,
             StartRun(t) \/ NeedsHuman(t) \/ AcceptTask(t) \/ RunFails(t) \/ AcceptGate(t)
      PROVE  active' = u
  <2>1. AtWork /\ proc.task = t
    BY <1>2 DEF AtWork, StartRun, NeedsHuman, AcceptTask, RunFails, AcceptGate, Reviewed, Running, At,
                TypeInv, StageOK, OnAgentTask
  <2>2. u = t
    BY <1>0, <2>1, WorkIsUnfinished
  <2>3. CASE StartRun(t)
    BY <2>2, <2>3 DEF StartRun
  <2>4. CASE NeedsHuman(t)
    BY <1>0, <2>2, <2>4 DEF NeedsHuman, Runtime
  <2>5. CASE AcceptTask(t)
    BY <1>0, <2>2, <2>5 DEF AcceptTask, Runtime
  <2>6. CASE RunFails(t)
    BY <1>0, <2>2, <2>6 DEF RunFails, Runtime
  <2>7. CASE AcceptGate(t)
    BY <1>0, <2>2, <2>7 DEF AcceptGate, Runtime
  <2> QED BY <1>2, <2>3, <2>4, <2>5, <2>6, <2>7
<1>3. ASSUME NEW t \in Tasks, Reject(t) \/ RetryTargeted(t) PROVE active' = u
  <2>1. /\ proc.pc = "ready" /\ ~Drifted
        /\ rt[t].status \in {"waiting_human", "blocked", "failed"}
    BY <1>3 DEF Reject, GateOpen, RetryTargeted, Retriable, TargetedCurrent, SameDigest, PolicyStill
  <2>2. Touched(t) /\ rt[t].status # "accepted" /\ t # u
    BY <1>0, <2>1, FreshIsPending DEF Touched
  <2> QED BY <1>0, <2>1, <2>2, OneUnfinished DEF Reconciled
<1>4. ASSUME NEW t \in Tasks, Requeue(t) PROVE active' = u
  BY <1>0, <1>4 DEF Requeue, Retriable
<1> QED BY <1>0, <1>1, <1>2, <1>3, <1>4, ActiveMovers

\* On a linear plan, and when policy files are only edited between commands, no command forgets
\* an interrupted run: whatever is killed, paused, rejected or retried, a task that is running or
\* paused is the active one (engine.py:365-409, 712-715, 1936).
THEOREM ActiveRunKept ==
  ASSUME LinearPlan, "late_policy" \notin Disturbances
  PROVE  Spec => []ActiveOwnsRun
<1>1. Spec => []TypeInv
  BY InitType, NextType, PTL DEF Spec
<1>2. Spec => []LedgerInv
  BY <1>1, InitLedger, NextLedger, PTL DEF Spec
<1> DEFINE Frontier == PolicyStill /\ StartInv /\ OrderInv /\ WorkOpen
<1>3. TypeInv /\ LedgerInv /\ Frontier /\ [Next]_vars => Frontier'
  <2>1. TypeInv /\ LedgerInv /\ PolicyStill /\ StartInv /\ [Next]_vars => PolicyStill' /\ StartInv'
    BY PolicyStillStep, StartInvStep
  <2> QED BY <2>1, NextType, NextLedger, OrderStep
<1>4. Spec => []Frontier
  <2>1. Init => Frontier
    BY InitStart, InitOrder
  <2> QED BY <1>1, <1>2, <1>3, <2>1, PTL DEF Spec
<1>5. Init => ActiveOwnsRun
  BY FreshIsPending DEF Init, ActiveOwnsRun, Engaged
<1>6. TypeInv /\ LedgerInv /\ Frontier /\ ActiveOwnsRun /\ [Next]_vars => ActiveOwnsRun'
  BY ActiveStep
<1> QED BY <1>1, <1>2, <1>4, <1>5, <1>6, PTL DEF Spec

-----------------------------------------------------------------------------
(* Gates.  An approval that was cut short leaves its intent; on a linear   *)
(* plan the integration branch is then still at the base of the intent, or *)
(* it has the very commit that was approved, and what claims that commit   *)
(* is the gate's own.                                                      *)

Rejected(g) == rt[g].stage = "gate_rejected"

GateRecord(g) ==
  /\ Known(g) => rt[g].ckpt = reviewed[g] /\ ~Rejected(g)
  /\ rt[g].approving # None =>
       LET i == rt[g].approving IN
       /\ ~Known(g)
       /\ reviewed[g] = Candidate(g, i.base, i.tree)
       /\ main \in {i.base, reviewed[g]}
       /\ Rejected(g) \/ (proc.pc = "ready" /\ ~Drifted) \/ At("opened", g) => main # reviewed[g]
  /\ rt[g].targeted = "none" /\ ~Engaged(g)

\* What a command knows of the gate it commits.
GateWork ==
  LET g == proc.task IN
  /\ proc.pc \in {"gatecommit", "gatecommitted"} => rt[g].approving # None /\ ~Rejected(g)
  /\ proc.pc = "gatecommit" => rt[g].approving.base = main
  /\ proc.pc = "gatecommitted" => main = reviewed[g]

GateInv == GateWork /\ \A g \in Gates : GateRecord(g)

LEMMA GateTypes ==
  ASSUME TypeInv, NEW g \in Gates
  PROVE  /\ g \in Tasks /\ g \notin Agents /\ rt[g] \in Runtime
         /\ rt[g].approving \in Intents \cup {None} /\ rt[g].ckpt \in Commits \cup {None}
         /\ main \in Commits /\ itree \in Trees
  BY GatesAssumption DEF TypeInv, TypeOK, Runtime, Agents

\* The actions that write about a gate.
LEMMA GateMovers ==
  ASSUME TypeInv, GateInv, [Next]_vars, NEW g \in Gates
  PROVE  \/ rt'[g] = rt[g]
         \/ ReconcileAccepted
         \/ WaitForHumanGate(g) \/ Approve(g) \/ AcceptGate(g) \/ Reject(g) \/ Requeue(g)
<1>0. rt \in [Tasks -> Runtime] /\ g \in Tasks /\ g \notin Agents
  BY GateTypes DEF TypeInv, TypeOK
<1> DEFINE Wrote == WaitForHumanGate(g) \/ Approve(g) \/ AcceptGate(g) \/ Reject(g) \/ Requeue(g)
<1>1. ASSUME proc.pc \in OnAgentTask PROVE proc.task # g
  BY <1>0, <1>1 DEF TypeInv, PlaceOK
<1>2. AtWork /\ proc.pc \notin GatePcs => rt'[g] = rt[g]
  <2>1. proc.pc \in Pcs
    BY DEF TypeInv, TypeOK, Processes
  <2> QED BY <1>0, <1>1, <2>1, WorkWritesOwn DEF AtWork, OnAgentTask, Pcs, GatePcs
<1> USE DEF git, store, AtWork, GatePcs
<1>3. ASSUME NEW t \in Tasks, Once(t) PROVE rt'[g] = rt[g] \/ Wrote
  BY <1>0, <1>2, <1>3 DEF Once, PrepareGate, WaitForHumanGate, PrepareTask, RecoverCheckpoint, ResumeRun, StartRun, At
<1>4. ASSUME NEW t \in Tasks, Run(t) \/ Integrate(t) PROVE rt'[g] = rt[g]
  BY <1>2, <1>4 DEF Run, BeginImplement, BeginTargetedRepair, BeginReverify,
     AgentReturns, VerifyPasses, ReviewAccepts, NeedsHuman, BeginRepair, ExhaustRepairs,
     CommitTask, SaveCheckpoint, CallsForRepair, Reviewed, Running, At, Integrate, ReadTree,
     AdvanceRef, AcceptTask, RollBack
<1>5. ASSUME NEW t \in Tasks, RunFails(t) \/ Interrupt(t) PROVE rt'[g] = rt[g]
  BY <1>2, <1>5 DEF RunFails, Interrupt, TypeInv, StageOK, OnAgentTask
<1>6. ASSUME NEW t \in Tasks, Operator(t), ~Interrupt(t) PROVE rt'[g] = rt[g] \/ Wrote
  <2>1. t # g \/ ~(RetryTargeted(t) \/ Pause(t))
    BY DEF RetryTargeted, TargetedCurrent, Pause, GateInv, GateRecord, Engaged
  <2> QED BY <1>0, <1>6, <2>1 DEF Operator, OpenGate, Approve, CommitHumanGate, AcceptGate, Reject,
                                  Requeue, RetryTargeted, Pause
<1>7. ASSUME NEW t \in Tasks, Outside(t) PROVE rt'[g] = rt[g]
  BY <1>7 DEF Outside, WriteTree, AgentCommits
<1>8. CASE Crash \/ EndCommand \/ EditPolicy \/ WriteIntegrationTree \/ UNCHANGED vars
  BY <1>8 DEF Crash, EndCommand, EditPolicy, WriteIntegrationTree, vars
<1> QED BY <1>3, <1>4, <1>5, <1>6, <1>7, <1>8 DEF Next

\* A gate with an approval under way is the only task that can move the branch.
LEMMA ApprovalHoldsBranch ==
  ASSUME LinearPlan, OrderInv, GateInv, AtWork, NEW g \in Gates, rt[g].approving # None
  PROVE  proc.task = g
<1>1. g \in Tasks /\ ~Known(g) /\ Touched(g)
  BY GatesAssumption, FreshIsPending DEF GateInv, GateRecord, Touched
<1>2. rt[g].status # "accepted"
  BY <1>1 DEF OrderInv, GatesKnown
<1> QED BY <1>1, <1>2, WorkIsUnfinished

\* Of a gate that waits, nothing is in the ledger.
LEMMA OpenGateIsOutside ==
  ASSUME OrderInv, NEW g \in Gates, proc.pc = "ready", ~Drifted, rt[g].status # "accepted"
  PROVE  ~Known(g)
  BY GatesAssumption DEF OrderInv, GatesKnown, Reconciled

\* What an approval that was cut short claims is the commit that was approved.
LEMMA ClaimIsReviewed ==
  ASSUME TypeInv, GateInv, NEW g \in Gates, rt[g].approving # None
  PROVE  IsCommitOn(main, rt[g].approving.base, rt[g].approving.tree) <=> main = reviewed[g]
<1> DEFINE i == rt[g].approving
<1>1. /\ i.base \in Commits /\ i.tree \in Trees /\ main \in Commits /\ g \in Tasks
      /\ reviewed[g] = Candidate(g, i.base, i.tree) /\ main \in {i.base, reviewed[g]}
  BY GateTypes DEF GateInv, GateRecord, Intents
<1>2. ASSUME IsCommitOn(main, i.base, i.tree) PROVE main # i.base
  BY <1>1, <1>2, FrontIsShorter DEF IsCommitOn
<1>3. IsCommitOn(reviewed[g], i.base, i.tree)
  BY <1>1, CandidateProperties DEF IsCommitOn
<1> QED BY <1>1, <1>2, <1>3

LEMMA ReconcileGate ==
  ASSUME TypeInv, PolicyStill, OrderInv, GateInv, ReconcileAccepted, NEW g \in Gates
  PROVE  GateRecord(g)'
<1>1. /\ g \in Tasks /\ rt[g] \in Runtime /\ main \in Commits
      /\ main' = main /\ reviewed' = reviewed /\ proc'.pc = "ready"
      /\ rt'[g] = ReconciledTask(g) /\ (~Drifted' => ~Drifted)
  BY GateTypes DEF ReconcileAccepted, git, Drifted, Enter
<1>2. GateRecord(g)
  BY DEF GateInv
<1>3. /\ rt'[g].ckpt = CheckpointOf(g)
      /\ rt'[g].approving = IF Claimed(g) THEN None ELSE rt[g].approving
      /\ rt'[g].targeted = rt[g].targeted
      /\ rt'[g].stage \in {rt[g].stage, "accepted", "acceptance_stale"}
      /\ rt'[g].status \in {rt[g].status, "accepted", "blocked"}
      /\ CheckpointValid(g) => rt'[g].stage = "accepted"
  BY <1>1 DEF ReconciledTask, Runtime
<1>4. CASE Claimed(g)
  <2>1. main = reviewed[g]
    BY <1>4, ClaimIsReviewed DEF Claimed
  <2>2. main # None /\ CheckpointValid(g)
    BY <1>1, <1>4, PrefixReflexive, NoneIsNot DEF Claimed, CheckpointValid, CheckpointOf, PolicyHolds
  <2> QED BY <1>1, <1>2, <1>3, <1>4, <2>1, <2>2 DEF GateRecord, CheckpointOf, Known, Rejected, Engaged
<1>5. CASE ~Claimed(g)
  <2>1. rt[g].approving # None /\ ~Drifted => main # reviewed[g]
    <3>1. ~Drifted => SameDigest(g, "approval")
      <4>1. "approval" \notin edited[g]
        BY <1>1 DEF PolicyStill
      <4> QED BY <4>1 DEF SameDigest
    <3> QED BY <1>2, <1>5, <3>1, ClaimIsReviewed DEF Claimed, GateRecord, Known
  <2> QED BY <1>1, <1>2, <1>3, <1>5, <2>1 DEF GateRecord, CheckpointOf, Known, Rejected, Engaged, At
<1> QED BY <1>4, <1>5

\* The integration branch moves under an approval only by the commit that was approved.
LEMMA ApprovedBranchMoves ==
  ASSUME LinearPlan, TypeInv, LedgerInv, OrderInv, GateInv, [Next]_vars, NEW g \in Gates,
         rt[g].approving # None, main' # main
  PROVE  main' = reviewed[g] /\ CommitHumanGate(g)
<1>1. PICK t \in Tasks : AdvanceRef(t) \/ RollBack(t) \/ CommitHumanGate(t)
  BY MainMovers DEF HistoryKept
<1>2. AtWork /\ proc.task = t
  BY <1>1 DEF AtWork, AdvanceRef, RollBack, CommitHumanGate, At
<1>3. t = g /\ g \notin Agents
  BY <1>2, ApprovalHoldsBranch, GateTypes
<1>4. CommitHumanGate(g)
  BY <1>1, <1>3 DEF AdvanceRef, RollBack, At, TypeInv, PlaceOK, OnAgentTask
<1>5. main' = reviewed[g]
  BY <1>4 DEF CommitHumanGate, At, LedgerInv, Place, Candidate
<1> QED BY <1>4, <1>5

LEMMA UnwrittenGate ==
  ASSUME LinearPlan, "late_policy" \notin Disturbances, TypeInv, LedgerInv, OrderInv, GateInv,
         [Next]_vars, NEW g \in Gates, rt'[g] = rt[g], ~ReconcileAccepted, ~Approve(g)
  PROVE  GateRecord(g)'
<1>1. reviewed'[g] = reviewed[g]
  <2>1. ~ReviewAccepts(g)
    BY GateTypes DEF ReviewAccepts, Reviewed, Running, At, TypeInv, PlaceOK, OnAgentTask
  <2> QED BY <2>1, ReviewMovers, GateTypes
<1>2. GateRecord(g)
  BY DEF GateInv
<1>3. ASSUME rt[g].approving # None, main' # main
      PROVE  main' = reviewed[g] /\ ~Rejected(g) /\ proc'.pc \notin {"ready", "opened"}
  <2>1. main' = reviewed[g] /\ CommitHumanGate(g)
    BY <1>3, ApprovedBranchMoves
  <2>2. proc'.pc = "gatecommitted"
    BY <2>1 DEF CommitHumanGate, Advance, TypeInv, TypeOK, Processes
  <2>3. ~Rejected(g)
    BY <2>1 DEF CommitHumanGate, At, GateInv, GateWork
  <2> QED BY <2>1, <2>2, <2>3
<1>4. proc'.pc = "ready" /\ ~Drifted' => proc.pc = "ready" /\ ~Drifted
  BY ReadyBegins DEF Drifted
<1>5. At("opened", g)' => At("opened", g) \/ (proc.pc = "ready" /\ ~Drifted)
  <2>1. ASSUME NEW t \in Tasks, OpenGate(t) PROVE proc.pc = "ready" /\ ~Drifted
    BY <2>1 DEF OpenGate, GateOpen
  <2> QED BY <2>1, PlaceMovers DEF At
<1>6. CASE main' = main
  BY <1>1, <1>2, <1>4, <1>5, <1>6 DEF GateRecord, Known, Rejected, Engaged
<1>7. CASE main' # main
  BY <1>1, <1>2, <1>3, <1>7 DEF GateRecord, Known, Rejected, Engaged, At
<1> QED BY <1>6, <1>7

LEMMA WrittenGate ==
  ASSUME TypeInv, PolicyStill, OrderInv, WorkOpen, GateInv, NEW g \in Gates,
         WaitForHumanGate(g) \/ Approve(g) \/ AcceptGate(g) \/ Reject(g) \/ Requeue(g)
  PROVE  GateRecord(g)'
<1>0. /\ g \in Tasks /\ rt[g] \in Runtime /\ main \in Commits /\ itree \in Trees
      /\ rt \in [Tasks -> Runtime] /\ reviewed \in [Tasks -> Commits \cup {None}]
      /\ GateRecord(g)
  BY GateTypes DEF TypeInv, TypeOK, GateInv
<1> USE DEF GateRecord, Known, Rejected, Engaged, At
<1>1. CASE WaitForHumanGate(g)
  <2>1. /\ main' = main /\ reviewed' = reviewed /\ proc'.pc = "idle"
        /\ rt'[g] = [rt[g] EXCEPT !.status = "waiting_human", !.stage = "waiting_human", !.request = main]
    BY <1>0, <1>1 DEF WaitForHumanGate, git, Idle
  <2> QED BY <1>0, <2>1 DEF Runtime
<1>2. CASE Approve(g)
  <2>1. ~Known(g)
    BY <1>2 DEF Approve, WorkOpen, GatePcs
  <2>2. /\ main' = main /\ proc'.pc = "gatecommit"
        /\ rt'[g] = [rt[g] EXCEPT !.approving = [base |-> main, tree |-> itree], !.stage = "checkpointing"]
        /\ reviewed'[g] = Candidate(g, main, itree)
    BY <1>0, <1>2 DEF Approve, git, Enter, Candidate
  <2> QED BY <1>0, <2>1, <2>2 DEF Runtime
<1>3. CASE AcceptGate(g)
  <2>1. main = reviewed[g]
    BY <1>3 DEF AcceptGate, At, GateInv, GateWork
  <2>2. /\ main' = main /\ reviewed' = reviewed
        /\ rt'[g] = [rt[g] EXCEPT !.status = "accepted", !.stage = "accepted", !.ckpt = main,
                                  !.approving = None, !.resume = None]
    BY <1>0, <1>3 DEF AcceptGate, git
  <2> QED BY <1>0, <2>1, <2>2 DEF Runtime
<1>4. CASE Reject(g)
  <2>1. proc.pc = "ready" /\ ~Drifted /\ rt[g].status = "waiting_human"
    BY <1>0, <1>4 DEF Reject, GateOpen, SameDigest, PolicyStill
  <2>3. ~Known(g)
    BY <2>1, OpenGateIsOutside
  <2>2. /\ main' = main /\ reviewed' = reviewed /\ proc'.pc = "idle"
        /\ rt'[g] = [rt[g] EXCEPT !.status = "blocked", !.stage = "gate_rejected"]
    BY <1>0, <1>4 DEF Reject, git, Idle
  <2> QED BY <1>0, <2>1, <2>2, <2>3 DEF Runtime
<1>5. CASE Requeue(g)
  <2>1. /\ main' = main /\ reviewed' = reviewed /\ proc'.pc = "idle"
        /\ rt'[g] = [rt[g] EXCEPT !.status = "pending", !.resume = None,
                                  !.stage = IF rt[g].ckpt # None THEN "checkpointed" ELSE "pending"]
    BY <1>0, <1>5 DEF Requeue, git, Idle
  <2> QED BY <1>0, <2>1 DEF Runtime
<1> QED BY <1>1, <1>2, <1>3, <1>4, <1>5

LEMMA GateWorkStep ==
  ASSUME TypeInv, LedgerInv, GateInv, [Next]_vars
  PROVE  GateWork'
<1>1. ASSUME NEW t \in Tasks, Approve(t) PROVE GateWork'
  <2>1. /\ rt[t] \in Runtime /\ main \in Commits /\ main' = main
        /\ proc'.pc = "gatecommit" /\ proc'.task = t
        /\ rt'[t] = [rt[t] EXCEPT !.approving = [base |-> main, tree |-> itree],
                                  !.stage = "checkpointing"]
    BY <1>1 DEF Approve, git, Enter, TypeInv, TypeOK
  <2>2. [base |-> main, tree |-> itree] \in Intents
    BY <2>1 DEF Intents, TypeInv, TypeOK
  <2> QED BY <2>1, <2>2, NoneIsNot DEF GateWork, Rejected, Runtime
<1>2. ASSUME NEW t \in Tasks, CommitHumanGate(t) PROVE GateWork'
  <2>1. /\ proc.pc = "gatecommit" /\ proc.task = t /\ main' = Candidate(t, main, proc.tree)
        /\ rt' = rt /\ reviewed' = reviewed /\ proc'.pc = "gatecommitted" /\ proc'.task = t
    BY <1>2 DEF CommitHumanGate, At, store, Advance, Candidate, TypeInv, TypeOK, Processes
  <2> QED BY <2>1 DEF GateWork, GateInv, LedgerInv, Place, Rejected
<1>3. ASSUME proc' = proc, main' = main, rt' = rt, proc.pc \in {"gatecommit", "gatecommitted"}
      PROVE  GateWork'
  <2>1. proc.task \in Gates
    BY <1>3 DEF LedgerInv, Place
  <2>2. reviewed'[proc.task] = reviewed[proc.task]
    BY <1>3, <2>1, ReviewMovers, GatesAssumption
       DEF ReviewAccepts, Reviewed, Running, At, Approve
  <2> QED BY <1>3, <2>2 DEF GateWork, GateInv, Rejected
<1>4. CASE proc'.pc \notin {"gatecommit", "gatecommitted"}
  BY <1>4 DEF GateWork
<1> QED BY <1>1, <1>2, <1>3, <1>4, PlaceMovers

LEMMA GateStep ==
  ASSUME LinearPlan, "late_policy" \notin Disturbances, TypeInv, LedgerInv, PolicyStill, OrderInv,
         WorkOpen, GateInv, [Next]_vars
  PROVE  GateInv'
<1>1. ASSUME NEW g \in Gates PROVE GateRecord(g)'
  BY <1>1, GateMovers, ReconcileGate, UnwrittenGate, WrittenGate
<1> QED BY <1>1, GateWorkStep DEF GateInv

LEMMA InitGate == Init => GateInv
  BY GatesAssumption, FreshIsPending
     DEF Init, GateInv, GateWork, GateRecord, Known, Rejected, Engaged, Idle

PlanInv == /\ TypeInv /\ LedgerInv /\ PolicyStill /\ StartInv
           /\ OrderInv /\ WorkOpen /\ GateInv

LEMMA PlanInvariant ==
  ASSUME LinearPlan, "late_policy" \notin Disturbances
  PROVE  Spec => []PlanInv
<1>1. Init => PlanInv
  BY InitType, InitLedger, InitStart, InitOrder, InitGate DEF PlanInv
<1>2. PlanInv /\ [Next]_vars => PlanInv'
  <2>1. SUFFICES ASSUME PlanInv, [Next]_vars PROVE PlanInv'
    OBVIOUS
  <2>2. TypeInv' /\ LedgerInv' /\ PolicyStill' /\ StartInv'
    BY <2>1, NextType, NextLedger, PolicyStillStep, StartInvStep DEF PlanInv
  <2> QED BY <2>1, <2>2, OrderStep, GateStep DEF PlanInv
<1> QED BY <1>1, <1>2, PTL DEF Spec

LEMMA InLedgerIsInHistory ==
  ASSUME TypeInv, LedgerInv, NEW t \in Tasks, InLedger(t) PROVE InHistory(t)
<1>1. main \in Commits /\ rt[t].ckpt \in Commits /\ IsPrefix(rt[t].ckpt, LedgerView)
  BY RecordTypes DEF InLedger, Known
<1>2. CASE proc.pc = "settle"
  BY <1>1, <1>2, SettleOnTop, PrefixTransitive DEF InHistory, InLedger, LedgerView
<1> QED BY <1>1, <1>2 DEF InHistory, InLedger, LedgerView

\* On a linear plan, and when policy files are only edited between commands, an accepted gate has
\* its checkpoint in the history, and it is the commit whose parent and exact tree were approved
\* last, also when the approval was cut short and a later command completed it from the intent
\* (engine.py:516-628, 1938-2022).
THEOREM GateAcceptanceIsReviewed ==
  ASSUME LinearPlan, "late_policy" \notin Disturbances
  PROVE  Spec => []AcceptedGateReviewed
<1>1. PlanInv => AcceptedGateReviewed
  <2> SUFFICES ASSUME PlanInv, NEW g \in Gates, rt[g].status = "accepted"
               PROVE  rt[g].ckpt # None /\ IsPrefix(rt[g].ckpt, main) /\ rt[g].ckpt = reviewed[g]
    BY DEF AcceptedGateReviewed, AcceptanceReviewed
  <2>1. g \in Tasks /\ InLedger(g)
    BY AcceptedInLedger, GatesAssumption DEF PlanInv, OrderInv
  <2>2. InHistory(g)
    BY <2>1, InLedgerIsInHistory DEF PlanInv
  <2> QED BY <2>2 DEF InHistory, Known, PlanInv, GateInv, GateRecord
<1> QED BY <1>1, PlanInvariant, PTL

LEMMA RejectedStep ==
  ASSUME PlanInv, [Next]_vars, NEW g \in Gates, Rejected(g)
  PROVE  rt'[g].status # "accepted"
<1> SUFFICES ASSUME rt'[g].status = "accepted" PROVE FALSE
  OBVIOUS
<1>0. g \in Tasks /\ g \notin Agents /\ TypeInv /\ LedgerInv /\ OrderInv /\ GateInv
  BY GateTypes DEF PlanInv
<1>1. ~Known(g)
  BY DEF PlanInv, GateInv, GateRecord
<1>2. CASE rt[g].status = "accepted"
  BY <1>0, <1>1, <1>2 DEF OrderInv, GatesKnown
<1>3. CASE ReconcileAccepted /\ CheckpointValid(g)
  <2>1. Claimed(g)
    BY <1>1, <1>3 DEF CheckpointValid, CheckpointOf, Known
  <2>2. main = reviewed[g]
    BY <1>0, <2>1, ClaimIsReviewed DEF Claimed
  <2> QED BY <1>0, <2>1, <2>2 DEF GateInv, GateRecord, Claimed
<1>4. CASE AcceptTask(g)
  BY <1>0, <1>4 DEF AcceptTask, At, TypeInv, PlaceOK, OnAgentTask
<1>5. CASE AcceptGate(g)
  BY <1>0, <1>5 DEF AcceptGate, At, GateInv, GateWork
<1> QED BY <1>0, <1>2, <1>3, <1>4, <1>5, Accepters

\* On a linear plan, and when policy files are only edited between commands, a rejection stands
\* until the gate is retried and decided again: neither the intent of an earlier approval nor a
\* commit of the branch makes the rejected gate accepted.
THEOREM RejectionStands ==
  ASSUME LinearPlan, "late_policy" \notin Disturbances
  PROVE  Spec => RejectedStaysRejected
<1>1. PlanInv /\ [Next]_vars =>
        [\A g \in Gates : rt[g].stage = "gate_rejected" => rt'[g].status # "accepted"]_vars
  BY RejectedStep DEF Rejected
<1> QED BY <1>1, PlanInvariant, PTL DEF Spec, RejectedStaysRejected

-----------------------------------------------------------------------------
(* The history as a ledger.  Every entry of the history is the checkpoint  *)
(* of its task, or the last entry and the commit of a gate whose approval  *)
(* was not recorded yet.  So what the plan calls done is what the history  *)
(* holds, and a task is reviewed on top of all its dependencies and once.  *)

EntryKnown(u) == InLedger(u) \/ (u \in Gates /\ rt[u].approving # None /\ LedgerView = reviewed[u])

EntriesKnown == \A i \in 1..Len(LedgerView) : EntryKnown(LedgerView[i].task)

OwnReviews == \A t \in Tasks : OwnReview(t)

LEMMA EntryTask ==
  ASSUME NEW c \in Commits, NEW i \in 1..Len(c) PROVE c[i].task \in Tasks
<1>1. c[i] \in Entry
  BY ElementOfSeq, LenProperties DEF Commits
<1> QED BY <1>1 DEF Entry

\* The history moves only while a command is at work: when the worktree that an integration left
\* is confirmed, or by the commit of a gate.
LEMMA ViewMoves ==
  ASSUME TypeInv, LedgerInv, [Next]_vars, LedgerView' # LedgerView
  PROVE  /\ AtWork
         /\ \/ proc.pc = "settle" /\ LedgerView' = main
            \/ proc.pc # "settle" /\ main' # main /\ \E t \in Tasks : CommitHumanGate(t)
<1>1. CASE HistoryKept
  BY <1>1 DEF HistoryKept, LedgerView, AtWork
<1>2. ASSUME NEW t \in Tasks, AdvanceRef(t) PROVE FALSE
  <2>1. proc.pc = "advance" /\ proc'.pc = "settle" /\ proc'.commit = main
    BY <1>2 DEF AdvanceRef, At, Hold, TypeInv, TypeOK, Processes
  <2> QED BY <2>1 DEF LedgerView
<1>3. ASSUME NEW t \in Tasks, RollBack(t) PROVE FALSE
  <2>1. proc.pc = "settle" /\ main' = proc.commit /\ proc'.pc = "raising"
    BY <1>3 DEF RollBack, At, Hold, TypeInv, TypeOK, Processes
  <2> QED BY <2>1 DEF LedgerView
<1>4. ASSUME NEW t \in Tasks, CommitHumanGate(t) PROVE AtWork /\ proc.pc # "settle" /\ main' # main
  <2>1. main' = Candidate(t, main, proc.tree) /\ proc.pc = "gatecommit" /\ proc.tree \in Trees
    BY <1>4 DEF CommitHumanGate, At, Candidate, LedgerInv, Place, TypeInv, TypeOK, PlaceOK
  <2>2. Front(main') = main /\ main' # <<>> /\ main' \in Commits
    BY <2>1, CandidateProperties DEF TypeInv, TypeOK
  <2>3. main' # main
    BY <2>2, FrontIsShorter
  <2> QED BY <2>1, <2>3 DEF AtWork
<1> QED BY <1>1, <1>2, <1>3, <1>4, MainMovers

\* Where nothing but the engine commits on a task branch, what the history gains is the one commit
\* that was reviewed or approved.
LEMMA StepDeliversExactly ==
  ASSUME TypeInv, LedgerInv, BranchInv, [Next]_vars, LedgerView' # LedgerView
  PROVE  \E t \in Tasks : /\ reviewed[t] # None /\ reviewed[t] # <<>>
                          /\ Front(reviewed[t]) = LedgerView
                          /\ LedgerView' = reviewed[t]
<1>1. CASE proc.pc = "settle"
  <2>1. /\ proc.task \in Tasks /\ reviewed[proc.task] # None /\ reviewed[proc.task] # <<>>
        /\ Front(reviewed[proc.task]) = proc.commit
    BY <1>1, SettledIsReviewed
  <2>2. main = reviewed[proc.task]
    BY <1>1, SettleOnTop DEF BranchInv, LedgerInv, Place, Record
  <2> QED BY <1>1, <2>1, <2>2, ViewMoves DEF LedgerView
<1>2. CASE proc.pc # "settle"
  <2>1. PICK t \in Tasks : CommitHumanGate(t)
    BY <1>2, ViewMoves
  <2>2. /\ proc.pc = "gatecommit" /\ proc'.pc = "gatecommitted"
        /\ main \in Commits /\ proc.tree \in Trees
        /\ main' = Candidate(t, main, proc.tree) /\ reviewed[t] = Candidate(t, main, proc.tree)
    BY <2>1 DEF CommitHumanGate, At, Advance, LedgerInv, Place, Candidate, TypeInv, TypeOK, Processes
  <2> QED BY <2>2, CandidateProperties, NoneIsNot DEF LedgerView
<1> QED BY <1>1, <1>2

\* A move of the history is no review, and a review is of one task.
LEMMA ReviewsMoveAlone ==
  ASSUME TypeInv, TypeInv', LedgerInv, [Next]_vars, reviewed' # reviewed
  PROVE  LedgerView' = LedgerView /\ \E t \in Tasks : ReviewAccepts(t) \/ Approve(t)
<1>1. PICK u \in Tasks : reviewed'[u] # reviewed[u]
  BY DEF TypeInv, TypeOK
<1>2. ReviewAccepts(u) \/ Approve(u)
  BY <1>1, ReviewMovers
<1>3. main' = main /\ proc.pc \in {"review", "opened"} /\ proc'.pc \in {"commit", "gatecommit"}
  BY <1>2 DEF ReviewAccepts, Approve, Reviewed, Running, At, Advance, Enter, git,
              TypeInv, TypeOK, Processes
<1> QED BY <1>2, <1>3 DEF LedgerView

\* The commit of a gate stays known until it is the gate's checkpoint.
LEMMA GateEntryStays ==
  ASSUME TypeInv, TypeInv', LedgerInv, OrderInv, GateInv, [Next]_vars, LedgerView' = LedgerView,
         NEW u \in Gates, rt[u].approving # None, LedgerView = reviewed[u]
  PROVE  EntryKnown(u)'
<1>0. u \in Tasks /\ rt[u] \in Runtime /\ main \in Commits /\ rt \in [Tasks -> Runtime]
  BY GateTypes DEF TypeInv, TypeOK
<1>1. reviewed'[u] = reviewed[u]
  <2>1. ~ReviewAccepts(u)
    BY GateTypes DEF ReviewAccepts, Reviewed, Running, At, TypeInv, PlaceOK, OnAgentTask
  <2>2. ~Approve(u)
    BY DEF Approve, At, GateInv, GateRecord, LedgerView
  <2> QED BY <1>0, <2>1, <2>2, ReviewMovers
<1>2. ASSUME rt'[u].ckpt = main, LedgerView = main PROVE InLedger(u)'
  BY <1>0, <1>2, PrefixReflexive, NoneIsNot DEF InLedger, Known
<1>3. ASSUME rt'[u].approving = rt[u].approving PROVE EntryKnown(u)'
  BY <1>1, <1>3 DEF EntryKnown
<1>4. CASE ReconcileAccepted
  <2>1. LedgerView = main
    BY <1>4 DEF ReconcileAccepted, LedgerView
  <2>2. /\ rt'[u].ckpt = CheckpointOf(u)
        /\ rt'[u].approving = IF Claimed(u) THEN None ELSE rt[u].approving
    BY <1>0, <1>4, ReconciledRecord
  <2> QED BY <1>2, <1>3, <2>1, <2>2 DEF CheckpointOf, EntryKnown
<1>5. CASE AcceptGate(u)
  <2>1. rt'[u].ckpt = main /\ LedgerView = main
    BY <1>0, <1>5 DEF AcceptGate, At, LedgerView, Runtime
  <2> QED BY <1>2, <2>1 DEF EntryKnown
<1>6. CASE rt'[u] = rt[u]
  BY <1>3, <1>6
<1>7. CASE WaitForHumanGate(u) \/ Reject(u) \/ Requeue(u)
  BY <1>0, <1>3, <1>7 DEF WaitForHumanGate, Reject, Requeue, Runtime
<1>8. CASE Approve(u)
  BY <1>8 DEF Approve, At, GateInv, GateRecord, LedgerView
<1> QED BY <1>4, <1>5, <1>6, <1>7, <1>8, GateMovers

\* While the commit of a gate is not recorded yet, nothing is delivered on top of it.
LEMMA NothingOnGateEntry ==
  ASSUME LinearPlan, TypeInv, LedgerInv, OrderInv, GateInv, [Next]_vars,
         NEW u \in Gates, rt[u].approving # None, LedgerView = reviewed[u]
  PROVE  LedgerView' = LedgerView
<1> SUFFICES ASSUME LedgerView' # LedgerView PROVE FALSE
  OBVIOUS
<1>1. AtWork /\ proc.task = u
  BY ViewMoves, ApprovalHoldsBranch
<1>2. proc.pc # "settle"
  BY <1>1, GateTypes DEF TypeInv, PlaceOK, OnAgentTask
<1>3. main' = reviewed[u] /\ main' # main
  BY <1>2, ViewMoves, ApprovedBranchMoves
<1> QED BY <1>2, <1>3 DEF LedgerView

\* The entry that a step adds to the history is known.
LEMMA NewEntryKnown ==
  ASSUME TypeInv, TypeInv', LedgerInv, BranchInv, OwnReviews, GateInv, [Next]_vars,
         LedgerView' # LedgerView
  PROVE  \E t \in Tasks : /\ LedgerView' # <<>> /\ Last(LedgerView').task = t
                          /\ EntryKnown(t)'
<1>0. rt \in [Tasks -> Runtime] /\ main \in Commits
  BY DEF TypeInv, TypeOK
<1>1. reviewed' = reviewed
  BY ReviewsMoveAlone
<1>2. CASE proc.pc = "settle"
  <2> DEFINE p == proc.task
  <2>1. /\ p \in Tasks /\ p \in Agents /\ reviewed[p] = main /\ main # None /\ main # <<>>
        /\ rt[p].ckpt = main
    BY <1>2, SettleOnTop, SettledIsReviewed DEF BranchInv, LedgerInv, Place, Record
  <2>2. LedgerView' = main
    BY <1>2, ViewMoves
  <2>3. rt'[p].ckpt = main
    BY <1>2, <2>1, CheckpointMovers
       DEF ReconcileAccepted, RecoverCheckpoint, StartRun, SaveCheckpoint, AcceptGate, Running, At
  <2>4. Last(main).task = p
    BY <2>1 DEF OwnReviews, OwnReview
  <2>5. PICK q \in Tasks : q = p
    BY <2>1
  <2>6. InLedger(q)'
    BY <1>0, <2>1, <2>2, <2>3, <2>5, PrefixReflexive DEF InLedger, Known
  <2> QED BY <2>1, <2>2, <2>4, <2>5, <2>6 DEF EntryKnown
<1>3. CASE proc.pc # "settle"
  <2>4. PICK t \in Tasks : CommitHumanGate(t)
    BY <1>3, ViewMoves
  <2>5. /\ proc.pc = "gatecommit" /\ proc.task = t /\ main' = Candidate(t, main, proc.tree)
        /\ rt' = rt /\ proc'.pc = "gatecommitted" /\ proc.tree \in Trees
    BY <2>4 DEF CommitHumanGate, At, store, Advance, Candidate, TypeInv, TypeOK, Processes
  <2>6. t \in Gates /\ rt[t].approving # None /\ LedgerView' = main' /\ main' = reviewed[t]
    BY <2>5 DEF LedgerInv, Place, GateInv, GateWork, LedgerView
  <2>7. main' # <<>> /\ Last(main').task = t
    BY <1>0, <2>5, CandidateProperties, CandidateTask
  <2> QED BY <1>1, <2>5, <2>6, <2>7 DEF EntryKnown
<1> QED BY <1>2, <1>3

LEMMA EntriesStep ==
  ASSUME LinearPlan, PlanInv, PlanInv', BranchInv, OwnReviews, EntriesKnown, [Next]_vars
  PROVE  EntriesKnown'
<1>0. /\ TypeInv /\ TypeInv' /\ LedgerInv /\ StartInv /\ OrderInv /\ GateInv /\ WorkOpen
      /\ LedgerView \in Commits /\ LedgerView' \in Commits
  BY DEF PlanInv, LedgerView, TypeInv, TypeOK, PlaceOK, Holding
<1>1. ASSUME NEW u \in Tasks, EntryKnown(u) PROVE EntryKnown(u)'
  <2>1. CASE InLedger(u)
    <3>1. AcceptGate(u) => ~Known(u)
      BY <1>0 DEF AcceptGate, At, WorkOpen, GatePcs
    <3> QED BY <1>0, <2>1, <3>1, StaysInLedger DEF EntryKnown
  <2>2. CASE u \in Gates /\ rt[u].approving # None /\ LedgerView = reviewed[u]
    BY <1>0, <2>2, NothingOnGateEntry, GateEntryStays
  <2> QED BY <1>1, <2>1, <2>2 DEF EntryKnown
<1>2. CASE LedgerView' = LedgerView
  <2> SUFFICES ASSUME NEW i \in 1..Len(LedgerView') PROVE EntryKnown(LedgerView[i].task)'
    BY <1>2 DEF EntriesKnown
  <2>1. PICK u \in Tasks : u = LedgerView[i].task
    BY <1>0, <1>2, EntryTask
  <2>2. EntryKnown(u)'
    BY <1>1, <1>2, <2>1 DEF EntriesKnown
  <2>3. LedgerView'[i].task = u
    BY <1>2, <2>1
  <2> QED BY <2>2, <2>3
<1>3. CASE LedgerView' # LedgerView
  <2>1. LedgerView' # <<>> /\ Front(LedgerView') = LedgerView
    BY <1>0, <1>3, StepDeliversExactly
  <2>2. /\ Len(LedgerView') \in Nat /\ Len(LedgerView) = Len(LedgerView') - 1
        /\ \A i \in 1..Len(LedgerView) : LedgerView[i] = LedgerView'[i]
        /\ Last(LedgerView') = LedgerView'[Len(LedgerView')]
    BY <1>0, <2>1, FrontElements DEF Last
  <2>3. PICK t \in Tasks : Last(LedgerView').task = t /\ EntryKnown(t)'
    BY <1>0, <1>3, NewEntryKnown
  <2> SUFFICES ASSUME NEW i \in 1..Len(LedgerView') PROVE EntryKnown(LedgerView[i].task)'
    BY DEF EntriesKnown
  <2>4. CASE i = Len(LedgerView')
    <3>1. LedgerView'[i].task = t
      BY <2>2, <2>3, <2>4
    <3> QED BY <2>3, <3>1
  <2>5. CASE i # Len(LedgerView')
    <3>1. i \in 1..Len(LedgerView)
      BY <2>2, <2>5
    <3>2. PICK u \in Tasks : u = LedgerView[i].task
      BY <1>0, <3>1, EntryTask
    <3>3. EntryKnown(u)'
      BY <1>1, <3>1, <3>2 DEF EntriesKnown
    <3>4. LedgerView'[i].task = u
      BY <2>2, <3>1, <3>2
    <3> QED BY <3>3, <3>4
  <2> QED BY <2>4, <2>5
<1> QED BY <1>2, <1>3

LEMMA InitView == Init => LedgerView = <<>>
  BY DEF Init, LedgerView, Idle

LEMMA InitEntries == Init => EntriesKnown /\ OwnReviews
  BY InitView DEF Init, EntriesKnown, OwnReviews, OwnReview

LEMMA OwnReviewsStep ==
  ASSUME TypeInv, LedgerInv, [Next]_vars, OwnReviews PROVE OwnReviews'
  BY OwnReviewStep DEF OwnReviews

\* What is in the ledger is delivered.
LEMMA InLedgerIsDelivered ==
  ASSUME PlanInv, OwnReviews, NEW u \in Tasks, InLedger(u) PROVE u \in Ledger!Delivered
<1>1. /\ rt[u].ckpt \in Commits /\ LedgerView \in Commits /\ Known(u)
      /\ IsPrefix(rt[u].ckpt, LedgerView)
  BY RecordTypes, ViewType DEF PlanInv, InLedger, Known
<1>2. rt[u].ckpt = reviewed[u]
  BY <1>1 DEF PlanInv, LedgerInv, Record, GateInv, GateRecord, Agents
<1>3. rt[u].ckpt # <<>> /\ Last(rt[u].ckpt).task = u
  BY <1>1, <1>2 DEF OwnReviews, OwnReview, Known
<1> DEFINE n == Len(rt[u].ckpt)
<1>4. n \in 1..Len(LedgerView) /\ rt[u].ckpt[n] = LedgerView[n] /\ Last(rt[u].ckpt) = rt[u].ckpt[n]
  BY <1>1, <1>3, PrefixElements, FrontElements, LenProperties DEF Commits, Last
<1>5. n \in DOMAIN LedgerView
  BY <1>1, <1>4, LenProperties DEF Commits
<1> QED BY <1>3, <1>4, <1>5 DEF Ledger!Delivered

\* What was delivered is in the ledger, or the commit of a gate not recorded yet.
LEMMA DeliveredIsKnown ==
  ASSUME PlanInv, EntriesKnown, NEW u \in Ledger!Delivered PROVE EntryKnown(u)
<1>1. PICK i \in DOMAIN LedgerView : u = LedgerView[i].task
  BY DEF Ledger!Delivered
<1>2. i \in 1..Len(LedgerView)
  BY <1>1, ViewType, LenProperties DEF PlanInv, Commits
<1> QED BY <1>1, <1>2 DEF EntriesKnown

\* A task that is reviewed or approved is not delivered yet, all its dependencies are.
LEMMA ReviewIsInOrder ==
  ASSUME LinearPlan, PlanInv, OwnReviews, EntriesKnown, NEW t \in Tasks, ReviewAccepts(t) \/ Approve(t)
  PROVE  /\ t \notin Ledger!Delivered /\ Deps[t] \subseteq Ledger!Delivered
         /\ LedgerView = main
<1>0. TypeInv /\ LedgerInv /\ OrderInv /\ GateInv
  BY DEF PlanInv
<1>1. Reached(t) /\ ~EntryKnown(t) /\ LedgerView = main
  <2>1. CASE ReviewAccepts(t)
    <3>1. proc.pc = "review" /\ proc.task = t /\ t \notin Gates
      BY <1>0, <2>1 DEF ReviewAccepts, Reviewed, Running, At, TypeInv, PlaceOK, OnAgentTask, Agents
    <3> QED BY <1>0, <3>1 DEF OrderInv, AtWork, EntryKnown, LedgerView
  <2>2. CASE Approve(t)
    <3>1. At("opened", t) /\ proc.pc = "opened" /\ proc.task = t
      BY <2>2 DEF Approve, At
    <3>2. t \in Gates /\ ~Known(t) /\ Reached(t)
      BY <1>0, <3>1 DEF PlanInv, WorkOpen, GatePcs, OrderInv, AtWork
    <3>3. rt[t].approving # None => main # reviewed[t]
      BY <1>0, <3>1, <3>2 DEF GateInv, GateRecord
    <3> QED BY <3>1, <3>2, <3>3 DEF EntryKnown, InLedger, LedgerView
  <2> QED BY <2>1, <2>2
<1>2. Deps[t] \subseteq Ledger!Delivered
  BY <1>1, DepsAssumption, InLedgerIsDelivered DEF Reached
<1> QED BY <1>1, <1>2, DeliveredIsKnown

LEMMA FrontAndLast ==
  ASSUME NEW c \in Commits, c # <<>> PROVE c = Append(Front(c), Last(c))
<1>1. /\ Len(c) \in Nat /\ Len(c) > 0
      /\ Front(c) \in Commits /\ Len(Front(c)) = Len(c) - 1
      /\ \A i \in 1..(Len(c) - 1) : Front(c)[i] = c[i]
      /\ Last(c) = c[Len(c)] /\ c[Len(c)] \in Entry
  BY FrontElements, ElementOfSeq DEF Commits, Last
<1>2. /\ Append(Front(c), Last(c)) \in Seq(Entry)
      /\ Len(Append(Front(c), Last(c))) = Len(c)
      /\ \A i \in 1..Len(c) : Append(Front(c), Last(c))[i] = c[i]
  BY <1>1, AppendProperties DEF Commits
<1> QED BY <1>1, <1>2, SeqEqual DEF Commits

\* Each step of the engine is a review, a delivery or nothing, for the ledger.
LEMMA LedgerStep ==
  ASSUME LinearPlan, PlanInv, PlanInv', BranchInv, OwnReviews, EntriesKnown, [Next]_vars
  PROVE  [Ledger!Next]_<<LedgerView, reviewed>>
<1>0. TypeInv /\ TypeInv' /\ LedgerInv
  BY DEF PlanInv
<1>1. CASE LedgerView' # LedgerView
  <2>1. PICK t \in Tasks : /\ reviewed[t] # None /\ reviewed[t] = LedgerView'
                           /\ reviewed[t] # <<>> /\ Front(reviewed[t]) = LedgerView
    BY <1>0, <1>1, StepDeliversExactly
  <2>2. reviewed' = reviewed
    BY <1>0, <1>1, ReviewsMoveAlone
  <2>3. reviewed[t] = Append(LedgerView, Last(reviewed[t]))
    BY <1>0, <2>1, ReviewedType, FrontAndLast
  <2>4. Ledger!Deliver(t)
    BY <2>1, <2>2, <2>3 DEF Ledger!Deliver, Ledger!Last, Last
  <2> QED BY <2>4 DEF Ledger!Next
<1>2. CASE reviewed' # reviewed
  <2>1. LedgerView' = LedgerView
    BY <1>0, <1>2, ReviewsMoveAlone
  <2>2. PICK t \in Tasks : ReviewAccepts(t) \/ Approve(t)
    BY <1>0, <1>2, ReviewsMoveAlone
  <2>3. /\ t \notin Ledger!Delivered /\ Deps[t] \subseteq Ledger!Delivered
        /\ LedgerView = main
    BY <2>2, ReviewIsInOrder
  <2>4. \E w \in Trees : reviewed' = [reviewed EXCEPT ![t] = Append(main, [task |-> t, tree |-> w])]
    <3>1. CASE ReviewAccepts(t)
      <4>1. rt[t].base = main /\ tree[t] \in Trees
        BY <1>0, <3>1 DEF ReviewAccepts, Reviewed, Running, At, LedgerInv, Place, BeforeCommit,
                          TypeInv, TypeOK
      <4> QED BY <3>1, <4>1 DEF ReviewAccepts
    <3>2. CASE Approve(t)
      BY <1>0, <3>2 DEF Approve, TypeInv, TypeOK
    <3> QED BY <2>2, <3>1, <3>2
  <2> QED BY <2>1, <2>3, <2>4 DEF Ledger!Next, Ledger!Review
<1> QED BY <1>1, <1>2

\* On a linear plan, when policy files are only edited between commands and nothing but the engine
\* commits on a task branch (integrate_fast_forward delivers whatever the branch names by then,
\* git_ops.py:224), the engine implements the delivery ledger: the history of the integration
\* branch only grows, by one reviewed or approved commit at a time on top of the whole history
\* before it, at most one per task and after those of its dependencies.
THEOREM EngineImplementsLedger ==
  ASSUME LinearPlan, "late_policy" \notin Disturbances, "agent_commit" \notin Disturbances
  PROVE  Spec => LedgerSpec
<1>0. Spec => []BranchInv
  <2>1. PlanInv /\ BranchInv /\ [Next]_vars => BranchInv'
    BY BranchStep DEF PlanInv
  <2> QED BY <2>1, InitBranch, PlanInvariant, PTL DEF Spec
<1>1. Spec => []OwnReviews
  <2>1. PlanInv /\ OwnReviews /\ [Next]_vars => OwnReviews'
    BY OwnReviewsStep DEF PlanInv
  <2> QED BY <2>1, InitEntries, PlanInvariant, PTL DEF Spec
<1>2. Spec => []EntriesKnown
  <2>1. PlanInv /\ PlanInv' /\ BranchInv /\ OwnReviews /\ EntriesKnown /\ [Next]_vars => EntriesKnown'
    BY EntriesStep
  <2> QED BY <1>0, <1>1, <2>1, InitEntries, PlanInvariant, PTL DEF Spec
<1>3. Init => Ledger!Init
  BY InitView DEF Init, Ledger!Init
<1>4. PlanInv /\ PlanInv' /\ BranchInv /\ OwnReviews /\ EntriesKnown /\ [Next]_vars
        => [Ledger!Next]_<<LedgerView, reviewed>>
  BY LedgerStep
<1> QED BY <1>0, <1>1, <1>2, <1>3, <1>4, PlanInvariant, PTL DEF Spec, LedgerSpec, Ledger!Spec, Ledger!vars

-----------------------------------------------------------------------------
(* Interrupted mutations.  A task left in the middle of a mutating turn    *)
(* has its branch at the base of its run and no checkpoint, so none of the *)
(* ways in which a command takes up, completes or integrates a run applies *)
(* to it, and it is the active run, so none starts afresh either.          *)

Mutating(t) == Engaged(t) /\ ResumeStage(t) \in AmbiguousStages

MutationOpen(t) == Mutating(t) => ~Known(t) /\ branch[t] = rt[t].base /\ branch[t] # None

\* What a command knows of the task whose turn it begins, or whose turn is over.
TurnWork ==
  LET t == proc.task IN
  /\ proc.pc = "guide" => branch[t] = rt[t].base
  /\ proc.pc \in {"verify", "review", "commit", "committed"} => rt[t].stage \notin AmbiguousStages

MutationInv == TurnWork /\ \A t \in Agents : MutationOpen(t)

\* The actions that move the branch of a task.
LEMMA BranchMovers ==
  ASSUME TypeInv, [Next]_vars, NEW u \in Tasks
  PROVE  \/ branch'[u] = branch[u]
         \/ PrepareTask(u) /\ branch[u] = None
         \/ CommitTask(u) \/ AgentCommits(u)
<1>0. branch \in [Tasks -> Commits \cup {None}]
  BY DEF TypeInv, TypeOK
<1> USE DEF git, store
<1>1. ASSUME NEW t \in Tasks, Once(t), ~PrepareTask(t) PROVE branch' = branch
  BY <1>1 DEF Once, PrepareGate, WaitForHumanGate, RecoverCheckpoint, ResumeRun, StartRun
<1>2. ASSUME NEW t \in Tasks, Run(t), ~CommitTask(t) PROVE branch' = branch
  BY <1>2 DEF Run, BeginImplement, BeginTargetedRepair, BeginReverify, AgentReturns, VerifyPasses,
     ReviewAccepts, NeedsHuman, BeginRepair, ExhaustRepairs, SaveCheckpoint
<1>3. ASSUME NEW t \in Tasks, Integrate(t) \/ RunFails(t) \/ Operator(t) PROVE branch' = branch
  BY <1>3 DEF Integrate, ReadTree, AdvanceRef, AcceptTask, RollBack, RunFails, Operator, OpenGate,
     Approve, CommitHumanGate, AcceptGate, Reject, Requeue, RetryTargeted, Pause, Interrupt
<1>4. ASSUME NEW t \in Tasks, PrepareTask(t)
      PROVE  branch'[u] = branch[u] \/ (PrepareTask(u) /\ branch[u] = None)
  BY <1>0, <1>4 DEF PrepareTask
<1>5. ASSUME NEW t \in Tasks, CommitTask(t) PROVE branch'[u] = branch[u] \/ CommitTask(u)
  BY <1>0, <1>5 DEF CommitTask
<1>6. ASSUME NEW t \in Tasks, Outside(t) PROVE branch'[u] = branch[u] \/ AgentCommits(u)
  BY <1>0, <1>6 DEF Outside, WriteTree, AgentCommits
<1>7. CASE ReconcileAccepted \/ Crash \/ EndCommand \/ EditPolicy \/ WriteIntegrationTree \/ UNCHANGED vars
  BY <1>7 DEF ReconcileAccepted, Crash, EndCommand, EditPolicy, WriteIntegrationTree, vars
<1> QED BY <1>1, <1>2, <1>3, <1>4, <1>5, <1>6, <1>7 DEF Next

\* A task left in a mutating turn is not taken for one whose commit is to be recovered.
LEMMA MutatingIsUnrecoverable ==
  ASSUME TypeInv, LedgerInv, NEW t \in Agents, MutationOpen(t), Mutating(t)
  PROVE  ~Recoverable(t)
<1>1. /\ ~Known(t) /\ branch[t] = rt[t].base /\ branch[t] \in Commits
      /\ rt[t].intent # None => rt[t].intent.base = branch[t]
  BY TypesOf DEF MutationOpen, LedgerInv, Record
<1>2. rt[t].intent # None => ~IsCommitOn(branch[t], rt[t].intent.base, rt[t].intent.tree)
  BY <1>1, FrontIsShorter DEF IsCommitOn
<1> QED BY <1>1, <1>2 DEF Recoverable, Known

LEMMA ResumeStageOf ==
  ASSUME TypeInv, NEW t \in Tasks
  PROVE  /\ rt[t].status = "running" => ResumeStage(t) = rt[t].stage
         /\ rt[t].status = "paused" => ResumeStage(t) = rt[t].resume
  BY DEF ResumeStage, TypeInv, StageOK

\* Reconciliation leaves the record of an agent task alone, or accepts it, or calls it stale.
LEMMA ReconcileAgent ==
  ASSUME TypeInv, LedgerInv, ReconcileAccepted, NEW t \in Agents
  PROVE  \/ rt'[t] = rt[t]
         \/ rt'[t].status = "accepted" /\ Known(t)
         \/ rt'[t].status = "blocked" /\ rt[t].status = "accepted"
<1>1. rt[t] \in Runtime /\ t \in Tasks /\ rt'[t] = ReconciledTask(t) /\ ~Claimed(t)
  BY TypesOf DEF ReconcileAccepted, TypeInv, TypeOK, Claimed, LedgerInv, Record
<1>2. CheckpointOf(t) = rt[t].ckpt /\ [rt[t] EXCEPT !.ckpt = CheckpointOf(t), !.approving = rt[t].approving] = rt[t]
  BY <1>1 DEF CheckpointOf, Runtime
<1> QED BY <1>1, <1>2 DEF ReconciledTask, CheckpointValid, Known, Runtime

\* A task comes to be in a mutating turn when a command begins one.
LEMMA MutationBegins ==
  ASSUME TypeInv, TypeInv', LedgerInv, [Next]_vars, NEW u \in Agents, MutationOpen(u), Mutating(u)'
  PROVE  \/ Mutating(u) /\ rt'[u].ckpt = rt[u].ckpt /\ rt'[u].base = rt[u].base
         \/ BeginImplement(u) \/ BeginTargetedRepair(u) \/ BeginRepair(u)
<1> DEFINE Was == Mutating(u) /\ rt'[u].ckpt = rt[u].ckpt /\ rt'[u].base = rt[u].base
           Begun == BeginImplement(u) \/ BeginTargetedRepair(u) \/ BeginRepair(u)
<1>0. /\ rt \in [Tasks -> Runtime] /\ u \in Tasks
      /\ rt[u].status = "running" => ResumeStage(u) = rt[u].stage
      /\ rt[u].status = "paused" => ResumeStage(u) = rt[u].resume
      /\ rt'[u].status \in {"running", "paused"}
      /\ rt'[u].status = "running" => rt'[u].stage \in AmbiguousStages
      /\ rt'[u].status = "paused" => rt'[u].resume \in AmbiguousStages
  <2>1. u \in Tasks
    BY DEF Agents
  <2> QED BY <2>1, ResumeStageOf DEF TypeInv, TypeOK, StageOK, Mutating, Engaged, ResumeStage
<1>8. ASSUME rt'[u] = rt[u] PROVE Was
  BY <1>0, <1>8 DEF Mutating, Engaged
<1> USE DEF SaveStage, git, store, Mutating, Engaged, AmbiguousStages
<1>1. ASSUME NEW t \in Tasks, Once(t) PROVE Was
  <2>1. CASE WaitForHumanGate(t)
    BY <1>0, <1>8, <2>1 DEF WaitForHumanGate, Agents
  <2>2. CASE ResumeRun(t)
    BY <1>0, <2>2 DEF ResumeRun, CanResume, Resuming, Runtime
  <2>3. CASE PrepareTask(t)
    BY <1>8, <2>3 DEF PrepareTask
  <2>4. CASE RecoverCheckpoint(t)
    <3>1. t # u
      <4> SUFFICES ASSUME t = u PROVE FALSE
        OBVIOUS
      <4>1. /\ rt'[u] = [rt[u] EXCEPT !.ckpt = branch[u], !.intent = None, !.stage = "checkpointed"]
            /\ Recoverable(u)
        BY <1>0, <2>4 DEF RecoverCheckpoint
      <4>2. Mutating(u)
        BY <1>0, <4>1 DEF Runtime
      <4> QED BY <4>1, <4>2, MutatingIsUnrecoverable
    <3> QED BY <1>0, <1>8, <2>4, <3>1 DEF RecoverCheckpoint
  <2>5. CASE StartRun(t)
    BY <1>0, <1>8, <2>5 DEF StartRun, Restarted, Runtime
  <2>6. CASE PrepareGate(t)
    BY <1>8, <2>6 DEF PrepareGate
  <2> QED BY <1>1, <2>1, <2>2, <2>3, <2>4, <2>5, <2>6 DEF Once
<1>2. ASSUME NEW t \in Tasks, Run(t) PROVE Was \/ Begun
  <2>1. CASE t # u
    BY <1>0, <1>2, <1>8, <2>1 DEF Run, BeginImplement, BeginTargetedRepair, BeginReverify, AgentReturns,
       VerifyPasses, ReviewAccepts, NeedsHuman, BeginRepair, ExhaustRepairs, CommitTask, SaveCheckpoint
  <2>2. CASE BeginReverify(u) \/ AgentReturns(u) \/ VerifyPasses(u)
    <3>1. rt[u].status = "running"
      BY <2>2 DEF BeginReverify, AgentReturns, VerifyPasses, Running, At, TypeInv, StageOK
    <3>2. ASSUME NEW s \in {"verifying", "reviewing"}, SaveStage(u, s)
          PROVE  rt'[u].status = "running" /\ rt'[u].stage = s
      BY <1>0, <3>1, <3>2 DEF Runtime
    <3>3. SaveStage(u, "verifying") \/ SaveStage(u, "reviewing")
      BY <2>2 DEF BeginReverify, AgentReturns, VerifyPasses
    <3> QED BY <1>0, <3>2, <3>3
  <2>3. CASE NeedsHuman(u)
    BY <1>0, <2>3 DEF NeedsHuman, Runtime
  <2>6. CASE ExhaustRepairs(u)
    BY <1>0, <2>6 DEF ExhaustRepairs, Runtime
  <2>7. CASE ReviewAccepts(u)
    BY <1>0, <2>7 DEF ReviewAccepts, Reviewed, Running, At, TypeInv, StageOK, Runtime
  <2>8. CASE CommitTask(u)
    BY <1>8, <2>8 DEF CommitTask
  <2>9. CASE SaveCheckpoint(u)
    BY <1>0, <2>9 DEF SaveCheckpoint, Running, At, TypeInv, StageOK, Runtime
  <2> QED BY <1>2, <2>1, <2>2, <2>3, <2>6, <2>7, <2>8, <2>9 DEF Run
<1>3. ASSUME NEW t \in Tasks, Integrate(t) \/ RunFails(t) PROVE Was
  <2>1. CASE AcceptTask(t)
    BY <1>0, <1>8, <2>1 DEF AcceptTask, Runtime
  <2>2. CASE RunFails(t)
    BY <1>0, <1>8, <2>2 DEF RunFails, Runtime
  <2> QED BY <1>3, <1>8, <2>1, <2>2 DEF Integrate, ReadTree, AdvanceRef, RollBack
<1>4. ASSUME NEW t \in Tasks, Operator(t) PROVE Was
  <2>1. CASE Approve(t)
    BY <1>0, <2>1 DEF Approve, Runtime
  <2>2. CASE Reject(t)
    BY <1>0, <2>2 DEF Reject, Runtime
  <2>3. CASE CommitHumanGate(t)
    BY <1>8, <2>3 DEF CommitHumanGate
  <2>4. CASE AcceptGate(t)
    BY <1>0, <1>8, <2>4 DEF AcceptGate, Runtime
  <2>5. CASE Requeue(t)
    BY <1>0, <1>8, <2>5 DEF Requeue, Runtime
  <2>6. CASE RetryTargeted(t)
    BY <1>0, <1>8, <2>6 DEF RetryTargeted, Runtime
  <2>7. CASE Pause(t)
    BY <1>0, <1>8, <2>7 DEF Pause, PausedRuntime, Runtime
  <2>8. CASE Interrupt(t)
    <3>1. rt[t].status = "running"
      BY <2>8 DEF Interrupt, TypeInv, StageOK
    <3> QED BY <1>0, <1>8, <2>8, <3>1 DEF Interrupt, PausedRuntime, Runtime
  <2>9. CASE OpenGate(t)
    BY <1>8, <2>9 DEF OpenGate
  <2> QED BY <1>4, <2>1, <2>2, <2>3, <2>4, <2>5, <2>6, <2>7, <2>8, <2>9 DEF Operator
<1>5. ASSUME NEW t \in Tasks, Outside(t) PROVE Was
  BY <1>5, <1>8 DEF Outside, WriteTree, AgentCommits
<1>6. CASE ReconcileAccepted
  BY <1>0, <1>6, <1>8, ReconcileAgent
<1>7. CASE Crash \/ EndCommand \/ EditPolicy \/ WriteIntegrationTree \/ UNCHANGED vars
  BY <1>7, <1>8 DEF Crash, EndCommand, EditPolicy, WriteIntegrationTree, vars
<1> QED BY <1>1, <1>2, <1>3, <1>4, <1>5, <1>6, <1>7 DEF Next

\* Where the steps leave a command that neither begin a turn nor take it past one.
LEMMA AwayFromTurns ==
  ASSUME TypeInv, NEW t \in Tasks
  PROVE  /\ SaveCheckpoint(t) \/ NeedsHuman(t) \/ ExhaustRepairs(t)
              => proc'.pc \in {"integrate", "idle", "raising"}
         /\ Integrate(t) \/ RunFails(t) => proc'.pc \in {"advance", "settle", "raising", "idle"}
         /\ Operator(t) => proc'.pc \in {"opened", "gatecommit", "gatecommitted", "idle"}
<1>1. SaveCheckpoint(t) => proc'.pc = "integrate"
  BY CommandMoves DEF Reaches
<1>2. NeedsHuman(t) \/ AcceptTask(t) \/ RunFails(t) \/ AcceptGate(t) \/ Reject(t) \/ Requeue(t)
        \/ RetryTargeted(t) \/ Interrupt(t) => proc'.pc = "idle"
  BY CommandMoves DEF Idle
<1>3. ExhaustRepairs(t) \/ RollBack(t) => proc'.pc = "raising"
  BY CommandMoves DEF Reaches
<1>4. ReadTree(t) => proc'.pc = "advance"
  BY CommandMoves DEF Reaches
<1>5. AdvanceRef(t) => proc'.pc = "settle"
  BY CommandMoves DEF Reaches
<1>6. OpenGate(t) => proc'.pc = "opened"
  BY CommandMoves DEF Reaches
<1>7. Approve(t) => proc'.pc = "gatecommit"
  BY CommandMoves DEF Reaches
<1>8. CommitHumanGate(t) => proc'.pc = "gatecommitted"
  BY CommandMoves DEF Reaches
<1>9. Pause(t) => proc'.pc = "idle"
  BY DEF Pause
<1> QED BY <1>1, <1>2, <1>3, <1>4, <1>5, <1>6, <1>7, <1>8, <1>9 DEF Integrate, Operator

\* The actions that bring a command to the beginning of a turn, or past one.
LEMMA TurnMovers ==
  ASSUME "agent_commit" \notin Disturbances, TypeInv, [Next]_vars
  PROVE  /\ proc'.pc = "guide" => \/ proc' = proc /\ rt' = rt /\ branch' = branch
                                  \/ \E t \in Tasks : ResumeRun(t) \/ StartRun(t)
         /\ proc'.pc \in {"verify", "review", "commit", "committed"} =>
              \/ proc' = proc /\ rt' = rt
              \/ \E t \in Tasks : \/ BeginReverify(t) \/ AgentReturns(t) \/ VerifyPasses(t)
                                  \/ ReviewAccepts(t) \/ CommitTask(t)
         /\ proc'.pc \in {"implement", "repair"} =>
              \/ proc' = proc
              \/ \E t \in Tasks : BeginImplement(t) \/ BeginTargetedRepair(t) \/ BeginRepair(t)
<1> DEFINE Begins(t) == ResumeRun(t) \/ StartRun(t)
           Works(t) == \/ BeginReverify(t) \/ AgentReturns(t) \/ VerifyPasses(t)
                       \/ ReviewAccepts(t) \/ CommitTask(t)
           Edits(t) == BeginImplement(t) \/ BeginTargetedRepair(t) \/ BeginRepair(t)
           Past == {"verify", "review", "commit", "committed"}
           Away == proc'.pc # "guide" /\ proc'.pc \notin Past /\ proc'.pc \notin {"implement", "repair"}
           Stays == proc' = proc /\ rt' = rt /\ branch' = branch
<1>1. ASSUME NEW t \in Tasks, Once(t) PROVE Away \/ Begins(t)
  <2>1. PrepareGate(t) \/ PrepareTask(t) \/ RecoverCheckpoint(t)
          => proc'.pc \in {"issuing", "prepared", "integrate"}
    BY CommandMoves DEF Reaches
  <2>2. WaitForHumanGate(t) => proc'.pc = "idle"
    BY CommandMoves DEF Idle
  <2> QED BY <1>1, <2>1, <2>2 DEF Once
<1>2. ASSUME NEW t \in Tasks, Run(t) PROVE Away \/ Works(t) \/ Edits(t)
  BY <1>2, AwayFromTurns DEF Run
<1>3. ASSUME NEW t \in Tasks, Integrate(t) \/ RunFails(t) \/ Operator(t) PROVE Away
  BY <1>3, AwayFromTurns
<1>4. ASSUME NEW t \in Tasks, Outside(t) PROVE Stays
  BY <1>4 DEF Outside, WriteTree, AgentCommits, store
<1>5. ASSUME NEW t \in Tasks, Begins(t)
      PROVE  proc'.pc \notin Past /\ proc'.pc \notin {"implement", "repair"}
  BY <1>5, CommandMoves DEF Reaches
<1>6. ASSUME NEW t \in Tasks, Edits(t) PROVE proc'.pc # "guide" /\ proc'.pc \notin Past
  BY <1>6, CommandMoves DEF Reaches
<1>7. ASSUME NEW t \in Tasks, Works(t)
      PROVE  proc'.pc # "guide" /\ proc'.pc \notin {"implement", "repair"}
  BY <1>7, CommandMoves DEF Reaches
<1>8. Away \/ Stays \/ \E t \in Tasks : Begins(t) \/ Works(t) \/ Edits(t)
  <2>1. ReconcileAccepted \/ EndCommand \/ Crash => Away
    BY OtherMoves DEF Idle
  <2>2. EditPolicy \/ WriteIntegrationTree \/ UNCHANGED vars => Stays
    BY OtherMoves
  <2> QED BY <1>1, <1>2, <1>3, <1>4, <2>1, <2>2 DEF Next
<1> QED BY <1>5, <1>6, <1>7, <1>8

LEMMA TurnWorkStep ==
  ASSUME "agent_commit" \notin Disturbances, TypeInv, LedgerInv, MutationInv, [Next]_vars
  PROVE  TurnWork'
<1>0. rt \in [Tasks -> Runtime]
  BY DEF TypeInv, TypeOK
<1>1. ASSUME NEW t \in Tasks, ResumeRun(t) \/ StartRun(t) PROVE TurnWork'
  <2>1. branch[t] = main /\ branch' = branch
    BY <1>1 DEF ResumeRun, CanResume, StartRun, CanStart, git
  <2>3. proc'.pc = "guide" /\ proc'.task = t
    BY <1>1, CommandMoves DEF Reaches
  <2>2. rt'[t].base = main
    <3>1. CASE ResumeRun(t)
      BY <1>0, <3>1 DEF ResumeRun, CanResume, Runtime
    <3>2. CASE StartRun(t)
      BY <1>0, <3>2 DEF StartRun, Restarted, Runtime
    <3> QED BY <1>1, <3>1, <3>2
  <2> QED BY <2>1, <2>2, <2>3 DEF TurnWork
<1>2. ASSUME NEW t \in Tasks, \/ BeginReverify(t) \/ AgentReturns(t) \/ VerifyPasses(t)
                              \/ ReviewAccepts(t)
      PROVE  TurnWork'
  <2>1. proc'.task = t /\ proc'.pc \in {"verify", "review", "commit"}
    BY <1>2, CommandMoves DEF Reaches
  <2>2. ASSUME NEW s \in Stages, SaveStage(t, s) PROVE rt'[t].stage = s
    BY <1>0, <2>2 DEF SaveStage, Runtime
  <2>3. ReviewAccepts(t) => rt'[t].stage = "checkpointing"
    BY <1>0 DEF ReviewAccepts, Runtime
  <2>4. rt'[t].stage \in {"verifying", "reviewing", "checkpointing"}
    BY <1>2, <2>2, <2>3, Labels DEF BeginReverify, AgentReturns, VerifyPasses
  <2> QED BY <2>1, <2>4 DEF TurnWork, AmbiguousStages
<1>3. ASSUME NEW t \in Tasks, CommitTask(t) PROVE TurnWork'
  <2>1. proc.pc = "commit" /\ proc.task = t /\ rt' = rt
    BY <1>3 DEF CommitTask, Running, At, store
  <2>2. proc'.pc = "committed" /\ proc'.task = t
    BY <1>3, CommandMoves DEF Reaches
  <2> QED BY <2>1, <2>2 DEF TurnWork, MutationInv
<1>4. CASE proc' = proc /\ rt' = rt /\ (proc.pc = "guide" => branch' = branch)
  BY <1>4 DEF TurnWork, MutationInv
<1>5. CASE proc'.pc \notin {"guide", "verify", "review", "commit", "committed"}
  BY <1>5 DEF TurnWork
<1> QED BY <1>1, <1>2, <1>3, <1>4, <1>5, TurnMovers

LEMMA MutationOpenStep ==
  ASSUME "agent_commit" \notin Disturbances, TypeInv, TypeInv', LedgerInv, MutationInv, [Next]_vars,
         NEW u \in Agents
  PROVE  MutationOpen(u)'
<1> SUFFICES ASSUME Mutating(u)'
             PROVE  rt'[u].ckpt = None /\ branch'[u] = rt'[u].base /\ branch'[u] # None
  BY DEF MutationOpen, Known
<1>0. rt \in [Tasks -> Runtime] /\ u \in Tasks /\ MutationOpen(u)
  BY DEF TypeInv, TypeOK, Agents, MutationInv
<1>1. CASE Mutating(u) /\ rt'[u].ckpt = rt[u].ckpt /\ rt'[u].base = rt[u].base
  <2>1. ~Known(u) /\ branch[u] = rt[u].base /\ branch[u] # None
    BY <1>0, <1>1 DEF MutationOpen
  <2>2. ~CommitTask(u)
    <3> SUFFICES ASSUME CommitTask(u) PROVE FALSE
      OBVIOUS
    <3>1. rt[u].status = "running" /\ proc.pc = "commit" /\ proc.task = u
      BY DEF CommitTask, Running, At, TypeInv, StageOK
    <3> QED BY <1>0, <1>1, <3>1, ResumeStageOf DEF MutationInv, TurnWork, Mutating
  <2>3. branch'[u] = branch[u]
    BY <1>0, <2>1, <2>2, BranchMovers DEF AgentCommits
  <2> QED BY <1>1, <2>1, <2>3 DEF Known
<1>2. CASE BeginImplement(u) \/ BeginTargetedRepair(u) \/ BeginRepair(u)
  <2>1. /\ proc.pc \in {"guide", "verify", "review"} /\ proc.task = u
        /\ proc.pc # "guide" => branch[u] = rt[u].base
    BY <1>2 DEF BeginImplement, BeginTargetedRepair, BeginRepair, CallsForRepair, Reviewed, Running, At
  <2>2. rt[u].ckpt = None /\ branch[u] = rt[u].base /\ branch[u] # None
    BY <2>1 DEF LedgerInv, Place, BeforeCommit, MutationInv, TurnWork, TypeInv, PlaceOK, OnAgentTask
  <2>3. branch' = branch
    BY <1>2 DEF BeginImplement, BeginTargetedRepair, BeginRepair, git
  <2>4. CASE BeginImplement(u)
    BY <1>0, <2>2, <2>3, <2>4 DEF BeginImplement, SaveStage, Runtime
  <2>5. CASE BeginTargetedRepair(u)
    BY <1>0, <2>2, <2>3, <2>5 DEF BeginTargetedRepair, Runtime
  <2>6. CASE BeginRepair(u)
    BY <1>0, <2>2, <2>3, <2>6 DEF BeginRepair, Runtime
  <2> QED BY <1>2, <2>4, <2>5, <2>6
<1> QED BY <1>0, <1>1, <1>2, MutationBegins

LEMMA InitMutation == Init => MutationInv
  BY FreshIsPending DEF Init, MutationInv, TurnWork, MutationOpen, Mutating, Engaged, Idle, Agents

\* No turn is begun for a task left in a mutating turn.
LEMMA NoTurnBegins ==
  ASSUME TypeInv, MutationInv, NEW u \in Agents, Mutating(u)
  PROVE  /\ ~BeginImplement(u) /\ ~BeginTargetedRepair(u) /\ ~BeginRepair(u) /\ ~BeginReverify(u)
         /\ ~VerifyPasses(u) /\ ~ReviewAccepts(u) /\ ~NeedsHuman(u) /\ ~ExhaustRepairs(u)
         /\ ~CommitTask(u) /\ ~SaveCheckpoint(u)
<1>1. ASSUME proc.caught, proc.task = u
      PROVE  /\ rt[u].stage \in AmbiguousStages
             /\ proc.pc \notin {"verify", "review", "commit", "committed"}
  <2>1. rt[u].stage \in AmbiguousStages
    BY <1>1, ResumeStageOf DEF Mutating, TypeInv, StageOK, Agents
  <2> QED BY <1>1, <2>1 DEF MutationInv, TurnWork
<1> QED BY <1>1 DEF BeginImplement, BeginTargetedRepair, BeginRepair, BeginReverify, VerifyPasses,
                    ReviewAccepts, NeedsHuman, ExhaustRepairs, CommitTask, SaveCheckpoint,
                    CallsForRepair, Reviewed, Running, At, AmbiguousStages, ReverifyStages

LEMMA MutationEnds ==
  ASSUME LinearPlan, PlanInv, ActiveOwnsRun, MutationInv, [Next]_vars, NEW u \in Agents,
         Mutating(u), ~At("implement", u), ~At("repair", u)
  PROVE  Mutating(u)' \/ rt'[u].status = "failed"
<1> DEFINE Left == Mutating(u)' \/ rt'[u].status = "failed"
<1>0. /\ rt \in [Tasks -> Runtime] /\ u \in Tasks /\ u \notin Gates /\ active = u
      /\ rt[u].status \in {"running", "paused"} /\ ~Known(u)
      /\ rt[u].status = "running" => rt[u].stage \in AmbiguousStages
      /\ rt[u].status = "paused" => rt[u].resume \in AmbiguousStages
      /\ None \notin AmbiguousStages
  <2>1. u \in Tasks /\ u \notin Gates
    BY DEF Agents
  <2>2. None \notin AmbiguousStages
    BY NoneIsNot DEF AmbiguousStages, RunStages
  <2> QED BY <2>1, <2>2, ResumeStageOf DEF PlanInv, TypeInv, TypeOK, Mutating, Engaged, ActiveOwnsRun,
             MutationInv, MutationOpen
<1>8. ASSUME rt'[u] = rt[u] PROVE Left
  BY <1>8 DEF Mutating, Engaged, ResumeStage
<1>9. ASSUME \/ rt'[u].status = "running" /\ rt'[u].stage \in AmbiguousStages
             \/ rt'[u].status = "paused" /\ rt'[u].resume \in AmbiguousStages
      PROVE  Left
  BY <1>0, <1>9 DEF Mutating, Engaged, ResumeStage
<1>10. TypeInv /\ LedgerInv /\ GateInv /\ MutationOpen(u)
  BY DEF PlanInv, MutationInv
<1> USE DEF git, store
<1>1. ASSUME NEW t \in Tasks, Once(t) PROVE Left
  <2>1. CASE WaitForHumanGate(t)
    <3>1. t # u
      BY <1>0, <1>10, <2>1 DEF WaitForHumanGate, At, PlanInv, WorkOpen, GatePcs
    <3> QED BY <1>0, <1>8, <2>1, <3>1 DEF WaitForHumanGate
  <2>2. CASE ResumeRun(t)
    <3>1. CASE t # u
      BY <1>0, <1>8, <2>2, <3>1 DEF ResumeRun
    <3>2. CASE t = u
      <4>1. rt'[u].status = "running" /\ rt'[u].stage = ResumeStage(u)
        BY <1>0, <2>2, <3>2 DEF ResumeRun, Runtime
      <4> QED BY <1>9, <4>1 DEF Mutating
    <3> QED BY <3>1, <3>2
  <2>3. CASE PrepareTask(t)
    BY <1>8, <2>3 DEF PrepareTask
  <2>4. CASE RecoverCheckpoint(t)
    BY <1>0, <1>8, <1>10, <2>4, MutatingIsUnrecoverable DEF RecoverCheckpoint
  <2>5. CASE StartRun(t)
    <3>1. t # u
      BY <1>0, <2>5 DEF StartRun, CanStart, Resuming, Engaged
    <3> QED BY <1>0, <1>8, <2>5, <3>1 DEF StartRun
  <2>6. CASE PrepareGate(t)
    BY <1>8, <2>6 DEF PrepareGate
  <2> QED BY <1>1, <2>1, <2>2, <2>3, <2>4, <2>5, <2>6 DEF Once
<1>2. ASSUME NEW t \in Tasks, Run(t) PROVE Left
  <2>1. CASE t # u
    BY <1>0, <1>2, <1>8, <2>1 DEF Run, BeginImplement, BeginTargetedRepair, BeginReverify, AgentReturns,
       VerifyPasses, ReviewAccepts, NeedsHuman, BeginRepair, ExhaustRepairs, CommitTask, SaveCheckpoint,
       SaveStage
  <2>2. CASE t = u
    BY <1>2, <1>10, <2>2, NoTurnBegins DEF Run, AgentReturns, Running
  <2> QED BY <2>1, <2>2
<1>3. ASSUME NEW t \in Tasks, Integrate(t) \/ RunFails(t) PROVE Left
  <2>1. CASE AcceptTask(t)
    <3>1. t # u
      <4>1. proc.pc = "settle" /\ proc.task = t
        BY <2>1 DEF AcceptTask, At
      <4> QED BY <1>0, <1>10, <4>1, NoneIsNot DEF LedgerInv, Place, Known, TypeInv, TypeOK
    <3> QED BY <1>0, <1>8, <2>1, <3>1 DEF AcceptTask
  <2>2. CASE RunFails(t)
    BY <1>0, <1>8, <2>2 DEF RunFails, Runtime
  <2> QED BY <1>3, <1>8, <2>1, <2>2 DEF Integrate, ReadTree, AdvanceRef, RollBack
<1>4. ASSUME NEW t \in Tasks, Operator(t) PROVE Left
  <2>1. CASE Approve(t) \/ Reject(t)
    <3>1. t \in Gates
      BY <1>10, <2>1 DEF Approve, Reject, GateOpen, At, LedgerInv, Place
    <3> QED BY <1>0, <1>8, <2>1, <3>1 DEF Approve, Reject
  <2>2. CASE CommitHumanGate(t)
    BY <1>8, <2>2 DEF CommitHumanGate
  <2>3. CASE AcceptGate(t)
    <3>1. t \in Gates
      BY <1>10, <2>3 DEF AcceptGate, At, LedgerInv, Place
    <3> QED BY <1>0, <1>8, <2>3, <3>1 DEF AcceptGate
  <2>4. CASE Requeue(t) \/ RetryTargeted(t)
    BY <1>0, <1>8, <2>4 DEF Requeue, RetryTargeted, Retriable
  <2>5. CASE Pause(t)
    <3>1. CASE t # u
      BY <1>0, <1>8, <2>5, <3>1 DEF Pause
    <3>2. CASE t = u
      <4>1. rt[u].status = "running" /\ rt'[u].status = "paused" /\ rt'[u].resume = rt[u].stage
        BY <1>0, <2>5, <3>2 DEF Pause, PausedRuntime, Runtime
      <4> QED BY <1>0, <1>9, <4>1
    <3> QED BY <3>1, <3>2
  <2>6. CASE Interrupt(t)
    <3>1. CASE t # u
      BY <1>0, <1>8, <2>6, <3>1 DEF Interrupt
    <3>2. CASE t = u
      <4>1. rt[u].status = "running"
        BY <1>10, <2>6, <3>2 DEF Interrupt, TypeInv, StageOK
      <4>2. rt'[u].status = "paused" /\ rt'[u].resume = rt[u].stage
        BY <1>0, <2>6, <3>2 DEF Interrupt, PausedRuntime, Runtime
      <4> QED BY <1>0, <1>9, <4>1, <4>2
    <3> QED BY <3>1, <3>2
  <2>7. CASE OpenGate(t)
    BY <1>8, <2>7 DEF OpenGate
  <2> QED BY <1>4, <2>1, <2>2, <2>3, <2>4, <2>5, <2>6, <2>7 DEF Operator
<1>5. ASSUME NEW t \in Tasks, Outside(t) PROVE Left
  BY <1>5, <1>8 DEF Outside, WriteTree, AgentCommits
<1>6. CASE ReconcileAccepted
  BY <1>0, <1>6, <1>8, <1>10, ReconcileAgent
<1>7. CASE Crash \/ EndCommand \/ EditPolicy \/ WriteIntegrationTree \/ UNCHANGED vars
  BY <1>7, <1>8 DEF Crash, EndCommand, EditPolicy, WriteIntegrationTree, vars
<1> QED BY <1>1, <1>2, <1>3, <1>4, <1>5, <1>6, <1>7 DEF Next

LEMMA AmbiguousStep ==
  ASSUME LinearPlan, "agent_commit" \notin Disturbances, PlanInv, ActiveOwnsRun, MutationInv, [Next]_vars, NEW u \in Tasks, Ambiguous(u)
  PROVE  Ambiguous(u)' \/ rt'[u].status = "failed"
<1>1. u \in Agents /\ Mutating(u) /\ ~At("implement", u) /\ ~At("repair", u) /\ TypeInv
  BY DEF Ambiguous, Mutating, PlanInv, GateInv, GateRecord, Agents
<1>2. Mutating(u)' \/ rt'[u].status = "failed"
  BY <1>1, MutationEnds
<1>3. ~At("implement", u)' /\ ~At("repair", u)'
  <2> SUFFICES ASSUME proc'.pc \in {"implement", "repair"}, proc'.task = u PROVE FALSE
    BY DEF At
  <2>1. CASE proc' = proc
    BY <1>1, <2>1 DEF At
  <2>2. ASSUME NEW t \in Tasks, BeginImplement(t) \/ BeginTargetedRepair(t) \/ BeginRepair(t)
        PROVE  t = u
    BY <1>1, <2>2, CommandMoves DEF Reaches
  <2> QED BY <1>1, <2>1, <2>2, TurnMovers, NoTurnBegins
<1> QED BY <1>2, <1>3 DEF Ambiguous, Mutating

\* On a linear plan, when policy files are only edited between commands and nothing but the engine
\* commits on a task branch (a commit with the very parent and tree an earlier reviewer accepted is
\* taken for the reviewed one), a task whose mutating turn was interrupted is never taken up again,
\* completed or integrated: it stays as it was left until a command fails it, and is then retried
\* explicitly (engine.py:424-429, E_AMBIGUOUS_MUTATION).
THEOREM InterruptedMutationStops ==
  ASSUME LinearPlan, "late_policy" \notin Disturbances, "agent_commit" \notin Disturbances
  PROVE  Spec => AmbiguousStops
<1>1. Spec => []MutationInv
  <2>1. PlanInv /\ PlanInv' /\ MutationInv /\ [Next]_vars => MutationInv'
    BY TurnWorkStep, MutationOpenStep DEF PlanInv, MutationInv
  <2> QED BY <2>1, InitMutation, PlanInvariant, PTL DEF Spec
<1>2. PlanInv /\ ActiveOwnsRun /\ MutationInv /\ [Next]_vars =>
        [\A t \in Tasks : Ambiguous(t) => Ambiguous(t)' \/ rt'[t].status = "failed"]_vars
  BY AmbiguousStep
<1> QED BY <1>1, <1>2, PlanInvariant, ActiveRunKept, PTL DEF Spec, AmbiguousStops
=============================================================================
