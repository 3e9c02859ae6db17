------------------------------ MODULE Workbench ------------------------------
(***************************************************************************)
(* The adviser's decision workbench (decisions/workbench.py) with the      *)
(* decision log (decisions/services.py), the allocation lifecycle and the  *)
(* execution package of planning/services.py and the planner it replans    *)
(* with.  Advisers work on screens that show an earlier state; a decision  *)
(* is one database transaction that records it, moves the allocation,      *)
(* replans the remaining demand from the allocation's own run and replaces *)
(* the pending proposals, or that changes nothing.                         *)
(***************************************************************************)
EXTENDS CapacityPlanner

CONSTANTS InitialRequests,   \* requests the first planner run may have been recorded for
          Demands,           \* the demands of these requests
          CaseOf,            \* the case of each demand
          PermittedRoutes,   \* the routes the need taxonomy permits for each demand
          Advisers,          \* browser sessions of the adviser
          MaxDecisions,      \* bound: decisions recorded
          MaxExits           \* bound: cases with a safety exit

ASSUME DemandsAreFinite == IsFiniteSet(Demands)

ASSUME RequestsFit ==
    \A req \in InitialRequests : ValidRequest(req) /\ DOMAIN req.demands \subseteq Demands

VARIABLES runs,          \* planner runs, append-only
          allocs,        \* allocation rows; only their state ever changes
          decisions,     \* the decision log, append-only
          packages,      \* weekly plan entries: the approving decision of each
          exited,        \* cases with a safety exit
          screen         \* what each adviser is about to confirm

vars == <<runs, allocs, decisions, packages, exited, screen>>

Cases == {CaseOf[d] : d \in Demands}
NoScreen == [alloc |-> 0]
Root == 0                \* the decision token of an allocation without history

CaseOfAlloc(a) == CaseOf[allocs[a].demand]

(***************************************************************************)
(* The decision token: the last decision about the allocation, or else     *)
(* about the one it directly supersedes                                    *)
(***************************************************************************)
LastDecisionOn(a) == Max({Root} \cup {i \in DOMAIN decisions : decisions[i].alloc = a})

Token(a) ==
    IF LastDecisionOn(a) # Root \/ allocs[a].supersedes = 0 THEN LastDecisionOn(a)
    ELSE LastDecisionOn(allocs[a].supersedes)

-----------------------------------------------------------------------------
(* The first planner run and the proposals of its primary plan             *)

Proposal(plan, d, run, prior) ==
    [demand |-> d, slot |-> plan.alloc[d], run |-> run, supersedes |-> prior, state |-> "proposed"]

\* One proposal per served demand; nothing depends on which of them is the first row.
Proposals(plan, run, prior) ==
    LET served == SetToSeq(DOMAIN plan.alloc)
    IN  [i \in DOMAIN served |-> Proposal(plan, served[i], run, prior[served[i]])]

\* Fault: the safety exit of a case is not looked up for each proposal.
FaultProposedForExited(run) ==
    \A d \in DOMAIN run.primary.alloc :
        /\ d \in DOMAIN run.input.demands
        /\ run.input.slots[run.primary.alloc[d]].route \in PermittedRoutes[d]

\* AllocationService.propose succeeds for every demand the plan serves, which is looked up in
\* the input of the run.
AllProposable(run) ==
    \A d \in DOMAIN run.primary.alloc :
        /\ d \in DOMAIN run.input.demands
        /\ CaseOf[d] \notin exited
        /\ run.input.slots[run.primary.alloc[d]].route \in PermittedRoutes[d]

Init ==
    /\ \E req \in InitialRequests : runs = <<RecordedRun(req)>>
    /\ allocs = Proposals(runs[1].primary, 1, [d \in Demands |-> 0])
    /\ decisions = <<>>
    /\ packages = {}
    /\ exited = {}
    /\ screen = [v \in Advisers |-> NoScreen]
    /\ AllProposable(runs[1])

-----------------------------------------------------------------------------
(* The screens: the confirmation page carries the action and the token of  *)
(* the moment it was rendered; the ordinary views hide restricted cases.   *)
(* A page on a retired allocation is left out: no row leaves "inactive",   *)
(* and deciding on one is always refused.  Nor is leaving a page a step.   *)

\* The amendment targets offered: another plan of the run that serves the demand.
AlternativesFor(a) ==
    LET plans == PlansOf(runs[allocs[a].run])
    IN  {v \in DOMAIN plans \ {1} : allocs[a].demand \in DOMAIN plans[v].alloc}

OfferedChoices(a) ==
    {[action |-> act, variant |-> 1] : act \in {"approve", "reject"}}
        \cup {[action |-> "amend", variant |-> v] : v \in AlternativesFor(a)}

OpenConfirmation(v, a) ==
    /\ screen[v] = NoScreen
    /\ allocs[a].state # "inactive"
    /\ CaseOfAlloc(a) \notin exited
    /\ \E choice \in OfferedChoices(a) :
          screen' = [screen EXCEPT ![v] =
                        [alloc |-> a, token |-> Token(a),
                         action |-> choice.action, variant |-> choice.variant,
                         shown |-> allocs[a].state]]
    /\ UNCHANGED <<runs, allocs, decisions, packages, exited>>

-----------------------------------------------------------------------------
(* The pieces of the decision transaction                                  *)

\* Fault: only a pending proposal is retired by a rejection or an amendment.
FaultActiveNotRetired(rows, a, action) ==
    [rows EXCEPT ![a].state = IF action = "approve" THEN "active"
                              ELSE IF @ = "proposed" THEN "inactive" ELSE @]

\* AllocationService.activate_for_approval and retire_for_review.
Reviewed(rows, a, action) ==
    [rows EXCEPT ![a].state = IF action = "approve" THEN "active" ELSE "inactive"]

ActiveIn(rows, req) ==
    {a \in DOMAIN rows : rows[a].state = "active" /\ rows[a].demand \in DOMAIN req.demands}

Less(capacity, used) == Max({0, capacity - used})

\* Fault: only the rejected demand is left out of the new plan.
FaultActiveNotExcluded(req, rows, rejected) ==
    [req EXCEPT !.demands = [d \in DOMAIN req.demands \ rejected |-> req.demands[d]]]

\* Fault: the rejected demand is planned again at once.
FaultRejectedPlannedAgain(req, rows, rejected) ==
    LET excluded == {rows[a].demand : a \in ActiveIn(rows, req)}
    IN  [req EXCEPT !.demands = [d \in DOMAIN req.demands \ excluded |-> req.demands[d]]]

\* _replan: the demands of the source run that are neither active nor rejected now, on the
\* slots of the source run less what its active allocations use.
RemainingRequest(req, rows, rejected) ==
    LET active == ActiveIn(rows, req)
        Using(s) == {a \in active : rows[a].slot = s}
        EffortUsed(s) == SumFunction([a \in Using(s) |-> req.demands[rows[a].demand].effort])
        excluded == {rows[a].demand : a \in active} \cup rejected
    IN  [req EXCEPT
            !.demands = [d \in DOMAIN req.demands \ excluded |-> req.demands[d]],
            !.slots = [s \in DOMAIN req.slots |->
                [req.slots[s] EXCEPT !.seats = Less(@, Cardinality(Using(s))),
                                     !.hours = Less(@, EffortUsed(s)),
                                     !.rooms = Less(@, Cardinality(Using(s)))]]]

\* The pending proposals of the demands a new run covers.
StaleProposals(rows, run) ==
    {a \in DOMAIN rows : rows[a].state = "proposed" /\ rows[a].demand \in DOMAIN run.input.demands}

Retired(rows, retired) ==
    [a \in DOMAIN rows |-> IF a \in retired THEN [rows[a] EXCEPT !.state = "inactive"] ELSE rows[a]]

\* The row a new proposal supersedes: the amended allocation, or the last one retired.
PriorOf(rows, retired, amended, d) ==
    LET same == {a \in retired : rows[a].demand = d}
    IN  IF \E a \in amended : rows[a].demand = d THEN CHOOSE a \in amended : TRUE
        ELSE IF same = {} THEN 0 ELSE Max(same)

\* Fault: the new proposals name the run after the one they come from.
FaultNextRunNamed(rows, run, runId, amended) ==
    LET retired == StaleProposals(rows, run)
    IN  Retired(rows, retired)
            \o Proposals(run.primary, runId + 1, [d \in Demands |-> PriorOf(rows, retired, amended, d)])

\* _refresh_remaining_proposals.
Refreshed(rows, run, runId, amended) ==
    LET retired == StaleProposals(rows, run)
    IN  Retired(rows, retired)
            \o Proposals(run.primary, runId, [d \in Demands |-> PriorOf(rows, retired, amended, d)])

-----------------------------------------------------------------------------
(* DecisionWorkbenchService.decide                                         *)

\* Fault: the decision token of the screen is not compared.
FaultStaleScreenAccepted(v) ==
    LET a == screen[v].alloc
    IN  \/ allocs[a].state = "proposed"
        \/ allocs[a].state = "active" /\ screen[v].action \in {"amend", "reject"}

\* The allocation still awaits this decision and its history is the one on the screen.  (The
\* digest of the planner run is compared too; an allocation never changes its run.)
ScreenCurrent(v) ==
    LET a == screen[v].alloc
    IN  /\ \/ allocs[a].state = "proposed"
           \/ allocs[a].state = "active" /\ screen[v].action \in {"amend", "reject"}
        /\ screen[v].token = Token(a)

\* SupportDecisionService.record: no exit, and the predecessor has no successor yet; an
\* approval needs an allocation without an execution package.
Recordable(v) ==
    LET a == screen[v].alloc
    IN  /\ CaseOfAlloc(a) \notin exited
        /\ Token(a) # Root => \A i \in DOMAIN decisions : decisions[i].predecessor # Token(a)
        /\ screen[v].action = "approve" => \A p \in packages : decisions[p].alloc # a

RowsAfter(v) == Reviewed(allocs, screen[v].alloc, screen[v].action)

SourceRun(v) == runs[allocs[screen[v].alloc].run]

RequestAfter(v) ==
    RemainingRequest(SourceRun(v).input, RowsAfter(v),
                     IF screen[v].action = "reject" THEN {allocs[screen[v].alloc].demand} ELSE {})

\* An amendment selects a plan of the source run, which must still fit; any other decision
\* plans the remaining demand anew.
Replannable(v) ==
    screen[v].action = "amend" => SelectedPlanValid(RequestAfter(v), SourceRun(v), screen[v].variant)

NewRun(v) ==
    IF screen[v].action = "amend" THEN SelectedRun(RequestAfter(v), SourceRun(v), screen[v].variant)
    ELSE RecordedRun(RequestAfter(v))

\* The rows and the log after the decision, with the run made for it.
Commit(v, run) ==
    LET a == screen[v].alloc
        act == screen[v].action
    IN  /\ decisions' = Append(decisions, [alloc |-> a, action |-> act, predecessor |-> Token(a)])
        /\ packages' = packages \cup (IF act = "approve" THEN {Len(decisions) + 1} ELSE {})
        /\ runs' = Append(runs, run)
        /\ allocs' = Refreshed(RowsAfter(v), run, Len(runs) + 1, IF act = "amend" THEN {a} ELSE {})

\* One transaction: any failed check, in whichever of the services, rolls all of it back.
Decide(v) ==
    /\ screen[v] # NoScreen
    /\ Len(decisions) < MaxDecisions
    /\ LET run == NewRun(v)
       IN  IF ScreenCurrent(v) /\ Recordable(v) /\ Replannable(v) /\ AllProposable(run)
           THEN Commit(v, run)
           ELSE UNCHANGED <<runs, allocs, decisions, packages>>
    /\ screen' = [screen EXCEPT ![v] = NoScreen]
    /\ UNCHANGED exited

\* The safety gate takes a case out of ordinary processing for good.
SafetyExit(c) ==
    /\ c \notin exited
    /\ Cardinality(exited) < MaxExits
    /\ exited' = exited \cup {c}
    /\ UNCHANGED <<runs, allocs, decisions, packages, screen>>

Next ==
    \/ \E v \in Advisers : \/ \E a \in DOMAIN allocs : OpenConfirmation(v, a)
                           \/ Decide(v)
    \/ \E c \in Cases : SafetyExit(c)

Spec == Init /\ [][Next]_vars

-----------------------------------------------------------------------------
(* Properties                                                              *)

States == {"proposed", "active", "inactive"}

Live(d) == {a \in DOMAIN allocs : allocs[a].demand = d /\ allocs[a].state # "inactive"}

\* The type invariant: rows point at earlier rows and at runs that exist.
TypeOK ==
    /\ \A a \in DOMAIN allocs : /\ allocs[a].demand \in Demands
                                /\ allocs[a].run \in DOMAIN runs
                                /\ allocs[a].supersedes \in 0..(a - 1)
                                /\ allocs[a].state \in States
    /\ \A i \in DOMAIN decisions : /\ decisions[i].alloc \in DOMAIN allocs
                                   /\ decisions[i].action \in {"approve", "amend", "reject"}
                                   /\ decisions[i].predecessor \in 0..(i - 1)
    /\ packages \subseteq DOMAIN decisions
    /\ exited \subseteq Cases
    /\ \A v \in Advisers : screen[v] # NoScreen => screen[v].alloc \in DOMAIN allocs

\* However decisions of several runs, refreshes and amendments follow each other, a demand is
\* never proposed or active twice: replanning from an old run (workbench.py:308-346) excludes
\* what is active and retires what is pending before it proposes again.
OneLivePerDemand == \A d \in Demands : Cardinality(Live(d)) <= 1

\* "Active only when backed by an approved decision": the last word about an active allocation
\* is the approval its one execution package was made under, and a package whose allocation is
\* no longer active was followed by an amendment or a rejection of it (workbench.py:226-291).
ActiveIsApproved ==
    /\ \A a \in DOMAIN allocs :
          allocs[a].state = "active" =>
            /\ {p \in packages : decisions[p].alloc = a} = {LastDecisionOn(a)}
            /\ decisions[LastDecisionOn(a)].action = "approve"
    /\ \A p \in packages :
          allocs[decisions[p].alloc].state # "active" => LastDecisionOn(decisions[p].alloc) > p

\* No demand disappears silently: every demand of the first request is live, or was rejected
\* since it was last planned (decision i made run i + 1), or the last run that planned it
\* reports it unmet with a reason (workbench.py:348-398, planning/services.py:288-300).
NothingDropped ==
    \A d \in DOMAIN runs[1].input.demands :
        LET last == Max({r \in DOMAIN runs : d \in DOMAIN runs[r].input.demands})
        IN  \/ Live(d) # {}
            \/ d \in DOMAIN runs[last].primary.unmet
            \/ \E i \in DOMAIN decisions : /\ i >= last
                                           /\ decisions[i].action = "reject"
                                           /\ allocs[decisions[i].alloc].demand = d

\* A decision is made about what the confirmation page showed: whatever other sessions decided
\* while the page was open, the allocation is still in the state and has the history it was
\* rendered with (workbench.py:239-259).
DecidedAsShown ==
    [][\A v \in Advisers :
          Len(decisions') > Len(decisions) /\ screen'[v] # screen[v] =>
              /\ screen[v].shown = allocs[screen[v].alloc].state
              /\ screen[v].token = decisions'[Len(decisions')].predecessor]_vars

\* A safety exit ends ordinary processing of the case in every transaction that could touch it:
\* none decides on it, proposes for it or activates for it, not even the refresh that follows a
\* decision on another case (planning/services.py:433, decisions/services.py:42).
NothingNewAfterExit ==
    [][\A a \in DOMAIN allocs' :
          CaseOf[allocs'[a].demand] \in exited =>
              /\ a \in DOMAIN allocs
              /\ allocs'[a].state \in {allocs[a].state, "inactive"}
              /\ \A i \in DOMAIN decisions' \ DOMAIN decisions : decisions'[i].alloc # a]_vars

\* The workbench implements the board of demands.
Board == [d \in Demands |->
            IF \E a \in Live(d) : allocs[a].state = "active" THEN "active"
            ELSE IF Live(d) # {} THEN "proposed" ELSE "waiting"]

DecisionLog ==
    [i \in DOMAIN decisions |-> <<allocs[decisions[i].alloc].demand, decisions[i].action>>]

DemandBoard == INSTANCE DemandBoard WITH board <- Board, log <- DecisionLog

\* Every decision moves its own demand as the action says and none moves another demand into or
\* out of active, through all the rows that are retired and created (workbench.py:226-398).
ImplementsDemandBoard == DemandBoard!Spec

\* The hard constraints the planner owns, for everything active in the runs it can be
\* replanned from: group limit, barriers, seats, rooms and hours of each slot.
HardConstraintsKept ==
    \A s \in DOMAIN runs[1].input.slots :
        LET req == runs[1].input
            group == {allocs[a].demand : a \in {b \in ActiveIn(allocs, req) : allocs[b].slot = s}}
        IN  /\ Cardinality(group) <=
                  Least(req.slots[s].seats, req.slots[s].rooms, req.policy.maxGroup)
            /\ EffortOf(req, group) <= req.slots[s].hours
            /\ \A d, e \in group : BarriersCompatible(req, d, e)
=============================================================================
