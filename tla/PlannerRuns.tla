----------------------------- MODULE PlannerRuns -----------------------------
(***************************************************************************)
(* The planner's evidence store (PlannerRunService): runs are recorded for *)
(* a request whose capacity other bookings take away, and a plan of an     *)
(* earlier run is selected later.  The properties compare what is stored   *)
(* with what a plan means: hard constraints on whole groups, the best of   *)
(* all assignments, and reasons that are true.                             *)
(***************************************************************************)
EXTENDS CapacityPlanner

CONSTANTS Requests,      \* the requests a model starts from
          MaxRuns,       \* bound: runs recorded
          MaxTaken       \* bound: bookings that take capacity away

ASSUME RequestsAssumption == \A req \in Requests : ValidRequest(req)

VARIABLES request,       \* the request as the caller rebuilds it now
          runs,          \* the recorded runs, append-only
          taken          \* how many bookings have taken capacity

vars == <<request, runs, taken>>

-----------------------------------------------------------------------------
Init == request \in Requests /\ runs = <<>> /\ taken = 0

\* PlannerRunService.record, with the result DeterministicPlanningService.plan returns.
Record ==
    /\ Len(runs) < MaxRuns
    /\ runs' = Append(runs, RecordedRun(request))
    /\ UNCHANGED <<request, taken>>

\* PlannerRunService.record_selected_plan; a stale or unknown plan is an error.
RecordSelected(i, variant) ==
    /\ Len(runs) < MaxRuns
    /\ SelectedPlanValid(request, runs[i], variant)
    /\ runs' = Append(runs, SelectedRun(request, runs[i], variant))
    /\ UNCHANGED <<request, taken>>

\* An approval elsewhere takes a seat, a room place and an adviser hour of a slot.
CapacityTaken(s) ==
    /\ taken < MaxTaken
    /\ taken' = taken + 1
    /\ Least(request.slots[s].seats, request.slots[s].hours, request.slots[s].rooms) > 0
    /\ request' = [request EXCEPT !.slots[s].seats = @ - 1, !.slots[s].hours = @ - 1,
                                  !.slots[s].rooms = @ - 1]
    /\ UNCHANGED runs

Next ==
    \/ Record
    \/ \E i \in DOMAIN runs : \E variant \in DOMAIN PlansOf(runs[i]) : RecordSelected(i, variant)
    \/ \E s \in DOMAIN request.slots : CapacityTaken(s)

Spec == Init /\ [][Next]_vars

-----------------------------------------------------------------------------
(* What a reason code claims, stated without the order of the slots        *)

\* The named constraint really stops the demand on some slot it could have used.
ReasonHolds(req, alloc, d, reason) ==
    LET At(s) == Members(alloc, s)
        Timeless == TimelySlots(req, d) = {}
    IN  CASE reason = "unapproved_intervention_type" -> ApprovedRoutes(req, d) = {}
          [] reason = "zero_capacity" ->
               \A s \in RouteSlots(req, d) :
                  0 \in {req.slots[s].seats, req.slots[s].hours, req.slots[s].rooms}
          [] reason = "deadline_elapsed" -> Timeless
          [] reason = "barrier_incompatible" ->
               \E s \in TimelySlots(req, d) : \E e \in At(s) : ~BarriersCompatible(req, d, e)
          [] reason = "group_limit" ->
               \E s \in TimelySlots(req, d) : Cardinality(At(s)) = req.policy.maxGroup
          [] reason = "capacity_exhausted" ->
               \E s \in TimelySlots(req, d) :
                  Cardinality(At(s)) \in {req.slots[s].seats, req.slots[s].rooms}
          [] reason = "adviser_hours" ->
               \E s \in TimelySlots(req, d) :
                  EffortOf(req, At(s) \cup {d}) > req.slots[s].hours

-----------------------------------------------------------------------------
(* Properties                                                              *)

\* The plan a run was recorded with first is, among all assignments that keep the hard
\* constraints of the stored input, the one no other ranks before: no mandatory demand, no
\* demand and no waiting day is lost to the order of the search (services.py:107-145).
\* A selected plan is put first later, so the best plan is looked for among a run's plans.
BestPlanRecorded ==
    \A i \in DOMAIN runs : \E v \in DOMAIN PlansOf(runs[i]) :
        \A alloc \in FeasibleAssignments(runs[i].input) :
            ~RankLess(runs[i].input, alloc, PlansOf(runs[i])[v].alloc)

\* Every plan of every run, a selected one included, keeps the hard constraints of the input
\* stored beside it: a plan selected from an earlier run never outlives the capacity it was
\* computed for (services.py:375-412).
PlansFeasibleForInput ==
    \A i \in DOMAIN runs : \A v \in DOMAIN PlansOf(runs[i]) :
        PlansOf(runs[i])[v].alloc \in FeasibleAssignments(runs[i].input)

\* The alternatives preserve the entitlements the best plan achieves and are complete up to
\* the policy's limit: all plans of a run meet equally many mandatory demands, are distinct, and
\* are fewer than the limit allows only when no other assignment qualifies (services.py:148-205).
AlternativesPreserveEntitlements ==
    \A i \in DOMAIN runs :
        LET req    == runs[i].input
            chosen == {PlansOf(runs[i])[v].alloc : v \in DOMAIN PlansOf(runs[i])}
            met    == {MandatoryMet(req, alloc) : alloc \in chosen}
            equal  == {alloc \in FeasibleAssignments(req) : MandatoryMet(req, alloc) \in met}
        IN  /\ Cardinality(met) = 1
            /\ Cardinality(chosen) = Len(PlansOf(runs[i]))
            /\ Len(PlansOf(runs[i])) = Min({Cardinality(equal), 1 + req.policy.altLimit})

\* No demand leaves a run unexplained: the first plan of a freshly recorded run, the one no
\* alternative ranks before, serves or explains every demand, and when all of a demand's routes
\* are approved the reason code names a constraint that does bind it (services.py:310-344).
UnmetExplained ==
    \A i \in DOMAIN runs :
        LET req  == runs[i].input
            plan == runs[i].primary
        IN  (\A v \in DOMAIN PlansOf(runs[i]) : ~RankLess(req, PlansOf(runs[i])[v].alloc, plan.alloc)) =>
              /\ DOMAIN plan.unmet = DOMAIN req.demands \ DOMAIN plan.alloc
              /\ \A d \in DOMAIN plan.unmet :
                    ApprovedRoutes(req, d) \in {{}, req.demands[d].routes}
                      => ReasonHolds(req, plan.alloc, d, plan.unmet[d])
=============================================================================
