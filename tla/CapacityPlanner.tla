--------------------------- MODULE CapacityPlanner ---------------------------
(***************************************************************************)
(* The deterministic planner of the product (planning/services.py and the  *)
(* value types of planning/contracts.py), as operators on a request.       *)
(*                                                                         *)
(* A request is [demands, slots, policy]: functions from identifiers to    *)
(* records, and the policy record.  Identifiers, routes and days are       *)
(* numbers in the order of the source's keys, so that a slot's identifier  *)
(* stands for (resource, route, date).  A plan is [alloc, unmet]: the slot *)
(* of every served demand and the reason code of every other one.          *)
(***************************************************************************)
EXTENDS Integers, Sequences, FiniteSets, SequencesExt, FiniteSetsExt

\* s comes before t in the order of Python's tuples (s and t of one length).
LexLess(s, t) ==
    \E i \in DOMAIN s : s[i] < t[i] /\ \A j \in 1..(i - 1) : s[j] = t[j]

\* The members of S in the order less, a set of pairs: the n-th is the one n - 1 others precede.
InOrder(S, less) ==
    [n \in 1..Cardinality(S) |->
        CHOOSE x \in S : Cardinality({y \in S : <<y, x>> \in less}) = n - 1]

SortByKey(key) ==
    LET S == DOMAIN key
    IN  InOrder(S, {p \in S \X S : LexLess(key[p[1]], key[p[2]])})

Least(a, b, c) == Min({a, b, c})

(***************************************************************************)
(* Requests: what the constructors of the value types let through          *)
(***************************************************************************)
ValidDemand(demand) ==
    /\ demand.mandatory \in BOOLEAN
    /\ demand.requested \in Int /\ demand.deadline \in Int
    /\ demand.effort \in Nat \ {0}

SlotsIn(slots) == [slots -> [route: Int, day: Int, seats: Nat, hours: Nat, rooms: Nat]]

ValidRequest(req) ==
    /\ DOMAIN req = {"demands", "slots", "policy"}
    /\ DOMAIN req.demands \subseteq Int /\ IsFiniteSet(DOMAIN req.demands)
    /\ \A d \in DOMAIN req.demands : ValidDemand(req.demands[d])
    /\ DOMAIN req.slots \subseteq Int /\ IsFiniteSet(DOMAIN req.slots)
    /\ req.slots \in SlotsIn(DOMAIN req.slots)
    /\ req.policy.maxGroup \in Nat \ {0} /\ req.policy.altLimit \in Nat \ {0}

(***************************************************************************)
(* The order in which demands are searched, and a demand's candidate slots *)
(***************************************************************************)
DemandOrder(req) ==
    SortByKey([d \in DOMAIN req.demands |->
                  <<IF req.demands[d].mandatory THEN 0 ELSE 1, req.demands[d].deadline, d>>])

ApprovedRoutes(req, d) == req.demands[d].routes \cap req.policy.approved

Timely(req, d, s) ==
    req.slots[s].day \in req.demands[d].requested..req.demands[d].deadline

CandidateSet(req, d) ==
    {s \in DOMAIN req.slots :
        /\ req.slots[s].route \in ApprovedRoutes(req, d)
        /\ Timely(req, d, s)
        /\ Least(req.slots[s].seats, req.slots[s].hours, req.slots[s].rooms) > 0}

SlotOrder(req, slots) ==
    SortByKey([s \in slots |-> <<req.slots[s].route, req.slots[s].day, s>>])

(***************************************************************************)
(* Whether a demand fits a slot beside those already placed there          *)
(***************************************************************************)
Members(alloc, s) == {d \in DOMAIN alloc : alloc[d] = s}

BarriersCompatible(req, d, e) ==
    LET pair == {req.demands[d].barrier, req.demands[e].barrier}
    IN  Cardinality(pair) = 1 \/ pair \in req.policy.compatible

EffortOf(req, group) == SumFunction([d \in group |-> req.demands[d].effort])

ChoiceFits(req, alloc, d, s) ==
    LET group == Members(alloc, s)
    IN  /\ Cardinality(group) < Least(req.slots[s].seats, req.slots[s].rooms, req.policy.maxGroup)
        /\ EffortOf(req, group) + req.demands[d].effort <= req.slots[s].hours
        /\ \A e \in group : BarriersCompatible(req, d, e)

(***************************************************************************)
(* The depth-first search: every demand in turn takes each candidate that  *)
(* fits, in order, and last of all none.  Leaves is the sequence of        *)
(* assignments the search reaches, in the order it reaches them.           *)
(***************************************************************************)
Fitting(req, alloc, d) == {s \in CandidateSet(req, d) : ChoiceFits(req, alloc, d, s)}

Place(alloc, d, s) == [e \in DOMAIN alloc \cup {d} |-> IF e = d THEN s ELSE alloc[e]]

Placed(req, alloc, d) ==
    LET slots == SlotOrder(req, Fitting(req, alloc, d))
    IN  [i \in DOMAIN slots |-> Place(alloc, d, slots[i])]

\* Fault: a demand that can be placed is never left unmet.
FaultGreedyBranches(req, alloc, d) ==
    IF Fitting(req, alloc, d) = {} THEN <<alloc>> ELSE Placed(req, alloc, d)

Branches(req, alloc, d) == Append(Placed(req, alloc, d), alloc)

\* What the search has reached when n demands have had their turn.
Reached(req) ==
    LET order == DemandOrder(req)
        reached[n \in 0..Len(order)] ==
            IF n = 0 THEN << <<>> >>
            ELSE LET before == reached[n - 1]
                 IN  FlattenSeq([i \in DOMAIN before |-> Branches(req, before[i], order[n])])
    IN  reached

Leaves(req) == Reached(req)[Len(DemandOrder(req))]

(***************************************************************************)
(* The rank of an assignment: mandatory demands met, demands met, days     *)
(* waited, and at last the lexical order of (demand, slot)                 *)
(***************************************************************************)
MandatoryMet(req, alloc) == Cardinality({d \in DOMAIN alloc : req.demands[d].mandatory})

Wait(req, alloc) ==
    SumFunction([d \in DOMAIN alloc |-> req.slots[alloc[d]].day - req.demands[d].requested])

Pairs(alloc) == {<<d, alloc[d]>> : d \in DOMAIN alloc}

\* Two assignments of one size: the first pair in which they differ decides.
LexicallyLess(a, b) ==
    LET apart == (Pairs(a) \ Pairs(b)) \cup (Pairs(b) \ Pairs(a))
    IN  \E p \in Pairs(a) : p \in apart /\ \A q \in apart \ {p} : LexLess(p, q)

Score(req, alloc) == <<-MandatoryMet(req, alloc), -Cardinality(DOMAIN alloc), Wait(req, alloc)>>

RankLess(req, a, b) ==
    \/ LexLess(Score(req, a), Score(req, b))
    \/ Score(req, a) = Score(req, b) /\ LexicallyLess(a, b)

\* The first search keeps a leaf when it ranks before the best one so far.
OptimalPrimary(req, leaves) ==
    LET best[n \in DOMAIN leaves] ==
            IF n = 1 THEN leaves[1]
            ELSE LET sofar == best[n - 1]
                 IN  IF RankLess(req, leaves[n], sofar) THEN leaves[n] ELSE sofar
    IN  best[Len(leaves)]

\* The first members of a set of positions, as many as the limit allows.
FirstOf(positions, limit) ==
    {i \in positions : Cardinality({j \in positions : j < i}) < limit}

\* Fault: an alternative may serve fewer mandatory demands than the primary plan.
FaultEntitlementsTraded(req, leaves, primary) ==
    LET found == {i \in DOMAIN leaves : leaves[i] # primary}
    IN  {leaves[i] : i \in FirstOf(found, req.policy.altLimit)}

\* The assignments the second search keeps: the first ones it reaches that meet exactly
\* as many mandatory demands as the primary plan.  Its early return on the demands still
\* to come only skips branches whose leaves would not be kept.
KeptAlternatives(req, leaves, primary) ==
    LET found == {i \in DOMAIN leaves :
                      /\ leaves[i] # primary
                      /\ MandatoryMet(req, leaves[i]) = MandatoryMet(req, primary)}
    IN  {leaves[i] : i \in FirstOf(found, req.policy.altLimit)}

Alternatives(req, leaves, primary) ==
    LET kept == KeptAlternatives(req, leaves, primary)
    IN  InOrder(kept, {p \in kept \X kept : RankLess(req, p[1], p[2])})

(***************************************************************************)
(* Rendering: the reason code of every demand the plan does not serve      *)
(***************************************************************************)
RouteSlots(req, d) == {s \in DOMAIN req.slots : req.slots[s].route \in req.demands[d].routes}

TimelySlots(req, d) == {s \in RouteSlots(req, d) : Timely(req, d, s)}

\* Fault: adviser hours are never named.
FaultHoursNotNamed(req, alloc, d, s) ==
    LET group == Members(alloc, s)
    IN  IF \E e \in group : ~BarriersCompatible(req, d, e) THEN "barrier_incompatible"
        ELSE IF Cardinality(group) >= req.policy.maxGroup THEN "group_limit"
        ELSE IF Cardinality(group) >= Min({req.slots[s].seats, req.slots[s].rooms})
             THEN "capacity_exhausted"
        ELSE "none"

\* Why this slot cannot take the demand as well; "none" when it could.
Obstacle(req, alloc, d, s) ==
    LET group == Members(alloc, s)
    IN  IF \E e \in group : ~BarriersCompatible(req, d, e) THEN "barrier_incompatible"
        ELSE IF Cardinality(group) >= req.policy.maxGroup THEN "group_limit"
        ELSE IF Cardinality(group) >= Min({req.slots[s].seats, req.slots[s].rooms})
             THEN "capacity_exhausted"
        ELSE IF EffortOf(req, group) + req.demands[d].effort > req.slots[s].hours
             THEN "adviser_hours"
        ELSE "none"

\* The first timely slot with an obstacle names the reason.
UnmetReason(req, alloc, d) ==
    LET blocked == {s \in TimelySlots(req, d) : Obstacle(req, alloc, d, s) # "none"}
    IN  CASE ApprovedRoutes(req, d) = {} -> "unapproved_intervention_type"
          [] /\ ApprovedRoutes(req, d) # {}
             /\ \A s \in RouteSlots(req, d) :
                    Least(req.slots[s].seats, req.slots[s].hours, req.slots[s].rooms) = 0
             -> "zero_capacity"
          [] OTHER -> IF TimelySlots(req, d) = {} THEN "deadline_elapsed"
                      ELSE IF blocked = {} THEN "capacity_exhausted"
                      ELSE Obstacle(req, alloc, d, Min(blocked))

\* Fault: a demand without a candidate slot leaves the plan altogether.
FaultUnplaceableDropped(req, alloc) ==
    [alloc |-> alloc,
     unmet |-> [d \in {e \in DOMAIN req.demands \ DOMAIN alloc : CandidateSet(req, e) # {}} |->
                    UnmetReason(req, alloc, d)]]

Render(req, alloc) ==
    [alloc |-> alloc,
     unmet |-> [d \in DOMAIN req.demands \ DOMAIN alloc |-> UnmetReason(req, alloc, d)]]

(***************************************************************************)
(* A planner run keeps its input, the primary plan and the alternatives.   *)
(***************************************************************************)
PlanningResult(req) ==
    LET leaves  == Leaves(req)
        primary == OptimalPrimary(req, leaves)
        others  == Alternatives(req, leaves, primary)
    IN  [primary      |-> Render(req, primary),
         alternatives |-> [i \in DOMAIN others |-> Render(req, others[i])]]

RecordedRun(req) ==
    LET result == PlanningResult(req)
    IN  [input |-> req, primary |-> result.primary, alternatives |-> result.alternatives]

\* The plans of a run, as they are numbered when one is selected.
PlansOf(run) == <<run.primary>> \o run.alternatives

\* Fault: the stored input is not compared with the current one.
FaultSelectedPlanUnchecked(req, run, variant) == variant \in DOMAIN PlansOf(run)

\* A plan may be selected only for the input it was computed from.
SelectedPlanValid(req, run, variant) ==
    /\ req = run.input
    /\ variant \in DOMAIN PlansOf(run)

SelectedRun(req, run, variant) ==
    [input        |-> req,
     primary      |-> PlansOf(run)[variant],
     alternatives |-> RemoveAt(PlansOf(run), variant)]

(***************************************************************************)
(* What a plan means, stated without the search                            *)
(***************************************************************************)
\* The hard constraints on everything a plan places in one slot.
SlotKept(req, alloc, s) ==
    LET group == Members(alloc, s)
    IN  /\ Cardinality(group) <= Least(req.slots[s].seats, req.slots[s].rooms, req.policy.maxGroup)
        /\ EffortOf(req, group) <= req.slots[s].hours
        /\ \A d, e \in group : BarriersCompatible(req, d, e)

Feasible(req, alloc) ==
    /\ \A d \in DOMAIN alloc : /\ req.slots[alloc[d]].route \in ApprovedRoutes(req, d)
                               /\ Timely(req, d, alloc[d])
    /\ \A s \in DOMAIN req.slots : SlotKept(req, alloc, s)

Assignments(req) == UNION {[served -> DOMAIN req.slots] : served \in SUBSET DOMAIN req.demands}

FeasibleAssignments(req) == {alloc \in Assignments(req) : Feasible(req, alloc)}
=============================================================================
