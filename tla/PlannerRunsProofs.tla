--------------------------- MODULE PlannerRunsProofs ---------------------------
(***************************************************************************)
(* What every recorded run of the planner keeps, for every set of valid    *)
(* requests and however many runs and bookings: the invariant says that a  *)
(* run carries exactly the best plan and the alternatives of the input it  *)
(* stores, each once (Complete), in whatever order later selections put    *)
(* them.  The four properties follow from it and from what the search, the *)
(* rank and the rendering compute (CapacityPlannerProofs).                 *)
(***************************************************************************)
EXTENDS PlannerRuns, CapacityPlannerProofs

RunsComplete ==
    /\ ValidRequest(request)
    /\ \E S : runs \in Seq(S)
    /\ \A i \in DOMAIN runs : Complete(runs[i])

LEMMA AppendComplete ==
    ASSUME NEW S, NEW s \in Seq(S), \A i \in DOMAIN s : Complete(s[i]), NEW run, Complete(run)
    PROVE  (\E T : Append(s, run) \in Seq(T)) /\ \A i \in DOMAIN Append(s, run) : Complete(Append(s, run)[i])
<1> DEFINE T == S \cup {run}
           n == Len(s)
<1>1. n \in Nat /\ DOMAIN s = 1..n /\ s \in Seq(T)
  BY LenProperties, SeqMonotonic
<1>2. /\ Append(s, run) \in Seq(T) /\ DOMAIN Append(s, run) = 1..(n + 1)
      /\ \A i \in 1..n : Append(s, run)[i] = s[i]
      /\ Append(s, run)[n + 1] = run
  BY <1>1
<1>3. \A i \in 1..(n + 1) : i \in 1..n \/ i = n + 1
  BY <1>1
<1> QED BY <1>1, <1>2, <1>3

LEMMA TakenValid ==
    ASSUME NEW req, ValidRequest(req), NEW s \in DOMAIN req.slots,
           Least(req.slots[s].seats, req.slots[s].hours, req.slots[s].rooms) > 0
    PROVE  ValidRequest([req EXCEPT !.slots[s].seats = @ - 1, !.slots[s].hours = @ - 1,
                                    !.slots[s].rooms = @ - 1])
<1> DEFINE slot == req.slots[s]
           less == [slot EXCEPT !.seats = @ - 1, !.hours = @ - 1, !.rooms = @ - 1]
           slots == [req.slots EXCEPT ![s] = less]
           new == [req EXCEPT !.slots = slots]
           D == DOMAIN req.slots
           R == [route: Int, day: Int, seats: Nat, hours: Nat, rooms: Nat]
<1>1. [req EXCEPT !.slots[s].seats = @ - 1, !.slots[s].hours = @ - 1, !.slots[s].rooms = @ - 1] = new
  BY DEF ValidRequest, SlotsIn
<1>2. slot.seats \in Nat /\ slot.hours \in Nat /\ slot.rooms \in Nat
  BY SlotIs
<1>3. slot.seats > 0 /\ slot.hours > 0 /\ slot.rooms > 0
  BY <1>2, LeastIs
<1>4. req.slots \in [D -> R] /\ slot \in R
  BY DEF ValidRequest, SlotsIn
<1> HIDE DEF slot
<1>5. less \in R
  <2> DEFINE seats == slot.seats - 1
             hours == slot.hours - 1
             rooms == slot.rooms - 1
  <2>1. seats \in Nat /\ hours \in Nat /\ rooms \in Nat
    BY <1>2, <1>3
  <2>2. less = [[[slot EXCEPT !.seats = seats] EXCEPT !.hours = hours] EXCEPT !.rooms = rooms]
    BY <1>4
  <2> HIDE DEF seats, hours, rooms
  <2> QED BY <1>4, <2>1, <2>2
<1> HIDE DEF less
<1>6. slots \in [D -> R] /\ DOMAIN slots = D
  BY <1>4, <1>5
<1> HIDE DEF slots
<1>7. /\ DOMAIN new = DOMAIN req /\ new.slots = slots
      /\ new.demands = req.demands /\ new.policy = req.policy
  BY DEF ValidRequest
<1> HIDE DEF new
<1>8. ValidRequest(new)
  BY <1>6, <1>7 DEF ValidRequest, SlotsIn
<1> QED BY <1>1, <1>8

\* A run recorded for the current request is complete for it, selecting a plan keeps that,
\* and a booking changes the request but no run.
THEOREM RunsStayComplete == Spec => []RunsComplete
<1>1. Init => RunsComplete
  <2> SUFFICES ASSUME Init PROVE RunsComplete
    OBVIOUS
  <2>1. <<>> \in Seq({}) /\ DOMAIN <<>> = {}
    OBVIOUS
  <2> QED BY <2>1, RequestsAssumption DEF Init, RunsComplete
<1>2. RunsComplete /\ [Next]_vars => RunsComplete'
  <2> SUFFICES ASSUME RunsComplete, [Next]_vars PROVE RunsComplete'
    OBVIOUS
  <2>1. CASE Record
    <3>1. Complete(RecordedRun(request))
      BY RecordedComplete DEF RunsComplete
    <3>2. runs' = Append(runs, RecordedRun(request)) /\ request' = request
      BY <2>1 DEF Record
    <3> QED BY <3>1, <3>2, AppendComplete DEF RunsComplete
  <2>2. ASSUME NEW i \in DOMAIN runs, NEW variant \in DOMAIN PlansOf(runs[i]), RecordSelected(i, variant)
        PROVE  RunsComplete'
    <3>1. Complete(SelectedRun(request, runs[i], variant))
      BY <2>2, SelectedComplete DEF RunsComplete, RecordSelected, SelectedPlanValid
    <3>2. runs' = Append(runs, SelectedRun(request, runs[i], variant)) /\ request' = request
      BY <2>2 DEF RecordSelected
    <3> QED BY <3>1, <3>2, AppendComplete DEF RunsComplete
  <2>3. ASSUME NEW s \in DOMAIN request.slots, CapacityTaken(s) PROVE RunsComplete'
    <3>1. ValidRequest(request')
      BY <2>3, TakenValid DEF RunsComplete, CapacityTaken
    <3> QED BY <2>3, <3>1 DEF RunsComplete, CapacityTaken
  <2>4. CASE UNCHANGED vars
    BY <2>4 DEF vars, RunsComplete
  <2> QED BY <2>1, <2>2, <2>3, <2>4 DEF Next
<1> QED BY <1>1, <1>2, PTL DEF Spec

-----------------------------------------------------------------------------
(* The best plan, feasibility and the alternatives                         *)

\* What the numbering of a run's plans says of the set of its allocations.
LEMMA PlansAre ==
    ASSUME NEW run, Complete(run)
    PROVE  /\ ValidRequest(run.input)
           /\ \A v \in DOMAIN PlansOf(run) :
                 /\ PlansOf(run)[v].alloc \in AllOf(run.input)
                 /\ PlansOf(run)[v] = Render(run.input, PlansOf(run)[v].alloc)
           /\ \E v \in DOMAIN PlansOf(run) : PlansOf(run)[v].alloc = BestOf(run.input)
           /\ {PlansOf(run)[v].alloc : v \in DOMAIN PlansOf(run)} = AllOf(run.input)
           /\ Len(PlansOf(run)) \in Nat /\ DOMAIN PlansOf(run) = 1..Len(PlansOf(run))
           /\ Cardinality(AllOf(run.input)) = Len(PlansOf(run))
<1> DEFINE req == run.input
           plans == PlansOf(run)
           n == Len(plans)
           P == {Render(req, alloc) : alloc \in AllOf(req)}
           A == AllOf(req)
<1>1. /\ ValidRequest(req) /\ plans \in Seq(P)
      /\ \A alloc \in A : \E v \in DOMAIN plans : plans[v].alloc = alloc
      /\ \A v, w \in DOMAIN plans : plans[v].alloc = plans[w].alloc => v = w
  BY DEF Complete
<1> HIDE DEF plans, P, A, req
<1>2. n \in Nat /\ DOMAIN plans = 1..n /\ \A v \in 1..n : plans[v] \in P
  BY <1>1, LenProperties, ElementOfSeq
<1>3. \A v \in 1..n : plans[v].alloc \in A /\ plans[v] = Render(req, plans[v].alloc)
  <2> TAKE v \in 1..n
  <2>1. PICK alloc \in A : plans[v] = Render(req, alloc)
    BY <1>2 DEF P, A
  <2>2. Render(req, alloc).alloc = alloc
    BY DEF Render
  <2> QED BY <2>1, <2>2
<1>4. BestOf(req) \in A
  BY DEF A, AllOf
<1>5. \E v \in DOMAIN plans : plans[v].alloc = BestOf(req)
  BY <1>1, <1>4
<1>6. {plans[v].alloc : v \in DOMAIN plans} = A
  BY <1>1, <1>2, <1>3
<1>7. Cardinality(A) = n
  <2> DEFINE f == [v \in 1..n |-> plans[v].alloc]
  <2>1. /\ f \in [1..n -> A] /\ (\A v, w \in 1..n : f[v] = f[w] => v = w)
        /\ \A t \in A : \E v \in 1..n : f[v] = t
    BY <1>1, <1>2, <1>3
  <2> HIDE DEF f
  <2>2. IsFiniteSet(1..n) /\ Cardinality(1..n) = n
    BY <1>2, FS_Interval
  <2> QED BY <2>1, <2>2, ImageSize
<1> QED BY <1>1, <1>2, <1>3, <1>5, <1>6, <1>7 DEF plans, req, A

LEMMA AllFeasible ==
    ASSUME NEW req, ValidRequest(req)
    PROVE  /\ AllOf(req) \subseteq EquallyEntitled(req)
           /\ AllOf(req) \subseteq FeasibleAssignments(req)
           /\ AllOf(req) \subseteq Assignments(req)
  BY AlternativesAre DEF AllOf, EquallyEntitled, FeasibleAssignments

\* For every set of valid requests: among a run's plans is one that no feasible assignment of
\* the stored input ranks before.
THEOREM BestRecorded == Spec => []BestPlanRecorded
<1>1. RunsComplete => BestPlanRecorded
  <2> SUFFICES ASSUME RunsComplete, NEW i \in DOMAIN runs
               PROVE  \E v \in DOMAIN PlansOf(runs[i]) :
                         \A alloc \in FeasibleAssignments(runs[i].input) :
                             ~RankLess(runs[i].input, alloc, PlansOf(runs[i])[v].alloc)
    BY DEF BestPlanRecorded
  <2>1. Complete(runs[i])
    BY DEF RunsComplete
  <2>2. ValidRequest(runs[i].input)
    BY <2>1, PlansAre
  <2>3. PICK v \in DOMAIN PlansOf(runs[i]) : PlansOf(runs[i])[v].alloc = BestOf(runs[i].input)
    BY <2>1, PlansAre
  <2>4. \A alloc \in FeasibleAssignments(runs[i].input) :
            ~RankLess(runs[i].input, alloc, BestOf(runs[i].input))
    BY <2>2, PrimaryIsBest DEF BestOf
  <2> QED BY <2>3, <2>4
<1> QED BY <1>1, RunsStayComplete, PTL

\* For every set of valid requests: every plan of every run, a selected one included, keeps the
\* hard constraints of the input stored beside it.
THEOREM PlansFeasible == Spec => []PlansFeasibleForInput
<1>1. RunsComplete => PlansFeasibleForInput
  <2> SUFFICES ASSUME RunsComplete, NEW i \in DOMAIN runs, NEW v \in DOMAIN PlansOf(runs[i])
               PROVE  PlansOf(runs[i])[v].alloc \in FeasibleAssignments(runs[i].input)
    BY DEF PlansFeasibleForInput
  <2>1. Complete(runs[i])
    BY DEF RunsComplete
  <2>2. ValidRequest(runs[i].input) /\ PlansOf(runs[i])[v].alloc \in AllOf(runs[i].input)
    BY <2>1, PlansAre
  <2> QED BY <2>2, AllFeasible
<1> QED BY <1>1, RunsStayComplete, PTL

\* For every set of valid requests and every limit: the plans of a run are distinct, meet equally
\* many mandatory demands, and are as many as there can be within the limit.
THEOREM EntitlementsPreserved == Spec => []AlternativesPreserveEntitlements
<1>1. RunsComplete => AlternativesPreserveEntitlements
  <2> SUFFICES ASSUME RunsComplete, NEW i \in DOMAIN runs
               PROVE  LET req    == runs[i].input
                          chosen == {PlansOf(runs[i])[v].alloc : v \in DOMAIN PlansOf(runs[i])}
                          met    == {MandatoryMet(req, alloc) : alloc \in chosen}
                          equal  == {alloc \in FeasibleAssignments(req) : MandatoryMet(req, alloc) \in met}
                      IN  /\ Cardinality(met) = 1
                          /\ Cardinality(chosen) = Len(PlansOf(runs[i]))
                          /\ Len(PlansOf(runs[i])) = Min({Cardinality(equal), 1 + req.policy.altLimit})
    BY DEF AlternativesPreserveEntitlements
  <2> DEFINE req    == runs[i].input
             chosen == {PlansOf(runs[i])[v].alloc : v \in DOMAIN PlansOf(runs[i])}
             met    == {MandatoryMet(req, alloc) : alloc \in chosen}
             equal  == {alloc \in FeasibleAssignments(req) : MandatoryMet(req, alloc) \in met}
             m      == MandatoryMet(req, BestOf(req))
  <2>1. Complete(runs[i])
    BY DEF RunsComplete
  <2>2. ValidRequest(req) /\ chosen = AllOf(req) /\ Cardinality(AllOf(req)) = Len(PlansOf(runs[i]))
    BY <2>1, PlansAre
  <2> HIDE DEF chosen, req
  <2>3. \A alloc \in AllOf(req) : MandatoryMet(req, alloc) = m
    BY <2>2, AllFeasible DEF EquallyEntitled
  <2>4. met = {m}
    BY <2>2, <2>3 DEF AllOf
  <2>5. equal = EquallyEntitled(req)
    BY <2>4 DEF EquallyEntitled
  <2>6. Cardinality(met) = 1
    BY <2>4, FS_Singleton
  <2>7. Cardinality(AllOf(req)) = Cardinality(KeptOf(req)) + 1
    <3>1. BestOf(req) \notin KeptOf(req) /\ IsFiniteSet(KeptOf(req)) /\ AllOf(req) = KeptOf(req) \cup {BestOf(req)}
      BY <2>2, AlternativesAre, FS_Subset DEF AllOf
    <3> QED BY <3>1, FS_AddElement
  <2>8. Cardinality(KeptOf(req)) + 1 = Min({Cardinality(EquallyEntitled(req)), 1 + req.policy.altLimit})
    BY <2>2, AlternativesAre
  <2> QED BY <2>2, <2>5, <2>6, <2>7, <2>8 DEF chosen, req
<1> QED BY <1>1, RunsStayComplete, PTL

-----------------------------------------------------------------------------
(* The reasons                                                             *)

\* A plan that serves one demand more ranks before the plan it extends.
LEMMA MoreRanksBefore ==
    ASSUME NEW req, ValidRequest(req), NEW a \in Assignments(req),
           NEW d \in DOMAIN req.demands, d \notin DOMAIN a, NEW s \in DOMAIN req.slots
    PROVE  RankLess(req, Place(a, d, s), a)
<1> DEFINE b == Place(a, d, s)
           M == {e \in DOMAIN a : req.demands[e].mandatory}
           MB == {e \in DOMAIN b : req.demands[e].mandatory}
<1>1. b \in Assignments(req) /\ DOMAIN b = DOMAIN a \cup {d}
  BY PlacedOne, PlacedServed
<1>2. IsFiniteSet(DOMAIN a)
  <2>1. DOMAIN a \subseteq DOMAIN req.demands
    BY AssignmentIs
  <2> QED BY <2>1, FS_Subset DEF ValidRequest
<1>3. Cardinality(DOMAIN b) = Cardinality(DOMAIN a) + 1
  BY <1>1, <1>2, FS_AddElement
<1>4. MandatoryMet(req, a) = Cardinality(M) /\ MandatoryMet(req, b) = Cardinality(MB)
  BY DEF MandatoryMet
<1>5. IsFiniteSet(MB) /\ M \subseteq MB
  <2>1. IsFiniteSet(DOMAIN b)
    BY <1>1, <1>2, FS_AddElement
  <2> QED BY <1>1, <2>1, FS_Subset
<1> HIDE DEF b, M, MB
<1>6. Cardinality(M) <= Cardinality(MB)
  BY <1>5, FS_Subset
<1> DEFINE m == MandatoryMet(req, a)
           c == Cardinality(DOMAIN a)
           w == Wait(req, a)
           mb == MandatoryMet(req, b)
           cb == Cardinality(DOMAIN b)
           wb == Wait(req, b)
<1>7. m \in Nat /\ c \in Nat /\ w \in Int /\ mb \in Nat /\ cb \in Nat /\ wb \in Int
  BY <1>1, ScoreIs
<1>8. Score(req, a) = <<-m, -c, w>> /\ Score(req, b) = <<-mb, -cb, wb>>
  BY DEF Score
<1>9. m <= mb /\ cb = c + 1
  BY <1>3, <1>4, <1>6
<1> HIDE DEF m, c, w, mb, cb, wb
<1> DEFINE x == -mb
           y == -cb
           u == -m
           v == -c
<1>10. /\ x \in Int /\ y \in Int /\ u \in Int /\ v \in Int
       /\ x < u \/ (x = u /\ y < v)
  BY <1>7, <1>9
<1> HIDE DEF x, y, u, v
<1>11. LexLess(<<x, y, wb>>, <<u, v, w>>)
  BY <1>7, <1>10, LexTriple, SMTT(30)
<1>12. LexLess(Score(req, b), Score(req, a))
  BY <1>8, <1>11 DEF x, y, u, v
<1> QED BY <1>12 DEF RankLess, b

\* In a feasible plan no group is larger than the capacity it uses.
LEMMA GroupFits ==
    ASSUME NEW req, ValidRequest(req), NEW a \in Assignments(req), Feasible(req, a), NEW s \in DOMAIN req.slots
    PROVE  /\ Cardinality(Members(a, s)) \in Nat
           /\ Cardinality(Members(a, s)) <= req.slots[s].seats
           /\ Cardinality(Members(a, s)) <= req.slots[s].rooms
           /\ Cardinality(Members(a, s)) <= req.policy.maxGroup
<1>1. Cardinality(Members(a, s)) \in Nat
  BY MembersOf
<1>2. Cardinality(Members(a, s)) <= Least(req.slots[s].seats, req.slots[s].rooms, req.policy.maxGroup)
  BY DEF Feasible, SlotKept
<1> DEFINE n == Cardinality(Members(a, s))
           l == Least(req.slots[s].seats, req.slots[s].rooms, req.policy.maxGroup)
<1>3. req.slots[s].seats \in Nat /\ req.slots[s].rooms \in Nat /\ req.policy.maxGroup \in Nat
  BY SlotIs
<1>4. /\ l \in {req.slots[s].seats, req.slots[s].rooms, req.policy.maxGroup}
      /\ l <= req.slots[s].seats /\ l <= req.slots[s].rooms /\ l <= req.policy.maxGroup
  BY <1>3, LeastIs
<1> HIDE DEF n, l
<1>5. n \in Nat /\ n <= l
  BY <1>1, <1>2 DEF n, l
<1>6. n <= req.slots[s].seats /\ n <= req.slots[s].rooms /\ n <= req.policy.maxGroup
  BY <1>3, <1>4, <1>5
<1> QED BY <1>5, <1>6 DEF n

\* Where nothing stands in the way of a demand, it fits.
LEMMA NoObstacleFits ==
    ASSUME NEW req, ValidRequest(req), NEW a \in Assignments(req),
           NEW d \in DOMAIN req.demands, d \notin DOMAIN a, NEW s \in DOMAIN req.slots,
           Obstacle(req, a, d, s) = "none", Timely(req, d, s), req.slots[s].route \in ApprovedRoutes(req, d)
    PROVE  s \in Fitting(req, a, d)
<1> DEFINE group == Members(a, s)
           n == Cardinality(group)
           seats == req.slots[s].seats
           rooms == req.slots[s].rooms
           hours == req.slots[s].hours
           large == req.policy.maxGroup
           effort == req.demands[d].effort
           total == EffortOf(req, group)
<1>1. /\ \A e \in group : BarriersCompatible(req, d, e)
      /\ ~(n >= large) /\ ~(n >= Min({seats, rooms})) /\ ~(total + effort > hours)
  BY DEF Obstacle
<1>2. n \in Nat /\ seats \in Nat /\ rooms \in Nat /\ hours \in Nat /\ large \in Nat
  BY MembersOf, SlotIs
<1>3. total \in Nat /\ effort \in Nat \ {0}
  BY MembersOf, Efforts DEF ValidRequest, ValidDemand
<1>4. Min({seats, rooms}) = IF seats <= rooms THEN seats ELSE rooms
  BY <1>2, LesserIs
<1>5. Least(seats, rooms, large) \in {seats, rooms, large}
  BY <1>2, LeastIs
<1>6. Least(seats, hours, rooms) \in {seats, hours, rooms}
  BY <1>2, LeastIs
<1>7. n < Least(seats, rooms, large) /\ total + effort <= hours
  <2> HIDE DEF n, seats, rooms, large, hours, total, effort
  <2> QED BY <1>1, <1>2, <1>3, <1>4, <1>5
<1>8. Least(seats, hours, rooms) > 0
  <2> HIDE DEF n, seats, rooms, large, hours, total, effort
  <2>1. n < seats /\ n < rooms /\ hours > 0
    BY <1>1, <1>2, <1>3, <1>4
  <2> QED BY <1>2, <1>6, <2>1
<1>9. ChoiceFits(req, a, d, s)
  BY <1>1, <1>7 DEF ChoiceFits
<1> QED BY <1>8, <1>9 DEF Fitting, CandidateSet

\* An obstacle is a constraint that binds on the slot.
LEMMA ObstacleHolds ==
    ASSUME NEW req, ValidRequest(req), NEW a \in Assignments(req), Feasible(req, a),
           NEW d \in DOMAIN req.demands, d \notin DOMAIN a,
           NEW s \in TimelySlots(req, d), Obstacle(req, a, d, s) # "none"
    PROVE  ReasonHolds(req, a, d, Obstacle(req, a, d, s))
<1> DEFINE group == Members(a, s)
           n == Cardinality(group)
           seats == req.slots[s].seats
           rooms == req.slots[s].rooms
           hours == req.slots[s].hours
           large == req.policy.maxGroup
           total == EffortOf(req, group)
           effort == req.demands[d].effort
           reason == Obstacle(req, a, d, s)
<1>1. s \in DOMAIN req.slots
  BY DEF TimelySlots, RouteSlots
<1>2. n \in Nat /\ n <= seats /\ n <= rooms /\ n <= large
  BY <1>1, GroupFits
<1>3. seats \in Nat /\ rooms \in Nat /\ hours \in Nat /\ large \in Nat
  BY <1>1, SlotIs
<1>4. reason = IF \E e \in group : ~BarriersCompatible(req, d, e) THEN "barrier_incompatible"
               ELSE IF n >= large THEN "group_limit"
               ELSE IF n >= Min({seats, rooms}) THEN "capacity_exhausted"
               ELSE IF total + effort > hours THEN "adviser_hours" ELSE "none"
  BY DEF Obstacle
<1>5. CASE \E e \in group : ~BarriersCompatible(req, d, e)
  <2>1. reason = "barrier_incompatible"
    BY <1>4, <1>5
  <2>2. ReasonHolds(req, a, d, "barrier_incompatible")
    BY <1>5 DEF ReasonHolds
  <2> QED BY <2>1, <2>2
<1> HIDE DEF reason
<1>6. CASE (\A e \in group : BarriersCompatible(req, d, e)) /\ n >= large
  <2>1. reason = "group_limit"
    BY <1>4, <1>6
  <2>2. n = large
    BY <1>2, <1>3, <1>6
  <2>3. ReasonHolds(req, a, d, "group_limit")
    BY <2>2 DEF ReasonHolds
  <2> QED BY <2>1, <2>3 DEF reason
<1>7. CASE (\A e \in group : BarriersCompatible(req, d, e)) /\ ~(n >= large) /\ n >= Min({seats, rooms})
  <2>1. reason = "capacity_exhausted"
    BY <1>4, <1>7
  <2>2. Min({seats, rooms}) = IF seats <= rooms THEN seats ELSE rooms
    BY <1>3, LesserIs
  <2>3. n \in {seats, rooms}
    BY <1>2, <1>3, <1>7, <2>2
  <2>4. ReasonHolds(req, a, d, "capacity_exhausted")
    BY <2>3 DEF ReasonHolds
  <2> QED BY <2>1, <2>4 DEF reason
<1>8. CASE /\ \A e \in group : BarriersCompatible(req, d, e)
           /\ ~(n >= large) /\ ~(n >= Min({seats, rooms})) /\ total + effort > hours
  <2>1. reason = "adviser_hours"
    BY <1>4, <1>8
  <2>2. EffortOf(req, group \cup {d}) = total + effort
    <3>1. group \in SUBSET DOMAIN req.demands /\ d \in DOMAIN req.demands \ group
      BY MembersOf DEF Members
    <3> QED BY <3>1, Efforts
  <2>3. ReasonHolds(req, a, d, "adviser_hours")
    BY <1>8, <2>2 DEF ReasonHolds
  <2> QED BY <2>1, <2>3 DEF reason
<1>9. reason # "none"
  BY DEF reason
<1> QED BY <1>4, <1>5, <1>6, <1>7, <1>8, <1>9

\* The reason the best plan gives for a demand it leaves unmet is true of it.
LEMMA ReasonIsTrue ==
    ASSUME NEW req, ValidRequest(req), NEW a, a = BestOf(req),
           NEW d \in DOMAIN req.demands, d \notin DOMAIN a,
           ApprovedRoutes(req, d) \in {{}, req.demands[d].routes}
    PROVE  ReasonHolds(req, a, d, UnmetReason(req, a, d))
<1> DEFINE reason == UnmetReason(req, a, d)
           Zero == \A s \in RouteSlots(req, d) :
                       Least(req.slots[s].seats, req.slots[s].hours, req.slots[s].rooms) = 0
           timely == TimelySlots(req, d)
           blocked == {s \in timely : Obstacle(req, a, d, s) # "none"}
<1>1. /\ a \in Assignments(req) /\ Feasible(req, a)
      /\ \A alloc \in FeasibleAssignments(req) : ~RankLess(req, alloc, a)
  BY PrimaryIsBest DEF BestOf, FeasibleAssignments
<1>2. timely \subseteq DOMAIN req.slots
  BY DEF TimelySlots, RouteSlots
<1>3. CASE ApprovedRoutes(req, d) = {}
  <2>1. reason = "unapproved_intervention_type"
    BY <1>3 DEF UnmetReason
  <2>2. ReasonHolds(req, a, d, "unapproved_intervention_type")
    BY <1>3 DEF ReasonHolds
  <2> QED BY <2>1, <2>2
<1>4. CASE ApprovedRoutes(req, d) # {} /\ Zero
  <2>1. reason = "zero_capacity"
    BY <1>4 DEF UnmetReason
  <2>2. \A s \in RouteSlots(req, d) : 0 \in {req.slots[s].seats, req.slots[s].hours, req.slots[s].rooms}
    <3> TAKE s \in RouteSlots(req, d)
    <3>1. s \in DOMAIN req.slots
      BY DEF RouteSlots
    <3>2. Least(req.slots[s].seats, req.slots[s].hours, req.slots[s].rooms)
              \in {req.slots[s].seats, req.slots[s].hours, req.slots[s].rooms}
      BY <3>1, SlotIs, LeastIs
    <3> QED BY <1>4, <3>2
  <2>3. ReasonHolds(req, a, d, "zero_capacity")
    BY <2>2 DEF ReasonHolds
  <2> QED BY <2>1, <2>3
<1>5. CASE ApprovedRoutes(req, d) # {} /\ ~Zero
  <2>1. reason = IF timely = {} THEN "deadline_elapsed"
                 ELSE IF blocked = {} THEN "capacity_exhausted"
                 ELSE Obstacle(req, a, d, Min(blocked))
    BY <1>5 DEF UnmetReason
  <2> HIDE DEF reason
  <2>2. CASE timely = {}
    <3>1. ReasonHolds(req, a, d, "deadline_elapsed")
      BY <2>2 DEF ReasonHolds
    <3> QED BY <2>1, <2>2, <3>1 DEF reason
  <2>3. CASE timely # {}
    <3>1. blocked # {}
      <4> SUFFICES ASSUME blocked = {} PROVE FALSE
        OBVIOUS
      <4>1. PICK s \in timely : TRUE
        BY <2>3
      <4>2. s \in DOMAIN req.slots /\ Obstacle(req, a, d, s) = "none" /\ Timely(req, d, s)
            /\ req.slots[s].route \in ApprovedRoutes(req, d)
        BY <1>2, <1>5, <4>1 DEF TimelySlots, RouteSlots
      <4>3. s \in Fitting(req, a, d)
        BY <1>1, <4>2, NoObstacleFits
      <4>4. Feasible(req, Place(a, d, s)) /\ Place(a, d, s) \in Assignments(req)
        BY <1>1, <4>2, <4>3, FitsOnly, PlacedOne
      <4>5. RankLess(req, Place(a, d, s), a)
        BY <1>1, <4>2, MoreRanksBefore
      <4> QED BY <1>1, <4>4, <4>5 DEF FeasibleAssignments
    <3>2. Min(blocked) \in blocked
      <4>1. blocked \in SUBSET DOMAIN req.slots
        BY <1>2
      <4>2. IsFiniteSet(DOMAIN req.slots) /\ DOMAIN req.slots \subseteq Int
        BY DEF ValidRequest
      <4> HIDE DEF blocked
      <4>3. IsFiniteSet(blocked) /\ blocked \in SUBSET Int
        BY <4>1, <4>2, FS_Subset
      <4> QED BY <3>1, <4>3, LeastIn
    <3>3. reason = Obstacle(req, a, d, Min(blocked))
      BY <2>1, <2>3, <3>1
    <3>4. ReasonHolds(req, a, d, Obstacle(req, a, d, Min(blocked)))
      BY <1>1, <3>2, ObstacleHolds
    <3> QED BY <3>3, <3>4 DEF reason
  <2> QED BY <2>2, <2>3
<1> QED BY <1>3, <1>4, <1>5

\* For every set of valid requests: the plan no other plan of the run ranks before serves or
\* explains every demand, and the reason names a constraint that does bind it.
THEOREM ReasonsHold == Spec => []UnmetExplained
<1>1. RunsComplete => UnmetExplained
  <2> SUFFICES ASSUME RunsComplete, NEW i \in DOMAIN runs,
                      \A v \in DOMAIN PlansOf(runs[i]) :
                          ~RankLess(runs[i].input, PlansOf(runs[i])[v].alloc, runs[i].primary.alloc)
               PROVE  LET req  == runs[i].input
                          plan == runs[i].primary
                      IN  /\ DOMAIN plan.unmet = DOMAIN req.demands \ DOMAIN plan.alloc
                          /\ \A d \in DOMAIN plan.unmet :
                                ApprovedRoutes(req, d) \in {{}, req.demands[d].routes}
                                  => ReasonHolds(req, plan.alloc, d, plan.unmet[d])
    BY DEF UnmetExplained
  <2> DEFINE req  == runs[i].input
             plan == runs[i].primary
             a    == plan.alloc
  <2>1. Complete(runs[i])
    BY DEF RunsComplete
  <2>2. ValidRequest(req) /\ \E v \in DOMAIN PlansOf(runs[i]) : PlansOf(runs[i])[v].alloc = BestOf(req)
    BY <2>1, PlansAre
  <2>3. PlansOf(runs[i])[1] = plan /\ 1 \in DOMAIN PlansOf(runs[i])
    <3>1. /\ DOMAIN PlansOf(runs[i]) = 1..Len(PlansOf(runs[i])) /\ Len(PlansOf(runs[i])) \in Nat
          /\ DOMAIN PlansOf(runs[i]) # {}
      BY <2>1, <2>2, PlansAre
    <3> QED BY <2>1, <3>1 DEF Complete
  <2>4. plan = Render(req, a) /\ a \in AllOf(req)
    BY <2>1, <2>3, PlansAre
  <2>5. ~RankLess(req, BestOf(req), a)
    BY <2>2
  <2> HIDE DEF req, plan
  <2>6. a = BestOf(req)
    <3>1. a \in FeasibleAssignments(req) /\ a \in Assignments(req) /\ BestOf(req) \in Assignments(req)
      BY <2>2, <2>4, AllFeasible DEF AllOf
    <3>2. ~RankLess(req, a, BestOf(req))
      BY <2>2, <3>1, PrimaryIsBest DEF BestOf
    <3> QED BY <2>2, <2>5, <3>1, <3>2, RankOrders
  <2> HIDE DEF a
  <2>7. plan.unmet = [d \in DOMAIN req.demands \ DOMAIN a |-> UnmetReason(req, a, d)]
    BY <2>4 DEF Render
  <2>8. DOMAIN plan.unmet = DOMAIN req.demands \ DOMAIN a
        /\ \A d \in DOMAIN plan.unmet : plan.unmet[d] = UnmetReason(req, a, d)
    BY <2>7
  <2>9. \A d \in DOMAIN plan.unmet :
            ApprovedRoutes(req, d) \in {{}, req.demands[d].routes} => ReasonHolds(req, a, d, plan.unmet[d])
    BY <2>2, <2>6, <2>8, ReasonIsTrue
  <2> QED BY <2>8, <2>9 DEF req, plan, a
<1> QED BY <1>1, RunsStayComplete, PTL
=============================================================================
