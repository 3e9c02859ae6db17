---------------------------- MODULE MCPlannerRuns ----------------------------
(* Small requests for PlannerRuns: three demands over three slots.          *)
EXTENDS PlannerRuns

Demand(mandatory, barrier, routes, requested, deadline, effort) ==
    [mandatory |-> mandatory, barrier |-> barrier, routes |-> routes,
     requested |-> requested, deadline |-> deadline, effort |-> effort]

\* Urgent, patient, heavy and badly placed demands; route 3 is never approved.
Urgent     == Demand(FALSE, "b1", {1}, 1, 1, 1)
Flexible   == Demand(FALSE, "b1", {1, 2}, 1, 2, 1)
Entitled   == Demand(TRUE, "b2", {1, 2}, 1, 2, 2)
Heavy      == Demand(FALSE, "b2", {1}, 1, 2, 2)
Late       == Demand(FALSE, "b1", {2}, 1, 1, 1)
Unapproved == Demand(FALSE, "b1", {3}, 1, 2, 1)

Slot(route, day, seats, hours, rooms) ==
    [route |-> route, day |-> day, seats |-> seats, hours |-> hours, rooms |-> rooms]

SlotSets ==
    { <<Slot(1, 1, 2, 2, 2), Slot(1, 2, 1, 1, 1), Slot(2, 2, 1, 2, 2)>>,
      <<Slot(1, 1, 2, 3, 1), Slot(1, 2, 2, 3, 2), Slot(2, 2, 0, 1, 1)>>,
      <<Slot(1, 1, 2, 3, 3), Slot(1, 2, 0, 0, 0), Slot(2, 2, 1, 1, 1)>> }

Policy(approved, maxGroup, compatible, altLimit) ==
    [approved |-> approved, maxGroup |-> maxGroup, compatible |-> compatible, altLimit |-> altLimit]

Policies ==
    { Policy({1, 2}, 2, {{"b1", "b2"}}, 3),
      Policy({1, 2}, 1, {}, 2),
      Policy({1}, 2, {}, 8) }

MCRequests ==
    {[demands |-> <<a, b, c>>, slots |-> slots, policy |-> policy] :
        a \in {Urgent, Heavy, Entitled}, b \in {Flexible, Heavy, Entitled}, c \in {Urgent, Entitled, Late, Unapproved},
        slots \in SlotSets, policy \in Policies}
=============================================================================
