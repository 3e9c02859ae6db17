----------------------------- MODULE MCWorkbench -----------------------------
(* Small instances of Workbench: up to three demands of two learners.       *)
EXTENDS Workbench

Demand(mandatory, barrier, routes, deadline, effort) ==
    [mandatory |-> mandatory, barrier |-> barrier, routes |-> routes,
     requested |-> 1, deadline |-> deadline, effort |-> effort]

Slot(route, day, seats, hours, rooms) ==
    [route |-> route, day |-> day, seats |-> seats, hours |-> hours, rooms |-> rooms]

OpenPolicy == [approved |-> {1, 2}, maxGroup |-> 2, compatible |-> {{"b1", "b2"}}, altLimit |-> 1]

MCCaseOf == <<"learner1", "learner2", "learner2">>
MCPermittedRoutes == <<{1, 2}, {1, 2}, {1}>>

\* One-to-one reviews: three demands, fewer places, one amendment target each.
Scarce ==
    [demands |-> <<Demand(TRUE, "b1", {1, 2}, 2, 1), Demand(FALSE, "b1", {1}, 2, 1),
                   Demand(FALSE, "b1", {1}, 2, 1)>>,
     slots |-> <<Slot(1, 1, 1, 1, 1), Slot(1, 2, 1, 1, 1)>>,
     policy |-> OpenPolicy]

\* A shared session beside an individual one.
Shared ==
    [demands |-> <<Demand(FALSE, "b1", {1, 2}, 2, 1), Demand(FALSE, "b2", {1}, 1, 1)>>,
     slots |-> <<Slot(1, 1, 2, 2, 2), Slot(2, 2, 1, 2, 1)>>,
     policy |-> OpenPolicy]

MCRequests == {Scarce, Shared}

\* Two learners who may share a room but not a group.
LimitedGroup ==
    [demands |-> <<Demand(FALSE, "b1", {1}, 2, 1), Demand(FALSE, "b1", {1}, 2, 1)>>,
     slots |-> <<Slot(1, 1, 2, 2, 2), Slot(1, 2, 1, 1, 1)>>,
     policy |-> [OpenPolicy EXCEPT !.maxGroup = 1]]

LimitRequests == {LimitedGroup}

\* Browser sessions are interchangeable.
Sessions == Permutations(Advisers)
=============================================================================
