----------------------------- MODULE DemandBoard -----------------------------
(***************************************************************************)
(* What the decision workbench promises about every demand, without runs,  *)
(* proposals or plans: a demand is waiting, proposed or active; only its   *)
(* own approval makes it active, only its own rejection or amendment ends  *)
(* that; a decision may move other demands between waiting and proposed    *)
(* (the plan is computed afresh) and never in or out of active.            *)
(***************************************************************************)
EXTENDS Sequences

CONSTANT Demands

VARIABLES board,        \* board[d]: "waiting", "proposed" or "active"
          log           \* what was decided: <<demand, action>>, append-only

vars == <<board, log>>

Places == {"waiting", "proposed", "active"}

Init == board \in [Demands -> {"waiting", "proposed"}] /\ log = <<>>

\* The demand decided on moves as the action says; every other one that is not active is
\* placed again by the new plan, and an active one stays.
Decided(d, action, from, to) ==
    /\ board[d] \in from
    /\ board' \in [Demands -> Places]
    /\ board'[d] = to
    /\ \A e \in Demands \ {d} : (board[e] = "active") <=> (board'[e] = "active")
    /\ log' = Append(log, <<d, action>>)

Approve(d) == Decided(d, "approve", {"proposed"}, "active")
Reject(d)  == Decided(d, "reject", {"proposed", "active"}, "waiting")
Amend(d)   == Decided(d, "amend", {"proposed", "active"}, "proposed")

Next == \E d \in Demands : Approve(d) \/ Reject(d) \/ Amend(d)

Spec == Init /\ [][Next]_vars
=============================================================================
