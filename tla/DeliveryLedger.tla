--------------------------- MODULE DeliveryLedger ---------------------------
(***************************************************************************)
(* What the engineering loop promises of its private integration branch    *)
(* (docs/loop-engineering.md, "Isolation and evidence"): a ledger that     *)
(* only grows, one reviewed commit at a time, each built on the whole      *)
(* ledger before it, at most one per task, dependencies first.             *)
(***************************************************************************)
EXTENDS SequencesExt

CONSTANTS Tasks, Deps, Trees, None

VARIABLES ledger,    \* the commits delivered so far
          reviewed   \* for each task, the commit last verified and accepted

vars == <<ledger, reviewed>>

Delivered == {ledger[i].task : i \in DOMAIN ledger}

Init == /\ ledger = <<>>
        /\ reviewed = [t \in Tasks |-> None]

\* A candidate for t, on top of the ledger, passes verification and is accepted.
Review(t) ==
  /\ t \notin Delivered /\ Deps[t] \subseteq Delivered
  /\ \E w \in Trees :
       reviewed' = [reviewed EXCEPT ![t] = Append(ledger, [task |-> t, tree |-> w])]
  /\ UNCHANGED ledger

\* That exact candidate is delivered while the ledger is still its parent.
Deliver(t) ==
  /\ reviewed[t] # None
  /\ reviewed[t] = Append(ledger, Last(reviewed[t]))
  /\ ledger' = reviewed[t]
  /\ UNCHANGED reviewed

Next == \E t \in Tasks : Review(t) \/ Deliver(t)

Spec == Init /\ [][Next]_vars
=============================================================================
