---------------------------- MODULE MCFulfilment ----------------------------
(* A small instance of Fulfilment: two approved actions of one case.        *)
EXTENDS Fulfilment, TLC

MCCaseOf == [a \in Allocs |-> "case"]

\* The two allocations are interchangeable.
SameCase == Permutations(Allocs)
=============================================================================
