---------------------------- MODULE MCLoopEngine ----------------------------
EXTENDS LoopEngine
CONSTANTS T1, T2, G1, G2, t0, t1

ChainTasks == {T1, G1, T2}
ChainDeps == (T1 :> {} @@ G1 :> {T1} @@ T2 :> {G1})
ChainRank == (T1 :> 1 @@ G1 :> 2 @@ T2 :> 3)
ShortTasks == {T1, G1}
ShortDeps == (T1 :> {} @@ G1 :> {T1})
ShortRank == (T1 :> 1 @@ G1 :> 2)
ForkTasks == {T1, G1, T2}
ForkDeps == [t \in ForkTasks |-> {}]
ForkRank == ChainRank
PairTasks == {T1, T2}
PairDeps == [t \in PairTasks |-> {}]
PairRank == (T1 :> 1 @@ T2 :> 2)
GatesTasks == {G1, G2}
GatesDeps == [t \in GatesTasks |-> {}]
GatesRank == (G1 :> 1 @@ G2 :> 2)
=============================================================================
