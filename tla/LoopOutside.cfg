SPECIFICATION Spec
CONSTANTS
  T1 = T1
  T2 = T2
  G1 = G1
  G2 = G2
  t0 = t0
  t1 = t1
  None = None
  Tasks <- ShortTasks
  Gates = {G1}
  Deps <- ShortDeps
  Rank <- ShortRank
  Trees = {t0, t1}
  RootTree = t0
  MaxRepairCycles = 3
  RepairCap = 2
  HistoryCap = 2
  Disturbances = {"crash", "write", "agent_commit", "late_policy"}
INVARIANT AcceptedAgentReviewed
PROPERTIES DeliversReviewed DriftStopsDelivery
\* With every task accepted, or after a failure nobody repairs, nothing is left to do.
CHECK_DEADLOCK FALSE
