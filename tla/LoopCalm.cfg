SPECIFICATION CalmSpec
CONSTANTS
  T1 = T1
  T2 = T2
  G1 = G1
  G2 = G2
  t0 = t0
  t1 = t1
  None = None
  Tasks <- ChainTasks
  Gates = {G1}
  Deps <- ChainDeps
  Rank <- ChainRank
  Trees = {t0, t1}
  RootTree = t0
  MaxRepairCycles = 3
  RepairCap = 2
  HistoryCap = 4
  Disturbances = {"crash", "interrupt"}
PROPERTY AllDelivered
\* With every task accepted, or after a failure nobody repairs, nothing is left to do.
CHECK_DEADLOCK FALSE
