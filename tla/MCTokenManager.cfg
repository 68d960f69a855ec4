SPECIFICATION ManagerSpec
CONSTANTS
  c1 = c1
  c2 = c2
  c3 = c3
  Chains = {c1, c2, c3}
  Order <- ThreeChains
  Pools = {pa}
  FirstPool = pa
  Supply = 1
  LinkFunding = 1
  Fee = 0
  MaxUint = 2
  MaxRate = 2
  UnitsPerBps = 2
  MinBps = 1
  ChecksReceiver = TRUE
  Runs = {r1, r2}
  MaxEnvOps = 1
INVARIANTS
  WritesRespectThreshold
  ReportedWasMoved
  CompletedReportIsExact
PROPERTIES
  FundsReachBestPool
