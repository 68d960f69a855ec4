SPECIFICATION ManagerSpec
CONSTANTS
  c1 = c1
  c2 = c2
  c3 = c3
  Chains = {c1, c2}
  Order <- TwoChains
  Pools = {pa, pb}
  FirstPool = pa
  Supply = 2
  LinkFunding = 1
  Fee = 1
  MaxUint = 3
  MaxRate = 2
  UnitsPerBps = 2
  MinBps = 1
  ChecksReceiver = FALSE
  Runs = {r1, r2}
  MaxEnvOps = 2
INVARIANTS
  ReportedWasMoved
