SPECIFICATION PublisherSpec
CONSTANTS
  c1 = c1
  c2 = c2
  Chains = {c1, c2}
  Order <- TwoChains
  Runs = {r1, r2}
  MaxTime = 2
  MaxVersion = 2
  MaxEnvOps = 1
INVARIANTS
  DoneMeansFresh
  NoRegressionWithoutOverlap
PROPERTIES
  CachesAreLogs
  ExecutionsEnd
