SPECIFICATION WalletSpec
CONSTANTS
  Chains = {c1, c2}
  Pools = {pa, pb}
  FirstPool = pa
  Supply = 2
  LinkFunding = 1
  Fee = 1
  MaxUint = 3
INVARIANTS
  TokensConserved
  MessagesAreDeliverable
PROPERTIES
  RebalancingLeavesNoIdleTokens
