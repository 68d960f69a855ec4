SPECIFICATION IssuanceSpec
CONSTANTS
  Accounts = {alice}
  Staging = staging
  Amounts = {2}
  MinVolume = 2
  MaxVolume = 2
  Fee = 1
  LinkFunding = 1
  Executions = {e1, e2}
  Reserves = {2}
  MaxTriggers = 2
  MaxEnvOps = 0
INVARIANTS
  FullyBacked
CHECK_DEADLOCK FALSE
