SPECIFICATION IssuanceSpec
CONSTANTS
  Accounts = {alice}
  Staging = staging
  Amounts = {1, 2}
  MinVolume = 2
  MaxVolume = 2
  Fee = 1
  LinkFunding = 1
  Executions = {e1, e2}
  Reserves = {1, 2}
  MaxTriggers = 2
  MaxEnvOps = 2
INVARIANTS
  SupplyIsIssued
  RejectionIsFinal
PROPERTIES
  MintsObeyBlacklist
  TriggersAreAnswered
CHECK_DEADLOCK FALSE
