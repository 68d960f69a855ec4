SPECIFICATION ServicingSpec
CONSTANTS
  Accounts = {adm, hol}
  Admin = adm
  NoAccount = NoAccount
  MaxAssets = 1
  Amounts = {1}
  InitialSupplies = {1}
  Nodes = {n1, n2}
  Uids = {n1, n2}
  NoUid = NoUid
  MaxEvents = 4
  MaxEnvOps = 1
SYMMETRY NodeSymmetry
CHECK_DEADLOCK FALSE
INVARIANTS
  SupplyTracksBalances
  NoUpdateCountedTwice
  SerialMirrorIsExact
PROPERTY
  UidIsKept
