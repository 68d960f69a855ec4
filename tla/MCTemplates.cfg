SPECIFICATION TemplateSpec
CHECK_DEADLOCK FALSE
CONSTANTS
  f1 = f1
  f2 = f2
  a1 = a1
  a2 = a2
  eth = eth
  pol = pol
  t1 = t1
  t2 = t2
  t3 = t3
  Feeds <- TwoFeeds
  Aggregators = {a1, a2}
  NoAggregator = NoAggregator
  FirstAggregator <- FirstAggregators
  BundleDecimals <- Decimals
  DecimalsMatrix <- Matrix
  MaxRound = 1
  MaxHeight = 4
  MaxReorgs = 1
  MessageChains = {eth, pol}
  FirstChain = eth
  Emitters = {e}
  Messages = {m1, m2}
  NoMessage = NoMessage
  MaxTime = 1
  MaxBlocks = 3
  MaxLostBlocks = 1
  TokenChains = {eth, pol}
  NotRead = NotRead
  Issued = 1
  MaxReserve = 1
  ReserveRuns = {r1, r2}
  MaxFaults = 1
  Zero = Zero
  Words = {w}
  Bindings = {"BalanceReader"}
  MaxFilters = 2
  MaxBoundHeight = 2
  KvNodes = {n1, n2, n3}
  KvQuorum = 2
  KvRuns = {r1, r2}
  Absent = Absent
  NotANumber = NotANumber
  NoReading = NoReading
  MaxStarts = 2
  MaxS3Faults = 2
  Transactions = {t1, t2, t3}
  To <- Receivers
  NoAddress = "none"
  WatchedAddresses = {"0xAb"}
  ToLower <- Spellings
  MaxLogs = 4
  Holdings1 = 2
  Reserve1 = 1
  LendingSlots = {s1, s2}
  MaxLending = 2
  MaxLendingOps = 4
INVARIANTS
  TemplateTypeOK
  AnswersAreFinal
  ScaledByItsAggregator
  AnswerIsTheLogs
  StillSupplyIsExact
  HandlersGetTheirLogs
  FinalLogsAreVisible
  NothingCountedTwice
  SerialCountIsExact
  EachMatchReportedOnce
  NothingStaysBehind
PROPERTIES
  OwnReportsGoBackOnlyLate
