SPECIFICATION Spec
CONSTANTS
  Accounts = {admin}
  DataIds = {d1}
  NoDataId = zero
  Workflows = {w1, w2}
  NoWorkflow = incomplete
  Proxies = {p1}
  Values = {1, 2}
  MaxTimestamp = 3
PROPERTIES
  RemovedFeedHasNoData
