SPECIFICATION Spec
CONSTANTS
  Accounts = {admin}
  DataIds = {d1, d2}
  NoDataId = zero
  Workflows = {w1, w2}
  NoWorkflow = incomplete
  Proxies = {p1}
  Values = {1}
  MaxTimestamp = 2
SYMMETRY WorkflowSymmetry
INVARIANTS
  PermissionsMatchConfig
PROPERTIES
  ReadsNeverGoBack
  ImplementsFeedLog
  OnlyListedWorkflowsWrite
