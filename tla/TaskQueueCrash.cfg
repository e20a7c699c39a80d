SPECIFICATION CrashSpec
CONSTANTS
  n1 = n1  n2 = n2  n3 = n3  i1 = i1  i2 = i2  NoNode = NoNode
  Nodes = {n1, n2, n3}
  Tasks = {i1, i2}
  InferenceTasks = {i1, i2}
  RootSearch = {}
  Work <- MCEmpty
  Slot <- MCEmpty
  Requester <- MCRequester
  CanRun <- MCEveryoneCanRun
  Priority <- MCPriority
  MaxAttempts <- MCTwoAttempts
  Exclusions <- MCNoExclusions
  Values = {a}
  Quorum = 2
  MaxReplicas = 3
  BondUnits = 4
  CostUnits = 1
  RewardUnits = 2
  InitialCredit <- MCRichNodes
  LeaseSpan = 1
  DeadlineSpan = 2
  ExtensionSpan = 1
  ExpiryQuarantine = 1
  RejectQuarantine = 2
  MaxLeases = 3
  MaxCrashes = 1
INVARIANT LedgerNeverAhead
PROPERTY RefundOnlyFailed
