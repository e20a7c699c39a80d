SPECIFICATION FairSpec
CONSTANTS
  n1 = n1  n2 = n2  n3 = n3
  i1 = i1  i2 = i2  r0 = r0  r1 = r1  r2 = r2  s0 = s0  s1 = s1
  job = job  search = search  NoNode = NoNode
  Nodes = {n1, n2, n3}
  Tasks = {i1, i2}
  InferenceTasks = {i1, i2}
  RootSearch = {}
  Work <- MCWork
  Slot <- MCSlot
  Requester <- MCRequester
  CanRun <- MCEveryoneCanRun
  Priority <- MCPriority
  MaxAttempts <- MCTwoAttempts
  Exclusions <- MCNoExclusions
  Values = {v1}
  Quorum = 2
  MaxReplicas = 3
  BondUnits = 4
  CostUnits = 1
  RewardUnits = 2
  InitialCredit <- MCUnequalNodes
  LeaseSpan = 1
  DeadlineSpan = 2
  ExtensionSpan = 1
  ExpiryQuarantine = 1
  RejectQuarantine = 2
  MaxLeases = 4
INVARIANTS OneActiveLease CreditsMatchLedger InferenceSettledOnce
PROPERTIES BondReturnsFromHeldLease Lifecycle LeasesEnd
