SPECIFICATION SeedFairSpec
CONSTANTS
  seed = seed  other = other  payer = payer  i1 = i1  NoNode = NoNode  NoJob = NoJob
  Nodes = {seed, other, payer}
  Tasks = {i1, i2}
  InferenceTasks = {i1, i2}
  RootSearch = {}
  Work <- MCEmpty
  Slot <- MCEmpty
  Requester <- MCRequester
  CanRun <- MCCanRun
  Priority <- MCPriority
  MaxAttempts <- MCTwoAttempts
  Exclusions <- MCNoExclusions
  Values = {v1}
  Quorum = 2
  MaxReplicas = 3
  BondUnits = 4
  CostUnits = 1
  RewardUnits = 2
  InitialCredit <- MCRichNodes
  LeaseSpan = 1
  DeadlineSpan = 2
  ExtensionSpan = 1
  ExpiryQuarantine = 1
  RejectQuarantine = 1
  MaxLeases = 2
  Seed = seed
  MaxLate = 1
INVARIANTS RecordsAgree OneUndelivered
PROPERTIES GivenUpIsAnswered ResultsSettle
CHECK_DEADLOCK FALSE
