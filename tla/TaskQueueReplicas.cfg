SPECIFICATION Spec
CONSTANTS
  n1 = n1  n2 = n2  n3 = n3
  i1 = i1  i2 = i2  r0 = r0  r1 = r1  r2 = r2  s0 = s0  s1 = s1
  job = job  search = search  NoNode = NoNode
  Nodes = {n1, n2, n3, n4}
  Tasks = {r0, r1, r2, s0}
  InferenceTasks = {}
  RootSearch = {s0}
  Work <- MCWork
  Slot <- MCSlot
  Requester <- MCRequester
  CanRun <- MCEveryoneCanRun
  Priority <- MCPriority
  MaxAttempts <- MCTwoAttempts
  Exclusions <- MCNoExclusions
  Values = {a, b}
  Quorum = 2
  MaxReplicas = 3
  BondUnits = 4
  CostUnits = 1
  RewardUnits = 2
  InitialCredit <- MCRichNodes
  LeaseSpan = 1
  DeadlineSpan = 2
  ExtensionSpan = 1
  ExpiryQuarantine = 1
  RejectQuarantine = 2
  MaxLeases = 3
INVARIANTS IndependentReplicas AttemptsCountFaults
SYMMETRY MCSymmetry
