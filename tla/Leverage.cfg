SPECIFICATION Spec
CONSTANTS
  c1 = c1  c2 = c2
  NoCandidate = NoCandidate
  Contributors = {c1, c2}
  Principals = {p1, p2}
  Manifests <- MCManifests
  Batches = {x, y}
  GrantUnits = 12
  RewardUnits = 4
  BondUnits = 3
  StaleFeeUnits = 1
  SubmissionFee = 2
  FeeNumerator = 3
  FeeDenominator = 2
  MaxTests = 3
  MaxTestsEach = 2
  CanaryWindow = 2
  MaxStale = 2
  MaxFailures = 1
INVARIANTS LockedMatchesCandidates LineageIsEarned
PROPERTY VerdictsStand
CHECK_DEADLOCK FALSE
