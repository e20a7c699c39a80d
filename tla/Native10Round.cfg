SPECIFICATION CrashSpec
CONSTANTS
  a = a  b = b
  NoNode = NoNode  NoRound = NoRound  NoDelta = NoDelta  NoArtifact = NoArtifact
  Nodes = {n1, n2, n3, n4, n5}
  Kinds = {a, b}
  HashOrder <- MCHashOrder
  Trained <- MCSomeTraining
  Evidence <- MCGraded
  SelectionArtifacts = {x}
  ReplicationArtifacts = {y}
  Candidates = 2
  Quorum = 2
  MaxEvaluations = 4
  MaxReplications = 2
  MaxTournaments = 1
  MaxAttempts = 2
  MaxRounds = 2
  MaxInstalls = 3
  MaxLosses = 1
  MaxLeased = 2
  MaxCrashes = 1
INVARIANTS StrongestIsSelected HoldoutIsOneShot IndependentEvidence PromotionIsEarned RoundsCanEnd
PROPERTY OnlyKillsCostRewards
SYMMETRY MCSymmetry
CONSTRAINT OneDisturbance
CHECK_DEADLOCK FALSE
