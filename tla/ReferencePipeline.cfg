SPECIFICATION Spec
CONSTANTS
  n1 = n1  n2 = n2  n3 = n3  n4 = n4  n5 = n5  c1 = c1  c2 = c2
  a1 = a1  a2 = a2  b1 = b1  NoCandidate = NoCandidate
  Nodes = {n1, n2, n3, n4, n5}
  Configs = {c1, c2}
  Scores = {90, 80}
  Promising = {90}
  Artifacts = {a1, a2, b1}
  Fingerprint <- MCFingerprint
  Accuracies = {94, 95, 96}
  Gate = 95
  MaxAttempts = 3
  CanRun <- MCCanRun
  Honest <- MCHonest
  MaxTrouble = 2
INVARIANTS CanonicalIsBest TrustIsEarned PaidExactlyForConsensus
PROPERTIES VerdictsAreFinal
CHECK_DEADLOCK FALSE
