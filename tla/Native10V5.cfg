SPECIFICATION Spec
CONSTANTS
  Nodes = {n1, n2, n3, n4}
  Jobs = {j1, j2}
  Deltas = {d1, d2}
  Artifacts = {v1}
  Starts = {s1}
  Budget = 2
  MaxRounds = 3
  MaxLineages = 2
  MaxLosses = 1
  MaxKills = 1
  Nothing = Nothing
SYMMETRY MCSymmetry
INVARIANTS LineageIsLinear RoundsCanEnd
PROPERTIES ClosesOwnRound PaidWithPromotion
CHECK_DEADLOCK FALSE
