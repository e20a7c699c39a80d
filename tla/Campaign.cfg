SPECIFICATION Spec
CONSTANTS
  NoRound = NoRound
  NoSeed = NoSeed
  Threads = {t1, t2}
  Seeds = {usual, other}
  MaxFolds = 2
  MaxPreparations = 2
  MaxNative = 3
  MaxInits = 1
  MaxCrashes = 1
SYMMETRY MCSymmetry
VIEW MCView
CONSTRAINT MCFollowed
INVARIANTS OnlyKillsReuseFolds HistoryIsTruthful
CHECK_DEADLOCK FALSE
