SPECIFICATION FairSpec
CONSTANTS
  main = main
  edge = edge
  tuner = tuner
  Thread <- BothThreads
  MainThread <- main
  MaxConsecutiveLosses = 2
  MaxResults = 6
  Writer <- OneWriter
  NoState = NoState
  WriteOutcome <- AnyOutcome
INVARIANTS StreakLocks StoredAgrees
PROPERTIES LiftedByWinOrRestart StreakAnswered
