SPECIFICATION FairSpec
CONSTANTS
  MaxQueue = 2
  MaxPosts = 3
  MaxVisibility = 1
INVARIANTS TypeOK RunsOnce FrontWillComplete OverlapBounded
PROPERTIES QueuedTaskRuns KeepsTurns
CHECK_DEADLOCK FALSE
