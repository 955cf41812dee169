CONSTANTS
  MaxRetries = 3
  MaxTurns = 2
  MaxIterations = 2
  CleanupEnds = TRUE
SPECIFICATION FairSpec
INVARIANTS
  FailClosed
  AloneInWorktree
PROPERTIES
  EveryCallEnds
