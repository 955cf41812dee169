SPECIFICATION Spec
CONSTANTS
  MaxBase = 1
  MaxCommits = 2
  MaxMishaps = 1
  Modes <- CleanAndResumed
  NoHead = NoHead
  EmptyCoderRuns = TRUE
  CoderLeavesFiles = TRUE
  SeveralSpecs = TRUE
  CloneIsShared = TRUE
  WorktreeBreaks = TRUE
  OthersReview = TRUE
  OthersPush = TRUE
INVARIANTS
  TypeOK
  MergedWasGatedAndApproved
  PushedWasGated
CHECK_DEADLOCK FALSE
