SPECIFICATION FairSpec
CONSTANTS
  MaxBase = 1
  MaxCommits = 2
  MaxMishaps = 4
  Modes <- OnlyResumed
  NoHead = NoHead
  EmptyCoderRuns = FALSE
  CoderLeavesFiles = TRUE
  SeveralSpecs = FALSE
  CloneIsShared = FALSE
  WorktreeBreaks = FALSE
  OthersReview = FALSE
  OthersPush = FALSE
INVARIANTS
  OnePlanThroughout
  LandsOneWork
PROPERTIES
  ResumingFinishes
CHECK_DEADLOCK FALSE
