SPECIFICATION Spec
CONSTANTS
  MaxBase = 0
  MaxCommits = 2
  MaxMishaps = 0
  Modes <- OnlyResumed
  NoHead = NoHead
  EmptyCoderRuns = FALSE
  CoderLeavesFiles = FALSE
  SeveralSpecs = FALSE
  CloneIsShared = FALSE
  WorktreeBreaks = FALSE
  OthersReview = FALSE
  OthersPush = TRUE
PROPERTIES
  MergesApprovedHead
CHECK_DEADLOCK FALSE
