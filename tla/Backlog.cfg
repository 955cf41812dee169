SPECIFICATION FairBacklogSpec
CHECK_DEADLOCK FALSE
CONSTANTS
  e1 = e1
  t1 = t1
  t2 = t2
  t3 = t3
  NoKey = NoKey
  CutShort = CutShort
  EpicList <- MCEpics
  TicketList <- MCTickets
  EpicOf <- MCEpicOf
  EdgeList <- MCEdges
  Attempts = 2
  MaxRuns = 2
  MaxMishaps = 2
INVARIANTS
  StateFileIsTrue
  ReconcilerIsRight
PROPERTIES
  RepairsOnlyWhatIsWrong
  LinksConverge
