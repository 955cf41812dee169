SPECIFICATION FairSpec
CONSTANTS
  Tickets = {1, 2, 3}
  Absent = Absent
  Torn = Torn
INVARIANTS
  OrderIsRight
  SomethingIsReady
  FrontierIsExact
PROPERTIES
  EveryRunEnds
