CONSTANTS
  h1 = h1
  h2 = h2
  t1 = t1
  t2 = t2
  Hosts <- MCHosts
  Tickets <- MCTickets
  Stages <- MCStages
  Entry = "CODING_IN_PROGRESS"
  FirstCommitterWins = FALSE
  MaxCalls = 3
  MaxCommands = 1
SYMMETRY Symmetric
SPECIFICATION Spec
INVARIANTS
  AnswersAreTrue
  RefusedOnlyIfOvertaken
  ViewsStayTrue
PROPERTIES
  ImplementsLog
