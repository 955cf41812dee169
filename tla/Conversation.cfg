SPECIFICATION Spec
CONSTANTS
  InactivityWindow = 1
  NoInteraction = NoInteraction
  Threads = {t1, t2}
  Users = {u}
  MaxEvents = 3
  Unsent = Unsent
  NoContext = NoContext
  Transports <- AnyTransport
  MaxTime = 2
INVARIANTS
  OneConfirmation
  CompletedAsConfirmed
  ContextIsFinal
  OutcomeIsTrue
  ReceivedOnce
PROPERTIES
  ClosedIsFinal
SYMMETRY Symmetry
CHECK_DEADLOCK FALSE
