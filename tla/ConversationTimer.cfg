SPECIFICATION Spec
CONSTANTS
  InactivityWindow = 1
  NoInteraction = NoInteraction
  Threads = {t1, t2}
  Users = {u}
  MaxEvents = 3
  Unsent = Unsent
  NoContext = NoContext
  Transports <- InMemoryOnly
  MaxTime = 2
INVARIANTS
  ExpiresOnlyInSilence
CHECK_DEADLOCK FALSE
