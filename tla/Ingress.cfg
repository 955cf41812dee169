SPECIFICATION Spec
CHECK_DEADLOCK FALSE
CONSTANTS
  p1 = p1
  s1 = s1
  k1 = k1
  k2 = k2
  NoRow = NoRow
  NoKey = NoKey
  Unsent = Unsent
  Endpoints = {p1}
  Refs = {s1}
  Keys = {k1, k2}
  Rows <- SomeRows
  Publishers = {"inline", "ack"}
  Window = 0
  MaxEvents = 1
  MaxRequests = 2
  MaxChanges = 1
  MaxRestarts = 1
  MaxTime = 1
SYMMETRY Symmetric
INVARIANTS
  AcknowledgedIsKept
  DuplicatesTakeARestart
PROPERTIES
  VerdictsAreJustified
