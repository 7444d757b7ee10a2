CONSTANTS
  Callers = {c1, c2}
  Binaries = {"pinned", "other"}
  Pinned = "pinned"
  NoBinary = "none"
  Nobody = nobody
SPECIFICATION FairSpec
INVARIANTS
  TypeOK
  SingleFlight
  HashedIsRunning
  JudgedInOwnSession
  ReplayRunsPinned
PROPERTIES
  ImplementsService
  EveryCallSettles
  FailureIsForgotten
