SPECIFICATION Spec
CONSTANTS
  r1 = r1
  r2 = r2
  r3 = r3
  b1 = b1
  b2 = b2
  b3 = b3
  m1 = m1
  m2 = m2
  None = None
  Requests = {r1, r2}
  Backends = {b1, b2}
  Models = {m1, m2}
  Limit = 1
  MaxPending = 1
  Faults = {"cancel", "leave", "refuse", "upstream", "unsent", "shutdown"}
CHECK_DEADLOCK FALSE
SYMMETRY Symmetry
INVARIANTS
  TypeOK
  StatsBalance
  ClaimMatches
  NothingLeftBehind
  DisconnectWins
  RecordsSurviveShutdown
PROPERTIES
  NeverEvictedMidRequest
