SPECIFICATION MCSpec
CONSTANTS
  s1 = s1
  s2 = s2
  q1 = q1
  q2 = q2
  None = None
  Sessions <- TwoSessions
  Requests <- TwoRequests
  Faults <- AllFaults
INVARIANTS TypeOK RegisteredFreed LostOnlySo
PROPERTIES UsesLease CleanupEnds OnlySilenceHolds
\* sessions end, and clients may stay silent
CHECK_DEADLOCK FALSE
