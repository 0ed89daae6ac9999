SPECIFICATION FairSpec
CONSTANTS
  p1 = p1
  p2 = p2
  d1 = d1
  g1 = g1
  l1 = l1
  Nobody = Nobody
  Posts <- TwoPosts
  Deletes <- OneDelete
  Gets <- NoRequests
  Lists <- OneList
  Faults <- NoFaults
INVARIANTS Tracked SweepComplete
PROPERTIES ShutdownEnds
\* after the shutdown the program has ended
CHECK_DEADLOCK FALSE
