SPECIFICATION Spec
CONSTANTS
  p1 = p1
  p2 = p2
  d1 = d1
  g1 = g1
  l1 = l1
  Nobody = Nobody
  Posts <- OnePost
  Deletes <- OneDelete
  Gets <- NoRequests
  Lists <- NoRequests
  Faults <- NoFaults
INVARIANTS GracefulFirst
\* after the shutdown the program has ended
CHECK_DEADLOCK FALSE
