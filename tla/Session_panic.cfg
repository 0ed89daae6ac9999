SPECIFICATION Spec
CONSTANTS
  f1 = f1
  f2 = f2
  NoFile = NoFile
  Script <- Short
  Files <- OneFile
  Cap = 1
  Wire = 1
  Allowed <- Leaves
INVARIANTS NoPanic
\* a session may be over, and its client may stay silent
CHECK_DEADLOCK FALSE
