SPECIFICATION Spec
CONSTANTS
  f1 = f1
  f2 = f2
  NoFile = NoFile
  Script <- Flood
  Files <- OneFile
  Cap = 1
  Wire = 1
  Allowed <- Nothing
PROPERTIES EveryAnswer
\* a session may be over, and its client may stay silent
CHECK_DEADLOCK FALSE
