SPECIFICATION Spec
CONSTANTS
  f1 = f1
  f2 = f2
  NoFile = NoFile
  Script <- TwoOpens
  Files <- TwoFiles
  Cap = 1
  Wire = 1
  Allowed <- Nothing
INVARIANTS RoutedToFile
\* a session may be over, and its client may stay silent
CHECK_DEADLOCK FALSE
