SPECIFICATION Spec
CONSTANTS
  f1 = f1
  f2 = f2
  NoFile = NoFile
  Script <- Patient
  Files <- TwoFiles
  Cap = 1
  Wire = 1
  Allowed <- Everything
INVARIANTS TypeOK RoutedToFile Confined DeliveredInTurn NeverStuck
  PanicOnlyAfterLeave 
\* a session may be over, and its client may stay silent
CHECK_DEADLOCK FALSE
