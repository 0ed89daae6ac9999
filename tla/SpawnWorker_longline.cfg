SPECIFICATION FairSpec
CONSTANTS
  stdout = stdout
  stderr = stderr
  p1 = p1
  p2 = p2
  Pipes <- MCPipes
  Ports <- MCPorts
  Chatter = Chatter
  Oversized = Oversized
  NoPort = NoPort
  Lines <- OneLong
  PipeCap = 1
  MaxLines = 2
  Faults <- NoFaults
PROPERTIES OutputForwarded
\* the call returns and the child exits: the system really stops
CHECK_DEADLOCK FALSE
