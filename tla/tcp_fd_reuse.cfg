SPECIFICATION TcpSpec
CONSTANTS
  Sessions = {1, 2}
  Descriptors = 1
  Frames = 1
  Sends = 1
INVARIANT OwnConnection
CHECK_DEADLOCK FALSE
