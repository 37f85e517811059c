\* Three calls at a time on a trigger of three slots; no frame is dropped.
SPECIFICATION RpcSpec
CONSTANTS
  Calls = 4
  ServiceOf <- OneService
  MapCapacity = 3
  QueueRoom = 3
  Concurrency = 3
  InFlight = 3
  MayBreak = FALSE
INVARIANT OwnAnswer
CHECK_DEADLOCK FALSE
