SPECIFICATION SchedSpec
CONSTANTS
  Cores <- TwoCores
  Shared <- SharedQueue
  Post <- SevenPosts
  Follow <- Follows
  OnInit <- OneEach
  Address <- InARow
  Delay <- FirstLast
  TaskDepth = 2
  AnyDepth = 1
  Horizon = 2
  Body <- ThreeAwaits
  OwnCore = TRUE
  Request <- NvmeRequests
  Index <- NvmeIndex
  TableSize = 3
  ProbeLimit = 2
  MaxWaiters = 1
  QueueDepth = 2
  LocalDepth = 1
  Depth = 1
  Works <- TwoOneTwo
  QueueRoom = 2
  Lines <- ThreeLines
  Uncaught <- SkippedThrows
INVARIANTS    RunsTrue 
CHECK_DEADLOCK FALSE
