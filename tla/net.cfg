SPECIFICATION NetSpec
\* A caller on the scheduler's thread, one elsewhere, and queues of one.
CONSTANTS
  Askers = {a1, a2}
  Local = {a2}
  Dialers = {d1}
  Sockets = 3
  FdRoom = 1
  Sessions = {s1, s2}
  Descriptors = 1
  Frames = 1
  Sends = 1
  Size = 16
  Streams <- ThreeStreams
  Dial <- KcpDial
  Accept <- KcpAccept
  RequestRoom = 1
  Retries = 2
  WireRoom = 2
  Receivers = {v1, v2}
  Senders = {w1, w2}
  QueueRoom = 1
  PendingRoom = 1
  Arrivals = 2
  BurstRoom = 1
  Messages <- ThreeMessages
  MaxFragments = 2
  SndWnd = 2
  RcvWnd = 3
  FastResend = 1
  FastLimit = 1
  DeadLink = 2
  ArqWireRoom = 2
  AckRoom = 3
INVARIANTS
  SocketsAccounted Meet NoSessionUseAfterFree SessionsReclaimed
  FramesExact AcceptedOnce  HeardInOrder 
  NothingForgotten DatagramsMeetReceivers 
CHECK_DEADLOCK FALSE
