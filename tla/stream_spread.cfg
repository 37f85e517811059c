SPECIFICATION Spec
CONSTANTS
  N = 4
  MaxPending = 2
  Inline = {}
  Skipped = {}
  Threads <- AllThreads
  Home <- Spread
INVARIANT ExclusiveRunner
INVARIANT StreamDoneOnce
INVARIANT NoAccessAfterFree
PROPERTY Refines
CHECK_DEADLOCK FALSE
