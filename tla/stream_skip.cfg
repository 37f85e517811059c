SPECIFICATION Spec
CONSTANTS
  N = 5
  MaxPending = 2
  Inline = {1}
  Skipped = {4}
  Threads <- AllThreads
  Home <- Spread
INVARIANT ConcurrencyBound
CHECK_DEADLOCK FALSE
