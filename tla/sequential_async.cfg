SPECIFICATION SSpec
CONSTANTS
  N = 3
  MaxPending = 0
  Inline = {}
  Skipped = {}
  Threads <- AllThreads
  Home <- Spread
  CacheSize = 4
  Async = {1}
INVARIANT OneDownstream
INVARIANT OrderKept
INVARIANT NothingLost
PROPERTY SCompletes
CHECK_DEADLOCK FALSE
