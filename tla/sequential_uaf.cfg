SPECIFICATION SSpec
CONSTANTS
  N = 3
  MaxPending = 0
  Inline = {}
  Skipped = {}
  Threads <- AllThreads
  Home <- Spread
  CacheSize = 4
  Async = {1}
INVARIANT NoCacheUseAfterFree
CHECK_DEADLOCK FALSE
