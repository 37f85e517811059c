SPECIFICATION SSpec
CONSTANTS
  N = 3
  MaxPending = 2
  Inline = {}
  Skipped = {}
  Threads <- AllThreads
  Home <- Spread
  CacheSize = 4
  Async = {}
PROPERTY SCompletes
CHECK_DEADLOCK FALSE
