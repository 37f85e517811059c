SPECIFICATION RaceSpec
CONSTANTS
  B = 3
  Sync = {}
  Throws = {2}
PROPERTY Reclaimed
CHECK_DEADLOCK FALSE
