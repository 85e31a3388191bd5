\* Two URLs serve the same unsafe page.
SPECIFICATION ResumedSpec
CONSTANTS
  u1 = u1 u2 = u2 u3 = u3
  a = a b = b m = m x = x
  Urls <- MCTwoUrls
  Denied = {}
  Pages <- RefusedPages
  Unsafe = {x}
  Malformed = {}
  Chunks <- RefusedChunks
  Executors = {e1}
  MaxFaults = 0
  MaxBlobs = 2
CHECK_DEADLOCK FALSE
PROPERTY
  IntakeCompletes
