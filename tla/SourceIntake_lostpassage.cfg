\* Two executors normalize the same source.
SPECIFICATION Spec
CONSTANTS
  u1 = u1 u2 = u2 u3 = u3
  a = a b = b m = m x = x
  Urls <- MCTwoUrls
  Denied = {}
  Pages <- SamePages
  Unsafe = {x}
  Malformed = {}
  Chunks <- SameChunks
  Executors = {e1, e2}
  MaxFaults = 0
  MaxBlobs = 4
CHECK_DEADLOCK FALSE
INVARIANT
  NormalizedSourceIsWhole
