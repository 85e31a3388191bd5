\* One URL serves a document that its parser refuses.
SPECIFICATION ResumedSpec
CONSTANTS
  u1 = u1 u2 = u2 u3 = u3
  a = a b = b m = m x = x
  Urls <- MCOneUrl
  Denied = {}
  Pages <- MalformedPage
  Unsafe = {}
  Malformed = {m}
  Chunks <- MalformedChunks
  Executors = {e1}
  MaxFaults = 0
  MaxBlobs = 2
CHECK_DEADLOCK FALSE
PROPERTY
  EveryIntakeCompletes
