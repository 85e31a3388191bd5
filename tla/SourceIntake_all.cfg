\* Two executors of the two stages, one after the other or at the same time,
\* interrupted and resumed; they stop when both stages are checkpointed.
SPECIFICATION ResumedSpec
CONSTANTS
  u1 = u1 u2 = u2 u3 = u3
  a = a b = b m = m x = x
  Urls <- MCUrls
  Denied = {u3}
  Pages <- MixedPages
  Unsafe = {x}
  Malformed = {m}
  Chunks <- MCChunks
  Executors = {e1, e2}
  MaxFaults = 2
  MaxBlobs = 3
CHECK_DEADLOCK FALSE
INVARIANTS
  ResumedSourceIsWhole
  CheckpointsCoverTheWork
PROPERTIES
  ImplementsIntake
  IntakeCompletes
