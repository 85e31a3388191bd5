\* The plan expires before search is checkpointed and no resume gets past
\* search again: this refutes ResumedRunCompletes.
SPECIFICATION FairSpec
CONSTANTS
  Executors = {e1}
  Readers = {r1}
  PoolSize = 3
  MaxFaults = 1
CHECK_DEADLOCK FALSE
PROPERTY
  ResumedRunCompletes
