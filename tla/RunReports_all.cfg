\* Every reader and writer of a run's artifacts; nothing runs once the run
\* is complete and nobody asks for its report.
SPECIFICATION FairSpec
CONSTANTS
  Executors = {e1}
  Readers = {r1, r2}
  PoolSize = 3
  MaxFaults = 2
CHECK_DEADLOCK FALSE
INVARIANTS
  ServedIsCheckpointed
  NoConclusionIsNaked
PROPERTIES
  EveryReadIsAnswered
  RunCompletes
