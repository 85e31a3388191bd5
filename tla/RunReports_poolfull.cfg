\* As many requests as connections: each may hold one and wait for another,
\* so this refutes EveryReadIsAnswered.
SPECIFICATION FairSpec
CONSTANTS
  Executors = {e1}
  Readers = {r1, r2}
  PoolSize = 2
  MaxFaults = 0
CHECK_DEADLOCK FALSE
PROPERTY
  EveryReadIsAnswered
