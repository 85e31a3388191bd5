\* Two flows share the limiter; they stop when all calls are made.
SPECIFICATION FairSpec
CONSTANTS
  Callers = {c1, c2}
  Interval = 2
  LimitDelays <- MCLimitDelays
  FaultDelays <- MCFaultDelays
  MaxRetries = 2
  Unit = 10
  Costs = {4, 6}
  MaxCalls = 2
CHECK_DEADLOCK FALSE
INVARIANTS
  MeterDriftIsBounded
PROPERTIES
  OwnCallsAreSpaced
  EveryCallReturns
