\* Two flows look at the limiter before either calls.
SPECIFICATION Spec
CONSTANTS
  Callers = {c1, c2}
  Interval = 2
  LimitDelays <- MCLimitDelays
  FaultDelays <- MCFaultDelays
  MaxRetries = 2
  Unit = 10
  Costs = {4, 6}
  MaxCalls = 2
CHECK_DEADLOCK FALSE
PROPERTY
  SpacedAcrossFlows
