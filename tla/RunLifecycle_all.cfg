\* Both deployments: requests execute the run themselves or submit it to two
\* workers, so that two executions of the run race.  The system stops when
\* every request is served.
SPECIFICATION FairLifecycle
CONSTANTS
  NumStages = 2
  LlmStages <- MCLlmStages
  Costs <- MCCosts
  Budgets <- MCBudgets
  MaxCharge = 2
  Requests = {x1, x2}
  Executors = {x1, x2}
  Creator = x1
  Executes = {TRUE, FALSE}
  Modes = {TRUE, FALSE}
  MaxAsks = 3
  MaxFaults = 2
CHECK_DEADLOCK FALSE
INVARIANTS
  LifecycleTypeOK
  CheckpointsArePrefix
  CompletedMeansStagesDurable
  MirrorIsDurable
  MeterNeverOvercounts
  StartedRunIsSettled
  SubmittedMeansUntouched
PROPERTIES
  ImplementsDurableJob
  EverythingComesToRest
