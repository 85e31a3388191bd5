\* A start that fails: a resume in process, or a worker without services.
\* The system stops when every request is served.
SPECIFICATION LifecycleSpec
CONSTANTS
  NumStages = 2
  LlmStages <- MCLlmStages
  Costs <- MCCosts
  Budgets <- MCBudgets
  MaxCharge = 0
  Requests = {x1}
  Executors = {x1}
  Creator = x1
  Executes = {TRUE, FALSE}
  Modes = {TRUE, FALSE}
  MaxAsks = 1
  MaxFaults = 1
CHECK_DEADLOCK FALSE
INVARIANT
  QuietRunIsSettled
