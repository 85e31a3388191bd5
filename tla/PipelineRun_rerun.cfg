\* Two executions of one run; the second re-runs a stage the first saved.
SPECIFICATION Spec
CONSTANTS
  NumStages = 3
  LlmStages <- MCLlmStages
  Executors = {e1, e2}
  Costs <- MCCosts
  Budgets <- MCBudgets
  MaxCharge = 2
  MaxFaults = 0
INVARIANT
  NoCompletedStageRerun
