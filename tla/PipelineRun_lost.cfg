\* Two executions of one run lose a cost or, with the property in place of the
\* invariant, a stage of the mirror.
SPECIFICATION Spec
CONSTANTS
  NumStages = 3
  LlmStages <- MCLlmStages
  Executors = {e1, e2}
  Costs <- MCCosts
  Budgets <- MCBudgets
  MaxCharge = 2
  MaxFaults = 0
INVARIANT
  MeterIsAccurate
\* PROPERTY
  \* MirrorNeverShrinks
