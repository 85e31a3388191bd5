\* A fault after trace's checkpoint leaves the row failed for good.
SPECIFICATION ResumedSpec
CONSTANTS
  NumStages = 3
  LlmStages <- MCLlmStages
  Costs <- MCCosts
  Budgets <- MCBudgets
  Executors = {e1}
  MaxCharge = 0
  MaxFaults = 1
PROPERTY
  ResumedRunCompletes
