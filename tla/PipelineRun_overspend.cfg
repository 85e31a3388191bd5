\* One execution spends more than the budget before the breaker looks.
SPECIFICATION Spec
CONSTANTS
  NumStages = 3
  LlmStages <- MCLlmStages
  Executors = {e1}
  Costs <- MCLargeCosts
  Budgets <- MCBudgets
  MaxCharge = 12
  MaxFaults = 0
INVARIANT
  SpendWithinBudget
