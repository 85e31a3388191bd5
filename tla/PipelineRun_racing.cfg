\* Two executors of one run: crashes, failures, conflicting inserts, resumes
\* and the breaker, under fair scheduling and callers who keep resuming.
SPECIFICATION ResumedSpec
CONSTANTS
  NumStages = 3
  LlmStages <- MCLlmStages
  Executors = {e1, e2}
  Costs <- MCCosts
  Budgets <- MCBudgets
  MaxCharge = 2
  MaxFaults = 1
PROPERTIES
  ExecutionEnds
  EveryStageBecomesDurable
