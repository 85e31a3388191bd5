\* One executor, interrupted and resumed; it stops when all is checkpointed.
SPECIFICATION ResumedSpec
CONSTANTS
  p1 = p1 p2 = p2 p3 = p3 c1 = c1 c2 = c2 c3 = c3 c4 = c4 d1 = d1 d2 = d2
  Passages = {p1, p2, p3}
  Blank = {p3}
  Score <- MCScore
  Whole = {c4}
  Domain <- MCDomain
  Answers <- MCAnswers
  Flags = {FALSE}
  Executors = {e1}
  MaxExtract = 2
  MaxVerify = 2
  MaxDetect = 3
  MaxPairs = 2
  MaxReport = 2
  MaxDrafts = 1
  MaxStatements = 3
  MaxFaults = 2
CHECK_DEADLOCK FALSE
INVARIANTS
  CitedWasVerified
  CitedIsVerified
  StatusIsLastVerdict
  EveryDraftIsJudged
  PairConfirmedOnce
  ConflictsAreDisclosed
  SupportIsEarned
PROPERTIES
  ImplementsLedger
  KnowledgeCompletes
