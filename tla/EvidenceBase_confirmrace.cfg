\* Two executors judge the same pair.
SPECIFICATION Spec
CONSTANTS
  p1 = p1 p2 = p2 p3 = p3 c1 = c1 c2 = c2 c3 = c3 c4 = c4 d1 = d1 d2 = d2
  Score <- MCScore
  Whole = {c4}
  Passages = {p1}
  Blank = {}
  Domain <- MCDomain
  Answers <- MCOneClaim
  Flags = {FALSE}
  Executors = {e1, e2}
  MaxExtract = 2
  MaxVerify = 4
  MaxDetect = 3
  MaxPairs = 2
  MaxReport = 2
  MaxDrafts = 1
  MaxStatements = 2
  MaxFaults = 0
CHECK_DEADLOCK FALSE
INVARIANT
  PairConfirmedOnce
