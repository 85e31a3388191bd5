\* One executor, interrupted once while it extracts or, with the other
\* invariant in place of this one, between two domains of find.
SPECIFICATION Spec
CONSTANTS
  p1 = p1 p2 = p2 p3 = p3 c1 = c1 c2 = c2 c3 = c3 c4 = c4 d1 = d1 d2 = d2
  Score <- MCScore
  Whole = {c4}
  Passages = {p1, p2}
  Blank = {}
  Domain <- MCDomain
  Answers <- MCOneClaim
  Flags = {FALSE}
  Executors = {e1}
  MaxExtract = 2
  MaxVerify = 4
  MaxDetect = 3
  MaxPairs = 2
  MaxReport = 2
  MaxDrafts = 1
  MaxStatements = 4
  MaxFaults = 1
CHECK_DEADLOCK FALSE
INVARIANT
  NoDuplicateExtraction
  \* OneFindingPerDomain
