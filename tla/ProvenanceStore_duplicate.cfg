\* Two runs collect the same page at once.
SPECIFICATION Spec
CONSTANTS
  k1 = k1 k2 = k2 page = page bad = bad
  Runs = {r1, r2}
  Executed = {r1}
  Collectors = {k1, k2}
  Serves <- MCServes
  Unsafe = {bad}
INVARIANT
  CollectedOnce
