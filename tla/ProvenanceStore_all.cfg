\* Two collectors and the stages of a run while the schema is upgraded and
\* downgraded.
SPECIFICATION FairSpec
CONSTANTS
  k1 = k1 k2 = k2 page = page bad = bad
  Runs = {r1, r2}
  Executed = {r1}
  Collectors = {k1, k2}
  Serves <- MCServes
  Unsafe = {bad}
INVARIANTS
  SchemaIsDeclared
  UpgradeApplies
  CollectReturnsWhole
PROPERTIES
  HistoryIsKept
  CollectsSucceed
