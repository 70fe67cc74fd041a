CONSTANTS
  Var = {"x", "y"}
  Fun = {"f", "x"}
  Temp = {"t"}
  Hash <- SmallHash
  BucketSizes <- TwoGrowths
  InitialScopes = 3
  Shadowing = "outer"
  MaxEntries = 4
  MaxDepth = 3
SPECIFICATION Spec
INVARIANTS
  LastOpenIsInnermost
