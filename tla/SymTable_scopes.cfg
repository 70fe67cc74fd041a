CONSTANTS
  Var = {"x"}
  Fun = {"f", "x"}
  Temp = {"t"}
  Hash <- SmallHash
  BucketSizes <- NoGrowth
  InitialScopes = 3
  Shadowing = "any"
  MaxEntries = 4
  MaxDepth = 4
SPECIFICATION Spec
INVARIANTS
  AnswersRight
  GetIsNewest
  NoGhosts
  LastOpenIsInnermost
PROPERTIES
  ImplementsScoping
