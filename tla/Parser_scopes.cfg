CONSTANTS
  Var = {"x", "print"}
  Fun = {"f"}
  Lib <- OneLibrary
  TempNames <- Temporaries
  AnonymousNames <- Anonymous
  Features = {"use", "local", "global", "block", "function", "assign"}
  MaxQuads = 5
  MaxEntries = 5
  MaxDepth = 5
SPECIFICATION Spec
INVARIANTS
  TypeOK
  AccessRule
  OpenIffNested
  BoundOnce
  ActiveScopes
  SlotsDistinct
  FrameSize
