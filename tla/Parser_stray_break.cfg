CONSTANTS
  Var = {}
  Fun = {"f"}
  Lib <- NoLibrary
  TempNames <- Temporaries
  AnonymousNames <- Anonymous
  Features = {"for", "break", "block"}
  MaxQuads = 6
  MaxEntries = 2
  MaxDepth = 4
SPECIFICATION Spec
INVARIANTS
  BreaksHaveLoops
