CONSTANTS
  Var = {}
  Fun = {"f"}
  Lib <- NoLibrary
  TempNames <- Temporaries
  AnonymousNames <- Anonymous
  Features = {"function", "return", "if", "else", "while", "for", "break", "continue", "code", "block"}
  MaxQuads = 8
  MaxEntries = 2
  MaxDepth = 5
SPECIFICATION Spec
INVARIANTS
  PatchedOnce
  NoDanglingJump
  BlockStackMatchesNesting
PROPERTIES
  JumpsReachOwner
