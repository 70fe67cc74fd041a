CONSTANTS
  Name = {"x", "print"}
  Lib <- OneLibrary
  Programs <- AnyKind
  AnonymousNames <- Anonymous
SPECIFICATION Spec
INVARIANTS
  TypeOK
  VerdictRight
  OpenIffNested
