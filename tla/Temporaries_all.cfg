CONSTANTS
  Var = {"x"}
  Fun = {"f"}
  MaxEntries = 5
  MaxQualified = 4
  MaxFrames = 3
  MaxOperands = 2
SPECIFICATION Spec
INVARIANTS
  TypeOK
  OperandsKept
  SlotsFill
  OperandsReachable
