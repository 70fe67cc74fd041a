CONSTANTS
  Keys = {0}
  Modulus = 4
  Programs <- LogicAndMemory
  Literals <- Zero
  MaxArgs = 0
  MaxMethodArgs = 0
  MaxItems = 3
SPECIFICATION Spec
INVARIANTS
  CodeComputes
  JumpsHeldOnce
