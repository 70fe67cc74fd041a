CONSTANTS
  Keys = {0}
  Modulus = 4
  Programs <- OnlyCalls
  Literals <- Zero
  MaxArgs = 2
  MaxMethodArgs = 1
  MaxItems = 3
SPECIFICATION Spec
INVARIANTS
  TypeOK
  CodeComputes
