CONSTANTS
  Inputs <- MCInputs
  Keywords <- MCKeywords
  MAX_LEXEME = 9
SPECIFICATION Spec
INVARIANTS
  TypeOK
  CommentsNest
  AgreesWithFlex
PROPERTIES
  ScansToTheEnd
