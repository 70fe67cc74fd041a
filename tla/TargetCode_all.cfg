CONSTANTS
  Names = {1}
  Templates <- MCTemplates
  Followers <- MCFollowers
  ExpandSize = 2
  TempSpaces = {"program_variable", "garbage"}
  MaxStatements = 3
SPECIFICATION FairSpec
INVARIANTS
  TypeOK
  EntriesUsedOnce
  FileMeansProgram
  FunctionsAreSkipped
PROPERTIES
  ImplementsTranslation
  EndsEventually
