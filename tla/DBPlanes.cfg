SPECIFICATION Spec
CONSTANTS
  Names = {2}
  Runs = {1, 2}
  Contents <- MCContents
  InitDocs <- MCInitDocs
  Increments = {1}
  MaxAppends = 1
  Table = 2
  Fields <- TwoFields
  SetValues <- MCSetValues
  Files <- MCFiles
  None = None
INVARIANTS ReadYourSets AskedOnce
PROPERTY ReadsDoNotDisturb
CHECK_DEADLOCK FALSE
