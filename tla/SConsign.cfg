SPECIFICATION Spec
CONSTANTS
  code = code
  header = header
  object = object
  program = program
  Source = {code, header}
  Target = {object, program}
  Top = program
  Sources <- SourcesOf
  Includes <- IncludesOf
  Worlds <- CalmOrRough
  MaxEdits = 2
  MaxVersion = 2
  MaxBuilds = 3
INVARIANTS TypeOK UpToDate
PROPERTY NothingToDo
CHECK_DEADLOCK FALSE
