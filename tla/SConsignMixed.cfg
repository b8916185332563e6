SPECIFICATION Spec
CONSTANTS
  code = code
  header = header
  object = object
  program = program
  Source = {code, header}
  Target = {object, program}
  Top = program
  Sources <- SourcesOf
  Includes <- IncludesOf
  Worlds <- OnlyRough
  MaxEdits = 2
  MaxVersion = 2
  MaxBuilds = 3
INVARIANT OnePointInTime
CHECK_DEADLOCK FALSE
