SPECIFICATION Spec
CONSTANTS
  f1 = f1
  f2 = f2
  r1 = r1
  r2 = r2
  Files = {f1, f2}
  DefaultFile = f1
  Runs = {r1, r2}
  Sim = Sim
  None = None
  Freed = Freed
  MaxJobs = 2
  MaxProcs = 2
  MaxLoops = 2
  MaxEvents = 1
INVARIANTS TypeOK RecordsWrittenOnce SelfContained StatusHonest
PROPERTIES RecordFollows
CHECK_DEADLOCK FALSE
