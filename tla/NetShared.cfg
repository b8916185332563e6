SPECIFICATION Spec
CONSTANTS
  Clients = {c1, c2}
  Foreign = {c2}
  s1 = s1
  s2 = s2
  Servers = {s1}
  HostList <- OneHost
  NEvents = 2
  Retries = 1
  Conns = {k1, k2, k3, k4, k5, k6}
  None = None
  MaxFaults = 2
INVARIANTS TypeOK AnswerIsForEvent OneInFlight TakenWasServed
PROPERTY ImplementsRemoteLoop
CHECK_DEADLOCK FALSE
