SPECIFICATION Spec
CONSTANTS
  Clients = {c1}
  Foreign = {}
  s1 = s1
  s2 = s2
  Servers = {s1}
  HostList <- OneHost
  NEvents = 1
  Retries = 1
  Conns = {k1, k2, k3, k4, k5}
  None = None
  MaxFaults = 2
INVARIANTS AwaitsSentEvent
CHECK_DEADLOCK FALSE
