SPECIFICATION FairSpec
CONSTANTS
  Clients = {c1}
  Foreign = {}
  s1 = s1
  s2 = s2
  Servers = {s1, s2}
  HostList <- TwoHosts
  NEvents = 2
  Retries = 2
  Conns = {k1, k2, k3, k4, k5, k6, k7}
  None = None
  MaxFaults = 2
INVARIANTS AbandonedIsBroken PicksLeastLoaded
PROPERTIES Completes LoadSettles
CHECK_DEADLOCK FALSE
