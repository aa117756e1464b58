SPECIFICATION Spec
CONSTANTS
  s1 = s1
  s2 = s2
  e1 = e1
  e2 = e2
  e3 = e3
  numCPUs = 2
  Sockets = {s1}
  Topics = {"all", "deep"}
  Events = {e1}
  Broken = {}
  Versions <- Offers
  supportedEiffelVersion = 2
  Verdict <- WithDeep
  MaxRequests = 1
  MaxDeaths = 0
INVARIANTS
  SentToAll
CHECK_DEADLOCK FALSE
