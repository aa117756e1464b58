SPECIFICATION Spec
CONSTANTS
  s1 = s1
  s2 = s2
  e1 = e1
  e2 = e2
  e3 = e3
  numCPUs = 2
  Sockets = {s1}
  Topics = {"all", "job"}
  Events = {e2}
  Broken = {}
  Versions <- Offers
  supportedEiffelVersion = 2
  Verdict <- Plain
  MaxRequests = 1
  MaxDeaths = 0
INVARIANTS
  HighestSupported
CHECK_DEADLOCK FALSE
