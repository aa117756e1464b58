SPECIFICATION FairSpec
CONSTANTS
  s1 = s1
  s2 = s2
  e1 = e1
  e2 = e2
  e3 = e3
  numCPUs = 2
  Sockets = {s1}
  Topics = {"all", "job"}
  Events = {e2, e3}
  Broken = {}
  Versions <- Offers
  supportedEiffelVersion = 2
  Verdict <- Plain
  MaxRequests = 2
  MaxDeaths = 2
INVARIANTS
  TypeOK
  AlwaysAWorker
  NoDuplicates
  EvenlyShared
  RoomsAgree
  HighestOfItsShape
PROPERTIES
  EventsReachSockets
CHECK_DEADLOCK FALSE
