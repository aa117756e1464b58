SPECIFICATION FairSpec
CONSTANTS
  s1 = s1
  s2 = s2
  t1 = t1
  m1 = m1
  m2 = m2
  m3 = m3
  m4 = m4
  Sessions = {s1, s2}
  Topics = {t1}
  Messages = {m1, m2, m3}
  Matching <- First
  Parent <- Triple
  Earlier <- AfterThird
  Kind <- Untyped
  Malformed = {m3}
  MaxRequests = 1
  MaxMail = 1
  Plugins = {s1}
  SendThrows = TRUE
  Barebone = {TRUE}
  Router = "racy"
INVARIANTS
  TypeOK
  DeliveredInOrder
  FollowsHierarchy
PROPERTIES
  EveryEventHandled
CHECK_DEADLOCK FALSE
