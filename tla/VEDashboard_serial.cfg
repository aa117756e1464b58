SPECIFICATION FairSpec
CONSTANTS
  s1 = s1
  s2 = s2
  t1 = t1
  m1 = m1
  m2 = m2
  m3 = m3
  m4 = m4
  Sessions = {s1, s2}
  Topics = {t1}
  Messages = {m1, m2, m3, m4}
  Matching <- Ends
  Parent <- Family
  Earlier <- InTurn
  Kind <- Verdict
  Malformed = {}
  MaxRequests = 1
  MaxMail = 1
  Plugins = {}
  SendThrows = FALSE
  Barebone = {TRUE, FALSE}
  Router = "serial"
PROPERTIES
  SubscriptionTakesEffect
  EventsReachSubscribers
  ClosedIsForgotten
CHECK_DEADLOCK FALSE
