SPECIFICATION Spec
CONSTANTS
  s1 = s1
  s2 = s2
  t1 = t1
  m1 = m1
  m2 = m2
  m3 = m3
  m4 = m4
  Sessions = {s1, s2}
  Topics = {t1}
  Messages = {m1, m2}
  Matching <- First
  Parent <- Couple
  Earlier <- AnyOrder
  Kind <- Untyped
  Malformed = {m2}
  MaxRequests = 2
  MaxMail = 1
  Plugins = {s1}
  SendThrows = TRUE
  Barebone = {TRUE, FALSE}
  Router = "steps"
INVARIANTS
  TablesAgree
  LeavesNothing
CHECK_DEADLOCK FALSE
