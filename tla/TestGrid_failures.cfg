SPECIFICATION FairSpec
CONSTANTS
  n1 = n1
  n2 = n2
  t1 = t1
  t2 = t2
  Nodes = {n1, n2}
  MemberOrder <- TwoNodes
  Threads = {t1, t2}
  Specifications <- MixedClients
  Deadline = TRUE
  Delayed = FALSE
  CanFail = TRUE
INVARIANTS
  TypeOK
  CounterCoversOutstanding
PROPERTIES
  NodesGetIdle
CHECK_DEADLOCK FALSE
