SPECIFICATION FairSpec
CONSTANTS
  r1 = r1
  r2 = r2
  r3 = r3
  x1 = x1
  e1 = e1
  Regions = {r1, r2, r3}
  TreeMaps = {r1, r2}
  Topics = {"test.execution", "suite"}
  JiraTopic = "test.execution"
  Executions = {x1}
  Results = {"success", "failure"}
  Epics = {e1}
  Matching <- AllMatch
  Rank <- SuiteFirst
  MaxClicks = 2
  MaxEvents = 2
  MaxDrops = 1
INVARIANTS
  TypeOK
  RoutesFollow
  CollectionAgrees
PROPERTIES
  RemovedGetsNothing
  TheFirstIsAnswered
CHECK_DEADLOCK FALSE
