SPECIFICATION FairSpec
CONSTANTS
  linesPerThread = 2
  failBuildOnError = TRUE
  MaxLines = 4
  MaxFailures = 2
INVARIANTS
  OwnLine
  
  NoErrorInvented
PROPERTIES
  Ends
CHECK_DEADLOCK FALSE
