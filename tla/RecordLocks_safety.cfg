SPECIFICATION Spec
CONSTANTS
  Requests = {r1, r2, r3}
  Records <- TwoRecords
  Selections <- SomeSelections
  Timeouts = {0, 1}
  MaxFaults = 1
  CanCrash = TRUE
SYMMETRY RequestSymmetry
INVARIANTS
  TypeOK
  MutualExclusion
  HeldWhileActive
  RefusedLeavesNothing
  SomeoneIsNotRefused
PROPERTIES
  FreesOnlyItsOwn
  ImplementsLeases
CHECK_DEADLOCK FALSE
