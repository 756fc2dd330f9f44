SPECIFICATION PrepSpec
CONSTANTS
  Pkgs <- Four
  Requests <- SomeRequests
  Additions <- SomeAdditions
  DupFails = TRUE
INVARIANTS
  NothingBroken
  SelectedAsDocumented
  SortedByDeps
  IndirectOrder
PROPERTIES
  Terminates
