SPECIFICATION Spec
CONSTANTS
  MaxRuns = 2
  Patience = 1
  ChildFirst = FALSE
INVARIANTS UrlIsOwn
CHECK_DEADLOCK FALSE
